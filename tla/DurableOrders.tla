--------------------------- MODULE DurableOrders ---------------------------
(***************************************************************************)
(* DurableOrderBookProjection of                                           *)
(* mvp/autotrade_mvp/durable_order_projection.py: one book per provider    *)
(* account, kept as events of the journal under caller's event_keys.       *)
(* Observations of the provider and local commands arrive in any order and *)
(* more than once, under the same event_key or another one. A call replays *)
(* the events, applies its request to the replayed book and appends one    *)
(* event if nobody has appended since, so calls take effect one at a time; *)
(* module FillCommits has the calls that race.                             *)
(***************************************************************************)
EXTENDS Orders

CONSTANTS
  Keys,       \* event_key values of commands and observations
  Existing    \* orders that are registered at the start

ASSUME ExistingAssumption == Existing \subseteq Orders

VARIABLES
  book,     \* what a replay of the committed events gives
  log       \* event_key -> the request committed under it

vars == <<book, log>>

\* sync_submission_attempt derives its event_key from the event it projects.
SyncKeys == Attempts \X (2..3)

AllKeys == Keys \cup SyncKeys

\* A request keeps the fields its operation has; the others are fillers.
Request(op, o) ==
  [op |-> op, order |-> o, size |-> 0, group |-> None, parent |-> None,
   att |-> None, pid |-> None, status |-> "None", fill |-> None, exec |-> None,
   qty |-> 0, rev |-> None, id |-> None, command |-> None]

CreateRequest(o, n, g, parent) ==
  [Request("CREATE", o) EXCEPT !.size = n, !.group = g, !.parent = parent]

SendStartedRequest(o, a) == [Request("MARK_SEND_STARTED", o) EXCEPT !.att = a]

AcknowledgeRequest(o, a, pid, outcome) ==
  [Request("ACKNOWLEDGE", o) EXCEPT !.att = a, !.pid = pid, !.status = outcome]

FillRequest(o, f, e, n, v) ==
  [Request("RECORD_FILL", o) EXCEPT !.fill = f, !.exec = e, !.qty = n, !.rev = v]

CorrectRequest(o, f, n, v, i) ==
  [Request("CORRECT_FILL", o) EXCEPT !.fill = f, !.qty = n, !.rev = v, !.id = i]

BustRequest(o, f, v, i) ==
  [Request("BUST_FILL", o) EXCEPT !.fill = f, !.rev = v, !.id = i]

CreateRequests ==
  {CreateRequest(o, n, g, parent) :
     o \in Orders, n \in Sizes, g \in Groups \cup {None}, parent \in Orders \cup {None}}

FillRequests ==
  {FillRequest(o, f, e, n, v) :
     o \in Orders, f \in FillIds, e \in Executions, n \in Quantities,
     v \in Revisions \cup {None}}

CorrectRequests ==
  {CorrectRequest(o, f, n, v, i) :
     o \in Orders, f \in FillIds, n \in Quantities, v \in Revisions, i \in FillIds}

BustRequests ==
  {BustRequest(o, f, v, i) :
     o \in Orders, f \in FillIds, v \in Revisions, i \in FillIds}

CommandRequests ==
  {[Request(op, o) EXCEPT !.command = c] :
     op \in {"REQUEST_CANCEL", "REJECT_CANCEL", "REQUEST_REPLACE", "REJECT_REPLACE"},
     o \in Orders, c \in Commands}

EndRequests ==
  {Request(op, o) : op \in {"CONFIRM_CANCEL", "CONFIRM_EXPIRED"}, o \in Orders}

LifecycleRequests == CommandRequests \cup EndRequests

Observed == CreateRequests \cup FillRequests \cup CorrectRequests
            \cup BustRequests \cup LifecycleRequests

SyncRequests ==
  {SendStartedRequest(o, a) : o \in Orders, a \in Attempts}
  \cup {AcknowledgeRequest(o, a, pid, outcome) :
     o \in Orders, a \in Attempts, pid \in ProviderIds \cup {None},
     outcome \in Outcomes}

Requests == Observed \cup SyncRequests

-----------------------------------------------------------------------------
FillOf(q) == Fill(q.fill, q.exec, q.qty, q.rev)

RevisionOf(r, q) ==
  IF q.op = "BUST_FILL" THEN Bust(r, q.fill, q.rev, q.id)
  ELSE Correction(r, q.fill, q.qty, q.rev, q.id)

\* _apply raises no error.
Accepts(b, q) ==
  LET r == b[q.order] IN
  IF q.op = "CREATE" THEN CanCreate(b, q.order, q.group, q.parent)
  ELSE /\ r.known
       /\ CASE q.op = "MARK_SEND_STARTED" -> CanBind(r, q.att)
            [] q.op = "ACKNOWLEDGE" -> CanAcknowledge(r, q.att, q.pid, q.status)
            [] q.op = "RECORD_FILL" -> CanRecordFill(r, FillOf(q))
            [] q.op \in {"CORRECT_FILL", "BUST_FILL"} ->
                 r.fills[q.fill] # None /\ CanRevise(r, RevisionOf(r, q))
            [] q.op = "REQUEST_CANCEL" -> CanRequestCancel(r, q.command)
            [] q.op = "REJECT_CANCEL" -> CanRejectCancel(r, q.command)
            [] q.op = "REQUEST_REPLACE" -> CanRequestReplace(r, q.command)
            [] q.op = "REJECT_REPLACE" -> CanRejectReplace(r, q.command)
            [] q.op = "CONFIRM_CANCEL" -> CanConfirmCancel(r)
            [] q.op = "CONFIRM_EXPIRED" -> CanConfirmExpired(r)

\* The order that _apply leaves.
Applied(b, q) ==
  LET r == b[q.order] IN
  CASE q.op = "CREATE" -> Created(q.size, q.group, q.parent)
    [] q.op = "MARK_SEND_STARTED" -> Bound(r, q.att)
    [] q.op = "ACKNOWLEDGE" -> Acknowledged(r, q.att, q.pid, q.status)
    [] q.op = "RECORD_FILL" -> FillRecorded(r, FillOf(q))
    [] q.op \in {"CORRECT_FILL", "BUST_FILL"} -> Revised(r, RevisionOf(r, q))
    [] q.op = "REQUEST_CANCEL" -> CancelRequested(r, q.command)
    [] q.op = "REJECT_CANCEL" -> CancelRejected(r)
    [] q.op = "REQUEST_REPLACE" -> ReplaceRequested(r, q.command)
    [] q.op = "REJECT_REPLACE" -> ReplaceRejected(r, q.command)
    [] q.op = "CONFIRM_CANCEL" -> CancelConfirmed(r)
    [] q.op = "CONFIRM_EXPIRED" -> Expired(r)

Apply(b, q) == [b EXCEPT ![q.order] = Applied(b, q)]

-----------------------------------------------------------------------------
\* The orders of Existing were registered before.
Init ==
  /\ \E n \in Sizes, g \in Groups \cup {None} :
       book = [o \in Orders |-> IF o \in Existing THEN Created(n, g, None) ELSE NoOrder]
  /\ log = [k \in AllKeys |-> None]

\* sync_submission_attempt projects the events of an attempt in turn, each
\* committed by itself; a call that died between two of them is repeated from
\* the start. The second event is SubmissionSending, and then the third is its
\* outcome, or SubmissionBlocked, which asks for nothing and can be followed
\* by a late SubmissionUnknown (module Dispatch).
SyncRequestsFor(a, n) ==
  LET sending == log[<<a, 2>>] IN
  CASE n = 2 /\ log[<<a, 3>>] = None ->
         {SendStartedRequest(o, a) : o \in Orders}
    [] n = 3 /\ sending # None ->
         {AcknowledgeRequest(sending.order, a, pid, outcome) :
            pid \in ProviderIds \cup {None}, outcome \in Outcomes}
    [] n = 3 /\ sending = None ->
         {AcknowledgeRequest(o, a, None, "UNKNOWN") : o \in Orders}
    [] OTHER -> {}

\* The requests that callers make under a key.
Offered(k) == IF k \in Keys THEN Observed ELSE SyncRequestsFor(k[1], k[2])

\* _prepare and _commit_prepared. A key that is committed is answered from the
\* replay, or refused when it is for another request; a request that _apply
\* refuses changes nothing.
Execute(k, q) ==
  /\ log[k] = None
  /\ Accepts(book, q)
  /\ log' = [log EXCEPT ![k] = q]
  /\ book' = Apply(book, q)

Next == \E k \in AllKeys : \E q \in Offered(k) : Execute(k, q)

Spec == Init /\ [][Next]_vars

-----------------------------------------------------------------------------
\* Type correctness.
TypeOK ==
  /\ book \in Books
  /\ log \in [AllKeys -> Requests \cup {None}]

(***************************************************************************)
(* A fill that is delivered again under a new event_key, after whatever    *)
(* corrections, busts, cancels and expiries, is accepted and changes       *)
(* nothing (record_fill: "Exact historical duplicates are harmless and     *)
(* must never roll the current projection backward").                      *)
(***************************************************************************)
FillsRedeliverable ==
  \A k \in AllKeys : log[k] # None /\ log[k].op = "RECORD_FILL" =>
    Accepts(book, log[k]) /\ Applied(book, log[k]) = book[log[k].order]

(***************************************************************************)
(* Fills race with the order's end and with commands on it. In every       *)
(* reachable state a fill that would be recorded is still recorded when a  *)
(* command, cancellation or expiry of the order comes first, and           *)
(* when both orders are possible they lead to the same order.              *)
(***************************************************************************)
FillsRaceSafely ==
  \A q \in FillRequests, l \in LifecycleRequests :
    (q.order = l.order /\ Accepts(book, q) /\ Accepts(book, l)) =>
      /\ Accepts(Apply(book, l), q)
      /\ Accepts(Apply(book, q), l) =>
           Apply(Apply(book, l), q) = Apply(Apply(book, q), l)

(***************************************************************************)
(* Cancel and replace are never pending together, and an order ends as     *)
(* expired with neither pending (confirm_expired, request_replace).        *)
(***************************************************************************)
OnePending ==
  \A o \in Orders :
    /\ ~(book[o].cancelRequested /\ book[o].replaceRequested)
    /\ book[o].expired => ~book[o].cancelRequested /\ ~book[o].replaceRequested

(***************************************************************************)
(* An execution of the provider is one fill of the order for ever: its     *)
(* corrections and its bust keep the execution id, and no other fill takes *)
(* it (record_fill, _apply_revision).  Of one order: that two orders       *)
(* report one execution, record_fill accepts and effective_fills refuses.  *)
(***************************************************************************)
ExecutionIsOneFill ==
  \A o \in Orders :
    \A g, h \in book[o].history : g.exec = h.exec <=> Root(g) = Root(h)

(***************************************************************************)
(* A double execution in an OCO group is never forgotten: a later bust or  *)
(* correction does not take it back (snapshots: "cannot erase the fact     *)
(* that both peers were previously observed as executed").                 *)
(***************************************************************************)
OcoNeverErased == [][OcoBreaches(book) \subseteq OcoBreaches(book')]_vars

(***************************************************************************)
(* A fill that was busted contributes nothing again, whatever corrections, *)
(* duplicates and late revisions follow.                                   *)
(***************************************************************************)
BustIsFinal ==
  [][\A o \in Orders, f \in FillIds :
       (book[o].fills[f] # None /\ ~book[o].fills[f].active)
         => f \notin ActiveFills(book'[o])]_vars

=============================================================================
