------------------------------- MODULE Orders -------------------------------
(***************************************************************************)
(* OrderProjection and OrderBookProjection of                              *)
(* mvp/autotrade_mvp/order_projection.py: what each observation of the     *)
(* provider and each local command does to a book, a function from         *)
(* client_order_id values to order records. For an operation Op,           *)
(* CanOp says that the code raises no error and Oped is the order after it.*)
(*                                                                         *)
(* The price of a fill, which the code only compares, is left out: the     *)
(* quantity alone tells two observations apart. Of the order's indexes     *)
(* only the history is kept; _revision_records and _provider_execution_ids *)
(* hold what the history holds, by another key.                            *)
(***************************************************************************)
EXTENDS Naturals, FiniteSets, FiniteSetsExt

CONSTANTS
  Orders,       \* client_order_id values
  Groups,       \* oco_group_id values
  Sizes,        \* requested quantities
  FillIds,      \* fill_id and correction_fill_id values
  Executions,   \* provider_execution_id values
  Revisions,    \* provider_revision values
  Quantities,   \* quantities of fills
  Attempts,     \* attempt_id values
  ProviderIds,  \* provider_order_id values
  Commands,     \* command_id values
  None          \* Python's None

ASSUME OrdersAssumption ==
  /\ Sizes \subseteq Nat \ {0}
  /\ Quantities \subseteq Nat \ {0}
  /\ None \notin Orders \cup Groups \cup FillIds \cup Revisions
                 \cup Attempts \cup ProviderIds \cup Commands

\* FillRecord: one immutable observation of an execution.
Observations ==
  [fid : FillIds, exec : Executions, qty : Quantities, active : BOOLEAN,
   rev : Revisions \cup {None}, of : FillIds \cup {None}]

\* The fill that an observation is about.
Root(h) == IF h.of = None THEN h.fid ELSE h.of

Outcomes == {"ACCEPTED", "REJECTED", "UNKNOWN"}

OrderRecords ==
  [known : BOOLEAN, size : Sizes \cup {0}, group : Groups \cup {None},
   parent : Orders \cup {None},
   att : Attempts \cup {None}, pid : ProviderIds \cup {None},
   sub : Outcomes \cup {"None"}, rejected : BOOLEAN,
   cancelRequested : BOOLEAN, cancelCommand : Commands \cup {None},
   cancelled : BOOLEAN,
   replaceRequested : BOOLEAN, replaceCommand : Commands \cup {None},
   resolved : SUBSET Commands, expired : BOOLEAN,
   fills : [FillIds -> Observations \cup {None}], history : SUBSET Observations]

NoOrder ==
  [known |-> FALSE, size |-> 0, group |-> None, parent |-> None,
   att |-> None, pid |-> None, sub |-> "None", rejected |-> FALSE,
   cancelRequested |-> FALSE, cancelCommand |-> None, cancelled |-> FALSE,
   replaceRequested |-> FALSE, replaceCommand |-> None, resolved |-> {},
   expired |-> FALSE, fills |-> [f \in FillIds |-> None], history |-> {}]

Books == [Orders -> OrderRecords]

EmptyBook == [o \in Orders |-> NoOrder]

-----------------------------------------------------------------------------
\* filled_quantity
ActiveFills(r) == {f \in FillIds : r.fills[f] # None /\ r.fills[f].active}

FilledQuantity(r) == MapThenSumSet(LAMBDA f : r.fills[f].qty, ActiveFills(r))

\* _state_without_oco
Ended(r) == r.cancelled \/ r.expired \/ r.rejected

EndName(r) ==
  CASE r.cancelled -> "CANCEL" [] r.expired -> "EXPIRY" [] OTHER -> "REJECT"

Pending(r) ==
  CASE r.cancelRequested -> "CANCEL"
    [] r.replaceRequested -> "REPLACE"
    [] OTHER -> "None"

Working(r) ==
  CASE r.sub = "ACCEPTED" -> "WORKING"
    [] r.sub = "UNKNOWN" -> "UNKNOWN"
    [] r.att # None -> "SEND_STARTED"
    [] OTHER -> "PENDING"

\* How much is filled, what ended the order, what is pending on it and, when
\* nothing of that is known, how far its submission is.
StateOf(r) ==
  LET filled == FilledQuantity(r)
      onlyRejected == r.rejected /\ ~r.cancelled /\ ~r.expired
      amount == CASE filled > r.size -> "OVERFILLED"
                  [] filled = r.size \/ (onlyRejected /\ filled > 0) -> "FILLED"
                  [] filled > 0 -> "PARTIALLY_FILLED"
                  [] OTHER -> "NOTHING"
  IN CASE Ended(r) -> <<amount, "AFTER", EndName(r)>>
       [] amount = "FILLED" -> <<amount, "OPEN", "None">>
       [] Pending(r) # "None" -> <<amount, "DURING", Pending(r)>>
       [] amount = "NOTHING" -> <<amount, "OPEN", Working(r)>>
       [] OTHER -> <<amount, "OPEN", "None">>

\* _snapshot_payload: what an event says of its order.
Snapshot(r) ==
  [state |-> StateOf(r), filled |-> FilledQuantity(r), pid |-> r.pid, att |-> r.att,
   fills |-> Cardinality(ActiveFills(r)), observations |-> Cardinality(r.history),
   cancel |-> <<r.cancelRequested, r.cancelled, r.cancelCommand>>,
   replace |-> <<r.replaceRequested, r.replaceCommand>>, expired |-> r.expired]

-----------------------------------------------------------------------------
\* register, through create: a replacement names its parent, which has at most
\* one, in the parent's OCO group.
CanCreate(b, o, group, parent) ==
  /\ ~b[o].known
  /\ parent # None => /\ b[parent].known
                      /\ b[parent].group = group
                      /\ \A q \in Orders : b[q].parent # parent

Created(size, group, parent) ==
  [NoOrder EXCEPT !.known = TRUE, !.size = size, !.group = group, !.parent = parent]

\* _bind_submission_attempt, which is all mark_send_started does
CanBind(r, a) == r.att \in {a, None}

Bound(r, a) == [r EXCEPT !.att = a]

\* acknowledge: UNKNOWN can still be resolved, the other outcomes are final.
CanAcknowledge(r, a, pid, outcome) ==
  /\ a # None => CanBind(r, a)
  /\ pid # None => r.pid \in {pid, None}
  /\ r.sub \in {"ACCEPTED", "REJECTED"} => outcome = r.sub

Acknowledged(r, a, pid, outcome) ==
  [r EXCEPT !.att = IF a # None THEN a ELSE @,
            !.pid = IF pid # None THEN pid ELSE @,
            !.rejected = @ \/ outcome = "REJECTED",
            !.sub = outcome]

\* A fill as the provider reports it first.
Fill(f, e, n, rev) ==
  [fid |-> f, exec |-> e, qty |-> n, active |-> TRUE, rev |-> rev, of |-> None]

\* Mutant: an execution id is taken only while its fill is active.
CanRecordFillAgain(r, h) ==
  \/ h \in r.history
  \/ /\ \A g \in r.history : g.fid # h.fid
     /\ \A f \in ActiveFills(r) : r.fills[f].exec # h.exec

\* Mutant: the fill of an order that has ended is refused.
CanRecordFillWhileOpen(r, h) ==
  \/ h \in r.history
  \/ /\ ~Ended(r)
     /\ \A g \in r.history : g.fid # h.fid /\ g.exec # h.exec

\* record_fill, in whatever state the order is. What is in the history already
\* is not applied again.
CanRecordFill(r, h) ==
  \/ h \in r.history
  \/ /\ \A g \in r.history : g.fid # h.fid /\ g.exec # h.exec
     /\ \A g \in r.history : h.rev # None => ~(Root(g) = h.fid /\ g.rev = h.rev)

\* Mutant: a fill that is delivered again replaces what is known of it.
FillRecordedAgain(r, h) ==
  [r EXCEPT !.fills[h.fid] = h, !.history = @ \cup {h}]

FillRecorded(r, h) ==
  IF h \in r.history THEN r
  ELSE [r EXCEPT !.fills[h.fid] = h, !.history = @ \cup {h}]

\* _apply_revision: h is a new observation of the fill h.of.
CanRevise(r, h) ==
  LET prior == {g \in r.history : Root(g) = h.of /\ g.rev = h.rev} IN
  IF prior # {} THEN prior = {h}
  ELSE h.fid # h.of => \A g \in r.history : g.fid = h.fid => g = h

Revised(r, h) ==
  IF h \in r.history THEN r
  ELSE [r EXCEPT !.fills[h.of] = h, !.history = @ \cup {h}]

\* Mutant: the bust leaves nothing of the quantity.
BustToZero(r, f, rev, id) ==
  [r.fills[f] EXCEPT !.fid = id, !.qty = 0, !.active = FALSE, !.rev = rev, !.of = f]

\* The observation that bust_fill makes of a fill: its quantity of now, inactive.
Bust(r, f, rev, id) ==
  [r.fills[f] EXCEPT !.fid = id, !.active = FALSE, !.rev = rev, !.of = f]

\* Mutant: a correction makes the fill count, busted or not.
CorrectionOfAny(r, f, n, rev, id) ==
  [r.fills[f] EXCEPT !.fid = id, !.qty = n, !.active = TRUE, !.rev = rev, !.of = f]

\* The observation that correct_fill makes: a busted fill stays inactive.
Correction(r, f, n, rev, id) ==
  [r.fills[f] EXCEPT !.fid = id, !.qty = n, !.rev = rev, !.of = f]

-----------------------------------------------------------------------------
\* request_cancel
CanRequestCancel(r, c) ==
  \/ r.cancelCommand = c
  \/ /\ r.cancelCommand = None
     /\ ~r.replaceRequested
     /\ ~r.rejected /\ ~r.expired

CancelRequested(r, c) ==
  IF r.cancelCommand = c THEN r
  ELSE [r EXCEPT !.cancelCommand = c, !.cancelRequested = @ \/ ~r.cancelled]

\* reject_cancel
CanRejectCancel(r, c) == ~r.cancelled /\ r.cancelRequested /\ r.cancelCommand = c

CancelRejected(r) == [r EXCEPT !.cancelRequested = FALSE, !.cancelCommand = None]

\* Mutant: a replacement does not wait for a pending cancellation.
CanRequestReplaceAnyway(r, c) ==
  /\ c \notin r.resolved
  /\ r.replaceCommand \in {c, None}

\* request_replace
CanRequestReplace(r, c) ==
  /\ c \notin r.resolved
  /\ \/ r.replaceCommand = c
     \/ /\ r.replaceCommand = None
        /\ ~r.cancelRequested
        /\ ~Ended(r)
        /\ FilledQuantity(r) < r.size

ReplaceRequested(r, c) == [r EXCEPT !.replaceCommand = c, !.replaceRequested = TRUE]

\* reject_replace
CanRejectReplace(r, c) == r.replaceRequested /\ r.replaceCommand = c

ReplaceRejected(r, c) ==
  [r EXCEPT !.resolved = @ \cup {c}, !.replaceRequested = FALSE, !.replaceCommand = None]

\* confirm_cancel
CanConfirmCancel(r) == ~r.rejected /\ ~r.expired /\ ~r.replaceRequested

CancelConfirmed(r) == [r EXCEPT !.cancelRequested = TRUE, !.cancelled = TRUE]

\* confirm_expired
CanConfirmExpired(r) ==
  ~r.rejected /\ ~r.cancelled /\ ~r.cancelRequested /\ ~r.replaceRequested

Expired(r) == [r EXCEPT !.expired = TRUE]

-----------------------------------------------------------------------------
\* historical_execution_observed
ExecutionObserved(r) == \E h \in r.history : h.active

\* Mutant: only what is filled now.
OcoBreachesNow(b) ==
  {o \in Orders : /\ b[o].group # None /\ ActiveFills(b[o]) # {}
                  /\ \E q \in Orders \ {o} : /\ b[q].group = b[o].group
                                             /\ ActiveFills(b[q]) # {}}

\* oco_breaches: the orders of a group of which several have executed.
OcoBreaches(b) ==
  {o \in Orders : /\ b[o].group # None /\ ExecutionObserved(b[o])
                  /\ \E q \in Orders \ {o} : /\ b[q].group = b[o].group
                                             /\ ExecutionObserved(b[q])}

=============================================================================
