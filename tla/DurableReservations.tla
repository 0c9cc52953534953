------------------------ MODULE DurableReservations ------------------------
(***************************************************************************)
(* DurableReservationBook of mvp/autotrade_mvp/durable_reservations.py:    *)
(* one book per account, kept as events of the journal, changed by several *)
(* processes. Each of them replays the book, applies its request to the    *)
(* replayed copy and commits one event if the book's version has not moved *)
(* since; the commands of the simulation session and of provider activity  *)
(* also demand that nothing else was appended to the journal.              *)
(*                                                                         *)
(* Beside the book run the submission attempts of the same intents, reduced*)
(* to what the book reads of them (module Dispatch has the whole protocol),*)
(* and the reconciliation checkpoints that prove an attempt absent.        *)
(***************************************************************************)
EXTENDS Reservations

CONSTANTS
  Procs,         \* threads or processes that hold a DurableReservationBook
  Keys,          \* idempotency keys: as many events as the book can get
  NoRequest,
  Attempts,      \* attempt_id values
  Requirements,  \* amount maps the admissions ask for
  Available,     \* amount maps of availability the admissions are offered
  Usages,        \* amount maps of fills
  Resubmit       \* TRUE: a blocked intent may be given another attempt

ASSUME BookAssumption ==
  /\ Requirements \subseteq Amounts \ {Zero}
  /\ Available \subseteq Amounts
  /\ Usages \subseteq Amounts \ {Zero}
  /\ Resubmit \in BOOLEAN

VARIABLES
  book,      \* what a replay of the committed events gives
  log,       \* idempotency key -> the request that was committed under it
  version,   \* version of the reservation_book aggregate
  seq,       \* journal sequence
  plan,      \* process -> its prepared mutation
  tail,      \* attempt -> last event of its submission_attempt aggregate
  owner,     \* attempt -> intent named by its Prepared event
  wired,     \* attempts that have passed the send barrier
  absent     \* attempts that a complete checkpoint resolves PROVEN_ABSENT

bvars == <<book, log, version>>
avars == <<tail, owner, wired, absent>>
vars == <<bvars, seq, plan, avars>>

Tails == {"None", "Prepared", "Blocked", "Sending", "Sent", "Unknown"}

Ops == {"RESERVE", "CONSUME", "CONSUME_AND_MARK_FILLED", "RESTORE_CONSUMPTION",
        "MARK_UNKNOWN", "MARK_TERMINAL", "MARK_ZERO_WIRE_TERMINAL"}

\* A request keeps the fields its operation has; the others are fillers.
Request(op, r) ==
  [op |-> op, rid |-> r, intent |-> NoIntent, amounts |-> Zero,
   available |-> Zero, att |-> NoRequest]

ReserveRequest(r, i, needed, available) ==
  [Request("RESERVE", r) EXCEPT !.intent = i, !.amounts = needed,
                                !.available = available]

UsageRequest(op, r, usage) == [Request(op, r) EXCEPT !.amounts = usage]

EvidenceRequest(op, r, a) == [Request(op, r) EXCEPT !.att = a]

Requests ==
  {ReserveRequest(r, i, n, v) :
     r \in Rids, i \in Intents, n \in Requirements, v \in Available}
  \cup {UsageRequest(op, r, u) :
     op \in {"CONSUME", "CONSUME_AND_MARK_FILLED", "RESTORE_CONSUMPTION"},
     r \in Rids, u \in Usages}
  \cup {Request("MARK_UNKNOWN", r) : r \in Rids}
  \cup {EvidenceRequest(op, r, a) :
     op \in {"MARK_TERMINAL", "MARK_ZERO_WIRE_TERMINAL"},
     r \in Rids, a \in Attempts}

ASSUME NoRequestAssumption == NoRequest \notin Requests

\* Commands that always carry expected_journal_sequence. (A prepared CONSUME
\* does too, the one of consume() does not: the weaker of the two is kept.)
CutOps == {"CONSUME_AND_MARK_FILLED", "RESTORE_CONSUMPTION",
           "MARK_ZERO_WIRE_TERMINAL"}

Plans == [key : Keys, req : Requests, ver : Nat, cut : Nat, after : Books]

-----------------------------------------------------------------------------
\* Mutant: only the Prepared event of the attempt is read.
VerifyPreparedOnly(i, a) == owner[a] = i /\ tail[a] # "None"

\* _verify_zero_wire_blocked: the attempt's events are Prepared, Blocked, now.
VerifyZeroWireBlocked(i, a) == owner[a] = i /\ tail[a] = "Blocked"

\* _verify_resolution_evidence: durable UNKNOWN and a checkpoint that resolves it.
VerifyResolutionEvidence(i, a) ==
  owner[a] = i /\ tail[a] = "Unknown" /\ a \in absent

\* _replay verifies the evidence of every terminal event again.
Replayable ==
  \A k \in Keys : log[k] # NoRequest =>
    LET q == log[k] IN
    /\ q.op = "MARK_ZERO_WIRE_TERMINAL" =>
         VerifyZeroWireBlocked(book[q.rid].intent, q.att)
    /\ q.op = "MARK_TERMINAL" =>
         VerifyResolutionEvidence(book[q.rid].intent, q.att)

\* What each prepare_* method, or _commit for the plain commands, demands of
\* the replayed book b.
ReservePasses(b, q) == CanReserve(b, q.rid, q.intent, q.amounts, q.available)

ConsumePasses(b, q) == CanConsume(b, q.rid, q.amounts)

\* The OMS fill event that the request names is committed in the same command.
FilledPasses(b, q) == CanConsume(b, q.rid, q.amounts)

RestorePasses(b, q) == CanRestore(b, q.rid, q.amounts)

TerminalPasses(b, q) ==
  /\ VerifyResolutionEvidence(b[q.rid].intent, q.att)
  /\ CanMarkTerminal(b, q.rid, "PROVEN_ABSENT")

ZeroWirePasses(b, q) ==
  /\ VerifyZeroWireBlocked(b[q.rid].intent, q.att)
  /\ b[q.rid].state = "WORKING"
  /\ b[q.rid].consumed = Zero

Passes(b, q) ==
  CASE q.op = "RESERVE" -> ReservePasses(b, q)
    [] q.op = "CONSUME" -> ConsumePasses(b, q)
    [] q.op = "CONSUME_AND_MARK_FILLED" -> FilledPasses(b, q)
    [] q.op = "RESTORE_CONSUMPTION" -> RestorePasses(b, q)
    [] q.op = "MARK_UNKNOWN" -> CanMarkUnknown(b, q.rid)
    [] q.op = "MARK_TERMINAL" -> TerminalPasses(b, q)
    [] q.op = "MARK_ZERO_WIRE_TERMINAL" -> ZeroWirePasses(b, q)

\* _apply
Apply(b, q) ==
  CASE q.op = "RESERVE" -> Reserved(b, q.rid, q.intent, q.amounts)
    [] q.op = "CONSUME" -> Consumed(b, q.rid, q.amounts)
    [] q.op = "CONSUME_AND_MARK_FILLED" -> Filled(b, q.rid, q.amounts)
    [] q.op = "RESTORE_CONSUMPTION" -> Restored(b, q.rid, q.amounts)
    [] q.op = "MARK_UNKNOWN" -> MarkedUnknown(b, q.rid)
    [] q.op = "MARK_TERMINAL" -> MarkedTerminal(b, q.rid, "PROVEN_ABSENT")
    [] q.op = "MARK_ZERO_WIRE_TERMINAL" -> MarkedTerminal(b, q.rid, "REJECTED")

-----------------------------------------------------------------------------
Init ==
  /\ book = EmptyBook
  /\ log = [k \in Keys |-> NoRequest]
  /\ version = 0
  /\ seq = 0
  /\ plan = [p \in Procs |-> NoRequest]
  /\ tail = [a \in Attempts |-> "None"]
  /\ owner = [a \in Attempts |-> NoIntent]
  /\ wired = {}
  /\ absent = {}

\* The provider can execute the intent's order.
Fillable(i) == \E a \in wired \ absent : owner[a] = i

\* Requests their callers make: a usage comes from an execution of the order.
Offered(q) ==
  q.op \in {"CONSUME", "CONSUME_AND_MARK_FILLED"} => Fillable(book[q.rid].intent)

\* The read and the check of _commit and of the prepare_* methods. A key that
\* is already committed, a request that fails and a book that cannot be
\* replayed end the call without a change.
Prepare(p, k, q) ==
  /\ plan[p] = NoRequest
  /\ log[k] = NoRequest
  /\ Replayable
  /\ Offered(q)
  /\ Passes(book, q)
  /\ plan' = [plan EXCEPT ![p] = [key |-> k, req |-> q, ver |-> version,
                                  cut |-> seq, after |-> Apply(book, q)]]
  /\ UNCHANGED <<bvars, seq, avars>>

\* Mutant: the event is appended at whatever version the book has by then.
CommitUnfenced(pl) == log[pl.key] = NoRequest

\* commit_command: a fresh key, and the fences.
CommitFits(pl) ==
  /\ log[pl.key] = NoRequest
  /\ version = pl.ver
  /\ pl.req.op \in CutOps => seq = pl.cut

Commit(p) ==
  /\ plan[p] # NoRequest
  /\ CommitFits(plan[p])
  /\ book' = plan[p].after
  /\ log' = [log EXCEPT ![plan[p].key] = plan[p].req]
  /\ version' = version + 1
  /\ seq' = seq + 1
  /\ plan' = [plan EXCEPT ![p] = NoRequest]
  /\ UNCHANGED avars

\* The process lost the race, or died.
Drop(p) ==
  /\ plan[p] # NoRequest
  /\ plan' = [plan EXCEPT ![p] = NoRequest]
  /\ UNCHANGED <<bvars, seq, avars>>

-----------------------------------------------------------------------------
\* Submission attempts, as module Dispatch has them.

AppendAttempt(a, type) ==
  /\ tail' = [tail EXCEPT ![a] = type]
  /\ seq' = seq + 1

\* SubmissionPrepared. The simulation session derives one attempt_id per intent.
PrepareAttempt(a, i) ==
  /\ tail[a] = "None"
  /\ \A b \in Attempts : owner[b] = i => Resubmit /\ tail[b] = "Blocked"
  /\ AppendAttempt(a, "Prepared")
  /\ owner' = [owner EXCEPT ![a] = i]
  /\ UNCHANGED <<bvars, plan, wired, absent>>

BlockAttempt(a) ==
  /\ tail[a] = "Prepared"
  /\ AppendAttempt(a, "Blocked")
  /\ UNCHANGED <<bvars, plan, owner, wired, absent>>

\* The send barrier: the intent is not bound, and dispatch_allowed has found
\* its reservation WORKING in the journal that the barrier commits on. (It also
\* asks that the reservation is the book's last event; module Authority has that.)
SendAttempt(a) ==
  /\ tail[a] = "Prepared"
  /\ \A b \in wired : owner[b] # owner[a]
  /\ \E r \in Rids : book[r].intent = owner[a] /\ book[r].state = "WORKING"
  /\ AppendAttempt(a, "Sending")
  /\ wired' = wired \cup {a}
  /\ UNCHANGED <<bvars, plan, owner, absent>>

SettleAttempt(a) ==
  /\ tail[a] = "Sending"
  /\ \E type \in {"Sent", "Unknown"} : AppendAttempt(a, type)
  /\ UNCHANGED <<bvars, plan, owner, wired, absent>>

\* Dispatch!GuardFailed: a call whose attempt recovery has fenced.
LateUnknown(a) ==
  /\ tail[a] = "Blocked"
  /\ AppendAttempt(a, "Unknown")
  /\ UNCHANGED <<bvars, plan, owner, wired, absent>>

\* A complete, consistent, non-blocking checkpoint says PROVEN_ABSENT. The
\* provider's evidence is taken as true: nothing will execute.
ResolveAbsent(a) ==
  /\ tail[a] = "Unknown"
  /\ a \notin absent
  /\ absent' = absent \cup {a}
  /\ seq' = seq + 1
  /\ UNCHANGED <<bvars, plan, tail, owner, wired>>

Next ==
  \/ \E p \in Procs, k \in Keys, q \in Requests : Prepare(p, k, q)
  \/ \E p \in Procs : Commit(p) \/ Drop(p)
  \/ \E a \in Attempts, i \in Intents : PrepareAttempt(a, i)
  \/ \E a \in Attempts :
       BlockAttempt(a) \/ SendAttempt(a) \/ SettleAttempt(a)
       \/ LateUnknown(a) \/ ResolveAbsent(a)

Spec == Init /\ [][Next]_vars

-----------------------------------------------------------------------------
\* Type correctness.
TypeOK ==
  /\ book \in Books
  /\ log \in [Keys -> Requests \cup {NoRequest}]
  /\ version \in Nat
  /\ seq \in Nat
  /\ plan \in [Procs -> Plans \cup {NoRequest}]
  /\ tail \in [Attempts -> Tails]
  /\ owner \in [Attempts -> Intents \cup {NoIntent}]
  /\ wired \subseteq Attempts
  /\ absent \subseteq Attempts

(***************************************************************************)
(* Through every order of fills, terminal outcomes and busts that several  *)
(* processes commit, a held reservation holds exactly what it has not      *)
(* consumed, a released one holds nothing, and an outcome that denies any  *)
(* execution has consumed nothing (reservations.py, restore_consumption:   *)
(* "without inventing or releasing capacity").                             *)
(***************************************************************************)
Conserved ==
  \A r \in Rids :
    /\ Held(book, r) =>
         Plus(book[r].remaining, book[r].consumed) = book[r].original
    /\ ~Held(book, r) =>
         book[r].remaining = Zero /\ AtMost(book[r].consumed, book[r].original)
    /\ book[r].state \in {"REJECTED", "PROVEN_ABSENT"} => book[r].consumed = Zero

\* The keys under which an operation of ops was committed for r, and the
\* amounts they add up to.
LoggedKeys(r, ops) ==
  {k \in Keys : log[k] # NoRequest /\ log[k].op \in ops /\ log[k].rid = r}

Logged(r, ops, x) == SumFunction([k \in LoggedKeys(r, ops) |-> log[k].amounts[x]])

(***************************************************************************)
(* No committed fill or bust is lost or applied twice: what a reservation  *)
(* has consumed is what the journal's requests add up to, however many     *)
(* processes race (the version fence and the single read of _commit).      *)
(***************************************************************************)
NothingLost ==
  \A r \in Rids, x \in Resources :
    book[r].consumed[x] + Logged(r, {"RESTORE_CONSUMPTION"}, x)
      = Logged(r, {"CONSUME", "CONSUME_AND_MARK_FILLED"}, x)

(***************************************************************************)
(* An admission that is committed fits, beside everything that is held at  *)
(* that moment, into the availability it was checked against: another      *)
(* process cannot have reserved the same capacity in between.              *)
(***************************************************************************)
AdmissionFits ==
  [][\A r \in Rids, k \in Keys :
       (log[k] = NoRequest /\ log'[k] # NoRequest /\ log'[k].op = "RESERVE"
          /\ log'[k].rid = r /\ book[r].state = "None")
         => Fits(book, log'[k].amounts, log'[k].available)]_vars

(***************************************************************************)
(* A reservation is released as never executed only when no request of its *)
(* intent can execute at the provider: not before the send barrier closes  *)
(* for the attempt, nor after it was passed.                               *)
(***************************************************************************)
ReleasedNeverFills ==
  \A r \in Rids :
    book[r].state \in {"REJECTED", "PROVEN_ABSENT"} => ~Fillable(book[r].intent)

(***************************************************************************)
(* The book can always be replayed: get, active and every later command    *)
(* start with a replay (durable_reservations.py: a crash "is therefore     *)
(* recovered by replay").                                                  *)
(***************************************************************************)
AlwaysReplayable == Replayable

=============================================================================
