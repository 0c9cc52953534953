------------------------------ MODULE Dispatch ------------------------------
(***************************************************************************)
(* GuardedDispatcher of mvp/autotrade_mvp/dispatch.py: the persist-before- *)
(* send protocol that turns an economic intent into at most one provider   *)
(* request, with several dispatch() calls (threads or processes) running   *)
(* on one journal and dying at any point.                                  *)
(*                                                                         *)
(* A submission attempt is an aggregate of the journal whose events are    *)
(*     Prepared, Blocked            fenced before the send barrier         *)
(*     Prepared, Sending, Sent      confirmed                              *)
(*     Prepared, Sending, Unknown   ambiguous: reconcile, never retry      *)
(*     Prepared [, Blocked], Unknown   the wrapper broke its contract      *)
(* The code reads only the first event's payload, the last event's type    *)
(* and the aggregate version, so a row of "chain" keeps these.             *)
(***************************************************************************)
EXTENDS Naturals, FiniteSets

CONSTANTS
  Calls,       \* dispatch() invocations that may be in progress together
  Attempts,    \* attempt_id values
  Intents,     \* intent_id values (provider, account and content included)
  NoAttempt, NoIntent, NoCall,
  MaxTime,     \* caller clocks and barrier clocks read 0..MaxTime
  Lease,       \* prepared_lease_seconds
  Gated,       \* TRUE for PAPER and LIVE: the sender gate is taken
  Honest,      \* TRUE: wrappers keep the final-guard contract
  MaxSeq       \* bound on the journal rows other components append

ASSUME ConstantsAssumption ==
  /\ NoAttempt \notin Attempts
  /\ NoIntent \notin Intents
  /\ NoCall \notin Calls
  /\ MaxTime \in Nat
  /\ Lease \in Nat \ {0}
  /\ Gated \in BOOLEAN
  /\ Honest \in BOOLEAN
  /\ MaxSeq \in Nat

VARIABLES
  chain,   \* attempt -> its submission_attempt aggregate
  bound,   \* intent  -> attempt named by its submission_intent aggregate
  seq,     \* journal sequence
  gate,    \* holder of the sender-authority file lock
  pc,      \* call -> the next step of its dispatch()
  loc,     \* call -> arguments and local variables of its dispatch()
  out,     \* call -> its last DispatchOutcome and the attempt it is about
  wires    \* attempt -> requests the provider has received for it

jvars == <<chain, bound, seq>>
vars == <<chain, bound, seq, gate, pc, loc, out, wires>>

Times == 0..MaxTime

Terminal == {"Sent", "Blocked", "Unknown"}

Tails == {"None", "Prepared", "Sending"} \cup Terminal

\* prepAt is the Prepared payload's prepared_at, lastAt the tail's committed_at.
Rows == [tail : Tails, ver : Nat, intent : Intents \cup {NoIntent},
         prepAt : Times, lastAt : Times]

NoRow == [tail |-> "None", ver |-> 0, intent |-> NoIntent,
          prepAt |-> 0, lastAt |-> 0]

\* att, intent and now are the arguments, bnow is barrier_now, cut is
\* barrier_journal_sequence, rec is the attempt whose outcome is reported.
Locals == [att : Attempts \cup {NoAttempt}, intent : Intents \cup {NoIntent},
           now : Times, bnow : Times, cut : Nat,
           rec : Attempts \cup {NoAttempt}]

NoLocals == [att |-> NoAttempt, intent |-> NoIntent, now |-> 0, bnow |-> 0,
             cut |-> 0, rec |-> NoAttempt]

\* Steps of the call that inserted Prepared, up to the send barrier.
BeforeBarrier == {"authority", "transport", "clock", "gate", "cut", "check",
                  "reread", "commit", "cutlost", "cutblock",
                  "blocked", "guardfailed"}

\* Steps of the call that committed Sending.
AfterBarrier == {"barrier", "wired", "raised", "terminal"}

Locations == {"idle", "lookup", "intent", "canonical", "scan", "prepare",
              "recover", "resolve", "fence", "report"}
             \cup BeforeBarrier \cup AfterBarrier

\* ERROR: dispatch() raised. NONE: it has not returned.
Statuses == {"SENT", "BLOCKED", "UNKNOWN", "IN_PROGRESS", "ERROR", "NONE"}

Outcomes == [status : Statuses, att : Attempts \cup {NoAttempt}]

NoOutcome == [status |-> "NONE", att |-> NoAttempt]

-----------------------------------------------------------------------------
\* The lease of a Prepared row, at clock reading t.
LeaseState(p, t) ==
  CASE t < p -> "BEFORE"
    [] t >= p /\ t - p < Lease -> "ACTIVE"
    [] OTHER -> "EXPIRED"

\* append_event succeeds iff "version" is the aggregate's next version.
Fits(a, version) == chain[a].ver = version - 1

Extend(row, type, t) ==
  [row EXCEPT !.tail = type, !.ver = row.ver + 1, !.lastAt = t]

Append(a, type, t) ==
  /\ chain' = [chain EXCEPT ![a] = Extend(chain[a], type, t)]
  /\ seq' = seq + 1
  /\ UNCHANGED bound

NoAppend == UNCHANGED jvars

OutcomeFromTerminal(tail) ==
  CASE tail = "Sent" -> "SENT"
    [] tail = "Blocked" -> "BLOCKED"
    [] tail = "Unknown" -> "UNKNOWN"

\* Continue at label l with the locals x.
Enter(c, l, x) ==
  /\ pc' = [pc EXCEPT ![c] = l]
  /\ loc' = [loc EXCEPT ![c] = x]
  /\ UNCHANGED out

Goto(c, l) == Enter(c, l, loc[c])

Return(c, status) ==
  /\ pc' = [pc EXCEPT ![c] = "idle"]
  /\ loc' = [loc EXCEPT ![c] = NoLocals]
  /\ out' = [out EXCEPT ![c] = [status |-> status, att |-> loc[c].rec]]

\* Mutant: the lock outlives the "with" block.
KeepGate(c) == UNCHANGED gate

\* Leaving the "with sender_gate" block closes the file lock if it is held.
Release(c) == gate' = IF gate = c THEN NoCall ELSE gate

-----------------------------------------------------------------------------
Init ==
  /\ chain = [a \in Attempts |-> NoRow]
  /\ bound = [i \in Intents |-> NoAttempt]
  /\ seq = 0
  /\ gate = NoCall
  /\ pc = [c \in Calls |-> "idle"]
  /\ loc = [c \in Calls |-> NoLocals]
  /\ out = [c \in Calls |-> NoOutcome]
  /\ wires = [a \in Attempts |-> 0]

\* dispatch(attempt_id, intent_id, now): "now" is whatever the caller's clock says.
Begin(c, a, i, t) ==
  /\ pc[c] = "idle"
  /\ pc' = [pc EXCEPT ![c] = "lookup"]
  /\ loc' = [loc EXCEPT ![c] = [att |-> a, intent |-> i, now |-> t, bnow |-> t,
                                cut |-> 0, rec |-> a]]
  /\ out' = [out EXCEPT ![c] = NoOutcome]
  /\ UNCHANGED <<jvars, gate, wires>>

\* existing = self._events(attempt_id)
Lookup(c) ==
  LET row == chain[loc[c].att] IN
  /\ pc[c] = "lookup"
  /\ \/ row.tail = "None" /\ Goto(c, "intent")
     \/ row.tail # "None" /\ row.intent # loc[c].intent /\ Return(c, "ERROR")
     \/ row.tail # "None" /\ row.intent = loc[c].intent /\ Goto(c, "recover")
  /\ UNCHANGED <<jvars, gate, wires>>

\* intent_events = load_events("submission_intent", ...)
ReadIntent(c) ==
  LET b == bound[loc[c].intent] IN
  /\ pc[c] = "intent"
  /\ \/ b = NoAttempt /\ Goto(c, "scan")
     \/ b # NoAttempt /\ Enter(c, "canonical", [loc[c] EXCEPT !.rec = b])
  /\ UNCHANGED <<jvars, gate, wires>>

\* Mutant: a Sending without a terminal event is taken for "nothing sent".
ReadCanonicalOptimistically(c) ==
  LET tail == chain[loc[c].rec].tail IN
  /\ pc[c] = "canonical"
  /\ \/ tail \in {"Sent", "Unknown"} /\ Return(c, OutcomeFromTerminal(tail))
     \/ tail = "Sending" /\ Return(c, "BLOCKED")
     \/ tail \notin {"Sent", "Unknown", "Sending"} /\ Return(c, "ERROR")
  /\ UNCHANGED <<jvars, gate, wires>>

\* canonical_events = self._events(canonical_attempt_id): never send again.
ReadCanonical(c) ==
  LET tail == chain[loc[c].rec].tail IN
  /\ pc[c] = "canonical"
  /\ \/ tail \in {"Sent", "Unknown"} /\ Return(c, OutcomeFromTerminal(tail))
     \/ tail = "Sending" /\ Return(c, "UNKNOWN")
     \/ tail \notin {"Sent", "Unknown", "Sending"} /\ Return(c, "ERROR")
  /\ UNCHANGED <<jvars, gate, wires>>

\* Attempts of the intent that _legacy_submission_intent_attempt cannot skip.
Candidates(i) ==
  {a \in Attempts : /\ chain[a].tail \notin {"None", "Blocked"}
                    /\ chain[a].intent = i}

LegacyScan(c) ==
  LET candidates == Candidates(loc[c].intent) IN
  /\ pc[c] = "scan"
  /\ \/ candidates = {} /\ Goto(c, "prepare")
     \/ (\E a, b \in candidates : a # b) /\ Return(c, "ERROR")
     \/ \E a \in candidates :
          /\ candidates = {a}
          /\ Enter(c, "recover", [loc[c] EXCEPT !.rec = a])
  /\ UNCHANGED <<jvars, gate, wires>>

\* Append Prepared v1. A race with another caller of the same attempt ends in a
\* ValueError, unless the row is byte-identical (same owner token and "now"):
\* then append_event reports inserted = False and the call recovers the row.
AppendPrepared(c) ==
  LET a == loc[c].att
      row == chain[a] IN
  /\ pc[c] = "prepare"
  /\ \/ /\ Fits(a, 1)
        /\ chain' = [chain EXCEPT ![a] = [tail |-> "Prepared", ver |-> 1,
                                          intent |-> loc[c].intent,
                                          prepAt |-> loc[c].now,
                                          lastAt |-> loc[c].now]]
        /\ seq' = seq + 1
        /\ UNCHANGED bound
        /\ Goto(c, "authority")
     \/ ~Fits(a, 1) /\ NoAppend /\ Return(c, "ERROR")
     \/ /\ ~Fits(a, 1)
        /\ row.intent = loc[c].intent /\ row.prepAt = loc[c].now
        /\ NoAppend
        /\ Goto(c, "recover")
  /\ UNCHANGED <<gate, wires>>

\* Append a row outside the guard; a lost version race is raised to the caller.
AppendOrRaise(c, type, version, t) ==
  LET a == loc[c].att IN
  \/ /\ Fits(a, version)
     /\ Append(a, type, t)
     /\ Return(c, OutcomeFromTerminal(type))
  \/ ~Fits(a, version) /\ NoAppend /\ Return(c, "ERROR")

\* The first authority_check: the callback allows, denies or raises.
CheckAuthority(c) ==
  /\ pc[c] = "authority"
  /\ \/ Goto(c, "transport") /\ NoAppend
     \/ AppendOrRaise(c, "Blocked", 2, loc[c].now)
  /\ UNCHANGED <<gate, wires>>

-----------------------------------------------------------------------------
\* transport_send(client_order_id, request, final_guard), up to the guard.

CallGuard(c) ==
  /\ pc[c] = "transport"
  /\ Goto(c, "clock")
  /\ UNCHANGED <<jvars, gate, wires>>

\* A request sent by a wrapper that has not passed the guard.
RogueWire(c) == ~Honest /\ wires' = [wires EXCEPT ![loc[c].att] = @ + 1]

MaybeRogueWire(c) == RogueWire(c) \/ UNCHANGED wires

\* except Exception, guard not called: transport_failed_before_final_guard.
RaiseBeforeGuard(c) ==
  /\ pc[c] = "transport"
  /\ AppendOrRaise(c, "Blocked", 2, loc[c].now)
  /\ MaybeRogueWire(c)
  /\ UNCHANGED gate

\* provider_wrapper_returned_without_final_guard
ReturnWithoutGuard(c) ==
  /\ pc[c] = "transport"
  /\ ~Honest
  /\ AppendOrRaise(c, "Unknown", 2, loc[c].now)
  /\ MaybeRogueWire(c)
  /\ UNCHANGED gate

-----------------------------------------------------------------------------
(***************************************************************************)
(* final_guard. A rejection appends Blocked v2 and raises DispatchBlocked; *)
(* when the append itself loses the version race its ValueError leaves the *)
(* guard instead ("guardfailed").                                          *)
(***************************************************************************)
RejectGuard(c, t) ==
  LET a == loc[c].att IN
  \/ Fits(a, 2) /\ Append(a, "Blocked", t) /\ Goto(c, "blocked")
  \/ ~Fits(a, 2) /\ NoAppend /\ Goto(c, "guardfailed")

\* final_barrier_clock: absent, failing, behind "now", or read.
ReadBarrierClock(c) ==
  /\ pc[c] = "clock"
  /\ \/ RejectGuard(c, loc[c].now)
     \/ /\ \E t \in Times :
             /\ t >= loc[c].now
             /\ Enter(c, IF Gated THEN "gate" ELSE "cut",
                      [loc[c] EXCEPT !.bnow = t])
        /\ NoAppend
  /\ UNCHANGED <<gate, wires>>

\* sender_authority_window: blocks on the file lock, then refuses when a
\* takeover of the scope is pending (the lock is dropped again).
AcquireGate(c) ==
  /\ pc[c] = "gate"
  /\ gate = NoCall
  /\ \/ gate' = c /\ Goto(c, "cut") /\ NoAppend
     \/ RejectGuard(c, loc[c].bnow) /\ UNCHANGED gate
  /\ UNCHANGED wires

\* barrier_journal_sequence = current_journal_sequence()
TakeCut(c) ==
  /\ pc[c] = "cut"
  /\ Enter(c, "check", [loc[c] EXCEPT !.cut = seq])
  /\ UNCHANGED <<jvars, gate, wires>>

\* sender_check and the second authority_check.
CheckSender(c) ==
  /\ pc[c] = "check"
  /\ \/ Goto(c, "reread") /\ NoAppend
     \/ RejectGuard(c, loc[c].bnow)
  /\ UNCHANGED <<gate, wires>>

\* durable_before_send: still Prepared, and the lease still active at bnow.
\* Losing the append of the lease rejection is swallowed.
RereadAttempt(c) ==
  LET a == loc[c].att
      lease == LeaseState(chain[a].prepAt, loc[c].bnow) IN
  /\ pc[c] = "reread"
  /\ \/ chain[a].tail # "Prepared" /\ Goto(c, "blocked") /\ NoAppend
     \/ chain[a].tail = "Prepared" /\ lease = "ACTIVE" /\ Goto(c, "commit") /\ NoAppend
     \/ /\ chain[a].tail = "Prepared" /\ lease # "ACTIVE"
        /\ Append(a, "Blocked", IF lease = "EXPIRED" THEN loc[c].bnow
                                ELSE loc[c].now)
        /\ Goto(c, "blocked")
  /\ UNCHANGED <<gate, wires>>

\* Mutant: the barrier does not claim the intent.
CommitFitsAttemptOnly(c) == seq = loc[c].cut /\ Fits(loc[c].att, 2)

\* commit_command: Sending v2 of the attempt and IntentBound v1 of the intent in
\* one transaction, if the journal still ends at the cut.
CommitFits(c) ==
  /\ seq = loc[c].cut
  /\ Fits(loc[c].att, 2)
  /\ bound[loc[c].intent] = NoAttempt

CommitSending(c) ==
  LET a == loc[c].att IN
  /\ pc[c] = "commit"
  /\ \/ /\ CommitFits(c)
        /\ chain' = [chain EXCEPT ![a] = Extend(chain[a], "Sending", loc[c].bnow)]
        /\ bound' = [bound EXCEPT ![loc[c].intent] = a]
        /\ seq' = seq + 2
        /\ Goto(c, "barrier")
     \/ ~CommitFits(c) /\ NoAppend /\ Goto(c, "cutlost")
  /\ UNCHANGED <<gate, wires>>

\* journal_changed_during_final_send_validation: latest = self._events(...)
RereadAfterLostCut(c) ==
  /\ pc[c] = "cutlost"
  /\ Goto(c, IF chain[loc[c].att].tail = "Prepared" THEN "cutblock" ELSE "blocked")
  /\ UNCHANGED <<jvars, gate, wires>>

BlockAfterLostCut(c) ==
  /\ pc[c] = "cutblock"
  /\ RejectGuard(c, loc[c].bnow)
  /\ UNCHANGED <<gate, wires>>

-----------------------------------------------------------------------------
\* transport_send after the guard, and what dispatch() does with its result.

\* except DispatchBlocked: report what the journal says.
ReportBlocked(c) ==
  LET tail == chain[loc[c].att].tail IN
  /\ pc[c] = "blocked"
  /\ Return(c, IF tail \in Terminal THEN OutcomeFromTerminal(tail)
               ELSE IF tail = "Sending" THEN "UNKNOWN" ELSE "BLOCKED")
  /\ Release(c)
  /\ MaybeRogueWire(c)
  /\ NoAppend

\* except Exception, guard called, barrier not passed: Unknown at the next
\* version. An honest wrapper gets here when the guard raised a ValueError, any
\* other when it masks or swallows the guard's exception.
GuardFailed(c) ==
  LET a == loc[c].att IN
  /\ \/ pc[c] = "guardfailed"
     \/ pc[c] = "blocked" /\ ~Honest
  /\ Append(a, "Unknown", loc[c].bnow)
  /\ Return(c, "UNKNOWN")
  /\ MaybeRogueWire(c)
  /\ Release(c)

\* The provider receives the request.
Wire(c) ==
  /\ pc[c] = "barrier"
  /\ wires' = [wires EXCEPT ![loc[c].att] = @ + 1]
  /\ Goto(c, "wired")
  /\ UNCHANGED <<jvars, gate>>

\* Mutant: a failed request is sent again instead of being left to recovery.
TransportRetries(c) ==
  /\ pc[c] \in {"barrier", "wired"}
  /\ Goto(c, IF pc[c] = "wired" THEN "barrier" ELSE "raised")
  /\ Release(c)
  /\ UNCHANGED <<jvars, wires>>

\* The wrapper raises, before or after the request left.
TransportRaises(c) ==
  /\ pc[c] \in {"barrier", "wired"}
  /\ Goto(c, "raised")
  /\ Release(c)
  /\ UNCHANGED <<jvars, wires>>

TransportReturns(c) ==
  /\ pc[c] = "wired"
  /\ Goto(c, "terminal")
  /\ Release(c)
  /\ UNCHANGED <<jvars, wires>>

\* Mutant: the late answer is appended to whatever version there is.
MarkRaisedAtAnyVersion(c) ==
  /\ pc[c] = "raised"
  /\ Append(loc[c].att, "Unknown", loc[c].bnow)
  /\ Return(c, "UNKNOWN")
  /\ UNCHANGED <<gate, wires>>

\* except Exception after the barrier: Unknown v3, unless recovery was faster.
MarkRaised(c) ==
  /\ pc[c] = "raised"
  /\ AppendOrRaise(c, "Unknown", 3, loc[c].bnow)
  /\ UNCHANGED <<gate, wires>>

\* Sent v3, or Unknown v3 when the response demands reconciliation or cannot be
\* journaled. If recovery already appended v3 both appends fail.
MarkTerminal(c) ==
  /\ pc[c] = "terminal"
  /\ \/ AppendOrRaise(c, "Sent", 3, loc[c].bnow)
     \/ AppendOrRaise(c, "Unknown", 3, loc[c].bnow)
  /\ UNCHANGED <<gate, wires>>

-----------------------------------------------------------------------------
\* _recover_existing

\* Mutant: recovery reports a stale Sending and leaves it there.
ReadRecoveredPassively(c) ==
  LET row == chain[loc[c].rec]
      lease == LeaseState(row.prepAt, loc[c].now) IN
  /\ pc[c] = "recover"
  /\ \/ row.tail \in Terminal /\ Return(c, OutcomeFromTerminal(row.tail))
     \/ row.tail = "Sending" /\ Return(c, "UNKNOWN")
     \/ row.tail = "Prepared" /\ lease # "EXPIRED" /\ Return(c, "IN_PROGRESS")
     \/ row.tail = "Prepared" /\ lease = "EXPIRED" /\ Goto(c, "fence")
  /\ UNCHANGED <<jvars, gate, wires>>

ReadRecovered(c) ==
  LET row == chain[loc[c].rec]
      lease == LeaseState(row.prepAt, loc[c].now) IN
  /\ pc[c] = "recover"
  /\ \/ row.tail \in Terminal /\ Return(c, OutcomeFromTerminal(row.tail))
     \/ row.tail = "Sending" /\ Goto(c, "resolve")
     \/ row.tail = "Prepared" /\ lease # "EXPIRED" /\ Return(c, "IN_PROGRESS")
     \/ row.tail = "Prepared" /\ lease = "EXPIRED" /\ Goto(c, "fence")
  /\ UNCHANGED <<jvars, gate, wires>>

\* Mutants: the recovering process trusts its own clock, or steps past it.
OwnClock(s, t) == t

AfterBoth(s, t) == (IF s > t THEN s ELSE t) + 1

LaterOf(s, t) == IF s > t THEN s ELSE t

\* Unknown after a Sending that has no terminal event, never dated before it.
ResolveSending(c) ==
  LET a == loc[c].rec
      row == chain[a] IN
  /\ pc[c] = "resolve"
  /\ \/ /\ row.tail = "Sending"
        /\ Append(a, "Unknown", LaterOf(row.lastAt, loc[c].now))
        /\ Return(c, "UNKNOWN")
     \/ /\ row.tail # "Sending"
        /\ NoAppend
        /\ Return(c, OutcomeFromTerminal(row.tail))
  /\ UNCHANGED <<gate, wires>>

\* Mutant: the fence trusts the Prepared tail it read.
FenceBlindly(c) ==
  /\ pc[c] = "fence"
  /\ Append(loc[c].rec, "Blocked", loc[c].now)
  /\ Goto(c, "report")
  /\ UNCHANGED <<gate, wires>>

\* Blocked v2 over an expired Prepared. The loser of the race re-reads.
FencePrepared(c) ==
  LET a == loc[c].rec
      tail == chain[a].tail IN
  /\ pc[c] = "fence"
  /\ \/ Fits(a, 2) /\ Append(a, "Blocked", loc[c].now) /\ Goto(c, "report")
     \/ ~Fits(a, 2) /\ NoAppend /\ tail = "Sending" /\ Goto(c, "recover")
     \/ /\ ~Fits(a, 2) /\ NoAppend
        /\ tail \in Terminal
        /\ Return(c, OutcomeFromTerminal(tail))
  /\ UNCHANGED <<gate, wires>>

ReportFenced(c) ==
  /\ pc[c] = "report"
  /\ Return(c, OutcomeFromTerminal(chain[loc[c].rec].tail))
  /\ UNCHANGED <<jvars, gate, wires>>

-----------------------------------------------------------------------------
\* The process dies; its file lock goes with it.
Crash(c) ==
  /\ pc[c] # "idle"
  /\ pc' = [pc EXCEPT ![c] = "idle"]
  /\ loc' = [loc EXCEPT ![c] = NoLocals]
  /\ Release(c)
  /\ UNCHANGED <<jvars, out, wires>>

\* Another component of the host appends to the journal.
ForeignAppend ==
  /\ seq < MaxSeq
  /\ seq' = seq + 1
  /\ UNCHANGED <<chain, bound, gate, pc, loc, out, wires>>

Step(c) ==
  \/ Lookup(c) \/ ReadIntent(c) \/ ReadCanonical(c) \/ LegacyScan(c)
  \/ AppendPrepared(c) \/ CheckAuthority(c)
  \/ CallGuard(c) \/ RaiseBeforeGuard(c) \/ ReturnWithoutGuard(c)
  \/ ReadBarrierClock(c) \/ AcquireGate(c) \/ TakeCut(c) \/ CheckSender(c)
  \/ RereadAttempt(c) \/ CommitSending(c)
  \/ RereadAfterLostCut(c) \/ BlockAfterLostCut(c)
  \/ ReportBlocked(c) \/ GuardFailed(c)
  \/ Wire(c) \/ TransportRaises(c) \/ TransportReturns(c)
  \/ MarkRaised(c) \/ MarkTerminal(c)
  \/ ReadRecovered(c) \/ ResolveSending(c) \/ FencePrepared(c) \/ ReportFenced(c)

BeginAny(c) == \E a \in Attempts, i \in Intents, t \in Times : Begin(c, a, i, t)

Next ==
  \/ \E c \in Calls : BeginAny(c) \/ Step(c) \/ Crash(c)
  \/ ForeignAppend

Spec == Init /\ [][Next]_vars

\* A caller dispatches a known attempt again, late enough for its lease.
Redispatch(c, a) ==
  /\ chain[a].tail # "None"
  /\ Begin(c, a, chain[a].intent, MaxTime)

(***************************************************************************)
(* A running call takes its next step (the transport has a timeout), the   *)
(* caller keeps retrying an attempt it knows, and processes stop dying     *)
(* some day: a host that dies for ever records nothing.                    *)
(***************************************************************************)
Fairness ==
  /\ \A c \in Calls :
       /\ WF_vars(Step(c))
       /\ \A a \in Attempts : SF_vars(Redispatch(c, a))
  /\ <>[][\A c \in Calls : ~Crash(c)]_vars

FairSpec == Spec /\ Fairness

-----------------------------------------------------------------------------
\* Every variable keeps its shape: rows, locals and outcomes of dispatch() are
\* the records the code builds, and clock readings stay clock readings.
TypeOK ==
  /\ chain \in [Attempts -> Rows]
  /\ bound \in [Intents -> Attempts \cup {NoAttempt}]
  /\ seq \in Nat
  /\ gate \in Calls \cup {NoCall}
  /\ pc \in [Calls -> Locations]
  /\ loc \in [Calls -> Locals]
  /\ out \in [Calls -> Outcomes]
  /\ wires \in [Attempts -> Nat]

\* No economic intent reaches the provider twice, whatever attempts, processes,
\* crashes and clocks do (the send barrier of dispatch()).
AtMostOneWire ==
  \A a, b \in Attempts :
    /\ wires[a] <= 1
    /\ wires[a] > 0 /\ wires[b] > 0 /\ chain[a].intent = chain[b].intent
         => a = b

\* Persist before send: a request at the provider is covered by the durable
\* binding of its intent and by a tail that no later dispatch() takes for safe.
WireIsDurable ==
  \A a \in Attempts :
    wires[a] > 0 => /\ chain[a].tail \in {"Sending", "Sent", "Unknown"}
                    /\ bound[chain[a].intent] = a

\* What dispatch() tells its caller is true when the caller acts on it: BLOCKED
\* (retry with a fresh attempt, release the reservation) of an attempt that
\* sent nothing and SENT of one the provider received.
OutcomeIsTrue ==
  \A c \in Calls :
    /\ out[c].status = "BLOCKED" => wires[out[c].att] = 0
    /\ out[c].status = "SENT" => wires[out[c].att] = 1

\* The binding of an intent and the terminal events of an attempt are final:
\* only Blocked may still become Unknown (a guard failure reported late).
VerdictsStand ==
  [][/\ \A i \in Intents : bound[i] # NoAttempt => bound'[i] = bound[i]
     /\ \A a \in Attempts :
          /\ chain[a].tail \in {"Sent", "Unknown"} => chain'[a] = chain[a]
          /\ chain[a].tail = "Blocked" =>
               chain'[a].tail \in {"Blocked", "Unknown"}]_vars

\* A terminal event that resolves Sending is not dated before it, however the
\* clock of the recovering process is set (terminal_at in _recover_existing).
ResolutionNotBackdated ==
  [][\A a \in Attempts :
       chain[a].tail = "Sending" => chain'[a].lastAt >= chain[a].lastAt]_vars

\* One attempt at most passes the barrier of an intent, and SENT is recorded or
\* reported only of that one, even with a wrapper that ignores the guard.
OneBarrierPerIntent ==
  /\ \A a \in Attempts :
       chain[a].tail \in {"Sending", "Sent"} => bound[chain[a].intent] = a
  /\ \A c \in Calls :
       out[c].status = "SENT" => \E i \in Intents : bound[i] = out[c].att

\* Under Fairness no attempt stays in the send barrier or prepared with an
\* expired lease for ever: recovery gives it a terminal event.
EventuallyTerminal ==
  \A a \in Attempts :
    (\/ chain[a].tail = "Sending"
     \/ chain[a].tail = "Prepared" /\ LeaseState(chain[a].prepAt, MaxTime) = "EXPIRED")
      ~> chain[a].tail \in Terminal

\* Every path out of final_guard and of the transport gives the gate back.
GateReleased == \A c \in Calls : gate = c ~> gate # c

-----------------------------------------------------------------------------
\* Refinement of IntentSubmission: the binding, read through its attempt.
AbstractVerdict(i) ==
  IF bound[i] = NoAttempt THEN "open"
  ELSE CASE chain[bound[i]].tail = "Sent" -> "sent"
         [] chain[bound[i]].tail = "Unknown" -> "unknown"
         [] OTHER -> "committed"

AbstractSends(i) == IF bound[i] = NoAttempt THEN 0 ELSE wires[bound[i]]

Abstract == INSTANCE IntentSubmission WITH
              verdict <- [i \in Intents |-> AbstractVerdict(i)],
              sends <- [i \in Intents |-> AbstractSends(i)]

\* The dispatcher implements IntentSubmission.
ImplementsIntentSubmission == Abstract!ASpec

=============================================================================
