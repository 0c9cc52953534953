------------------------------ MODULE Recovery ------------------------------
(***************************************************************************)
(* A durable host: the RecoveryController of the process, the dispatcher   *)
(* it issues (RecoveryIssuedDispatcher of recovery_dispatch.py) and the    *)
(* composition that starts or re-attaches them (production_financial_host  *)
(* .py), beside the journal they share with a reconciler and with other    *)
(* hosts. Threads of the host interleave between the steps of a dispatch;  *)
(* the host dies anywhere.                                                 *)
(*                                                                         *)
(* Module Dispatch has the details of one dispatch() call. Here its send   *)
(* window is kept (cut, sender check, barrier) with what the recovery code *)
(* hooks into it, and the journal's sequence numbers are kept as the facts *)
(* the code derives from them: whether the journal moved since the cut,    *)
(* and whether the newest checkpoint is younger than every effectful       *)
(* submission event (fresh).                                               *)
(***************************************************************************)
EXTENDS Controller

CONSTANTS
  NoAttempt,
  MaxEpoch,   \* bound on the durable owner epochs
  Faults      \* the kinds of fault an instance has

ASSUME RecoveryAssumption ==
  /\ NoAttempt \notin Attempts
  /\ MaxEpoch \in Nat
  /\ Faults \subseteq {"clock", "storage", "lease", "stop"}

VARIABLES
  tail,      \* attempt -> last event of its submission_attempt aggregate
  owner,     \* epoch of the last RecoveryOwnerChanged, 0 before the first
  ckpt,      \* newest AccountReconciled checkpoint of the scope
  lost,      \* a clock incident is open
  takeover,  \* last event of the takeover under way
  ctl,       \* the host's RecoveryController
  disp,      \* owner epoch of the issued dispatcher, 0 without one
  clk,       \* set_clock_trusted between its append and its assignments
  pc,        \* attempt -> step of its dispatch()
  reflect,   \* attempts that a later call made Unknown and has yet to report
  gate,      \* attempt whose call holds the sender-authority gate
  moved      \* the journal moved since the cut of the gate's holder

journal == <<tail, owner, ckpt, lost, takeover>>
process == <<ctl, disp, clk>>
calls == <<pc, reflect, gate>>
vars == <<journal, process, calls, moved>>

\* "Closed" is Sent or Blocked: the recovery code treats them alike.
Tails == {"None", "Prepared", "Sending", "Unknown", "Closed"}

\* "Started" freezes the senders of the scope (RecoveryTakeoverStarted), "Owned"
\* has the new owner and lacks the completion event.
Takeovers == {"None", "Started", "Owned"}

\* kind: "complete" blocks no resource; "blocking" lists some (an attempt that is
\* still unknown always does); "partial" is neither.
Checkpoints ==
  [epoch : Nat, kind : {"complete", "partial", "blocking"},
   resolved : SUBSET Attempts, unknown : SUBSET Attempts,
   fresh : BOOLEAN]

NoCheckpoint ==
  [epoch |-> 0, kind |-> "partial", resolved |-> {}, unknown |-> {},
   fresh |-> FALSE]

\* "unknown" and "raised" are the two ends of a call that appended Unknown; any
\* other call ends in "idle", where its tail tells the outcome.
Labels == {"idle", "prepared", "scan", "validate", "checkpoint", "commit",
           "wire", "verdict", "report", "unknown", "raised"}

\* The ambiguous tails a scan finds.
Amb == [a \in Attempts |-> IF tail[a] \in Ambiguous THEN tail[a] ELSE "None"]

Goto(a, l) == pc' = [pc EXCEPT ![a] = l]

\* An event of the submission_attempt aggregate.
AppendEvent(a, type) ==
  /\ tail' = [tail EXCEPT ![a] = IF type \in {"Sent", "Blocked"} THEN "Closed" ELSE type]
  /\ ckpt' = [ckpt EXCEPT !.fresh = ckpt.fresh /\ type \notin {"Sending", "Sent", "Unknown"}]
  /\ UNCHANGED <<owner, lost, takeover>>

\* The journal's sequence advances under whoever holds the gate.
Moves == moved' = (gate # NoAttempt)

-----------------------------------------------------------------------------
Init ==
  /\ tail = [a \in Attempts |-> "None"]
  /\ owner = 0
  /\ ckpt = NoCheckpoint
  /\ lost = FALSE
  /\ takeover = "None"
  /\ ctl = NewController(TRUE)
  /\ disp = 0
  /\ clk = "none"
  /\ pc = [a \in Attempts |-> "idle"]
  /\ reflect = {}
  /\ gate = NoAttempt
  /\ moved = FALSE

\* compose_financial_authority without an owner chain: start() and a dispatcher.
StartHost ==
  /\ ctl.owner = 0 /\ disp = 0
  /\ owner = 0 /\ MaxEpoch >= 1
  /\ owner' = 1
  /\ ctl' = Scanned(Owning(ctl, 1), Amb)
  /\ disp' = 1
  /\ Moves
  /\ UNCHANGED <<tail, ckpt, lost, takeover, clk, calls>>

\* compose_financial_authority with an owner chain: the controller is attached
\* to the last owner as a takeover source, and issues no dispatcher.
AttachHost ==
  /\ ctl.owner = 0 /\ disp = 0
  /\ owner # 0
  /\ ctl' = [Scanned(Owning(ctl, owner), Amb) EXCEPT
               !.state = "RECOVERING", !.reconciled = FALSE, !.startup = TRUE]
  /\ UNCHANGED <<journal, disp, clk, calls, moved>>

\* The process dies or is closed; a new one replays the clock's trust.
Restart ==
  /\ ctl.owner # 0 \/ disp # 0
  /\ ctl' = NewController(~lost)
  /\ disp' = 0
  /\ clk' = "none"
  /\ pc' = [a \in Attempts |-> "idle"]
  /\ reflect' = {}
  /\ gate' = NoAttempt
  /\ moved' = FALSE
  /\ UNCHANGED journal

-----------------------------------------------------------------------------
(***************************************************************************)
(* Control thread of the host.                                             *)
(***************************************************************************)

\* record_reconciliation_checkpoint: the newest checkpoint of the scope counts
\* if it names this owner epoch.
AcceptCheckpoint ==
  /\ ctl.owner # 0 /\ ctl.owner = owner /\ ctl.storage
  /\ ckpt.epoch = ctl.owner
  /\ ctl' = Accepted(ctl, ckpt)
  /\ UNCHANGED <<journal, disp, clk, calls, moved>>

RefuseCheckpoint ==
  /\ ctl.owner # 0 /\ ctl.owner = owner /\ ctl.storage
  /\ ckpt.epoch # ctl.owner
  /\ ctl' = Refused(ctl)
  /\ UNCHANGED <<journal, disp, clk, calls, moved>>

SetStorageWritable(w) ==
  /\ ctl' = StorageSet(ctl, w)
  /\ UNCHANGED <<journal, disp, clk, calls, moved>>

\* set_clock_trusted without a change: nothing is appended.
RepeatClockTrust ==
  /\ clk = "none"
  /\ ctl' = ClockSet(ctl, ctl.clock)
  /\ UNCHANGED <<journal, disp, clk, calls, moved>>

\* set_clock_trusted, up to the append: only the current durable owner may
\* record a transition.
RecordClockTrust(t) ==
  /\ clk = "none"
  /\ ctl.owner # 0 /\ ctl.owner = owner
  /\ t # ctl.clock
  /\ lost' = ~t
  /\ clk' = IF t THEN "restored" ELSE "lost"
  /\ Moves
  /\ UNCHANGED <<tail, owner, takeover, ckpt, ctl, disp, calls>>

\* set_clock_trusted, the assignments after the append.
ApplyClockTrust ==
  /\ clk # "none"
  /\ ctl' = ClockSet(ctl, clk = "restored")
  /\ clk' = "none"
  /\ UNCHANGED <<journal, disp, calls, moved>>

OnLeaseExpired ==
  /\ ctl' = LeaseExpired(ctl)
  /\ UNCHANGED <<journal, disp, clk, calls, moved>>

Stop ==
  /\ ctl' = Stopped(ctl)
  /\ UNCHANGED <<journal, disp, clk, calls, moved>>

-----------------------------------------------------------------------------
(***************************************************************************)
(* takeover_financial_authority of an attached host, which issues no       *)
(* dispatcher until it succeeds: phase 1 of execute_durable_takeover, then *)
(* the owner commit and the completion of phase 3. Phase 2, the revocation *)
(* of the old credential, leaves these variables alone. A refusal raises,  *)
(* and leaves the controller as far as the call brought it; the process    *)
(* may die between any two appends, and a later call resumes.              *)
(***************************************************************************)
Scan(c) == IF Conflicting(c, Amb) = {} THEN {Scanned(c, Amb)} ELSE ScanRaised(c, Amb)

\* _require_reconciliation on a scanned controller, which may raise half-way.
Reconciled(c) ==
  CASE ~c.storage -> c
    [] c.storage /\ ckpt.epoch # c.owner -> Refused(c)
    [] OTHER -> Accepted(c, ckpt)

StartTakeover ==
  /\ ctl.owner # 0 /\ disp = 0 /\ takeover = "None"
  /\ ctl.owner = owner /\ owner < MaxEpoch
  /\ IF Conflicting(ctl, Amb) # {}
     THEN ctl' \in Scan(ctl) /\ UNCHANGED <<takeover, moved>>
     ELSE LET c == Scanned(ctl, Amb) IN
          /\ ctl' = Reconciled(c)
          /\ IF /\ c.storage /\ ckpt.epoch = c.owner /\ ckpt.fresh
                /\ ctl'.unresolved = {} /\ ctl'.reconciled
             THEN takeover' = "Started" /\ Moves
             ELSE UNCHANGED <<takeover, moved>>
  /\ UNCHANGED <<tail, owner, ckpt, lost, disp, clk, calls>>

\* Mutants: a resumed call advances the owner again; the owner is advanced
\* without the rescan.
CommitOwnerTwice ==
  /\ ctl.owner # 0 /\ disp = 0 /\ takeover # "None"
  /\ owner' = owner + 1 /\ takeover' = "Owned" /\ Moves
  /\ UNCHANGED <<tail, ckpt, lost, ctl, disp, clk, calls>>

CommitOwnerUnscanned ==
  /\ ctl.owner # 0 /\ disp = 0 /\ takeover = "Started"
  /\ owner' = owner + 1 /\ takeover' = "Owned" /\ Moves
  /\ UNCHANGED <<tail, ckpt, lost, ctl, disp, clk, calls>>

\* Phase 3 rescans before it advances the owner.
CommitOwner ==
  /\ ctl.owner # 0 /\ disp = 0 /\ takeover = "Started"
  /\ ctl' \in Scan(ctl)
  /\ IF Conflicting(ctl, Amb) = {} /\ ctl'.unresolved = {}
     THEN owner' = owner + 1 /\ takeover' = "Owned" /\ Moves
     ELSE UNCHANGED <<owner, takeover, moved>>
  /\ UNCHANGED <<tail, ckpt, lost, disp, clk, calls>>

(***************************************************************************)
(* The completion event, the new owner in the controller, and a dispatcher *)
(* from activate_recovery_takeover_target. A process that died before this *)
(* attaches to the new owner; its call completes the takeover, but the     *)
(* activation refuses, because the attached source is not the takeover's.  *)
(***************************************************************************)
CompleteTakeover ==
  /\ ctl.owner # 0 /\ disp = 0 /\ takeover = "Owned"
  /\ LET resumed == ctl.owner = owner
         c == IF resumed THEN Owning(ctl, owner) ELSE ctl IN
     IF Conflicting(c, Amb) = {} /\ Scanned(c, Amb).unresolved = {}
     THEN /\ ctl' = Owning(Scanned(c, Amb), owner)
          /\ disp' = IF resumed THEN 0 ELSE owner
          /\ takeover' = "None"
          /\ Moves
     ELSE /\ ctl' \in Scan(c)
          /\ UNCHANGED <<takeover, disp, moved>>
  /\ UNCHANGED <<tail, owner, ckpt, lost, clk, calls>>

-----------------------------------------------------------------------------
(***************************************************************************)
(* RecoveryIssuedDispatcher.dispatch.                                      *)
(***************************************************************************)

\* Prepared is durable; the call is on its way to the final guard.
Prepare(a) ==
  /\ disp # 0
  /\ pc[a] = "idle" /\ tail[a] = "None"
  /\ AppendEvent(a, "Prepared") /\ Moves
  /\ Goto(a, "prepared")
  /\ UNCHANGED <<process, reflect, gate>>

\* A rejection at any point before the barrier.
Reject(a) ==
  /\ AppendEvent(a, "Blocked")
  /\ Goto(a, "idle")
  /\ gate' = NoAttempt
  /\ moved' = FALSE

\* The gate is taken and the cut read.
EnterWindow(a) ==
  /\ pc[a] = "prepared"
  /\ gate = NoAttempt
  /\ \/ /\ takeover = "None"
        /\ Goto(a, "scan")
        /\ gate' = a
        /\ moved' = FALSE
        /\ UNCHANGED journal
     \/ Reject(a)
  /\ UNCHANGED <<process, reflect>>

\* canonical_sender_check: rescan the journal ...
ScanBeforeSend(a) ==
  /\ pc[a] = "scan"
  /\ ctl' \in Scan(ctl)
  /\ \/ /\ Conflicting(ctl, Amb) = {}
        /\ Goto(a, "validate")
        /\ UNCHANGED <<journal, gate, moved>>
     \/ Conflicting(ctl, Amb) # {} /\ Reject(a)
  /\ UNCHANGED <<disp, clk, reflect>>

\* ... then validate_sender ...
SenderValid == ctl.owner # 0 /\ ctl.owner = owner /\ disp = ctl.owner /\ ctl.state = "READY"

ValidateSender(a) ==
  /\ pc[a] = "validate"
  /\ \/ SenderValid /\ Goto(a, "checkpoint") /\ UNCHANGED <<journal, gate, moved>>
     \/ ~SenderValid /\ Reject(a)
  /\ UNCHANGED <<process, reflect>>

\* Mutant: a checkpoint older than the last send still qualifies.
CheckpointOfOwner ==
  /\ ctl.state = "READY" /\ ctl.reconciled /\ ctl.unresolved = {}
  /\ ckpt.epoch = disp
  /\ ckpt.kind = "complete" /\ ckpt.unknown = {}

\* ... then _require_durable_reconciliation_authority.
CheckpointCurrent ==
  /\ ctl.state = "READY" /\ ctl.reconciled /\ ctl.unresolved = {}
  /\ ckpt.epoch = disp
  /\ ckpt.fresh
  /\ ckpt.kind = "complete" /\ ckpt.unknown = {}

CheckReconciliation(a) ==
  /\ pc[a] = "checkpoint"
  /\ \/ CheckpointCurrent /\ Goto(a, "commit") /\ UNCHANGED <<journal, gate, moved>>
     \/ ~CheckpointCurrent /\ Reject(a)
  /\ UNCHANGED <<process, reflect>>

\* The barrier, under the cut.
CommitSending(a) ==
  /\ pc[a] = "commit"
  /\ \/ /\ ~moved
        /\ AppendEvent(a, "Sending") /\ Moves
        /\ Goto(a, "wire")
        /\ UNCHANGED gate
     \/ moved /\ Reject(a)
  /\ UNCHANGED <<process, reflect>>

\* The transport returns or raises, and the gate is closed.
LeaveWindow(a) ==
  /\ pc[a] = "wire"
  /\ Goto(a, "verdict")
  /\ gate' = NoAttempt
  /\ moved' = FALSE
  /\ UNCHANGED <<journal, process, reflect>>

\* The verdict is appended, unless the journal fails or another call has already
\* resolved the attempt: then dispatch() raises.
RecordVerdict(a) ==
  /\ pc[a] = "verdict"
  /\ \/ /\ tail[a] = "Sending"
        /\ \/ AppendEvent(a, "Sent") /\ Goto(a, "idle")
           \/ AppendEvent(a, "Unknown") /\ Goto(a, "report")
        /\ Moves
     \/ Goto(a, "idle") /\ UNCHANGED <<journal, moved>>
  /\ UNCHANGED <<process, reflect, gate>>

\* Mutant: the UNKNOWN is returned without the scan that reflects it.
ReportQuietly(a) ==
  /\ pc[a] = "report"
  /\ Goto(a, "unknown")
  /\ UNCHANGED <<journal, process, reflect, gate, moved>>

\* outcome.status = "UNKNOWN": reflect the blocker into readiness, and return.
\* (The dispatcher's own provenance is taken to be intact; were it not, the code
\* degrades readiness without the scan.)
ReportUnknown(a) ==
  /\ pc[a] = "report"
  /\ ctl' \in Scan(ctl)
  /\ Goto(a, IF Conflicting(ctl, Amb) = {} THEN "unknown" ELSE "raised")
  /\ UNCHANGED <<journal, disp, clk, reflect, gate, moved>>

\* Another dispatch() of a known attempt: an abandoned Prepared is fenced, and a
\* Sending becomes Unknown, which is then reflected like any other UNKNOWN.
RecoverAttempt(a) ==
  /\ disp # 0
  /\ \/ tail[a] = "Prepared" /\ pc[a] = "idle" /\ AppendEvent(a, "Blocked") /\ UNCHANGED reflect
     \/ tail[a] = "Sending" /\ AppendEvent(a, "Unknown") /\ reflect' = reflect \cup {a}
  /\ Moves
  /\ UNCHANGED <<process, pc, gate>>

ReflectRecovered(a) ==
  /\ a \in reflect
  /\ ctl' \in Scan(ctl)
  /\ reflect' = reflect \ {a}
  /\ UNCHANGED <<journal, disp, clk, pc, gate, moved>>

-----------------------------------------------------------------------------
\* The reconciler records a checkpoint for some owner epoch. It resolves an
\* ambiguous attempt, reports it as unknown, or does not mention it.
Reconcile(e, k, r, u) ==
  /\ ckpt' = [epoch |-> e, kind |-> k, resolved |-> r, unknown |-> u,
              fresh |-> TRUE]
  /\ Moves
  /\ UNCHANGED <<tail, owner, lost, takeover, process, calls>>

\* What a checkpoint for an earlier owner says is never read.
ReconcileAny ==
  /\ owner # 0
  /\ \/ \E r \in SUBSET Found(Amb) :
          \/ \E u \in SUBSET (Found(Amb) \ r) : Reconcile(owner, "blocking", r, u)
          \/ \E k \in {"complete", "partial"} : Reconcile(owner, k, r, {})
     \/ owner > 1 /\ Reconcile(owner - 1, "complete", {}, {})

\* Another host completes a takeover: under the gate, with nothing ambiguous.
ForeignTakeover ==
  /\ owner \in 1..(MaxEpoch - 1)
  /\ takeover = "None" /\ gate = NoAttempt
  /\ Found(Amb) = {}
  /\ owner' = owner + 1
  /\ Moves
  /\ UNCHANGED <<tail, ckpt, lost, takeover, process, calls>>

\* Any other component appends to the journal.
ForeignAppend ==
  /\ Moves
  /\ UNCHANGED <<journal, process, calls>>

Call(a) ==
  \/ EnterWindow(a) \/ ScanBeforeSend(a) \/ ValidateSender(a)
  \/ CheckReconciliation(a) \/ CommitSending(a) \/ LeaveWindow(a)
  \/ RecordVerdict(a) \/ ReportUnknown(a)

Control ==
  \/ StartHost \/ AttachHost \/ Restart
  \/ AcceptCheckpoint \/ RefuseCheckpoint
  \/ StartTakeover \/ CommitOwner \/ CompleteTakeover

Fault ==
  \/ "storage" \in Faults /\ \E w \in BOOLEAN : SetStorageWritable(w)
  \/ "clock" \in Faults /\ \E t \in BOOLEAN : RecordClockTrust(t)
  \/ "clock" \in Faults /\ (RepeatClockTrust \/ ApplyClockTrust)
  \/ "lease" \in Faults /\ OnLeaseExpired
  \/ "stop" \in Faults /\ Stop

Next ==
  \/ Control \/ Fault
  \/ \E a \in Attempts :
       Prepare(a) \/ Call(a) \/ RecoverAttempt(a) \/ ReflectRecovered(a)
  \/ ReconcileAny \/ ForeignTakeover \/ ForeignAppend

Spec == Init /\ [][Next]_vars

\* The reconciler settles everything it finds for the current owner.
ReconcileFully == owner # 0 /\ Reconcile(owner, "complete", Found(Amb), {})

(***************************************************************************)
(* What the operator owes: the current owner is reconciled and the result  *)
(* presented, clock and storage are repaired, a takeover that was started  *)
(* is resumed. The trouble ends at some point: from then on the host is    *)
(* not stopped, restarted or superseded, nothing is lost again, and the    *)
(* reconciler leaves nothing open.                                         *)
(***************************************************************************)
Trouble ==
  \/ Restart \/ Stop \/ OnLeaseExpired \/ ForeignTakeover
  \/ SetStorageWritable(FALSE) \/ RecordClockTrust(FALSE) \/ RepeatClockTrust
  \/ ReconcileAny /\ ~ReconcileFully

Fairness ==
  /\ WF_vars(ReconcileFully) /\ WF_vars(AcceptCheckpoint)
  /\ "storage" \in Faults => WF_vars(SetStorageWritable(TRUE))
  /\ "clock" \in Faults => WF_vars(RecordClockTrust(TRUE)) /\ WF_vars(ApplyClockTrust)
  /\ WF_vars(AttachHost) /\ WF_vars(CommitOwner) /\ WF_vars(CompleteTakeover)
  /\ <>[][~Trouble]_vars

FairSpec == Spec /\ Fairness

-----------------------------------------------------------------------------
\* Every variable keeps its shape: the controller is the record recovery.py
\* maintains, and the bookkeeping of calls and checkpoints matches the journal's.
TypeOK ==
  /\ tail \in [Attempts -> Tails]
  /\ owner \in 0..MaxEpoch
  /\ ckpt \in Checkpoints
  /\ lost \in BOOLEAN /\ takeover \in Takeovers
  /\ ctl \in Controllers
  /\ disp \in 0..MaxEpoch
  /\ clk \in {"none", "lost", "restored"}
  /\ pc \in [Attempts -> Labels]
  /\ reflect \subseteq Attempts
  /\ gate \in Attempts \cup {NoAttempt}
  /\ moved \in BOOLEAN

\* A send barrier is only committed for the current durable owner, under its own
\* current checkpoint, and when that checkpoint has settled every other attempt
\* that is ambiguous in the journal: all threads, restarts and foreign hosts
\* notwithstanding.
SendsAreQualified ==
  [][\A a \in Attempts :
       tail[a] # "Sending" /\ tail'[a] = "Sending" =>
         /\ disp = owner /\ takeover = "None"
         /\ ckpt.epoch = owner /\ ckpt.kind = "complete" /\ ckpt.fresh
         /\ \A b \in Attempts : tail[b] \in Ambiguous => b \in ckpt.resolved]_vars

\* READY is never shown over an open question: the host owns its scope, clock and
\* storage are good, and what it scanned or was told is settled.
ReadyIsQualified ==
  ctl.state = "READY" =>
    /\ ctl.owner # 0 /\ ctl.storage /\ ctl.clock
    /\ ctl.reconciled /\ ctl.unresolved = {} /\ Sticky(ctl) = {}

\* An UNKNOWN that dispatch() reports keeps its host from READY, and it is only
\* forgotten for a checkpoint of the current owner that resolves it, or with the
\* ownership itself.
UnknownNeedsEvidence ==
  [][\A a \in Attempts :
       /\ pc[a] = "report" /\ pc'[a] = "unknown" =>
            a \in Sticky(ctl') /\ ctl'.state # "READY"
       /\ a \in Sticky(ctl) /\ a \notin Sticky(ctl') /\ ctl'.owner # 0 =>
            ctl.owner = owner /\ ckpt.epoch = owner /\ a \in ckpt.resolved]_vars

\* The ownership of the scope moves once per takeover, to the next epoch, while no
\* sender holds the gate and no send is ambiguous in the journal: also when the
\* process dies between the appends of phase 3 and the takeover is resumed.
OwnerMovesSafely ==
  [][owner' # owner => /\ owner' = owner + 1 /\ takeover # "Owned"
                       /\ gate = NoAttempt /\ Found(Amb) = {}]_vars

\* Under Fairness a host that owns its scope gets READY, unless its lease expired
\* (only a takeover cures that), it was superseded or stopped, or it holds on to an
\* attempt that is no longer ambiguous (a scan only adds attempts).
Recovers ==
  ctl.owner # 0 ~> \/ ctl.state = "READY" \/ ctl.expired
                   \/ ctl.owner # owner \/ ctl.owner = 0
                   \/ \E a \in Sticky(ctl) : tail[a] = "Closed"

\* A takeover that was started can be resumed to its end (module comment of
\* recovery_takeover.py).
TakeoverCompletes == takeover = "Started" ~> takeover = "None"

=============================================================================
