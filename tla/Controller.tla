---------------------------- MODULE Controller ----------------------------
(***************************************************************************)
(* RecoveryController of mvp/autotrade_mvp/recovery.py: the process-local  *)
(* record of ownership, readiness and unresolved sends, and what each of   *)
(* its operations does to that record. Modules that run a controller       *)
(* beside a journal keep the record in a variable.                         *)
(*                                                                         *)
(* The code keeps an attempt in _unresolved_send_attempts, in the bindings *)
(* and, when it came from the journal, in the recovered identities, always *)
(* together: "bind" stands for all three. Of the reason codes only the two *)
(* that some decision reads are kept (startup_reconciliation_required and  *)
(* lease_expired_no_failover).                                             *)
(***************************************************************************)
EXTENDS Naturals, FiniteSets

CONSTANTS
  Attempts,   \* attempt_id values
  Resource    \* the uncertainty that is not a submission attempt

ASSUME ResourceAssumption == Resource \notin Attempts

HostStates == {"STOPPED", "RECOVERING", "READY", "DEGRADED", "BLOCKED"}

Ambiguous == {"Sending", "Unknown"}

\* owner 0: no OwnerFence. bind[a] is the journal event the attempt was bound
\* to when it was noted, "None" when the controller does not know it.
Controllers ==
  [state : HostStates, owner : Nat, startup : BOOLEAN, expired : BOOLEAN,
   unresolved : SUBSET (Attempts \cup {Resource}),
   bind : [Attempts -> Ambiguous \cup {"None"}],
   storage : BOOLEAN, clock : BOOLEAN, reconciled : BOOLEAN]

Unbound == [a \in Attempts |-> "None"]

Sticky(c) == {a \in Attempts : c.bind[a] # "None"}

\* A controller of a new process; the clock's trust is replayed from the journal.
NewController(trusted) ==
  [state |-> "STOPPED", owner |-> 0, startup |-> FALSE, expired |-> FALSE,
   unresolved |-> {}, bind |-> Unbound,
   storage |-> TRUE, clock |-> trusted, reconciled |-> FALSE]

\* _recompute_state
StateOf(c) ==
  CASE c.owner = 0 -> "STOPPED"
    [] c.owner # 0 /\ ~(c.storage /\ c.clock) -> "BLOCKED"
    [] c.owner # 0 /\ c.storage /\ c.clock /\ (c.unresolved # {} \/ c.expired)
         -> "DEGRADED"
    [] OTHER -> IF c.reconciled /\ ~c.startup THEN "READY" ELSE "RECOVERING"

Recompute(c) == [c EXCEPT !.state = StateOf(c)]

\* The assignments of start(), before its scan.
Owning(c, epoch) ==
  [c EXCEPT !.owner = epoch, !.state = "RECOVERING", !.reconciled = FALSE,
            !.startup = TRUE, !.expired = FALSE]

-----------------------------------------------------------------------------
(***************************************************************************)
(* recover_durable_submission_uncertainty, for the ambiguous tails "amb"   *)
(* of the journal. An attempt that is bound to another event makes it      *)
(* raise; the attempts it visited before that stay noted, and readiness is *)
(* not recomputed.                                                         *)
(***************************************************************************)
Found(amb) == {a \in Attempts : amb[a] # "None"}

Conflicting(c, amb) ==
  {a \in Found(amb) : c.bind[a] # "None" /\ c.bind[a] # amb[a]}

Noted(c, amb, S) ==
  [c EXCEPT !.bind = [a \in Attempts |-> IF a \in S THEN amb[a] ELSE c.bind[a]],
            !.unresolved = c.unresolved \cup S]

Scanned(c, amb) ==
  IF Found(amb) = {} THEN c
  ELSE Recompute([Noted(c, amb, Found(amb)) EXCEPT !.reconciled = FALSE])

ScanRaised(c, amb) ==
  {Noted(c, amb, S) : S \in SUBSET (Found(amb) \ Conflicting(c, amb))}

-----------------------------------------------------------------------------
(***************************************************************************)
(* record_reconciliation_checkpoint, for the payload k of the newest       *)
(* checkpoint of the scope.                                                *)
(***************************************************************************)
\* Mutant: a resolved attempt is cleared from the bindings and not from
\* unresolved_attempts.
AcceptedUncleared(c, k) ==
  LET cleared == k.resolved \cap Sticky(c)
      open == Sticky(c) \cup k.unknown
              \cup (IF k.kind = "blocking" THEN {Resource} ELSE {})
      reconciled == k.kind = "complete" /\ open = {} IN
  Recompute([c EXCEPT !.bind = [a \in Attempts |-> IF a \in cleared THEN "None"
                                                   ELSE c.bind[a]],
                      !.unresolved = c.unresolved \cup open,
                      !.reconciled = reconciled,
                      !.startup = c.startup /\ ~reconciled])

Accepted(c, k) ==
  LET cleared == k.resolved \cap Sticky(c)
      open == (Sticky(c) \ cleared) \cup k.unknown
              \cup (IF k.kind = "blocking" THEN {Resource} ELSE {})
      reconciled == k.kind = "complete" /\ open = {} IN
  Recompute([c EXCEPT !.bind = [a \in Attempts |-> IF a \in cleared THEN "None"
                                                   ELSE c.bind[a]],
                      !.unresolved = open,
                      !.reconciled = reconciled,
                      !.startup = c.startup /\ ~reconciled])

\* No checkpoint, or one of another owner epoch.
Refused(c) == Recompute([c EXCEPT !.reconciled = FALSE, !.startup = TRUE])

StorageSet(c, writable) ==
  Recompute([c EXCEPT !.storage = writable,
                      !.reconciled = c.reconciled /\ writable,
                      !.startup = c.startup \/ ~writable])

\* Mutant: readiness is not recomputed.
ClockSetLate(c, trusted) ==
  [c EXCEPT !.clock = trusted,
            !.reconciled = c.reconciled /\ trusted,
            !.startup = c.startup \/ ~trusted]

ClockSet(c, trusted) ==
  Recompute([c EXCEPT !.clock = trusted,
                      !.reconciled = c.reconciled /\ trusted,
                      !.startup = c.startup \/ ~trusted])

LeaseExpired(c) ==
  IF c.owner = 0 THEN c
  ELSE [c EXCEPT !.expired = TRUE,
                 !.state = IF c.state = "READY" THEN "DEGRADED" ELSE c.state]

Stopped(c) ==
  [c EXCEPT !.state = "STOPPED", !.owner = 0, !.reconciled = FALSE,
            !.startup = FALSE, !.expired = FALSE, !.unresolved = {},
            !.bind = Unbound]

=============================================================================
