--------------------------- MODULE RecoveryProofs ---------------------------
(***************************************************************************)
(* Proofs about module Recovery, for any set of attempts and any bound on  *)
(* the epochs. First what each operation of the controller does to its     *)
(* record, then the inductive invariant, one step per action.              *)
(***************************************************************************)
EXTENDS Recovery, TLAPS

\* The controller's fields agree with each other: READY is only stored over good
\* fields, and what is bound is also unresolved.
Coherent(c) ==
  /\ c \in Controllers
  /\ c.state = "READY" => /\ c.owner # 0 /\ c.storage /\ c.clock
                          /\ c.reconciled /\ c.unresolved = {}
  /\ Sticky(c) \subseteq c.unresolved

\* What a scan can find.
Scans == [Attempts -> Ambiguous \cup {"None"}]

\* The fields that the proofs follow through an operation.
SameHold(c, d) == d.owner = c.owner /\ d.bind = c.bind

-----------------------------------------------------------------------------
\* _recompute_state derives a coherent state from fields of the right types.
LEMMA RecomputeCoherent ==
  ASSUME NEW c \in Controllers, Sticky(c) \subseteq c.unresolved
  PROVE  /\ Coherent(Recompute(c)) /\ SameHold(c, Recompute(c))
         /\ Recompute(c).unresolved = c.unresolved
         /\ c.unresolved # {} => Recompute(c).state # "READY"
<1>1. StateOf(c) \in HostStates
  BY DEF StateOf, HostStates, Controllers
<1>2. StateOf(c) = "READY" => /\ c.owner # 0 /\ c.storage /\ c.clock
                              /\ c.reconciled /\ c.unresolved = {}
  BY DEF StateOf, Controllers
<1> DEFINE d == Recompute(c)
<1>3. /\ d \in Controllers /\ d.state = StateOf(c)
      /\ d.owner = c.owner /\ d.bind = c.bind /\ d.unresolved = c.unresolved
      /\ d.storage = c.storage /\ d.clock = c.clock /\ d.reconciled = c.reconciled
  BY <1>1 DEF Recompute, Controllers
<1>4. Sticky(d) = Sticky(c)
  BY <1>3 DEF Sticky
<1> QED  BY <1>2, <1>3, <1>4 DEF Coherent, SameHold

\* A new controller is coherent.
LEMMA NewCoherent ==
  ASSUME NEW t \in BOOLEAN
  PROVE  Coherent(NewController(t)) /\ NewController(t).owner = 0
BY DEF Coherent, NewController, Controllers, Sticky, Unbound, HostStates, Ambiguous

\* start() and a completed takeover leave a coherent controller of the new epoch.
LEMMA OwningCoherent ==
  ASSUME NEW c, Coherent(c), NEW e \in Nat
  PROVE  /\ Coherent(Owning(c, e)) /\ Owning(c, e).owner = e
         /\ Owning(c, e).bind = c.bind /\ Owning(c, e).unresolved = c.unresolved
<1> DEFINE d == Owning(c, e)
<1>1. /\ d \in Controllers /\ d.state = "RECOVERING" /\ d.owner = e
      /\ d.bind = c.bind /\ d.unresolved = c.unresolved
  BY DEF Owning, Coherent, Controllers, HostStates
<1>2. Sticky(d) = Sticky(c)
  BY <1>1 DEF Sticky
<1> QED  BY <1>1, <1>2 DEF Coherent

\* Attempts that a scan notes become sticky, and no other attempt changes.
LEMMA NotedAdds ==
  ASSUME NEW c, Coherent(c), NEW amb \in Scans, NEW S \in SUBSET Found(amb)
  PROVE  LET d == Noted(c, amb, S) IN
         /\ d \in Controllers /\ d.state = c.state /\ d.owner = c.owner
         /\ Sticky(d) = Sticky(c) \cup S
         /\ d.unresolved = c.unresolved \cup S
         /\ d.storage = c.storage /\ d.clock = c.clock /\ d.reconciled = c.reconciled
<1> DEFINE b == [a \in Attempts |-> IF a \in S THEN amb[a] ELSE c.bind[a]]
           d == Noted(c, amb, S)
<1>1. c \in Controllers /\ c.bind \in [Attempts -> Ambiguous \cup {"None"}]
  BY DEF Coherent, Controllers
<1>2. S \subseteq Attempts /\ \A a \in S : amb[a] # "None"
  BY DEF Found
<1>3. b \in [Attempts -> Ambiguous \cup {"None"}]
  BY <1>1 DEF Scans
<1>4. /\ d \in Controllers /\ d.state = c.state /\ d.owner = c.owner
      /\ d.bind = b /\ d.unresolved = c.unresolved \cup S
      /\ d.storage = c.storage /\ d.clock = c.clock /\ d.reconciled = c.reconciled
  BY <1>1, <1>2, <1>3 DEF Noted, Controllers
<1>5. Sticky(d) = Sticky(c) \cup S
  BY <1>2, <1>4 DEF Sticky
<1> QED  BY <1>4, <1>5

\* A scan that returns makes everything it found sticky, and forgets nothing.
LEMMA ScannedAdds ==
  ASSUME NEW c, Coherent(c), NEW amb \in Scans
  PROVE  LET d == Scanned(c, amb) IN
         /\ Coherent(d) /\ d.owner = c.owner
         /\ Sticky(d) = Sticky(c) \cup Found(amb)
         /\ Found(amb) \subseteq d.unresolved
         /\ Found(amb) # {} => d.state # "READY"
<1>1. CASE Found(amb) = {}
  BY <1>1 DEF Scanned
<1>2. CASE Found(amb) # {}
  <2> DEFINE n == Noted(c, amb, Found(amb))
             m == [n EXCEPT !.reconciled = FALSE]
  <2>1. /\ n \in Controllers /\ n.owner = c.owner
        /\ Sticky(n) = Sticky(c) \cup Found(amb)
        /\ n.unresolved = c.unresolved \cup Found(amb)
    BY NotedAdds
  <2>2. /\ m \in Controllers /\ m.owner = n.owner /\ m.bind = n.bind
        /\ m.unresolved = n.unresolved
    BY <2>1 DEF Controllers
  <2>3. Sticky(m) = Sticky(n)
    BY <2>2 DEF Sticky
  <2>4. Sticky(m) \subseteq m.unresolved
    BY <2>1, <2>2, <2>3 DEF Coherent
  <2>5. Scanned(c, amb) = Recompute(m)
    BY <1>2 DEF Scanned
  <2>6. /\ Coherent(Recompute(m)) /\ SameHold(m, Recompute(m))
        /\ Recompute(m).unresolved = m.unresolved
        /\ m.unresolved # {} => Recompute(m).state # "READY"
    BY <2>2, <2>4, RecomputeCoherent
  <2>7. Sticky(Recompute(m)) = Sticky(m)
    BY <2>6 DEF SameHold, Sticky
  <2> HIDE DEF n, m
  <2> QED  BY <1>2, <2>1, <2>2, <2>3, <2>5, <2>6, <2>7 DEF SameHold
<1> QED  BY <1>1, <1>2

\* A scan that raises forgets nothing either; it cannot happen to a READY host,
\* which has nothing bound.
LEMMA ScanRaisedAdds ==
  ASSUME NEW c, Coherent(c), NEW amb \in Scans, Conflicting(c, amb) # {},
         NEW d \in ScanRaised(c, amb)
  PROVE  Coherent(d) /\ d.owner = c.owner /\ Sticky(c) \subseteq Sticky(d)
<1>1. PICK S \in SUBSET (Found(amb) \ Conflicting(c, amb)) : d = Noted(c, amb, S)
  BY DEF ScanRaised
<1>2. /\ d \in Controllers /\ d.state = c.state /\ d.owner = c.owner
      /\ Sticky(d) = Sticky(c) \cup S
      /\ d.unresolved = c.unresolved \cup S
  BY <1>1, NotedAdds
<1>3. Sticky(c) # {}
  BY DEF Conflicting, Sticky, Found
<1>4. c.state # "READY"
  BY <1>3 DEF Coherent
<1> QED  BY <1>2, <1>4 DEF Coherent

\* An accepted checkpoint clears exactly the sticky attempts that it resolves.
LEMMA AcceptedClears ==
  ASSUME NEW c, Coherent(c), NEW k \in Checkpoints
  PROVE  LET d == Accepted(c, k) IN
         /\ Coherent(d) /\ d.owner = c.owner
         /\ Sticky(d) = Sticky(c) \ k.resolved
<1> DEFINE cleared == k.resolved \cap Sticky(c)
           open == (Sticky(c) \ cleared) \cup k.unknown
                   \cup (IF k.kind = "blocking" THEN {Resource} ELSE {})
           rec == k.kind = "complete" /\ open = {}
           b == [a \in Attempts |-> IF a \in cleared THEN "None" ELSE c.bind[a]]
           m == [c EXCEPT !.bind = b, !.unresolved = open, !.reconciled = rec,
                          !.startup = c.startup /\ ~rec]
<1>1. /\ c \in Controllers /\ c.bind \in [Attempts -> Ambiguous \cup {"None"}]
      /\ c.startup \in BOOLEAN
  BY DEF Coherent, Controllers
<1>2. b \in [Attempts -> Ambiguous \cup {"None"}]
  BY <1>1
<1>3. open \in SUBSET (Attempts \cup {Resource})
  BY DEF Sticky, Checkpoints
<1>4. rec \in BOOLEAN /\ (c.startup /\ ~rec) \in BOOLEAN
  BY <1>1
<1>5. m \in Controllers /\ m.owner = c.owner /\ m.bind = b /\ m.unresolved = open
  <2> HIDE DEF b, open, rec
  <2> QED  BY <1>1, <1>2, <1>3, <1>4 DEF Controllers
<1>6. Sticky(m) = Sticky(c) \ k.resolved
  BY <1>5 DEF Sticky
<1>7. Sticky(m) \subseteq m.unresolved
  BY <1>5, <1>6
<1>8. Accepted(c, k) = Recompute(m)
  BY DEF Accepted
<1>9. Coherent(Recompute(m)) /\ SameHold(m, Recompute(m))
  BY <1>5, <1>7, RecomputeCoherent
<1> HIDE DEF m
<1>10. Sticky(Recompute(m)) = Sticky(m)
  BY <1>9 DEF SameHold, Sticky
<1> QED  BY <1>5, <1>6, <1>8, <1>9, <1>10 DEF SameHold

\* Refusals and the switches leave owner and bindings alone.
LEMMA SwitchesCoherent ==
  ASSUME NEW c, Coherent(c), NEW t \in BOOLEAN
  PROVE  /\ Coherent(Refused(c)) /\ SameHold(c, Refused(c))
         /\ Coherent(StorageSet(c, t)) /\ SameHold(c, StorageSet(c, t))
         /\ Coherent(ClockSet(c, t)) /\ SameHold(c, ClockSet(c, t))
<1>1. \A m \in Controllers : m.owner = c.owner /\ m.bind = c.bind /\ m.unresolved = c.unresolved
        => Coherent(Recompute(m)) /\ SameHold(c, Recompute(m))
  <2> TAKE m \in Controllers
  <2> HAVE m.owner = c.owner /\ m.bind = c.bind /\ m.unresolved = c.unresolved
  <2>1. Sticky(m) \subseteq m.unresolved
    BY DEF Sticky, Coherent
  <2> QED  BY <2>1, RecomputeCoherent DEF SameHold
<1>2. c \in Controllers /\ c.reconciled \in BOOLEAN /\ c.startup \in BOOLEAN
  BY DEF Coherent, Controllers
<1>3. Coherent(Refused(c)) /\ SameHold(c, Refused(c))
  <2> DEFINE m == [c EXCEPT !.reconciled = FALSE, !.startup = TRUE]
  <2>1. m \in Controllers /\ m.owner = c.owner /\ m.bind = c.bind /\ m.unresolved = c.unresolved
    BY <1>2 DEF Controllers
  <2>2. Refused(c) = Recompute(m)
    BY DEF Refused
  <2> HIDE DEF m
  <2> QED  BY <1>1, <2>1, <2>2
<1>4. Coherent(StorageSet(c, t)) /\ SameHold(c, StorageSet(c, t))
  <2> DEFINE m == [c EXCEPT !.storage = t, !.reconciled = c.reconciled /\ t,
                            !.startup = c.startup \/ ~t]
  <2>1. m \in Controllers /\ m.owner = c.owner /\ m.bind = c.bind /\ m.unresolved = c.unresolved
    BY <1>2 DEF Controllers
  <2>2. StorageSet(c, t) = Recompute(m)
    BY DEF StorageSet
  <2> HIDE DEF m
  <2> QED  BY <1>1, <2>1, <2>2
<1>5. Coherent(ClockSet(c, t)) /\ SameHold(c, ClockSet(c, t))
  <2> DEFINE m == [c EXCEPT !.clock = t, !.reconciled = c.reconciled /\ t,
                            !.startup = c.startup \/ ~t]
  <2>1. m \in Controllers /\ m.owner = c.owner /\ m.bind = c.bind /\ m.unresolved = c.unresolved
    BY <1>2 DEF Controllers
  <2>2. ClockSet(c, t) = Recompute(m)
    BY DEF ClockSet
  <2> HIDE DEF m
  <2> QED  BY <1>1, <2>1, <2>2
<1> QED  BY <1>3, <1>4, <1>5

\* An expired lease takes READY away and nothing else.
LEMMA LeaseCoherent ==
  ASSUME NEW c, Coherent(c)
  PROVE  Coherent(LeaseExpired(c)) /\ SameHold(c, LeaseExpired(c))
<1> DEFINE d == LeaseExpired(c)
<1>1. c \in Controllers
  BY DEF Coherent
<1>2. /\ d \in Controllers /\ d.owner = c.owner /\ d.bind = c.bind
      /\ d.unresolved = c.unresolved /\ (d.state = "READY" => c.owner = 0 /\ d = c)
  BY <1>1 DEF LeaseExpired, Controllers, HostStates
<1>3. Sticky(d) = Sticky(c)
  BY <1>2 DEF Sticky
<1> QED  BY <1>2, <1>3 DEF Coherent, SameHold

\* A stopped controller owns and knows nothing.
LEMMA StoppedCoherent ==
  ASSUME NEW c, Coherent(c)
  PROVE  Coherent(Stopped(c)) /\ Stopped(c).owner = 0
BY DEF Coherent, Stopped, Controllers, HostStates, Sticky, Unbound, Ambiguous

-----------------------------------------------------------------------------
Checking == {"scan", "validate", "checkpoint", "commit"}

\* Nothing precedes the first owner, and a started takeover has room for its epoch.
Ownership ==
  /\ owner = 0 => /\ disp = 0 /\ ctl.owner = 0 /\ takeover = "None"
                  /\ \A a \in Attempts : tail[a] = "None"
  /\ takeover = "Started" => owner < MaxEpoch

\* Calls run on an issued dispatcher, and the one in its window holds the gate.
Windows ==
  /\ disp = 0 => \A a \in Attempts : pc[a] = "idle"
  /\ \A a \in Attempts : pc[a] \in Checking \cup {"wire"} <=> gate = a
  /\ \A a \in Attempts : pc[a] = "report" => tail[a] = "Unknown"

\* What the checks of a call have established, as long as the journal has not moved
\* since its cut: the reason why the cut makes the four checks one.
Qualified ==
  \A a \in Attempts : ~moved =>
    /\ pc[a] \in Checking => takeover = "None"
    /\ pc[a] \in {"checkpoint", "commit"} => disp = owner
    /\ pc[a] \in {"validate", "checkpoint"} =>
         ctl.owner = 0 \/ Found(Amb) \subseteq Sticky(ctl) \cup ckpt.resolved
    /\ pc[a] = "commit" =>
         /\ ckpt.epoch = owner /\ ckpt.kind = "complete" /\ ckpt.fresh
         /\ Found(Amb) \subseteq ckpt.resolved

IInv == TypeOK /\ Coherent(ctl) /\ Ownership /\ Windows /\ Qualified

\* What a scan of the journal finds are the attempts with an ambiguous tail.
LEMMA AmbFinds ==
  ASSUME TypeOK
  PROVE  /\ Amb \in Scans
         /\ Found(Amb) = {a \in Attempts : tail[a] \in Ambiguous}
BY DEF TypeOK, Amb, Scans, Found, Ambiguous

\* A scan, whether it returns or raises, forgets no attempt.
LEMMA ScanAdds ==
  ASSUME TypeOK, NEW c, Coherent(c), NEW d \in Scan(c)
  PROVE  /\ Coherent(d) /\ d.owner = c.owner
         /\ Sticky(c) \subseteq Sticky(d)
         /\ Conflicting(c, Amb) = {} => /\ Found(Amb) \subseteq Sticky(d)
                                        /\ Found(Amb) \subseteq d.unresolved
                                        /\ Found(Amb) # {} => d.state # "READY"
<1>1. Amb \in Scans
  BY AmbFinds
<1>2. CASE Conflicting(c, Amb) = {}
  <2>1. d = Scanned(c, Amb)
    BY <1>2 DEF Scan
  <2> QED  BY <1>1, <1>2, <2>1, ScannedAdds
<1>3. CASE Conflicting(c, Amb) # {}
  <2>1. d \in ScanRaised(c, Amb)
    BY <1>3 DEF Scan
  <2> QED  BY <1>1, <1>3, <2>1, ScanRaisedAdds
<1> QED  BY <1>2, <1>3

\* The initial states satisfy the invariant.
LEMMA InitInv == Init => IInv
<1> SUFFICES ASSUME Init PROVE IInv
  OBVIOUS
<1>1. Coherent(ctl) /\ ctl.owner = 0
  BY NewCoherent DEF Init
<1>2. TypeOK
  <2>1. ctl \in Controllers
    BY <1>1 DEF Coherent
  <2>2. ckpt \in Checkpoints
    BY DEF Init, Checkpoints, NoCheckpoint
  <2>3. owner \in 0..MaxEpoch /\ disp \in 0..MaxEpoch
    BY RecoveryAssumption DEF Init
  <2>4. tail \in [Attempts -> Tails] /\ pc \in [Attempts -> Labels]
    BY DEF Init, Tails, Labels
  <2>5. /\ lost \in BOOLEAN /\ takeover \in Takeovers
        /\ clk \in {"none", "lost", "restored"} /\ gate \in Attempts \cup {NoAttempt}
        /\ reflect \subseteq Attempts /\ moved \in BOOLEAN
    BY DEF Init, Takeovers
  <2> QED  BY <2>1, <2>2, <2>3, <2>4, <2>5 DEF TypeOK
<1>3. Ownership /\ Windows /\ Qualified
  BY <1>1, RecoveryAssumption DEF Init, Ownership, Windows, Qualified, Checking
<1> QED  BY <1>1, <1>2, <1>3 DEF IInv

-----------------------------------------------------------------------------
(***************************************************************************)
(* The kinds of steps. A step of the controller leaves the journal and the *)
(* calls alone; a step of the journal moves it under whoever holds the     *)
(* gate; a rejection gives the gate back.                                  *)
(***************************************************************************)

\* Without a holder of the gate, or after the journal moved, nothing is claimed.
LEMMA NothingClaimed ==
  ASSUME Windows', moved' \/ gate' = NoAttempt
  PROVE  Qualified'
BY RecoveryAssumption DEF Windows, Qualified, Checking

\* A step of the controller: what it forgets is resolved by the checkpoint.
LEMMA ControllerStep ==
  ASSUME IInv, UNCHANGED <<journal, disp, calls, moved>>,
         clk' \in {"none", "lost", "restored"}, Coherent(ctl'),
         \/ ctl'.owner = 0
         \/ /\ ctl'.owner = ctl.owner
            /\ Sticky(ctl) \subseteq Sticky(ctl') \cup ckpt.resolved
  PROVE  IInv'
<1>1. TypeOK'
  BY DEF IInv, TypeOK, journal, calls, Coherent
<1>2. Ownership' /\ Windows'
  BY DEF IInv, Ownership, Windows, journal, calls
<1>3. Qualified'
  <2>1. Found(Amb)' = Found(Amb)
    BY DEF Found, Amb, journal
  <2> QED  BY <2>1 DEF IInv, Qualified, journal, calls
<1> QED  BY <1>1, <1>2, <1>3 DEF IInv

\* A step that moves the journal, outside of every call.
LEMMA JournalStep ==
  ASSUME IInv, TypeOK', Coherent(ctl'), Ownership', Moves, UNCHANGED <<pc, gate>>,
         disp' = 0 => disp = 0,
         \A a \in Attempts : tail[a] = "Unknown" => tail'[a] = "Unknown"
  PROVE  IInv'
<1>1. Windows'
  BY DEF IInv, Windows
<1>2. moved' \/ gate' = NoAttempt
  BY DEF Moves
<1> QED  BY <1>1, <1>2, NothingClaimed DEF IInv

EventTypes == {"Prepared", "Sending", "Sent", "Blocked", "Unknown"}

\* An event changes its attempt's tail and at most the freshness of the checkpoint.
LEMMA EventAppended ==
  ASSUME TypeOK, NEW a \in Attempts, NEW type \in EventTypes, AppendEvent(a, type)
  PROVE  /\ tail' \in [Attempts -> Tails] /\ ckpt' \in Checkpoints
         /\ \A b \in Attempts \ {a} : tail'[b] = tail[b]
         /\ tail'[a] = IF type \in {"Sent", "Blocked"} THEN "Closed" ELSE type
         /\ owner' = owner /\ lost' = lost /\ takeover' = takeover
BY DEF TypeOK, AppendEvent, Tails, Checkpoints, EventTypes

\* A rejected call ends and gives the gate back.
LEMMA RejectStep ==
  ASSUME IInv, NEW a \in Attempts, pc[a] \in Checking \cup {"prepared"},
         gate \in {a, NoAttempt}, Reject(a),
         Coherent(ctl'), ctl'.owner = ctl.owner, UNCHANGED <<disp, clk, reflect>>
  PROVE  IInv'
<1>1. /\ tail' \in [Attempts -> Tails] /\ ckpt' \in Checkpoints
      /\ \A b \in Attempts \ {a} : tail'[b] = tail[b]
      /\ owner' = owner /\ lost' = lost /\ takeover' = takeover
  BY EventAppended DEF IInv, Reject, EventTypes
<1>2. pc' = [pc EXCEPT ![a] = "idle"] /\ gate' = NoAttempt /\ moved' = FALSE
  BY DEF Reject, Goto
<1>3. TypeOK'
  BY <1>1, <1>2 DEF IInv, TypeOK, Coherent, Labels
<1>4. disp # 0 /\ owner # 0
  BY DEF IInv, Windows, Ownership, Checking
<1>5. Ownership'
  BY <1>1, <1>4 DEF IInv, Ownership
<1>6. Windows'
  BY <1>1, <1>2, <1>4, RecoveryAssumption DEF IInv, TypeOK, Windows, Checking
<1> QED  BY <1>2, <1>3, <1>5, <1>6, NothingClaimed DEF IInv

-----------------------------------------------------------------------------
\* Composition and death of the host preserve the invariant.
LEMMA HostInv ==
  ASSUME IInv, StartHost \/ AttachHost \/ Restart
  PROVE  IInv'
<1> USE DEF IInv
<1>1. Amb \in Scans
  BY AmbFinds
<1>2. CASE StartHost
  <2>1. Coherent(Owning(ctl, 1)) /\ Owning(ctl, 1).owner = 1
    BY OwningCoherent
  <2>2. Coherent(ctl') /\ ctl'.owner = 1
    BY <1>1, <1>2, <2>1, ScannedAdds DEF StartHost
  <2>3. TypeOK'
    BY <1>2, <2>2, RecoveryAssumption DEF StartHost, TypeOK, Coherent, calls, Moves
  <2>4. Ownership'
    BY <1>2 DEF StartHost, Ownership
  <2> QED  BY <1>2, <2>2, <2>3, <2>4, JournalStep DEF StartHost, calls
<1>3. CASE AttachHost
  <2> DEFINE c == Scanned(Owning(ctl, owner), Amb)
  <2>1. Coherent(c)
    BY <1>1, OwningCoherent, ScannedAdds DEF TypeOK
  <2>2. /\ ctl' \in Controllers /\ ctl'.state = "RECOVERING"
        /\ ctl'.bind = c.bind /\ ctl'.unresolved = c.unresolved
    <3> HIDE DEF c
    <3>1. ctl' = [c EXCEPT !.state = "RECOVERING", !.reconciled = FALSE, !.startup = TRUE]
      BY <1>3 DEF AttachHost, c
    <3> QED  BY <2>1, <3>1 DEF Coherent, Controllers, HostStates
  <2>3. Coherent(ctl')
    BY <2>1, <2>2 DEF Coherent, Sticky
  <2>4. TypeOK' /\ Ownership' /\ Windows'
    BY <1>3, <2>2 DEF AttachHost, TypeOK, Ownership, Windows, journal, calls
  <2>5. gate' = NoAttempt
    BY <1>3 DEF AttachHost, TypeOK, Windows, Checking, calls
  <2> QED  BY <2>3, <2>4, <2>5, NothingClaimed
<1>4. CASE Restart
  <2>1. (~lost) \in BOOLEAN
    BY DEF TypeOK
  <2>2. Coherent(ctl') /\ ctl'.owner = 0
    BY <1>4, <2>1, NewCoherent DEF Restart
  <2>3. pc' = [a \in Attempts |-> "idle"] /\ gate' = NoAttempt /\ reflect' = {}
    BY <1>4 DEF Restart
  <2>4. TypeOK'
    <3>1. pc' \in [Attempts -> Labels]
      BY <2>3 DEF Labels
    <3>2. disp' = 0 /\ clk' = "none" /\ moved' = FALSE
      BY <1>4, Zenon DEF Restart
    <3>3. ctl' \in Controllers
      BY <2>2 DEF Coherent
    <3>4. UNCHANGED journal
      BY <1>4 DEF Restart
    <3>5. 0 \in 0..MaxEpoch
      BY RecoveryAssumption
    <3>6. disp' \in 0..MaxEpoch /\ moved' \in BOOLEAN
      BY <3>2, <3>5, Zenon
    <3> QED  BY <2>3, <3>1, <3>2, <3>3, <3>4, <3>6 DEF TypeOK, journal
  <2>5. Ownership'
    BY <1>4, <2>2 DEF Restart, Ownership, journal
  <2>6. Windows'
    BY <2>3, RecoveryAssumption DEF Windows, Checking
  <2> QED  BY <2>2, <2>3, <2>4, <2>5, <2>6, NothingClaimed
<1> QED  BY <1>2, <1>3, <1>4

\* Checkpoints, faults and the clock preserve the invariant.
LEMMA ControlInv ==
  ASSUME IInv,
         \/ AcceptCheckpoint \/ RefuseCheckpoint \/ OnLeaseExpired \/ Stop
         \/ RepeatClockTrust \/ ApplyClockTrust
         \/ \E t \in BOOLEAN : SetStorageWritable(t) \/ RecordClockTrust(t)
  PROVE  IInv'
<1> USE DEF IInv
<1>1. ctl \in Controllers /\ ctl.clock \in BOOLEAN /\ ckpt \in Checkpoints
  BY DEF TypeOK, Controllers
<1>2. CASE AcceptCheckpoint
  <2>1. /\ Coherent(ctl') /\ ctl'.owner = ctl.owner
        /\ Sticky(ctl') = Sticky(ctl) \ ckpt.resolved
    BY <1>1, <1>2, AcceptedClears DEF AcceptCheckpoint
  <2> QED  BY <1>2, <2>1, ControllerStep DEF AcceptCheckpoint, TypeOK
<1>3. CASE RefuseCheckpoint
  <2>1. Coherent(ctl') /\ SameHold(ctl, ctl')
    BY <1>3, SwitchesCoherent DEF RefuseCheckpoint
  <2> QED  BY <1>3, <2>1, ControllerStep DEF RefuseCheckpoint, TypeOK, SameHold, Sticky
<1>4. CASE OnLeaseExpired
  <2>1. Coherent(ctl') /\ SameHold(ctl, ctl')
    BY <1>4, LeaseCoherent DEF OnLeaseExpired
  <2> QED  BY <1>4, <2>1, ControllerStep DEF OnLeaseExpired, TypeOK, SameHold, Sticky
<1>5. CASE Stop
  <2>1. Coherent(ctl') /\ ctl'.owner = 0
    BY <1>5, StoppedCoherent DEF Stop
  <2> QED  BY <1>5, <2>1, ControllerStep DEF Stop, TypeOK
<1>6. CASE RepeatClockTrust
  <2>1. Coherent(ctl') /\ SameHold(ctl, ctl')
    BY <1>1, <1>6, SwitchesCoherent DEF RepeatClockTrust
  <2> QED  BY <1>6, <2>1, ControllerStep DEF RepeatClockTrust, TypeOK, SameHold, Sticky
<1>7. CASE ApplyClockTrust
  <2>1. (clk = "restored") \in BOOLEAN
    OBVIOUS
  <2>2. Coherent(ctl') /\ SameHold(ctl, ctl')
    BY <1>7, <2>1, SwitchesCoherent DEF ApplyClockTrust
  <2> QED  BY <1>7, <2>2, ControllerStep DEF ApplyClockTrust, TypeOK, SameHold, Sticky
<1>8. ASSUME NEW t \in BOOLEAN, SetStorageWritable(t) PROVE IInv'
  <2>1. Coherent(ctl') /\ SameHold(ctl, ctl')
    BY <1>8, SwitchesCoherent DEF SetStorageWritable
  <2> QED  BY <1>8, <2>1, ControllerStep DEF SetStorageWritable, TypeOK, SameHold, Sticky
<1>9. ASSUME NEW t \in BOOLEAN, RecordClockTrust(t) PROVE IInv'
  <2>1. ckpt' \in Checkpoints
    BY <1>1, <1>9 DEF RecordClockTrust, Checkpoints
  <2>2. TypeOK'
    BY <1>9, <2>1 DEF RecordClockTrust, TypeOK, calls, Moves
  <2>3. Ownership'
    BY <1>9 DEF RecordClockTrust, Ownership
  <2> QED  BY <1>9, <2>2, <2>3, JournalStep DEF RecordClockTrust, calls
<1> QED  BY <1>2, <1>3, <1>4, <1>5, <1>6, <1>7, <1>8, <1>9

\* What phase 1 of a takeover forgets is resolved by the owner's own checkpoint.
LEMMA ReconciledClears ==
  ASSUME TypeOK, NEW c, Coherent(c)
  PROVE  /\ Coherent(Reconciled(c)) /\ Reconciled(c).owner = c.owner
         /\ Sticky(c) \subseteq Sticky(Reconciled(c)) \cup ckpt.resolved
         /\ Sticky(c) \subseteq Sticky(Reconciled(c)) \/ ckpt.epoch = c.owner
<1>1. ckpt \in Checkpoints
  BY DEF TypeOK
<1>2. CASE ~c.storage
  BY <1>2 DEF Reconciled
<1>3. CASE c.storage /\ ckpt.epoch # c.owner
  <2>1. Reconciled(c) = Refused(c)
    BY <1>3 DEF Reconciled
  <2>2. Coherent(Refused(c)) /\ SameHold(c, Refused(c))
    BY SwitchesCoherent
  <2> QED  BY <2>1, <2>2 DEF SameHold, Sticky
<1>4. CASE c.storage /\ ckpt.epoch = c.owner
  <2>1. Reconciled(c) = Accepted(c, ckpt)
    BY <1>4 DEF Reconciled
  <2> QED  BY <1>1, <1>4, <2>1, AcceptedClears
<1> QED  BY <1>2, <1>3, <1>4

\* Takeovers preserve the invariant.
LEMMA TakeoverInv ==
  ASSUME IInv, StartTakeover \/ CommitOwner \/ CompleteTakeover
  PROVE  IInv'
<1> USE DEF IInv
<1>1. Amb \in Scans
  BY AmbFinds
<1>2. CASE StartTakeover
  <2> DEFINE c == Scanned(ctl, Amb)
  <2>1. /\ Coherent(c) /\ c.owner = ctl.owner /\ Sticky(ctl) \subseteq Sticky(c)
    BY <1>1, ScannedAdds
  <2>2. /\ Coherent(ctl') /\ ctl'.owner = ctl.owner
        /\ Sticky(ctl) \subseteq Sticky(ctl') \cup ckpt.resolved
    <3>1. CASE Conflicting(ctl, Amb) # {}
      BY <1>2, <3>1, ScanAdds DEF StartTakeover
    <3>2. CASE Conflicting(ctl, Amb) = {}
      <4>1. ctl' = Reconciled(c)
        BY <1>2, <3>2 DEF StartTakeover
      <4> HIDE DEF c
      <4> QED  BY <2>1, <4>1, ReconciledClears
    <3> QED  BY <3>1, <3>2
  <2>3. CASE UNCHANGED <<takeover, moved>>
    <3>1. UNCHANGED <<journal, disp, clk, calls, moved>>
      BY <1>2, <2>3 DEF StartTakeover, journal
    <3> QED  BY <2>2, <3>1, ControllerStep DEF TypeOK
  <2>4. CASE takeover' = "Started" /\ Moves
    <3>1. UNCHANGED <<tail, owner, ckpt, lost, disp, clk, calls>> /\ ctl.owner = owner
          /\ ctl.owner # 0 /\ owner < MaxEpoch
      BY <1>2 DEF StartTakeover
    <3>2. TypeOK'
      BY <2>2, <2>4, <3>1 DEF TypeOK, Coherent, Moves, Takeovers, calls
    <3>3. Ownership'
      BY <2>4, <3>1 DEF Ownership
    <3> QED  BY <2>2, <2>4, <3>1, <3>2, <3>3, JournalStep DEF calls
  <2> QED  BY <1>2, <2>3, <2>4 DEF StartTakeover
<1>3. CASE CommitOwner
  <2>1. Coherent(ctl') /\ ctl'.owner = ctl.owner /\ Sticky(ctl) \subseteq Sticky(ctl')
    BY <1>3, ScanAdds DEF CommitOwner
  <2>2. CASE UNCHANGED <<owner, takeover, moved>>
    <3>1. UNCHANGED <<journal, disp, clk, calls, moved>>
      BY <1>3, <2>2 DEF CommitOwner, journal
    <3> QED  BY <2>1, <3>1, ControllerStep DEF TypeOK
  <2>3. CASE owner' = owner + 1 /\ takeover' = "Owned" /\ Moves
    <3>1. /\ UNCHANGED <<tail, ckpt, lost, disp, clk, calls>>
          /\ owner \in 0..MaxEpoch /\ owner < MaxEpoch
      BY <1>3 DEF CommitOwner, Ownership, TypeOK
    <3>2. owner' \in 0..MaxEpoch /\ owner' # 0
      BY <2>3, <3>1, RecoveryAssumption
    <3>3. TypeOK'
      BY <2>1, <2>3, <3>1, <3>2 DEF TypeOK, Coherent, Moves, Takeovers, calls
    <3>4. Ownership'
      BY <2>3, <3>2 DEF Ownership
    <3> QED  BY <2>1, <2>3, <3>1, <3>3, <3>4, JournalStep DEF calls
  <2> QED  BY <1>3, <2>2, <2>3 DEF CommitOwner
<1>4. CASE CompleteTakeover
  <2> DEFINE resumed == ctl.owner = owner
             c == IF resumed THEN Owning(ctl, owner) ELSE ctl
  <2>1. owner \in Nat /\ owner # 0 /\ owner \in 0..MaxEpoch /\ disp = 0
    BY <1>4 DEF CompleteTakeover, Ownership, TypeOK
  <2>2. Coherent(c) /\ c.owner = ctl.owner /\ Sticky(c) = Sticky(ctl)
    BY <2>1, OwningCoherent DEF Sticky
  <2>3. CASE Conflicting(c, Amb) = {} /\ Scanned(c, Amb).unresolved = {}
    <3>1. /\ ctl' = Owning(Scanned(c, Amb), owner) /\ disp' = (IF resumed THEN 0 ELSE owner)
          /\ takeover' = "None" /\ Moves /\ UNCHANGED <<tail, owner, ckpt, lost, clk, calls>>
      BY <1>4, <2>3 DEF CompleteTakeover
    <3>2. Coherent(ctl')
      <4> HIDE DEF c
      <4> QED  BY <1>1, <2>1, <2>2, <3>1, ScannedAdds, OwningCoherent
    <3>3. disp' \in 0..MaxEpoch
      BY <2>1, <3>1, RecoveryAssumption
    <3>4. TypeOK'
      BY <3>1, <3>2, <3>3 DEF TypeOK, Coherent, Moves, Takeovers, calls
    <3>5. Ownership'
      BY <2>1, <3>1 DEF Ownership
    <3> QED  BY <2>1, <3>1, <3>2, <3>4, <3>5, JournalStep DEF calls
  <2>4. CASE ~(Conflicting(c, Amb) = {} /\ Scanned(c, Amb).unresolved = {})
    <3>1. ctl' \in Scan(c) /\ UNCHANGED <<journal, disp, clk, calls, moved>>
      BY <1>4, <2>4 DEF CompleteTakeover, journal
    <3>2. Coherent(ctl') /\ ctl'.owner = ctl.owner /\ Sticky(ctl) \subseteq Sticky(ctl')
      <4> HIDE DEF c
      <4> QED  BY <2>2, <3>1, ScanAdds
    <3> QED  BY <3>1, <3>2, ControllerStep DEF TypeOK
  <2> QED  BY <2>3, <2>4
<1> QED  BY <1>2, <1>3, <1>4

-----------------------------------------------------------------------------
\* A call advances inside its window: the other calls are outside of theirs.
LEMMA WindowStep ==
  ASSUME IInv, NEW a \in Attempts, NEW l \in {"validate", "checkpoint", "commit"},
         pc[a] \in Checking, Goto(a, l),
         UNCHANGED <<journal, disp, clk, reflect, gate, moved>>,
         Coherent(ctl'), ctl'.owner = ctl.owner,
         ~moved =>
           /\ l \in {"checkpoint", "commit"} => disp = owner
           /\ l \in {"validate", "checkpoint"} =>
                ctl.owner = 0 \/ Found(Amb) \subseteq Sticky(ctl') \cup ckpt.resolved
           /\ l = "commit" =>
                /\ ckpt.epoch = owner /\ ckpt.kind = "complete" /\ ckpt.fresh
                /\ Found(Amb) \subseteq ckpt.resolved
  PROVE  IInv'
<1> USE DEF IInv
<1>1. pc' = [pc EXCEPT ![a] = l] /\ pc \in [Attempts -> Labels] /\ gate = a
  BY DEF Goto, TypeOK, Windows
<1>2. TypeOK'
  BY <1>1 DEF TypeOK, Coherent, journal, Labels
<1>3. Ownership'
  BY DEF Ownership, journal
<1>4. Windows'
  BY <1>1 DEF Windows, Checking, journal
<1>5. Found(Amb)' = Found(Amb)
  BY DEF Found, Amb, journal
<1>6. Qualified'
  BY <1>1, <1>4, <1>5 DEF Qualified, Windows, Checking, journal
<1> QED  BY <1>2, <1>3, <1>4, <1>6

\* The checks of a call up to its barrier preserve the invariant.
LEMMA ChecksInv ==
  ASSUME IInv, NEW a \in Attempts,
         ScanBeforeSend(a) \/ ValidateSender(a) \/ CheckReconciliation(a)
  PROVE  IInv'
<1> USE DEF IInv
<1>1. CASE ScanBeforeSend(a)
  <2>1. /\ Coherent(ctl') /\ ctl'.owner = ctl.owner
        /\ Conflicting(ctl, Amb) = {} => Found(Amb) \subseteq Sticky(ctl')
    BY <1>1, ScanAdds DEF ScanBeforeSend
  <2>2. pc[a] \in Checking /\ gate = a
    BY <1>1 DEF ScanBeforeSend, Windows, Checking
  <2>3. CASE Reject(a)
    BY <1>1, <2>1, <2>2, <2>3, RejectStep DEF ScanBeforeSend
  <2>4. CASE /\ Conflicting(ctl, Amb) = {} /\ Goto(a, "validate")
             /\ UNCHANGED <<journal, gate, moved>>
    BY <1>1, <2>1, <2>2, <2>4, WindowStep DEF ScanBeforeSend
  <2> QED  BY <1>1, <2>3, <2>4 DEF ScanBeforeSend
<1>2. CASE ValidateSender(a)
  <2>1. /\ pc[a] = "validate" /\ pc[a] \in Checking /\ gate = a
        /\ UNCHANGED <<process, reflect>>
    BY <1>2 DEF ValidateSender, Windows, Checking
  <2>2. CASE Reject(a)
    BY <2>1, <2>2, RejectStep DEF process
  <2>3. CASE SenderValid /\ Goto(a, "checkpoint") /\ UNCHANGED <<journal, gate, moved>>
    <3>1. disp = owner
      BY <2>3 DEF SenderValid
    <3>2. ~moved => ctl.owner = 0 \/ Found(Amb) \subseteq Sticky(ctl) \cup ckpt.resolved
      BY <2>1 DEF Qualified
    <3>3. Sticky(ctl') = Sticky(ctl)
      BY <2>1 DEF process
    <3> QED  BY <2>1, <2>3, <3>1, <3>2, <3>3, WindowStep DEF process
  <2> QED  BY <1>2, <2>2, <2>3 DEF ValidateSender
<1>3. CASE CheckReconciliation(a)
  <2>1. /\ pc[a] = "checkpoint" /\ pc[a] \in Checking /\ gate = a
        /\ UNCHANGED <<process, reflect>>
    BY <1>3 DEF CheckReconciliation, Windows, Checking
  <2>2. CASE Reject(a)
    BY <2>1, <2>2, RejectStep DEF process
  <2>3. CASE CheckpointCurrent /\ Goto(a, "commit") /\ UNCHANGED <<journal, gate, moved>>
    <3>1. ctl.owner # 0 /\ Sticky(ctl) = {}
      BY <2>3 DEF CheckpointCurrent, Coherent
    <3>2. ~moved => disp = owner /\ Found(Amb) \subseteq ckpt.resolved
      BY <2>1, <3>1 DEF Qualified
    <3>3. ckpt.epoch = disp /\ ckpt.kind = "complete" /\ ckpt.fresh
      BY <2>3 DEF CheckpointCurrent
    <3> QED  BY <2>1, <2>3, <3>2, <3>3, WindowStep DEF process
  <2> QED  BY <1>3, <2>2, <2>3 DEF CheckReconciliation
<1> QED  BY <1>1, <1>2, <1>3

\* The other steps of a call preserve the invariant.
LEMMA CallInv ==
  ASSUME IInv, NEW a \in Attempts,
         \/ Prepare(a) \/ EnterWindow(a) \/ CommitSending(a) \/ LeaveWindow(a)
         \/ RecordVerdict(a) \/ ReportUnknown(a)
  PROVE  IInv'
<1> USE DEF IInv
<1>1. pc \in [Attempts -> Labels] /\ tail \in [Attempts -> Tails]
  BY DEF TypeOK
<1>2. disp # 0 => owner # 0
  BY DEF Ownership
<1>3. CASE Prepare(a)
  <2>1. AppendEvent(a, "Prepared") /\ "Prepared" \in EventTypes
    BY <1>3 DEF Prepare, EventTypes
  <2>2. /\ tail' \in [Attempts -> Tails] /\ ckpt' \in Checkpoints
        /\ \A b \in Attempts \ {a} : tail'[b] = tail[b]
        /\ owner' = owner /\ lost' = lost /\ takeover' = takeover
    BY <2>1, EventAppended
  <2>3. /\ pc' = [pc EXCEPT ![a] = "prepared"] /\ pc[a] = "idle" /\ disp # 0 /\ Moves
        /\ UNCHANGED <<process, reflect, gate>>
    BY <1>3 DEF Prepare, Goto
  <2>4. TypeOK'
    BY <1>1, <2>2, <2>3 DEF TypeOK, Moves, Labels, process
  <2>5. Ownership'
    BY <1>2, <2>2, <2>3 DEF Ownership, process
  <2>6. Windows'
    BY <1>1, <2>2, <2>3 DEF Windows, Checking, process
  <2> QED  BY <2>3, <2>4, <2>5, <2>6, NothingClaimed DEF Moves, process
<1>4. CASE EnterWindow(a)
  <2>1. pc[a] = "prepared" /\ gate = NoAttempt /\ UNCHANGED <<process, reflect>>
    BY <1>4 DEF EnterWindow
  <2>2. CASE Reject(a)
    BY <2>1, <2>2, RejectStep DEF process
  <2>3. CASE /\ takeover = "None" /\ Goto(a, "scan") /\ gate' = a /\ moved' = FALSE
             /\ UNCHANGED journal
    <3>1. pc' = [pc EXCEPT ![a] = "scan"]
      BY <2>3 DEF Goto
    <3>2. TypeOK'
      BY <1>1, <2>1, <2>3, <3>1 DEF TypeOK, Labels, process, journal
    <3>3. Ownership'
      BY <2>1, <2>3 DEF Ownership, process, journal
    <3>4. Windows'
      BY <1>1, <2>1, <2>3, <3>1, RecoveryAssumption DEF Windows, Checking, process, journal
    <3>5. Qualified'
      BY <1>1, <2>3, <3>1, <3>4 DEF Qualified, Windows, Checking, journal
    <3> QED  BY <2>1, <3>2, <3>3, <3>4, <3>5 DEF process
  <2> QED  BY <1>4, <2>2, <2>3 DEF EnterWindow
<1>5. CASE CommitSending(a)
  <2>1. /\ pc[a] = "commit" /\ gate = a /\ pc[a] \in Checking
        /\ UNCHANGED <<process, reflect>>
    BY <1>5 DEF CommitSending, Windows, Checking
  <2>2. CASE Reject(a)
    BY <2>1, <2>2, RejectStep DEF process
  <2>3. CASE AppendEvent(a, "Sending") /\ Moves /\ Goto(a, "wire") /\ UNCHANGED gate
    <3>1. /\ tail' \in [Attempts -> Tails] /\ ckpt' \in Checkpoints
          /\ \A b \in Attempts \ {a} : tail'[b] = tail[b]
          /\ owner' = owner /\ lost' = lost /\ takeover' = takeover
      BY <2>3, EventAppended DEF EventTypes
    <3>2. pc' = [pc EXCEPT ![a] = "wire"] /\ disp # 0
      BY <2>1, <2>3 DEF Goto, Windows
    <3>3. TypeOK'
      BY <1>1, <2>1, <2>3, <3>1, <3>2 DEF TypeOK, Moves, Labels, process
    <3>4. Ownership'
      BY <1>2, <2>1, <3>1, <3>2 DEF Ownership, process
    <3>5. Windows'
      BY <1>1, <2>1, <2>3, <3>1, <3>2 DEF Windows, Checking, process
    <3> QED  BY <2>1, <2>3, <3>3, <3>4, <3>5, NothingClaimed DEF Moves, process
  <2> QED  BY <1>5, <2>2, <2>3 DEF CommitSending
<1>6. CASE LeaveWindow(a)
  <2>1. /\ pc' = [pc EXCEPT ![a] = "verdict"] /\ gate' = NoAttempt /\ moved' = FALSE
        /\ pc[a] = "wire" /\ gate = a /\ UNCHANGED <<journal, process, reflect>>
    BY <1>6 DEF LeaveWindow, Goto, Windows
  <2>2. TypeOK'
    BY <1>1, <2>1 DEF TypeOK, Labels, journal, process
  <2>3. Ownership'
    BY <2>1 DEF Ownership, journal, process
  <2>4. Windows'
    BY <1>1, <2>1, RecoveryAssumption DEF Windows, Checking, journal, process
  <2> QED  BY <2>1, <2>2, <2>3, <2>4, NothingClaimed DEF process
<1>7. CASE RecordVerdict(a)
  <2>1. pc[a] = "verdict" /\ UNCHANGED <<process, reflect, gate>> /\ disp # 0 /\ gate # a
    BY <1>7 DEF RecordVerdict, Windows, Checking
  <2>2. ASSUME NEW type \in {"Sent", "Unknown"}, NEW l \in {"idle", "report"},
               AppendEvent(a, type), Goto(a, l), Moves, l = "report" => type = "Unknown"
        PROVE  IInv'
    <3>1. /\ tail' \in [Attempts -> Tails] /\ ckpt' \in Checkpoints
          /\ \A b \in Attempts \ {a} : tail'[b] = tail[b]
          /\ tail'[a] = IF type \in {"Sent", "Blocked"} THEN "Closed" ELSE type
          /\ owner' = owner /\ lost' = lost /\ takeover' = takeover
      BY <2>2, EventAppended DEF EventTypes
    <3>2. pc' = [pc EXCEPT ![a] = l]
      BY <2>2 DEF Goto
    <3>3. TypeOK'
      BY <1>1, <2>1, <2>2, <3>1, <3>2 DEF TypeOK, Moves, Labels, process
    <3>4. Ownership'
      BY <1>2, <2>1, <3>1 DEF Ownership, process
    <3>5. Windows'
      BY <1>1, <2>1, <2>2, <3>1, <3>2 DEF Windows, Checking, process
    <3> QED  BY <2>1, <2>2, <3>3, <3>4, <3>5, NothingClaimed DEF Moves, process
  <2>3. CASE Goto(a, "idle") /\ UNCHANGED <<journal, moved>>
    <3>1. pc' = [pc EXCEPT ![a] = "idle"]
      BY <2>3 DEF Goto
    <3>2. TypeOK' /\ Ownership'
      BY <1>1, <2>1, <2>3, <3>1 DEF TypeOK, Ownership, Labels, journal, process
    <3>3. Windows'
      BY <1>1, <2>1, <2>3, <3>1 DEF Windows, Checking, journal, process
    <3>4. Found(Amb)' = Found(Amb)
      BY <2>3 DEF Found, Amb, journal
    <3>5. Qualified'
      BY <1>1, <2>1, <2>3, <3>1, <3>4 DEF Qualified, Checking, journal, process
    <3> QED  BY <2>1, <3>2, <3>3, <3>5 DEF process
  <2> QED  BY <1>7, <2>2, <2>3 DEF RecordVerdict
<1>8. CASE ReportUnknown(a)
  <2>1. Coherent(ctl') /\ ctl'.owner = ctl.owner /\ Sticky(ctl) \subseteq Sticky(ctl')
    BY <1>8, ScanAdds DEF ReportUnknown
  <2>2. PICK l \in {"unknown", "raised"} : pc' = [pc EXCEPT ![a] = l]
    BY <1>8 DEF ReportUnknown, Goto
  <2>3. /\ pc[a] = "report" /\ UNCHANGED <<journal, disp, clk, reflect, gate, moved>>
        /\ disp # 0 /\ gate # a
    BY <1>8 DEF ReportUnknown, Windows, Checking
  <2>4. TypeOK'
    BY <1>1, <2>1, <2>2, <2>3 DEF TypeOK, Coherent, Labels, journal
  <2>5. Ownership'
    BY <2>1, <2>3 DEF Ownership, journal
  <2>6. Windows'
    BY <1>1, <2>2, <2>3 DEF Windows, Checking, journal
  <2>7. Found(Amb)' = Found(Amb)
    BY <2>3 DEF Found, Amb, journal
  <2>8. Qualified'
    BY <1>1, <2>1, <2>2, <2>3, <2>7 DEF Qualified, Checking, journal
  <2> QED  BY <2>1, <2>4, <2>5, <2>6, <2>8
<1> QED  BY <1>3, <1>4, <1>5, <1>6, <1>7, <1>8

-----------------------------------------------------------------------------
\* The scan that reflects a recovered attempt preserves the invariant.
LEMMA ReflectInv ==
  ASSUME IInv, NEW a \in Attempts, ReflectRecovered(a)
  PROVE  IInv'
<1> USE DEF IInv
<1>1. Coherent(ctl') /\ ctl'.owner = ctl.owner /\ Sticky(ctl) \subseteq Sticky(ctl')
  BY ScanAdds DEF ReflectRecovered
<1>2. UNCHANGED <<journal, disp, clk, pc, gate, moved>> /\ reflect' \subseteq Attempts
  BY DEF ReflectRecovered, TypeOK
<1>3. TypeOK'
  BY <1>1, <1>2 DEF TypeOK, Coherent, journal
<1>4. Ownership' /\ Windows'
  BY <1>1, <1>2 DEF Ownership, Windows, journal
<1>5. Found(Amb)' = Found(Amb)
  BY <1>2 DEF Found, Amb, journal
<1>6. Qualified'
  BY <1>1, <1>2, <1>5 DEF Qualified, journal
<1> QED  BY <1>1, <1>3, <1>4, <1>6

\* A checkpoint of the reconciler preserves the invariant.
LEMMA ReconcileInv ==
  ASSUME IInv, NEW e \in Nat, NEW k \in {"complete", "partial", "blocking"},
         NEW r \in SUBSET Attempts, NEW u \in SUBSET Attempts, Reconcile(e, k, r, u)
  PROVE  IInv'
<1> USE DEF IInv
<1>1. ckpt' \in Checkpoints
  BY DEF Reconcile, Checkpoints
<1>2. TypeOK'
  BY <1>1 DEF Reconcile, TypeOK, process, calls, Moves
<1>3. Ownership'
  BY DEF Reconcile, Ownership, process
<1> QED  BY <1>2, <1>3, JournalStep DEF Reconcile, process, calls

\* Whoever else writes to the journal preserves the invariant.
LEMMA JournalInv ==
  ASSUME IInv,
         \/ \E a \in Attempts : RecoverAttempt(a)
         \/ ReconcileAny \/ ForeignTakeover \/ ForeignAppend
  PROVE  IInv'
<1> USE DEF IInv
<1>1. ASSUME NEW a \in Attempts, RecoverAttempt(a) PROVE IInv'
  <2>1. PICK type \in EventTypes : AppendEvent(a, type) /\ tail[a] # "Unknown"
    BY <1>1 DEF RecoverAttempt, EventTypes
  <2>2. /\ tail' \in [Attempts -> Tails] /\ ckpt' \in Checkpoints
        /\ \A b \in Attempts \ {a} : tail'[b] = tail[b]
        /\ owner' = owner /\ lost' = lost /\ takeover' = takeover
    BY <2>1, EventAppended
  <2>3. /\ disp # 0 /\ Moves /\ UNCHANGED <<process, pc, gate>>
        /\ reflect' \subseteq Attempts
    BY <1>1 DEF RecoverAttempt, TypeOK
  <2>4. TypeOK'
    BY <2>2, <2>3 DEF TypeOK, Moves, process
  <2>5. Ownership'
    BY <2>2, <2>3 DEF Ownership, process
  <2> QED  BY <2>1, <2>2, <2>3, <2>4, <2>5, JournalStep DEF process
<1>2. CASE ReconcileAny
  <2>1. owner \in Nat /\ (owner > 1 => owner - 1 \in Nat)
    BY DEF TypeOK
  <2>2. Found(Amb) \subseteq Attempts
    BY DEF Found
  <2> QED  BY <1>2, <2>1, <2>2, ReconcileInv DEF ReconcileAny
<1>3. CASE ForeignTakeover
  <2>1. owner' \in 0..MaxEpoch /\ owner' # 0
    BY <1>3, RecoveryAssumption DEF ForeignTakeover, TypeOK
  <2>2. TypeOK'
    BY <1>3, <2>1 DEF ForeignTakeover, TypeOK, process, calls, Moves
  <2>3. Ownership'
    BY <1>3, <2>1 DEF ForeignTakeover, Ownership
  <2> QED  BY <1>3, <2>2, <2>3, JournalStep DEF ForeignTakeover, process, calls
<1>4. CASE ForeignAppend
  <2>1. TypeOK' /\ Ownership'
    BY <1>4 DEF ForeignAppend, TypeOK, Ownership, journal, process, calls, Moves
  <2> QED  BY <1>4, <2>1, JournalStep DEF ForeignAppend, journal, process, calls
<1> QED  BY <1>1, <1>2, <1>3, <1>4

\* Every step preserves the invariant.
LEMMA StepInv == IInv /\ [Next]_vars => IInv'
<1> SUFFICES ASSUME IInv, [Next]_vars PROVE IInv'
  OBVIOUS
<1>1. CASE Control
  BY <1>1, HostInv, ControlInv, TakeoverInv DEF Control
<1>2. CASE Fault
  BY <1>2, ControlInv DEF Fault
<1>3. CASE \E a \in Attempts :
           Prepare(a) \/ Call(a) \/ RecoverAttempt(a) \/ ReflectRecovered(a)
  BY <1>3, CallInv, ChecksInv, JournalInv, ReflectInv DEF Call
<1>4. CASE ReconcileAny \/ ForeignTakeover \/ ForeignAppend
  BY <1>4, JournalInv
<1>5. CASE UNCHANGED vars
  <2>1. /\ UNCHANGED <<journal, disp, calls, moved>> /\ clk' = clk /\ ctl' = ctl
    BY <1>5 DEF vars, process
  <2> QED  BY <2>1, ControllerStep DEF IInv, TypeOK
<1> QED  BY <1>1, <1>2, <1>3, <1>4, <1>5 DEF Next

\* The inductive invariant holds in every reachable state.
THEOREM Invariance == Spec => []IInv
<1> QED  BY InitInv, StepInv, PTL DEF Spec

-----------------------------------------------------------------------------
\* The host, its calls and the journal keep their types, for any number of attempts
\* and owner epochs.
THEOREM TypeCorrect == Spec => []TypeOK
<1>1. IInv => TypeOK
  BY DEF IInv
<1> QED  BY <1>1, Invariance, PTL

\* READY is only shown by a host that owns its scope, has good clock and storage,
\* and nothing unresolved: in spite of the scans that raise half-way and the
\* operations that do not recompute the state.
THEOREM ReadyQualified == Spec => []ReadyIsQualified
<1>1. IInv => ReadyIsQualified
  BY DEF IInv, Coherent, ReadyIsQualified
<1> QED  BY <1>1, Invariance, PTL

-----------------------------------------------------------------------------
\* Only the commit of a barrier makes a tail Sending.
LEMMA OnlyCommitSends ==
  ASSUME IInv, [Next]_vars, NEW a \in Attempts, tail[a] # "Sending", tail'[a] = "Sending"
  PROVE  CommitSending(a) /\ ~moved
<1>1. TypeOK
  BY DEF IInv
<1>2. \A b \in Attempts, type \in EventTypes :
        AppendEvent(b, type) => b = a /\ type = "Sending"
  BY <1>1, EventAppended DEF EventTypes
<1>3. tail' # tail
  OBVIOUS
<1>4. ~Control
  BY <1>3 DEF Control, StartHost, AttachHost, Restart, AcceptCheckpoint, RefuseCheckpoint,
              StartTakeover, CommitOwner, CompleteTakeover, journal
<1>5. ~Fault
  BY <1>3 DEF Fault, SetStorageWritable, RecordClockTrust, RepeatClockTrust,
              ApplyClockTrust, OnLeaseExpired, Stop, journal
<1>6. ~(ReconcileAny \/ ForeignTakeover \/ ForeignAppend)
  BY <1>3 DEF ReconcileAny, Reconcile, ForeignTakeover, ForeignAppend, journal
<1>7. ASSUME NEW b \in Attempts,
             Prepare(b) \/ Call(b) \/ RecoverAttempt(b) \/ ReflectRecovered(b)
      PROVE  CommitSending(a) /\ ~moved
  <2>1. ~Prepare(b) /\ ~RecoverAttempt(b) /\ ~RecordVerdict(b) /\ ~Reject(b)
    BY <1>2, <1>3 DEF Prepare, RecoverAttempt, RecordVerdict, Reject, EventTypes, journal
  <2>2. /\ ~EnterWindow(b) /\ ~ScanBeforeSend(b) /\ ~ValidateSender(b)
        /\ ~CheckReconciliation(b) /\ ~LeaveWindow(b) /\ ~ReportUnknown(b)
        /\ ~ReflectRecovered(b)
    BY <1>3, <2>1 DEF EnterWindow, ScanBeforeSend, ValidateSender, CheckReconciliation,
                      LeaveWindow, ReportUnknown, ReflectRecovered, journal
  <2>3. CommitSending(b)
    BY <1>7, <2>1, <2>2 DEF Call
  <2>4. AppendEvent(b, "Sending") /\ ~moved
    BY <2>1, <2>3 DEF CommitSending
  <2> QED  BY <1>2, <2>3, <2>4 DEF EventTypes
<1>8. ~UNCHANGED vars
  BY <1>3 DEF vars, journal
<1> QED  BY <1>4, <1>5, <1>6, <1>7, <1>8 DEF Next

\* A send barrier is only committed for the current owner, under its own fresh and
\* complete checkpoint that has settled every ambiguous attempt: the four checks of
\* the window and the journal cut together, against any interleaving.
THEOREM QualifiedSends == Spec => SendsAreQualified
<1>1. ASSUME IInv, [Next]_vars, NEW a \in Attempts,
             tail[a] # "Sending", tail'[a] = "Sending"
      PROVE  /\ disp = owner /\ takeover = "None"
             /\ ckpt.epoch = owner /\ ckpt.kind = "complete" /\ ckpt.fresh
             /\ \A b \in Attempts : tail[b] \in Ambiguous => b \in ckpt.resolved
  <2>1. pc[a] = "commit" /\ ~moved
    BY <1>1, OnlyCommitSends DEF CommitSending
  <2>2. Found(Amb) = {b \in Attempts : tail[b] \in Ambiguous}
    BY <1>1, AmbFinds DEF IInv
  <2> QED  BY <1>1, <2>1, <2>2 DEF IInv, Qualified, Checking
<1>2. IInv /\ [Next]_vars =>
        [\A a \in Attempts :
           tail[a] # "Sending" /\ tail'[a] = "Sending" =>
             /\ disp = owner /\ takeover = "None"
             /\ ckpt.epoch = owner /\ ckpt.kind = "complete" /\ ckpt.fresh
             /\ \A b \in Attempts : tail[b] \in Ambiguous => b \in ckpt.resolved]_vars
  BY <1>1
<1> QED  BY <1>2, Invariance, PTL DEF Spec, SendsAreQualified

\* The owner epoch moves by one, once per takeover, while no sender holds the gate
\* and nothing is ambiguous: because the scan before the commit finds every
\* ambiguous tail, and a source of a takeover has no dispatcher that could send.
THEOREM OwnerMoves == Spec => OwnerMovesSafely
<1>1. ASSUME IInv, [Next]_vars, owner' # owner
      PROVE  /\ owner' = owner + 1 /\ takeover # "Owned"
             /\ gate = NoAttempt /\ Found(Amb) = {}
  <2>1. disp = 0 => gate = NoAttempt
    BY <1>1 DEF IInv, TypeOK, Windows, Checking
  <2>2. Found(Amb) = {b \in Attempts : tail[b] \in Ambiguous}
    BY <1>1, AmbFinds DEF IInv
  <2>3. CASE StartHost
    BY <1>1, <2>1, <2>2, <2>3 DEF StartHost, IInv, Ownership, Ambiguous
  <2>4. CASE CommitOwner
    <3>1. /\ owner' = owner + 1 /\ takeover = "Started" /\ disp = 0
          /\ ctl' \in Scan(ctl) /\ Conflicting(ctl, Amb) = {} /\ ctl'.unresolved = {}
      BY <1>1, <2>4 DEF CommitOwner
    <3>2. Found(Amb) \subseteq ctl'.unresolved
      BY <1>1, <3>1, ScanAdds DEF IInv
    <3> QED  BY <2>1, <3>1, <3>2
  <2>5. CASE ForeignTakeover
    BY <2>5 DEF ForeignTakeover
  <2>6. CASE UNCHANGED owner
    BY <1>1, <2>6
  <2>7. Control => StartHost \/ CommitOwner \/ UNCHANGED owner
    BY DEF Control, AttachHost, Restart, AcceptCheckpoint, RefuseCheckpoint,
           StartTakeover, CompleteTakeover, journal
  <2>8. Fault => UNCHANGED owner
    BY DEF Fault, SetStorageWritable, RecordClockTrust, RepeatClockTrust,
           ApplyClockTrust, OnLeaseExpired, Stop, journal
  <2>9. ReconcileAny \/ ForeignAppend => UNCHANGED owner
    BY DEF ReconcileAny, Reconcile, ForeignAppend, journal
  <2>10. ASSUME NEW b \in Attempts,
             Prepare(b) \/ Call(b) \/ RecoverAttempt(b) \/ ReflectRecovered(b)
         PROVE  UNCHANGED owner
    BY <2>10 DEF Prepare, Call, RecoverAttempt, AppendEvent, EnterWindow, ScanBeforeSend,
          ValidateSender, CheckReconciliation, CommitSending, LeaveWindow, RecordVerdict,
          ReportUnknown, ReflectRecovered, Reject, journal
  <2>11. UNCHANGED vars => UNCHANGED owner
    BY DEF vars, journal
  <2> QED  BY <1>1, <2>3, <2>4, <2>5, <2>6, <2>7, <2>8, <2>9, <2>10, <2>11 DEF Next
<1>2. IInv /\ [Next]_vars =>
        [owner' # owner => /\ owner' = owner + 1 /\ takeover # "Owned"
                           /\ gate = NoAttempt /\ Found(Amb) = {}]_vars
  BY <1>1
<1> QED  BY <1>2, Invariance, PTL DEF Spec, OwnerMovesSafely

\* What a host may forget without losing its ownership: only what the current
\* checkpoint of the current owner resolves.
LEMMA ForgetsOnlyResolved ==
  ASSUME IInv, [Next]_vars, ctl'.owner # 0
  PROVE  \/ Sticky(ctl) \subseteq Sticky(ctl')
         \/ /\ ctl.owner = owner /\ ckpt.epoch = owner
            /\ Sticky(ctl) \subseteq Sticky(ctl') \cup ckpt.resolved
<1> USE DEF IInv
<1>1. /\ Amb \in Scans /\ ckpt \in Checkpoints /\ owner \in Nat
      /\ ctl.clock \in BOOLEAN
  BY AmbFinds DEF TypeOK, Controllers
<1> DEFINE Kept == Sticky(ctl) \subseteq Sticky(ctl')
<1>2. ctl' = ctl => Kept
  OBVIOUS
<1>3. ctl' \in Scan(ctl) => Kept
  BY ScanAdds
<1>4. SameHold(ctl, ctl') => Kept
  BY DEF SameHold, Sticky
<1>5. CASE StartHost \/ AttachHost
  <2> DEFINE e == IF StartHost THEN 1 ELSE owner
             c == Scanned(Owning(ctl, e), Amb)
  <2>1. Coherent(Owning(ctl, e)) /\ Owning(ctl, e).bind = ctl.bind
    BY <1>1, OwningCoherent
  <2>2. Sticky(ctl) \subseteq Sticky(c) /\ c \in Controllers
    BY <1>1, <2>1, ScannedAdds DEF Sticky, Coherent
  <2>3. ctl'.bind = c.bind
    <3>1. CASE StartHost
      BY <3>1 DEF StartHost
    <3>2. CASE AttachHost /\ ~StartHost
      <4>1. ctl' = [c EXCEPT !.state = "RECOVERING", !.reconciled = FALSE, !.startup = TRUE]
        BY <3>2 DEF AttachHost
      <4> HIDE DEF c
      <4> QED  BY <2>2, <4>1 DEF Controllers
    <3> QED  BY <1>5, <3>1, <3>2
  <2> HIDE DEF c
  <2> QED  BY <2>2, <2>3 DEF Sticky
<1>6. CASE Restart
  <2>1. (~lost) \in BOOLEAN
    BY DEF TypeOK
  <2> QED  BY <1>6, <2>1, NewCoherent DEF Restart
<1>7. CASE AcceptCheckpoint
  BY <1>1, <1>7, AcceptedClears DEF AcceptCheckpoint
<1>8. CASE RefuseCheckpoint
  BY <1>4, <1>8, SwitchesCoherent DEF RefuseCheckpoint
<1>9. CASE StartTakeover
  <2>1. CASE Conflicting(ctl, Amb) # {}
    BY <1>3, <1>9, <2>1 DEF StartTakeover
  <2>2. CASE Conflicting(ctl, Amb) = {}
    <3> DEFINE c == Scanned(ctl, Amb)
    <3>1. Coherent(c) /\ c.owner = ctl.owner /\ Sticky(ctl) \subseteq Sticky(c)
      BY <1>1, ScannedAdds
    <3>2. ctl' = Reconciled(c) /\ ctl.owner = owner
      BY <1>9, <2>2 DEF StartTakeover
    <3> HIDE DEF c
    <3> QED  BY <3>1, <3>2, ReconciledClears
  <2> QED  BY <2>1, <2>2
<1>10. CASE CommitOwner
  BY <1>3, <1>10 DEF CommitOwner
<1>11. CASE CompleteTakeover
  <2> DEFINE c == IF ctl.owner = owner THEN Owning(ctl, owner) ELSE ctl
  <2>1. Coherent(c) /\ Sticky(c) = Sticky(ctl)
    BY <1>1, OwningCoherent DEF Sticky
  <2>2. CASE ctl' = Owning(Scanned(c, Amb), owner)
    <3> HIDE DEF c
    <3>1. Coherent(Scanned(c, Amb)) /\ Sticky(c) \subseteq Sticky(Scanned(c, Amb))
      BY <1>1, <2>1, ScannedAdds
    <3>2. ctl'.bind = Scanned(c, Amb).bind
      BY <1>1, <2>2, <3>1, OwningCoherent
    <3> QED  BY <2>1, <3>1, <3>2 DEF Sticky
  <2>3. CASE ctl' \in Scan(c)
    <3> HIDE DEF c
    <3> QED  BY <2>1, <2>3, ScanAdds
  <2> QED  BY <1>11, <2>2, <2>3 DEF CompleteTakeover
<1>12. CASE Fault
  <2>1. \A t \in BOOLEAN : SetStorageWritable(t) => Kept
    BY <1>4, SwitchesCoherent DEF SetStorageWritable
  <2>2. \A t \in BOOLEAN : RecordClockTrust(t) => Kept
    BY <1>2 DEF RecordClockTrust
  <2>3. RepeatClockTrust => Kept
    BY <1>1, <1>4, SwitchesCoherent DEF RepeatClockTrust
  <2>4. ApplyClockTrust => Kept
    <3>1. (clk = "restored") \in BOOLEAN
      OBVIOUS
    <3> QED  BY <1>4, <3>1, SwitchesCoherent DEF ApplyClockTrust
  <2>5. OnLeaseExpired => Kept
    BY <1>4, LeaseCoherent DEF OnLeaseExpired
  <2>6. ~Stop
    BY StoppedCoherent DEF Stop
  <2> QED  BY <1>12, <2>1, <2>2, <2>3, <2>4, <2>5, <2>6 DEF Fault
<1>13. ASSUME NEW a \in Attempts,
              Prepare(a) \/ Call(a) \/ RecoverAttempt(a) \/ ReflectRecovered(a)
       PROVE  Kept
  <2>1. CASE ScanBeforeSend(a) \/ ReportUnknown(a) \/ ReflectRecovered(a)
    BY <1>3, <2>1 DEF ScanBeforeSend, ReportUnknown, ReflectRecovered
  <2>2. CASE \/ Prepare(a) \/ EnterWindow(a) \/ ValidateSender(a)
             \/ CheckReconciliation(a) \/ CommitSending(a) \/ LeaveWindow(a)
             \/ RecordVerdict(a) \/ RecoverAttempt(a)
    BY <1>2, <2>2 DEF Prepare, EnterWindow, ValidateSender, CheckReconciliation,
                      CommitSending, LeaveWindow, RecordVerdict, RecoverAttempt, process
  <2> QED  BY <1>13, <2>1, <2>2 DEF Call
<1>14. CASE ReconcileAny \/ ForeignTakeover \/ ForeignAppend
  BY <1>2, <1>14 DEF ReconcileAny, Reconcile, ForeignTakeover, ForeignAppend, process
<1>15. CASE UNCHANGED vars
  BY <1>2, <1>15 DEF vars, process
<1> QED
  BY <1>5, <1>6, <1>7, <1>8, <1>9, <1>10, <1>11, <1>12, <1>13, <1>14, <1>15
     DEF Next, Control

\* A call that returns UNKNOWN has noted its attempt, and its host is not READY.
LEMMA ReportNotes ==
  ASSUME IInv, [Next]_vars, NEW a \in Attempts, pc[a] = "report", pc'[a] = "unknown"
  PROVE  a \in Sticky(ctl') /\ ctl'.state # "READY"
<1>1. pc \in [Attempts -> Labels] /\ pc' # pc
  BY DEF IInv, TypeOK
<1>2. \A b \in Attempts, l \in Labels : Goto(b, l) => b = a /\ l = "unknown"
  BY <1>1 DEF Goto
<1>3. ReportUnknown(a) /\ Conflicting(ctl, Amb) = {}
  <2>1. ~Control
    BY <1>1 DEF Control, StartHost, AttachHost, Restart, AcceptCheckpoint,
                RefuseCheckpoint, StartTakeover, CommitOwner, CompleteTakeover, calls
  <2>2. ~Fault
    BY <1>1 DEF Fault, SetStorageWritable, RecordClockTrust, RepeatClockTrust,
                ApplyClockTrust, OnLeaseExpired, Stop, calls
  <2>3. ~(ReconcileAny \/ ForeignTakeover \/ ForeignAppend)
    BY <1>1 DEF ReconcileAny, Reconcile, ForeignTakeover, ForeignAppend, calls
  <2>4. ASSUME NEW b \in Attempts,
             Prepare(b) \/ Call(b) \/ RecoverAttempt(b) \/ ReflectRecovered(b)
        PROVE  ReportUnknown(a) /\ Conflicting(ctl, Amb) = {}
    <3>1. ~Prepare(b) /\ ~RecoverAttempt(b) /\ ~RecordVerdict(b) /\ ~Reject(b)
      BY <1>1, <1>2 DEF Prepare, RecoverAttempt, RecordVerdict, Reject, Labels, calls
    <3>2. /\ ~EnterWindow(b) /\ ~ScanBeforeSend(b) /\ ~ValidateSender(b)
          /\ ~CheckReconciliation(b) /\ ~CommitSending(b) /\ ~LeaveWindow(b)
          /\ ~ReflectRecovered(b)
      BY <1>1, <1>2, <3>1 DEF EnterWindow, ScanBeforeSend, ValidateSender, Labels,
                        CheckReconciliation, CommitSending, LeaveWindow, ReflectRecovered
    <3>3. ReportUnknown(b)
      BY <2>4, <3>1, <3>2 DEF Call
    <3> QED  BY <1>2, <3>3 DEF ReportUnknown, Labels
  <2>5. ~UNCHANGED vars
    BY <1>1 DEF vars, calls
  <2> QED  BY <2>1, <2>2, <2>3, <2>4, <2>5 DEF Next
<1>4. a \in Found(Amb)
  BY AmbFinds DEF IInv, Windows, Ambiguous
<1> QED  BY <1>3, <1>4, ScanAdds DEF ReportUnknown, IInv

\* An UNKNOWN that was reported keeps its host from READY, and is only forgotten for
\* a checkpoint of the current owner that resolves it, or with the ownership.
THEOREM EvidenceForUnknown == Spec => UnknownNeedsEvidence
<1>1. IInv /\ [Next]_vars =>
        [\A a \in Attempts :
           /\ pc[a] = "report" /\ pc'[a] = "unknown" =>
                a \in Sticky(ctl') /\ ctl'.state # "READY"
           /\ a \in Sticky(ctl) /\ a \notin Sticky(ctl') /\ ctl'.owner # 0 =>
                ctl.owner = owner /\ ckpt.epoch = owner /\ a \in ckpt.resolved]_vars
  BY ReportNotes, ForgetsOnlyResolved
<1> QED  BY <1>1, Invariance, PTL DEF Spec, UnknownNeedsEvidence

=============================================================================
