--------------------------- MODULE AuthorityProofs ---------------------------
(***************************************************************************)
(* Proofs about the authority journal, the processes that write it and the *)
(* operator's commands on it, for any number of processes, policies,       *)
(* confirmations, admissions, commands and crashes.                        *)
(***************************************************************************)
EXTENDS OperatorCommands, FoldProofs, SequenceTheorems, TLAPS

By == Commands \cup {None}

Verdicts ==
  [type : {"Recorded"}, by : {None}, adm : Admissions, policy : Policies,
   conf : Confirmations \cup {None}, reducing : BOOLEAN, epoch : Nat,
   at : Times, outcome : {"ADMITTED", "REJECTED"}]

Events ==
  [type : {"Registered"}, policy : Policies, by : By]
  \cup [type : {"Revoked"}, policy : Policies, at : Times, by : By]
  \cup [type : {"Blocked"}, by : Commands]
  \cup [type : {"Restored"}, of : Commands, by : Commands]
  \cup [type : {"Confirmed"}, conf : Confirmations, policy : Policies, by : {None}]
  \cup Verdicts

Memories ==
  [ver : Int, epoch : Nat, policies : SUBSET Policies,
   revoked : [Policies -> 0 .. Never], block : By,
   confs : [Confirmations -> Policies \cup {None}],
   used : SUBSET Confirmations, adms : [Admissions -> Verdicts \cup {None}]]

-----------------------------------------------------------------------------
(* Replaying a journal: one event more is one step more.                   *)

Replays(f, s, n) ==
  f = [i \in 0 .. n |-> IF i = 0 THEN Blank ELSE Restore(f[i - 1], s[i])]

\* Replay is the end of a function that a recursive equation describes;
LEMMA ReplayIs ==
  ASSUME NEW s
  PROVE  Replay(s) = (CHOOSE f : Replays(f, s, Len(s)))[Len(s)]
  BY DEF Replay, Replays

\* there is such a function for every journal,
LEMMA ReplayExists ==
  ASSUME NEW s, NEW n \in Nat
  PROVE  \E f : Replays(f, s, n)
<1> DEFINE Bad == {m \in Nat : ~ \E f : Replays(f, s, m)}
<1> SUFFICES ASSUME Bad # {} PROVE FALSE
  OBVIOUS
<1>1. PICK m \in Bad : \A k \in Bad : m <= k
  BY LeastNumber
<1>2. m \in Nat /\ ~ \E f : Replays(f, s, m)
  OBVIOUS
<1>3. CASE m = 0
  <2>1. PICK f : f = [i \in 0 .. 0 |-> Blank]
    OBVIOUS
  <2>2. Replays(f, s, 0)
    BY <2>1 DEF Replays
  <2> QED  BY <1>2, <1>3, <2>2
<1>4. CASE m # 0
  <2>1. m - 1 \in Nat /\ m - 1 \notin Bad
    BY <1>1, <1>2, <1>4
  <2>2. PICK g : Replays(g, s, m - 1)
    BY <2>1
  <2>3. PICK f : f = [i \in 0 .. m |-> IF i = m THEN Restore(g[m - 1], s[m]) ELSE g[i]]
    OBVIOUS
  <2>4. /\ g = [i \in 0 .. m - 1 |-> IF i = 0 THEN Blank ELSE Restore(g[i - 1], s[i])]
        /\ \A i \in 0 .. m - 1 :
             g[i] = IF i = 0 THEN Blank ELSE Restore(g[i - 1], s[i])
    BY <2>2 DEF Replays
  <2>5. \A i \in 0 .. m : f[i] = IF i = 0 THEN Blank ELSE Restore(f[i - 1], s[i])
    <3> SUFFICES ASSUME NEW i \in 0 .. m
                 PROVE  f[i] = IF i = 0 THEN Blank ELSE Restore(f[i - 1], s[i])
      OBVIOUS
    <3>1. CASE i = 0
      BY <1>2, <1>4, <2>3, <2>4, <3>1
    <3>2. CASE i \in 1 .. m - 1
      <4>1. f[i] = g[i] /\ f[i - 1] = g[i - 1]
        BY <1>2, <2>3, <3>2
      <4> QED  BY <1>2, <2>4, <3>2, <4>1
    <3>3. CASE i = m
      <4>1. f[m] = Restore(g[m - 1], s[m]) /\ f[m - 1] = g[m - 1]
        BY <1>2, <1>4, <2>3
      <4> QED  BY <1>4, <3>3, <4>1
    <3> QED  BY <1>2, <3>1, <3>2, <3>3
  <2>6. Replays(f, s, m)
    BY <2>3, <2>5 DEF Replays
  <2> QED  BY <1>2, <2>6
<1> QED  BY <1>3, <1>4

\* and two of them agree as far as their journals do.
LEMMA ReplaysAgree ==
  ASSUME NEW s, NEW t, NEW n \in Nat, NEW m \in Nat, n <= m,
         NEW f, NEW g, Replays(f, s, n), Replays(g, t, m),
         \A i \in 1 .. n : s[i] = t[i]
  PROVE  \A i \in 0 .. n : f[i] = g[i]
<1> DEFINE Bad == {i \in 0 .. n : f[i] # g[i]}
<1> SUFFICES ASSUME Bad # {} PROVE FALSE
  OBVIOUS
<1>1. Bad \in SUBSET Nat
  OBVIOUS
<1>2. PICK i \in Bad : \A k \in Bad : i <= k
  BY <1>1, LeastNumber
<1>3. i \in 0 .. n /\ f[i] # g[i]
  OBVIOUS
<1>4. /\ f[i] = IF i = 0 THEN Blank ELSE Restore(f[i - 1], s[i])
      /\ g[i] = IF i = 0 THEN Blank ELSE Restore(g[i - 1], t[i])
  BY <1>3 DEF Replays
<1>5. i # 0 => f[i - 1] = g[i - 1]
  BY <1>2, <1>3
<1>6. i # 0 => s[i] = t[i]
  BY <1>3
<1> QED  BY <1>3, <1>4, <1>5, <1>6

LEMMA ReplayEmpty == Replay(<<>>) = Blank
<1>1. Len(<<>>) = 0
  OBVIOUS
<1>2. PICK f : f = CHOOSE h : Replays(h, <<>>, 0)
  OBVIOUS
<1>3. Replays(f, <<>>, 0)
  BY <1>2, ReplayExists
<1>4. f[0] = Blank
  BY <1>3 DEF Replays
<1> QED  BY <1>1, <1>2, <1>4, ReplayIs

\* One event more is one restored event more.
LEMMA ReplayAppend ==
  ASSUME NEW s \in Seq(Events), NEW e \in Events
  PROVE  Replay(Append(s, e)) = Restore(Replay(s), e)
<1>1. PICK t, n : t = Append(s, e) /\ n = Len(s)
  OBVIOUS
<1>2. n \in Nat /\ Len(t) = n + 1 /\ t[n + 1] = e /\ \A i \in 1 .. n : t[i] = s[i]
  BY <1>1
<1>3. PICK f : f = CHOOSE h : Replays(h, s, n)
  OBVIOUS
<1>4. PICK g : g = CHOOSE h : Replays(h, t, n + 1)
  OBVIOUS
<1>5. Replays(f, s, n) /\ Replays(g, t, n + 1)
  <2>1. \E h : Replays(h, s, n)
    BY <1>2, ReplayExists
  <2>2. n + 1 \in Nat
    BY <1>2
  <2>3. \E h : Replays(h, t, n + 1)
    BY <2>2, ReplayExists
  <2>4. Replays(f, s, n)
    BY <1>3, <2>1
  <2>5. Replays(g, t, n + 1)
    BY <1>4, <2>3
  <2> QED  BY <2>4, <2>5
<1>6. f[n] = g[n]
  BY <1>2, <1>5, ReplaysAgree
<1>7. g[n + 1] = Restore(g[n], t[n + 1])
  BY <1>2, <1>5 DEF Replays
<1>8. Replay(s) = f[n] /\ Replay(t) = g[n + 1]
  BY <1>1, <1>2, <1>3, <1>4, ReplayIs
<1> QED  BY <1>1, <1>2, <1>6, <1>7, <1>8

-----------------------------------------------------------------------------
(* The inductive invariant.                                                *)

\* A journal that replays, and what its events say of the state it replays to.
Sound(s) ==
  LET d == Replay(s) IN
  /\ s \in Seq(Events)
  /\ d \in Memories
  /\ d.ver = Len(s)
  /\ \A p \in Policies : p \in d.policies <=> RegisteredAt(s, p) # {}
  /\ \A p \in Policies : d.revoked[p] = Never <=> RevokedAt(s, p) = {}
  /\ d.block # None => BlockedAt(s, d.block) # {}

\* What a process has in memory is a state of the journal it has seen.
Remembered ==
  /\ mem \in [Writers -> Memories]
  /\ \A w \in Writers :
       /\ mem[w].ver \in 0 .. Len(log)
       /\ mem[w] = Replay(SubSeq(log, 1, mem[w].ver))

\* While nothing has overtaken its cut, a barrier's check holds of the journal.
Cut(t) ==
  LET d == Replay(log)  r == d.adms[t.adm] IN
  /\ t.adm \in Admissions
  /\ r # None /\ r.outcome = "ADMITTED"
  /\ d.block = None \/ r.reducing
  /\ PolicyActive(d, r.policy, t.now)
  /\ r.conf # None => t.now < ConfirmedUntil
  /\ readable /\ book = t.adm

Barriers ==
  /\ task \in [Writers -> [adm : Admissions \cup {None}, now : Times, fresh : BOOLEAN]]
  /\ book \in Admissions \cup {None}
  /\ sent \subseteq Admissions
  /\ \A w \in Writers : task[w].fresh => Cut(task[w])

Actions == {"SET", "RESTORE", "BLOCK", "REVOKE"}

Phases == {"NONE", "QUEUED", "RUNNING", "UNKNOWN"} \cup Terminal

Operations ==
  [phase : Phases, action : Actions \cup {"NONE"}, policy : Policies \cup {None},
   of : By, targets : SUBSET Policies, ver : Nat, at : Times, refs : SUBSET Nat]

\* What a command was bound to when it was accepted still holds.
Bound(s, o) ==
  /\ o.action \in Actions
  /\ o.ver \in 0 .. Len(s)
  /\ o.refs \subseteq 0 .. Len(s)
  /\ o.action \in {"SET", "RESTORE"} => o.policy \in Policies
  /\ o.action = "RESTORE" => o.of # None /\ RegisteredAt(s, o.policy) # {}
  /\ IF o.action = "REVOKE" THEN \A p \in o.targets : RegisteredAt(s, p) # {}
     ELSE o.targets = {}

\* An event of a command's, written after its cut.
Effect(o, i, e) ==
  /\ i > o.ver
  /\ CASE o.action = "SET" -> e.type = "Registered" /\ e.policy = o.policy
       [] o.action = "RESTORE" -> e.type = "Restored"
       [] o.action = "BLOCK" -> e.type = "Blocked"
       [] o.action = "REVOKE" -> e.type = "Revoked" /\ e.policy \in o.targets
       [] OTHER -> FALSE

Queued ==
  /\ accepted \in 0 .. MaxCommands
  /\ ops \in [Commands -> Operations]
  /\ \A c \in Commands : c <= accepted <=> Accepted(c)
  /\ \A c \in Commands : IF Accepted(c) THEN Bound(log, ops[c]) ELSE ops[c] = Unborn
  /\ \A i \in DOMAIN log : log[i].by # None =>
       Accepted(log[i].by) /\ Effect(ops[log[i].by], i, log[i])

Settled(s, c, o) == Resolved(s, c, o) /\ ~RevokedElsewhere(s, c, o)

\* The worker still writes what it decided to write, as long as nobody else
\* has written.
Writing(s, c, o) ==
  /\ ~Resolved(s, c, o)
  /\ ~RevokedElsewhere(s, c, o)
  /\ Executable(s, c, o)
  /\ worker.todo = Missing(s, c, o)

Working ==
  /\ worker.queue \subseteq {c \in 1 .. accepted : ops[c].phase \notin Terminal}
  /\ worker.step \in {"take", "write", "finish", "fail", "fault"}
  /\ worker.ver \in 0 .. Len(log)
  /\ worker.raced \in BOOLEAN
  /\ DOMAIN worker = {"queue", "step", "todo", "ver", "raced"}
  /\ Busy /\ worker.step = "write" /\ worker.ver = Len(log) =>
       Writing(log, Current, ops[Current])
  /\ Busy /\ worker.step = "finish" => Settled(log, Current, ops[Current])

IInv ==
  /\ Sound(log)
  /\ Remembered
  /\ Barriers
  /\ Queued
  /\ Working
  /\ OutcomesReplay
  /\ EffectsReported

-----------------------------------------------------------------------------
LEMMA Constants ==
  /\ Never \in Nat /\ Never \notin Times /\ Times \subseteq 0 .. Never
  /\ 0 \in Times
  /\ Commands \subseteq Nat /\ None \notin Commands /\ None \notin Policies
  /\ None \notin Admissions /\ None \notin Confirmations
  BY AuthorityConstants DEF Never, Times, Commands

LEMMA EventFields ==
  ASSUME NEW e \in Events
  PROVE  /\ e.type \in {"Registered", "Revoked", "Blocked", "Restored", "Confirmed", "Recorded"}
         /\ e.by \in By
         /\ e.type = "Registered" => e.policy \in Policies
         /\ e.type = "Revoked" => e.policy \in Policies /\ e.at \in Times
         /\ e.type = "Blocked" => e.by \in Commands
         /\ e.type = "Restored" => e.of \in Commands
         /\ e.type = "Confirmed" => e.conf \in Confirmations /\ e.policy \in Policies
         /\ e.type = "Recorded" => e \in Verdicts
  BY DEF Events, Verdicts, By

LEMMA BlankOK ==
  /\ Blank \in Memories /\ Blank.ver = 0 /\ Blank.policies = {} /\ Blank.block = None
  /\ \A p \in Policies : Blank.revoked[p] = Never
  /\ Corrupt.ver = -1
  BY Constants DEF Blank, Corrupt, Memories, By

\* What an event does to the state it is applied to.
LEMMA ApplyOK ==
  ASSUME NEW m \in Memories, NEW e \in Events, NEW n, n = Apply(m, e)
  PROVE  /\ n \in Memories
         /\ n.ver = m.ver + 1
         /\ n.policies = IF e.type = "Registered" THEN m.policies \cup {e.policy}
                         ELSE m.policies
         /\ n.revoked = IF e.type = "Revoked" THEN [m.revoked EXCEPT ![e.policy] = e.at]
                        ELSE m.revoked
         /\ n.block = CASE e.type = "Blocked" -> e.by
                        [] e.type = "Restored" -> None
                        [] OTHER -> m.block
<1>1. PICK k : k = [m EXCEPT !.ver = m.ver + 1]
  OBVIOUS
<1>2. /\ k \in Memories /\ k.ver = m.ver + 1
      /\ k.policies = m.policies /\ k.revoked = m.revoked /\ k.block = m.block
  BY <1>1 DEF Memories
<1>3. CASE e.type = "Registered"
  <2>1. n = [k EXCEPT !.policies = k.policies \cup {e.policy}, !.epoch = k.epoch + 1]
    BY <1>1, <1>3 DEF Apply
  <2>2. e.policy \in Policies
    BY <1>3, EventFields
  <2>3. k.epoch + 1 \in Nat /\ k.policies \cup {e.policy} \in SUBSET Policies
    BY <1>2, <2>2 DEF Memories
  <2>4. n \in Memories
    BY <1>2, <2>1, <2>3 DEF Memories
  <2>5. /\ n.ver = k.ver /\ n.policies = k.policies \cup {e.policy}
        /\ n.revoked = k.revoked /\ n.block = k.block
    BY <1>2, <2>1 DEF Memories
  <2> QED  BY <1>2, <1>3, <2>4, <2>5
<1>4. CASE e.type = "Revoked"
  <2>1. e.policy \in Policies /\ e.at \in 0 .. Never
    BY <1>4, EventFields, Constants
  <2>2. PICK f \in [Policies -> 0 .. Never] : f = [m.revoked EXCEPT ![e.policy] = e.at]
    BY <2>1 DEF Memories
  <2>3. n = [k EXCEPT !.revoked = f, !.epoch = k.epoch + 1]
    BY <1>1, <1>2, <1>4, <2>2 DEF Apply
  <2>4. k.epoch + 1 \in Nat
    BY <1>2 DEF Memories
  <2>5. n \in Memories
    BY <1>2, <2>2, <2>3, <2>4 DEF Memories
  <2>6. /\ n.ver = k.ver /\ n.policies = k.policies
        /\ n.revoked = f /\ n.block = k.block
    BY <1>2, <2>3 DEF Memories
  <2> QED  BY <1>2, <1>4, <2>2, <2>5, <2>6
<1>5. CASE e.type = "Blocked"
  <2>1. n = [k EXCEPT !.block = e.by] /\ e.by \in By
    BY <1>1, <1>5, EventFields DEF Apply
  <2> QED  BY <1>2, <1>5, <2>1 DEF Memories
<1>6. CASE e.type = "Restored"
  <2>1. n = [k EXCEPT !.block = None]
    BY <1>1, <1>6 DEF Apply
  <2> QED  BY <1>2, <1>6, <2>1 DEF Memories, By
<1>7. CASE e.type = "Confirmed"
  <2>1. e.policy \in Policies /\ e.conf \in Confirmations
    BY <1>7, EventFields
  <2>2. PICK f \in [Confirmations -> Policies \cup {None}] :
          f = [k.confs EXCEPT ![e.conf] = e.policy]
    BY <1>2, <2>1 DEF Memories
  <2>3. n = [k EXCEPT !.confs = f]
    BY <1>1, <1>2, <1>7, <2>2 DEF Apply
  <2> QED  BY <1>2, <1>7, <2>2, <2>3 DEF Memories
<1>8. CASE e.type = "Recorded"
  <2>1. e \in Verdicts /\ e.adm \in Admissions /\ e.conf \in Confirmations \cup {None}
    BY <1>8, EventFields DEF Verdicts
  <2>2. PICK f \in [Admissions -> Verdicts \cup {None}] : f = [k.adms EXCEPT ![e.adm] = e]
    BY <1>2, <2>1 DEF Memories
  <2>3. PICK u \in SUBSET Confirmations :
          u = IF e.outcome = "ADMITTED" /\ e.conf # None THEN k.used \cup {e.conf}
              ELSE k.used
    BY <1>2, <2>1 DEF Memories
  <2>4. n = [k EXCEPT !.adms = f, !.used = u]
    BY <1>1, <1>2, <1>8, <2>2, <2>3 DEF Apply
  <2> QED  BY <1>2, <1>8, <2>2, <2>3, <2>4 DEF Memories
<1> QED  BY <1>3, <1>4, <1>5, <1>6, <1>7, <1>8, EventFields

-----------------------------------------------------------------------------
(* What an appended event changes in the views of the journal.             *)

LEMMA JournalAppend ==
  ASSUME NEW s \in Seq(Events), NEW e \in Events, NEW t, t = Append(s, e)
  PROVE  /\ t \in Seq(Events) /\ Len(s) \in Nat /\ Len(t) = Len(s) + 1
         /\ DOMAIN s = 1 .. Len(s) /\ DOMAIN t = 1 .. Len(s) + 1
         /\ t[Len(s) + 1] = e
         /\ \A i \in 1 .. Len(s) : t[i] = s[i] /\ s[i] \in Events
  BY LenProperties, ElementOfSeq

\* Appending changes no prefix.
LEMMA PrefixKept ==
  ASSUME NEW s \in Seq(Events), NEW e \in Events, NEW n \in 0 .. Len(s)
  PROVE  SubSeq(Append(s, e), 1, n) = SubSeq(s, 1, n)
<1>1. PICK t : t = Append(s, e)
  OBVIOUS
<1>2. /\ Len(s) \in Nat /\ \A i \in 1 .. Len(s) : t[i] = s[i] /\ s[i] \in Events
  BY <1>1, JournalAppend
<1>3. n \in Int /\ \A i \in 1 .. n : s[i] \in Events /\ t[i] \in Events /\ t[i] = s[i]
  BY <1>2
<1>4. PICK u, v : u = SubSeq(s, 1, n) /\ v = SubSeq(t, 1, n)
  OBVIOUS
<1>5. u \in Seq(Events) /\ Len(u) = n /\ \A i \in 1 .. n : u[i] = s[i]
  BY <1>3, <1>4, SubSeqProperties
<1>6. v \in Seq(Events) /\ Len(v) = n /\ \A i \in 1 .. n : v[i] = t[i]
  BY <1>3, <1>4, SubSeqProperties
<1>7. u = v
  BY <1>3, <1>5, <1>6, SeqEqual
<1> QED  BY <1>1, <1>4, <1>7

\* The journal t is s with e at its end, as the views show it.
Views(s, e, t) ==
  /\ \A p : e.type = "Registered" /\ e.policy = p => RegisteredAt(t, p) = RegisteredAt(s, p) \cup {Len(s) + 1}
  /\ \A p : ~(e.type = "Registered" /\ e.policy = p) => RegisteredAt(t, p) = RegisteredAt(s, p)
  /\ \A p : e.type = "Revoked" /\ e.policy = p => RevokedAt(t, p) = RevokedAt(s, p) \cup {Len(s) + 1}
  /\ \A p : ~(e.type = "Revoked" /\ e.policy = p) => RevokedAt(t, p) = RevokedAt(s, p)
  /\ \A c : e.type = "Restored" /\ e.by = c => RestoredAt(t, c) = RestoredAt(s, c) \cup {Len(s) + 1}
  /\ \A c : ~(e.type = "Restored" /\ e.by = c) => RestoredAt(t, c) = RestoredAt(s, c)
  /\ \A c : e.type = "Blocked" /\ e.by = c => BlockedAt(t, c) = BlockedAt(s, c) \cup {Len(s) + 1}
  /\ \A c : ~(e.type = "Blocked" /\ e.by = c) => BlockedAt(t, c) = BlockedAt(s, c)

\* How the events that name something change when one is appended.
LEMMA ViewsAppend ==
  ASSUME NEW s \in Seq(Events), NEW e \in Events, NEW t, t = Append(s, e)
  PROVE  Views(s, e, t)
<1> USE JournalAppend
<1>1. ASSUME NEW p, e.type = "Registered" /\ e.policy = p
      PROVE  RegisteredAt(t, p) = RegisteredAt(s, p) \cup {Len(s) + 1}
  BY <1>1 DEF RegisteredAt, Where
<1>2. ASSUME NEW p, ~(e.type = "Registered" /\ e.policy = p)
      PROVE  RegisteredAt(t, p) = RegisteredAt(s, p)
  BY <1>2 DEF RegisteredAt, Where
<1>3. ASSUME NEW p, e.type = "Revoked" /\ e.policy = p
      PROVE  RevokedAt(t, p) = RevokedAt(s, p) \cup {Len(s) + 1}
  BY <1>3 DEF RevokedAt, Where
<1>4. ASSUME NEW p, ~(e.type = "Revoked" /\ e.policy = p)
      PROVE  RevokedAt(t, p) = RevokedAt(s, p)
  BY <1>4 DEF RevokedAt, Where
<1>5. ASSUME NEW c, e.type = "Restored" /\ e.by = c
      PROVE  RestoredAt(t, c) = RestoredAt(s, c) \cup {Len(s) + 1}
  BY <1>5 DEF RestoredAt, Where
<1>6. ASSUME NEW c, ~(e.type = "Restored" /\ e.by = c)
      PROVE  RestoredAt(t, c) = RestoredAt(s, c)
  BY <1>6 DEF RestoredAt, Where
<1>7. ASSUME NEW c, e.type = "Blocked" /\ e.by = c
      PROVE  BlockedAt(t, c) = BlockedAt(s, c) \cup {Len(s) + 1}
  BY <1>7 DEF BlockedAt, Where
<1>8. ASSUME NEW c, ~(e.type = "Blocked" /\ e.by = c)
      PROVE  BlockedAt(t, c) = BlockedAt(s, c)
  BY <1>8 DEF BlockedAt, Where
<1> QED  BY <1>1, <1>2, <1>3, <1>4, <1>5, <1>6, <1>7, <1>8 DEF Views

LEMMA ViewsIn ==
  ASSUME NEW s \in Seq(Events), NEW x
  PROVE  /\ RegisteredAt(s, x) \subseteq 1 .. Len(s)
         /\ RevokedAt(s, x) \subseteq 1 .. Len(s)
         /\ RestoredAt(s, x) \subseteq 1 .. Len(s)
         /\ BlockedAt(s, x) \subseteq 1 .. Len(s)
  BY LenProperties DEF RegisteredAt, RevokedAt, RestoredAt, BlockedAt, Where

\* What is true of every event that is appended to a journal.
Legal(s, e) ==
  /\ Restorable(Replay(s), e)
  /\ e.type = "Revoked" => Replay(s).revoked[e.policy] = Never

\* An event that is legal after a journal keeps it one that restarts accept.
LEMMA AppendSound ==
  ASSUME NEW s, Sound(s), NEW e \in Events, Legal(s, e)
  PROVE  /\ Replay(Append(s, e)) = Apply(Replay(s), e)
         /\ Sound(Append(s, e))
<1>1. PICK t, d : t = Append(s, e) /\ d = Replay(s)
  OBVIOUS
<1>2. /\ s \in Seq(Events) /\ d \in Memories /\ d.ver = Len(s) /\ Len(s) \in Nat
      /\ \A p \in Policies : p \in d.policies <=> RegisteredAt(s, p) # {}
      /\ \A p \in Policies : d.revoked[p] = Never <=> RevokedAt(s, p) = {}
      /\ d.block # None => BlockedAt(s, d.block) # {}
  BY <1>1, LenProperties DEF Sound
<1>3. d # Corrupt
  BY <1>2, BlankOK
<1>4. PICK n : n = Apply(d, e)
  OBVIOUS
<1>5. Replay(t) = n
  BY <1>1, <1>2, <1>3, <1>4, ReplayAppend DEF Restore, Legal
<1>6. t \in Seq(Events) /\ Len(t) = Len(s) + 1
  BY <1>1, <1>2, JournalAppend
<1>7. /\ n \in Memories
      /\ n.ver = d.ver + 1
      /\ n.policies = IF e.type = "Registered" THEN d.policies \cup {e.policy}
                      ELSE d.policies
      /\ n.revoked = IF e.type = "Revoked" THEN [d.revoked EXCEPT ![e.policy] = e.at]
                     ELSE d.revoked
      /\ n.block = CASE e.type = "Blocked" -> e.by
                     [] e.type = "Restored" -> None
                     [] OTHER -> d.block
  BY <1>2, <1>4, ApplyOK
<1>11. Views(s, e, t)
  BY <1>1, <1>2, ViewsAppend
<1>8. ASSUME NEW p \in Policies PROVE p \in n.policies <=> RegisteredAt(t, p) # {}
  BY <1>1, <1>2, <1>7, <1>11 DEF Views
<1>9. ASSUME NEW p \in Policies PROVE n.revoked[p] = Never <=> RevokedAt(t, p) = {}
  <2>1. CASE e.type = "Revoked" /\ e.policy = p
    <3>1. n.revoked[p] = e.at
      BY <1>2, <1>7, <2>1 DEF Memories
    <3>2. e.at # Never
      BY <2>1, EventFields, Constants
    <3> QED  BY <1>1, <1>2, <2>1, <3>1, <3>2, <1>11 DEF Views
  <2>2. CASE ~(e.type = "Revoked" /\ e.policy = p)
    <3>1. n.revoked[p] = d.revoked[p]
      BY <1>2, <1>7, <2>2 DEF Memories
    <3> QED  BY <1>1, <1>2, <2>2, <3>1, <1>11 DEF Views
  <2> QED  BY <2>1, <2>2
<1>10. n.block # None => BlockedAt(t, n.block) # {}
  BY <1>1, <1>2, <1>7, <1>11 DEF Views
<1> QED  BY <1>1, <1>2, <1>4, <1>5, <1>6, <1>7, <1>8, <1>9, <1>10 DEF Sound

\* A policy is registered once and revoked once.
LEMMA LegalOnce ==
  ASSUME NEW s, Sound(s), NEW e \in Events, Legal(s, e)
  PROVE  /\ e.type = "Registered" => RegisteredAt(s, e.policy) = {}
         /\ e.type = "Revoked" => RevokedAt(s, e.policy) = {}
<1>1. CASE e.type = "Registered"
  <2>1. e.policy \in Policies /\ e.policy \notin Replay(s).policies
    BY <1>1, EventFields DEF Legal, Restorable
  <2> QED  BY <1>1, <2>1 DEF Sound
<1>2. CASE e.type = "Revoked"
  <2>1. e.policy \in Policies /\ Replay(s).revoked[e.policy] = Never
    BY <1>2, EventFields DEF Legal
  <2> QED  BY <1>2, <2>1 DEF Sound
<1> QED  BY <1>1, <1>2

\* What a command was bound to stays as it was.
LEMMA BoundStays ==
  ASSUME NEW s, Sound(s), NEW e \in Events, NEW t, t = Append(s, e),
         NEW o, Bound(s, o)
  PROVE  Bound(t, o)
<1>1. s \in Seq(Events) /\ Len(s) \in Nat /\ Len(t) = Len(s) + 1
  BY JournalAppend DEF Sound
<1>2. Views(s, e, t)
  BY <1>1, ViewsAppend
<1>3. \A p : RegisteredAt(s, p) # {} => RegisteredAt(t, p) # {}
  BY <1>2 DEF Views
<1>4. o.ver \in 0 .. Len(t) /\ o.refs \subseteq 0 .. Len(t)
  BY <1>1 DEF Bound
<1> QED  BY <1>3, <1>4 DEF Bound

\* Once a command has all its effects, no event of anybody else changes what
\* shows them.
Kept(s, t, c, o) == Settled(t, c, o) /\ Evidence(t, c, o) = Evidence(s, c, o)

\* What others append leaves a settled command settled, with its evidence.
LEMMA SettledStays ==
  ASSUME NEW s, Sound(s), NEW e \in Events, Legal(s, e), NEW t, t = Append(s, e),
         NEW c, e.by # c, NEW o, Bound(s, o), Settled(s, c, o)
  PROVE  Kept(s, t, c, o)
<1> USE DEF Kept
<1>1. s \in Seq(Events) /\ Len(s) \in Nat /\ Len(t) = Len(s) + 1
  BY JournalAppend DEF Sound
<1>2. Views(s, e, t)
  BY <1>1, ViewsAppend
<1>3. \A p : RegisteredAt(s, p) # {} => RegisteredAt(t, p) = RegisteredAt(s, p)
  BY <1>2, LegalOnce DEF Views
<1>4. \A p : RevokedAt(s, p) # {} => RevokedAt(t, p) = RevokedAt(s, p)
  BY <1>2, LegalOnce DEF Views
<1>5. RestoredAt(t, c) = RestoredAt(s, c) /\ BlockedAt(t, c) = BlockedAt(s, c)
  BY <1>2 DEF Views
<1>6. Resolved(s, c, o) /\ ~RevokedElsewhere(s, c, o)
  BY DEF Settled
<1>7. o.action \in Actions
  BY DEF Bound
<1>8. CASE o.action = "SET"
  <2>1. RegisteredAt(t, o.policy) = RegisteredAt(s, o.policy) /\ o.targets = {}
    BY <1>3, <1>6, <1>8 DEF Resolved, Bound
  <2> QED  BY <1>6, <1>8, <2>1 DEF Settled, Resolved, Evidence, RevokedElsewhere
<1>9. CASE o.action = "RESTORE"
  <2>1. RegisteredAt(t, o.policy) = RegisteredAt(s, o.policy) /\ o.targets = {}
    BY <1>3, <1>6, <1>9 DEF Resolved, Bound
  <2> QED  BY <1>5, <1>6, <1>9, <2>1 DEF Settled, Resolved, Evidence, RevokedElsewhere
<1>10. CASE o.action = "BLOCK"
  <2>1. SubSeq(t, 1, o.ver) = SubSeq(s, 1, o.ver) /\ o.targets = {}
    BY <1>1, <1>10, PrefixKept DEF Bound
  <2>2. PreexistingBlock(t, o.ver) = PreexistingBlock(s, o.ver)
    BY <2>1 DEF PreexistingBlock
  <2>3. BlockEvidence(t, c, o) = BlockEvidence(s, c, o)
    BY <1>5, <2>2 DEF BlockEvidence
  <2> QED  BY <1>6, <1>10, <2>1, <2>3 DEF Settled, Resolved, Evidence, RevokedElsewhere
<1>11. CASE o.action = "REVOKE"
  <2>1. \A p \in o.targets : RevokedAt(t, p) = RevokedAt(s, p) /\ RevokedAt(s, p) # {}
    BY <1>4, <1>6, <1>11 DEF Resolved
  <2>2. Resolved(t, c, o)
    BY <1>11, <2>1 DEF Resolved
  <2>3. {RevokedAt(t, p) : p \in o.targets} = {RevokedAt(s, p) : p \in o.targets}
    BY <2>1
  <2>4. Evidence(t, c, o) = Evidence(s, c, o)
    BY <1>11, <2>3 DEF Evidence
  <2>5. ~RevokedElsewhere(t, c, o)
    <3> SUFFICES ASSUME NEW p \in o.targets, NEW i \in RevokedAt(t, p), t[i].by # c
                 PROVE  FALSE
      BY DEF RevokedElsewhere
    <3>1. i \in RevokedAt(s, p) /\ i \in 1 .. Len(s)
      BY <1>1, <2>1, ViewsIn
    <3>2. t[i] = s[i]
      BY <1>1, <3>1, JournalAppend
    <3> QED  BY <1>6, <3>1, <3>2 DEF RevokedElsewhere
  <2> QED  BY <2>2, <2>4, <2>5 DEF Settled
<1> QED  BY <1>7, <1>8, <1>9, <1>10, <1>11 DEF Actions

\* A command's phase and references are not read of it.
LEMMA SameCommand ==
  ASSUME NEW s, NEW c, NEW o, NEW q, q.action = o.action, q.policy = o.policy,
         q.of = o.of, q.targets = o.targets, q.ver = o.ver, q.at = o.at
  PROVE  /\ Settled(s, c, q) <=> Settled(s, c, o)
         /\ Evidence(s, c, q) = Evidence(s, c, o)
         /\ Writing(s, c, q) <=> Writing(s, c, o)
         /\ Resolved(s, c, q) <=> Resolved(s, c, o)
         /\ RevokedElsewhere(s, c, q) <=> RevokedElsewhere(s, c, o)
         /\ Executable(s, c, q) <=> Executable(s, c, o)
         /\ Missing(s, c, q) = Missing(s, c, o)
         /\ Decision(c, q) = Decision(c, o)
         /\ \A i, e : Effect(q, i, e) <=> Effect(o, i, e)
<1>1. Resolved(s, c, q) <=> Resolved(s, c, o)
  BY DEF Resolved, BlockEvidence
<1>2. RevokedElsewhere(s, c, q) <=> RevokedElsewhere(s, c, o)
  BY DEF RevokedElsewhere
<1>3. Executable(s, c, q) <=> Executable(s, c, o)
  BY DEF Executable, Undisturbed
<1>4. Missing(s, c, q) = Missing(s, c, o)
  BY DEF Missing
<1>5. Evidence(s, c, q) = Evidence(s, c, o)
  BY DEF Evidence, BlockEvidence
<1>6. \A i, e : Effect(q, i, e) <=> Effect(o, i, e)
  BY DEF Effect
<1>7. Decision(c, q) = Decision(c, o)
  <2>1. Resolved(log, c, q) <=> Resolved(log, c, o)
    BY DEF Resolved, BlockEvidence
  <2>2. RevokedElsewhere(log, c, q) <=> RevokedElsewhere(log, c, o)
    BY DEF RevokedElsewhere
  <2>3. Executable(log, c, q) <=> Executable(log, c, o)
    BY DEF Executable, Undisturbed
  <2>4. Missing(log, c, q) = Missing(log, c, o)
    BY DEF Missing
  <2> QED  BY <2>1, <2>2, <2>3, <2>4 DEF Decision
<1> QED  BY <1>1, <1>2, <1>3, <1>4, <1>5, <1>6, <1>7 DEF Settled, Writing

-----------------------------------------------------------------------------
(* The steps that append to the authority journal.                         *)

LEMMA InvFacts ==
  ASSUME IInv
  PROVE  /\ log \in Seq(Events) /\ Len(log) \in Nat /\ DOMAIN log = 1 .. Len(log)
         /\ Replay(log) \in Memories /\ Replay(log).ver = Len(log)
         /\ SubSeq(log, 1, Len(log)) = log
         /\ \A i \in DOMAIN log : log[i] \in Events
  BY LenProperties, SubSeqFull, ElementOfSeq DEF IInv, Sound

\* The authors of the journal's events are the commands that can have them.
LEMMA Authors ==
  ASSUME IInv, NEW i \in DOMAIN log, log[i].by # None
  PROVE  /\ log[i].by \in Commands /\ Accepted(log[i].by)
         /\ Effect(ops[log[i].by], i, log[i])
  BY InvFacts, EventFields DEF IInv, Queued, By

\* What an appended event means for commands and their outcomes.
LEMMA LogGrows ==
  ASSUME IInv, NEW e \in Events, Legal(log, e), log' = Append(log, e),
         UNCHANGED <<ops, accepted>>,
         e.by # None => /\ Accepted(e.by) /\ ops[e.by].phase \notin Terminal
                        /\ Effect(ops[e.by], Len(log) + 1, e)
  PROVE  /\ Sound(log') /\ Replay(log') = Apply(Replay(log), e)
         /\ Queued' /\ OutcomesReplay' /\ EffectsReported'
<1>1. PICK t : t = log'
  OBVIOUS
<1>2. Sound(log) /\ log \in Seq(Events) /\ Len(log) \in Nat /\ t = Append(log, e)
  BY <1>1, InvFacts DEF IInv
<1>3. Sound(t) /\ Replay(t) = Apply(Replay(log), e)
  BY <1>2, AppendSound
<1>4. /\ DOMAIN t = 1 .. Len(log) + 1 /\ DOMAIN log = 1 .. Len(log)
      /\ t[Len(log) + 1] = e /\ \A i \in 1 .. Len(log) : t[i] = log[i]
  BY <1>2, JournalAppend
<1>5. Queued'
  <2>1. ASSUME NEW c \in Commands, Accepted(c) PROVE Bound(t, ops[c])
    BY <1>2, <2>1, BoundStays DEF IInv, Queued
  <2>2. ASSUME NEW i \in DOMAIN t, t[i].by # None
        PROVE  Accepted(t[i].by) /\ Effect(ops[t[i].by], i, t[i])
    <3>1. CASE i = Len(log) + 1
      BY <1>4, <2>2, <3>1
    <3>2. CASE i \in DOMAIN log
      BY <1>4, <2>2, <3>2 DEF IInv, Queued
    <3> QED  BY <1>2, <1>4, <3>1, <3>2
  <2> QED  BY <1>1, <2>1, <2>2 DEF IInv, Queued, Accepted
<1>6. OutcomesReplay'
  <2> SUFFICES ASSUME NEW c \in Commands, ops[c].phase = "SUCCEEDED"
               PROVE  /\ Resolved(t, c, ops[c])
                      /\ ~RevokedElsewhere(t, c, ops[c])
                      /\ ops[c].refs = Evidence(t, c, ops[c])
    BY <1>1 DEF OutcomesReplay
  <2>1. Settled(log, c, ops[c]) /\ ops[c].refs = Evidence(log, c, ops[c])
    BY DEF IInv, OutcomesReplay, Settled
  <2>2. Bound(log, ops[c]) /\ e.by # c
    <3>1. c # None
      BY Constants
    <3> QED  BY <3>1 DEF IInv, Queued, Accepted, Terminal
  <2>3. Settled(t, c, ops[c]) /\ Evidence(t, c, ops[c]) = Evidence(log, c, ops[c])
    <3>1. PICK u, o : u = log /\ o = ops[c]
      OBVIOUS
    <3>2. Sound(u) /\ Legal(u, e) /\ t = Append(u, e) /\ Bound(u, o) /\ Settled(u, c, o)
      BY <1>2, <2>1, <2>2, <3>1
    <3>3. Kept(u, t, c, o)
      BY <2>2, <3>2, SettledStays
    <3> QED  BY <3>1, <3>3 DEF Kept
  <2> QED  BY <2>1, <2>3 DEF Settled
<1>7. EffectsReported'
  <2> SUFFICES ASSUME NEW c \in Commands, ops[c].phase = "FAILED", NEW i \in DOMAIN t, t[i].by = c
               PROVE  i \in ops[c].refs
    BY <1>1 DEF EffectsReported, Where
  <2>1. c # None
    BY Constants
  <2>2. i # Len(log) + 1
    BY <1>4, <2>1 DEF Terminal
  <2>3. i \in DOMAIN log /\ log[i].by = c
    BY <1>2, <1>4, <2>2
  <2> QED  BY <2>3 DEF IInv, EffectsReported, Where
<1> QED  BY <1>1, <1>3, <1>5, <1>6, <1>7

\* Whatever commits invalidates the cuts of all barriers under way.
LEMMA OvertakenOK ==
  ASSUME IInv, task' = Overtaken(task), book' \in Admissions \cup {None},
         sent' \subseteq Admissions
  PROVE  Barriers'
<1>1. /\ task' \in [Writers -> [adm : Admissions \cup {None}, now : Times, fresh : BOOLEAN]]
      /\ \A w \in Writers : task'[w].fresh = FALSE
  BY DEF IInv, Barriers, Overtaken
<1> QED  BY <1>1 DEF Barriers

\* The copies that processes have are not disturbed by what others append.
LEMMA RememberedStays ==
  ASSUME IInv, NEW e \in Events, log' = Append(log, e), NEW w \in Writers, mem'[w] = mem[w]
  PROVE  /\ mem'[w].ver \in 0 .. Len(log')
         /\ mem'[w] = Replay(SubSeq(log', 1, mem'[w].ver))
<1>1. log \in Seq(Events) /\ Len(log) \in Nat /\ Len(log') = Len(log) + 1
  BY InvFacts, JournalAppend
<1>2. mem[w].ver \in 0 .. Len(log) /\ mem[w] = Replay(SubSeq(log, 1, mem[w].ver))
  BY DEF IInv, Remembered
<1>3. SubSeq(log', 1, mem[w].ver) = SubSeq(log, 1, mem[w].ver)
  BY <1>1, <1>2, PrefixKept
<1>4. PICK m : m = mem[w]
  OBVIOUS
<1>5. m.ver \in 0 .. Len(log')
  BY <1>1, <1>2, <1>4
<1>6. m = Replay(SubSeq(log', 1, m.ver))
  BY <1>2, <1>3, <1>4
<1> QED  BY <1>4, <1>5, <1>6

\* A process that has seen the whole journal has its state.
LEMMA DurableIsReplay ==
  ASSUME IInv, NEW w \in Writers, Durable(mem[w])
  PROVE  mem[w] = Replay(log)
  BY InvFacts DEF IInv, Remembered, Durable

\* The command the worker is at was accepted and has not ended.
LEMMA CurrentIn ==
  ASSUME IInv, Busy
  PROVE  /\ Current \in worker.queue /\ Current \in Commands
         /\ Accepted(Current) /\ ops[Current].phase \notin Terminal
         /\ ops[Current].phase \in {"QUEUED", "RUNNING", "UNKNOWN"}
         /\ Bound(log, ops[Current])
<1>1. accepted \in 0 .. MaxCommands /\ MaxCommands \in Nat
  BY AuthorityConstants DEF IInv, Queued
<1>2. worker.queue \subseteq Nat /\ worker.queue # {} /\ worker.queue \subseteq Commands
  BY <1>1 DEF IInv, Working, Busy, Commands
<1>3. Current \in worker.queue
  BY <1>2, LeastNumber DEF Current, Min
<1>4. Current \in 1 .. accepted /\ Current \in Commands /\ ops[Current].phase \notin Terminal
  BY <1>2, <1>3 DEF IInv, Working
<1>5. Accepted(Current)
  BY <1>1, <1>4 DEF IInv, Queued
<1>6. ops[Current].phase \in {"QUEUED", "RUNNING", "UNKNOWN"}
  BY <1>4, <1>5 DEF IInv, Queued, Operations, Phases, Accepted
<1> QED  BY <1>3, <1>4, <1>5, <1>6 DEF IInv, Queued

\* An event of another process makes the worker's plan void, not wrong.
LEMMA WorkerWaits ==
  ASSUME IInv, NEW e \in Events, Legal(log, e), e.by = None, log' = Append(log, e),
         UNCHANGED <<ops, accepted, worker>>
  PROVE  Working'
<1>1. Len(log) \in Nat /\ Len(log') = Len(log) + 1
  BY InvFacts, JournalAppend
<1>2. worker.ver \in 0 .. Len(log') /\ worker.ver # Len(log')
  BY <1>1 DEF IInv, Working
<1>3. ASSUME Busy, worker.step = "finish"
      PROVE  Settled(log', Current, ops[Current])
  <2>1. Current # None /\ Bound(log, ops[Current]) /\ Settled(log, Current, ops[Current])
    BY <1>3, CurrentIn, Constants DEF IInv, Working
  <2>2. PICK t : t = log'
    OBVIOUS
  <2>3. Kept(log, t, Current, ops[Current])
    BY <2>1, <2>2, SettledStays DEF IInv
  <2> QED  BY <2>2, <2>3 DEF Kept
<1> QED  BY <1>2, <1>3 DEF IInv, Working, Busy, Current

-----------------------------------------------------------------------------
(* The processes that use the authority.                                   *)

LEMMA PersistOK ==
  ASSUME IInv, NEW w \in Writers, NEW e \in Events, e.by = None, Persist(w, e),
         Restorable(mem[w], e), e.type = "Revoked" => mem[w].revoked[e.policy] = Never,
         task' = Overtaken(task), book' \in Admissions \cup {None}, sent' = sent,
         UNCHANGED <<ops, accepted, worker>>
  PROVE  IInv'
<1>1. mem[w] = Replay(log) /\ log' = Append(log, e)
      /\ mem' = [mem EXCEPT ![w] = Apply(mem[w], e)]
  BY DurableIsReplay DEF Persist
<1>2. Legal(log, e)
  BY <1>1 DEF Legal
<1>3. /\ Sound(log') /\ Replay(log') = Apply(Replay(log), e)
      /\ Queued' /\ OutcomesReplay' /\ EffectsReported'
  BY <1>1, <1>2, LogGrows
<1>4. Working'
  BY <1>1, <1>2, WorkerWaits
<1>5. Barriers'
  BY OvertakenOK DEF IInv, Barriers
<1>6. Remembered'
  <2>1. log' \in Seq(Events) /\ Replay(log') \in Memories /\ Replay(log').ver = Len(log')
    BY <1>3 DEF Sound
  <2>2. Len(log') \in Nat /\ SubSeq(log', 1, Len(log')) = log'
    BY <2>1, LenProperties, SubSeqFull
  <2>3. mem \in [Writers -> Memories]
    BY DEF IInv, Remembered
  <2>4. mem'[w] = Replay(log') /\ mem' \in [Writers -> Memories]
    BY <1>1, <1>3, <2>1, <2>3
  <2>5. ASSUME NEW v \in Writers
        PROVE  /\ mem'[v].ver \in 0 .. Len(log')
               /\ mem'[v] = Replay(SubSeq(log', 1, mem'[v].ver))
    <3>1. CASE v = w
      <4>1. PICK m : m = mem'[v]
        OBVIOUS
      <4>2. m.ver = Len(log') /\ m = Replay(log')
        BY <2>1, <2>4, <3>1, <4>1
      <4>3. m = Replay(SubSeq(log', 1, m.ver))
        BY <2>2, <4>2
      <4>4. m.ver \in 0 .. Len(log')
        BY <2>2, <4>2
      <4> QED  BY <4>1, <4>3, <4>4
    <3>2. CASE v # w
      <4>1. mem'[v] = mem[v]
        BY <1>1, <2>3, <3>2
      <4> QED  BY <1>1, <4>1, RememberedStays
    <3> QED  BY <3>1, <3>2
  <2> QED  BY <2>4, <2>5 DEF Remembered
<1> QED  BY <1>3, <1>4, <1>5, <1>6 DEF IInv

LEMMA MutatesOK ==
  ASSUME IInv, NEW w \in Writers, UNCHANGED <<ops, accepted, worker>>
  PROVE  /\ \A p \in Policies : RegisterPolicy(w, p) => IInv'
         /\ \A p \in Policies, at \in Times : RevokePolicy(w, p, at) => IInv'
         /\ \A k \in Confirmations, p \in Policies : AddConfirmation(w, k, p) => IInv'
<1>1. ASSUME NEW e \in Events, e.by = None, Mutates(w, e), Restorable(mem[w], e),
             e.type = "Revoked" => mem[w].revoked[e.policy] = Never
      PROVE  IInv'
  <2>1. Persist(w, e) /\ task' = Overtaken(task) /\ book' = book /\ sent' = sent
    BY <1>1 DEF Mutates
  <2>2. book' \in Admissions \cup {None}
    BY <2>1 DEF IInv, Barriers
  <2> QED  BY <1>1, <2>1, <2>2, PersistOK
<1>2. ASSUME NEW p \in Policies, RegisterPolicy(w, p) PROVE IInv'
  <2>1. PICK e : e = Registered(p, None)
    OBVIOUS
  <2>2. e \in Events /\ e.by = None /\ e.type = "Registered" /\ e.policy = p
    BY <2>1 DEF Registered, Events, By
  <2>3. Restorable(mem[w], e)
    BY <1>2, <2>2 DEF RegisterPolicy, Restorable
  <2> QED  BY <1>1, <1>2, <2>1, <2>2, <2>3 DEF RegisterPolicy
<1>3. ASSUME NEW p \in Policies, NEW at \in Times, RevokePolicy(w, p, at) PROVE IInv'
  <2>1. PICK e : e = Revoked(p, at, None)
    OBVIOUS
  <2>2. e \in Events /\ e.by = None /\ e.type = "Revoked" /\ e.policy = p
    BY <2>1 DEF Revoked, Events, By
  <2>3. Restorable(mem[w], e)
    BY <1>3, <2>2 DEF RevokePolicy, Restorable
  <2> QED  BY <1>1, <1>3, <2>1, <2>2, <2>3 DEF RevokePolicy
<1>4. ASSUME NEW k \in Confirmations, NEW p \in Policies, AddConfirmation(w, k, p)
      PROVE  IInv'
  <2>1. PICK e : e = Confirmed(k, p)
    OBVIOUS
  <2>2. e \in Events /\ e.by = None /\ e.type = "Confirmed" /\ e.policy = p /\ e.conf = k
    BY <2>1 DEF Confirmed, Events
  <2>3. Restorable(mem[w], e)
    BY <1>4, <2>2 DEF AddConfirmation, Restorable
  <2> QED  BY <1>1, <1>4, <2>1, <2>2, <2>3 DEF AddConfirmation
<1> QED  BY <1>2, <1>3, <1>4

\* An admission that is persisted would be accepted by _restore_journal.
LEMMA AdmitOK ==
  ASSUME IInv, NEW w \in Writers, NEW a \in Admissions, NEW p \in Policies,
         NEW k \in Confirmations \cup {None}, NEW now \in Times,
         NEW reducing \in BOOLEAN, NEW risk \in BOOLEAN,
         Admit(w, a, p, k, reducing, now, risk), UNCHANGED <<ops, accepted, worker>>
  PROVE  IInv'
<1>1. PICK m \in Memories : m = mem[w]
  BY DEF IInv, Remembered
<1>2. PICK e : e = Verdict(m, a, p, k, reducing, now, risk)
  OBVIOUS
<1>3. PICK ok \in BOOLEAN :
        ok = (/\ risk /\ InScope(m, p, reducing, now)
              /\ \/ p \in Autonomous
                 \/ k # None /\ ConfirmationFits(m, k, p, now))
  OBVIOUS
<1>4. e = [type |-> "Recorded", by |-> None, adm |-> a, policy |-> p,
           conf |-> IF ok /\ p \notin Autonomous THEN k ELSE None,
           reducing |-> ok /\ reducing, epoch |-> m.epoch,
           at |-> IF ok THEN now ELSE 0,
           outcome |-> IF ok THEN "ADMITTED" ELSE "REJECTED"]
  BY <1>2, <1>3 DEF Verdict
<1>5. /\ e.type = "Recorded" /\ e.by = None /\ e.adm = a /\ e.policy = p
      /\ e.conf = IF ok /\ p \notin Autonomous THEN k ELSE None
      /\ e.reducing = (ok /\ reducing) /\ e.epoch = m.epoch
      /\ e.at = IF ok THEN now ELSE 0
      /\ e.outcome = IF ok THEN "ADMITTED" ELSE "REJECTED"
  BY <1>4
<1>6. e \in Events
  <2>1. PICK kk \in Confirmations \cup {None} :
          kk = IF ok /\ p \notin Autonomous THEN k ELSE None
    OBVIOUS
  <2>2. PICK rr \in BOOLEAN : rr = (ok /\ reducing)
    OBVIOUS
  <2>3. PICK tt \in Times : tt = IF ok THEN now ELSE 0
    BY Constants
  <2>4. PICK oo \in {"ADMITTED", "REJECTED"} : oo = IF ok THEN "ADMITTED" ELSE "REJECTED"
    OBVIOUS
  <2>5. m.epoch \in Nat
    BY DEF Memories
  <2>6. e = [type |-> "Recorded", by |-> None, adm |-> a, policy |-> p, conf |-> kk,
             reducing |-> rr, epoch |-> m.epoch, at |-> tt, outcome |-> oo]
    BY <1>4, <2>1, <2>2, <2>3, <2>4
  <2>7. e \in Verdicts
    BY <2>5, <2>6 DEF Verdicts
  <2> QED  BY <2>7 DEF Events
<1>7. m.adms[a] = None /\ p \in m.policies /\ Persist(w, e)
  BY <1>1, <1>2 DEF Admit
<1>8. Restorable(m, e)
  <2>1. e.outcome = "ADMITTED" => ok
    BY <1>5
  <2>2. ok => /\ e.reducing = reducing /\ e.at = now /\ InScope(m, p, reducing, now)
              /\ p \in Autonomous \/ (k # None /\ ConfirmationFits(m, k, p, now))
    BY <1>3, <1>5
  <2>3. ok => (p \in Autonomous \/ e.conf # None)
    BY <1>5, <2>2
  <2>4. e.conf # None => ok /\ p \notin Autonomous /\ e.conf = k
    BY <1>5
  <2> QED  BY <1>5, <1>7, <2>1, <2>2, <2>3, <2>4 DEF Restorable
<1>9. task' = Overtaken(task) /\ sent' = sent /\ book' \in Admissions \cup {None}
  BY DEF Admit, IInv, Barriers
<1>10. e.type # "Revoked"
  BY <1>5
<1> QED  BY <1>1, <1>5, <1>6, <1>7, <1>8, <1>9, <1>10, PersistOK

\* Steps that leave the journal and what concerns the commands alone.
LEMMA JournalStays ==
  ASSUME IInv, UNCHANGED <<log, ops, accepted, worker>>, Remembered', Barriers'
  PROVE  IInv'
<1>1. Sound(log')
  BY DEF IInv
<1>2. Queued' /\ OutcomesReplay' /\ EffectsReported'
  <2>1. Queued'
    BY DEF IInv, Queued, Accepted
  <2>2. OutcomesReplay'
    BY DEF IInv, OutcomesReplay
  <2>3. EffectsReported'
    BY DEF IInv, EffectsReported, Where
  <2> QED  BY <2>1, <2>2, <2>3
<1>3. Working'
  BY DEF IInv, Working, Busy, Current, Writing
<1> QED  BY <1>1, <1>2, <1>3 DEF IInv

LEMMA ReloadOK ==
  ASSUME IInv, NEW w \in Writers, Reload(w), UNCHANGED <<ops, accepted, worker>>
  PROVE  IInv'
<1>1. mem' = [mem EXCEPT ![w] = Replay(log)] /\ task' = [task EXCEPT ![w] = Idle]
      /\ UNCHANGED <<log, book, readable, sent>>
  BY DEF Reload
<1>2. mem \in [Writers -> Memories]
  BY DEF IInv, Remembered
<1>3. ASSUME NEW v \in Writers
      PROVE  /\ mem'[v].ver \in 0 .. Len(log)
             /\ mem'[v] = Replay(SubSeq(log, 1, mem'[v].ver))
  <2>1. CASE v = w
    <3>1. PICK m : m = mem'[v]
      OBVIOUS
    <3>2. m = Replay(log) /\ m.ver = Len(log)
      BY <1>1, <1>2, <2>1, <3>1, InvFacts
    <3>3. m = Replay(SubSeq(log, 1, m.ver))
      BY <3>2, InvFacts
    <3>4. m.ver \in 0 .. Len(log)
      BY <3>2, InvFacts
    <3> QED  BY <3>1, <3>3, <3>4
  <2>2. CASE v # w
    <3>1. mem'[v] = mem[v]
      BY <1>1, <1>2, <2>2
    <3> QED  BY <3>1 DEF IInv, Remembered
  <2> QED  BY <2>1, <2>2
<1>4. Remembered'
  BY <1>1, <1>2, <1>3, InvFacts DEF Remembered
<1>5. Barriers'
  <2>1. Idle \in [adm : Admissions \cup {None}, now : Times, fresh : BOOLEAN]
        /\ Idle.fresh = FALSE
    BY Constants DEF Idle
  <2>2. ASSUME NEW v \in Writers, task'[v].fresh PROVE Cut(task'[v])
    <3>1. task'[v] = task[v]
      BY <1>1, <2>1, <2>2 DEF IInv, Barriers
    <3> QED  BY <2>2, <3>1 DEF IInv, Barriers
  <2> QED  BY <1>1, <2>1, <2>2 DEF IInv, Barriers, Cut
<1> QED  BY <1>1, <1>4, <1>5, JournalStays

LEMMA BarrierCheckOK ==
  ASSUME IInv, NEW w \in Writers, NEW a \in Admissions, NEW now \in Times,
         BarrierCheck(w, a, now), UNCHANGED <<ops, accepted, worker>>
  PROVE  IInv'
<1>1. PICK t : t = [adm |-> a, now |-> now, fresh |-> TRUE]
  OBVIOUS
<1>2. task' = [task EXCEPT ![w] = t] /\ UNCHANGED <<log, mem, book, readable, sent>>
  BY <1>1 DEF BarrierCheck
<1>3. mem[w].adms[a] # None /\ DispatchAllowed(mem[w], a, now) /\ Durable(mem[w])
  BY DEF BarrierCheck, DispatchAllowed
<1>4. mem[w] = Replay(log)
  BY <1>3, DurableIsReplay
<1>5. Cut(t)
  <2>1. t.adm = a /\ t.now = now
    BY <1>1
  <2> QED  BY <1>3, <1>4, <2>1 DEF Cut, DispatchAllowed
<1>6. Barriers'
  <2>1. t \in [adm : Admissions \cup {None}, now : Times, fresh : BOOLEAN]
    BY <1>1
  <2>2. ASSUME NEW v \in Writers, task'[v].fresh PROVE Cut(task'[v])
    <3>1. task'[v] = t \/ task'[v] = task[v]
      BY <1>2 DEF IInv, Barriers
    <3> QED  BY <1>5, <2>2, <3>1 DEF IInv, Barriers
  <2> QED  BY <1>2, <2>1, <2>2 DEF IInv, Barriers, Cut
<1>7. Remembered'
  BY <1>2 DEF IInv, Remembered
<1> QED  BY <1>2, <1>6, <1>7, JournalStays

LEMMA BarrierEndOK ==
  ASSUME IInv, NEW w \in Writers, BarrierBlocked(w) \/ BarrierCommit(w),
         UNCHANGED <<ops, accepted, worker>>
  PROVE  IInv'
<1>1. task' = [Overtaken(task) EXCEPT ![w] = Idle] /\ UNCHANGED <<log, mem, book>>
  BY DEF BarrierBlocked, BarrierCommit
<1>2. /\ task' \in [Writers -> [adm : Admissions \cup {None}, now : Times, fresh : BOOLEAN]]
      /\ \A v \in Writers : task'[v].fresh = FALSE
  BY <1>1, Constants DEF IInv, Barriers, Overtaken, Idle
<1>3. sent' \subseteq Admissions
  <2>1. CASE BarrierBlocked(w)
    BY <2>1 DEF BarrierBlocked, IInv, Barriers
  <2>2. CASE BarrierCommit(w)
    <3>1. task[w].fresh /\ sent' = sent \cup {task[w].adm}
      BY <2>2 DEF BarrierCommit
    <3>2. task[w].adm \in Admissions
      BY <3>1 DEF IInv, Barriers, Cut
    <3> QED  BY <3>1, <3>2 DEF IInv, Barriers
  <2> QED  BY <2>1, <2>2
<1>4. Barriers'
  BY <1>1, <1>2, <1>3 DEF IInv, Barriers
<1>5. Remembered'
  BY <1>1 DEF IInv, Remembered
<1> QED  BY <1>1, <1>4, <1>5, JournalStays

LEMMA ANextOK ==
  ASSUME IInv, ANext, UNCHANGED <<ops, accepted, worker>>
  PROVE  IInv'
<1>1. CASE BookMoves
  <2>1. UNCHANGED <<log, mem, sent>> /\ task' = Overtaken(task) /\ book' = None
    BY <1>1 DEF BookMoves
  <2>2. Barriers'
    BY <2>1, OvertakenOK DEF IInv, Barriers
  <2>3. Remembered'
    BY <2>1 DEF IInv, Remembered
  <2> QED  BY <2>1, <2>2, <2>3, JournalStays
<1>2. ASSUME NEW w \in Writers, Serve(w) PROVE IInv'
  BY <1>2, MutatesOK, AdmitOK, ReloadOK, BarrierCheckOK, BarrierEndOK DEF Serve
<1> QED  BY <1>1, <1>2 DEF ANext

-----------------------------------------------------------------------------
(* The operator's commands.                                                *)

\* Acceptance and every update of an operation are events of the host.
LEMMA HostOK ==
  ASSUME IInv, HostCommits \/ UNCHANGED avars
  PROVE  Barriers' /\ Remembered' /\ log' = log
<1>1. UNCHANGED <<log, mem, book, readable, sent>> /\ (task' = Overtaken(task) \/ task' = task)
  BY DEF HostCommits, avars
<1>2. Remembered'
  BY <1>1 DEF IInv, Remembered
<1>3. CASE task' = Overtaken(task)
  BY <1>1, <1>2, <1>3, OvertakenOK DEF IInv, Barriers
<1>4. CASE task' = task
  BY <1>1, <1>2, <1>4 DEF IInv, Barriers, Cut
<1> QED  BY <1>1, <1>3, <1>4

\* A command is bound to the journal of its acceptance.
LEMMA PayloadBound ==
  ASSUME IInv, NEW o \in Payloads
  PROVE  /\ o \in Operations /\ o.phase = "QUEUED" /\ Bound(log, o)
<1>1. PICK d \in Memories : d = Replay(log)
  BY InvFacts
<1>2. PICK live \in SUBSET Policies : live = {p \in Policies : d.revoked[p] = Never}
  OBVIOUS
<1>3. Len(log) \in Nat /\ \A p \in Policies : p \in d.policies <=> RegisteredAt(log, p) # {}
  BY <1>1, InvFacts DEF IInv, Sound
<1>4. ASSUME NEW action \in Actions, NEW p \in Policies \cup {None}, NEW of \in By,
             NEW targets \in SUBSET Policies, NEW at \in Times,
             o = Command(action, p, of, targets, at)
      PROVE  /\ o \in Operations /\ o.phase = "QUEUED" /\ o.action = action
             /\ o.policy = p /\ o.of = of /\ o.targets = targets
             /\ o.ver = Len(log) /\ o.refs = {}
  BY <1>3, <1>4 DEF Command, Operations, Phases
<1>5. /\ o \in {Command("SET", p, None, {}, 0) : p \in live}
           \cup {Command("RESTORE", p, d.block, {}, 0) :
                     p \in {q \in live \cap d.policies : d.block # None}}
           \cup {Command("BLOCK", None, None, {}, 0)}
           \cup {Command("REVOKE", None, None, live \cap d.policies, at) : at \in Times}
  BY <1>1, <1>2 DEF Payloads
<1>6. None \in By /\ d.block \in By /\ 0 \in Times /\ d.policies \in SUBSET Policies
  BY Constants DEF By, Memories
<1>7. CASE o \in {Command("SET", p, None, {}, 0) : p \in live}
  <2>1. PICK p \in live : o = Command("SET", p, None, {}, 0)
    BY <1>7
  <2>2. /\ o \in Operations /\ o.phase = "QUEUED" /\ o.action = "SET" /\ o.policy = p
        /\ o.targets = {} /\ o.ver = Len(log) /\ o.refs = {}
    BY <1>2, <1>4, <1>6, <2>1 DEF Actions
  <2> QED  BY <1>2, <1>3, <2>1, <2>2 DEF Bound, Actions
<1>8. CASE o \in {Command("RESTORE", p, d.block, {}, 0) :
                    p \in {q \in live \cap d.policies : d.block # None}}
  <2>1. PICK p \in {q \in live \cap d.policies : d.block # None} :
          o = Command("RESTORE", p, d.block, {}, 0)
    BY <1>8
  <2>2. /\ o \in Operations /\ o.phase = "QUEUED" /\ o.action = "RESTORE" /\ o.policy = p
        /\ o.of = d.block /\ o.targets = {} /\ o.ver = Len(log) /\ o.refs = {}
    BY <1>2, <1>4, <1>6, <2>1 DEF Actions
  <2> QED  BY <1>2, <1>3, <2>1, <2>2 DEF Bound, Actions
<1>9. CASE o = Command("BLOCK", None, None, {}, 0)
  <2>2. /\ o \in Operations /\ o.phase = "QUEUED" /\ o.action = "BLOCK"
        /\ o.targets = {} /\ o.ver = Len(log) /\ o.refs = {}
    BY <1>4, <1>6, <1>9 DEF Actions
  <2> QED  BY <1>3, <2>2 DEF Bound, Actions
<1>10. CASE o \in {Command("REVOKE", None, None, live \cap d.policies, at) : at \in Times}
  <2>1. PICK at \in Times : o = Command("REVOKE", None, None, live \cap d.policies, at)
    BY <1>10
  <2>2. /\ o \in Operations /\ o.phase = "QUEUED" /\ o.action = "REVOKE"
        /\ o.targets = live \cap d.policies /\ o.ver = Len(log) /\ o.refs = {}
    <3>1. live \cap d.policies \in SUBSET Policies
      BY <1>2
    <3> QED  BY <1>4, <1>6, <2>1, <3>1 DEF Actions
  <2> QED  BY <1>2, <1>3, <2>2 DEF Bound, Actions
<1> QED  BY <1>5, <1>7, <1>8, <1>9, <1>10

LEMMA SubmitOK ==
  ASSUME IInv, Submit
  PROVE  IInv'
<1>1. PICK o \in Payloads : ops' = [ops EXCEPT ![accepted + 1] = o]
  BY DEF Submit
<1>2. o \in Operations /\ o.phase = "QUEUED" /\ Bound(log, o)
  BY PayloadBound
<1>3. PICK n : n = accepted + 1
  OBVIOUS
<1>4. /\ accepted \in Nat /\ n \in Commands /\ accepted' = n /\ n \in 0 .. MaxCommands
      /\ \A c \in Commands : c <= n <=> c <= accepted \/ c = n
      /\ ~Accepted(n) /\ n > accepted
  <2>1. accepted \in 0 .. MaxCommands /\ accepted < MaxCommands /\ MaxCommands \in Nat
        /\ accepted' = accepted + 1
    BY AuthorityConstants DEF IInv, Queued, Submit
  <2>2. n \in Commands /\ ~(n <= accepted)
    BY <1>3, <2>1 DEF Commands
  <2> QED  BY <1>3, <2>1, <2>2 DEF IInv, Queued, Commands
<1>5. /\ ops' \in [Commands -> Operations] /\ ops'[n] = o
      /\ \A c \in Commands : c # n => ops'[c] = ops[c]
  BY <1>1, <1>2, <1>3, <1>4 DEF IInv, Queued
<1>6. log' = log /\ Barriers' /\ Remembered'
  BY HostOK DEF Submit
<1>7. Queued'
  <2>1. \A c \in Commands : c <= accepted' <=> Accepted(c)'
    BY <1>2, <1>4, <1>5 DEF Accepted, IInv, Queued
  <2>2. \A c \in Commands :
          IF Accepted(c)' THEN Bound(log, ops'[c]) ELSE ops'[c] = Unborn
    BY <1>2, <1>5 DEF Accepted, IInv, Queued
  <2>3. ASSUME NEW i \in DOMAIN log, log[i].by # None
        PROVE  ops'[log[i].by].phase # "NONE" /\ Effect(ops'[log[i].by], i, log[i])
    <3>1. log[i].by \in Commands /\ Accepted(log[i].by) /\ Effect(ops[log[i].by], i, log[i])
      BY <2>3, Authors
    <3>2. log[i].by # n
      BY <1>4, <3>1
    <3> QED  BY <1>5, <3>1, <3>2 DEF Accepted
  <2> QED  BY <1>4, <1>5, <1>6, <2>1, <2>2, <2>3 DEF Queued, Accepted
<1>8. OutcomesReplay'
  BY <1>2, <1>5, <1>6 DEF OutcomesReplay, IInv
<1>9. EffectsReported'
  BY <1>2, <1>5, <1>6 DEF EffectsReported, Where, IInv
<1>10. Working'
  <2>1. worker' = [worker EXCEPT !.raced = Busy]
    BY DEF Submit
  <2>2. /\ worker'.queue = worker.queue /\ worker'.step = worker.step
        /\ worker'.todo = worker.todo /\ worker'.ver = worker.ver
        /\ worker'.raced \in BOOLEAN /\ DOMAIN worker' = DOMAIN worker
    BY <2>1 DEF IInv, Working, Busy
  <2>3. worker.queue \subseteq {c \in 1 .. accepted : ops[c].phase \notin Terminal}
    BY DEF IInv, Working
  <2>4. worker'.queue \subseteq {c \in 1 .. accepted' : ops'[c].phase \notin Terminal}
    <3> SUFFICES ASSUME NEW c \in worker.queue
                 PROVE  c \in 1 .. n /\ ops'[c].phase \notin Terminal
      BY <1>4, <2>2
    <3>1. c \in 1 .. accepted /\ ops[c].phase \notin Terminal /\ c \in Commands /\ c # n
      BY <1>3, <1>4, <2>3, AuthorityConstants DEF Commands, IInv, Queued
    <3> QED  BY <1>3, <1>4, <1>5, <3>1
  <2>5. Busy' = Busy /\ Current' = Current
    BY <2>2 DEF Busy, Current
  <2>6. Busy => ops'[Current] = ops[Current]
    <3>1. ASSUME Busy PROVE Current \in Commands /\ Current # n
      BY <1>4, <3>1, CurrentIn
    <3> QED  BY <1>5, <3>1
  <2>7. Busy /\ worker.step = "write" /\ worker.ver = Len(log) =>
          Writing(log, Current, ops[Current])'
    <3>1. SUFFICES ASSUME Busy, worker.step = "write", worker.ver = Len(log)
                   PROVE  Writing(log, Current, ops[Current])'
      OBVIOUS
    <3>2. Writing(log, Current, ops[Current])
      BY <3>1 DEF IInv, Working
    <3> QED  BY <1>6, <2>2, <2>5, <2>6, <3>1, <3>2 DEF Writing
  <2>8. Busy /\ worker.step = "finish" => Settled(log, Current, ops'[Current])
    BY <2>6 DEF IInv, Working
  <2> QED  BY <1>6, <2>2, <2>4, <2>5, <2>7, <2>8 DEF IInv, Working
<1> QED  BY <1>6, <1>7, <1>8, <1>9, <1>10 DEF IInv

\* What a command asks for, without its phase and references.
Asks(q, o) ==
  /\ q.action = o.action /\ q.policy = o.policy /\ q.of = o.of
  /\ q.targets = o.targets /\ q.ver = o.ver /\ q.at = o.at

\* Recording the phase of the current command.
LEMMA UpdateOK ==
  ASSUME IInv, Busy, NEW c, c = Current, NEW ph \in {"RUNNING", "UNKNOWN", "SUCCEEDED", "FAILED"},
         NEW rf \in SUBSET (0 .. Len(log)), Update(ph, rf),
         ph = "SUCCEEDED" =>
           Settled(log, c, ops[c]) /\ rf = Evidence(log, c, ops[c]),
         ph = "FAILED" => \A i \in DOMAIN log : log[i].by = c => i \in rf
  PROVE  /\ Barriers' /\ Remembered' /\ Queued' /\ OutcomesReplay' /\ EffectsReported'
         /\ log' = log /\ accepted' = accepted
         /\ ops'[c].phase = ph /\ Asks(ops'[c], ops[c])
         /\ \A b \in Commands : b # c => ops'[b] = ops[b]
<1>1. c \in Commands /\ Accepted(c) /\ Bound(log, ops[c])
  BY CurrentIn
<1>2. PICK o \in Operations : o = ops[c]
  BY <1>1 DEF IInv, Queued
<1>3. PICK q : q = [o EXCEPT !.phase = ph, !.refs = rf]
  OBVIOUS
<1>4. rf \in SUBSET Nat /\ ph \in Phases
  BY InvFacts DEF Phases, Terminal
<1>5. q \in Operations /\ q.phase = ph /\ q.refs = rf /\ Asks(q, o)
  BY <1>3, <1>4 DEF Operations, Asks
<1>6. ops' = [ops EXCEPT ![c] = q]
  BY <1>1, <1>2, <1>3 DEF Update, IInv, Queued
<1>7. /\ ops' \in [Commands -> Operations] /\ ops'[c] = q
      /\ \A b \in Commands : b # c => ops'[b] = ops[b]
  BY <1>1, <1>5, <1>6 DEF IInv, Queued
<1>8. log' = log /\ accepted' = accepted /\ Barriers' /\ Remembered'
  BY HostOK DEF Update
<1>9. Bound(log, q)
  BY <1>1, <1>2, <1>5 DEF Bound, Asks
<1>10. Queued'
  <2>1. \A b \in Commands : ops'[b].phase # "NONE" <=> Accepted(b)
    BY <1>1, <1>5, <1>7 DEF Accepted
  <2>2. \A b \in Commands :
          IF Accepted(b) THEN Bound(log, ops'[b]) ELSE ops'[b] = Unborn
    BY <1>1, <1>7, <1>9 DEF IInv, Queued
  <2>3. ASSUME NEW i \in DOMAIN log, log[i].by # None
        PROVE  ops'[log[i].by].phase # "NONE" /\ Effect(ops'[log[i].by], i, log[i])
    <3>1. log[i].by \in Commands /\ Accepted(log[i].by) /\ Effect(ops[log[i].by], i, log[i])
      BY <2>3, Authors
    <3>2. Effect(q, i, log[i]) <=> Effect(o, i, log[i])
      BY <1>5, SameCommand DEF Asks
    <3> QED  BY <1>2, <1>7, <2>1, <3>1, <3>2
  <2> QED  BY <1>7, <1>8, <2>1, <2>2, <2>3 DEF IInv, Queued, Accepted
<1>11. OutcomesReplay'
  <2>1. ASSUME NEW b \in Commands, ops'[b].phase = "SUCCEEDED"
        PROVE  Settled(log, b, ops'[b]) /\ ops'[b].refs = Evidence(log, b, ops'[b])
    <3>1. CASE b = c
      <4>1. (Settled(log, c, q) <=> Settled(log, c, o)) /\ Evidence(log, c, q) = Evidence(log, c, o)
        BY <1>5, SameCommand DEF Asks
      <4>2. Settled(log, c, o) /\ rf = Evidence(log, c, o)
        BY <1>2, <1>5, <1>7, <2>1, <3>1
      <4> QED  BY <1>5, <1>7, <3>1, <4>1, <4>2
    <3>2. CASE b # c
      BY <1>7, <2>1, <3>2 DEF IInv, OutcomesReplay, Settled
    <3> QED  BY <3>1, <3>2
  <2> QED  BY <1>8, <2>1 DEF OutcomesReplay, Settled
<1>12. EffectsReported'
  <2>1. ASSUME NEW b \in Commands, ops'[b].phase = "FAILED", NEW i \in DOMAIN log, log[i].by = b
        PROVE  i \in ops'[b].refs
    <3>1. CASE b = c
      BY <1>5, <1>7, <2>1, <3>1
    <3>2. CASE b # c
      BY <1>7, <2>1, <3>2 DEF IInv, EffectsReported, Where
    <3> QED  BY <3>1, <3>2
  <2> QED  BY <1>8, <2>1 DEF EffectsReported, Where
<1> QED  BY <1>2, <1>5, <1>7, <1>8, <1>10, <1>11, <1>12

\* The pass goes on to its next operation, or ends.
LEMMA NextOperationOK ==
  ASSUME IInv, Busy, NextOperation, log' = log, accepted' = accepted,
         \A b \in Commands : b # Current => ops'[b] = ops[b]
  PROVE  Working'
<1>1. /\ worker'.queue = worker.queue \ {Current} /\ worker'.step = "take"
      /\ worker'.ver = 0 /\ worker'.raced = FALSE
      /\ DOMAIN worker' = {"queue", "step", "todo", "ver", "raced"}
  BY DEF NextOperation, Resting
<1>2. worker.queue \subseteq {b \in 1 .. accepted : ops[b].phase \notin Terminal}
      /\ worker.queue \subseteq Commands
  BY AuthorityConstants DEF IInv, Working, Queued, Commands
<1>3. worker'.queue \subseteq {b \in 1 .. accepted : ops'[b].phase \notin Terminal}
  BY <1>1, <1>2
<1>4. 0 \in 0 .. Len(log')
  BY InvFacts
<1> QED  BY <1>1, <1>3, <1>4 DEF Working

LEMMA RestOK ==
  ASSUME IInv, UNCHANGED <<avars, ops, accepted>>
  PROVE  Sound(log') /\ Barriers' /\ Remembered' /\ Queued' /\ OutcomesReplay' /\ EffectsReported'
<1>1. log' = log /\ Barriers' /\ Remembered'
  BY HostOK
<1>2. Queued'
  BY <1>1 DEF IInv, Queued, Accepted
<1>3. OutcomesReplay'
  BY <1>1 DEF IInv, OutcomesReplay
<1>4. EffectsReported'
  BY <1>1 DEF IInv, EffectsReported, Where
<1> QED  BY <1>1, <1>2, <1>3, <1>4 DEF IInv

LEMMA PassStartOK ==
  ASSUME IInv, PassStart
  PROVE  IInv'
<1>1. UNCHANGED <<avars, ops, accepted>>
  BY DEF PassStart
<1>2. /\ worker'.queue = {c \in 1 .. accepted : ops[c].phase \notin Terminal}
      /\ worker'.step = "take" /\ worker'.ver = 0 /\ worker'.raced = FALSE
      /\ DOMAIN worker' = {"queue", "step", "todo", "ver", "raced"}
  BY DEF PassStart, Resting
<1>3. log' = log /\ accepted' = accepted /\ ops' = ops /\ 0 \in 0 .. Len(log)
  BY <1>1, InvFacts DEF avars
<1>4. Working'
  BY <1>2, <1>3 DEF Working
<1> QED  BY <1>1, <1>4, RestOK DEF IInv

\* A pass that is over, by a crash or by an error.
LEMMA PassEndOK ==
  ASSUME IInv, Crash \/ Abort
  PROVE  IInv'
<1>1. UNCHANGED <<avars, ops, accepted>>
  BY DEF Crash, Abort
<1>2. /\ worker'.queue = {} /\ worker'.step = "take" /\ worker'.ver = 0
      /\ worker'.raced = FALSE
      /\ DOMAIN worker' = {"queue", "step", "todo", "ver", "raced"}
  BY DEF Crash, Abort, Resting
<1>3. log' = log /\ accepted' = accepted /\ ops' = ops /\ 0 \in 0 .. Len(log)
  BY <1>1, InvFacts DEF avars
<1>4. Working'
  BY <1>2, <1>3 DEF Working
<1> QED  BY <1>1, <1>4, RestOK DEF IInv

\* A write or an update that is refused.
LEMMA RefusedOK ==
  ASSUME IInv, WriteRefused \/ UpdateRefused
  PROVE  IInv'
<1>1. UNCHANGED <<avars, ops, accepted>> /\ log' = log
  BY DEF WriteRefused, UpdateRefused, avars
<1>2. /\ worker'.queue = worker.queue /\ worker'.step \in {"fail", "fault"}
      /\ worker'.ver = worker.ver /\ worker'.raced = FALSE
      /\ DOMAIN worker' = {"queue", "step", "todo", "ver", "raced"}
  BY DEF WriteRefused, UpdateRefused, IInv, Working
<1>3. Working'
  BY <1>1, <1>2 DEF IInv, Working
<1> QED  BY <1>1, <1>3, RestOK DEF IInv

\* Evidence and observed effects are events of the journal.
LEMMA EvidenceIn ==
  ASSUME NEW s \in Seq(Events), NEW c, NEW o, Bound(s, o)
  PROVE  Evidence(s, c, o) \subseteq 0 .. Len(s) /\ Observed(s, c, o) \subseteq 0 .. Len(s)
<1>1. Len(s) \in Nat /\ o.ver \in 0 .. Len(s) /\ o.action \in Actions
  BY LenProperties DEF Bound
<1>2. ASSUME NEW x
      PROVE  /\ RegisteredAt(s, x) \subseteq 0 .. Len(s) /\ RevokedAt(s, x) \subseteq 0 .. Len(s)
             /\ RestoredAt(s, x) \subseteq 0 .. Len(s) /\ BlockedAt(s, x) \subseteq 0 .. Len(s)
  BY <1>1, ViewsIn
<1>3. PreexistingBlock(s, o.ver) \subseteq 0 .. Len(s)
  <2>1. PICK u : u = SubSeq(s, 1, o.ver)
    OBVIOUS
  <2>2. \A i \in 1 .. o.ver : s[i] \in Events
    BY <1>1, ElementOfSeq
  <2>3. u \in Seq(Events) /\ Len(u) = o.ver
    BY <1>1, <2>1, <2>2, SubSeqProperties
  <2>4. \A b : BlockedAt(u, b) \subseteq 0 .. Len(s)
    BY <1>1, <2>3, ViewsIn
  <2> QED  BY <2>1, <2>4 DEF PreexistingBlock
<1>4. BlockEvidence(s, c, o) \subseteq 0 .. Len(s)
  BY <1>2, <1>3 DEF BlockEvidence
<1>5. UNION {RevokedAt(s, p) : p \in o.targets} \subseteq 0 .. Len(s)
  BY <1>2
<1>6. Evidence(s, c, o) \subseteq 0 .. Len(s)
  BY <1>1, <1>2, <1>4, <1>5 DEF Evidence, Actions
<1>7. Observed(s, c, o) \subseteq 0 .. Len(s)
  BY <1>1, <1>2, <1>5 DEF Observed, Actions
<1> QED  BY <1>6, <1>7

LEMMA BeginOK ==
  ASSUME IInv, Begin
  PROVE  IInv'
<1>1. PICK c, o : c = Current /\ o = ops[Current]
  OBVIOUS
<1>2. Busy /\ c \in Commands /\ c \in worker.queue /\ ops[c].phase \notin Terminal
  BY <1>1, CurrentIn DEF Begin
<1>3. PICK d : d = Decision(c, o)
  OBVIOUS
<1>4. /\ d.step \in {"write", "finish", "fail", "fault"}
      /\ d.step = "finish" => Settled(log, c, o)
      /\ d.step = "write" => /\ ~Resolved(log, c, o) /\ ~RevokedElsewhere(log, c, o)
                             /\ Executable(log, c, o) /\ d.todo = Missing(log, c, o)
  BY <1>3 DEF Decision, Settled
<1>5. /\ worker'.queue = worker.queue /\ worker'.step = d.step /\ worker'.todo = d.todo
      /\ worker'.ver = Len(log) /\ worker'.raced = FALSE
      /\ DOMAIN worker' = {"queue", "step", "todo", "ver", "raced"}
  BY <1>1, <1>3 DEF Begin, IInv, Working
<1>6. /\ Sound(log') /\ Barriers' /\ Remembered' /\ Queued' /\ OutcomesReplay' /\ EffectsReported'
      /\ log' = log /\ accepted' = accepted
      /\ ops'[c].phase \notin Terminal /\ Asks(ops'[c], o)
      /\ \A b \in Commands : b # c => ops'[b] = ops[b]
  <2>1. CASE Update("RUNNING", {})
    <3>1. {} \in SUBSET (0 .. Len(log))
      OBVIOUS
    <3>2. /\ Barriers' /\ Remembered' /\ Queued' /\ OutcomesReplay' /\ EffectsReported'
          /\ log' = log /\ accepted' = accepted
          /\ ops'[c].phase = "RUNNING" /\ Asks(ops'[c], ops[c])
          /\ \A b \in Commands : b # c => ops'[b] = ops[b]
      BY <1>1, <1>2, <2>1, <3>1, UpdateOK
    <3> QED  BY <1>1, <3>2 DEF Terminal, IInv
  <2>2. CASE UNCHANGED <<avars, ops, accepted>>
    BY <1>1, <1>2, <2>2, RestOK DEF Asks, avars
  <2> QED  BY <2>1, <2>2 DEF Begin
<1>7. worker'.queue \subseteq {b \in 1 .. accepted : ops'[b].phase \notin Terminal}
  <2>1. worker.queue \subseteq {b \in 1 .. accepted : ops[b].phase \notin Terminal}
        /\ worker.queue \subseteq Commands
    BY AuthorityConstants DEF IInv, Working, Queued, Commands
  <2> QED  BY <1>5, <1>6, <2>1
<1>8. Busy' /\ Current' = c
  BY <1>1, <1>2, <1>5 DEF Busy, Current
<1>9. PICK q : q = ops'[c]
  OBVIOUS
<1>10. /\ Settled(log, c, q) <=> Settled(log, c, o)
       /\ Resolved(log, c, q) <=> Resolved(log, c, o)
       /\ RevokedElsewhere(log, c, q) <=> RevokedElsewhere(log, c, o)
       /\ Executable(log, c, q) <=> Executable(log, c, o)
       /\ Missing(log, c, q) = Missing(log, c, o)
  <2>1. /\ q.action = o.action /\ q.policy = o.policy /\ q.of = o.of
        /\ q.targets = o.targets /\ q.ver = o.ver /\ q.at = o.at
    BY <1>6, <1>9 DEF Asks
  <2>2. Resolved(log, c, q) <=> Resolved(log, c, o)
    BY <2>1, SameCommand
  <2>3. RevokedElsewhere(log, c, q) <=> RevokedElsewhere(log, c, o)
    BY <2>1, SameCommand
  <2>4. Executable(log, c, q) <=> Executable(log, c, o)
    BY <2>1, SameCommand
  <2>5. Missing(log, c, q) = Missing(log, c, o)
    BY <2>1, SameCommand
  <2> QED  BY <2>2, <2>3, <2>4, <2>5 DEF Settled
<1>11. worker'.step = "write" => Writing(log, Current, ops[Current])'
  BY <1>4, <1>5, <1>6, <1>8, <1>9, <1>10 DEF Writing
<1>12. worker'.step = "finish" => Settled(log', c, q)
  BY <1>4, <1>5, <1>6, <1>10
<1>13. Working'
  <2>1. Len(log) \in 0 .. Len(log)
    BY InvFacts
  <2> QED  BY <1>4, <1>5, <1>6, <1>7, <1>8, <1>9, <1>11, <1>12, <2>1 DEF Working
<1> QED  BY <1>6, <1>13 DEF IInv

LEMMA FinishOK ==
  ASSUME IInv, Finish
  PROVE  IInv'
<1>1. PICK c : c = Current
  OBVIOUS
<1>2. Busy /\ Settled(log, c, ops[c]) /\ Bound(log, ops[c])
  BY <1>1, CurrentIn DEF Finish, IInv, Working
<1>3. PICK rf : rf = Evidence(log, c, ops[c])
  OBVIOUS
<1>4. rf \in SUBSET (0 .. Len(log)) /\ Update("SUCCEEDED", rf)
  BY <1>1, <1>2, <1>3, EvidenceIn, InvFacts DEF Finish
<1>5. /\ Barriers' /\ Remembered' /\ Queued' /\ OutcomesReplay' /\ EffectsReported'
      /\ log' = log /\ accepted' = accepted
      /\ \A b \in Commands : b # c => ops'[b] = ops[b]
  BY <1>1, <1>2, <1>3, <1>4, UpdateOK
<1>6. Working'
  BY <1>1, <1>2, <1>5, NextOperationOK DEF Finish
<1> QED  BY <1>5, <1>6 DEF IInv

\* What a failed command reports is all it has written.
LEMMA FailOK ==
  ASSUME IInv, Fail
  PROVE  IInv'
<1>1. PICK c : c = Current
  OBVIOUS
<1>2. Busy /\ Bound(log, ops[c]) /\ c \in Commands /\ c # None
  BY <1>1, CurrentIn, Constants DEF Fail
<1>3. PICK rf : rf = Observed(log, c, ops[c])
  OBVIOUS
<1>4. rf \in SUBSET (0 .. Len(log)) /\ Update("FAILED", rf)
  BY <1>1, <1>2, <1>3, EvidenceIn, InvFacts DEF Fail
<1>5. ASSUME NEW i \in DOMAIN log, log[i].by = c PROVE i \in rf
  <2>1. Effect(ops[c], i, log[i])
    BY <1>2, <1>5, Authors
  <2> QED  BY <1>3, <1>5, <2>1 DEF Effect, Observed, RegisteredAt, RestoredAt, BlockedAt,
                                   RevokedAt, Where
<1>6. /\ Barriers' /\ Remembered' /\ Queued' /\ OutcomesReplay' /\ EffectsReported'
      /\ log' = log /\ accepted' = accepted
      /\ \A b \in Commands : b # c => ops'[b] = ops[b]
  BY <1>1, <1>2, <1>4, <1>5, UpdateOK
<1>7. Working'
  BY <1>1, <1>2, <1>6, NextOperationOK DEF Fail
<1> QED  BY <1>6, <1>7 DEF IInv

LEMMA FaultOK ==
  ASSUME IInv, Fault
  PROVE  IInv'
<1>1. PICK c : c = Current
  OBVIOUS
<1>2. Busy /\ Bound(log, ops[c]) /\ NextOperation
  BY <1>1, CurrentIn DEF Fault
<1>3. CASE UNCHANGED <<avars, ops, accepted>>
  <2>1. Working'
    BY <1>1, <1>2, <1>3, NextOperationOK DEF avars
  <2> QED  BY <1>3, <2>1, RestOK DEF IInv
<1>4. CASE Update("UNKNOWN", ops[c].refs)
  <2>1. ops[c].refs \in SUBSET (0 .. Len(log))
    BY <1>2 DEF Bound
  <2>2. /\ Barriers' /\ Remembered' /\ Queued' /\ OutcomesReplay' /\ EffectsReported'
        /\ log' = log /\ accepted' = accepted
        /\ \A b \in Commands : b # c => ops'[b] = ops[b]
    BY <1>1, <1>2, <1>4, <2>1, UpdateOK
  <2>3. Working'
    BY <1>1, <1>2, <2>2, NextOperationOK
  <2> QED  BY <2>2, <2>3 DEF IInv
<1> QED  BY <1>1, <1>3, <1>4 DEF Fault

-----------------------------------------------------------------------------
(* The worker writes.                                                      *)

\* The journal before and after the worker's event, and what there is left.
Progress(s, t, c, o, e) ==
  /\ e \in Events /\ e.by = c /\ Legal(s, e) /\ Effect(o, Len(s) + 1, e)
  /\ worker.todo = {e} => Settled(t, c, o)
  /\ worker.todo # {e} =>
       /\ ~Resolved(t, c, o) /\ ~RevokedElsewhere(t, c, o)
       /\ Executable(t, c, o) /\ worker.todo \ {e} = Missing(t, c, o)

\* Of a command that is not resolved and that nothing disturbed, every missing
\* event is one that _restore_journal would accept next, whatever happened
\* before the command was accepted.
LEMMA WriteProgress ==
  ASSUME IInv, NEW c \in Commands, NEW o \in Operations, Bound(log, o), Writing(log, c, o),
         \A i \in DOMAIN log : log[i].by = c => Effect(o, i, log[i]),
         NEW e \in worker.todo, NEW t, t = Append(log, e)
  PROVE  Progress(log, t, c, o, e)
<1>1. /\ Sound(log) /\ log \in Seq(Events) /\ Len(log) \in Nat /\ o.ver \in 0 .. Len(log)
      /\ o.action \in Actions /\ DOMAIN log = 1 .. Len(log)
  BY InvFacts DEF IInv, Bound
<1>2. /\ ~Resolved(log, c, o) /\ ~RevokedElsewhere(log, c, o) /\ Executable(log, c, o)
      /\ worker.todo = Missing(log, c, o) /\ Undisturbed(log, c, o)
  BY DEF Writing, Executable
<1>3. PICK d \in Memories : d = Replay(log)
  BY InvFacts
<1>4. CASE o.action = "SET"
  <2>1. e = Registered(o.policy, c) /\ o.policy \in Policies /\ o.targets = {}
        /\ worker.todo = {e} /\ Len(log) = o.ver
    BY <1>2, <1>4 DEF Missing, Bound, Undisturbed
  <2>2. e \in Events /\ e.type = "Registered" /\ e.policy = o.policy /\ e.by = c
    BY <2>1 DEF Registered, Events, By
  <2>3. RegisteredAt(log, o.policy) = {}
    BY <1>2, <1>4 DEF Resolved
  <2>4. Legal(log, e)
    BY <1>1, <2>1, <2>2, <2>3 DEF Legal, Restorable, Sound
  <2>5. Effect(o, Len(log) + 1, e)
    BY <1>1, <1>4, <2>1, <2>2 DEF Effect
  <2>6. Views(log, e, t)
    BY <1>1, <2>2, ViewsAppend
  <2>7. Settled(t, c, o)
    BY <1>4, <2>1, <2>2, <2>6 DEF Settled, Resolved, RevokedElsewhere, Views
  <2> QED  BY <2>1, <2>2, <2>4, <2>5, <2>7 DEF Progress
<1>5. CASE o.action = "RESTORE"
  <2>1. e = Restored(o.of, c) /\ o.of # None /\ o.targets = {} /\ worker.todo = {e}
        /\ Len(log) = o.ver /\ Replay(log).block = o.of /\ RegisteredAt(log, o.policy) # {}
    BY <1>2, <1>5 DEF Missing, Bound, Undisturbed, Executable
  <2>2. o.of \in Commands
    BY <2>1 DEF Operations, By
  <2>3. e \in Events /\ e.type = "Restored" /\ e.of = o.of /\ e.by = c
    BY <2>1, <2>2 DEF Restored, Events
  <2>4. Legal(log, e)
    BY <2>1, <2>3 DEF Legal, Restorable
  <2>5. Effect(o, Len(log) + 1, e)
    BY <1>1, <1>5, <2>1, <2>3 DEF Effect
  <2>6. Views(log, e, t)
    BY <1>1, <2>3, ViewsAppend
  <2>7. Settled(t, c, o)
    BY <1>5, <2>1, <2>3, <2>6 DEF Settled, Resolved, RevokedElsewhere, Views
  <2> QED  BY <2>1, <2>3, <2>4, <2>5, <2>7 DEF Progress
<1>6. CASE o.action = "BLOCK"
  <2>1. e = Blocked(c) /\ o.targets = {} /\ worker.todo = {e}
    BY <1>2, <1>6 DEF Missing, Bound
  <2>2. e \in Events /\ e.type = "Blocked" /\ e.by = c
    BY <2>1 DEF Blocked, Events
  <2>3. BlockedAt(log, c) = {} /\ PreexistingBlock(log, o.ver) = {}
    BY <1>2, <1>6 DEF Resolved, BlockEvidence
  <2>4. Len(log) = o.ver
    <3> SUFFICES ASSUME Len(log) # o.ver PROVE FALSE
      OBVIOUS
    <3>1. o.ver + 1 \in DOMAIN log /\ log[o.ver + 1].by = c
      BY <1>1, <1>2, <1>6 DEF Undisturbed
    <3>2. log[o.ver + 1].type = "Blocked"
      BY <1>6, <3>1 DEF Effect
    <3> QED  BY <2>3, <3>1, <3>2 DEF BlockedAt, Where
  <2>5. SubSeq(log, 1, o.ver) = log
    BY <2>4, InvFacts
  <2>6. Replay(log).block = None
    BY <1>1, <2>3, <2>5 DEF PreexistingBlock, Sound
  <2>7. Legal(log, e)
    BY <2>2, <2>6 DEF Legal, Restorable
  <2>8. Effect(o, Len(log) + 1, e)
    BY <1>1, <1>6, <2>2, <2>4 DEF Effect
  <2>9. Views(log, e, t)
    BY <1>1, <2>2, ViewsAppend
  <2>10. BlockedAt(t, c) # {}
    BY <2>2, <2>9 DEF Views
  <2>11. Settled(t, c, o)
    BY <1>6, <2>1, <2>10 DEF Settled, Resolved, RevokedElsewhere, BlockEvidence
  <2> QED  BY <2>1, <2>2, <2>7, <2>8, <2>11 DEF Progress
<1>7. CASE o.action = "REVOKE"
  <2>1. PICK p \in o.targets : e = Revoked(p, o.at, c) /\ RevokedAt(log, p) = {}
    BY <1>2, <1>7 DEF Missing
  <2>2. p \in Policies /\ o.at \in Times /\ RegisteredAt(log, p) # {}
    BY <1>7, <2>1 DEF Operations, Bound
  <2>3. e \in Events /\ e.type = "Revoked" /\ e.policy = p /\ e.by = c
    BY <2>1, <2>2 DEF Revoked, Events, By
  <2>4. Legal(log, e)
    BY <1>1, <2>1, <2>2, <2>3 DEF Legal, Restorable, Sound
  <2>5. Effect(o, Len(log) + 1, e)
    BY <1>1, <1>7, <2>1, <2>3 DEF Effect
  <2>6. /\ Views(log, e, t)
        /\ Len(t) = Len(log) + 1 /\ t[Len(log) + 1] = e /\ \A i \in 1 .. Len(log) : t[i] = log[i]
    <3>1. Views(log, e, t)
      BY <1>1, <2>3, ViewsAppend
    <3>2. Len(t) = Len(log) + 1 /\ t[Len(log) + 1] = e /\ \A i \in 1 .. Len(log) : t[i] = log[i]
      BY <1>1, <2>3, JournalAppend
    <3> QED  BY <3>1, <3>2
  <2>7. RevokedAt(t, p) # {} /\ \A q : q # p => RevokedAt(t, q) = RevokedAt(log, q)
    BY <2>3, <2>6 DEF Views
  <2>8. ~RevokedElsewhere(t, c, o)
    <3> SUFFICES ASSUME NEW q \in o.targets, NEW i \in RevokedAt(t, q), t[i].by # c
                 PROVE  FALSE
      BY DEF RevokedElsewhere
    <3>1. i \in RevokedAt(log, q)
      BY <2>3, <2>6 DEF Views
    <3>2. i \in 1 .. Len(log)
      BY <1>1, <3>1, ViewsIn
    <3> QED  BY <1>2, <2>6, <3>1, <3>2 DEF RevokedElsewhere
  <2>9. Missing(t, c, o) = worker.todo \ {e}
    <3>1. worker.todo = {Revoked(q, o.at, c) : q \in {x \in o.targets : RevokedAt(log, x) = {}}}
      BY <1>2, <1>7 DEF Missing
    <3>2. Missing(t, c, o) = {Revoked(q, o.at, c) : q \in {x \in o.targets : RevokedAt(t, x) = {}}}
      BY <1>7 DEF Missing
    <3>3. {x \in o.targets : RevokedAt(t, x) = {}} = {x \in o.targets : RevokedAt(log, x) = {}} \ {p}
      BY <2>7
    <3>4. \A q : Revoked(q, o.at, c) = e <=> q = p
      BY <2>1 DEF Revoked
    <3> QED  BY <3>1, <3>2, <3>3, <3>4
  <2>10. Resolved(t, c, o) <=> Missing(t, c, o) = {}
    BY <1>7 DEF Resolved, Missing
  <2>11. Executable(t, c, o)
    <3>1. \A i \in o.ver + 1 .. Len(log) : log[i].by = c
      BY <1>2, <1>7 DEF Undisturbed
    <3>2. \A i \in o.ver + 1 .. Len(t) : t[i].by = c
      BY <1>1, <2>3, <2>6, <3>1
    <3> QED  BY <1>7, <3>2 DEF Executable, Undisturbed
  <2>12. worker.todo = {e} <=> Missing(t, c, o) = {}
    BY <2>9
  <2> QED  BY <2>3, <2>4, <2>5, <2>8, <2>9, <2>10, <2>11, <2>12 DEF Progress, Settled
<1> QED  BY <1>1, <1>4, <1>5, <1>6, <1>7 DEF Actions

LEMMA WriteOK ==
  ASSUME IInv, Write
  PROVE  IInv'
<1>1. PICK c, o : c = Current /\ o = ops[Current]
  OBVIOUS
<1>2. /\ Busy /\ c \in Commands /\ o = ops[c] /\ Accepted(c) /\ Bound(log, o)
      /\ o.phase \notin Terminal /\ c # None
  BY <1>1, CurrentIn, Constants DEF Write
<1>3. o \in Operations
  BY <1>2 DEF IInv, Queued
<1>4. Writing(log, c, o)
  BY <1>1 DEF Write, IInv, Working
<1>5. \A i \in DOMAIN log : log[i].by = c => Effect(o, i, log[i])
  BY <1>2, Authors
<1>6. PICK e \in worker.todo :
        /\ log' = Append(log, e)
        /\ worker' = [worker EXCEPT
              !.todo = worker.todo \ {e}, !.ver = worker.ver + 1, !.raced = FALSE,
              !.step = IF worker.todo = {e} THEN "finish" ELSE "write"]
  BY DEF Write
<1>7. PICK t : t = log'
  OBVIOUS
<1>8. Progress(log, t, c, o, e)
  BY <1>2, <1>3, <1>4, <1>5, <1>6, <1>7, WriteProgress
<1>9. e \in Events /\ e.by = c /\ Legal(log, e) /\ Effect(o, Len(log) + 1, e)
  BY <1>8 DEF Progress
<1>10. UNCHANGED <<mem, book, sent, ops, accepted>> /\ task' = Overtaken(task)
  BY DEF Write
<1>11. Sound(log') /\ Queued' /\ OutcomesReplay' /\ EffectsReported'
  BY <1>2, <1>6, <1>9, <1>10, LogGrows
<1>12. Barriers'
  BY <1>10, OvertakenOK DEF IInv, Barriers
<1>13. Remembered'
  <2>1. \A w \in Writers : /\ mem'[w].ver \in 0 .. Len(log')
                           /\ mem'[w] = Replay(SubSeq(log', 1, mem'[w].ver))
    BY <1>6, <1>9, <1>10, RememberedStays
  <2> QED  BY <1>10, <2>1 DEF IInv, Remembered
<1>14. Len(log) \in Nat /\ Len(log') = Len(log) + 1 /\ worker.ver = Len(log)
  BY <1>6, <1>9, InvFacts, JournalAppend DEF Write
<1>15. DOMAIN worker = {"queue", "step", "todo", "ver", "raced"}
  BY DEF IInv, Working
<1>16. PICK st : st = IF worker.todo = {e} THEN "finish" ELSE "write"
  OBVIOUS
<1>17. /\ worker'.queue = worker.queue /\ worker'.todo = worker.todo \ {e}
       /\ worker'.ver = Len(log') /\ worker'.raced = FALSE
       /\ worker'.step = st /\ DOMAIN worker' = DOMAIN worker
  BY <1>6, <1>14, <1>15, <1>16
<1>18. Busy' /\ Current' = c
  BY <1>1, <1>2, <1>17 DEF Busy, Current
<1>19. st = "finish" => Settled(log', c, ops'[c])
  BY <1>2, <1>7, <1>8, <1>10, <1>16 DEF Progress
<1>20. st = "write" => Writing(log, Current, ops[Current])'
  BY <1>2, <1>7, <1>8, <1>10, <1>16, <1>17, <1>18 DEF Progress, Writing
<1>21. worker.queue \subseteq {b \in 1 .. accepted : ops[b].phase \notin Terminal}
  BY DEF IInv, Working
<1>22. Working'
  <2>1. worker'.step \in {"take", "write", "finish", "fail", "fault"}
    BY <1>16, <1>17
  <2>2. worker'.ver \in 0 .. Len(log')
    BY <1>14, <1>17
  <2> QED  BY <1>10, <1>15, <1>17, <1>18, <1>19, <1>20, <1>21, <2>1, <2>2 DEF Working
<1> QED  BY <1>11, <1>12, <1>13, <1>22 DEF IInv

-----------------------------------------------------------------------------
(* Invariance, and what it implies.                                        *)

LEMMA EmptySound == Sound(<<>>)
<1>1. <<>> \in Seq(Events) /\ Len(<<>>) = 0
  OBVIOUS
<1>2. \A x : RegisteredAt(<<>>, x) = {} /\ RevokedAt(<<>>, x) = {}
  BY DEF RegisteredAt, RevokedAt, Where
<1> QED  BY <1>1, <1>2, ReplayEmpty, BlankOK DEF Sound

LEMMA InitOK == Init => IInv
<1> SUFFICES ASSUME Init PROVE IInv
  OBVIOUS
<1>1. PICK e : e = Registered(Founding, None)
  OBVIOUS
<1>2. e \in Events /\ e.type = "Registered" /\ e.policy = Founding /\ e.by = None
  BY <1>1, AuthorityConstants DEF Registered, Events, By
<1>3. log = Append(<<>>, e)
  BY <1>1 DEF Init, AInit
<1>4. Legal(<<>>, e)
  BY <1>2, ReplayEmpty, BlankOK DEF Legal, Restorable
<1>5. Sound(log)
  BY <1>2, <1>3, <1>4, EmptySound, AppendSound
<1>6. log \in Seq(Events) /\ Len(log) = 1 /\ DOMAIN log = 1 .. 1 /\ log[1] = e
  BY <1>1, <1>2 DEF Init, AInit
<1>7. Remembered
  <2>1. Replay(log) \in Memories /\ Replay(log).ver = 1 /\ SubSeq(log, 1, 1) = log
    BY <1>5, <1>6, SubSeqFull DEF Sound
  <2>2. \A w \in Writers : mem[w] = Replay(log)
    BY DEF Init, AInit
  <2>3. mem \in [Writers -> Memories]
    BY <2>1 DEF Init, AInit
  <2>4. \A w \in Writers : mem[w].ver = 1 /\ mem[w] = Replay(SubSeq(log, 1, 1))
    BY <2>1, <2>2
  <2> QED  BY <1>6, <2>3, <2>4 DEF Remembered
<1>8. Barriers
  BY Constants DEF Barriers, Init, AInit, Idle
<1>9. Unborn \in Operations /\ Unborn.phase = "NONE"
  BY Constants DEF Unborn, Operations, Phases, By
<1>10. \A c \in Commands : ops[c] = Unborn /\ ~Accepted(c) /\ ~(c <= accepted)
  BY <1>9 DEF Init, AInit, Accepted, Commands
<1>11. Queued
  <2>1. ops \in [Commands -> Operations] /\ accepted \in 0 .. MaxCommands
    BY <1>9, AuthorityConstants DEF Init, AInit
  <2> QED  BY <1>2, <1>6, <1>10, <2>1 DEF Queued
<1>12. Working
  BY <1>6 DEF Init, Working, Resting, Busy
<1>13. OutcomesReplay /\ EffectsReported
  BY <1>9, <1>10 DEF OutcomesReplay, EffectsReported
<1> QED  BY <1>5, <1>7, <1>8, <1>11, <1>12, <1>13 DEF IInv

LEMMA StepOK == IInv /\ [Next]_vars => IInv'
<1> SUFFICES ASSUME IInv, [Next]_vars PROVE IInv'
  OBVIOUS
<1>1. CASE ANext /\ UNCHANGED <<ops, accepted, worker, wake>>
  BY <1>1, ANextOK
<1>2. CASE Submit
  BY <1>2, SubmitOK
<1>3. CASE Pass
  BY <1>3, PassStartOK, BeginOK, WriteOK, RefusedOK, FinishOK, FailOK, FaultOK DEF Pass
<1>4. CASE UpdateRefused
  BY <1>4, RefusedOK
<1>5. CASE Abort \/ Crash
  BY <1>5, PassEndOK
<1>6. CASE Repeat
  <2>1. UNCHANGED <<log, ops, accepted, worker>> /\ UNCHANGED avars
    BY <1>6 DEF Repeat, avars
  <2>2. Barriers' /\ Remembered'
    BY <2>1, HostOK
  <2> QED  BY <2>1, <2>2, JournalStays
<1>7. CASE UNCHANGED vars
  <2>1. UNCHANGED <<log, ops, accepted, worker>> /\ UNCHANGED avars
    BY <1>7 DEF vars, avars
  <2>2. Barriers' /\ Remembered'
    BY <2>1, HostOK
  <2> QED  BY <2>1, <2>2, JournalStays
<1> QED  BY <1>1, <1>2, <1>3, <1>4, <1>5, <1>6, <1>7 DEF Next

\* The inductive invariant holds in every reachable state: the journal replays
\* and its views agree with the state it replays to, every copy in memory is a
\* replay of a prefix of it, an untouched barrier's check still holds, every
\* event of a command is one the command asked for, and what the worker has
\* still to write is what is missing.
THEOREM Invariance == Spec => []IInv
  BY InitOK, StepOK, PTL DEF Spec

\* TypeOK holds: processes are never ahead of the journal, the evidence that
\* operations name exists in it, and the accepted commands are 1 .. accepted.
THEOREM AuthorityTypeCorrect == Spec => []TypeOK
<1>1. IInv => TypeOK
  <2> SUFFICES ASSUME IInv PROVE TypeOK
    OBVIOUS
  <2>1. \A c \in Commands :
          /\ ops[c].phase \in Phases
          /\ ops[c].refs \subseteq 0 .. Len(log)
          /\ Accepted(c) <=> c <= accepted
    BY DEF IInv, Queued, Operations, Bound, Unborn
  <2>2. \A w \in Writers : mem[w].ver \in 0 .. Len(log)
    BY DEF IInv, Remembered
  <2> QED  BY <2>1, <2>2 DEF TypeOK, IInv, Barriers, Phases
<1> QED  BY <1>1, Invariance, PTL

\* Whatever any number of processes and the operator's worker write, in any
\* interleaving, the authority journal itself is never the reason for which
\* _restore_journal refuses a restart: it is refused exactly when an intent was
\* admitted and the reservation book no longer replays for it. And what a process
\* has in memory is what a restart would rebuild at the version it has seen.
THEOREM RestartsAgree == Spec => []RestartAgrees
<1>1. IInv => RestartAgrees
  <2> SUFFICES ASSUME IInv PROVE RestartAgrees
    OBVIOUS
  <2>1. Replay(log) # Corrupt
    BY InvFacts, BlankOK
  <2>2. Starts <=> BookReads
    BY <2>1 DEF Starts
  <2> QED  BY <2>2 DEF RestartAgrees, IInv, Remembered
<1> QED  BY <1>1, Invariance, PTL

\* An operation recorded as SUCCEEDED shows the same evidence in the authority
\* journal for ever: nothing that is written later makes the host's journal
\* unreadable.
THEOREM OutcomesStay == Spec => []OutcomesReplay
<1>1. IInv => OutcomesReplay
  BY DEF IInv
<1> QED  BY <1>1, Invariance, PTL

\* An operation that ends FAILED names every authority event it wrote, before
\* or after any number of crashes, and writes none later.
THEOREM FailuresReport == Spec => []EffectsReported
<1>1. IInv => EffectsReported
  BY DEF IInv
<1> QED  BY <1>1, Invariance, PTL

\* When SubmissionSending becomes durable, the journal itself allows the send,
\* whatever other processes and the operator committed between the barrier's
\* check and its commit.
THEOREM SendsAuthorised == Spec => SendsAreAuthorised
<1> DEFINE Send ==
      \A a \in sent' \ sent :
          LET d == Replay(log)  r == d.adms[a] IN
          /\ r # None /\ r.outcome = "ADMITTED"
          /\ d.block = None \/ r.reducing
          /\ readable /\ book = a
          /\ \E w \in Writers :
                /\ task[w].adm = a
                /\ PolicyActive(d, r.policy, task[w].now)
                /\ r.conf # None => task[w].now < ConfirmedUntil
<1>1. ASSUME IInv, [Next]_vars PROVE [Send]_avars
  <2>1. CASE sent' = sent
    BY <2>1
  <2>2. ASSUME NEW w \in Writers, BarrierCommit(w) PROVE Send
    <3> SUFFICES ASSUME NEW a \in sent' \ sent
                 PROVE  LET d == Replay(log)  r == d.adms[a] IN
                        /\ r # None /\ r.outcome = "ADMITTED"
                        /\ d.block = None \/ r.reducing
                        /\ readable /\ book = a
                        /\ \E v \in Writers :
                              /\ task[v].adm = a
                              /\ PolicyActive(d, r.policy, task[v].now)
                              /\ r.conf # None => task[v].now < ConfirmedUntil
      OBVIOUS
    <3>1. a = task[w].adm /\ task[w].fresh
      BY <2>2 DEF BarrierCommit
    <3>2. Cut(task[w])
      BY <1>1, <3>1 DEF IInv, Barriers
    <3> QED  BY <3>1, <3>2 DEF Cut
  <2>3. sent' = sent \/ \E w \in Writers : BarrierCommit(w)
    <3>1. BookMoves => sent' = sent
      BY DEF BookMoves
    <3>2. ASSUME NEW w \in Writers, Serve(w) PROVE sent' = sent \/ BarrierCommit(w)
      BY <3>2 DEF Serve, RegisterPolicy, RevokePolicy, AddConfirmation,
                  Mutates, Reload, Admit, BarrierCheck, BarrierBlocked
    <3>3. Submit \/ Repeat \/ Pass \/ UpdateRefused \/ Abort \/ Crash => sent' = sent
      BY DEF Submit, Repeat, Pass, PassStart, Begin, Write, WriteRefused, Finish, Fail, Fault,
             UpdateRefused, Abort, Crash, Update, HostCommits, avars
    <3>4. UNCHANGED vars => sent' = sent
      BY DEF vars, avars
    <3> QED  BY <1>1, <3>1, <3>2, <3>3, <3>4 DEF Next, ANext
  <2> QED  BY <2>1, <2>2, <2>3
<1>2. Spec => [][Send]_avars
  BY <1>1, Invariance, PTL DEF Spec
<1> QED  BY <1>2 DEF SendsAreAuthorised
=============================================================================
