------------------------------ MODULE Authority ------------------------------
(***************************************************************************)
(* AuthorityService (authority.py): which policies may trade, which        *)
(* confirmations are spent, whether new exposure is blocked, and which     *)
(* intents were admitted.  The truth is one journal aggregate,             *)
(* authority_state/canonical (here log); every process keeps a copy of it  *)
(* in memory and every operation is decided from that copy, persisted by   *)
(* compare-and-append and only then applied to the copy.                   *)
(*                                                                         *)
(* One account in the SIMULATION environment, the only one in which        *)
(* dispatch_allowed can grant anything; one intent, which every admission  *)
(* and confirmation is about.  A journal sequence is only ever compared    *)
(* with an earlier reading of itself, so a reading is kept as the one bit  *)
(* "nothing was committed since"; the reservation book's version is        *)
(* compared with that of the admission's own reservation, so the book is   *)
(* the admission that wrote its last event.                                *)
(*                                                                         *)
(* A service that is constructed re-reads, for every ADMITTED record, the  *)
(* reservation book of now, without the store of resolution artifacts.     *)
(* Whether the book replays for such a reader is readable: it does while   *)
(* it is Replayable (module DurableReservations) and has no MARK_TERMINAL. *)
(***************************************************************************)
EXTENDS Integers, Sequences, FiniteSets, FiniteSetsExt

CONSTANTS Writers,          \* processes with an AuthorityService
          Policies, Autonomous, ProtectionOnly,
          InForce,          \* policy -> instants in valid_from .. expires_at
          Founding,         \* the policy the account starts with
          Confirmations, Admissions,
          MaxCommands,      \* operator commands are 1 .. MaxCommands
          None,
          MaxTime,          \* instants are 0 .. MaxTime
          ConfirmedUntil,   \* when a confirmation expires
          MaxWork           \* bound on the events the writers append and the
                            \* commands the operator gives, taken together

ASSUME AuthorityConstants ==
    /\ Autonomous \subseteq Policies /\ ProtectionOnly \subseteq Policies
    /\ Founding \in Policies /\ InForce \in [Policies -> SUBSET (0 .. MaxTime)]
    /\ MaxTime \in Nat /\ ConfirmedUntil \in Nat
    /\ MaxCommands \in Nat /\ MaxWork \in Nat
    /\ None \notin Policies \cup Confirmations \cup Admissions \cup Nat

VARIABLES log,      \* events of authority_state/canonical
          accepted, \* how many commands of the operator were accepted
          mem,      \* what each process has in memory
          task,     \* the final barrier a process is in
          book,     \* whose reservation event is the book's last
          readable, \* the reservation book replays without the artifacts
          sent      \* admissions whose SubmissionSending is durable

avars == <<log, mem, task, book, readable, sent>>   \* accepted is the operator's

Commands == 1 .. MaxCommands
Times == 0 .. MaxTime
Never == MaxTime + 1

-----------------------------------------------------------------------------
(* The state that events add up to.                                        *)

Blank == [ver |-> 0, epoch |-> 0, policies |-> {},
          revoked |-> [p \in Policies |-> Never],
          block |-> None,
          confs |-> [k \in Confirmations |-> None], used |-> {},
          adms |-> [a \in Admissions |-> None]]

Corrupt == [Blank EXCEPT !.ver = -1]

Registered(p, by) == [type |-> "Registered", policy |-> p, by |-> by]
Revoked(p, at, by) ==
    [type |-> "Revoked", policy |-> p, at |-> at, by |-> by]
Blocked(by) == [type |-> "Blocked", by |-> by]
Restored(of, by) == [type |-> "Restored", of |-> of, by |-> by]
Confirmed(k, p) == [type |-> "Confirmed", conf |-> k, policy |-> p, by |-> None]

Apply(m, e) ==
    LET n == [m EXCEPT !.ver = @ + 1] IN
    CASE e.type = "Registered" ->
            [n EXCEPT !.policies = @ \cup {e.policy}, !.epoch = @ + 1]
      [] e.type = "Revoked" ->
            [n EXCEPT !.revoked[e.policy] = e.at, !.epoch = @ + 1]
      [] e.type = "Blocked" -> [n EXCEPT !.block = e.by]
      [] e.type = "Restored" -> [n EXCEPT !.block = None]
      [] e.type = "Confirmed" -> [n EXCEPT !.confs[e.conf] = e.policy]
      [] e.type = "Recorded" ->
            [n EXCEPT !.adms[e.adm] = e,
                      !.used = IF e.outcome = "ADMITTED" /\ e.conf # None
                               THEN @ \cup {e.conf} ELSE @]

PolicyActive(m, p, now) == now \in InForce[p] /\ now < m.revoked[p]

\* The scope checks of an admission under policy p.
InScope(m, p, reducing, now) ==
    /\ PolicyActive(m, p, now)
    /\ m.block = None \/ reducing
    /\ p \notin ProtectionOnly \/ reducing

ConfirmationFits(m, k, p, now) ==
    m.confs[k] = p /\ k \notin m.used /\ now < ConfirmedUntil

\* _restore_journal refuses a history that these would not have produced.
\* (What it asks of an ADMITTED record's reservation is BookReads.)
Restorable(m, e) ==
    CASE e.type = "Registered" -> e.policy \notin m.policies
      [] e.type = "Revoked" ->
            e.policy \in m.policies /\ m.revoked[e.policy] \in {Never, e.at}
      [] e.type = "Blocked" -> m.block \in {None, e.by}
      [] e.type = "Restored" -> m.block = e.of
      [] e.type = "Confirmed" ->
            e.policy \in m.policies /\ m.confs[e.conf] \in {None, e.policy}
      [] e.type = "Recorded" ->
            /\ e.policy \in m.policies
            /\ e.epoch = m.epoch
            /\ e.outcome = "ADMITTED" =>
                  /\ InScope(m, e.policy, e.reducing, e.at)
                  /\ e.policy \in Autonomous \/ e.conf # None
            /\ e.conf # None => ConfirmationFits(m, e.conf, e.policy, e.at)
            /\ m.adms[e.adm] = None

Restore(m, e) ==
    IF m # Corrupt /\ Restorable(m, e) THEN Apply(m, e) ELSE Corrupt

\* A service constructed over the journal: its events in turn.
Replay(s) ==
    LET state[n \in 0 .. Len(s)] ==
            IF n = 0 THEN Blank ELSE Restore(state[n - 1], s[n])
    IN  state[Len(s)]

\* _validate_durable_financial_evidence of every ADMITTED record finds its
\* reservation in the book as it is now.  The rest of that evidence is named
\* by event and by journal sequence and does not change.  (Only admissions with
\* durable risk evidence are modelled; the others are not validated again.)
Reserved == \E i \in DOMAIN log :
                log[i].type = "Recorded" /\ log[i].outcome = "ADMITTED"

BookReads == Reserved => readable

\* AuthorityService(journal) does not raise.
Starts == Replay(log) # Corrupt /\ BookReads

-----------------------------------------------------------------------------
(* Committing to the journal.                                              *)

Idle == [adm |-> None, now |-> 0, fresh |-> FALSE]

\* Any commit moves the journal sequence past every cut taken before it.
Overtaken(t) == [w \in Writers |-> [t[w] EXCEPT !.fresh = FALSE]]

Durable(m) == m.ver = Len(log)

Work == Cardinality({i \in DOMAIN log : log[i].by = None}) + accepted

\* Mutants: no comparison; the event is counted twice.
PersistAtTail(w, e) ==
    /\ Work < MaxWork
    /\ log' = Append(log, e)
    /\ mem' = [mem EXCEPT ![w] = Apply(@, e)]

PersistCountedTwice(w, e) ==
    /\ Durable(mem[w])
    /\ Work < MaxWork
    /\ log' = Append(log, e)
    /\ mem' = [mem EXCEPT ![w] = [Apply(@, e) EXCEPT !.ver = @ + 1]]

\* _persist: append at the version this process has seen, or not at all,
\* then apply to memory.
Persist(w, e) ==
    /\ Durable(mem[w])
    /\ Work < MaxWork
    /\ log' = Append(log, e)
    /\ mem' = [mem EXCEPT ![w] = Apply(@, e)]

Mutates(w, e) ==
    /\ task[w] = Idle
    /\ Persist(w, e)
    /\ task' = Overtaken(task)
    /\ UNCHANGED <<book, readable, sent>>

RegisterPolicy(w, p) ==
    p \notin mem[w].policies /\ Mutates(w, Registered(p, None))

RevokePolicy(w, p, at) ==
    /\ p \in mem[w].policies
    /\ mem[w].revoked[p] = Never
    /\ Mutates(w, Revoked(p, at, None))

AddConfirmation(w, k, p) ==
    /\ p \in mem[w].policies
    /\ mem[w].confs[k] = None
    /\ Mutates(w, Confirmed(k, p))

\* A process starts again, or is told "reload required" and builds a new
\* service: what it was doing is lost.  One whose service is refused takes no
\* step; one that has its service goes on from memory.
Reload(w) ==
    /\ mem[w] # Replay(log) \/ task[w] # Idle
    /\ Starts
    /\ mem' = [mem EXCEPT ![w] = Replay(log)]
    /\ task' = [task EXCEPT ![w] = Idle]
    /\ UNCHANGED <<log, book, readable, sent>>

-----------------------------------------------------------------------------
(* admit: evaluate risk and authority at a journal cut, and commit the     *)
(* verdict with its reservation if the journal is still at the cut, and at *)
(* the version this process has seen.  Whatever is committed in between    *)
(* refuses the commit, so an admission that commits is one step.  The      *)
(* reservation goes into a book that the caller opened, with the artifacts *)
(* or without: readable does not bind it.                                  *)

\* What _admit_unverified decides on the isolated copy of the service, as the
\* event it becomes.  Of a refusal, only that it was recorded matters.
Verdict(m, a, p, k, reducing, now, risk) ==
    LET scope == risk /\ InScope(m, p, reducing, now)
        ok == scope /\ (\/ p \in Autonomous
                        \/ k # None /\ ConfirmationFits(m, k, p, now))
    IN  [type |-> "Recorded", by |-> None, adm |-> a, policy |-> p,
         conf |-> IF ok /\ p \notin Autonomous THEN k ELSE None,
         reducing |-> ok /\ reducing, epoch |-> m.epoch,
         at |-> IF ok THEN now ELSE 0,
         outcome |-> IF ok THEN "ADMITTED" ELSE "REJECTED"]

Admit(w, a, p, k, reducing, now, risk) ==
    LET r == Verdict(mem[w], a, p, k, reducing, now, risk) IN
    /\ task[w] = Idle
    /\ mem[w].adms[a] = None
    /\ p \in mem[w].policies
    /\ Persist(w, r)
    /\ task' = Overtaken(task)
    /\ book' = IF r.outcome = "ADMITTED" THEN a ELSE book
    /\ UNCHANGED <<readable, sent>>

-----------------------------------------------------------------------------
(* GuardedDispatcher's final barrier with dispatch_allowed as its          *)
(* authority check: take the journal cut and check, then commit            *)
(* SubmissionSending if the journal is still at the cut.                   *)

DispatchAllowed(m, a, now) ==
    LET r == m.adms[a] IN
    /\ r.outcome = "ADMITTED"
    /\ Durable(m)
    /\ m.block = None \/ r.reducing
    /\ PolicyActive(m, r.policy, now)
    /\ r.conf # None => now < ConfirmedUntil
    /\ readable /\ book = a

BarrierCheck(w, a, now) ==
    /\ task[w] = Idle
    /\ mem[w].adms[a] # None
    /\ a \notin sent
    /\ DispatchAllowed(mem[w], a, now)
    /\ task' = [task EXCEPT ![w] = [adm |-> a, now |-> now, fresh |-> TRUE]]
    /\ UNCHANGED <<log, mem, book, readable, sent>>

\* SubmissionBlocked: the journal moved between the cut and the commit.
BarrierBlocked(w) ==
    /\ task[w] # Idle
    /\ ~task[w].fresh
    /\ task' = [Overtaken(task) EXCEPT ![w] = Idle]
    /\ UNCHANGED <<log, mem, book, readable, sent>>

\* Mutant: sends on the strength of the check alone.
BarrierCommitAnyway(w) ==
    /\ task[w] # Idle
    /\ task[w].adm \notin sent
    /\ sent' = sent \cup {task[w].adm}
    /\ task' = [Overtaken(task) EXCEPT ![w] = Idle]
    /\ UNCHANGED <<log, mem, book, readable>>

BarrierCommit(w) ==
    /\ task[w].fresh
    /\ task[w].adm \notin sent
    /\ sent' = sent \cup {task[w].adm}
    /\ task' = [Overtaken(task) EXCEPT ![w] = Idle]
    /\ UNCHANGED <<log, mem, book, readable>>

\* Another component commits to the reservation book or to an attempt whose
\* events the book reads: it may be past replaying for this service from then
\* on (a MARK_TERMINAL, or a late SubmissionUnknown after a zero-wire release).
BookMoves ==
    /\ Reserved
    /\ book' = None
    /\ readable' \in {readable, FALSE}
    /\ task' = Overtaken(task)
    /\ UNCHANGED <<log, mem, sent>>

-----------------------------------------------------------------------------
AInit == /\ log = <<Registered(Founding, None)>>
         /\ mem = [w \in Writers |-> Replay(log)]
         /\ task = [w \in Writers |-> Idle]
         /\ accepted = 0
         /\ book = None
         /\ readable = TRUE
         /\ sent = {}

Serve(w) ==
    \/ \E p \in Policies : RegisterPolicy(w, p)
    \/ \E p \in Policies, at \in Times : RevokePolicy(w, p, at)
    \/ \E k \in Confirmations, p \in Policies \ Autonomous : AddConfirmation(w, k, p)
    \/ Reload(w)
    \/ \E a \in Admissions, p \in Policies, k \in Confirmations \cup {None},
          now \in Times, reducing, risk \in BOOLEAN :
             Admit(w, a, p, k, reducing, now, risk)
    \/ \E a \in Admissions, now \in Times : BarrierCheck(w, a, now)
    \/ BarrierBlocked(w)
    \/ BarrierCommit(w)

ANext == BookMoves \/ \E w \in Writers : Serve(w)

-----------------------------------------------------------------------------
(* What is claimed.                                                        *)

\* A restart is refused exactly when some intent was admitted and the account's
\* reservation book does not replay for it: the authority journal itself, which
\* any number of processes wrote from memories of different ages, never is the
\* reason (_restore_journal; in particular no confirmation is spent twice).
\* And what a process has in memory is what a restart would rebuild from the
\* journal up to the version it has seen.
RestartAgrees ==
    /\ Starts <=> BookReads
    /\ \A w \in Writers : mem[w] = Replay(SubSeq(log, 1, mem[w].ver))

\* At the instant a send becomes durable, the journal itself allows it: the
\* admission stands, its policy is in force and not revoked as of the barrier's
\* time, new exposure is not blocked, its confirmation has not expired, the
\* reservation made for it is the book's last word and the book replays,
\* whatever other processes committed between the check and the send.
SendsAreAuthorised ==
    [][\A a \in sent' \ sent :
          LET d == Replay(log)  r == d.adms[a] IN
          /\ r # None /\ r.outcome = "ADMITTED"
          /\ d.block = None \/ r.reducing
          /\ readable /\ book = a
          /\ \E w \in Writers :
                /\ task[w].adm = a
                /\ PolicyActive(d, r.policy, task[w].now)
                /\ r.conf # None => task[w].now < ConfirmedUntil]_avars
=============================================================================
