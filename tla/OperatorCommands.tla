-------------------------- MODULE OperatorCommands --------------------------
(***************************************************************************)
(* The operator's authority commands (durable_host_api.py,                 *)
(* operator_authority_commands.py, host_network.py).  submit reads the     *)
(* authority state a command is meant for (its cut) and makes the command  *)
(* durable as QUEUED; the host's worker then executes the commands that    *)
(* are not terminal, in acceptance order, writing the authority journal    *)
(* through a fresh AuthorityService one event at a time, and is started    *)
(* again after a crash.  The worker runs, one pass at a time, at startup   *)
(* and after a POST whose response could be written: a client that is gone *)
(* by then leaves its command accepted and no pass due.                    *)
(***************************************************************************)
EXTENDS Authority

VARIABLES ops,      \* the operation projection of the host journal
          worker,   \* the pass in progress
          wake      \* a pass is due

vars == <<avars, ops, accepted, worker, wake>>

Terminal == {"SUCCEEDED", "FAILED", "CANCELLED"}   \* nothing cancels these

Accepted(c) == ops[c].phase # "NONE"

\* accepted_at names the instant a revocation takes effect; commands are
\* numbered in the order they are accepted.
Unborn == [phase |-> "NONE", action |-> "NONE", policy |-> None, of |-> None,
           targets |-> {}, ver |-> 0, at |-> 0, refs |-> {}]

Resting == [queue |-> {}, step |-> "take", todo |-> {}, ver |-> 0,
            raced |-> FALSE]

Busy == worker.queue # {}
Current == Min(worker.queue)

-----------------------------------------------------------------------------
(* submit.                                                                 *)

Command(action, p, of, targets, at) ==
    [phase |-> "QUEUED", action |-> action, policy |-> p, of |-> of,
     targets |-> targets, ver |-> Len(log), at |-> at, refs |-> {}]

\* canonical_operator_payload: what the current authority state allows to be
\* asked, bound to that state.
Payloads ==
    LET d == Replay(log)  live == {p \in Policies : d.revoked[p] = Never} IN
    {Command("SET", p, None, {}, 0) : p \in live}
    \cup {Command("RESTORE", p, d.block, {}, 0) :
              p \in {q \in live \cap d.policies : d.block # None}}
    \cup {Command("BLOCK", None, None, {}, 0)}
    \cup {Command("REVOKE", None, None, live \cap d.policies, at) : at \in Times}

\* A host event is a journal event too: it overtakes every cut.
HostCommits ==
    task' = Overtaken(task) /\ UNCHANGED <<log, mem, book, readable, sent>>

\* The acceptance is committed if the host's version has not moved since the
\* caller read it.  The authority journal may have moved since the payload
\* was bound to it; that is no different from its moving just after.  The
\* handler runs a pass after it has sent the response's head, if it can.
Submit ==
    /\ accepted < MaxCommands /\ Work < MaxWork
    /\ Starts
    /\ \E o \in Payloads : ops' = [ops EXCEPT ![accepted + 1] = o]
    /\ accepted' = accepted + 1
    /\ wake' \in {TRUE, wake}
    /\ worker' = [worker EXCEPT !.raced = Busy]
    /\ HostCommits

\* The operator repeats a POST (submit recognises "an exact lost-response
\* retry" and answers 200 once more), or starts the host again: a pass is due.
\* A repetition during a pass waits for its end.
Repeat ==
    /\ \E c \in 1 .. accepted : ops[c].phase \notin Terminal
    /\ ~Busy /\ ~wake
    /\ wake' = TRUE
    /\ UNCHANGED <<avars, ops, accepted, worker>>

-----------------------------------------------------------------------------
(* What the authority journal s says about command c, o == ops[c].         *)

Where(s, P(_)) == {i \in DOMAIN s : P(s[i])}

RegisteredAt(s, p) == Where(s, LAMBDA e : e.type = "Registered" /\ e.policy = p)
RevokedAt(s, p) == Where(s, LAMBDA e : e.type = "Revoked" /\ e.policy = p)
RestoredAt(s, c) == Where(s, LAMBDA e : e.type = "Restored" /\ e.by = c)
BlockedAt(s, c) == Where(s, LAMBDA e : e.type = "Blocked" /\ e.by = c)

\* The block that was active at the cut.
PreexistingBlock(s, ver) ==
    LET b == Replay(SubSeq(s, 1, ver)).block
    IN  IF b = None THEN {} ELSE BlockedAt(SubSeq(s, 1, ver), b)

\* Mutant: looks at the block of now.
BlockEvidenceOfNow(s, c, o) ==
    IF Replay(s).block = None THEN {} ELSE BlockedAt(s, Replay(s).block)

BlockEvidence(s, c, o) ==
    IF BlockedAt(s, c) # {} THEN BlockedAt(s, c)
    ELSE PreexistingBlock(s, o.ver)

\* A target that was revoked, but not by this command.  (The code compares the
\* revocation's reason and instant with the command's; two commands that agree
\* in both would take each other's revocations for their own.)
RevokedElsewhere(s, c, o) ==
    \E p \in o.targets : \E i \in RevokedAt(s, p) : s[i].by # c

\* _resolved: the command has all its effects.
Resolved(s, c, o) ==
    CASE o.action = "SET" -> RegisteredAt(s, o.policy) # {}
      [] o.action = "RESTORE" ->
            RegisteredAt(s, o.policy) # {} /\ RestoredAt(s, c) # {}
      [] o.action = "BLOCK" -> BlockEvidence(s, c, o) # {}
      [] o.action = "REVOKE" -> \A p \in o.targets : RevokedAt(s, p) # {}
      [] OTHER -> FALSE

Evidence(s, c, o) ==
    CASE o.action = "SET" -> RegisteredAt(s, o.policy)
      [] o.action = "RESTORE" ->
            RegisteredAt(s, o.policy) \cup RestoredAt(s, c)
      [] o.action = "BLOCK" -> BlockEvidence(s, c, o)
      [] o.action = "REVOKE" ->
            IF o.targets = {} THEN {o.ver}
            ELSE UNION {RevokedAt(s, p) : p \in o.targets}

\* Mutant: reports effects only when there are all of them.
ObservedIfResolved(s, c, o) ==
    IF Resolved(s, c, o) THEN Evidence(s, c, o) ELSE {}

\* observed_authority_operation_effects: what a failed command did.
Observed(s, c, o) ==
    CASE o.action = "SET" ->
            {i \in RegisteredAt(s, o.policy) : i > o.ver}
      [] o.action = "RESTORE" -> RestoredAt(s, c)
      [] o.action = "BLOCK" -> BlockedAt(s, c)
      [] o.action = "REVOKE" ->
            {i \in UNION {RevokedAt(s, p) : p \in o.targets} : s[i].by = c}

\* The events the command still has to write.
Missing(s, c, o) ==
    CASE o.action = "SET" -> {Registered(o.policy, c)}
      [] o.action = "RESTORE" -> {Restored(o.of, c)}
      [] o.action = "BLOCK" -> {Blocked(c)}
      [] o.action = "REVOKE" ->
            {Revoked(p, o.at, c) : p \in {q \in o.targets : RevokedAt(s, q) = {}}}

\* Nothing but this command's own events was written since its cut.
Undisturbed(s, c, o) ==
    CASE o.action \in {"SET", "RESTORE"} -> Len(s) = o.ver
      [] o.action \in {"BLOCK", "REVOKE"} ->
            \A i \in o.ver + 1 .. Len(s) : s[i].by = c

Executable(s, c, o) ==
    /\ Undisturbed(s, c, o)
    /\ o.action = "RESTORE" => Replay(s).block = o.of

-----------------------------------------------------------------------------
(* The worker.                                                             *)

NextOperation ==
    worker' = [Resting EXCEPT !.queue = worker.queue \ {Current}]

\* Mutant: takes UNKNOWN for an outcome.
PassStartSkipsUnknown ==
    /\ ~Busy
    /\ wake
    /\ wake' = FALSE
    /\ worker' = [Resting EXCEPT !.queue =
          {c \in 1 .. accepted : ops[c].phase \notin Terminal \cup {"UNKNOWN"}}]
    /\ UNCHANGED <<avars, ops, accepted>>

PassStart ==
    /\ ~Busy
    /\ wake
    /\ wake' = FALSE
    /\ worker' = [Resting EXCEPT !.queue =
                     {c \in 1 .. accepted : ops[c].phase \notin Terminal}]
    /\ UNCHANGED <<avars, ops, accepted>>

\* update_operation: a host event.
Update(phase, refs) ==
    /\ ops' = [ops EXCEPT ![Current].phase = phase, ![Current].refs = refs]
    /\ HostCommits
    /\ UNCHANGED <<accepted, wake>>

\* What the worker does after it has read the authority journal.  A command
\* that still has to act needs a service; when that is refused, the error is
\* not one of the command's own.
Decision(c, o) ==
    IF RevokedElsewhere(log, c, o) THEN [step |-> "fail", todo |-> {}]
    ELSE IF Resolved(log, c, o) THEN [step |-> "finish", todo |-> {}]
    ELSE IF ~Starts THEN [step |-> "fault", todo |-> {}]
    ELSE IF Executable(log, c, o)
         THEN [step |-> "write", todo |-> Missing(log, c, o)]
         ELSE [step |-> "fail", todo |-> {}]

\* execute_authority_operation: a QUEUED operation becomes RUNNING, one that
\* a crash left RUNNING, or a fault UNKNOWN, is resumed as it is.
Begin ==
    LET d == Decision(Current, ops[Current]) IN
    /\ Busy
    /\ worker.step = "take"
    /\ worker' = [worker EXCEPT !.step = d.step, !.todo = d.todo,
                                !.ver = Len(log), !.raced = FALSE]
    /\ \/ ops[Current].phase = "QUEUED" /\ Update("RUNNING", {})
       \/ /\ ops[Current].phase \in {"RUNNING", "UNKNOWN"}
          /\ UNCHANGED <<avars, ops, accepted, wake>>

\* One event of the command through the worker's own service: appended at
\* the version the service has seen, or the command has failed.
Write ==
    /\ Busy
    /\ worker.step = "write"
    /\ worker.ver = Len(log)
    /\ \E e \in worker.todo :
          /\ log' = Append(log, e)
          /\ worker' = [worker EXCEPT
                !.todo = @ \ {e}, !.ver = @ + 1, !.raced = FALSE,
                !.step = IF worker.todo = {e} THEN "finish" ELSE "write"]
    /\ task' = Overtaken(task)
    /\ UNCHANGED <<mem, book, readable, sent, ops, accepted, wake>>

WriteRefused ==
    /\ Busy
    /\ worker.step = "write"
    /\ worker.ver # Len(log)
    /\ worker' = [worker EXCEPT !.step = "fail", !.raced = FALSE]
    /\ UNCHANGED <<avars, ops, accepted, wake>>

Finish ==
    /\ Busy
    /\ worker.step = "finish"
    /\ Update("SUCCEEDED", Evidence(log, Current, ops[Current]))
    /\ NextOperation

Fail ==
    /\ Busy
    /\ worker.step = "fail"
    /\ Update("FAILED", Observed(log, Current, ops[Current]))
    /\ NextOperation

\* A command was accepted between the worker's reading of the host version
\* and its update: the update is refused.
UpdateRefused ==
    /\ Busy
    /\ worker.raced
    /\ \/ worker.step = "take" /\ ops[Current].phase = "QUEUED"
       \/ worker.step \in {"finish", "fail"}
    /\ worker' = [worker EXCEPT !.step = "fault", !.raced = FALSE]
    /\ UNCHANGED <<avars, ops, accepted, wake>>

\* After any error but the command's own, the operation becomes UNKNOWN (or
\* stays so, and nothing is written).
Fault ==
    /\ Busy
    /\ worker.step = "fault"
    /\ IF ops[Current].phase = "UNKNOWN"
       THEN UNCHANGED <<avars, ops, accepted, wake>>
       ELSE Update("UNKNOWN", ops[Current].refs)
    /\ NextOperation

\* That update is refused as well: the error ends the pass.
Abort ==
    /\ Busy
    /\ worker.step = "fault"
    /\ worker.raced /\ ops[Current].phase # "UNKNOWN"
    /\ worker' = Resting
    /\ UNCHANGED <<avars, ops, accepted, wake>>

\* The host dies and is started again; startup runs a pass.
Crash ==
    /\ Busy
    /\ worker' = Resting
    /\ wake' = TRUE
    /\ UNCHANGED <<avars, ops, accepted>>

-----------------------------------------------------------------------------
Init == /\ AInit
        /\ ops = [c \in Commands |-> Unborn]
        /\ worker = Resting
        /\ wake = FALSE

Pass == PassStart \/ Begin \/ Write \/ WriteRefused \/ Finish \/ Fail \/ Fault

Next == \/ ANext /\ UNCHANGED <<ops, accepted, worker, wake>>
        \/ Submit
        \/ Repeat
        \/ Pass
        \/ UpdateRefused
        \/ Abort
        \/ Crash

Spec == Init /\ [][Next]_vars

\* A pass that is due runs, and to its end unless the host dies; and while a
\* command has not ended, the operator comes back, with a POST that is answered
\* or by starting the host.  The host does not die again and again for ever.
FairSpec == /\ Spec
            /\ WF_vars(Pass) /\ WF_vars(Repeat)
            /\ <>[][~Crash]_vars

-----------------------------------------------------------------------------
(* What is claimed.                                                        *)

\* The shapes of the journal's copies and of the operations; the journal's
\* names are those of the authority's sets.
TypeOK ==
    /\ book \in Admissions \cup {None} /\ sent \subseteq Admissions
    /\ \A w \in Writers : mem[w].ver \in 0 .. Len(log)
    /\ \A c \in Commands :
          /\ ops[c].phase \in {"NONE", "QUEUED", "RUNNING", "UNKNOWN"} \cup Terminal
          /\ ops[c].refs \subseteq 0 .. Len(log)
          /\ Accepted(c) <=> c <= accepted

\* The host's journal stays readable: every operation recorded as SUCCEEDED
\* is checked again, against the authority journal of now, whenever the
\* operations are projected, and must show the same evidence for ever.
OutcomesReplay ==
    \A c \in Commands :
        ops[c].phase = "SUCCEEDED" =>
            /\ Resolved(log, c, ops[c])
            /\ ~RevokedElsewhere(log, c, ops[c])
            /\ ops[c].refs = Evidence(log, c, ops[c])

\* An operation that ends FAILED reports every authority event it wrote, also
\* those it wrote before a crash, and writes none afterwards.
EffectsReported ==
    \A c \in Commands :
        ops[c].phase = "FAILED" =>
            Where(log, LAMBDA e : e.by = c) \subseteq ops[c].refs

\* Every accepted command ends as long as the reservation book can be read,
\* without which no service is constructed, and the operator comes back: no race with other writers, no response that was lost,
\* no refused update, no pass ended by an error and no crash leaves one QUEUED,
\* RUNNING or UNKNOWN for ever.  (Terminal phases are never left, and there are
\* finitely many commands.)
OperationsEnd ==
    []<>(BookReads => \A c \in Commands : Accepted(c) => ops[c].phase \in Terminal)

\* restore_new_exposure: "a stale command cannot clear a later block".  When
\* the last exposure command the operator gave is a block and it SUCCEEDED,
\* new exposure is blocked.
BlockStands ==
    LET exposure == {c \in Commands : ops[c].action \in {"BLOCK", "RESTORE"}}
    IN  exposure # {} =>
            (/\ ops[Max(exposure)].action = "BLOCK"
             /\ ops[Max(exposure)].phase = "SUCCEEDED"
             => Replay(log).block # None)
=============================================================================
