# AutoTrade: TLA+ verification of the order path

AutoTrade is a Python trading host. Its promise is not speed but restraint: an
economic decision becomes at most one request to a provider, whatever processes,
threads, clocks and crashes do, and nobody acts on an outcome that is not known.
That promise is kept by a small number of stateful components around an
append-only journal. This directory models these components, checks them with
TLC and proves the most important facts with TLAPS.

## 1. Inventory

| part | state | operations | interacts with |
|---|---|---|---|
| Guarded dispatch (`dispatch.py`) | `submission_attempt` aggregates (Prepared, Sending, Sent, Blocked, Unknown), `submission_intent` bindings | `dispatch`, `_recover_existing`, the `final_guard` closure handed to the transport | journal, sender gate, authority callbacks, provider wrapper |
| Journal (`_persistence_impl.py`) | events with a global sequence and per-aggregate versions, command inbox, outbox | `append_event`, `commit_command`, `pending_outbox`, `mark_outbox_delivered` | everybody |
| Sender gate and authority (`sender_gate.py`, `sender_authority.py`) | an exclusive file lock per journal, and the pending-takeover marker it re-reads | `journal_sender_gate`, `sender_authority_window` | dispatch, takeover, recovery |
| Recovery controller (`recovery.py`, `recovery_clock_incident.py`, `recovery_dispatch.py`) | host state, owner fence, reason codes, unresolved and sticky attempts, bindings of scanned tails, clock incidents | start, scan of durable uncertainty, reconciliation checkpoint, storage and clock switches, sender validation, ownership transfer, stop | journal, reconciliation journal, dispatch |
| Durable takeover (`recovery_takeover.py`) | a takeover aggregate (Started, EvidenceIssued, Completed), the owner chain, credential revocations | `execute_durable_takeover` in three phases, resumable | recovery, vault, sender gate |
| Reconciliation (`reconciliation.py`, `reconciliation_journal.py`) | checkpoints with the attempts they resolve | record, load for readiness | recovery |
| Reservations (`reservations.py`, `durable_reservations.py`) | per reservation the original, remaining and consumed amounts and a state (WORKING, UNKNOWN, BUSTED_PENDING_RECONCILIATION, FILLED, CANCELED, REJECTED, PROVEN_ABSENT) | reserve, consume, consume and mark filled, restore consumption, mark unknown, mark terminal; the durable book replays the journal on every operation | order projection, attempt events |
| Order projection (`order_projection.py`) | per client order id the fills with their revisions and the submission, cancel, replace and expiry flags | acknowledge; record, correct, bust a fill; request, reject, confirm a cancel; request, reject a replace; expire; OCO groups | fills, reservations, attempt events |
| Authority (`authority.py`) | policies, revocations, confirmations and their use, admissions, the new-exposure block, an epoch | register, revoke, confirm, block, restore, admit, `dispatch_allowed`; one journal aggregate, replayed by every process | dispatch, reservations, operator commands |
| Operator commands (`operator_authority_commands.py`, `durable_host_api.py`, `host_network.py`) | accepted commands bound to an authority cut, and the phase of each operation | submit, execute, update, resume after a crash | authority |
| Atomic fill commands (`_provider_activity_accounting_impl.py`, `fill_accounting.py`, `durable_settlement.py`) | economic ledger, settlement obligations, bindings of executions and of their corrections | commit a fill, a correction, a bust across five books in one transaction; recover; settle | order projection, reservations |
| Lots, corporate actions, derivatives, risk, allocation | exact decimal books | apply, mark | ledger |
| Provider transport and exchange adapters | requests, nonces, limits | send, read | dispatch |
| Market data, chronology | feeds, freshness cuts | ingest, cut | pipeline, recovery |
| Simulation, replay, research | deterministic replays | run | none of the live parts |
| Model calls and budget | budget journal | reserve, call, settle | research |
| Host API, web, desktop, tools, packaging | presentation | routes | commands |

What is hard here: dispatch calls of several processes on one journal; a process
that dies between the durable barrier and the request, or between the request and
its verdict; recovery that runs while the original owner is alive; late answers;
clocks of different processes that disagree; a takeover that dies halfway with a
revoked credential; values scanned from the journal, kept in memory and used after
the journal moved on; locks taken in different orders; five books that must change
together while each is read at another moment; provider observations that arrive
twice, late and in any order; operator commands that are executed long after the
state they were given for.

What makes each part correct:

* dispatch: one request per intent; persist before send; BLOCKED means nothing was
  sent; verdicts are final; every ambiguous attempt gets a verdict;
* journal: versions without gaps, exact replays, an outbox message is delivered at
  least once and only the bytes that were delivered are marked;
* recovery: READY only with current ownership, trusted clock, writable storage, a
  reconciliation newer than every uncertainty; UNKNOWN disappears only through
  evidence;
* takeover: no send between Started and Completed; one owner per epoch; the
  procedure can always be finished;
* reservations: amounts are conserved, no two admissions share capacity, nothing is
  released while an order may fill;
* order projection: duplicates are harmless, a fill survives every race with the end
  of its order, busts and double executions are not forgotten;
* fill commands: order, reservation, ledger, settlement and binding tell one story;
* authority: what a process holds in memory is what a restart would read, no send
  under a withdrawn authority;
* operator commands: every accepted command ends while an authority service can be
  constructed, reports what it did, and its outcome can be verified for ever.

## 2. The models

Modules and how they are used:

```
IntentSubmission   <- refined by -    Dispatch             <- MCDispatch        (TLC)
                                                           <- DispatchProofs    (TLAPS)
Controller         <- extended by -   Recovery             <- MCRecovery        (TLC)
                                                           <- RecoveryProofs    (TLAPS)
Reservations       <- extended by -   DurableReservations  <- MCReservations    (TLC)
                                                           <- ReservationProofs (TLAPS)
Orders             <- extended by -   DurableOrders        <- MCOrders          (TLC)
                                                           <- OrderProofs       (TLAPS)
Orders, Reservations <- INSTANCE in - FillCommits          <- MCFillCommits     (TLC)
                                                           <- FillProofs        (TLAPS)
Authority          <- extended by -   OperatorCommands     <- MCAuthority       (TLC)
                                                           <- AuthorityProofs   (TLAPS)
FoldProofs         <- extended by -   ReservationProofs, FillProofs, AuthorityProofs
```

The MC modules only add symmetry sets and constant values; the `.cfg` files give the
constants. A definition marked `Mutant` is a plausible bug: put in the place of the
definition below it, it makes TLC violate the property that `PROJECT.json` names.

### 2.1 `Dispatch`: `GuardedDispatcher` (`dispatch.py`)

State. `chain[a]` is the `submission_attempt` aggregate of attempt `a`: the code
only ever looks at the first event's payload (intent, `prepared_at`), the last
event's type and instant, and the version, so a row keeps these. `bound[i]` is the
attempt named by the `submission_intent` aggregate. `seq` is the journal sequence,
`gate` the holder of the sender-authority lock, `pc`, `loc` and `out` the program
counter, the local variables and the returned `DispatchOutcome` of each call.
`wires[a]` counts the requests the provider received: no code reads it.

Actions. One per journal access or lock operation of `dispatch()`, in the code's
order, so two calls interleave exactly where two processes can:

| code | actions |
|---|---|
| argument validation, lookup of the attempt, of the intent, legacy scan | `Begin`, `Lookup`, `ReadIntent`, `ReadCanonical`, `LegacyScan` |
| `SubmissionPrepared`, first authority check | `AppendPrepared`, `CheckAuthority` |
| the wrapper before, without and with the guard | `RaiseBeforeGuard`, `ReturnWithoutGuard`, `CallGuard` |
| `final_guard`: clock, gate, cut, sender check, re-read, atomic barrier | `ReadBarrierClock`, `AcquireGate`, `TakeCut`, `CheckSender`, `RereadAttempt`, `CommitSending`, `RereadAfterLostCut`, `BlockAfterLostCut` |
| the request and its ends | `Wire`, `TransportRaises`, `TransportReturns`, `RogueWire` |
| verdicts | `ReportBlocked`, `GuardFailed`, `MarkRaised`, `MarkTerminal` |
| `_recover_existing` | `ReadRecovered`, `ResolveSending`, `FencePrepared`, `ReportFenced` |
| death, other writers | `Crash`, `ForeignAppend` |

`now` and `barrier_now` are any clock reading: calls run on different machines.
An append fails when the aggregate's version is not the expected one, or when the
sequence cut of the barrier has moved; a journal that cannot be written at all
raises, as in the code. `Honest = FALSE` lets a provider wrapper call the guard,
hide its rejection and send.

`IntentSubmission` is what the dispatcher promises about one intent: open, then
committed once, then at most one send, then sent or unknown for ever.

### 2.2 `Controller` and `Recovery`: the durable host

`Controller` is the record a `RecoveryController` keeps (state, owner fence,
storage, clock, reconciliation, unresolved attempts and the journal event each was
bound to) with one operator per operation that changes it; each ends with the
recomputation the code ends with, or without it where the code raises first
(`ScanRaised`).

`Recovery` runs one such host beside the journal. Journal: the tail of each attempt,
the owner epoch, the newest checkpoint, an open clock incident, the takeover under
way. Process: controller, epoch of the issued dispatcher, a `set_clock_trusted`
between its append and its assignments. Calls: the step of each `dispatch()`, the
attempts a later call made UNKNOWN and has yet to reflect in the controller (`reflect`),
and the holder of the gate. Sequence numbers are kept as the facts that the code computes
from them: `moved` (the journal moved since the cut of the gate's holder), `fresh`
(the checkpoint is younger than every effectful submission event).

| code | actions |
|---|---|
| `compose_financial_authority`, close, death | `StartHost`, `AttachHost`, `Restart` |
| `record_reconciliation_checkpoint` | `AcceptCheckpoint`, `RefuseCheckpoint` |
| `set_storage_writable`, `set_clock_trusted`, `on_lease_expired`, `stop` | `SetStorageWritable`, `RepeatClockTrust`, `RecordClockTrust` then `ApplyClockTrust`, `OnLeaseExpired`, `Stop` |
| `execute_durable_takeover`, phases 1 and 3 | `StartTakeover`, `CommitOwner`, `CompleteTakeover` (a takeover of another host: `ForeignTakeover`) |
| `RecoveryIssuedDispatcher.dispatch` and the hooks in the send window | `Prepare`, `EnterWindow`, `ScanBeforeSend`, `ValidateSender`, `CheckReconciliation`, `CommitSending`, `LeaveWindow`, `RecordVerdict`, `ReportUnknown`; a call for an old attempt: `RecoverAttempt`, then `ReflectRecovered` |
| `reconcile_account`, other journal writers | `ReconcileAny`, `ForeignAppend` |

Abstractions, all of them on the side of more behaviours unless said otherwise:

* one provider scope; a second scope shares nothing but the lock;
* a checkpoint's content is any that `reconcile_account` can produce for the
  journal of that moment; the evidence arithmetic is data;
* `Sent` and `Blocked` are one tail ("Closed"): the recovery code treats them alike.
  A `Prepared` attempt that a masked rejection makes `Unknown` exists only in
  `Dispatch`;
* one thread changes the clock's trust; clock incidents of other hosts are left out
  (fewer behaviours);
* a journal that cannot be written is the death of the process in `Recovery`;
* identities and digests (`_require_issued_authority`, host bindings, payload
  hashes) are assumed to match: they are tamper checks, not protocol. The
  `PermissionError` of the scan after an UNKNOWN (`recovery_dispatch.py:637`) is one of
  them (fewer behaviours).

### 2.3 `Reservations` and `DurableReservations`

`Reservations` has the operations of `ReservationBook` as a guard and a result on a
book of records: `CanReserve`/`Reserved`, `CanConsume`/`Consumed`, `Filled`,
`CanRestore`/`Restored`, `CanMarkUnknown`/`MarkedUnknown`,
`CanMarkTerminal`/`MarkedTerminal`. `DurableReservations` adds the journal: a process
replays the book (refused when any zero-wire release in it no longer verifies,
`Replayable`), prepares its mutation (`Prepare`), and commits it if the aggregate's
version, or for the atomic commands the whole journal, has not moved (`Commit`,
`Drop`). Beside it run the attempts of the intents, reduced to what the book reads of
them (`PrepareAttempt`, `BlockAttempt`, `SendAttempt`, `SettleAttempt`, `LateUnknown`)
and the checkpoints that prove an attempt absent (`ResolveAbsent`). Evidence is the
attempt it names; digests, artifact receipts and scope checks are left out.
`SendAttempt` asks for a WORKING reservation; that the book has not moved since the
admission is `Authority`'s (`book`).
The plain `consume()`, which carries no journal cut, has no caller outside the tests
and is an operation without the cut here too.

### 2.4 `Orders` and `DurableOrders`

`Orders` has `OrderProjection` as a record with every operation as guard and result
(`CanRecordFill`/`FillRecorded`, `Bust`, `Correction`, `CanRevise`/`Revised`, cancel,
replace, expiry, acknowledgement), the derived state (`StateOf`) and OCO breaches.
`DurableOrders` is the durable book: an event is a request under an event key, the
keys of `sync_submission_attempt` are derived from the attempt's events, and a request
that `_apply` refuses changes nothing (`Execute`). Prices are left out. The book is one
process here; what two processes do to it is checked in `FillCommits`.

### 2.5 `FillCommits`: one execution in five books

An execution of the provider is a fact of the order projection, the reservation, the
ledger, the settlement obligations and the binding that ties them together. `Read` is
the reading a command starts with (a fill's usage, a correction's lineage, a bust's
journal cut), `Prepare` the building of its events, `Commit` the one transaction
(`Fence`: expected versions, and for fills and busts the journal cut). `events` maps
each order event in the journal to the snapshot it carries, a plan holds the one that
was built for it (`Prepared`), and a commit writes that one (`Recorded`). In between,
other processes commit, the order projection is told the same fills and busts by
itself (`Observe`) and settlement evidence arrives (`Settle`). The order and the
reservation are the records of `Orders` and `Reservations`, changed by their operators.
A correction is of the order its execution was bound to, and its chain keeps a
high-water mark (`Raised`, `Additional`); a fill whose
order event is already in the journal is completed with the missing financial events.
Every execution is a cash-equity BUY, which is what the barrier accepts; a usage is one
amount of cash. A fill is committed with its order and its settlement: the forms with
`order_book=None` or `settlement_book=None` (`_provider_activity_accounting_impl.py`
5063-5089), which PAPER and LIVE refuse, are left out; in them finance does go ahead of
the order.

### 2.6 `Authority` and `OperatorCommands`

`Authority` is the `authority_state` aggregate and the processes over it. `log` is the
journal, `mem[w]` what process `w` has replayed or applied; `Apply` and `Restorable`
are the branches of `_restore_journal`, `Restore` one turn of its loop and `Replay` the
loop, a recursive function over the journal. `Persist` appends at the
version the process has seen. `Admit` is one step because whatever commits between its
cut and its commit refuses it; the risk and allocation evidence is the free Boolean
`risk`. `BarrierCheck`, `BarrierCommit` and `BarrierBlocked` are the dispatcher's cut,
check and commit with `dispatch_allowed` between them. `InForce` is the validity window of
each policy.

A service that is constructed does more than replay its own events: for every ADMITTED
record `_restore_journal` validates the financial evidence again, and with it replays the
account's reservation book as it is then, without the artifact reader
(`authority.py:2976`, `authority.py:3556`). `readable` says whether that book still
replays, `BookMoves` is any commit to it or to the attempts it verifies, which may end
that, `BookReads` whether the evidence of the admissions can be read, and `Starts`
whether the constructor returns. A process that has its service keeps working from
memory; one that needs a new one (`Reload`, `Submit`, the worker) needs `Starts`. What
makes a book unreadable is in `DurableReservations`: a release that no longer verifies
(finding 1) and, for this reader, any `MARK_TERMINAL` (section 6). The rest of the
validated evidence is named by event and sequence and does not change.

`OperatorCommands` adds the host: `Submit` binds a command to the authority state of
its acceptance and makes it QUEUED; commands are numbered as they are accepted
(`accepted`). The pass that is to execute it runs after the response's head has been
written, so `Submit` may also leave no pass due (`host_network.py:876`); `Repeat` is the
operator's lost-response retry or a restart of the host. The worker's pass takes the set of those that have not ended, the
earliest first (`PassStart`, `Current`, `Begin`), decides from the authority journal
whether they already have their effects (`Resolved`), may still be executed
(`Executable`) or have failed, writes one event at a time (`Write`, `WriteRefused`) and
records the outcome with its evidence (`Finish`, `Fail`). `UpdateRefused` is an update
that lost the race with another acceptance; after it, and when no service can be
constructed, the operation becomes UNKNOWN (`Fault`), and when that update is refused too,
the pass ends with the error (`Abort`); `Crash` loses the pass. Revocation is
judged by the caller's `now`, as in the code. A command's own revocations are told by its
name; the code compares reason and instant, so two REVOKEs equal in both would take each
other's for their own.

## 3. Runs

| run | instance | shows |
|---|---|---|
| `dispatch` | 2 calls, 2 attempts, 2 intents, clocks 0..1, lease 1, foreign writes up to sequence 2; 1.1 million states | one request and one barrier per intent, persist before send, true outcomes, final verdicts, terminal events not backdated, refinement of `IntentSubmission` |
| `live` | 2 calls, 1 attempt, wrappers that may ignore the guard | every ambiguous or expired attempt gets its terminal event, the gate is given back |
| `recovery` | 2 attempts, 2 epochs, faults of clock, storage and lease; 1.5 million states | READY is qualified, the barrier is qualified, ownership moves once per takeover and over no ambiguous send, UNKNOWN is forgotten only for evidence |
| `recovers` | 2 attempts, storage faults and stops, fairness; 0.2 million states | a host that owns its scope becomes READY |
| `reservations` | 2 processes, 2 reservations, 2 intents, 2 resources, 4 events, 1 attempt; 0.5 million states | conservation, no lost request, no overdrawn admission, nothing released that can fill |
| `orders` | 2 orders (OCO pair or replacement), 2 fills, 2 executions, 2 revisions, 4 events and those of a submission; 80 thousand states | harmless duplicates, safe races, one fill per execution, final busts, OCO breaches kept |
| `fills` | 2 processes, 1 order, its fills, corrections and busts, 5 commits; 1.2 million states | the five books agree, finance follows the order, events replay as prepared, no bust of a settled fill |
| `authority` | 2 processes, 2 policies, 1 confirmation, 2 admissions, 3 operator commands, any number of crashes, 4 events of work, fairness; 0.5 million states | a restart is refused only for the reservation book, memory is what it reads, sends are authorised, outcomes stay verifiable, failed commands report their effects, every command ends while the book can be read |
| `replay`, `resume`, `settled`, `blocked` | 1 attempt; 1 attempt and 2 epochs; as `fills`; 1 process, 1 policy and 3 operator commands (block, restore, block) | violations, findings 1 to 4 |

Why the bounds suffice. Two calls are the least that can race, two attempts the
least that can compete for an intent or leave one attempt ambiguous while the other
sends, two intents show that they do not interfere. With clocks 0..1 and a lease of
1 a reading can be before, inside and after the lease. Two epochs are one takeover
with an old and a new owner. Two processes and four events are a reservation that is
filled, busted and released, or two that compete; one attempt per reservation is what
the callers use. Five commits of `fills` are a fill, two corrections, an observation
and a bust. Two operator commands are the least of which the second is bound to a state
that the first changes; `blocked` needs a third (finding 4), and so does `authority`, for
an acceptance to race each of the two updates that lead to `Abort`. The proofs of
section 5 remove the bounds for every safety property of the passing runs; they remain
for the liveness properties.

Deadlock is checked in the runs of `Dispatch` and `Recovery`; the other models stop
when their bounded events are used up. Symmetry is used for calls, attempts, intents,
processes, orders and keys where no property tells them apart, and in no run with a
liveness property.

## 4. Fairness

`Dispatch!Fairness`: a running call takes its next step (every transport of the
repository has a timeout, and nothing in `dispatch()` waits except for the gate); the
caller dispatches a known attempt again, which the code needs because nothing else
resolves a stale `Sending`; the strong fairness is that of a caller who retries
again and again and is sometimes able to; deaths end.

`Recovery!Fairness`: the operator reconciles and presents the result, repairs clock
and storage, restarts a host and resumes a takeover; `Trouble` ends. Nothing is
assumed of the calls: readiness must not depend on them. `Recovers` exempts a host
whose lease expired (only a takeover cures that), one that was superseded or
stopped, and one that holds on to an attempt that is no longer ambiguous (section 6).

`OperatorCommands!FairSpec`: a pass that is due is started and runs on, and while a
command has not ended the operator comes back (`Repeat`). The code runs a pass at startup
and after a POST whose response head could be written, under a lock; the pass of a client
that is gone by then is lost (`host_network.py:876`), and a pass may end with an error
(`Abort`). The code has no timer that would run another, so an accepted command needs the
operator's repeated POST, which `submit` recognises as a lost-response retry and answers,
or the next start of the host. Crashes end. Nothing is assumed of other processes. `OperationsEnd` is
claimed only while `BookReads`: without a service every pass ends the command UNKNOWN,
for ever (section 6).

## 5. Proofs

Every safety property that a passing run checks, invariant or action property, is also
a theorem: it holds for all values of the constants that satisfy the named assumptions,
without the bounds of section 3. `PROJECT.json` lists the theorems; each proof module
starts from an inductive invariant `Init => IInv`, `IInv /\ [Next]_vars => IInv'`, with
one lemma per action.

`DispatchProofs`: any calls, attempts and intents, any lease and clock range.
`TypeCorrect`, `SentAtMostOnce`, `PersistBeforeSend`, `OutcomesTrue` (these three with
wrappers that keep the guard's contract), `BarrierOnce`, `VerdictsFinal`,
`ResolutionsDated` and `Refinement` (the safety part is all `IntentSubmission` has; it
too assumes such wrappers). `IInv` adds what the journal's rows look like and that a
bound row passed the barrier (`JournalOK`), what a call may rely on at each label about
rows that other calls may have changed since (`CallOK`), that an attempt has at most one
call that may still send (`OneOwner`: only the call whose `SubmissionPrepared` was
inserted goes on), and that returned outcomes stay true (`OutcomeOK`). The step lemma
`RowStep` says the few ways in which a step may change a row; from it the facts of all
other calls follow at once, so each action needs only its own argument.
`ResolutionsDated` needs one fact more, `Dated`: a call past its barrier dates its
verdict with the reading that its own Sending carries, so only recovery could backdate
one, and recovery takes the later of the two instants.

`RecoveryProofs`: any attempts, epochs and faults. `TypeCorrect`, `ReadyQualified`,
`QualifiedSends`, `OwnerMoves`, `EvidenceForUnknown`. `IInv` has four parts. `Coherent`:
the controller's fields agree with each other; one lemma per operation of `Controller`.
`Ownership`: nothing precedes the first owner. `Windows`: the call in its send window
holds the gate. `Qualified` is the reason for the journal cut: each of the four checks of
the send window establishes a fact about the journal, and it still holds at the barrier
*if the journal has not moved since the cut*; what other threads do to the controller in
between cannot invalidate it.

`ReservationProofs`: any processes, reservations, resources and amounts.
`BookTypeCorrect`, `AmountsConserved`, `AdmissionsFit`, `LedgerAddsUp`, and
`ReleasesAreSafe` (with one attempt per intent, which is what the callers of the
zero-wire release do). Conservation is not inductive because a process commits the copy
it has prepared: `PlansConserved` says it of these copies too. An admission fits at its
commit because a plan whose version is still current was made from the book of now; for
the same reason (`PlansApply`) a commit adds exactly its request to the book, so consumed
plus restored stays the sum of the committed usages (`Balanced`), and no request is lost
or counted twice. A release is safe because the evidence it was verified against, a
blocked attempt or a proof of absence, closes the attempt's way to the barrier for good.

`OrderProofs`: any orders, fills, executions, revisions, commands and event keys.
`OrderTypeCorrect`, `PendingExclusive`, `OneFillPerExecution`, `DuplicatesHarmless`,
`RacesSafe`, `BustsFinal`, `BreachesStay`. `RecordOK` relates what an order's record
keeps twice, in its fills and in its history: fills and executions correspond, a revision
has the fill it revises before it. `Extends` is what every operation does to a registered
order: nothing observed is forgotten and nothing busted is revived; the action
properties follow from it. The races are an argument of their own: commands and ends
leave the fills alone (`LifecycleKeepsFills`) and read nothing of them that a fill
changes (`LifecycleCommutes`).

`FillProofs`: any processes, orders, executions, corrections and commits.
`FillTypeCorrect`, `BooksStayTogether`, `FinanceFollows`, `EventsReplay`,
`SettledStaysBooked`. `OmsOK` and `BooksOK` describe the books at rest: the lineage of an
execution has at most its last fill active, the reservation has consumed the sum of the
conservative usages of the executions that stand, every bound fill and every reversal
has its order event. The heart is `Plans`: what a prepared command assumes of the books
(`FillStands`, `BustStands`, `ReadStands`) is true *as long as its fence would let it
commit*: the journal cut for a fill and a bust, the versions of ledger and reservation and
the length of the chain for a correction. `PlanStays` shows that any other commit either
moves that fence or leaves alone what the plan relies on; so at its own commit a plan is
as good as one made in that very state, and `FillBooks`, `CorrectBooks` and `BustBooks`
do the accounting.

`AuthorityProofs`: any processes, policies, confirmations, admissions, commands and
crashes. `AuthorityTypeCorrect`, `RestartsAgree`, `OutcomesStay`, `FailuresReport`,
`SendsAuthorised`. `Sound`: the journal replays, and its replayed state says of policies,
revocations and the block what its events say. `Remembered`: a process has the replay of
a prefix. `RestartsAgree` follows: the authority journal itself is never the reason why a
restart is refused, only the reservation book is (`Starts <=> BookReads`). So whoever persists at the end of the journal judges by the journal itself, and
the event is one that a restart accepts. `Barriers`: while nothing has overtaken its cut,
a barrier's check holds of the journal and the reservation book still replays, which is
why the commit may rely on it. `Queued`
and `Working` tie an operation to the events that carry its name: they come after its cut
and are what it asked for; the worker's list of missing events is still right if nobody
has written since. `SettledStays` is why outcomes stay verifiable: evidence consists of
events, and no later event takes it away.

`FoldProofs`: what the folds compute. The induction theorems of the library cannot be
used (their parameter is an operator), so an induction is written as an argument about a
least counterexample, which the library's theorem that well-founded orders have minimal
elements provides (`LeastNumber`, `SmallestSubset`). With it: a recursive function
exists and is unique; the sum over a set grows by what is added to the set, also when the
element is not the one that `CHOOSE` takes first (`SumWith`, `SumWithout`); `Replay` of a
longer journal is one `Restore` more (`ReplayAppend`).

The assumptions are the named ones of the modules (`ConstantsAssumption`,
`ResourceAssumption`, `RecoveryAssumption`, `BookAssumption`, `NoIntentAssumption`,
`NoRequestAssumption`, `OrdersAssumption`, `ExistingAssumption`, `EvidenceAssumption`, `NoneAssumption`,
`AuthorityConstants`): special values are not members of their sets,
bounds are natural numbers, the lease is positive, switches are Booleans, amounts are
amounts. `EvidenceAssumption` also says that an execution has one fill report and a fill
id one execution: reports that disagree on identity are refused as conflicts before any
book is read.

Only model-checked: the liveness properties `EventuallyTerminal`, `GateReleased`,
`Recovers` and `OperationsEnd`, because fairness and ENABLED are out of the prover's
reach. The properties of the violation runs are false of the code.

## 6. Findings

Each is a violation run whose trace was repeated with the repository's classes.

1. `replay`. Recovery fences an expired `SubmissionPrepared` as BLOCKED, and its
   reservation is released with that evidence. The original call's own
   `SubmissionBlocked` then loses the version race, its `ValueError` is taken for a
   failed wrapper, and `SubmissionUnknown` is appended to the attempt. Every replay of
   the reservation book verifies the release again, finds three events and raises:
   the account's book is unreadable.
2. `resume`. A takeover that started over a resolved UNKNOWN is refused by its own
   rescan, at every resumption, with the senders frozen.
3. `settled`. A bust asks for settlement evidence and refuses a settled fill, a
   correction does not. A settled BUY of 100 that is corrected to 50 shows all of the
   cash as settled and 50 of it as available again, although the provider has evidenced
   no return.
4. `blocked`. An operator blocks, asks to restore, and blocks again before the restore
   is executed. The last block was bound to the first one, so after the restore it is
   reported SUCCEEDED without a block.

Further disagreements between the code and its documentation that came up while
modelling and were repeated on the code; the models contain them, but no run is kept
for them:

* a reservation that `mark_terminal` has ended carries a resolution artifact, and a book
  without the artifact reader refuses to replay it (`durable_reservations.py:1794`).
  `_validate_durable_financial_evidence` opens just such a book (`authority.py:3556`), so
  no `AuthorityService` can be constructed over that journal any more: restarts and
  submissions are refused, and accepted commands stay UNKNOWN. The history of finding 1
  ends the same way. In `Authority` this is `BookMoves` making `readable` false.
  (`mark_terminal` has no caller outside the tests);
* an attempt that never passed the barrier can end UNKNOWN (the fence race of finding
  1; comment in `_recover_existing`);
* a checkpoint of before a clock incident can be accepted during it, and
  `set_clock_trusted(True)` alone then gives READY (`recovery.py:998`);
* a scan that overlaps a send binds the attempt to its `Sending` event; the later
  `Unknown` is a conflict, and `dispatch()` raises instead of returning UNKNOWN; and an
  attempt noted like this and then `Sent` stays unresolved until a restart
  (`recovery.py:673`, `recovery.py:685`);
* a zero-wire release looks at the one attempt it is given; a second attempt of the
  same intent may be on the wire (`durable_reservations.py:1590`; the one caller uses a
  single attempt per intent);
* a correction or bust that is delivered again after a later revision is compared with
  a record made from the fill of now and is a conflict (`order_projection.py:494`), and a
  REJECTED outcome is added to an order that was already cancelled or expired
  (`order_projection.py:365`);
* a partial fill that only the order projection has, followed by the final fill through
  the atomic command, marks the reservation FILLED, and the first fill's finance can no
  longer be booked (`_provider_activity_accounting_impl.py:3573`);
* when later order events follow an order-only fill, its recovery commits and then
  raises "atomic OMS fill replay differs from prepared snapshot";
* an accepted BLOCK or REVOKE fails with "authority changed outside accepted operation"
  when any admission is recorded after its cut, and SET_AUTHORITY can be SUCCEEDED for a
  policy that was revoked since.

## 7. Not modelled

`PROJECT.json` lists every component. Left out for good: decimal arithmetic of books,
products and risk (data without control), exchange adapters and HTTP (external
services), identity documents and digests, simulation and research (single-threaded,
without order authority), presentation, packaging and tools. These are by far the
larger part of the repository's lines: it holds a quarter of a million, most of them
validation of documents, product formulas, research pipelines and their tooling, which
have no state shared between actors. The models follow the parts where steps of
several actors meet.

Hazards without a property: `set_clock_trusted(False)` and the process-local
invalidations (lease, storage, stop) do not stop a call that has passed its sender
check, and the code does not say they should; a checkpoint of before a clock incident
is accepted (section 6); the lock order of the vault and the gate and the outbox are
planned.

Not checked, though near a property: that an execution id is not used by two orders
(`ExecutionIsOneFill` is of one order; `record_fill` accepts the second,
`effective_fills` refuses to read it, `order_projection.py:1056`); two REVOKE commands
with equal reason and instant (section 2.6); fills without an order or a settlement book
(section 2.5); the `PermissionError` of section 2.2; the evidence of an admission other
than its reservation book (section 2.6); admissions without durable risk evidence.

## 8. Plan

1. `Takeover`: phase 2 with credential revocation, receipts and the vault's lock,
   several hosts, lock order and deadlock freedom; refinement of the takeover
   actions of `Recovery`.
2. `Outbox`: at-least-once delivery and the command inbox of the journal.
3. The model budget journal, the in-memory operations of `RecoveryController`, the
   simulation commands of the operator.
4. Proofs: that a READY host's send window and the dispatcher's barrier compose
   (`Recovery` as the environment of `Dispatch`); an abstract specification of the
   reservation book that `DurableReservations` and `FillCommits` both implement.
