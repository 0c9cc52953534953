---------------------------- MODULE FillCommits ----------------------------
(***************************************************************************)
(* The atomic fill barrier of                                              *)
(* mvp/autotrade_mvp/_provider_activity_accounting_impl.py. One execution  *)
(* of the provider is a fact of five books kept in one journal: the order  *)
(* projection (module Orders), the reservation of the order's intent       *)
(* (module Reservations), the economic ledger, the settlement obligations  *)
(* and the binding that ties them together. A fill, its corrections and    *)
(* its bust are commands that read the books one after the other and       *)
(* append one event to each in a single journal transaction; other         *)
(* processes commit between the reads.                                     *)
(*                                                                         *)
(* Each order has the reservation of the same name. Every execution is a   *)
(* cash-equity BUY, the only family that the barrier accepts, so a usage   *)
(* is an amount of cash: the price and the fee are in the cost. A request  *)
(* stands for the command_id, idempotency_key and event_key its caller     *)
(* derives from it.                                                        *)
(***************************************************************************)
EXTENDS Naturals, FiniteSets, Functions, Sequences

CONSTANTS
  Procs,        \* threads or processes with handles on the books
  OrderIds,     \* client_order_id values
  Size,         \* requested quantity of an order
  Envelope,     \* cash reserved for an order
  Fills,        \* fills the provider reports: order, exec, fid, qty, cost
  Corrections,  \* corrections it reports: order, exec, of, fid, qty, cost
  MaxCommits,   \* bound: transactions of the journal
  None

FillIds == {q.fid : q \in Fills \cup Corrections}

Executions == {q.exec : q \in Fills}

Busts == {[q EXCEPT !.op = "BUST"] : q \in Fills}

ASSUME EvidenceAssumption ==
  /\ Size \in Nat \ {0}
  /\ Envelope \in Nat \ {0}
  /\ MaxCommits \in Nat
  /\ Fills \subseteq [op : {"FILL"}, order : OrderIds, exec : Executions,
                      of : {None}, fid : FillIds, qty : Nat \ {0}, cost : Nat \ {0}]
  /\ Corrections \subseteq
       [op : {"CORRECT"}, order : OrderIds, exec : Executions,
        of : FillIds, fid : FillIds, qty : Nat \ {0}, cost : Nat \ {0}]
  /\ \A q, r \in Fills : q.exec = r.exec \/ q.fid = r.fid => q = r

VARIABLES
  oms,     \* order book
  events,  \* OMS request in the journal -> the snapshot in its event
  resv,    \* reservation book
  ledger,  \* fill id -> its economic transaction
  owed,    \* fill id -> its settlement obligation
  bound,   \* execution -> evidence of its initial financial binding
  chain,   \* execution -> its correction bindings
  cmds,    \* committed commands
  ver,     \* versions of the aggregates
  seq,     \* journal sequence
  plan     \* process -> what its command has read and prepared

books == <<oms, events, resv, ledger, owed, bound, chain>>
vars == <<books, cmds, ver, seq, plan>>

O == INSTANCE Orders WITH
       Orders <- OrderIds, Groups <- {}, Sizes <- {Size},
       Revisions <- FillIds \cup {"bust"},
       Quantities <- {q.qty : q \in Fills \cup Corrections},
       Attempts <- {}, ProviderIds <- {}, Commands <- {}

R == INSTANCE Reservations WITH
       Rids <- OrderIds, Intents <- OrderIds, NoIntent <- None,
       Resources <- {"CASH"}

\* No id and no evidence is Python's None.
ASSUME NoneAssumption ==
  /\ None \notin Fills \cup FillIds \cup Executions
  /\ None \notin O!Observations

Cash(n) == [x \in {"CASH"} |-> n]

Requests == Fills \cup Corrections \cup Busts

Cancels == {[op |-> "CANCEL", order |-> o] : o \in OrderIds}

OmsRequests == Requests \cup Cancels

\* The aggregates that have a version of their own; a binding aggregate's
\* version is the number of its events.
Aggregates == {"oms", "resv", "ledger", "owed"}

-----------------------------------------------------------------------------
\* The order projection.

FillOf(q) == O!Fill(q.fid, q.exec, q.qty, None)

\* The fill that the provider reported first for an execution.
RootFill(e) == CHOOSE f \in FillIds : \E q \in Fills : q.exec = e /\ q.fid = f

RevisionOf(r, q) ==
  IF q.op = "BUST" THEN O!Bust(r, RootFill(q.exec), "bust", RootFill(q.exec))
  ELSE O!Correction(r, RootFill(q.exec), q.qty, q.fid, q.fid)

OmsAccepts(q) ==
  LET r == oms[q.order] IN
  CASE q.op = "FILL" -> O!CanRecordFill(r, FillOf(q))
    [] q.op = "CANCEL" -> O!CanConfirmCancel(r)
    [] OTHER -> r.fills[RootFill(q.exec)] # None /\ O!CanRevise(r, RevisionOf(r, q))

OmsAfter(q) ==
  LET r == oms[q.order] IN
  CASE q.op = "FILL" -> O!FillRecorded(r, FillOf(q))
    [] q.op = "CANCEL" -> O!CancelConfirmed(r)
    [] OTHER -> O!Revised(r, RevisionOf(r, q))

\* The snapshot a plan on the order book carries: the historical one when the
\* event is in the journal already.
OmsSnapshot(q) ==
  IF q \in DOMAIN events THEN events[q] ELSE O!Snapshot(OmsAfter(q))

Recorded(q, snapshot) ==
  [x \in DOMAIN events \cup {q} |-> IF x = q THEN snapshot ELSE events[x]]

-----------------------------------------------------------------------------
\* Economics, settlement and bindings.

NoTransaction == [exec |-> None, cost |-> 0, reversed |-> FALSE]

Booked(f) == ledger[f] # NoTransaction

Active(e) == {f \in FillIds : ledger[f].exec = e /\ ~ledger[f].reversed}

\* The end of an execution's lineage, and the usage it is held to: a
\* correction to less does not lower it.
ActiveFill(e) ==
  IF chain[e] = <<>> THEN bound[e].fid ELSE chain[e][Len(chain[e])].fid

ConservativeUsage(e) ==
  IF chain[e] = <<>> THEN bound[e].cost ELSE chain[e][Len(chain[e])].high

\* The high-water mark that a correction leaves.
Raised(q) ==
  IF q.cost > ConservativeUsage(q.exec) THEN q.cost ELSE ConservativeUsage(q.exec)

\* Mutant: the delta is taken from the fill that is corrected.
AdditionalOverCorrected(q) ==
  IF q.cost > ledger[q.of].cost THEN q.cost - ledger[q.of].cost ELSE 0

\* _exact_usage_increase
Additional(q) == Raised(q) - ConservativeUsage(q.exec)

-----------------------------------------------------------------------------
\* The orders are accepted by the provider, their reservations are working.
Init ==
  /\ oms = [o \in OrderIds |-> O!Acknowledged(O!Created(Size, None, None), None, None,
                                              "ACCEPTED")]
  /\ events = <<>>
  /\ resv = [o \in OrderIds |-> [state |-> "WORKING", intent |-> o,
                                 original |-> Cash(Envelope),
                                 remaining |-> Cash(Envelope), consumed |-> Cash(0)]]
  /\ ledger = [f \in FillIds |-> NoTransaction]
  /\ owed = [f \in FillIds |-> "None"]
  /\ bound = [e \in Executions |-> None]
  /\ chain = [e \in Executions |-> <<>>]
  /\ cmds = {}
  /\ ver = [g \in Aggregates |-> 0]
  /\ seq = 0
  /\ plan = [p \in Procs |-> None]

\* What a command reads before it builds its events. A fill derives its usage
\* from the reservation. A correction must name the reservation of the initial
\* binding, extend the active lineage of its execution, change its economics
\* and stay inside the envelope. A bust fixes the journal sequence.
ReadsFill(q) == bound[q.exec] = None

ReadsCorrection(q) ==
  /\ bound[q.exec] # None /\ bound[q.exec].order = q.order
  /\ q.of = ActiveFill(q.exec)
  /\ Active(q.exec) = {q.of}
  /\ q.cost # ledger[q.of].cost
  /\ q.cost <= Envelope

ReadsBust(q) == bound[q.exec] # None /\ bound[q.exec].fid = q.fid

Read(p, q) ==
  /\ plan[p] = None
  /\ q \notin cmds
  /\ \/ q.op = "FILL" /\ ReadsFill(q)
     \/ q.op = "CORRECT" /\ ReadsCorrection(q)
     \/ q.op = "BUST" /\ ReadsBust(q)
  /\ plan' = [plan EXCEPT ![p] =
       [req |-> q, ready |-> FALSE, rec |-> resv[q.order], snapshot |-> None,
        cut |-> IF q.op = "BUST" THEN seq ELSE 0,
        links |-> IF q.op = "CORRECT" THEN Len(chain[q.exec]) ELSE 0,
        extra |-> IF q.op = "CORRECT" THEN Additional(q) ELSE 0,
        high |-> IF q.op = "CORRECT" THEN Raised(q) ELSE 0,
        ver |-> [g \in Aggregates |-> 0]]]
  /\ UNCHANGED <<books, cmds, ver, seq>>

-----------------------------------------------------------------------------
\* commit_provider_fill_with_reservation_consumption: the OMS event may be in
\* the journal already, the financial events all together or not at all.  (The
\* forms without an order book or without a settlement book, which the code
\* refuses in PAPER and LIVE, are left out.)
PreparesFill(pl) ==
  LET q == pl.req IN
  /\ q \in DOMAIN events \/ OmsAccepts(q)
  /\ ~Booked(q.fid)
  /\ owed[q.fid] = "None"
  /\ resv[q.order] = pl.rec
  /\ R!CanConsume(resv, q.order, Cash(q.cost))

\* Mutant: what remains of the reservation is not checked again.
PreparesAnyCorrection(pl) ==
  Active(pl.req.exec) = {pl.req.of} /\ ~Booked(pl.req.fid) /\ owed[pl.req.fid] = "None"

\* commit_provider_fill_correction_with_settlement_replacement: the order book
\* has no part in it, the reservation only when more is to be consumed.
PreparesCorrection(pl) ==
  LET q == pl.req IN
  /\ Active(q.exec) = {q.of}
  /\ ~Booked(q.fid)
  /\ owed[q.fid] = "None"
  /\ pl.extra > 0 => /\ resv[q.order] = pl.rec
                     /\ R!CanConsume(resv, q.order, Cash(pl.extra))

\* commit_provider_fill_bust_with_economic_reversal: never after a settlement,
\* and only of the fill that the binding and the order projection show.
PreparesBust(pl) ==
  LET q == pl.req IN
  /\ Active(q.exec) = {q.fid}
  /\ owed[q.fid] # "Settled"
  /\ q \notin DOMAIN events =>
       OmsAccepts(q) /\ oms[q.order].fills[q.fid] = FillOf(q)
  /\ resv[q.order] = pl.rec
  /\ R!CanRestore(resv, q.order, Cash(q.cost))

Prepares(pl) ==
  \/ pl.req.op = "FILL" /\ PreparesFill(pl)
  \/ pl.req.op = "CORRECT" /\ PreparesCorrection(pl)
  \/ pl.req.op = "BUST" /\ PreparesBust(pl)

\* The events that are to be appended, and the versions they go in at.
Prepared(pl) ==
  [pl EXCEPT !.ready = TRUE, !.ver = ver, !.rec = None,
             !.cut = IF pl.req.op = "FILL" THEN seq ELSE pl.cut,
             !.snapshot = IF pl.req.op = "CORRECT" THEN None ELSE OmsSnapshot(pl.req)]

Prepare(p) ==
  /\ plan[p] # None /\ ~plan[p].ready
  /\ Prepares(plan[p])
  /\ plan' = [plan EXCEPT ![p] = Prepared(plan[p])]
  /\ UNCHANGED <<books, cmds, ver, seq>>

-----------------------------------------------------------------------------
\* Mutant: a bust is left to the order projection's own observation of it.
WritesOmsOfFill(pl) == pl.req.op = "FILL" /\ pl.req \notin DOMAIN events

WritesOms(pl) == pl.req.op # "CORRECT" /\ pl.req \notin DOMAIN events

\* The aggregates that get an event.
Writes(pl) ==
  {"ledger"} \cup (IF WritesOms(pl) THEN {"oms"} ELSE {})
             \cup (IF pl.req.op # "BUST" THEN {"owed"} ELSE {})
             \cup (IF pl.req.op # "CORRECT" \/ pl.extra > 0 THEN {"resv"} ELSE {})

\* Mutant: a command that has its expected versions ignores the journal cut.
FenceVersions(pl) ==
  /\ \A g \in Writes(pl) : ver[g] = pl.ver[g]
  /\ pl.req.op = "FILL" => bound[pl.req.exec] = None
  /\ pl.req.op = "CORRECT" => Len(chain[pl.req.exec]) = pl.links

\* Mutant: only the binding's own version is compared.
FenceBindings(pl) ==
  /\ pl.req.op = "FILL" => bound[pl.req.exec] = None
  /\ pl.req.op = "CORRECT" => Len(chain[pl.req.exec]) = pl.links

\* commit_command: each event goes in at its aggregate's next version, and for
\* a fill or a bust nothing has been appended since the cut.
Fence(pl) ==
  /\ \A g \in Writes(pl) : ver[g] = pl.ver[g]
  /\ pl.req.op = "FILL" => bound[pl.req.exec] = None
  /\ pl.req.op = "CORRECT" => Len(chain[pl.req.exec]) = pl.links
  /\ pl.req.op \in {"FILL", "BUST"} => seq = pl.cut

\* The order is FILLED, not overfilled and not ended by anything else.
OrderFilled(pl) == pl.snapshot.state = <<"FILLED", "OPEN", "None">>

\* What a replay of the reservation event makes of the book.
ReservationAfter(pl) ==
  LET q == pl.req IN
  CASE q.op = "FILL" /\ OrderFilled(pl) -> R!Filled(resv, q.order, Cash(q.cost))
    [] q.op = "FILL" /\ ~OrderFilled(pl) -> R!Consumed(resv, q.order, Cash(q.cost))
    [] q.op = "CORRECT" -> R!Consumed(resv, q.order, Cash(pl.extra))
    [] q.op = "BUST" -> R!Restored(resv, q.order, Cash(q.cost))

\* The reversal of a correction or a bust, and the transaction booked instead.
LedgerAfter(q) ==
  LET new == [exec |-> q.exec, cost |-> q.cost, reversed |-> FALSE] IN
  CASE q.op = "FILL" -> [ledger EXCEPT ![q.fid] = new]
    [] q.op = "CORRECT" -> [ledger EXCEPT ![q.of].reversed = TRUE, ![q.fid] = new]
    [] q.op = "BUST" -> [ledger EXCEPT ![q.fid].reversed = TRUE]

Commit(p) ==
  /\ seq < MaxCommits
  /\ plan[p] # None /\ plan[p].ready
  /\ Fence(plan[p])
  /\ LET pl == plan[p]
         q == pl.req
     IN /\ IF WritesOms(pl)
           THEN /\ oms' = [oms EXCEPT ![q.order] = OmsAfter(q)]
                /\ events' = Recorded(q, pl.snapshot)
           ELSE UNCHANGED <<oms, events>>
        /\ resv' = IF "resv" \in Writes(pl) THEN ReservationAfter(pl) ELSE resv
        /\ ledger' = LedgerAfter(q)
        /\ owed' = IF q.op = "BUST" THEN owed ELSE [owed EXCEPT ![q.fid] = "Registered"]
        /\ bound' = IF q.op = "FILL" THEN [bound EXCEPT ![q.exec] = q] ELSE bound
        /\ chain' = IF q.op # "CORRECT" THEN chain
                    ELSE [chain EXCEPT ![q.exec] = Append(@, [fid |-> q.fid, high |-> pl.high])]
        /\ ver' = [g \in Aggregates |-> IF g \in Writes(pl) THEN ver[g] + 1 ELSE ver[g]]
        /\ cmds' = cmds \cup {q}
  /\ seq' = seq + 1
  /\ plan' = [plan EXCEPT ![p] = None]

\* The command lost the race, was refused, or its process died.
Drop(p) ==
  /\ plan[p] # None
  /\ plan' = [plan EXCEPT ![p] = None]
  /\ UNCHANGED <<books, cmds, ver, seq>>

-----------------------------------------------------------------------------
\* Other commands on the same journal. Each compares what it has read with the
\* journal it appends to, so it takes effect at one moment.

\* DurableOrderBookProjection: an observation of the provider reaches the
\* order projection by itself.
Observe(q) ==
  /\ seq < MaxCommits
  /\ q \notin DOMAIN events
  /\ OmsAccepts(q)
  /\ oms' = [oms EXCEPT ![q.order] = OmsAfter(q)]
  /\ events' = Recorded(q, O!Snapshot(OmsAfter(q)))
  /\ ver' = [ver EXCEPT !["oms"] = @ + 1]
  /\ seq' = seq + 1
  /\ UNCHANGED <<resv, ledger, owed, bound, chain, cmds, plan>>

\* apply_settlement: the provider's evidence that an obligation was paid. The
\* economic book is not consulted.
Settle(f) ==
  /\ seq < MaxCommits
  /\ owed[f] = "Registered"
  /\ owed' = [owed EXCEPT ![f] = "Settled"]
  /\ ver' = [ver EXCEPT !["owed"] = @ + 1]
  /\ seq' = seq + 1
  /\ UNCHANGED <<oms, events, resv, ledger, bound, chain, cmds, plan>>

Next ==
  \/ \E p \in Procs, q \in Requests : Read(p, q)
  \/ \E p \in Procs : Prepare(p) \/ Commit(p) \/ Drop(p)
  \/ \E q \in OmsRequests : Observe(q)
  \/ \E f \in FillIds : Settle(f)

Spec == Init /\ [][Next]_vars

-----------------------------------------------------------------------------
\* Type correctness.
TypeOK ==
  /\ oms \in O!Books
  /\ DOMAIN events \subseteq OmsRequests
  /\ resv \in R!Books
  /\ ledger \in [FillIds -> [exec : Executions \cup {None}, cost : Nat, reversed : BOOLEAN]]
  /\ owed \in [FillIds -> {"None", "Registered", "Settled"}]
  /\ bound \in [Executions -> Fills \cup {None}]
  /\ chain \in [Executions -> Seq([fid : FillIds, high : Nat])]
  /\ cmds \subseteq Requests

\* Its fill is reversed and nothing stands in its place.
Busted(e) == bound[e] # None /\ Active(e) = {}

\* Executions of an order that the books hold to be filled.
Standing(o) == {e \in Executions : bound[e] # None /\ bound[e].order = o /\ ~Busted(e)}

(***************************************************************************)
(* The financial books tell the same story after every mix of fills,       *)
(* corrections and busts of several processes. A bound execution has one   *)
(* active transaction, the end of its lineage, until it is busted; what is *)
(* consumed of a reservation is the conservative usage of its executions   *)
(* and covers what their active transactions cost ("a smaller correction   *)
(* never releases authority", "prevents repeated corrections from          *)
(* double-consuming the same delta").                                      *)
(***************************************************************************)
BooksAgree ==
  /\ \A e \in Executions :
       /\ bound[e] = None => Active(e) = {}
       /\ bound[e] # None => Booked(bound[e].fid) /\ owed[bound[e].fid] # "None"
       /\ bound[e] # None /\ ~Busted(e) => Active(e) = {ActiveFill(e)}
       /\ \A f \in Active(e) : owed[f] # "None" /\ ledger[f].cost <= ConservativeUsage(e)
  /\ \A o \in OrderIds :
       resv[o].consumed["CASH"] =
         SumFunction([e \in Standing(o) |-> ConservativeUsage(e)])

(***************************************************************************)
(* Finance follows the order projection: no execution is bound that the    *)
(* order does not have, and none is reversed that still counts as filled   *)
(* ("Finance-without-OMS and unproven split state fail closed").           *)
(***************************************************************************)
FinanceFollowsOms ==
  \A e \in Executions : bound[e] # None =>
    LET fill == oms[bound[e].order].fills[bound[e].fid] IN
    fill # None /\ (Busted(e) => ~fill.active)

(***************************************************************************)
(* An event that gets into the journal replays to the snapshot that was    *)
(* prepared for it; one that does not stops every later replay of its book *)
(* (_replay of the order and reservation books).                           *)
(***************************************************************************)
ReplaysAsPrepared ==
  [][/\ \A q \in DOMAIN events : q \in DOMAIN events' /\ events'[q] = events[q]
     /\ \A q \in DOMAIN events' \ DOMAIN events :
          O!Snapshot(oms'[q.order]) = events'[q]]_vars

(***************************************************************************)
(* A fill whose settlement the provider has evidenced is not busted, also  *)
(* when the evidence arrives while the bust is being prepared ("A source   *)
(* that already has settlement-completion evidence is blocked").           *)
(***************************************************************************)
SettledNotBusted ==
  [][\A e \in Executions :
       ~Busted(e) /\ Busted(e)' => owed[bound[e].fid] # "Settled"]_vars

(***************************************************************************)
(* Cash that the provider has evidenced as paid does not become spendable  *)
(* again by a reversal alone: the active cost of an execution does not     *)
(* fall below what was settled for it ("Merely reversing trade-date        *)
(* economics would otherwise let a BUY reversal restore settled cash       *)
(* before the provider has evidenced that cash return").                   *)
(***************************************************************************)
SpendableIsEvidenced ==
  \A f \in FillIds : owed[f] = "Settled" =>
    LET e == ledger[f].exec
        settled == {g \in FillIds : ledger[g].exec = e /\ owed[g] = "Settled"}
    IN \/ \E g \in Active(e) : ledger[g].cost >= ledger[f].cost
       \/ \E g \in settled : g # f

=============================================================================
