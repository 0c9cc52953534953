----------------------------- MODULE FillProofs -----------------------------
(***************************************************************************)
(* Proofs about FillCommits, for any number of processes, orders,          *)
(* executions, corrections and commits.                                    *)
(***************************************************************************)
EXTENDS FillCommits, FoldProofs, SequenceTheorems, TLAPS

Transactions == [exec : Executions \cup {None}, cost : Nat, reversed : BOOLEAN]

Links == [fid : FillIds, high : Nat]

-----------------------------------------------------------------------------
(* The inductive invariant.                                                *)

\* What was observed of a fill is known, and a bust is not forgotten.
HistoryKept(r) ==
  \A h \in r.history :
    /\ r.fills[O!Root(h)] # None
    /\ ~h.active => ~r.fills[O!Root(h)].active

\* An order has the fills of the events in the journal.
Projected(o) ==
  /\ \A f \in FillIds : oms[o].fills[f] # None =>
       \E q \in Fills : q.order = o /\ q.fid = f /\ q \in DOMAIN events
  /\ HistoryKept(oms[o])

OmsOK ==
  /\ oms \in O!Books
  /\ DOMAIN events \subseteq OmsRequests
  /\ \A o \in OrderIds : Projected(o)
  /\ \A q \in DOMAIN events :
       /\ q.op \in {"FILL", "BUST"} => oms[q.order].fills[q.fid] # None
       /\ q.op = "BUST" => ~oms[q.order].fills[q.fid].active

\* A reservation never holds and has consumed more than was reserved.
ReservationOK(rec) ==
  rec.consumed["CASH"] + rec.remaining["CASH"] <= rec.original["CASH"]

\* Every transaction is of an execution that is bound.
LedgerOK ==
  /\ ledger \in [FillIds -> Transactions]
  /\ owed \in [FillIds -> {"None", "Registered", "Settled"}]
  /\ \A f \in FillIds :
       /\ ledger[f].exec = None => ledger[f] = NoTransaction
       /\ ledger[f].exec # None => bound[ledger[f].exec] # None /\ owed[f] # "None"

\* The lineage of an execution: its first fill is booked, and reversed when
\* there are corrections; at most its last fill is active.
Lineage(e) ==
  /\ bound[e] = None => chain[e] = <<>>
  /\ bound[e] # None =>
       /\ bound[e] \in Fills
       /\ bound[e].exec = e
       /\ ledger[bound[e].fid].exec = e
       /\ chain[e] # <<>> => ledger[bound[e].fid].reversed
       /\ Active(e) \subseteq {ActiveFill(e)}
       /\ \A f \in Active(e) : ledger[f].cost <= ConservativeUsage(e)

\* The initial fill of an execution and its reversal are in the order book.
Followed(e) ==
  bound[e] # None =>
    /\ bound[e] \in DOMAIN events
    /\ Active(e) = {} => [bound[e] EXCEPT !.op = "BUST"] \in DOMAIN events

Used(o) == SumFunction([e \in Standing(o) |-> ConservativeUsage(e)])

BooksOK ==
  /\ resv \in R!Books
  /\ \A o \in OrderIds : ReservationOK(resv[o]) /\ resv[o].consumed["CASH"] = Used(o)
  /\ LedgerOK
  /\ bound \in [Executions -> Fills \cup {None}]
  /\ IsFiniteSet({e \in Executions : bound[e] # None})
  /\ chain \in [Executions -> Seq(Links)]
  /\ \A e \in Executions : Lineage(e) /\ Followed(e)

Counters ==
  /\ cmds \subseteq Requests
  /\ seq \in Nat
  /\ ver \in [Aggregates -> Nat]

\* What a command has read still holds if what fences it has not moved.
ReadStands(pl) ==
  LET q == pl.req IN
  /\ q.op = "CORRECT" =>
       /\ bound[q.exec] # None /\ bound[q.exec].order = q.order
       /\ pl.links <= Len(chain[q.exec])
       /\ pl.links = Len(chain[q.exec]) =>
            /\ q.of = ActiveFill(q.exec)
            /\ pl.high = Raised(q)
            /\ pl.extra = Additional(q)
  /\ q.op = "BUST" => bound[q.exec] # None /\ bound[q.exec].fid = q.fid

FillStands(pl) ==
  LET q == pl.req IN
  /\ q \in DOMAIN events \/ OmsAccepts(q)
  /\ ~Booked(q.fid)
  /\ R!CanConsume(resv, q.order, Cash(q.cost))
  /\ pl.snapshot = OmsSnapshot(q)

BustStands(pl) ==
  LET q == pl.req IN
  /\ Active(q.exec) = {q.fid}
  /\ owed[q.fid] # "Settled"
  /\ q \in DOMAIN events \/ OmsAccepts(q)
  /\ R!CanRestore(resv, q.order, Cash(q.cost))
  /\ pl.snapshot = OmsSnapshot(q)

PreparedStands(pl) ==
  LET q == pl.req IN
  /\ pl.ver \in [Aggregates -> Nat]
  /\ \A g \in Aggregates : pl.ver[g] <= ver[g]
  /\ q.op = "FILL" /\ pl.cut = seq => FillStands(pl)
  /\ q.op = "BUST" /\ pl.cut = seq => BustStands(pl)
  /\ q.op = "CORRECT" /\ pl.ver["ledger"] = ver["ledger"] =>
       Active(q.exec) = {q.of} /\ ~Booked(q.fid)
  /\ q.op = "CORRECT" /\ pl.extra > 0 /\ pl.ver["resv"] = ver["resv"] =>
       R!CanConsume(resv, q.order, Cash(pl.extra))

PlanOK(pl) ==
  /\ DOMAIN pl = {"req", "ready", "rec", "snapshot", "cut", "links", "extra", "high", "ver"}
  /\ pl.req \in Requests
  /\ pl.ready \in BOOLEAN
  /\ pl.cut \in 0 .. seq
  /\ pl.links \in Nat /\ pl.extra \in Nat /\ pl.high \in Nat
  /\ ReadStands(pl)
  /\ pl.ready => PreparedStands(pl)

Plans ==
  /\ DOMAIN plan = Procs
  /\ \A p \in Procs : plan[p] # None => PlanOK(plan[p])

IInv == OmsOK /\ BooksOK /\ Counters /\ Plans

-----------------------------------------------------------------------------
(* The evidence.                                                           *)

LEMMA FillFields ==
  ASSUME NEW q \in Fills
  PROVE  /\ q.op = "FILL" /\ q.order \in OrderIds /\ q.exec \in Executions
         /\ q.fid \in FillIds /\ q.qty \in Nat \ {0} /\ q.cost \in Nat \ {0}
         /\ q \in Requests /\ q # None
  BY EvidenceAssumption, NoneAssumption DEF Requests

\* What the evidence of a correction is made of.
LEMMA CorrectionFields ==
  ASSUME NEW q \in Corrections
  PROVE  /\ q.op = "CORRECT" /\ q.order \in OrderIds /\ q.exec \in Executions
         /\ q.of \in FillIds /\ q.fid \in FillIds
         /\ q.qty \in Nat \ {0} /\ q.cost \in Nat \ {0} /\ q \in Requests
  BY EvidenceAssumption DEF Requests

\* A bust is the fill it takes back, under another operation.
LEMMA BustFields ==
  ASSUME NEW q \in Busts
  PROVE  \E r \in Fills :
           /\ q = [r EXCEPT !.op = "BUST"] /\ q.op = "BUST" /\ q.order = r.order
           /\ q.exec = r.exec /\ q.fid = r.fid /\ q.qty = r.qty /\ q.cost = r.cost
<1>1. PICK r \in Fills : q = [r EXCEPT !.op = "BUST"]
  BY DEF Busts
<1>2. DOMAIN r = {"op", "order", "exec", "of", "fid", "qty", "cost"}
  BY EvidenceAssumption
<1> QED  BY <1>1, <1>2

\* A request is a fill, a correction or a bust, and its operation says which.
LEMMA RequestFields ==
  ASSUME NEW q \in Requests
  PROVE  /\ q.op \in {"FILL", "CORRECT", "BUST"}
         /\ q.order \in OrderIds /\ q.exec \in Executions /\ q.fid \in FillIds
         /\ q.qty \in Nat \ {0} /\ q.cost \in Nat \ {0}
         /\ (q.op = "FILL" <=> q \in Fills) /\ (q.op = "CORRECT" <=> q \in Corrections)
         /\ (q.op = "BUST" <=> q \in Busts)
         /\ q \in OmsRequests
<1>1. CASE q \in Fills
  BY <1>1, FillFields, CorrectionFields, BustFields DEF OmsRequests
<1>2. CASE q \in Corrections
  BY <1>2, FillFields, CorrectionFields, BustFields DEF OmsRequests
<1>3. CASE q \in Busts
  BY <1>3, FillFields, CorrectionFields, BustFields DEF OmsRequests
<1> QED  BY <1>1, <1>2, <1>3 DEF Requests

\* The order projection is told the requests and cancels.
LEMMA OmsRequestFields ==
  ASSUME NEW q \in OmsRequests
  PROVE  /\ q.op \in {"FILL", "CORRECT", "BUST", "CANCEL"}
         /\ q.order \in OrderIds
         /\ q.op # "CANCEL" => q \in Requests
  BY RequestFields DEF OmsRequests, Cancels

\* The provider reports one fill first of each execution.
LEMMA OneFill ==
  ASSUME NEW q \in Fills, NEW r \in Fills, q.exec = r.exec \/ q.fid = r.fid
  PROVE  q = r
  BY EvidenceAssumption

\* An execution's first fill is the one of its only fill observation.
LEMMA RootFillOf ==
  ASSUME NEW q \in Fills
  PROVE  RootFill(q.exec) = q.fid
<1>1. q.fid \in FillIds /\ \E r \in Fills : r.exec = q.exec /\ r.fid = q.fid
  BY FillFields
<1>2. PICK f : f = RootFill(q.exec)
  OBVIOUS
<1>3. \E r \in Fills : r.exec = q.exec /\ r.fid = f
  BY <1>1, <1>2 DEF RootFill
<1> QED  BY <1>2, <1>3, OneFill

LEMMA RootFillIn ==
  ASSUME NEW e \in Executions
  PROVE  RootFill(e) \in FillIds /\ RootFill(e) # None
<1>1. PICK q \in Fills : q.exec = e
  BY DEF Executions
<1>2. RootFill(e) = q.fid
  BY <1>1, RootFillOf
<1> QED  BY <1>2, FillFields, NoneAssumption

-----------------------------------------------------------------------------
(* The order book.                                                         *)

\* The fill of its order that an observation is about.
Target(q) == IF q.op = "FILL" THEN q.fid ELSE RootFill(q.exec)

\* A fill observation is its own root and counts.
LEMMA FillOfType ==
  ASSUME NEW q \in Fills
  PROVE  /\ FillOf(q) \in O!Observations /\ FillOf(q) # None
         /\ O!Root(FillOf(q)) = q.fid /\ FillOf(q).active /\ FillOf(q).fid = q.fid
<1>1. FillOf(q) = [fid |-> q.fid, exec |-> q.exec, qty |-> q.qty, active |-> TRUE,
                   rev |-> None, of |-> None]
  BY DEF FillOf, O!Fill
<1>2. q.qty \in {r.qty : r \in Fills \cup Corrections}
  OBVIOUS
<1>3. FillOf(q) \in O!Observations
  BY <1>1, <1>2, FillFields DEF O!Observations
<1>4. PICK h : h = FillOf(q)
  OBVIOUS
<1>5. h.of = None /\ h.fid = q.fid /\ h.active = TRUE
  BY <1>1, <1>4
<1>6. O!Root(h) = q.fid
  BY <1>5 DEF O!Root
<1>7. h # None
  BY <1>3, <1>4, NoneAssumption
<1> QED  BY <1>3, <1>4, <1>5, <1>6, <1>7

\* A revision is of the execution's first fill, and never revives it.
LEMMA RevisionType ==
  ASSUME NEW q \in Corrections \cup Busts, NEW r \in O!OrderRecords,
         r.fills[RootFill(q.exec)] # None
  PROVE  LET h == RevisionOf(r, q) IN
         /\ h \in O!Observations /\ h # None
         /\ h.of = RootFill(q.exec) /\ O!Root(h) = RootFill(q.exec)
         /\ q \in Busts => ~h.active
         /\ ~r.fills[RootFill(q.exec)].active => ~h.active
<1>1. q \in Requests /\ q.exec \in Executions /\ (q.op = "BUST" <=> q \in Busts)
  BY RequestFields DEF Requests
<1>2. PICK f \in FillIds : f = RootFill(q.exec) /\ f # None
  BY <1>1, RootFillIn
<1>3. PICK g \in O!Observations : g = r.fills[f]
  BY <1>2 DEF O!OrderRecords
<1>4. PICK h : h = RevisionOf(r, q)
  OBVIOUS
<1>5. h \in O!Observations /\ h.of = f /\ (q \in Busts => ~h.active) /\ (~g.active => ~h.active)
  <2>1. CASE q.op = "BUST"
    <3>1. h = [g EXCEPT !.fid = f, !.active = FALSE, !.rev = "bust", !.of = f]
      BY <1>2, <1>3, <1>4, <2>1 DEF RevisionOf, O!Bust
    <3> QED  BY <3>1 DEF O!Observations
  <2>2. CASE q.op # "BUST"
    <3>1. q \in Corrections
      BY <1>1, <2>2
    <3>2. h = [g EXCEPT !.fid = q.fid, !.qty = q.qty, !.rev = q.fid, !.of = f]
      BY <1>2, <1>3, <1>4, <2>2 DEF RevisionOf, O!Correction
    <3>3. q.fid \in FillIds /\ q.qty \in {x.qty : x \in Fills \cup Corrections}
      BY <3>1, CorrectionFields
    <3> QED  BY <1>1, <2>2, <3>2, <3>3 DEF O!Observations
  <2> QED  BY <2>1, <2>2
<1>6. O!Root(h) = f
  BY <1>2, <1>5 DEF O!Root
<1> QED  BY <1>2, <1>3, <1>4, <1>5, <1>6, NoneAssumption

LEMMA RootType ==
  ASSUME NEW h \in O!Observations
  PROVE  O!Root(h) \in FillIds
  BY DEF O!Root, O!Observations

\* Every fill that is known stays known, and inactive once it is.
FillsKept(r, n) ==
  \A f \in FillIds : r.fills[f] # None =>
    n.fills[f] # None /\ (~r.fills[f].active => ~n.fills[f].active)

Observed(r, f, h) == [r EXCEPT !.fills[f] = h, !.history = @ \cup {h}]

\* Noting an observation that revives nothing keeps the history of the order.
LEMMA ObservedKeeps ==
  ASSUME NEW r \in O!OrderRecords, HistoryKept(r), NEW h \in O!Observations, h # None,
         NEW f \in FillIds, f = O!Root(h),
         r.fills[f] # None /\ ~r.fills[f].active => ~h.active
  PROVE  LET n == Observed(r, f, h) IN
         /\ n \in O!OrderRecords
         /\ n.fills = [r.fills EXCEPT ![f] = h]
         /\ FillsKept(r, n)
         /\ HistoryKept(n)
<1>1. PICK n : n = Observed(r, f, h)
  OBVIOUS
<1>2. n = [r EXCEPT !.fills = [r.fills EXCEPT ![f] = h], !.history = r.history \cup {h}]
  BY <1>1 DEF Observed
<1>3. r.fills \in [FillIds -> O!Observations \cup {None}] /\ r.history \in SUBSET O!Observations
  BY DEF O!OrderRecords
<1>4. [r.fills EXCEPT ![f] = h] \in [FillIds -> O!Observations \cup {None}]
  BY <1>3
<1>5. r.history \cup {h} \in SUBSET O!Observations
  BY <1>3
<1>6. n \in O!OrderRecords
  BY <1>2, <1>4, <1>5 DEF O!OrderRecords
<1>7. n.fills = [r.fills EXCEPT ![f] = h] /\ n.history = r.history \cup {h}
  BY <1>2 DEF O!OrderRecords
<1>8. FillsKept(r, n)
  BY <1>3, <1>7 DEF FillsKept
<1>9. ASSUME NEW g \in n.history
      PROVE  n.fills[O!Root(g)] # None /\ (~g.active => ~n.fills[O!Root(g)].active)
  <2>1. CASE g = h
    BY <1>3, <1>7, <2>1
  <2>2. CASE g \in r.history
    <3>1. O!Root(g) \in FillIds
      BY <1>3, <2>2, RootType
    <3>2. r.fills[O!Root(g)] # None /\ (~g.active => ~r.fills[O!Root(g)].active)
      BY <2>2 DEF HistoryKept
    <3> QED  BY <1>8, <3>1, <3>2 DEF FillsKept
  <2> QED  BY <1>7, <1>9, <2>1, <2>2
<1> QED  BY <1>1, <1>6, <1>7, <1>8, <1>9 DEF HistoryKept

\* What an accepted observation that is new to the journal does to its order.
OmsStepped(q, n) ==
  /\ n \in O!OrderRecords
  /\ FillsKept(oms[q.order], n)
  /\ HistoryKept(n)
  /\ \A f \in FillIds : n.fills[f] # None =>
       oms[q.order].fills[f] # None \/ (q \in Fills /\ f = q.fid)
  /\ q.op \in {"FILL", "BUST"} => n.fills[q.fid] # None
  /\ q.op = "BUST" => ~n.fills[q.fid].active

\* What an accepted event does to its order.
LEMMA OmsStep ==
  ASSUME OmsOK, NEW q \in OmsRequests, q \notin DOMAIN events, OmsAccepts(q)
  PROVE  OmsStepped(q, OmsAfter(q))
<1>1. PICK r \in O!OrderRecords : r = oms[q.order] /\ HistoryKept(r)
  BY OmsRequestFields DEF OmsOK, O!Books, Projected
<1>2. PICK n : n = OmsAfter(q)
  OBVIOUS
<1>3. r.fills \in [FillIds -> O!Observations \cup {None}] /\ r.history \in SUBSET O!Observations
  BY DEF O!OrderRecords
<1>4. FillsKept(r, r)
  BY DEF FillsKept
<1>5. CASE q.op = "FILL"
  <2>1. q \in Fills /\ q.fid \in FillIds
    BY <1>5, OmsRequestFields, RequestFields
  <2>2. PICK h : h = FillOf(q)
    OBVIOUS
  <2>3. h \in O!Observations /\ h # None /\ O!Root(h) = q.fid /\ h.fid = q.fid
    BY <2>1, <2>2, FillOfType
  <2>4. n = IF h \in r.history THEN r ELSE Observed(r, q.fid, h)
    BY <1>1, <1>2, <1>5, <2>2, <2>3 DEF OmsAfter, O!FillRecorded, Observed
  <2>5. CASE h \in r.history
    <3>1. r.fills[q.fid] # None
      BY <1>1, <2>3, <2>5 DEF HistoryKept
    <3> QED  BY <1>1, <1>2, <1>4, <1>5, <2>4, <2>5, <3>1 DEF OmsStepped
  <2>6. CASE h \notin r.history
    <3>1. r.fills[q.fid] = None
      <4>1. SUFFICES ASSUME r.fills[q.fid] # None PROVE FALSE
        OBVIOUS
      <4>2. PICK x \in Fills : x.fid = q.fid /\ x \in DOMAIN events
        BY <1>1, <2>1, <4>1, OmsRequestFields DEF OmsOK, Projected
      <4> QED  BY <2>1, <4>2, OneFill
    <3>2. n = Observed(r, q.fid, h)
      BY <2>4, <2>6
    <3>3. /\ n \in O!OrderRecords /\ n.fills = [r.fills EXCEPT ![q.fid] = h]
          /\ FillsKept(r, n) /\ HistoryKept(n)
      BY <1>1, <2>1, <2>3, <3>1, <3>2, ObservedKeeps
    <3> QED  BY <1>1, <1>2, <1>3, <1>5, <2>1, <2>3, <3>3 DEF OmsStepped
  <2> QED  BY <2>5, <2>6
<1>6. CASE q.op = "CANCEL"
  <2>1. n = [r EXCEPT !.cancelRequested = TRUE, !.cancelled = TRUE]
    BY <1>1, <1>2, <1>6 DEF OmsAfter, O!CancelConfirmed
  <2>2. n \in O!OrderRecords /\ n.fills = r.fills /\ n.history = r.history
    BY <2>1 DEF O!OrderRecords
  <2>3. FillsKept(r, n) /\ HistoryKept(n)
    BY <1>1, <2>2 DEF FillsKept, HistoryKept
  <2> QED  BY <1>1, <1>2, <1>6, <2>2, <2>3 DEF OmsStepped
<1>7. CASE q.op \in {"CORRECT", "BUST"}
  <2>1. q \in Corrections \cup Busts /\ q \in Requests /\ q.exec \in Executions
        /\ (q.op = "BUST" <=> q \in Busts)
    BY <1>7, OmsRequestFields, RequestFields
  <2>2. PICK f \in FillIds : f = RootFill(q.exec) /\ f # None
    BY <2>1, RootFillIn
  <2>3. r.fills[f] # None
    BY <1>1, <1>7, <2>2 DEF OmsAccepts
  <2>4. PICK h : h = RevisionOf(r, q)
    OBVIOUS
  <2>5. /\ h \in O!Observations /\ h # None /\ h.of = f /\ O!Root(h) = f
        /\ q \in Busts => ~h.active
        /\ ~r.fills[f].active => ~h.active
    BY <2>1, <2>2, <2>3, <2>4, RevisionType
  <2>6. n = IF h \in r.history THEN r ELSE Observed(r, f, h)
    BY <1>1, <1>2, <1>7, <2>4, <2>5 DEF OmsAfter, O!Revised, Observed
  <2>7. q.op = "BUST" => q.fid = f
    <3>1. SUFFICES ASSUME q \in Busts PROVE q.fid = f
      BY <2>1
    <3>2. PICK x \in Fills : q.exec = x.exec /\ q.fid = x.fid
      BY <3>1, BustFields
    <3> QED  BY <2>2, <3>2, RootFillOf
  <2>8. CASE h \in r.history
    <3>1. ~h.active => ~r.fills[f].active
      BY <1>1, <2>5, <2>8 DEF HistoryKept
    <3>2. n = r
      BY <2>6, <2>8
    <3> QED  BY <1>1, <1>2, <1>4, <1>7, <2>1, <2>3, <2>5, <2>7, <3>1, <3>2 DEF OmsStepped
  <2>9. CASE h \notin r.history
    <3>1. n = Observed(r, f, h)
      BY <2>6, <2>9
    <3>2. /\ n \in O!OrderRecords /\ n.fills = [r.fills EXCEPT ![f] = h]
          /\ FillsKept(r, n) /\ HistoryKept(n)
      BY <1>1, <2>5, <3>1, ObservedKeeps
    <3>3. \A g \in FillIds : n.fills[g] # None => r.fills[g] # None
      BY <1>3, <2>3, <3>2
    <3>4. n.fills[f] = h
      BY <1>3, <3>2
    <3> QED  BY <1>1, <1>2, <1>7, <2>1, <2>5, <2>7, <3>2, <3>3, <3>4 DEF OmsStepped
  <2> QED  BY <2>8, <2>9
<1> QED  BY <1>5, <1>6, <1>7, OmsRequestFields

\* Writing an accepted event keeps the order book and the other events.
LEMMA OmsWritten ==
  ASSUME OmsOK, NEW q \in OmsRequests, q \notin DOMAIN events, OmsAccepts(q), NEW s,
         oms' = [oms EXCEPT ![q.order] = OmsAfter(q)], events' = Recorded(q, s)
  PROVE  /\ OmsOK'
         /\ DOMAIN events' = DOMAIN events \cup {q}
         /\ events'[q] = s
         /\ \A x \in DOMAIN events : events'[x] = events[x]
         /\ oms'[q.order] = OmsAfter(q)
<1>1. PICK n : n = OmsAfter(q) /\ OmsStepped(q, n)
  BY OmsStep
<1>2. q.order \in OrderIds /\ oms \in [OrderIds -> O!OrderRecords]
  BY OmsRequestFields DEF OmsOK, O!Books
<1>3. n \in O!OrderRecords
  BY <1>1 DEF OmsStepped
<1>4. oms' = [oms EXCEPT ![q.order] = n]
  BY <1>1
<1>5. oms' \in O!Books
  BY <1>2, <1>3, <1>4 DEF O!Books
<1>6. oms'[q.order] = n /\ \A o \in OrderIds \ {q.order} : oms'[o] = oms[o]
  BY <1>2, <1>4
<1>7. DOMAIN events' = DOMAIN events \cup {q} /\ events'[q] = s
  BY DEF Recorded
<1>8. \A x \in DOMAIN events : events'[x] = events[x]
  BY DEF Recorded
<1>9. DOMAIN events' \subseteq OmsRequests
  BY <1>7 DEF OmsOK
<1>10. ASSUME NEW o \in OrderIds PROVE FillsKept(oms[o], oms'[o])
  <2>1. CASE o = q.order
    BY <1>1, <1>6, <2>1 DEF OmsStepped
  <2>2. CASE o # q.order
    BY <1>6, <1>10, <2>2 DEF FillsKept
  <2> QED  BY <2>1, <2>2
<1>11. ASSUME NEW o \in OrderIds PROVE Projected(o)'
  <2>1. HistoryKept(oms'[o])
    <3>1. CASE o = q.order
      BY <1>1, <1>6, <3>1 DEF OmsStepped
    <3>2. CASE o # q.order
      BY <1>6, <1>11, <3>2 DEF OmsOK, Projected
    <3> QED  BY <3>1, <3>2
  <2>2. ASSUME NEW f \in FillIds, oms'[o].fills[f] # None
        PROVE  \E x \in Fills : x.order = o /\ x.fid = f /\ x \in DOMAIN events'
    <3>1. CASE oms[o].fills[f] # None
      BY <1>7, <1>11, <2>2, <3>1 DEF OmsOK, Projected
    <3>2. CASE oms[o].fills[f] = None
      <4>1. o = q.order
        BY <1>6, <1>11, <2>2, <3>2
      <4>2. q \in Fills /\ f = q.fid
        BY <1>1, <1>6, <2>2, <3>2, <4>1 DEF OmsStepped
      <4> QED  BY <1>7, <4>1, <4>2
    <3> QED  BY <3>1, <3>2
  <2>3. HistoryKept(oms[o])'
    BY <2>1 DEF HistoryKept
  <2> QED  BY <2>2, <2>3 DEF Projected
<1>12. ASSUME NEW x \in DOMAIN events'
       PROVE  /\ x.op \in {"FILL", "BUST"} => oms'[x.order].fills[x.fid] # None
              /\ x.op = "BUST" => ~oms'[x.order].fills[x.fid].active
  <2>1. CASE x = q
    BY <1>1, <1>6, <2>1 DEF OmsStepped
  <2>2. CASE x \in DOMAIN events /\ x.op \in {"FILL", "BUST"}
    <3>1. x \in OmsRequests
      BY <2>2 DEF OmsOK
    <3>2. x.order \in OrderIds /\ x.fid \in FillIds
      BY <2>2, <3>1, OmsRequestFields, RequestFields
    <3>3. /\ oms[x.order].fills[x.fid] # None
          /\ x.op = "BUST" => ~oms[x.order].fills[x.fid].active
      BY <2>2 DEF OmsOK
    <3>4. FillsKept(oms[x.order], oms'[x.order])
      BY <1>10, <3>2
    <3> QED  BY <2>2, <3>2, <3>3, <3>4 DEF FillsKept
  <2> QED  BY <1>7, <2>1, <2>2
<1> QED  BY <1>1, <1>5, <1>6, <1>7, <1>8, <1>9, <1>11, <1>12 DEF OmsOK

-----------------------------------------------------------------------------
(* The reservations.                                                       *)

\* The book b is resv with another record of o, which has consumed n.
ReservationMoved(b, o, n) ==
  /\ b \in R!Books
  /\ ReservationOK(b[o])
  /\ b[o].consumed["CASH"] = n
  /\ \A x \in OrderIds \ {o} : b[x] = resv[x]

LEMMA RecordFields ==
  ASSUME NEW rec \in R!Records
  PROVE  /\ rec.original \in [{"CASH"} -> Nat] /\ rec.original["CASH"] \in Nat
         /\ rec.remaining \in [{"CASH"} -> Nat] /\ rec.remaining["CASH"] \in Nat
         /\ rec.consumed \in [{"CASH"} -> Nat] /\ rec.consumed["CASH"] \in Nat
<1>1. /\ rec.original \in [{"CASH"} -> Nat] /\ rec.remaining \in [{"CASH"} -> Nat]
      /\ rec.consumed \in [{"CASH"} -> Nat]
  BY DEF R!Records, R!Amounts
<1> QED  BY <1>1

\* Putting a record into the book moves one reservation.
LEMMA PutMoved ==
  ASSUME resv \in R!Books, NEW o \in OrderIds, NEW rec \in R!Records, ReservationOK(rec),
         NEW b, b = R!Put(resv, o, rec)
  PROVE  ReservationMoved(b, o, rec.consumed["CASH"])
<1>1. resv \in [OrderIds -> R!Records] /\ b = [resv EXCEPT ![o] = rec]
  BY DEF R!Books, R!Put
<1>2. b \in R!Books
  BY <1>1 DEF R!Books
<1>3. b[o] = rec /\ \A x \in OrderIds \ {o} : b[x] = resv[x]
  BY <1>1
<1> QED  BY <1>2, <1>3 DEF ReservationMoved

\* Consumption raises what one reservation has consumed.
LEMMA ConsumedMoves ==
  ASSUME resv \in R!Books, NEW o \in OrderIds, ReservationOK(resv[o]), NEW n \in Nat,
         R!CanConsume(resv, o, Cash(n))
  PROVE  /\ ReservationMoved(R!Consumed(resv, o, Cash(n)), o, resv[o].consumed["CASH"] + n)
         /\ ReservationMoved(R!Filled(resv, o, Cash(n)), o, resv[o].consumed["CASH"] + n)
<1>1. PICK rec \in R!Records : rec = resv[o]
  BY DEF R!Books
<1>2. PICK c, m, t \in Nat : c = rec.consumed["CASH"] /\ m = rec.remaining["CASH"]
                             /\ t = rec.original["CASH"]
  BY RecordFields
<1>3. n <= m /\ c + m <= t
  BY <1>1, <1>2 DEF R!CanConsume, R!AtMost, Cash, ReservationOK
<1>4. R!Plus(rec.consumed, Cash(n)) = Cash(c + n) /\ R!Minus(rec.remaining, Cash(n)) = Cash(m - n)
  BY <1>2 DEF R!Plus, R!Minus, Cash
<1>5. R!Zero = Cash(0)
  BY DEF R!Zero, Cash
<1>6. \A i \in Nat : Cash(i) \in R!Amounts /\ Cash(i)["CASH"] = i
  BY DEF R!Amounts, Cash
<1>7. c + n \in Nat /\ m - n \in Nat /\ c + n + (m - n) <= t /\ c + n + 0 <= t
  BY <1>3
<1>8. ReservationMoved(R!Consumed(resv, o, Cash(n)), o, c + n)
  <2>1. PICK new : new = [rec EXCEPT !.remaining = Cash(m - n), !.consumed = Cash(c + n)]
    OBVIOUS
  <2>2. new \in R!Records /\ new.consumed = Cash(c + n) /\ new.remaining = Cash(m - n)
        /\ new.original = rec.original
    BY <1>6, <1>7, <2>1 DEF R!Records
  <2>3. ReservationOK(new)
    BY <1>2, <1>6, <1>7, <2>2 DEF ReservationOK
  <2>4. R!Consumed(resv, o, Cash(n)) = R!Put(resv, o, new)
    BY <1>1, <1>4, <2>1 DEF R!Consumed
  <2>5. new.consumed["CASH"] = c + n
    BY <1>6, <1>7, <2>2
  <2> QED  BY <2>2, <2>3, <2>4, <2>5, PutMoved
<1>9. ReservationMoved(R!Filled(resv, o, Cash(n)), o, c + n)
  <2>1. PICK new : new = [rec EXCEPT !.state = "FILLED", !.remaining = Cash(0),
                                     !.consumed = Cash(c + n)]
    OBVIOUS
  <2>2. new \in R!Records /\ new.consumed = Cash(c + n) /\ new.remaining = Cash(0)
        /\ new.original = rec.original
    BY <1>6, <1>7, <2>1 DEF R!Records, R!TerminalStates
  <2>3. ReservationOK(new)
    BY <1>2, <1>6, <1>7, <2>2 DEF ReservationOK
  <2>4. R!Filled(resv, o, Cash(n)) = R!Put(resv, o, new)
    BY <1>1, <1>4, <1>5, <2>1 DEF R!Filled
  <2>5. new.consumed["CASH"] = c + n
    BY <1>6, <1>7, <2>2
  <2> QED  BY <2>2, <2>3, <2>4, <2>5, PutMoved
<1> QED  BY <1>1, <1>2, <1>8, <1>9

\* Restoring consumption lowers it again.
LEMMA RestoredMoves ==
  ASSUME resv \in R!Books, NEW o \in OrderIds, ReservationOK(resv[o]), NEW n \in Nat,
         R!CanRestore(resv, o, Cash(n))
  PROVE  ReservationMoved(R!Restored(resv, o, Cash(n)), o, resv[o].consumed["CASH"] - n)
<1>1. PICK rec \in R!Records : rec = resv[o]
  BY DEF R!Books
<1>2. PICK c, m, t \in Nat : c = rec.consumed["CASH"] /\ m = rec.remaining["CASH"]
                             /\ t = rec.original["CASH"]
  BY RecordFields
<1>3. n <= c /\ c + m <= t
  BY <1>1, <1>2 DEF R!CanRestore, R!AtMost, Cash, ReservationOK
<1>4. R!Minus(rec.consumed, Cash(n)) = Cash(c - n) /\ R!Plus(rec.remaining, Cash(n)) = Cash(m + n)
  BY <1>2 DEF R!Plus, R!Minus, Cash
<1>5. R!Minus(rec.original, Cash(c - n)) = Cash(t - (c - n))
  BY <1>2 DEF R!Minus, Cash
<1>6. \A i \in Nat : Cash(i) \in R!Amounts /\ Cash(i)["CASH"] = i
  BY DEF R!Amounts, Cash
<1>7. /\ c - n \in Nat /\ m + n \in Nat /\ t - (c - n) \in Nat
      /\ (c - n) + (m + n) <= t /\ (c - n) + (t - (c - n)) <= t /\ (c - n) + m <= t
  BY <1>3
<1> DEFINE Result(new) ==
             /\ new \in R!Records /\ ReservationOK(new) /\ new.consumed["CASH"] = c - n
             /\ R!Restored(resv, o, Cash(n)) = R!Put(resv, o, new)
<1>8. \E new : Result(new)
  <2>1. CASE rec.state = "FILLED"
    <3>1. PICK new : new = [rec EXCEPT !.state = "BUSTED", !.consumed = Cash(c - n),
                                       !.remaining = Cash(t - (c - n))]
      OBVIOUS
    <3>2. new \in R!Records /\ new.consumed = Cash(c - n) /\ new.remaining = Cash(t - (c - n))
          /\ new.original = rec.original
      BY <1>6, <1>7, <3>1 DEF R!Records, R!HeldStates
    <3>3. ReservationOK(new) /\ new.consumed["CASH"] = c - n
      BY <1>2, <1>6, <1>7, <3>2 DEF ReservationOK
    <3>4. R!Restored(resv, o, Cash(n)) = R!Put(resv, o, new)
      BY <1>1, <1>4, <1>5, <2>1, <3>1 DEF R!Restored
    <3> QED  BY <3>2, <3>3, <3>4
  <2>2. CASE rec.state = "CANCELED"
    <3>1. PICK new : new = [rec EXCEPT !.consumed = Cash(c - n)]
      OBVIOUS
    <3>2. new \in R!Records /\ new.consumed = Cash(c - n) /\ new.remaining = rec.remaining
          /\ new.original = rec.original
      BY <1>6, <1>7, <3>1 DEF R!Records
    <3>3. ReservationOK(new) /\ new.consumed["CASH"] = c - n
      BY <1>2, <1>6, <1>7, <3>2 DEF ReservationOK
    <3>4. R!Restored(resv, o, Cash(n)) = R!Put(resv, o, new)
      BY <1>1, <1>4, <2>2, <3>1 DEF R!Restored
    <3> QED  BY <3>2, <3>3, <3>4
  <2>3. CASE rec.state \notin {"FILLED", "CANCELED"}
    <3>1. PICK new : new = [rec EXCEPT !.consumed = Cash(c - n), !.remaining = Cash(m + n)]
      OBVIOUS
    <3>2. new \in R!Records /\ new.consumed = Cash(c - n) /\ new.remaining = Cash(m + n)
          /\ new.original = rec.original
      BY <1>6, <1>7, <3>1 DEF R!Records
    <3>3. ReservationOK(new) /\ new.consumed["CASH"] = c - n
      BY <1>2, <1>6, <1>7, <3>2 DEF ReservationOK
    <3>4. R!Restored(resv, o, Cash(n)) = R!Put(resv, o, new)
      BY <1>1, <1>4, <2>3, <3>1 DEF R!Restored
    <3> QED  BY <3>2, <3>3, <3>4
  <2> QED  BY <2>1, <2>2, <2>3
<1>9. PICK new : Result(new)
  BY <1>8
<1>10. ReservationMoved(R!Restored(resv, o, Cash(n)), o, c - n)
  BY <1>9, PutMoved
<1> QED  BY <1>1, <1>2, <1>10

-----------------------------------------------------------------------------
(* Sums over the executions of an order.                                   *)

LEMMA SumSplit ==
  ASSUME NEW f, IsFiniteSet(DOMAIN f), \A y \in DOMAIN f : f[y] \in Nat, NEW x \in DOMAIN f,
         NEW g, DOMAIN g = DOMAIN f \ {x}, \A y \in DOMAIN g : g[y] = f[y]
  PROVE  /\ SumFunction(f) = f[x] + SumFunction(g)
         /\ SumFunction(g) \in Nat
<1>1. PICK S : S = DOMAIN f \ {x}
  OBVIOUS
<1>2. SumFunctionOnSet(f, DOMAIN f) = f[x] + SumFunctionOnSet(f, S)
  BY <1>1, SumWithout
<1>3. IsFiniteSet(S)
  BY <1>1, FS_Subset
<1>4. SumFunctionOnSet(g, S) = SumFunctionOnSet(f, S)
  BY <1>1, <1>3, SumSame
<1>5. SumFunctionOnSet(f, S) \in Nat
  BY <1>1, <1>3, SumType
<1>6. SumFunction(f) = SumFunctionOnSet(f, DOMAIN f) /\ SumFunction(g) = SumFunctionOnSet(g, S)
  BY <1>1 DEF SumFunction, SumFunctionOnSet
<1> QED  BY <1>2, <1>4, <1>5, <1>6

\* Raising one summand raises the sum by as much.
LEMMA SumRaised ==
  ASSUME NEW f, IsFiniteSet(DOMAIN f), \A y \in DOMAIN f : f[y] \in Nat, NEW x \in DOMAIN f,
         NEW g, DOMAIN g = DOMAIN f, \A y \in DOMAIN f \ {x} : g[y] = f[y],
         NEW n \in Nat, g[x] = f[x] + n
  PROVE  SumFunction(g) = SumFunction(f) + n
<1>1. PICK h : h = [y \in DOMAIN f \ {x} |-> f[y]]
  OBVIOUS
<1>2. SumFunction(f) = f[x] + SumFunction(h) /\ SumFunction(h) \in Nat
  BY <1>1, SumSplit
<1>3. \A y \in DOMAIN g : g[y] \in Nat
  <2>1. ASSUME NEW y \in DOMAIN g PROVE g[y] \in Nat
    <3>1. CASE y = x
      BY <3>1
    <3>2. CASE y # x
      BY <2>1, <3>2
    <3> QED  BY <3>1, <3>2
  <2> QED  BY <2>1
<1>4. IsFiniteSet(DOMAIN g) /\ x \in DOMAIN g /\ DOMAIN h = DOMAIN g \ {x}
  BY <1>1
<1>5. \A y \in DOMAIN h : h[y] = g[y]
  BY <1>1
<1>6. SumFunction(g) = g[x] + SumFunction(h)
  BY <1>3, <1>4, <1>5, SumSplit
<1> QED  BY <1>2, <1>6

-----------------------------------------------------------------------------
(* The financial books.                                                    *)

LEMMA LastLink ==
  ASSUME NEW s \in Seq(Links)
  PROVE  /\ Len(s) \in Nat
         /\ s # <<>> => Len(s) > 0 /\ s[Len(s)].fid \in FillIds /\ s[Len(s)].high \in Nat
<1>1. Len(s) \in Nat /\ (s # <<>> => Len(s) \in 1 .. Len(s))
  BY EmptySeq
<1>2. s # <<>> => s[Len(s)] \in Links
  BY <1>1, ElementOfSeq
<1> QED  BY <1>1, <1>2 DEF Links

LEMMA NextLink ==
  ASSUME NEW s \in Seq(Links), NEW x \in Links, NEW t, t = Append(s, x)
  PROVE  t \in Seq(Links) /\ t # <<>> /\ Len(t) = Len(s) + 1 /\ t[Len(t)] = x
  BY AppendProperties

\* What an execution's transactions are held to.
LEMMA UsageType ==
  ASSUME BooksOK, NEW e \in Executions, bound[e] # None
  PROVE  /\ ConservativeUsage(e) \in Nat
         /\ ActiveFill(e) \in FillIds
         /\ bound[e] \in Fills /\ bound[e].exec = e
         /\ bound[e].fid \in FillIds /\ bound[e].order \in OrderIds
<1>1. chain[e] \in Seq(Links) /\ bound[e] \in Fills /\ bound[e].exec = e
  BY DEF BooksOK, Lineage
<1> QED  BY <1>1, LastLink, FillFields DEF ConservativeUsage, ActiveFill

\* The standing executions of an order are finitely many, each with its usage.
LEMMA StandingFacts ==
  ASSUME BooksOK, NEW o \in OrderIds
  PROVE  /\ IsFiniteSet(Standing(o))
         /\ \A e \in Standing(o) : e \in Executions /\ bound[e] # None /\ bound[e].order = o
         /\ \A e \in Standing(o) : ConservativeUsage(e) \in Nat
<1>1. Standing(o) \subseteq {e \in Executions : bound[e] # None}
  BY DEF Standing
<1>2. IsFiniteSet(Standing(o))
  BY <1>1, FS_Subset DEF BooksOK
<1>3. \A e \in Standing(o) : e \in Executions /\ bound[e] # None /\ bound[e].order = o
  BY DEF Standing
<1> QED  BY <1>2, <1>3, UsageType

\* A step that leaves an execution's binding, lineage and transactions alone.
Untouched(e) ==
  /\ bound'[e] = bound[e]
  /\ chain'[e] = chain[e]
  /\ \A f \in FillIds :
       ledger[f].exec = e \/ ledger'[f].exec = e => ledger'[f] = ledger[f]
  /\ DOMAIN events \subseteq DOMAIN events'

\* An execution that a step does not touch keeps its lineage.
LEMMA UntouchedStays ==
  ASSUME BooksOK, NEW e \in Executions, Untouched(e)
  PROVE  /\ Lineage(e)' /\ Followed(e)'
         /\ Active(e)' = Active(e)
         /\ bound[e] # None => ConservativeUsage(e)' = ConservativeUsage(e)
         /\ Busted(e)' <=> Busted(e)
<1>1. Active(e)' = Active(e)
  BY DEF Active, Untouched
<1>2. ConservativeUsage(e)' = ConservativeUsage(e) /\ ActiveFill(e)' = ActiveFill(e)
  BY DEF ConservativeUsage, ActiveFill, Untouched
<1>3. Busted(e)' <=> Busted(e)
  BY <1>1 DEF Busted, Untouched
<1>4. Lineage(e) /\ Followed(e)
  BY DEF BooksOK
<1>5. Followed(e)'
  BY <1>1, <1>4 DEF Followed, Untouched
<1>6. \A f \in Active(e) : ledger'[f] = ledger[f]
  BY DEF Active, Untouched
<1>7. bound[e] # None => bound[e].fid \in FillIds
  BY <1>4, FillFields DEF Lineage
<1>8. bound[e] # None => ledger'[bound[e].fid] = ledger[bound[e].fid]
  BY <1>4, <1>7 DEF Lineage, Untouched
<1>9. bound'[e] = bound[e] /\ chain'[e] = chain[e]
  BY DEF Untouched
<1>10. Lineage(e)'
  BY <1>1, <1>2, <1>4, <1>6, <1>8, <1>9 DEF Lineage
<1> QED  BY <1>1, <1>2, <1>3, <1>5, <1>10

\* The executions that are bound to an order.
Of(o) == {e \in Executions : bound[e] # None /\ bound[e].order = o}

\* An order none of whose executions is touched keeps its usage.
LEMMA UsedSame ==
  ASSUME BooksOK, NEW o \in OrderIds, Of(o)' = Of(o), \A e \in Of(o) : Untouched(e)
  PROVE  Used(o)' = Used(o)
<1>1. \A e \in Of(o) : (Busted(e)' <=> Busted(e)) /\ ConservativeUsage(e)' = ConservativeUsage(e)
  BY UntouchedStays DEF Of
<1>2. Standing(o) = {e \in Of(o) : ~Busted(e)}
  BY DEF Standing, Of
<1>3. Standing(o)' = {e \in Of(o)' : ~Busted(e)'}
  BY DEF Standing, Of
<1>4. Standing(o)' = Standing(o)
  BY <1>1, <1>2, <1>3
<1>5. [e \in Standing(o)' |-> ConservativeUsage(e)'] = [e \in Standing(o) |-> ConservativeUsage(e)]
  BY <1>1, <1>2, <1>4
<1> QED  BY <1>5 DEF Used

\* What a commit owes the financial books: its own execution's part, and the
\* sum of its order.
Owes(e, o) ==
  /\ Lineage(e)' /\ Followed(e)'
  /\ LedgerOK'
  /\ bound' \in [Executions -> Fills \cup {None}]
  /\ IsFiniteSet({x \in Executions : bound'[x] # None})
  /\ chain' \in [Executions -> Seq(Links)]
  /\ ReservationMoved(resv', o, Used(o)')

\* A step that touches one execution keeps the books if its order pays for it.
LEMMA BooksFollow ==
  ASSUME BooksOK, NEW e \in Executions, NEW o \in OrderIds, Owes(e, o),
         \A x \in Executions \ {e} : Untouched(x),
         bound[e] # None => bound[e].order = o, bound'[e] # None => bound'[e].order = o
  PROVE  BooksOK'
<1>1. \A x \in Executions : Lineage(x)' /\ Followed(x)'
  BY UntouchedStays DEF Owes
<1>2. ASSUME NEW x \in OrderIds
      PROVE  ReservationOK(resv'[x]) /\ resv'[x].consumed["CASH"] = Used(x)'
  <2>1. CASE x = o
    BY <2>1 DEF Owes, ReservationMoved
  <2>2. CASE x # o
    <3>1. Of(x)' = Of(x) /\ \A y \in Of(x) : Untouched(y)
      BY <1>2, <2>2 DEF Of, Untouched
    <3>2. Used(x)' = Used(x)
      BY <3>1, UsedSame
    <3>3. resv'[x] = resv[x]
      BY <2>2 DEF Owes, ReservationMoved
    <3> QED  BY <3>2, <3>3 DEF BooksOK
  <2> QED  BY <2>1, <2>2
<1>3. resv' \in R!Books
  BY DEF Owes, ReservationMoved
<1>4. \A x \in OrderIds : ReservationOK(resv[x])' /\ (resv[x].consumed["CASH"])' = Used(x)'
  BY <1>2 DEF ReservationOK
<1> QED  BY <1>1, <1>3, <1>4 DEF BooksOK, Owes

Transaction(q) == [exec |-> q.exec, cost |-> q.cost, reversed |-> FALSE]

LEMMA TransactionType ==
  ASSUME NEW q \in Requests
  PROVE  /\ Transaction(q) \in Transactions
         /\ Transaction(q).exec = q.exec /\ Transaction(q).cost = q.cost
         /\ ~Transaction(q).reversed
  BY RequestFields DEF Transaction, Transactions

LEMMA ReversedType ==
  ASSUME NEW t \in Transactions
  PROVE  LET old == [t EXCEPT !.reversed = TRUE] IN
         old \in Transactions /\ old.exec = t.exec /\ old.reversed
  BY DEF Transactions

\* Booking a fill keeps the books.
LEMMA FillBooks ==
  ASSUME BooksOK, NEW q \in Fills, bound[q.exec] = None, ledger[q.fid] = NoTransaction,
         ledger' = [ledger EXCEPT ![q.fid] = Transaction(q)],
         owed' = [owed EXCEPT ![q.fid] = "Registered"],
         bound' = [bound EXCEPT ![q.exec] = q], chain' = chain,
         ReservationMoved(resv', q.order, resv[q.order].consumed["CASH"] + q.cost),
         DOMAIN events \subseteq DOMAIN events', q \in DOMAIN events'
  PROVE  /\ BooksOK' /\ Active(q.exec)' # {}
         /\ \A x \in Executions \ {q.exec} : Untouched(x)
<1>1. PICK e \in Executions : e = q.exec
  BY FillFields
<1>2. PICK o \in OrderIds : o = q.order
  BY FillFields
<1>3. q.fid \in FillIds /\ q.cost \in Nat /\ q # None /\ e # None /\ q \in Requests
  BY <1>1, FillFields, NoneAssumption
<1>4. /\ ledger \in [FillIds -> Transactions]
      /\ bound \in [Executions -> Fills \cup {None}]
      /\ chain \in [Executions -> Seq(Links)]
      /\ owed \in [FillIds -> {"None", "Registered", "Settled"}]
      /\ LedgerOK
  BY DEF BooksOK, LedgerOK
<1>5. PICK new : /\ new = Transaction(q) /\ new \in Transactions
                 /\ new.exec = e /\ new.cost = q.cost /\ ~new.reversed
  BY <1>1, <1>3, TransactionType
<1>6. ledger' \in [FillIds -> Transactions] /\ ledger'[q.fid] = new
      /\ \A f \in FillIds \ {q.fid} : ledger'[f] = ledger[f]
  BY <1>3, <1>4, <1>5
<1>7. bound' \in [Executions -> Fills \cup {None}] /\ bound'[e] = q
      /\ \A x \in Executions \ {e} : bound'[x] = bound[x]
  BY <1>1, <1>4
<1>8. ledger[q.fid].exec = None
  BY DEF NoTransaction
<1>9. \A x \in Executions \ {e} : Untouched(x)
  <2>1. ASSUME NEW x \in Executions \ {e}, NEW f \in FillIds,
               ledger[f].exec = x \/ ledger'[f].exec = x
        PROVE  ledger'[f] = ledger[f]
    <3>1. x # None
      BY <2>1, NoneAssumption
    <3> QED  BY <1>5, <1>6, <1>8, <2>1, <3>1
  <2> QED  BY <1>7, <2>1 DEF Untouched
<1>10. \A f \in FillIds : ledger[f].exec # e
  BY <1>1, <1>3, <1>4 DEF LedgerOK
<1>11. Active(e)' = {q.fid}
  BY <1>3, <1>5, <1>6, <1>10 DEF Active
<1>12. chain[e] = <<>>
  BY <1>1 DEF BooksOK, Lineage
<1>13. ActiveFill(e)' = q.fid /\ ConservativeUsage(e)' = q.cost
  BY <1>7, <1>12 DEF ActiveFill, ConservativeUsage
<1>14. Lineage(e)'
  <2>1. ledger'[q.fid].exec = e /\ ledger'[q.fid].cost <= q.cost
    BY <1>3, <1>5, <1>6
  <2> QED  BY <1>1, <1>3, <1>7, <1>11, <1>12, <1>13, <2>1 DEF Lineage
<1>15. Followed(e)'
  BY <1>7, <1>11 DEF Followed
<1>16. LedgerOK'
  <2>1. owed' \in [FillIds -> {"None", "Registered", "Settled"}] /\ owed'[q.fid] = "Registered"
        /\ \A f \in FillIds \ {q.fid} : owed'[f] = owed[f]
    BY <1>3, <1>4
  <2>2. ASSUME NEW f \in FillIds
        PROVE  /\ ledger'[f].exec = None => ledger'[f] = NoTransaction
               /\ ledger'[f].exec # None => bound'[ledger'[f].exec] # None /\ owed'[f] # "None"
    <3>1. CASE f = q.fid
      BY <1>3, <1>5, <1>6, <1>7, <2>1, <3>1
    <3>2. CASE f # q.fid
      <4>1. ledger'[f] = ledger[f] /\ owed'[f] = owed[f] /\ ledger[f].exec \in Executions \cup {None}
        BY <1>4, <1>6, <2>1, <2>2, <3>2 DEF Transactions
      <4>2. /\ ledger[f].exec = None => ledger[f] = NoTransaction
            /\ ledger[f].exec # None => bound[ledger[f].exec] # None /\ owed[f] # "None"
        BY <1>4, <2>2 DEF LedgerOK
      <4> QED  BY <1>3, <1>7, <4>1, <4>2
    <3> QED  BY <3>1, <3>2
  <2> QED  BY <1>6, <2>1, <2>2 DEF LedgerOK
<1>17. IsFiniteSet({x \in Executions : bound'[x] # None})
  <2>1. {x \in Executions : bound'[x] # None} \subseteq {x \in Executions : bound[x] # None} \cup {e}
    BY <1>7
  <2>2. IsFiniteSet({x \in Executions : bound[x] # None} \cup {e})
    BY FS_AddElement DEF BooksOK
  <2> QED  BY <2>1, <2>2, FS_Subset
<1>18. Used(o)' = resv[o].consumed["CASH"] + q.cost
  <2>1. PICK f : f = [x \in Standing(o) |-> ConservativeUsage(x)]
    OBVIOUS
  <2>2. PICK g : g = [x \in Standing(o)' |-> ConservativeUsage(x)']
    OBVIOUS
  <2>3. e \notin Standing(o)
    BY <1>1 DEF Standing
  <2>4. Standing(o)' = Standing(o) \cup {e}
    <3>1. ASSUME NEW x \in Executions PROVE x \in Standing(o)' <=> x \in Standing(o) \/ x = e
      <4>1. CASE x = e
        BY <1>2, <1>3, <1>7, <1>11, <4>1 DEF Standing, Busted
      <4>2. CASE x # e
        <5>1. (Busted(x)' <=> Busted(x)) /\ bound'[x] = bound[x]
          BY <1>7, <1>9, <4>2, UntouchedStays
        <5> QED  BY <4>2, <5>1 DEF Standing
      <4> QED  BY <4>1, <4>2
    <3>2. Standing(o) \subseteq Executions /\ Standing(o)' \subseteq Executions
      BY DEF Standing
    <3> QED  BY <3>1, <3>2
  <2>5. ASSUME NEW x \in Standing(o) PROVE x # e /\ ConservativeUsage(x)' = ConservativeUsage(x)
                                           /\ ConservativeUsage(x) \in Nat
    BY <1>9, <2>3, <2>5, StandingFacts, UntouchedStays
  <2>6. IsFiniteSet(Standing(o)')
    BY <2>4, StandingFacts, FS_AddElement
  <2>7. DOMAIN g = Standing(o)' /\ DOMAIN f = Standing(o) /\ e \in DOMAIN g
    BY <2>1, <2>2, <2>4
  <2>8. g[e] = q.cost
    BY <1>13, <2>2, <2>7
  <2>9. \A y \in DOMAIN f : f[y] = g[y] /\ g[y] \in Nat
    BY <2>1, <2>2, <2>4, <2>5
  <2>10. \A y \in DOMAIN g : g[y] \in Nat
    BY <1>3, <2>4, <2>7, <2>8, <2>9
  <2>11. DOMAIN f = DOMAIN g \ {e}
    BY <2>3, <2>4, <2>7
  <2>12. SumFunction(g) = q.cost + SumFunction(f) /\ SumFunction(f) \in Nat
    <3>1. IsFiniteSet(DOMAIN g) /\ \A y \in DOMAIN f : f[y] = g[y]
      BY <2>6, <2>7, <2>9
    <3>2. SumFunction(g) = g[e] + SumFunction(f) /\ SumFunction(f) \in Nat
      BY <2>7, <2>10, <2>11, <3>1, SumSplit
    <3> QED  BY <2>8, <3>2
  <2>13. Used(o) = SumFunction(f) /\ Used(o)' = SumFunction(g)
    BY <2>1, <2>2 DEF Used
  <2>14. resv[o].consumed["CASH"] = Used(o)
    BY DEF BooksOK
  <2> QED  BY <1>3, <2>12, <2>13, <2>14
<1>19. Owes(e, o)
  BY <1>2, <1>4, <1>7, <1>14, <1>15, <1>16, <1>17, <1>18 DEF Owes
<1>20. BooksOK'
  BY <1>1, <1>2, <1>7, <1>9, <1>19, BooksFollow
<1> QED  BY <1>1, <1>9, <1>11, <1>20

\* Replacing the active transaction by a correction's keeps the books: the
\* reservation pays for the rise of the high-water mark only.
LEMMA CorrectBooks ==
  ASSUME BooksOK, NEW q \in Corrections, bound[q.exec] # None, bound[q.exec].order = q.order,
         q.of = ActiveFill(q.exec), Active(q.exec) = {q.of}, ledger[q.fid] = NoTransaction,
         ledger' = [ledger EXCEPT ![q.of].reversed = TRUE, ![q.fid] = Transaction(q)],
         owed' = [owed EXCEPT ![q.fid] = "Registered"],
         bound' = bound,
         chain' = [chain EXCEPT ![q.exec] = Append(@, [fid |-> q.fid, high |-> Raised(q)])],
         ReservationMoved(resv', q.order, resv[q.order].consumed["CASH"] + Additional(q)),
         DOMAIN events \subseteq DOMAIN events'
  PROVE  /\ BooksOK' /\ Active(q.exec)' # {}
         /\ \A x \in Executions \ {q.exec} : Untouched(x)
<1>1. PICK e \in Executions : e = q.exec
  BY CorrectionFields
<1>2. PICK o \in OrderIds : o = q.order
  BY CorrectionFields
<1>3. /\ q.fid \in FillIds /\ q.of \in FillIds /\ q.cost \in Nat /\ e # None
      /\ q \in Requests
  BY <1>1, CorrectionFields, NoneAssumption
<1>4. /\ ledger \in [FillIds -> Transactions]
      /\ bound \in [Executions -> Fills \cup {None}]
      /\ chain \in [Executions -> Seq(Links)]
      /\ owed \in [FillIds -> {"None", "Registered", "Settled"}]
      /\ LedgerOK
  BY DEF BooksOK, LedgerOK
<1>5. PICK new : /\ new = Transaction(q) /\ new \in Transactions
                 /\ new.exec = e /\ new.cost = q.cost /\ ~new.reversed
  BY <1>1, <1>3, TransactionType
<1>6. ledger[q.fid].exec = None
  BY DEF NoTransaction
<1>7. ledger[q.of].exec = e /\ ~ledger[q.of].reversed
  BY <1>1, <1>3 DEF Active
<1>8. q.of # q.fid
  BY <1>3, <1>6, <1>7
<1>9. PICK old : /\ old = [ledger[q.of] EXCEPT !.reversed = TRUE]
                 /\ old \in Transactions /\ old.exec = e /\ old.reversed
  BY <1>3, <1>4, <1>7, ReversedType
<1>10. ledger' = [[ledger EXCEPT ![q.of] = old] EXCEPT ![q.fid] = new]
  BY <1>5, <1>9
<1>11. ledger' \in [FillIds -> Transactions] /\ ledger'[q.fid] = new /\ ledger'[q.of] = old
       /\ \A f \in FillIds \ {q.fid, q.of} : ledger'[f] = ledger[f]
  BY <1>3, <1>4, <1>5, <1>8, <1>9, <1>10
<1>12. PICK u \in Nat : u = ConservativeUsage(e) /\ bound[e] \in Fills /\ bound[e].fid \in FillIds
  BY <1>1, UsageType
<1>13. PICK h \in Nat : h = Raised(q) /\ q.cost <= h /\ Additional(q) = h - u /\ u <= h
  BY <1>1, <1>3, <1>12 DEF Raised, Additional
<1>14. PICK lnk : lnk = [fid |-> q.fid, high |-> h]
  OBVIOUS
<1>15. lnk \in Links /\ lnk.fid = q.fid /\ lnk.high = h
  BY <1>3, <1>14 DEF Links
<1>16. PICK s : s = Append(chain[e], lnk)
  OBVIOUS
<1>17. s \in Seq(Links) /\ s # <<>> /\ s[Len(s)] = lnk
  BY <1>4, <1>15, <1>16, NextLink
<1>18. chain' = [chain EXCEPT ![e] = s]
  BY <1>1, <1>13, <1>14, <1>16
<1>19. chain' \in [Executions -> Seq(Links)] /\ chain'[e] = s
       /\ \A x \in Executions \ {e} : chain'[x] = chain[x]
  BY <1>4, <1>17, <1>18
<1>20. \A x \in Executions \ {e} : Untouched(x)
  <2>1. ASSUME NEW x \in Executions \ {e}, NEW f \in FillIds,
               ledger[f].exec = x \/ ledger'[f].exec = x
        PROVE  ledger'[f] = ledger[f]
    <3>1. x # None
      BY <2>1, NoneAssumption
    <3> QED  BY <1>5, <1>6, <1>7, <1>9, <1>11, <2>1, <3>1
  <2> QED  BY <1>19, <2>1 DEF Untouched
<1>21. Active(e)' = {q.fid}
  <2>1. \A f \in FillIds : ledger[f].exec = e /\ ~ledger[f].reversed => f = q.of
    BY <1>1 DEF Active
  <2>2. \A f \in FillIds : ledger'[f].exec = e /\ ~ledger'[f].reversed <=> f = q.fid
    BY <1>3, <1>5, <1>9, <1>11, <2>1
  <2> QED  BY <1>3, <2>2 DEF Active
<1>22. ActiveFill(e)' = q.fid /\ ConservativeUsage(e)' = h
  BY <1>15, <1>17, <1>19 DEF ActiveFill, ConservativeUsage
<1>23. Lineage(e)
  BY DEF BooksOK
<1>24. ledger[bound[e].fid].exec = e
  BY <1>1, <1>23 DEF Lineage
<1>25. bound[e].fid # q.fid
  BY <1>3, <1>6, <1>24
<1>26. ledger'[bound[e].fid].exec = e /\ ledger'[bound[e].fid].reversed
  <2>1. CASE bound[e].fid = q.of
    BY <1>9, <1>11, <2>1
  <2>2. CASE bound[e].fid # q.of
    <3>1. chain[e] # <<>>
      BY <1>1, <2>2 DEF ActiveFill
    <3>2. ledger[bound[e].fid].reversed
      BY <1>1, <1>23, <3>1 DEF Lineage
    <3> QED  BY <1>11, <1>12, <1>24, <1>25, <2>2, <3>2
  <2> QED  BY <2>1, <2>2
<1>27. Lineage(e)'
  <2>1. ledger'[q.fid].cost <= h
    BY <1>3, <1>5, <1>11, <1>13
  <2>2. bound'[e] # None /\ bound'[e] \in Fills /\ bound'[e].exec = e
    BY <1>1, <1>12, <1>23 DEF Lineage
  <2> QED  BY <1>21, <1>22, <1>26, <2>1, <2>2 DEF Lineage
<1>28. Followed(e)'
  <2>1. bound[e] \in DOMAIN events
    BY <1>1 DEF BooksOK, Followed
  <2> QED  BY <1>21, <2>1 DEF Followed
<1>29. LedgerOK'
  <2>1. owed' \in [FillIds -> {"None", "Registered", "Settled"}] /\ owed'[q.fid] = "Registered"
        /\ \A f \in FillIds \ {q.fid} : owed'[f] = owed[f]
    BY <1>3, <1>4
  <2>2. ASSUME NEW f \in FillIds
        PROVE  /\ ledger'[f].exec = None => ledger'[f] = NoTransaction
               /\ ledger'[f].exec # None => bound[ledger'[f].exec] # None /\ owed'[f] # "None"
    <3>1. CASE f = q.fid
      BY <1>1, <1>3, <1>5, <1>11, <2>1, <3>1
    <3>2. CASE f = q.of
      <4>1. owed[f] # "None"
        BY <1>3, <1>4, <1>7, <2>2, <3>2 DEF LedgerOK
      <4> QED  BY <1>1, <1>3, <1>8, <1>9, <1>11, <2>1, <3>2, <4>1
    <3>3. CASE f \notin {q.fid, q.of}
      BY <1>4, <1>11, <2>1, <2>2, <3>3 DEF LedgerOK
    <3> QED  BY <3>1, <3>2, <3>3
  <2> QED  BY <1>11, <2>1, <2>2 DEF LedgerOK
<1>30. IsFiniteSet({x \in Executions : bound'[x] # None})
  BY DEF BooksOK
<1>31. Used(o)' = resv[o].consumed["CASH"] + Additional(q)
  <2>1. PICK f : f = [x \in Standing(o) |-> ConservativeUsage(x)]
    OBVIOUS
  <2>2. PICK g : g = [x \in Standing(o)' |-> ConservativeUsage(x)']
    OBVIOUS
  <2>3. e \in Standing(o) /\ e \in Standing(o)'
    BY <1>1, <1>2, <1>21 DEF Standing, Busted
  <2>4. \A x \in Executions \ {e} :
          /\ Busted(x)' <=> Busted(x)
          /\ bound[x] # None => ConservativeUsage(x)' = ConservativeUsage(x)
    BY <1>20, UntouchedStays
  <2>5. Standing(o)' = Standing(o)
    <3>1. ASSUME NEW x \in Executions PROVE x \in Standing(o)' <=> x \in Standing(o)
      <4>1. CASE x = e
        BY <2>3, <4>1
      <4>2. CASE x # e
        BY <2>4, <4>2 DEF Standing
      <4> QED  BY <4>1, <4>2
    <3>2. Standing(o) \subseteq Executions /\ Standing(o)' \subseteq Executions
      BY DEF Standing
    <3> QED  BY <3>1, <3>2
  <2>6. DOMAIN g = DOMAIN f /\ e \in DOMAIN f /\ IsFiniteSet(DOMAIN f)
    BY <2>1, <2>2, <2>3, <2>5, StandingFacts
  <2>7. \A y \in DOMAIN f : f[y] \in Nat
    BY <2>1, StandingFacts
  <2>8. \A y \in DOMAIN f \ {e} : g[y] = f[y]
    BY <2>1, <2>2, <2>4, <2>5, StandingFacts
  <2>9. PICK n \in Nat : n = h - u
    BY <1>13
  <2>10. f[e] = u /\ g[e] = h
    BY <1>12, <1>22, <2>1, <2>2, <2>3
  <2>11. g[e] = f[e] + n
    BY <2>9, <2>10
  <2>12. SumFunction(g) = SumFunction(f) + n
    BY <2>6, <2>7, <2>8, <2>11, SumRaised
  <2>13. Used(o) = SumFunction(f) /\ Used(o)' = SumFunction(g)
    BY <2>1, <2>2 DEF Used
  <2>14. resv[o].consumed["CASH"] = Used(o)
    BY DEF BooksOK
  <2> QED  BY <1>13, <2>9, <2>12, <2>13, <2>14
<1>32. Owes(e, o)
  BY <1>2, <1>4, <1>19, <1>27, <1>28, <1>29, <1>30, <1>31 DEF Owes
<1>33. BooksOK'
  BY <1>1, <1>2, <1>20, <1>32, BooksFollow
<1> QED  BY <1>1, <1>20, <1>21, <1>33

\* Reversing the only transaction of an execution keeps the books.
LEMMA BustBooks ==
  ASSUME BooksOK, NEW q \in Busts, bound[q.exec] # None, bound[q.exec].fid = q.fid,
         Active(q.exec) = {q.fid},
         ledger' = [ledger EXCEPT ![q.fid].reversed = TRUE],
         owed' = owed, bound' = bound, chain' = chain,
         ReservationMoved(resv', q.order, resv[q.order].consumed["CASH"] - q.cost),
         DOMAIN events \subseteq DOMAIN events', q \in DOMAIN events'
  PROVE  /\ BooksOK'
         /\ \A x \in Executions \ {q.exec} : Untouched(x)
<1>1. PICK r \in Fills :
        /\ q = [r EXCEPT !.op = "BUST"] /\ q.order = r.order
        /\ q.exec = r.exec /\ q.fid = r.fid /\ q.cost = r.cost
  BY BustFields
<1>2. PICK e \in Executions : e = q.exec
  BY <1>1, FillFields
<1>3. PICK o \in OrderIds : o = q.order
  BY <1>1, FillFields
<1>4. q.fid \in FillIds /\ q.cost \in Nat /\ e # None
  BY <1>1, <1>2, FillFields, NoneAssumption
<1>5. /\ ledger \in [FillIds -> Transactions]
      /\ bound \in [Executions -> Fills \cup {None}]
      /\ chain \in [Executions -> Seq(Links)]
      /\ owed \in [FillIds -> {"None", "Registered", "Settled"}]
      /\ LedgerOK
  BY DEF BooksOK, LedgerOK
<1>6. bound[e] = r
  <2>1. bound[e] \in Fills /\ bound[e].exec = e
    BY <1>2, UsageType
  <2> QED  BY <1>1, <1>2, <2>1, OneFill
<1>7. ledger[q.fid].exec = e /\ ~ledger[q.fid].reversed
  BY <1>2, <1>4 DEF Active
<1>8. PICK old : /\ old = [ledger[q.fid] EXCEPT !.reversed = TRUE]
                 /\ old \in Transactions /\ old.exec = e /\ old.reversed
  BY <1>4, <1>5, <1>7, ReversedType
<1>9. ledger' = [ledger EXCEPT ![q.fid] = old] /\ old \in Transactions
  BY <1>8
<1>10. ledger' \in [FillIds -> Transactions] /\ ledger'[q.fid] = old
       /\ \A f \in FillIds \ {q.fid} : ledger'[f] = ledger[f]
  BY <1>4, <1>5, <1>9
<1>11. \A x \in Executions \ {e} : Untouched(x)
  BY <1>7, <1>8, <1>10 DEF Untouched
<1>12. Active(e)' = {}
  <2>1. \A f \in FillIds : ledger[f].exec = e /\ ~ledger[f].reversed => f = q.fid
    BY <1>2 DEF Active
  <2>2. \A f \in FillIds : ~(ledger'[f].exec = e /\ ~ledger'[f].reversed)
    BY <1>8, <1>10, <2>1
  <2> QED  BY <2>2 DEF Active
<1>13. Lineage(e)
  BY DEF BooksOK
<1>14. chain[e] = <<>>
  BY <1>2, <1>7, <1>13 DEF Lineage
<1>15. ConservativeUsage(e) = q.cost
  BY <1>1, <1>6, <1>14 DEF ConservativeUsage
<1>16. Lineage(e)'
  <2>1. ledger'[bound[e].fid].exec = e
    BY <1>2, <1>8, <1>10
  <2> QED  BY <1>12, <1>13, <1>14, <2>1 DEF Lineage
<1>17. Followed(e)'
  <2>1. bound[e] \in DOMAIN events
    BY <1>2 DEF BooksOK, Followed
  <2> QED  BY <1>1, <1>6, <2>1 DEF Followed
<1>18. LedgerOK'
  <2>1. ASSUME NEW f \in FillIds
        PROVE  /\ ledger'[f].exec = None => ledger'[f] = NoTransaction
               /\ ledger'[f].exec # None => bound[ledger'[f].exec] # None /\ owed[f] # "None"
    <3>1. CASE f = q.fid
      BY <1>2, <1>4, <1>5, <1>7, <1>8, <1>10, <3>1 DEF LedgerOK
    <3>2. CASE f # q.fid
      BY <1>5, <1>10, <2>1, <3>2 DEF LedgerOK
    <3> QED  BY <3>1, <3>2
  <2> QED  BY <1>5, <1>10, <2>1 DEF LedgerOK
<1>19. IsFiniteSet({x \in Executions : bound'[x] # None})
  BY DEF BooksOK
<1>20. Used(o)' = resv[o].consumed["CASH"] - q.cost
  <2>1. PICK f : f = [x \in Standing(o) |-> ConservativeUsage(x)]
    OBVIOUS
  <2>2. PICK g : g = [x \in Standing(o)' |-> ConservativeUsage(x)']
    OBVIOUS
  <2>3. e \in Standing(o) /\ e \notin Standing(o)'
    BY <1>1, <1>2, <1>3, <1>6, <1>12 DEF Standing, Busted
  <2>4. \A x \in Executions \ {e} :
          /\ Busted(x)' <=> Busted(x)
          /\ bound[x] # None => ConservativeUsage(x)' = ConservativeUsage(x)
    BY <1>11, UntouchedStays
  <2>5. Standing(o)' = Standing(o) \ {e}
    <3>1. ASSUME NEW x \in Executions PROVE x \in Standing(o)' <=> x \in Standing(o) /\ x # e
      <4>1. CASE x = e
        BY <2>3, <4>1
      <4>2. CASE x # e
        BY <2>4, <4>2 DEF Standing
      <4> QED  BY <4>1, <4>2
    <3>2. Standing(o) \subseteq Executions /\ Standing(o)' \subseteq Executions
      BY DEF Standing
    <3> QED  BY <3>1, <3>2
  <2>6. DOMAIN g = DOMAIN f \ {e} /\ e \in DOMAIN f /\ IsFiniteSet(DOMAIN f)
    BY <2>1, <2>2, <2>3, <2>5, StandingFacts
  <2>7. \A y \in DOMAIN f : f[y] \in Nat
    BY <2>1, StandingFacts
  <2>8. \A y \in DOMAIN g : g[y] = f[y]
    BY <2>1, <2>2, <2>4, <2>5, StandingFacts
  <2>9. SumFunction(f) = f[e] + SumFunction(g) /\ SumFunction(g) \in Nat
    BY <2>6, <2>7, <2>8, SumSplit
  <2>10. f[e] = q.cost
    BY <1>15, <2>1, <2>3
  <2>11. Used(o) = SumFunction(f) /\ Used(o)' = SumFunction(g)
    BY <2>1, <2>2 DEF Used
  <2>12. resv[o].consumed["CASH"] = Used(o)
    BY DEF BooksOK
  <2> QED  BY <1>4, <2>9, <2>10, <2>11, <2>12
<1>21. Owes(e, o)
  BY <1>3, <1>5, <1>16, <1>17, <1>18, <1>19, <1>20 DEF Owes
<1>22. bound[e].order = o
  BY <1>1, <1>3, <1>6
<1>23. BooksOK'
  BY <1>2, <1>11, <1>21, <1>22, BooksFollow
<1> QED  BY <1>2, <1>11, <1>23

-----------------------------------------------------------------------------
(* The plans of the processes.                                             *)

LEMMA BooksSame ==
  ASSUME UNCHANGED <<books, seq, ver, cmds>>
  PROVE  /\ OmsOK => OmsOK'
         /\ BooksOK => BooksOK'
         /\ Counters => Counters'
         /\ UNCHANGED <<oms, events, resv, ledger, owed, bound, chain>>
<1>1. UNCHANGED <<oms, events, resv, ledger, owed, bound, chain>>
  BY DEF books
<1>2. OmsOK => OmsOK'
  BY <1>1 DEF OmsOK, Projected, HistoryKept
<1>3. \A e \in Executions : Active(e)' = Active(e) /\ ActiveFill(e)' = ActiveFill(e)
                            /\ ConservativeUsage(e)' = ConservativeUsage(e)
  BY <1>1 DEF Active, ActiveFill, ConservativeUsage
<1>4. \A e \in Executions : (Lineage(e) => Lineage(e)') /\ (Followed(e) => Followed(e)')
  BY <1>1, <1>3 DEF Lineage, Followed
<1>5. \A o \in OrderIds : Used(o)' = Used(o)
  <2>1. ASSUME NEW o \in OrderIds PROVE Used(o)' = Used(o)
    <3>1. Standing(o)' = Standing(o) /\ Standing(o) \subseteq Executions
      BY <1>1, <1>3 DEF Standing, Busted
    <3>2. [e \in Standing(o)' |-> ConservativeUsage(e)'] = [e \in Standing(o) |-> ConservativeUsage(e)]
      BY <1>3, <3>1
    <3> QED  BY <3>2 DEF Used
  <2> QED  BY <2>1
<1>6. LedgerOK => LedgerOK'
  BY <1>1 DEF LedgerOK
<1>7. \A o \in OrderIds : ReservationOK(resv[o]) => ReservationOK(resv[o])'
  BY <1>1 DEF ReservationOK
<1>8. BooksOK => BooksOK'
  BY <1>1, <1>4, <1>5, <1>6, <1>7 DEF BooksOK
<1> QED  BY <1>1, <1>2, <1>8 DEF Counters

LEMMA OmsSame ==
  ASSUME UNCHANGED <<oms, events>>, NEW q
  PROVE  /\ OmsAccepts(q)' <=> OmsAccepts(q)
         /\ OmsSnapshot(q)' = OmsSnapshot(q)
<1>1. OmsAccepts(q)' <=> OmsAccepts(q)
  BY DEF OmsAccepts
<1>2. OmsAfter(q)' = OmsAfter(q)
  BY DEF OmsAfter
<1> QED  BY <1>1, <1>2 DEF OmsSnapshot

LEMMA LineageSame ==
  ASSUME NEW q \in Requests, chain'[q.exec] = chain[q.exec], bound'[q.exec] = bound[q.exec]
  PROVE  /\ ActiveFill(q.exec)' = ActiveFill(q.exec)
         /\ Raised(q)' = Raised(q)
         /\ Additional(q)' = Additional(q)
<1>1. ConservativeUsage(q.exec)' = ConservativeUsage(q.exec)
      /\ ActiveFill(q.exec)' = ActiveFill(q.exec)
  BY DEF ConservativeUsage, ActiveFill
<1>2. Raised(q)' = Raised(q)
  BY <1>1 DEF Raised
<1> QED  BY <1>1, <1>2 DEF Additional

LEMMA PlanSame ==
  ASSUME UNCHANGED <<books, seq, ver>>, NEW pl, PlanOK(pl)
  PROVE  PlanOK(pl)'
<1>1. UNCHANGED <<oms, events, resv, ledger, owed, bound, chain>>
  BY DEF books
<1>2. PICK q \in Requests : q = pl.req
  BY DEF PlanOK
<1>3. /\ ActiveFill(q.exec)' = ActiveFill(q.exec) /\ Raised(q)' = Raised(q)
      /\ Additional(q)' = Additional(q)
  BY <1>1, LineageSame
<1>4. Active(q.exec)' = Active(q.exec) /\ (Booked(q.fid)' <=> Booked(q.fid))
  BY <1>1 DEF Active, Booked
<1>5. (OmsAccepts(q)' <=> OmsAccepts(q)) /\ OmsSnapshot(q)' = OmsSnapshot(q)
  BY <1>1, OmsSame
<1>6. ReadStands(pl)'
  BY <1>1, <1>2, <1>3 DEF PlanOK, ReadStands
<1>7. FillStands(pl) => FillStands(pl)'
  BY <1>1, <1>2, <1>4, <1>5 DEF FillStands, R!CanConsume, R!Held
<1>8. BustStands(pl) => BustStands(pl)'
  BY <1>1, <1>2, <1>4, <1>5 DEF BustStands, R!CanRestore
<1>9. R!CanConsume(resv, q.order, Cash(pl.extra)) => R!CanConsume(resv, q.order, Cash(pl.extra))'
  BY <1>1 DEF R!CanConsume, R!Held
<1>10. pl.ready => PreparedStands(pl)'
  BY <1>1, <1>2, <1>4, <1>7, <1>8, <1>9 DEF PlanOK, PreparedStands
<1> QED  BY <1>6, <1>10 DEF PlanOK

\* What a commit does to the versions and the lineages: a plan that it does not
\* fence off has read what still holds.
Advances ==
  /\ seq' = seq + 1
  /\ ver' \in [Aggregates -> Nat]
  /\ \A g \in Aggregates : ver[g] <= ver'[g]
  /\ ver'["ledger"] = ver["ledger"] => ledger' = ledger
  /\ ver'["resv"] = ver["resv"] => resv' = resv
  /\ \A e \in Executions :
       /\ bound[e] # None => bound'[e] = bound[e]
       /\ Len(chain[e]) <= Len(chain'[e])
       /\ Len(chain[e]) = Len(chain'[e]) => chain'[e] = chain[e]

\* What other commits do to the books leaves every plan true: they move what
\* fences it, or they do not touch what it relies on.
LEMMA PlanStays ==
  ASSUME BooksOK, BooksOK', Counters, Advances, NEW pl, PlanOK(pl)
  PROVE  PlanOK(pl)'
<1>1. PICK q \in Requests : q = pl.req
  BY DEF PlanOK
<1>2. q.exec \in Executions
  BY RequestFields
<1>3. Len(chain[q.exec]) \in Nat /\ Len(chain'[q.exec]) \in Nat /\ pl.links \in Nat
  BY <1>2, LenProperties DEF BooksOK, PlanOK
<1>4. seq \in Nat /\ pl.cut \in 0 .. seq /\ seq' = seq + 1
  BY DEF Counters, PlanOK, Advances
<1>5. pl.cut \in 0 .. seq' /\ pl.cut # seq'
  BY <1>4
<1>6. ReadStands(pl)'
  <2>1. ReadStands(pl)
    BY DEF PlanOK
  <2>2. bound[q.exec] # None => bound'[q.exec] = bound[q.exec]
    BY <1>2 DEF Advances
  <2>3. /\ Len(chain[q.exec]) <= Len(chain'[q.exec])
        /\ Len(chain[q.exec]) = Len(chain'[q.exec]) => chain'[q.exec] = chain[q.exec]
    BY <1>2 DEF Advances
  <2>4. CASE q.op = "BUST"
    BY <1>1, <2>1, <2>2, <2>4 DEF ReadStands
  <2>5. CASE q.op = "CORRECT"
    <3>1. bound[q.exec] # None /\ bound[q.exec].order = q.order /\ pl.links <= Len(chain[q.exec])
      BY <1>1, <2>1, <2>5 DEF ReadStands
    <3>2. pl.links <= Len(chain'[q.exec])
      BY <1>3, <2>3, <3>1
    <3>3. ASSUME pl.links = Len(chain'[q.exec])
          PROVE  q.of = ActiveFill(q.exec)' /\ pl.high = Raised(q)' /\ pl.extra = Additional(q)'
      <4>1. pl.links = Len(chain[q.exec]) /\ chain'[q.exec] = chain[q.exec]
        BY <1>3, <2>3, <3>1, <3>3
      <4>2. q.of = ActiveFill(q.exec) /\ pl.high = Raised(q) /\ pl.extra = Additional(q)
        BY <1>1, <2>1, <2>5, <4>1 DEF ReadStands
      <4> QED  BY <2>2, <3>1, <4>1, <4>2, LineageSame
    <3> QED  BY <1>1, <2>2, <2>5, <3>1, <3>2, <3>3 DEF ReadStands
  <2>6. CASE q.op = "FILL"
    BY <1>1, <2>6 DEF ReadStands
  <2> QED  BY <2>4, <2>5, <2>6, RequestFields
<1>7. ASSUME pl.ready PROVE PreparedStands(pl)'
  <2>1. PreparedStands(pl)
    BY <1>7 DEF PlanOK
  <2>2. /\ pl.ver \in [Aggregates -> Nat] /\ ver \in [Aggregates -> Nat]
        /\ ver' \in [Aggregates -> Nat]
        /\ \A g \in Aggregates : pl.ver[g] <= ver[g] /\ ver[g] <= ver'[g]
    BY <2>1 DEF PreparedStands, Counters, Advances
  <2>3. \A g \in Aggregates : pl.ver[g] <= ver'[g]
    BY <2>2
  <2>4. ASSUME NEW g \in Aggregates, pl.ver[g] = ver'[g] PROVE pl.ver[g] = ver[g] /\ ver'[g] = ver[g]
    BY <2>2, <2>4
  <2>5. ASSUME q.op = "CORRECT", pl.ver["ledger"] = ver'["ledger"]
        PROVE  Active(q.exec)' = {q.of} /\ ~Booked(q.fid)'
    <3>1. pl.ver["ledger"] = ver["ledger"] /\ ver'["ledger"] = ver["ledger"]
      BY <2>4, <2>5 DEF Aggregates
    <3>2. Active(q.exec) = {q.of} /\ ~Booked(q.fid) /\ ledger' = ledger
      BY <1>1, <2>1, <2>5, <3>1 DEF PreparedStands, Advances
    <3> QED  BY <3>2 DEF Active, Booked
  <2>6. ASSUME q.op = "CORRECT", pl.extra > 0, pl.ver["resv"] = ver'["resv"]
        PROVE  R!CanConsume(resv, q.order, Cash(pl.extra))'
    <3>1. pl.ver["resv"] = ver["resv"] /\ ver'["resv"] = ver["resv"]
      BY <2>4, <2>6 DEF Aggregates
    <3>2. R!CanConsume(resv, q.order, Cash(pl.extra)) /\ resv' = resv
      BY <1>1, <2>1, <2>6, <3>1 DEF PreparedStands, Advances
    <3> QED  BY <3>2 DEF R!CanConsume, R!Held
  <2> QED  BY <1>1, <1>5, <2>2, <2>3, <2>5, <2>6 DEF PreparedStands
<1> QED  BY <1>5, <1>6, <1>7 DEF PlanOK

\* Every plan holds that p does not replace.
LEMMA PlansFollow ==
  ASSUME Plans, NEW p \in Procs, NEW new, plan' = [plan EXCEPT ![p] = new],
         new # None => PlanOK(new)',
         \A pl : PlanOK(pl) => PlanOK(pl)'
  PROVE  Plans'
<1>1. DOMAIN plan' = Procs
  BY DEF Plans
<1>2. ASSUME NEW x \in Procs, plan'[x] # None PROVE PlanOK(plan[x])'
  <2>1. CASE x = p
    <3>1. plan'[x] = new
      BY <2>1 DEF Plans
    <3> QED  BY <1>2, <3>1
  <2>2. CASE x # p
    <3>1. PICK pl : pl = plan[x]
      OBVIOUS
    <3>2. plan'[x] = pl
      BY <2>2, <3>1
    <3>3. PlanOK(pl)
      BY <1>2, <3>1, <3>2 DEF Plans
    <3> QED  BY <3>2, <3>3
  <2> QED  BY <2>1, <2>2
<1> QED  BY <1>1, <1>2 DEF Plans

LEMMA DropOK ==
  ASSUME IInv, NEW p \in Procs, Drop(p)
  PROVE  IInv'
<1>1. UNCHANGED <<books, seq, ver, cmds>> /\ UNCHANGED <<books, seq, ver>>
  BY DEF Drop
<1>2. OmsOK' /\ BooksOK' /\ Counters'
  BY <1>1, BooksSame DEF IInv
<1>3. \A pl : PlanOK(pl) => PlanOK(pl)'
  BY <1>1, PlanSame
<1>4. Plans'
  BY <1>3, PlansFollow DEF IInv, Drop
<1> QED  BY <1>2, <1>4 DEF IInv

LEMMA ReadOK ==
  ASSUME IInv, NEW p \in Procs, NEW q \in Requests, Read(p, q)
  PROVE  IInv'
<1>1. UNCHANGED <<books, seq, ver, cmds>> /\ UNCHANGED <<books, seq, ver>>
  BY DEF Read
<1>2. OmsOK' /\ BooksOK' /\ Counters'
  BY <1>1, BooksSame DEF IInv
<1>3. \A pl : PlanOK(pl) => PlanOK(pl)'
  BY <1>1, PlanSame
<1>4. PICK new : /\ new = [req |-> q, ready |-> FALSE, rec |-> resv[q.order], snapshot |-> None,
                           cut |-> IF q.op = "BUST" THEN seq ELSE 0,
                           links |-> IF q.op = "CORRECT" THEN Len(chain[q.exec]) ELSE 0,
                           extra |-> IF q.op = "CORRECT" THEN Additional(q) ELSE 0,
                           high |-> IF q.op = "CORRECT" THEN Raised(q) ELSE 0,
                           ver |-> [g \in Aggregates |-> 0]]
                 /\ plan' = [plan EXCEPT ![p] = new]
  BY DEF Read
<1>5. /\ DOMAIN new = {"req", "ready", "rec", "snapshot", "cut", "links", "extra", "high", "ver"}
      /\ new.req = q /\ new.ready = FALSE
      /\ new.cut = IF q.op = "BUST" THEN seq ELSE 0
      /\ new.links = IF q.op = "CORRECT" THEN Len(chain[q.exec]) ELSE 0
      /\ new.extra = IF q.op = "CORRECT" THEN Additional(q) ELSE 0
      /\ new.high = IF q.op = "CORRECT" THEN Raised(q) ELSE 0
  BY <1>4
<1>6. seq \in Nat
  BY DEF IInv, Counters
<1>7. new.cut \in 0 .. seq
  BY <1>5, <1>6
<1>8. q.op = "CORRECT" => ReadsCorrection(q) /\ q \in Corrections
  BY RequestFields DEF Read
<1>9. q.op = "BUST" => ReadsBust(q)
  BY DEF Read
<1>10. q.exec \in Executions /\ q.cost \in Nat
  BY RequestFields
<1>11. Len(chain[q.exec]) \in Nat
  BY <1>10, LenProperties DEF IInv, BooksOK
<1>12. q.op = "CORRECT" => Raised(q) \in Nat /\ Additional(q) \in Nat
  <2>1. SUFFICES ASSUME q.op = "CORRECT" PROVE Raised(q) \in Nat /\ Additional(q) \in Nat
    OBVIOUS
  <2>2. ConservativeUsage(q.exec) \in Nat
    BY <1>8, <1>10, <2>1, UsageType DEF IInv, ReadsCorrection
  <2> QED  BY <1>10, <2>2 DEF Raised, Additional
<1>13. new.links \in Nat /\ new.extra \in Nat /\ new.high \in Nat
  BY <1>5, <1>11, <1>12
<1>14. ReadStands(new)
  BY <1>5, <1>8, <1>9, <1>11 DEF ReadStands, ReadsCorrection, ReadsBust
<1>15. PlanOK(new)
  BY <1>5, <1>7, <1>13, <1>14 DEF PlanOK
<1>16. Plans'
  BY <1>3, <1>4, <1>15, PlansFollow DEF IInv
<1> QED  BY <1>2, <1>16 DEF IInv

LEMMA PrepareOK ==
  ASSUME IInv, NEW p \in Procs, Prepare(p)
  PROVE  IInv'
<1>1. UNCHANGED <<books, seq, ver, cmds>> /\ UNCHANGED <<books, seq, ver>>
  BY DEF Prepare
<1>2. OmsOK' /\ BooksOK' /\ Counters'
  BY <1>1, BooksSame DEF IInv
<1>3. \A pl : PlanOK(pl) => PlanOK(pl)'
  BY <1>1, PlanSame
<1>4. PICK pl : pl = plan[p]
  OBVIOUS
<1>5. PlanOK(pl) /\ Prepares(pl)
  BY <1>4 DEF IInv, Plans, Prepare
<1>6. PICK q \in Requests : q = pl.req
  BY <1>5 DEF PlanOK
<1>7. PICK new : new = Prepared(pl) /\ plan' = [plan EXCEPT ![p] = new]
  BY <1>4 DEF Prepare
<1>8. DOMAIN pl = {"req", "ready", "rec", "snapshot", "cut", "links", "extra", "high", "ver"}
  BY <1>5 DEF PlanOK
<1>9. /\ DOMAIN new = DOMAIN pl
      /\ new.req = q /\ new.ready = TRUE /\ new.ver = ver
      /\ new.cut = IF q.op = "FILL" THEN seq ELSE pl.cut
      /\ new.snapshot = IF q.op = "CORRECT" THEN None ELSE OmsSnapshot(q)
      /\ new.links = pl.links /\ new.extra = pl.extra /\ new.high = pl.high
  BY <1>6, <1>7, <1>8 DEF Prepared
<1>10. seq \in Nat /\ ver \in [Aggregates -> Nat]
  BY DEF IInv, Counters
<1>11. /\ pl.cut \in 0 .. seq /\ ReadStands(pl)
       /\ pl.links \in Nat /\ pl.extra \in Nat /\ pl.high \in Nat
  BY <1>5 DEF PlanOK
<1>12. new.cut \in 0 .. seq
  BY <1>9, <1>10, <1>11
<1>13. ReadStands(new)
  BY <1>6, <1>9, <1>11 DEF ReadStands
<1>14. PreparedStands(new)
  <2>1. new.ver \in [Aggregates -> Nat] /\ \A g \in Aggregates : new.ver[g] <= ver[g]
    BY <1>9, <1>10
  <2>2. q.op = "FILL" => FillStands(new)
    BY <1>5, <1>6, <1>9 DEF Prepares, PreparesFill, FillStands
  <2>3. q.op = "BUST" => BustStands(new)
    BY <1>5, <1>6, <1>9 DEF Prepares, PreparesBust, BustStands
  <2>4. q.op = "CORRECT" =>
          /\ Active(q.exec) = {q.of} /\ ~Booked(q.fid)
          /\ new.extra > 0 => R!CanConsume(resv, q.order, Cash(new.extra))
    BY <1>5, <1>6, <1>9 DEF Prepares, PreparesCorrection
  <2> QED  BY <1>9, <2>1, <2>2, <2>3, <2>4 DEF PreparedStands
<1>15. PlanOK(new)
  BY <1>8, <1>9, <1>11, <1>12, <1>13, <1>14 DEF PlanOK
<1>16. Plans'
  BY <1>3, <1>7, <1>15, PlansFollow DEF IInv
<1> QED  BY <1>2, <1>16 DEF IInv

LEMMA ObserveOK ==
  ASSUME IInv, NEW q \in OmsRequests, Observe(q)
  PROVE  IInv'
<1>1. OmsOK' /\ DOMAIN events' = DOMAIN events \cup {q}
  BY OmsWritten DEF IInv, Observe
<1>2. UNCHANGED <<resv, ledger, owed, bound, chain, cmds, plan>> /\ seq' = seq + 1
      /\ ver' = [ver EXCEPT !["oms"] = @ + 1]
  BY DEF Observe
<1>3. seq \in Nat /\ ver \in [Aggregates -> Nat] /\ cmds \subseteq Requests
  BY DEF IInv, Counters
<1>4. /\ ver' \in [Aggregates -> Nat] /\ \A g \in Aggregates : ver[g] <= ver'[g]
  BY <1>2, <1>3 DEF Aggregates
<1>5. \A e \in Executions : Untouched(e)
  BY <1>1, <1>2 DEF Untouched
<1>6. BooksOK'
  <2>1. \A e \in Executions : Lineage(e)' /\ Followed(e)'
    BY <1>5, UntouchedStays DEF IInv
  <2>2. \A o \in OrderIds : Used(o)' = Used(o)
    <3>1. ASSUME NEW o \in OrderIds PROVE Used(o)' = Used(o)
      <4>1. Of(o)' = Of(o) /\ \A e \in Of(o) : Untouched(e)
        BY <1>2, <1>5 DEF Of
      <4> QED  BY <4>1, UsedSame DEF IInv
    <3> QED  BY <3>1
  <2>3. BooksOK
    BY DEF IInv
  <2>4. LedgerOK'
    BY <1>2, <2>3 DEF BooksOK, LedgerOK
  <2>5. \A o \in OrderIds : ReservationOK(resv[o])'
    BY <1>2, <2>3 DEF BooksOK, ReservationOK
  <2> QED  BY <1>2, <2>1, <2>2, <2>3, <2>4, <2>5 DEF BooksOK
<1>7. Advances
  BY <1>2, <1>4, LenProperties DEF Advances, IInv, BooksOK
<1>8. \A pl : PlanOK(pl) => PlanOK(pl)'
  BY <1>6, <1>7, PlanStays DEF IInv
<1>9. Plans'
  BY <1>2, <1>8 DEF IInv, Plans
<1> QED  BY <1>1, <1>2, <1>3, <1>4, <1>6, <1>9 DEF IInv, Counters

LEMMA SettleOK ==
  ASSUME IInv, NEW f \in FillIds, Settle(f)
  PROVE  IInv'
<1>1. UNCHANGED <<oms, events, resv, ledger, bound, chain, cmds, plan>> /\ seq' = seq + 1
      /\ ver' = [ver EXCEPT !["owed"] = @ + 1] /\ owed' = [owed EXCEPT ![f] = "Settled"]
  BY DEF Settle
<1>2. seq \in Nat /\ ver \in [Aggregates -> Nat] /\ cmds \subseteq Requests
  BY DEF IInv, Counters
<1>3. ver' \in [Aggregates -> Nat] /\ \A g \in Aggregates : ver[g] <= ver'[g]
  BY <1>1, <1>2 DEF Aggregates
<1>4. OmsOK'
  BY <1>1 DEF IInv, OmsOK, Projected, HistoryKept
<1>5. \A e \in Executions : Untouched(e)
  BY <1>1 DEF Untouched
<1>6. BooksOK'
  <2>1. \A e \in Executions : Lineage(e)' /\ Followed(e)'
    BY <1>5, UntouchedStays DEF IInv
  <2>2. \A o \in OrderIds : Used(o)' = Used(o)
    <3>1. ASSUME NEW o \in OrderIds PROVE Used(o)' = Used(o)
      <4>1. Of(o)' = Of(o) /\ \A e \in Of(o) : Untouched(e)
        BY <1>1, <1>5 DEF Of
      <4> QED  BY <4>1, UsedSame DEF IInv
    <3> QED  BY <3>1
  <2>3. BooksOK
    BY DEF IInv
  <2>4. LedgerOK'
    BY <1>1, <2>3 DEF BooksOK, LedgerOK
  <2>5. \A o \in OrderIds : ReservationOK(resv[o])'
    BY <1>1, <2>3 DEF BooksOK, ReservationOK
  <2> QED  BY <1>1, <2>1, <2>2, <2>3, <2>4, <2>5 DEF BooksOK
<1>7. Advances
  BY <1>1, <1>3, LenProperties DEF Advances, IInv, BooksOK
<1>8. \A pl : PlanOK(pl) => PlanOK(pl)'
  BY <1>6, <1>7, PlanStays DEF IInv
<1>9. Plans'
  BY <1>1, <1>8 DEF IInv, Plans
<1> QED  BY <1>1, <1>2, <1>3, <1>4, <1>6, <1>9 DEF IInv, Counters

-----------------------------------------------------------------------------
(* The commit.                                                             *)

\* The step of ReplaysAsPrepared and of SettledNotBusted.
ReplayStep ==
  /\ \A q \in DOMAIN events : q \in DOMAIN events' /\ events'[q] = events[q]
  /\ \A q \in DOMAIN events' \ DOMAIN events : O!Snapshot(oms'[q.order]) = events'[q]

BustStep ==
  \A e \in Executions : ~Busted(e) /\ Busted(e)' => owed[bound[e].fid] # "Settled"

\* A command that passes the fence finds what it has prepared unchanged.
LEMMA Fenced ==
  ASSUME IInv, NEW pl, PlanOK(pl), pl.ready, Fence(pl)
  PROVE  /\ pl.req \in Requests
         /\ pl.req.op = "FILL" => bound[pl.req.exec] = None /\ FillStands(pl)
         /\ pl.req.op = "BUST" => BustStands(pl) /\ ReadStands(pl)
         /\ pl.req.op = "CORRECT" =>
              /\ ReadStands(pl) /\ pl.links = Len(chain[pl.req.exec])
              /\ Active(pl.req.exec) = {pl.req.of} /\ ~Booked(pl.req.fid)
              /\ pl.extra > 0 => R!CanConsume(resv, pl.req.order, Cash(pl.extra))
<1>1. PICK q \in Requests : q = pl.req
  BY DEF PlanOK
<1>2. PreparedStands(pl) /\ ReadStands(pl)
  BY DEF PlanOK
<1>3. q.op \in {"FILL", "BUST"} => pl.cut = seq
  BY <1>1 DEF Fence
<1>4. q.op = "FILL" => bound[q.exec] = None /\ FillStands(pl)
  BY <1>1, <1>2, <1>3 DEF Fence, PreparedStands
<1>5. q.op = "BUST" => BustStands(pl)
  BY <1>1, <1>2, <1>3 DEF PreparedStands
<1>6. pl.ver["ledger"] = ver["ledger"]
  BY DEF Fence, Writes
<1>7. q.op = "CORRECT" => pl.links = Len(chain[q.exec])
  BY <1>1 DEF Fence
<1>8. q.op = "CORRECT" => Active(q.exec) = {q.of} /\ ~Booked(q.fid)
  BY <1>1, <1>2, <1>6 DEF PreparedStands
<1>9. q.op = "CORRECT" /\ pl.extra > 0 => R!CanConsume(resv, q.order, Cash(pl.extra))
  <2>1. SUFFICES ASSUME q.op = "CORRECT", pl.extra > 0
                 PROVE  R!CanConsume(resv, q.order, Cash(pl.extra))
    OBVIOUS
  <2>2. pl.ver["resv"] = ver["resv"]
    BY <2>1 DEF Fence, Writes
  <2> QED  BY <1>1, <1>2, <2>1, <2>2 DEF PreparedStands
<1> QED  BY <1>1, <1>2, <1>4, <1>5, <1>7, <1>8, <1>9

\* The order's part of a commit.
LEMMA CommitOms ==
  ASSUME IInv, NEW p \in Procs, Commit(p)
  PROVE  /\ OmsOK' /\ ReplayStep /\ DOMAIN events \subseteq DOMAIN events'
         /\ plan[p].req.op # "CORRECT" => plan[p].req \in DOMAIN events'
<1>1. PICK pl : pl = plan[p]
  OBVIOUS
<1>2. PlanOK(pl) /\ pl.ready /\ Fence(pl)
  BY <1>1 DEF IInv, Plans, Commit
<1>3. PICK q \in Requests : q = pl.req
  BY <1>2 DEF PlanOK
<1>4. OmsOK
  BY DEF IInv
<1>5. CASE WritesOms(pl)
  <2>1. oms' = [oms EXCEPT ![q.order] = OmsAfter(q)] /\ events' = Recorded(q, pl.snapshot)
    BY <1>1, <1>3, <1>5 DEF Commit
  <2>2. q \notin DOMAIN events /\ q.op \in {"FILL", "BUST"}
    BY <1>3, <1>5, RequestFields DEF WritesOms
  <2>3. OmsAccepts(q) /\ pl.snapshot = OmsSnapshot(q)
    <3>1. CASE q.op = "FILL"
      BY <1>2, <1>3, <2>2, <3>1, Fenced DEF FillStands
    <3>2. CASE q.op = "BUST"
      BY <1>2, <1>3, <2>2, <3>2, Fenced DEF BustStands
    <3> QED  BY <2>2, <3>1, <3>2
  <2>4. pl.snapshot = O!Snapshot(OmsAfter(q))
    BY <2>2, <2>3 DEF OmsSnapshot
  <2>5. q \in OmsRequests
    BY RequestFields
  <2>6. /\ OmsOK'
        /\ DOMAIN events' = DOMAIN events \cup {q} /\ events'[q] = pl.snapshot
        /\ \A x \in DOMAIN events : events'[x] = events[x]
        /\ oms'[q.order] = OmsAfter(q)
    BY <1>4, <2>1, <2>2, <2>3, <2>5, OmsWritten
  <2>7. ReplayStep
    BY <2>4, <2>6 DEF ReplayStep
  <2> QED  BY <1>1, <1>3, <2>6, <2>7
<1>6. CASE ~WritesOms(pl)
  <2>1. UNCHANGED <<oms, events>>
    BY <1>1, <1>6 DEF Commit
  <2>2. OmsOK'
    BY <1>4, <2>1 DEF OmsOK, Projected, HistoryKept
  <2>3. q.op # "CORRECT" => q \in DOMAIN events
    BY <1>3, <1>6 DEF WritesOms
  <2> QED  BY <1>1, <1>3, <2>1, <2>2, <2>3 DEF ReplayStep
<1> QED  BY <1>5, <1>6

\* The financial part of the commit of a fill.
LEMMA CommitFill ==
  ASSUME IInv, NEW p \in Procs, Commit(p), plan[p].req.op = "FILL"
  PROVE  BooksOK' /\ BustStep
<1>1. PICK pl : pl = plan[p]
  OBVIOUS
<1>2. PlanOK(pl) /\ pl.ready /\ Fence(pl)
  BY <1>1 DEF IInv, Plans, Commit
<1>3. PICK q \in Fills : q = pl.req /\ q.op = "FILL"
  BY <1>1, <1>2, RequestFields DEF PlanOK
<1>4. bound[q.exec] = None /\ FillStands(pl)
  BY <1>2, <1>3, Fenced
<1>5. ledger[q.fid] = NoTransaction /\ R!CanConsume(resv, q.order, Cash(q.cost))
  BY <1>3, <1>4 DEF FillStands, Booked
<1>6. ledger' = [ledger EXCEPT ![q.fid] = Transaction(q)]
  BY <1>1, <1>3 DEF Commit, LedgerAfter, Transaction
<1>7. /\ owed' = [owed EXCEPT ![q.fid] = "Registered"]
      /\ bound' = [bound EXCEPT ![q.exec] = q] /\ chain' = chain
  BY <1>1, <1>3 DEF Commit
<1>8. resv' = ReservationAfter(pl)
  BY <1>1, <1>3 DEF Commit, Writes
<1>9. resv' = R!Filled(resv, q.order, Cash(q.cost)) \/ resv' = R!Consumed(resv, q.order, Cash(q.cost))
  BY <1>3, <1>8 DEF ReservationAfter
<1>10. BooksOK /\ resv \in R!Books /\ q.order \in OrderIds /\ q.cost \in Nat
       /\ ReservationOK(resv[q.order])
  BY FillFields DEF IInv, BooksOK
<1>11. ReservationMoved(resv', q.order, resv[q.order].consumed["CASH"] + q.cost)
  BY <1>5, <1>9, <1>10, ConsumedMoves
<1>12. DOMAIN events \subseteq DOMAIN events' /\ q \in DOMAIN events'
  BY <1>1, <1>3, CommitOms
<1>13. /\ BooksOK' /\ Active(q.exec)' # {}
       /\ \A x \in Executions \ {q.exec} : Untouched(x)
  BY <1>4, <1>5, <1>6, <1>7, <1>10, <1>11, <1>12, FillBooks
<1>14. BustStep
  BY <1>10, <1>13, UntouchedStays DEF BustStep, Busted
<1> QED  BY <1>13, <1>14

\* The financial part of the commit of a correction.
LEMMA CommitCorrection ==
  ASSUME IInv, NEW p \in Procs, Commit(p), plan[p].req.op = "CORRECT"
  PROVE  BooksOK' /\ BustStep
<1>1. PICK pl : pl = plan[p]
  OBVIOUS
<1>2. PlanOK(pl) /\ pl.ready /\ Fence(pl)
  BY <1>1 DEF IInv, Plans, Commit
<1>3. PICK q \in Corrections : q = pl.req /\ q.op = "CORRECT"
  BY <1>1, <1>2, RequestFields DEF PlanOK
<1>4. /\ ReadStands(pl) /\ pl.links = Len(chain[q.exec])
      /\ Active(q.exec) = {q.of} /\ ~Booked(q.fid)
      /\ pl.extra > 0 => R!CanConsume(resv, q.order, Cash(pl.extra))
  BY <1>2, <1>3, Fenced
<1>5. /\ bound[q.exec] # None /\ bound[q.exec].order = q.order
      /\ q.of = ActiveFill(q.exec) /\ pl.high = Raised(q) /\ pl.extra = Additional(q)
  BY <1>3, <1>4 DEF ReadStands
<1>6. ledger[q.fid] = NoTransaction
  BY <1>4 DEF Booked
<1>7. ledger' = [ledger EXCEPT ![q.of].reversed = TRUE, ![q.fid] = Transaction(q)]
  BY <1>1, <1>3 DEF Commit, LedgerAfter, Transaction
<1>8. /\ owed' = [owed EXCEPT ![q.fid] = "Registered"] /\ bound' = bound
      /\ chain' = [chain EXCEPT ![q.exec] = Append(@, [fid |-> q.fid, high |-> Raised(q)])]
  BY <1>1, <1>3, <1>5 DEF Commit
<1>9. /\ BooksOK /\ resv \in R!Books /\ q.order \in OrderIds /\ pl.extra \in Nat
      /\ ReservationOK(resv[q.order])
  BY <1>2, CorrectionFields DEF IInv, BooksOK, PlanOK
<1>10. ReservationMoved(resv', q.order, resv[q.order].consumed["CASH"] + pl.extra)
  <2>1. CASE pl.extra > 0
    <3>1. resv' = ReservationAfter(pl)
      BY <1>1, <2>1 DEF Commit, Writes
    <3>2. resv' = R!Consumed(resv, q.order, Cash(pl.extra))
      BY <1>3, <3>1 DEF ReservationAfter
    <3> QED  BY <1>4, <1>9, <2>1, <3>2, ConsumedMoves
  <2>2. CASE ~(pl.extra > 0)
    <3>1. resv' = resv
      BY <1>1, <1>3, <2>2 DEF Commit, Writes
    <3>2. resv[q.order] \in R!Records
      BY <1>9 DEF R!Books
    <3>3. resv[q.order].consumed["CASH"] + pl.extra = resv[q.order].consumed["CASH"]
      BY <1>9, <2>2, <3>2, RecordFields
    <3> QED  BY <1>9, <3>1, <3>3 DEF ReservationMoved
  <2> QED  BY <2>1, <2>2
<1>11. DOMAIN events \subseteq DOMAIN events'
  BY CommitOms
<1>12. /\ BooksOK' /\ Active(q.exec)' # {}
       /\ \A x \in Executions \ {q.exec} : Untouched(x)
  BY <1>4, <1>5, <1>6, <1>7, <1>8, <1>9, <1>10, <1>11, CorrectBooks
<1>13. BustStep
  BY <1>9, <1>12, UntouchedStays DEF BustStep, Busted
<1> QED  BY <1>12, <1>13

\* The financial part of the commit of a bust.
LEMMA CommitBust ==
  ASSUME IInv, NEW p \in Procs, Commit(p), plan[p].req.op = "BUST"
  PROVE  BooksOK' /\ BustStep
<1>1. PICK pl : pl = plan[p]
  OBVIOUS
<1>2. PlanOK(pl) /\ pl.ready /\ Fence(pl)
  BY <1>1 DEF IInv, Plans, Commit
<1>3. PICK q \in Busts : q = pl.req /\ q.op = "BUST" /\ q \in Requests
  BY <1>1, <1>2, RequestFields DEF PlanOK
<1>4. BustStands(pl) /\ ReadStands(pl)
  BY <1>2, <1>3, Fenced
<1>5. /\ bound[q.exec] # None /\ bound[q.exec].fid = q.fid /\ Active(q.exec) = {q.fid}
      /\ owed[q.fid] # "Settled" /\ R!CanRestore(resv, q.order, Cash(q.cost))
  BY <1>3, <1>4 DEF BustStands, ReadStands
<1>6. ledger' = [ledger EXCEPT ![q.fid].reversed = TRUE]
  BY <1>1, <1>3 DEF Commit, LedgerAfter
<1>7. owed' = owed /\ bound' = bound /\ chain' = chain
  BY <1>1, <1>3 DEF Commit
<1>8. resv' = ReservationAfter(pl)
  BY <1>1, <1>3 DEF Commit, Writes
<1>9. resv' = R!Restored(resv, q.order, Cash(q.cost))
  BY <1>3, <1>8 DEF ReservationAfter
<1>10. BooksOK /\ resv \in R!Books /\ q.order \in OrderIds /\ q.cost \in Nat
       /\ ReservationOK(resv[q.order])
  BY <1>3, RequestFields DEF IInv, BooksOK
<1>11. ReservationMoved(resv', q.order, resv[q.order].consumed["CASH"] - q.cost)
  BY <1>5, <1>9, <1>10, RestoredMoves
<1>12. DOMAIN events \subseteq DOMAIN events' /\ q \in DOMAIN events'
  BY <1>1, <1>3, CommitOms
<1>13. /\ BooksOK'
       /\ \A x \in Executions \ {q.exec} : Untouched(x)
  BY <1>5, <1>6, <1>7, <1>10, <1>11, <1>12, BustBooks
<1>14. BustStep
  <2>1. ASSUME NEW e \in Executions, ~Busted(e), Busted(e)' PROVE owed[bound[e].fid] # "Settled"
    <3>1. CASE e = q.exec
      BY <1>5, <3>1
    <3>2. CASE e # q.exec
      BY <1>10, <1>13, <2>1, <3>2, UntouchedStays
    <3> QED  BY <3>1, <3>2
  <2> QED  BY <2>1 DEF BustStep
<1> QED  BY <1>13, <1>14

LEMMA CommitBooks ==
  ASSUME IInv, NEW p \in Procs, Commit(p)
  PROVE  BooksOK' /\ BustStep
<1>1. plan[p].req \in Requests
  BY DEF IInv, Plans, PlanOK, Commit
<1> QED  BY <1>1, RequestFields, CommitFill, CommitCorrection, CommitBust

\* A commit moves the versions and the sequence that fence other plans.
LEMMA CommitAdvances ==
  ASSUME IInv, NEW p \in Procs, Commit(p)
  PROVE  Advances
<1>1. PICK pl : pl = plan[p]
  OBVIOUS
<1>2. PlanOK(pl) /\ pl.ready /\ Fence(pl)
  BY <1>1 DEF IInv, Plans, Commit
<1>3. PICK q \in Requests : q = pl.req /\ q.exec \in Executions
  BY <1>2, RequestFields DEF PlanOK
<1>4. ver \in [Aggregates -> Nat]
  BY DEF IInv, Counters
<1>5. ver' = [g \in Aggregates |-> IF g \in Writes(pl) THEN ver[g] + 1 ELSE ver[g]]
  BY <1>1 DEF Commit
<1>6. ver' \in [Aggregates -> Nat] /\ \A g \in Aggregates : ver[g] <= ver'[g]
  BY <1>4, <1>5
<1>7. \A g \in Aggregates : ver'[g] = ver[g] => g \notin Writes(pl)
  BY <1>4, <1>5
<1>8. ver'["ledger"] # ver["ledger"]
  BY <1>7 DEF Aggregates, Writes
<1>9. ver'["resv"] = ver["resv"] => resv' = resv
  BY <1>1, <1>7 DEF Aggregates, Commit
<1>10. /\ bound \in [Executions -> Fills \cup {None}]
       /\ chain \in [Executions -> Seq(Links)] /\ chain' \in [Executions -> Seq(Links)]
  BY CommitBooks DEF IInv, BooksOK
<1>11. ASSUME NEW e \in Executions PROVE bound[e] # None => bound'[e] = bound[e]
  <2>1. CASE q.op = "FILL"
    <3>1. bound' = [bound EXCEPT ![q.exec] = q] /\ bound[q.exec] = None
      BY <1>1, <1>2, <1>3, <2>1 DEF Commit, Fence
    <3> QED  BY <1>10, <3>1
  <2>2. CASE q.op # "FILL"
    BY <1>1, <1>3, <2>2 DEF Commit
  <2> QED  BY <2>1, <2>2
<1>12. ASSUME NEW e \in Executions
       PROVE  /\ Len(chain[e]) <= Len(chain'[e])
              /\ Len(chain[e]) = Len(chain'[e]) => chain'[e] = chain[e]
  <2>1. Len(chain[e]) \in Nat
    BY <1>10, LenProperties
  <2>2. CASE q.op = "CORRECT" /\ e = q.exec
    <3>1. PICK lnk : lnk = [fid |-> q.fid, high |-> pl.high]
      OBVIOUS
    <3>2. chain' = [chain EXCEPT ![e] = Append(chain[e], lnk)]
      BY <1>1, <1>3, <2>2, <3>1 DEF Commit
    <3>3. lnk \in Links
      BY <1>2, <1>3, <3>1, RequestFields DEF Links, PlanOK
    <3>4. chain'[e] = Append(chain[e], lnk)
      BY <1>10, <3>2
    <3>5. Len(chain'[e]) = Len(chain[e]) + 1
      BY <1>10, <3>3, <3>4, NextLink
    <3> QED  BY <2>1, <3>5
  <2>3. CASE ~(q.op = "CORRECT" /\ e = q.exec)
    <3>1. chain'[e] = chain[e]
      BY <1>1, <1>3, <1>10, <2>3 DEF Commit
    <3> QED  BY <2>1, <3>1
  <2> QED  BY <2>2, <2>3
<1>13. seq' = seq + 1
  BY DEF Commit
<1> QED  BY <1>6, <1>8, <1>9, <1>11, <1>12, <1>13 DEF Advances

LEMMA CommitOK ==
  ASSUME IInv, NEW p \in Procs, Commit(p)
  PROVE  IInv' /\ ReplayStep /\ BustStep
<1>1. OmsOK' /\ ReplayStep
  BY CommitOms
<1>2. BooksOK' /\ BustStep
  BY CommitBooks
<1>3. Advances
  BY CommitAdvances
<1>4. Counters'
  <2>1. plan[p].req \in Requests
    BY DEF IInv, Plans, PlanOK, Commit
  <2>2. cmds' = cmds \cup {plan[p].req}
    BY DEF Commit
  <2> QED  BY <1>3, <2>1, <2>2 DEF IInv, Counters, Advances
<1>5. \A pl : PlanOK(pl) => PlanOK(pl)'
  BY <1>2, <1>3, PlanStays DEF IInv
<1>6. plan' = [plan EXCEPT ![p] = None]
  BY DEF Commit
<1>7. Plans'
  BY <1>5, <1>6, PlansFollow DEF IInv
<1> QED  BY <1>1, <1>2, <1>4, <1>7 DEF IInv

-----------------------------------------------------------------------------
(* The theorems.                                                           *)

LEMMA InitOK == Init => IInv
<1> SUFFICES ASSUME Init PROVE IInv
  OBVIOUS
<1>1. OmsOK
  <2>1. PICK r : r = O!Acknowledged(O!Created(Size, None, None), None, None, "ACCEPTED")
    OBVIOUS
  <2>2. PICK c : c = O!Created(Size, None, None)
    OBVIOUS
  <2>3. c \in O!OrderRecords /\ c.fills = [f \in FillIds |-> None] /\ c.history = {}
    BY <2>2, EvidenceAssumption DEF O!Created, O!NoOrder, O!OrderRecords
  <2>4. r = [c EXCEPT !.att = c.att, !.pid = c.pid, !.rejected = c.rejected \/ FALSE,
                      !.sub = "ACCEPTED"]
    BY <2>1, <2>2 DEF O!Acknowledged
  <2>5. r \in O!OrderRecords /\ r.fills = [f \in FillIds |-> None] /\ r.history = {}
    BY <2>3, <2>4 DEF O!OrderRecords, O!Outcomes
  <2>6. oms = [o \in OrderIds |-> r] /\ events = <<>>
    BY <2>1 DEF Init
  <2>7. oms \in O!Books
    BY <2>5, <2>6 DEF O!Books
  <2>8. DOMAIN events = {}
    BY <2>6
  <2>9. \A o \in OrderIds : Projected(o)
    BY <2>5, <2>6 DEF Projected, HistoryKept
  <2> QED  BY <2>7, <2>8, <2>9 DEF OmsOK
<1>2. BooksOK
  <2>1. \A i \in Nat : Cash(i) \in R!Amounts /\ Cash(i)["CASH"] = i
    BY DEF R!Amounts, Cash
  <2>2. Envelope \in Nat
    BY EvidenceAssumption
  <2>3. ASSUME NEW o \in OrderIds
        PROVE  resv[o] \in R!Records /\ ReservationOK(resv[o]) /\ resv[o].consumed["CASH"] = 0
    <3>1. PICK rec : rec = [state |-> "WORKING", intent |-> o, original |-> Cash(Envelope),
                            remaining |-> Cash(Envelope), consumed |-> Cash(0)]
      OBVIOUS
    <3>2. resv[o] = rec
      BY <3>1 DEF Init
    <3>3. rec \in R!Records
      BY <2>1, <2>2, <3>1 DEF R!Records, R!HeldStates
    <3>4. rec.consumed["CASH"] = 0 /\ ReservationOK(rec)
      BY <2>1, <2>2, <3>1 DEF ReservationOK
    <3> QED  BY <3>2, <3>3, <3>4
  <2>4. resv \in R!Books
    <3>1. resv = [o \in OrderIds |-> resv[o]]
      BY DEF Init
    <3> QED  BY <2>3, <3>1 DEF R!Books
  <2>5. \A f \in FillIds : ledger[f] = NoTransaction /\ ledger[f].exec = None
    BY DEF Init, NoTransaction
  <2>6. NoTransaction \in Transactions
    BY DEF NoTransaction, Transactions
  <2>7. LedgerOK
    BY <2>5, <2>6 DEF Init, LedgerOK
  <2>8. bound = [e \in Executions |-> None] /\ chain = [e \in Executions |-> <<>>]
    BY DEF Init
  <2>9. \A e \in Executions : Lineage(e) /\ Followed(e)
    BY <2>8 DEF Lineage, Followed
  <2>10. {e \in Executions : bound[e] # None} = {}
    BY <2>8
  <2>11. <<>> \in Seq(Links)
    BY EmptySeq
  <2>12. chain \in [Executions -> Seq(Links)] /\ bound \in [Executions -> Fills \cup {None}]
    BY <2>8, <2>11
  <2>13. ASSUME NEW o \in OrderIds PROVE Used(o) = 0
    <3>1. Standing(o) = {}
      BY <2>10 DEF Standing
    <3>2. PICK f : f = [e \in Standing(o) |-> ConservativeUsage(e)]
      OBVIOUS
    <3>3. DOMAIN f = {} /\ Used(o) = SumFunction(f)
      BY <3>1, <3>2 DEF Used
    <3>4. SumFunction(f) = SumFunctionOnSet(f, DOMAIN f)
      BY DEF SumFunction, SumFunctionOnSet
    <3> QED  BY <3>3, <3>4, SumEmpty
  <2> QED  BY <2>3, <2>4, <2>7, <2>9, <2>10, <2>12, <2>13, FS_EmptySet DEF BooksOK
<1>3. Counters
  BY DEF Init, Counters
<1>4. Plans
  BY DEF Init, Plans
<1> QED  BY <1>1, <1>2, <1>3, <1>4 DEF IInv

LEMMA StepOK == IInv /\ [Next]_vars => IInv'
<1> SUFFICES ASSUME IInv, [Next]_vars PROVE IInv'
  OBVIOUS
<1>1. ASSUME NEW p \in Procs, NEW q \in Requests, Read(p, q) PROVE IInv'
  BY <1>1, ReadOK
<1>2. ASSUME NEW p \in Procs, Prepare(p) PROVE IInv'
  BY <1>2, PrepareOK
<1>3. ASSUME NEW p \in Procs, Commit(p) PROVE IInv'
  BY <1>3, CommitOK
<1>4. ASSUME NEW p \in Procs, Drop(p) PROVE IInv'
  BY <1>4, DropOK
<1>5. ASSUME NEW q \in OmsRequests, Observe(q) PROVE IInv'
  BY <1>5, ObserveOK
<1>6. ASSUME NEW f \in FillIds, Settle(f) PROVE IInv'
  BY <1>6, SettleOK
<1>7. CASE UNCHANGED vars
  <2>1. UNCHANGED <<books, seq, ver, cmds>> /\ UNCHANGED <<books, seq, ver>> /\ plan' = plan
    BY <1>7 DEF vars
  <2>2. OmsOK' /\ BooksOK' /\ Counters'
    BY <2>1, BooksSame DEF IInv
  <2>3. \A pl : PlanOK(pl) => PlanOK(pl)'
    BY <2>1, PlanSame
  <2>4. Plans'
    BY <2>1, <2>3 DEF IInv, Plans
  <2> QED  BY <2>2, <2>4 DEF IInv
<1> QED  BY <1>1, <1>2, <1>3, <1>4, <1>5, <1>6, <1>7 DEF Next

\* The invariant that the other theorems rest on: what every prepared command
\* assumes of the books is true as long as its fence would let it commit.
THEOREM Invariance == Spec => []IInv
  BY InitOK, StepOK, PTL DEF Spec

\* Every book of the fill barrier holds values of its type, however the
\* commands interleave.
THEOREM FillTypeCorrect == Spec => []TypeOK
<1>1. IInv => TypeOK
  BY DEF IInv, OmsOK, BooksOK, LedgerOK, Counters, TypeOK, Transactions, Links
<1> QED  BY <1>1, Invariance, PTL

\* The economic ledger, the settlement obligations, the bindings and the
\* reservations agree on every execution after any mix of fills, corrections
\* and busts, and what a reservation has consumed is the sum of the usages its
\* standing executions are held to.
THEOREM BooksStayTogether == Spec => []BooksAgree
<1>1. IInv => BooksAgree
  <2> SUFFICES ASSUME IInv PROVE BooksAgree
    OBVIOUS
  <2>1. BooksOK /\ LedgerOK
    BY DEF IInv, BooksOK
  <2>2. ASSUME NEW e \in Executions
        PROVE  /\ bound[e] = None => Active(e) = {}
               /\ bound[e] # None => Booked(bound[e].fid) /\ owed[bound[e].fid] # "None"
               /\ bound[e] # None /\ ~Busted(e) => Active(e) = {ActiveFill(e)}
               /\ \A f \in Active(e) : owed[f] # "None" /\ ledger[f].cost <= ConservativeUsage(e)
    <3>1. e # None
      BY NoneAssumption
    <3>2. \A f \in FillIds : ledger[f].exec = e => bound[e] # None /\ owed[f] # "None"
      BY <2>1, <3>1 DEF LedgerOK
    <3>3. Lineage(e)
      BY <2>1 DEF BooksOK
    <3>4. bound[e] = None => Active(e) = {}
      BY <3>2 DEF Active
    <3>5. ASSUME bound[e] # None PROVE Booked(bound[e].fid) /\ owed[bound[e].fid] # "None"
      <4>1. bound[e].fid \in FillIds /\ ledger[bound[e].fid].exec = e
        BY <3>3, <3>5, FillFields DEF Lineage
      <4> QED  BY <3>1, <3>2, <4>1 DEF Booked, NoTransaction
    <3>6. bound[e] # None /\ ~Busted(e) => Active(e) = {ActiveFill(e)}
      BY <3>3 DEF Lineage, Busted
    <3>7. \A f \in Active(e) : owed[f] # "None" /\ ledger[f].cost <= ConservativeUsage(e)
      BY <3>2, <3>3 DEF Lineage, Active
    <3> QED  BY <3>4, <3>5, <3>6, <3>7
  <2>3. \A o \in OrderIds : resv[o].consumed["CASH"] = Used(o)
    BY <2>1 DEF BooksOK
  <2> QED  BY <2>2, <2>3 DEF BooksAgree, Used
<1> QED  BY <1>1, Invariance, PTL

\* No execution is bound that its order does not have as a fill, and none is
\* reversed that still counts as filled, also when the order projection
\* observed the fill or the bust by itself before the financial command.
THEOREM FinanceFollows == Spec => []FinanceFollowsOms
<1>1. IInv => FinanceFollowsOms
  <2> SUFFICES ASSUME IInv, NEW e \in Executions, bound[e] # None
               PROVE  LET fill == oms[bound[e].order].fills[bound[e].fid] IN
                      fill # None /\ (Busted(e) => ~fill.active)
    BY DEF FinanceFollowsOms
  <2>1. PICK r \in Fills : r = bound[e] /\ r.op = "FILL"
    BY UsageType, FillFields DEF IInv
  <2>2. r \in DOMAIN events
    BY <2>1 DEF IInv, BooksOK, Followed
  <2>3. oms[r.order].fills[r.fid] # None
    BY <2>1, <2>2 DEF IInv, OmsOK
  <2>4. ASSUME Busted(e) PROVE ~oms[r.order].fills[r.fid].active
    <3>1. PICK b : b = [r EXCEPT !.op = "BUST"]
      OBVIOUS
    <3>2. DOMAIN r = {"op", "order", "exec", "of", "fid", "qty", "cost"}
      BY EvidenceAssumption
    <3>3. b.op = "BUST" /\ b.order = r.order /\ b.fid = r.fid
      BY <3>1, <3>2
    <3>4. b \in DOMAIN events
      BY <2>1, <2>4, <3>1 DEF IInv, BooksOK, Followed, Busted
    <3> QED  BY <3>3, <3>4 DEF IInv, OmsOK
  <2> QED  BY <2>1, <2>3, <2>4
<1> QED  BY <1>1, Invariance, PTL

\* What a step that is not a commit does to the two action properties.
LEMMA QuietStep ==
  ASSUME IInv, UNCHANGED <<oms, events, ledger, bound>>
  PROVE  ReplayStep /\ BustStep
<1>1. \A e \in Executions : Busted(e)' <=> Busted(e)
  BY DEF Busted, Active
<1> QED  BY <1>1 DEF ReplayStep, BustStep

\* Every step does to the journal and to settled fills what the action
\* properties say.
LEMMA StepEffects ==
  ASSUME IInv, [Next]_vars
  PROVE  ReplayStep /\ BustStep
<1>1. ASSUME NEW p \in Procs, NEW q \in Requests, Read(p, q) PROVE ReplayStep /\ BustStep
  BY <1>1, QuietStep DEF Read, books
<1>2. ASSUME NEW p \in Procs, Prepare(p) \/ Drop(p) PROVE ReplayStep /\ BustStep
  BY <1>2, QuietStep DEF Prepare, Drop, books
<1>3. ASSUME NEW p \in Procs, Commit(p) PROVE ReplayStep /\ BustStep
  BY <1>3, CommitOK
<1>4. ASSUME NEW q \in OmsRequests, Observe(q) PROVE ReplayStep /\ BustStep
  <2>1. /\ DOMAIN events' = DOMAIN events \cup {q}
        /\ events'[q] = O!Snapshot(OmsAfter(q))
        /\ \A x \in DOMAIN events : events'[x] = events[x]
        /\ oms'[q.order] = OmsAfter(q)
    BY <1>4, OmsWritten DEF IInv, Observe
  <2>2. ReplayStep
    BY <2>1 DEF ReplayStep
  <2>3. \A e \in Executions : Busted(e)' <=> Busted(e)
    BY <1>4 DEF Observe, Busted, Active
  <2> QED  BY <2>2, <2>3 DEF BustStep
<1>5. ASSUME NEW f \in FillIds, Settle(f) PROVE ReplayStep /\ BustStep
  BY <1>5, QuietStep DEF Settle
<1>6. CASE UNCHANGED vars
  BY <1>6, QuietStep DEF vars, books
<1> QED  BY <1>1, <1>2, <1>3, <1>4, <1>5, <1>6 DEF Next

\* An event that gets into the journal replays to the snapshot prepared for it
\* although other commands were committed between the reads and the commit, and
\* no event changes afterwards.
THEOREM EventsReplay == Spec => ReplaysAsPrepared
<1>1. IInv /\ [Next]_vars => [ReplayStep]_vars
  BY StepEffects
<1> QED  BY <1>1, Invariance, PTL DEF Spec, ReplaysAsPrepared, ReplayStep

\* A fill whose settlement is evidenced is never busted, also when the evidence
\* is committed while the bust is being prepared.
THEOREM SettledStaysBooked == Spec => SettledNotBusted
<1>1. IInv /\ [Next]_vars => [BustStep]_vars
  BY StepEffects
<1> QED  BY <1>1, Invariance, PTL DEF Spec, SettledNotBusted, BustStep

=============================================================================
