----------------------------- MODULE OrderProofs -----------------------------
(***************************************************************************)
(* Proofs about DurableOrders, for any number of orders, fills, revisions, *)
(* commands and event keys.                                                *)
(***************************************************************************)
EXTENDS DurableOrders, TLAPS

\* What the history of an order says of its fills: the current observation of
\* a fill is in it, a revision has the fill it revises before it, and
\* executions and fills correspond.
HistoryOK(r) ==
  /\ \A f \in FillIds : r.fills[f] # None =>
       r.fills[f] \in r.history /\ Root(r.fills[f]) = f
  /\ \A g \in r.history : \E h \in r.history : h.fid = Root(g)
  /\ \A g, h \in r.history : g.exec = h.exec <=> Root(g) = Root(h)

\* A replacement command is kept while its replacement is pending.
PendingOK(r) ==
  /\ r.replaceCommand # None => r.replaceRequested
  /\ ~(r.cancelRequested /\ r.replaceRequested)
  /\ r.expired => ~r.cancelRequested /\ ~r.replaceRequested

RecordOK(r) ==
  /\ ~r.known => r = NoOrder
  /\ HistoryOK(r)
  /\ PendingOK(r)

\* What an operation may do to an order that is registered.
Extends(r, s) ==
  r.known =>
    /\ s.known
    /\ s.group = r.group
    /\ r.history \subseteq s.history
    /\ \A f \in FillIds :
         r.fills[f] # None /\ ~r.fills[f].active => f \notin ActiveFills(s)

-----------------------------------------------------------------------------
LEMMA NoOrderOK ==
  /\ NoOrder \in OrderRecords
  /\ RecordOK(NoOrder)
  BY DEF NoOrder, OrderRecords, Outcomes, RecordOK, HistoryOK, PendingOK

\* An order is created with an empty history.
LEMMA CreatedOK ==
  ASSUME NEW n \in Sizes, NEW g \in Groups \cup {None}, NEW p \in Orders \cup {None}
  PROVE  /\ Created(n, g, p) \in OrderRecords
         /\ RecordOK(Created(n, g, p))
<1> DEFINE r == Created(n, g, p)
<1>1. r \in OrderRecords /\ r.known
  BY DEF Created, NoOrder, OrderRecords, Outcomes
<1>2. r.fills = NoOrder.fills /\ r.history = NoOrder.history
      /\ r.replaceCommand = NoOrder.replaceCommand
      /\ r.replaceRequested = NoOrder.replaceRequested
      /\ r.cancelRequested = NoOrder.cancelRequested
      /\ r.expired = NoOrder.expired
  BY NoOrderOK DEF Created, OrderRecords
<1> HIDE DEF r
<1>3. RecordOK(r)
  BY <1>1, <1>2, NoOrderOK DEF RecordOK, HistoryOK, PendingOK
<1> QED  BY <1>1, <1>3 DEF r

\* Operations that leave the fills alone.
LEMMA FlagsOK ==
  ASSUME NEW r \in OrderRecords, NEW s \in OrderRecords, RecordOK(r), r.known,
         s.known, s.group = r.group, s.fills = r.fills, s.history = r.history,
         PendingOK(s)
  PROVE  RecordOK(s) /\ Extends(r, s)
<1>1. RecordOK(s)
  BY DEF RecordOK, HistoryOK
<1>2. ASSUME NEW f \in FillIds, r.fills[f] # None, ~r.fills[f].active
      PROVE  f \notin ActiveFills(s)
  BY <1>2 DEF ActiveFills
<1> QED  BY <1>1, <1>2 DEF Extends

\* Noting the attempt that was started.
LEMMA BoundOK ==
  ASSUME NEW r \in OrderRecords, RecordOK(r), r.known, NEW a \in Attempts
  PROVE  Bound(r, a) \in OrderRecords /\ RecordOK(Bound(r, a)) /\ Extends(r, Bound(r, a))
<1> DEFINE s == Bound(r, a)
<1>1. s \in OrderRecords
  BY DEF Bound, OrderRecords
<1>2. s.known /\ s.group = r.group /\ s.fills = r.fills /\ s.history = r.history
      /\ s.replaceCommand = r.replaceCommand /\ s.replaceRequested = r.replaceRequested
      /\ s.cancelRequested = r.cancelRequested /\ s.expired = r.expired
  BY DEF Bound, OrderRecords
<1>3. PendingOK(s)
  BY <1>2 DEF RecordOK, PendingOK
<1> HIDE DEF s
<1>4. RecordOK(s) /\ Extends(r, s)
  BY <1>1, <1>2, <1>3, FlagsOK
<1> QED  BY <1>1, <1>4 DEF s

\* An acknowledgement of the provider.
LEMMA AcknowledgedOK ==
  ASSUME NEW r \in OrderRecords, RecordOK(r), r.known, NEW a \in Attempts \cup {None},
         NEW pid \in ProviderIds \cup {None}, NEW outcome \in Outcomes
  PROVE  LET s == Acknowledged(r, a, pid, outcome)
         IN  s \in OrderRecords /\ RecordOK(s) /\ Extends(r, s)
<1> DEFINE s == Acknowledged(r, a, pid, outcome)
<1>1. s \in OrderRecords
  <2>1. PICK att \in Attempts \cup {None} : att = IF a # None THEN a ELSE r.att
    BY DEF OrderRecords
  <2>2. PICK id \in ProviderIds \cup {None} : id = IF pid # None THEN pid ELSE r.pid
    BY DEF OrderRecords
  <2>3. PICK rej \in BOOLEAN : rej = (r.rejected \/ outcome = "REJECTED")
    BY DEF OrderRecords
  <2>4. PICK t : t = [r EXCEPT !.att = att, !.pid = id, !.sub = outcome]
    OBVIOUS
  <2>5. t \in OrderRecords
    BY <2>4 DEF OrderRecords
  <2>6. s = [t EXCEPT !.rejected = rej]
    BY <2>1, <2>2, <2>3, <2>4 DEF Acknowledged, OrderRecords
  <2> HIDE DEF s
  <2> QED  BY <2>5, <2>6 DEF OrderRecords
<1>2. s.known /\ s.group = r.group /\ s.fills = r.fills /\ s.history = r.history
      /\ s.replaceCommand = r.replaceCommand /\ s.replaceRequested = r.replaceRequested
      /\ s.cancelRequested = r.cancelRequested /\ s.expired = r.expired
  BY DEF Acknowledged, OrderRecords
<1>3. PendingOK(s)
  BY <1>2 DEF RecordOK, PendingOK
<1> HIDE DEF s
<1>4. RecordOK(s) /\ Extends(r, s)
  BY <1>1, <1>2, <1>3, FlagsOK
<1> QED  BY <1>1, <1>4 DEF s

\* Commands on an order, and its end.
LEMMA CommandedOK ==
  ASSUME NEW r \in OrderRecords, RecordOK(r), r.known, NEW c \in Commands
  PROVE  /\ CanRequestCancel(r, c) =>
              LET s == CancelRequested(r, c)
              IN  s \in OrderRecords /\ RecordOK(s) /\ Extends(r, s)
         /\ CanRejectCancel(r, c) =>
              LET s == CancelRejected(r)
              IN  s \in OrderRecords /\ RecordOK(s) /\ Extends(r, s)
         /\ CanRequestReplace(r, c) =>
              LET s == ReplaceRequested(r, c)
              IN  s \in OrderRecords /\ RecordOK(s) /\ Extends(r, s)
         /\ CanRejectReplace(r, c) =>
              LET s == ReplaceRejected(r, c)
              IN  s \in OrderRecords /\ RecordOK(s) /\ Extends(r, s)
<1>0. c # None /\ PendingOK(r)
  BY OrdersAssumption DEF RecordOK
<1>1. ASSUME CanRequestCancel(r, c)
      PROVE  LET s == CancelRequested(r, c)
             IN  s \in OrderRecords /\ RecordOK(s) /\ Extends(r, s)
  <2>1. CASE r.cancelCommand = c
    <3>1. CancelRequested(r, c) = r
      BY <2>1 DEF CancelRequested
    <3> QED  BY <3>1, <1>0, FlagsOK
  <2>2. CASE r.cancelCommand # c
    <3>1. PICK b \in BOOLEAN : b = (r.cancelRequested \/ ~r.cancelled)
      OBVIOUS
    <3>2. PICK s : s = [r EXCEPT !.cancelCommand = c, !.cancelRequested = b]
      OBVIOUS
    <3>3. CancelRequested(r, c) = s
      BY <2>2, <3>1, <3>2 DEF CancelRequested
    <3>4. s \in OrderRecords
      BY <3>2 DEF OrderRecords
    <3>5. s.known /\ s.group = r.group /\ s.fills = r.fills /\ s.history = r.history
          /\ s.replaceCommand = r.replaceCommand
          /\ s.replaceRequested = r.replaceRequested /\ s.expired = r.expired
      BY <3>2 DEF OrderRecords
    <3>6. ~r.replaceRequested /\ ~r.expired
      BY <1>1, <2>2 DEF CanRequestCancel
    <3>7. PendingOK(s)
      BY <1>0, <3>5, <3>6 DEF PendingOK
    <3> QED  BY <3>3, <3>4, <3>5, <3>7, FlagsOK
  <2> QED  BY <2>1, <2>2
<1>2. ASSUME CanRejectCancel(r, c)
      PROVE  LET s == CancelRejected(r)
             IN  s \in OrderRecords /\ RecordOK(s) /\ Extends(r, s)
  <2>1. PICK s : s = [r EXCEPT !.cancelRequested = FALSE, !.cancelCommand = None]
    OBVIOUS
  <2>2. s \in OrderRecords
    BY <2>1 DEF OrderRecords
  <2>3. s.known /\ s.group = r.group /\ s.fills = r.fills /\ s.history = r.history
        /\ s.replaceCommand = r.replaceCommand /\ ~s.cancelRequested
        /\ s.replaceRequested = r.replaceRequested /\ s.expired = r.expired
    BY <2>1 DEF OrderRecords
  <2>4. PendingOK(s)
    BY <1>0, <2>3 DEF PendingOK
  <2> QED  BY <2>1, <2>2, <2>3, <2>4, FlagsOK DEF CancelRejected
<1>3. ASSUME CanRequestReplace(r, c)
      PROVE  LET s == ReplaceRequested(r, c)
             IN  s \in OrderRecords /\ RecordOK(s) /\ Extends(r, s)
  <2>1. PICK s : s = [r EXCEPT !.replaceCommand = c, !.replaceRequested = TRUE]
    OBVIOUS
  <2>2. s \in OrderRecords
    BY <2>1 DEF OrderRecords
  <2>3. s.known /\ s.group = r.group /\ s.fills = r.fills /\ s.history = r.history
        /\ s.replaceRequested
        /\ s.cancelRequested = r.cancelRequested /\ s.expired = r.expired
    BY <2>1 DEF OrderRecords
  <2>4. ~r.cancelRequested /\ ~r.expired
    BY <1>0, <1>3 DEF CanRequestReplace, Ended, PendingOK
  <2>5. PendingOK(s)
    BY <2>3, <2>4 DEF PendingOK
  <2> QED  BY <2>1, <2>2, <2>3, <2>5, FlagsOK DEF ReplaceRequested
<1>4. ASSUME CanRejectReplace(r, c)
      PROVE  LET s == ReplaceRejected(r, c)
             IN  s \in OrderRecords /\ RecordOK(s) /\ Extends(r, s)
  <2>1. PICK d \in SUBSET Commands : d = r.resolved \cup {c}
    BY DEF OrderRecords
  <2>2. PICK s : s = [r EXCEPT !.resolved = d, !.replaceRequested = FALSE,
                               !.replaceCommand = None]
    OBVIOUS
  <2>3. s \in OrderRecords
    BY <2>2 DEF OrderRecords
  <2>4. s.known /\ s.group = r.group /\ s.fills = r.fills /\ s.history = r.history
        /\ s.replaceCommand = None /\ ~s.replaceRequested
        /\ s.cancelRequested = r.cancelRequested /\ s.expired = r.expired
    BY <2>2 DEF OrderRecords
  <2>5. PendingOK(s)
    BY <1>0, <2>4 DEF PendingOK
  <2>6. ReplaceRejected(r, c) = s
    BY <2>1, <2>2 DEF ReplaceRejected
  <2> QED  BY <2>3, <2>4, <2>5, <2>6, FlagsOK
<1> QED  BY <1>1, <1>2, <1>3, <1>4

\* The two ends of an order, cancel and expiry.
LEMMA EndedOK ==
  ASSUME NEW r \in OrderRecords, RecordOK(r), r.known
  PROVE  /\ CanConfirmCancel(r) =>
              LET s == CancelConfirmed(r)
              IN  s \in OrderRecords /\ RecordOK(s) /\ Extends(r, s)
         /\ CanConfirmExpired(r) =>
              LET s == Expired(r)
              IN  s \in OrderRecords /\ RecordOK(s) /\ Extends(r, s)
<1>0. PendingOK(r)
  BY DEF RecordOK
<1>1. ASSUME CanConfirmCancel(r)
      PROVE  LET s == CancelConfirmed(r)
             IN  s \in OrderRecords /\ RecordOK(s) /\ Extends(r, s)
  <2>1. PICK s : s = [r EXCEPT !.cancelRequested = TRUE, !.cancelled = TRUE]
    OBVIOUS
  <2>2. s \in OrderRecords
    BY <2>1 DEF OrderRecords
  <2>3. s.known /\ s.group = r.group /\ s.fills = r.fills /\ s.history = r.history
        /\ s.replaceCommand = r.replaceCommand
        /\ s.replaceRequested = r.replaceRequested /\ s.expired = r.expired
    BY <2>1 DEF OrderRecords
  <2>4. PendingOK(s)
    BY <1>0, <1>1, <2>3 DEF PendingOK, CanConfirmCancel
  <2> QED  BY <2>1, <2>2, <2>3, <2>4, FlagsOK DEF CancelConfirmed
<1>2. ASSUME CanConfirmExpired(r)
      PROVE  LET s == Expired(r)
             IN  s \in OrderRecords /\ RecordOK(s) /\ Extends(r, s)
  <2>1. PICK s : s = [r EXCEPT !.expired = TRUE]
    OBVIOUS
  <2>2. s \in OrderRecords
    BY <2>1 DEF OrderRecords
  <2>3. s.known /\ s.group = r.group /\ s.fills = r.fills /\ s.history = r.history
        /\ s.replaceCommand = r.replaceCommand
        /\ s.cancelRequested = r.cancelRequested
        /\ s.replaceRequested = r.replaceRequested
    BY <2>1 DEF OrderRecords
  <2>4. PendingOK(s)
    BY <1>0, <1>2, <2>3 DEF PendingOK, CanConfirmExpired
  <2> QED  BY <2>1, <2>2, <2>3, <2>4, FlagsOK DEF Expired
<1> QED  BY <1>1, <1>2

\* A first observation, and a revision: one more entry in the history, which
\* is the current one of its fill.
LEMMA ObservedOK ==
  ASSUME NEW r \in OrderRecords, RecordOK(r), r.known, NEW h \in Observations,
         NEW f \in FillIds, Root(h) = f,
         r.fills[f] = None => h.fid = f /\ \A g \in r.history : g.exec # h.exec
                                                             /\ g.fid # f,
         r.fills[f] # None => /\ r.fills[f].exec = h.exec
                              /\ ~r.fills[f].active => ~h.active
  PROVE  LET s == [r EXCEPT !.fills[f] = h, !.history = @ \cup {h}]
         IN  s \in OrderRecords /\ RecordOK(s) /\ Extends(r, s)
<1>0. HistoryOK(r) /\ PendingOK(r)
  BY DEF RecordOK
<1>1. PICK fl \in [FillIds -> Observations \cup {None}] : fl = [r.fills EXCEPT ![f] = h]
  BY DEF OrderRecords
<1>2. PICK hi \in SUBSET Observations : hi = r.history \cup {h}
  BY DEF OrderRecords
<1>3. PICK s : s = [r EXCEPT !.fills = fl, !.history = hi]
  OBVIOUS
<1>4. s = [r EXCEPT !.fills[f] = h, !.history = @ \cup {h}]
  BY <1>1, <1>2, <1>3 DEF OrderRecords
<1>5. s \in OrderRecords
  BY <1>3 DEF OrderRecords
<1>6. s.known /\ s.group = r.group /\ s.fills = fl /\ s.history = hi
      /\ s.replaceCommand = r.replaceCommand /\ s.cancelRequested = r.cancelRequested
      /\ s.replaceRequested = r.replaceRequested /\ s.expired = r.expired
  BY <1>3 DEF OrderRecords
<1>7. PendingOK(s)
  BY <1>0, <1>6 DEF PendingOK
<1>8. HistoryOK(s)
  <2>1. ASSUME NEW e \in FillIds, fl[e] # None
        PROVE  fl[e] \in hi /\ Root(fl[e]) = e
    BY <1>0, <1>1, <1>2, <2>1 DEF HistoryOK, OrderRecords
  <2>2. ASSUME NEW g \in hi PROVE \E k \in hi : k.fid = Root(g)
    <3>1. CASE g = h /\ r.fills[f] = None
      BY <1>2, <3>1
    <3>2. CASE g = h /\ r.fills[f] # None
      <4>1. r.fills[f] \in r.history /\ Root(r.fills[f]) = f
        BY <1>0, <3>2 DEF HistoryOK
      <4> QED  BY <1>0, <1>2, <3>2, <4>1 DEF HistoryOK
    <3>3. CASE g \in r.history
      BY <1>0, <1>2, <3>3 DEF HistoryOK
    <3> QED  BY <1>2, <3>1, <3>2, <3>3
  <2>3. ASSUME NEW g \in r.history PROVE g.exec = h.exec <=> Root(g) = f
    <3>1. CASE r.fills[f] = None
      <4>1. PICK k \in r.history : k.fid = Root(g)
        BY <1>0 DEF HistoryOK
      <4> QED  BY <3>1, <4>1
    <3>2. CASE r.fills[f] # None
      <4>1. r.fills[f] \in r.history /\ Root(r.fills[f]) = f
        BY <1>0, <3>2 DEF HistoryOK
      <4>2. g.exec = r.fills[f].exec <=> Root(g) = Root(r.fills[f])
        BY <1>0, <4>1 DEF HistoryOK
      <4> QED  BY <3>2, <4>1, <4>2
    <3> QED  BY <3>1, <3>2
  <2>4. ASSUME NEW g \in hi, NEW k \in hi PROVE g.exec = k.exec <=> Root(g) = Root(k)
    <3>1. CASE g \in r.history /\ k \in r.history
      BY <1>0, <3>1 DEF HistoryOK
    <3>2. CASE g = h \/ k = h
      BY <1>2, <2>3, <3>2
    <3> QED  BY <1>2, <3>1, <3>2
  <2> QED  BY <1>6, <2>1, <2>2, <2>4 DEF HistoryOK
<1>9. ASSUME NEW e \in FillIds, r.fills[e] # None, ~r.fills[e].active
      PROVE  e \notin ActiveFills(s)
  BY <1>1, <1>6, <1>9 DEF ActiveFills, OrderRecords
<1>10. RecordOK(s) /\ Extends(r, s)
  BY <1>2, <1>6, <1>7, <1>8, <1>9 DEF RecordOK, Extends
<1> QED  BY <1>4, <1>5, <1>10

\* A fill that may be recorded leaves a consistent record with the fill in it.
LEMMA FillRecordedOK ==
  ASSUME NEW r \in OrderRecords, RecordOK(r), r.known, NEW f \in FillIds,
         NEW e \in Executions, NEW n \in Quantities, NEW v \in Revisions \cup {None},
         CanRecordFill(r, Fill(f, e, n, v))
  PROVE  LET s == FillRecorded(r, Fill(f, e, n, v))
         IN  /\ s \in OrderRecords /\ RecordOK(s) /\ Extends(r, s)
             /\ Fill(f, e, n, v) \in s.history
<1>1. PICK h \in Observations : h = Fill(f, e, n, v)
  BY DEF Fill, Observations
<1>2. h.fid = f /\ h.exec = e /\ Root(h) = f
  BY <1>1 DEF Fill, Root
<1>3. CASE h \in r.history
  <2>1. FillRecorded(r, h) = r
    BY <1>3 DEF FillRecorded
  <2>2. RecordOK(r) /\ Extends(r, r)
    BY FlagsOK DEF RecordOK
  <2> QED  BY <1>1, <1>3, <2>1, <2>2
<1>4. CASE h \notin r.history
  <2>1. PICK s : s = [r EXCEPT !.fills[f] = h, !.history = @ \cup {h}]
    OBVIOUS
  <2>2. FillRecorded(r, h) = s
    BY <1>2, <1>4, <2>1 DEF FillRecorded
  <2>3. \A g \in r.history : g.fid # f /\ g.exec # h.exec
    BY <1>1, <1>2, <1>4 DEF CanRecordFill
  <2>4. r.fills[f] = None
    <3> SUFFICES ASSUME r.fills[f] # None PROVE FALSE
      OBVIOUS
    <3>1. r.fills[f] \in r.history /\ Root(r.fills[f]) = f
      BY DEF RecordOK, HistoryOK
    <3> QED  BY <2>3, <3>1 DEF RecordOK, HistoryOK
  <2>5. s \in OrderRecords /\ RecordOK(s) /\ Extends(r, s)
    BY <1>2, <2>1, <2>3, <2>4, ObservedOK
  <2>6. h \in s.history
    BY <2>1 DEF OrderRecords
  <2> QED  BY <1>1, <2>2, <2>5, <2>6
<1> QED  BY <1>3, <1>4

\* A revision of a known fill that does not revive it.
LEMMA RevisedOK ==
  ASSUME NEW r \in OrderRecords, RecordOK(r), r.known, NEW f \in FillIds,
         r.fills[f] # None, NEW h \in Observations, h.of = f,
         h.exec = r.fills[f].exec, ~r.fills[f].active => ~h.active
  PROVE  LET s == Revised(r, h)
         IN  s \in OrderRecords /\ RecordOK(s) /\ Extends(r, s)
<1>1. Root(h) = f
  BY OrdersAssumption DEF Root
<1>2. CASE h \in r.history
  <2>1. Revised(r, h) = r
    BY <1>2 DEF Revised
  <2>2. RecordOK(r) /\ Extends(r, r)
    BY FlagsOK DEF RecordOK
  <2> QED  BY <2>1, <2>2
<1>3. CASE h \notin r.history
  <2>1. PICK s : s = [r EXCEPT !.fills[f] = h, !.history = @ \cup {h}]
    OBVIOUS
  <2>2. Revised(r, h) = s
    BY <1>3, <2>1 DEF Revised
  <2>3. s \in OrderRecords /\ RecordOK(s) /\ Extends(r, s)
    BY <1>1, <2>1, ObservedOK
  <2> QED  BY <2>2, <2>3
<1> QED  BY <1>2, <1>3

LEMMA RevisionTypes ==
  ASSUME NEW r \in OrderRecords, NEW f \in FillIds, r.fills[f] # None,
         NEW n \in Quantities, NEW v \in Revisions, NEW i \in FillIds
  PROVE  /\ LET h == Bust(r, f, v, i)
            IN  h \in Observations /\ h.of = f /\ h.exec = r.fills[f].exec /\ ~h.active
         /\ LET h == Correction(r, f, n, v, i)
            IN  /\ h \in Observations /\ h.of = f /\ h.exec = r.fills[f].exec
                /\ h.active = r.fills[f].active
<1>1. PICK g \in Observations : g = r.fills[f]
  BY DEF OrderRecords
<1>2. LET h == [g EXCEPT !.fid = i, !.active = FALSE, !.rev = v, !.of = f]
      IN  h \in Observations /\ h.of = f /\ h.exec = g.exec /\ ~h.active
  BY DEF Observations
<1>3. LET h == [g EXCEPT !.fid = i, !.qty = n, !.rev = v, !.of = f]
      IN  h \in Observations /\ h.of = f /\ h.exec = g.exec /\ h.active = g.active
  BY DEF Observations
<1> QED  BY <1>1, <1>2, <1>3 DEF Bust, Correction

-----------------------------------------------------------------------------
\* The fields that the operations have.
LEMMA RequestFields ==
  ASSUME NEW q \in Requests
  PROVE  /\ q.order \in Orders
         /\ q.op = "CREATE" => /\ q.size \in Sizes /\ q.group \in Groups \cup {None}
                               /\ q.parent \in Orders \cup {None}
         /\ q.op = "MARK_SEND_STARTED" => q.att \in Attempts
         /\ q.op = "ACKNOWLEDGE" => /\ q.att \in Attempts
                                    /\ q.pid \in ProviderIds \cup {None}
                                    /\ q.status \in Outcomes
         /\ q.op = "RECORD_FILL" => /\ q.fill \in FillIds /\ q.exec \in Executions
                                    /\ q.qty \in Quantities
                                    /\ q.rev \in Revisions \cup {None}
         /\ q.op = "CORRECT_FILL" => /\ q.fill \in FillIds /\ q.qty \in Quantities
                                     /\ q.rev \in Revisions /\ q.id \in FillIds
         /\ q.op = "BUST_FILL" => /\ q.fill \in FillIds /\ q.rev \in Revisions
                                  /\ q.id \in FillIds
         /\ q.op \in {"REQUEST_CANCEL", "REJECT_CANCEL",
                      "REQUEST_REPLACE", "REJECT_REPLACE"} => q.command \in Commands
         /\ q.op \in {"CREATE", "MARK_SEND_STARTED", "ACKNOWLEDGE", "RECORD_FILL",
                      "CORRECT_FILL", "BUST_FILL", "REQUEST_CANCEL", "REJECT_CANCEL",
                      "REQUEST_REPLACE", "REJECT_REPLACE", "CONFIRM_CANCEL",
                      "CONFIRM_EXPIRED"}
<1>1. CASE q \in CreateRequests
  <2>1. PICK o \in Orders, n \in Sizes, g \in Groups \cup {None}, p \in Orders \cup {None} :
          q = CreateRequest(o, n, g, p)
    BY <1>1 DEF CreateRequests
  <2>2. q = [op |-> "CREATE", order |-> o, size |-> n, group |-> g, parent |-> p,
             att |-> None, pid |-> None, status |-> "None", fill |-> None, exec |-> None,
             qty |-> 0, rev |-> None, id |-> None, command |-> None]
    BY <2>1 DEF CreateRequest, Request
  <2> QED  BY <2>2
<1>2. CASE q \in FillRequests
  <2>1. PICK o \in Orders, f \in FillIds, e \in Executions, n \in Quantities,
             v \in Revisions \cup {None} :
          q = FillRequest(o, f, e, n, v)
    BY <1>2 DEF FillRequests
  <2>2. q = [op |-> "RECORD_FILL", order |-> o, size |-> 0, group |-> None, parent |-> None,
             att |-> None, pid |-> None, status |-> "None", fill |-> f, exec |-> e,
             qty |-> n, rev |-> v, id |-> None, command |-> None]
    BY <2>1 DEF FillRequest, Request
  <2> QED  BY <2>2
<1>3. CASE q \in CorrectRequests
  <2>1. PICK o \in Orders, f \in FillIds, n \in Quantities, v \in Revisions, i \in FillIds :
          q = CorrectRequest(o, f, n, v, i)
    BY <1>3 DEF CorrectRequests
  <2>2. q = [op |-> "CORRECT_FILL", order |-> o, size |-> 0, group |-> None, parent |-> None,
             att |-> None, pid |-> None, status |-> "None", fill |-> f, exec |-> None,
             qty |-> n, rev |-> v, id |-> i, command |-> None]
    BY <2>1 DEF CorrectRequest, Request
  <2> QED  BY <2>2
<1>4. CASE q \in BustRequests
  <2>1. PICK o \in Orders, f \in FillIds, v \in Revisions, i \in FillIds :
          q = BustRequest(o, f, v, i)
    BY <1>4 DEF BustRequests
  <2>2. q = [op |-> "BUST_FILL", order |-> o, size |-> 0, group |-> None, parent |-> None,
             att |-> None, pid |-> None, status |-> "None", fill |-> f, exec |-> None,
             qty |-> 0, rev |-> v, id |-> i, command |-> None]
    BY <2>1 DEF BustRequest, Request
  <2> QED  BY <2>2
<1>5. CASE q \in CommandRequests
  <2>1. PICK op \in {"REQUEST_CANCEL", "REJECT_CANCEL", "REQUEST_REPLACE", "REJECT_REPLACE"},
             o \in Orders, c \in Commands : q = [Request(op, o) EXCEPT !.command = c]
    BY <1>5 DEF CommandRequests
  <2>2. q = [op |-> op, order |-> o, size |-> 0, group |-> None, parent |-> None,
             att |-> None, pid |-> None, status |-> "None", fill |-> None, exec |-> None,
             qty |-> 0, rev |-> None, id |-> None, command |-> c]
    BY <2>1 DEF Request
  <2> QED  BY <2>2
<1>6. CASE q \in EndRequests
  BY <1>6 DEF EndRequests, Request
<1>7. CASE \E o \in Orders, a \in Attempts : q = SendStartedRequest(o, a)
  BY <1>7 DEF SendStartedRequest, Request
<1>8. CASE \E o \in Orders, a \in Attempts, pid \in ProviderIds \cup {None},
              outcome \in Outcomes : q = AcknowledgeRequest(o, a, pid, outcome)
  BY <1>8 DEF AcknowledgeRequest, Request
<1> QED
  BY <1>1, <1>2, <1>3, <1>4, <1>5, <1>6, <1>7, <1>8
  DEF Requests, Observed, LifecycleRequests, SyncRequests

\* What _apply makes of an order when it raises no error.
LEMMA AppliedOK ==
  ASSUME NEW b \in Books, \A o \in Orders : RecordOK(b[o]),
         NEW q \in Requests, Accepts(b, q)
  PROVE  /\ Applied(b, q) \in OrderRecords
         /\ RecordOK(Applied(b, q))
         /\ Extends(b[q.order], Applied(b, q))
         /\ q.op = "RECORD_FILL" => FillOf(q) \in Applied(b, q).history
<1>0. PICK r \in OrderRecords : r = b[q.order] /\ RecordOK(r)
  BY RequestFields DEF Books
<1> USE RequestFields
<1>1. CASE q.op = "CREATE"
  <2>1. Applied(b, q) = Created(q.size, q.group, q.parent)
    BY <1>1 DEF Applied
  <2>2. ~r.known
    BY <1>0, <1>1 DEF Accepts, CanCreate
  <2> QED  BY <1>0, <1>1, <2>1, <2>2, CreatedOK DEF Extends
<1>2. CASE q.op # "CREATE"
  <2>0. r.known
    BY <1>0, <1>2 DEF Accepts
  <2>1. CASE q.op = "MARK_SEND_STARTED"
    BY <1>0, <2>0, <2>1, BoundOK DEF Applied
  <2>2. CASE q.op = "ACKNOWLEDGE"
    BY <1>0, <2>0, <2>2, AcknowledgedOK DEF Applied
  <2>3. CASE q.op = "RECORD_FILL"
    <3>1. CanRecordFill(r, FillOf(q)) /\ Applied(b, q) = FillRecorded(r, FillOf(q))
      BY <1>0, <2>3 DEF Accepts, Applied
    <3> QED  BY <1>0, <2>0, <2>3, <3>1, FillRecordedOK DEF FillOf
  <2>4. CASE q.op = "CORRECT_FILL"
    <3>1. r.fills[q.fill] # None
      BY <1>0, <2>4 DEF Accepts
    <3>2. Applied(b, q) = Revised(r, Correction(r, q.fill, q.qty, q.rev, q.id))
      BY <1>0, <2>4 DEF Applied, RevisionOf
    <3> QED  BY <1>0, <2>0, <2>4, <3>1, <3>2, RevisionTypes, RevisedOK
  <2>5. CASE q.op = "BUST_FILL"
    <3>1. r.fills[q.fill] # None
      BY <1>0, <2>5 DEF Accepts
    <3>2. Applied(b, q) = Revised(r, Bust(r, q.fill, q.rev, q.id))
      BY <1>0, <2>5 DEF Applied, RevisionOf
    <3>3. PICK h \in Observations : /\ h = Bust(r, q.fill, q.rev, q.id)
                                    /\ h.of = q.fill /\ h.exec = r.fills[q.fill].exec
                                    /\ ~h.active
      <4>1. PICK g \in Observations : g = r.fills[q.fill]
        BY <2>5, <3>1 DEF OrderRecords
      <4>2. LET h == [g EXCEPT !.fid = q.id, !.active = FALSE, !.rev = q.rev,
                               !.of = q.fill]
            IN  h \in Observations /\ h.of = q.fill /\ h.exec = g.exec /\ ~h.active
        BY <2>5 DEF Observations
      <4> QED  BY <4>1, <4>2 DEF Bust
    <3> QED  BY <1>0, <2>0, <2>5, <3>1, <3>2, <3>3, RevisedOK
  <2>6. CASE q.op = "REQUEST_CANCEL"
    BY <1>0, <2>0, <2>6, CommandedOK DEF Applied, Accepts
  <2>7. CASE q.op = "REJECT_CANCEL"
    BY <1>0, <2>0, <2>7, CommandedOK DEF Applied, Accepts
  <2>8. CASE q.op = "REQUEST_REPLACE"
    BY <1>0, <2>0, <2>8, CommandedOK DEF Applied, Accepts
  <2>9. CASE q.op = "REJECT_REPLACE"
    BY <1>0, <2>0, <2>9, CommandedOK DEF Applied, Accepts
  <2>10. CASE q.op = "CONFIRM_CANCEL"
    BY <1>0, <2>0, <2>10, EndedOK DEF Applied, Accepts
  <2>11. CASE q.op = "CONFIRM_EXPIRED"
    BY <1>0, <2>0, <2>11, EndedOK DEF Applied, Accepts
  <2> QED  BY <1>2, <2>1, <2>2, <2>3, <2>4, <2>5, <2>6, <2>7, <2>8, <2>9, <2>10, <2>11
<1> QED  BY <1>1, <1>2

-----------------------------------------------------------------------------
\* The inductive invariant: the records are sound, and the order of a fill
\* that was recorded has it in its history.
IInv ==
  /\ TypeOK
  /\ \A o \in Orders : RecordOK(book[o])
  /\ \A k \in AllKeys : log[k] # None /\ log[k].op = "RECORD_FILL" =>
       LET r == book[log[k].order] IN r.known /\ FillOf(log[k]) \in r.history

LEMMA InitOK == Init => IInv
<1> SUFFICES ASSUME Init PROVE IInv
  OBVIOUS
<1>1. PICK n \in Sizes, g \in Groups \cup {None} :
        book = [o \in Orders |-> IF o \in Existing THEN Created(n, g, None) ELSE NoOrder]
  BY DEF Init
<1>2. ASSUME NEW o \in Orders PROVE book[o] \in OrderRecords /\ RecordOK(book[o])
  BY <1>1, CreatedOK, NoOrderOK
<1>3. book \in Books
  BY <1>1, <1>2 DEF Books
<1>4. log = [k \in AllKeys |-> None]
  BY DEF Init
<1> QED  BY <1>2, <1>3, <1>4 DEF IInv, TypeOK

LEMMA OfferedType ==
  ASSUME TypeOK, NEW k \in AllKeys, NEW q \in Offered(k)
  PROVE  q \in Requests
<1>1. CASE k \in Keys
  BY <1>1 DEF Offered, Requests
<1>2. CASE k \notin Keys
  <2>1. PICK a \in Attempts, n \in 2..3 : k = <<a, n>>
    BY <1>2 DEF AllKeys, SyncKeys
  <2>2. q \in SyncRequestsFor(a, n)
    BY <1>2, <2>1 DEF Offered
  <2>3. CASE q \in {SendStartedRequest(o, a) : o \in Orders}
    BY <2>3 DEF Requests, SyncRequests
  <2>4. CASE q \in {AcknowledgeRequest(o, a, None, "UNKNOWN") : o \in Orders}
    BY <2>4 DEF Requests, SyncRequests, Outcomes
  <2>5. CASE /\ log[<<a, 2>>] # None
             /\ q \in {AcknowledgeRequest(log[<<a, 2>>].order, a, pid, outcome) :
                         pid \in ProviderIds \cup {None}, outcome \in Outcomes}
    <3>1. <<a, 2>> \in AllKeys
      BY DEF AllKeys, SyncKeys
    <3>2. log[<<a, 2>>] \in Requests
      BY <2>5, <3>1 DEF TypeOK
    <3>3. log[<<a, 2>>].order \in Orders
      BY <3>2, RequestFields
    <3> QED  BY <2>5, <3>3 DEF Requests, SyncRequests
  <2>6. CASE n = 2
    <3>1. log[<<a, 3>>] = None
      BY <2>2, <2>6 DEF SyncRequestsFor
    <3> QED  BY <2>2, <2>3, <2>6, <3>1 DEF SyncRequestsFor
  <2>7. CASE n = 3 /\ log[<<a, 2>>] # None
    BY <2>2, <2>5, <2>7 DEF SyncRequestsFor
  <2>8. CASE n = 3 /\ log[<<a, 2>>] = None
    BY <2>2, <2>4, <2>8 DEF SyncRequestsFor
  <2> QED  BY <2>6, <2>7, <2>8
<1> QED  BY <1>1, <1>2

\* What one call that commits does to the book.
LEMMA ExecuteFacts ==
  ASSUME IInv, NEW k \in AllKeys, NEW q \in Offered(k), Execute(k, q)
  PROVE  /\ q \in Requests /\ q.order \in Orders
         /\ TypeOK'
         /\ \A o \in Orders : RecordOK(book'[o]) /\ Extends(book[o], book'[o])
         /\ q.op = "RECORD_FILL" =>
              book'[q.order].known /\ FillOf(q) \in book'[q.order].history
<1>1. q \in Requests
  BY OfferedType DEF IInv
<1>2. q.order \in Orders
  BY <1>1, RequestFields
<1>3. book \in Books /\ Accepts(book, q) /\ \A o \in Orders : RecordOK(book[o])
  BY DEF IInv, TypeOK, Execute
<1>4. PICK s \in OrderRecords :
        /\ s = Applied(book, q) /\ RecordOK(s) /\ Extends(book[q.order], s)
        /\ q.op = "RECORD_FILL" => FillOf(q) \in s.history
  BY <1>1, <1>3, AppliedOK
<1>5. book' = [book EXCEPT ![q.order] = s]
  BY <1>4 DEF Execute, Apply
<1>6. book'[q.order] = s /\ \A o \in Orders : o # q.order => book'[o] = book[o]
  BY <1>2, <1>3, <1>5 DEF Books
<1>7. TypeOK'
  BY <1>1, <1>2, <1>3, <1>5 DEF IInv, TypeOK, Books, Execute
<1>8. ASSUME NEW o \in Orders PROVE RecordOK(book'[o]) /\ Extends(book[o], book'[o])
  <2>1. CASE o = q.order
    BY <1>4, <1>6, <2>1
  <2>2. CASE o # q.order
    BY <1>3, <1>6, <2>2, FlagsOK DEF RecordOK, Extends, ActiveFills
  <2> QED  BY <2>1, <2>2
<1>9. q.op = "RECORD_FILL" => s.known
  <2>1. ASSUME q.op = "RECORD_FILL" PROVE book[q.order].known
    BY <1>3, <2>1 DEF Accepts
  <2> QED  BY <1>4, <2>1 DEF Extends
<1> QED  BY <1>1, <1>2, <1>4, <1>6, <1>7, <1>8, <1>9

LEMMA StepOK == IInv /\ [Next]_vars => IInv'
<1> SUFFICES ASSUME IInv, [Next]_vars PROVE IInv'
  OBVIOUS
<1>1. CASE UNCHANGED vars
  BY <1>1 DEF vars, IInv, TypeOK
<1>2. ASSUME NEW k \in AllKeys, NEW q \in Offered(k), Execute(k, q)
      PROVE  IInv'
  <2>1. TypeOK' /\ \A o \in Orders : RecordOK(book'[o]) /\ Extends(book[o], book'[o])
    BY <1>2, ExecuteFacts
  <2>2. ASSUME NEW j \in AllKeys, log'[j] # None, log'[j].op = "RECORD_FILL"
        PROVE  LET r == book'[log'[j].order] IN r.known /\ FillOf(log'[j]) \in r.history
    <3>1. CASE j = k
      <4>1. log'[j] = q
        BY <1>2, <3>1 DEF Execute, IInv, TypeOK
      <4> QED  BY <1>2, <2>2, <4>1, ExecuteFacts
    <3>2. CASE j # k
      <4>1. log'[j] = log[j]
        BY <1>2, <3>2 DEF Execute, IInv, TypeOK
      <4>2. log[j] \in Requests /\ log[j].order \in Orders
        BY <2>2, <4>1, RequestFields DEF IInv, TypeOK
      <4>3. book[log[j].order].known /\ FillOf(log[j]) \in book[log[j].order].history
        BY <2>2, <4>1 DEF IInv
      <4> QED  BY <2>1, <4>1, <4>2, <4>3 DEF Extends
    <3> QED  BY <3>1, <3>2
  <2>3. \A o \in Orders : RecordOK(book'[o])
    BY <2>1
  <2> QED  BY <2>1, <2>2, <2>3 DEF IInv
<1> QED  BY <1>1, <1>2 DEF Next

\* The records stay sound.
THEOREM Invariance == Spec => []IInv
  BY InitOK, StepOK, PTL DEF Spec

\* The type invariant of the order book and its journal
\* (DurableOrderBookProjection).
THEOREM OrderTypeCorrect == Spec => []TypeOK
<1>1. IInv => TypeOK
  BY DEF IInv
<1> QED  BY <1>1, Invariance, PTL

(***************************************************************************)
(* Cancel and replace are never pending together, and an expired order has *)
(* neither pending (request_cancel, request_replace, confirm_expired).     *)
(***************************************************************************)
THEOREM PendingExclusive == Spec => []OnePending
<1>1. IInv => OnePending
  BY DEF IInv, OnePending, RecordOK, PendingOK
<1> QED  BY <1>1, Invariance, PTL

(***************************************************************************)
(* An execution of the provider is one fill of its order for ever, through *)
(* every correction and bust (record_fill, _apply_revision).               *)
(***************************************************************************)
THEOREM OneFillPerExecution == Spec => []ExecutionIsOneFill
<1>1. IInv => ExecutionIsOneFill
  BY DEF IInv, ExecutionIsOneFill, RecordOK, HistoryOK
<1> QED  BY <1>1, Invariance, PTL

(***************************************************************************)
(* A fill that is delivered again, under whatever event_key, is accepted   *)
(* and changes nothing (record_fill).                                      *)
(***************************************************************************)
THEOREM DuplicatesHarmless == Spec => []FillsRedeliverable
<1>1. IInv => FillsRedeliverable
  <2> SUFFICES ASSUME IInv, NEW k \in AllKeys, log[k] # None, log[k].op = "RECORD_FILL"
               PROVE  /\ Accepts(book, log[k])
                      /\ Applied(book, log[k]) = book[log[k].order]
    BY DEF FillsRedeliverable
  <2>1. book[log[k].order].known /\ FillOf(log[k]) \in book[log[k].order].history
    BY DEF IInv
  <2>2. CanRecordFill(book[log[k].order], FillOf(log[k]))
    BY <2>1 DEF CanRecordFill
  <2>3. FillRecorded(book[log[k].order], FillOf(log[k])) = book[log[k].order]
    BY <2>1 DEF FillRecorded
  <2> QED  BY <2>1, <2>2, <2>3 DEF Accepts, Applied
<1> QED  BY <1>1, Invariance, PTL

-----------------------------------------------------------------------------
\* No step forgets an order, an observation or a bust.
LEMMA BookExtends ==
  ASSUME IInv, [Next]_vars, NEW o \in Orders
  PROVE  Extends(book[o], book'[o])
<1>1. CASE UNCHANGED vars
  <2>1. book'[o] = book[o]
    BY <1>1 DEF vars
  <2> QED  BY <2>1 DEF Extends, ActiveFills
<1>2. ASSUME NEW k \in AllKeys, NEW q \in Offered(k), Execute(k, q)
      PROVE  Extends(book[o], book'[o])
  BY <1>2, ExecuteFacts
<1> QED  BY <1>1, <1>2 DEF Next

LEMMA UnregisteredEmpty ==
  ASSUME IInv, NEW o \in Orders, ~book[o].known
  PROVE  /\ book[o].history = {}
         /\ \A f \in FillIds : book[o].fills[f] = None
  BY DEF IInv, RecordOK, NoOrder

(***************************************************************************)
(* A double execution in an OCO group is never forgotten, whatever is      *)
(* corrected or busted later (oco_breaches).                               *)
(***************************************************************************)
THEOREM BreachesStay == Spec => OcoNeverErased
<1>1. IInv /\ [Next]_vars => [OcoBreaches(book) \subseteq OcoBreaches(book')]_vars
  <2> SUFFICES ASSUME IInv, [Next]_vars
               PROVE  OcoBreaches(book) \subseteq OcoBreaches(book')
    OBVIOUS
  <2>1. ASSUME NEW o \in Orders, ExecutionObserved(book[o])
        PROVE  book'[o].group = book[o].group /\ ExecutionObserved(book'[o])
    <3>1. book[o].known
      BY <2>1, UnregisteredEmpty DEF ExecutionObserved
    <3> QED  BY <2>1, <3>1, BookExtends DEF Extends, ExecutionObserved
  <2> SUFFICES ASSUME NEW o \in OcoBreaches(book) PROVE o \in OcoBreaches(book')
    OBVIOUS
  <2>2. /\ o \in Orders /\ book[o].group # None /\ ExecutionObserved(book[o])
        /\ \E q \in Orders \ {o} : /\ book[q].group = book[o].group
                                   /\ ExecutionObserved(book[q])
    BY DEF OcoBreaches
  <2>3. PICK q \in Orders \ {o} : /\ book[q].group = book[o].group
                                  /\ ExecutionObserved(book[q])
    BY <2>2
  <2>4. /\ book'[o].group = book[o].group /\ ExecutionObserved(book'[o])
        /\ book'[q].group = book[q].group /\ ExecutionObserved(book'[q])
    BY <2>1, <2>2, <2>3
  <2> QED  BY <2>2, <2>3, <2>4 DEF OcoBreaches
<1> QED  BY <1>1, Invariance, PTL DEF Spec, OcoNeverErased

(***************************************************************************)
(* A fill that was busted contributes nothing again, whatever corrections, *)
(* duplicates and late revisions follow (bust_fill, _apply_revision).      *)
(***************************************************************************)
THEOREM BustsFinal == Spec => BustIsFinal
<1>1. IInv /\ [Next]_vars =>
        [\A o \in Orders, f \in FillIds :
           (book[o].fills[f] # None /\ ~book[o].fills[f].active)
             => f \notin ActiveFills(book'[o])]_vars
  <2> SUFFICES ASSUME IInv, [Next]_vars, NEW o \in Orders, NEW f \in FillIds,
                      book[o].fills[f] # None, ~book[o].fills[f].active
               PROVE  f \notin ActiveFills(book'[o])
    OBVIOUS
  <2>1. book[o].known
    BY UnregisteredEmpty
  <2> QED  BY <2>1, BookExtends DEF Extends
<1> QED  BY <1>1, Invariance, PTL DEF Spec, BustIsFinal

-----------------------------------------------------------------------------
\* The requests that a fill may race with.
LEMMA LifecycleFields ==
  ASSUME NEW l \in LifecycleRequests
  PROVE  /\ l.order \in Orders
         /\ l.op \in {"REQUEST_CANCEL", "REJECT_CANCEL", "REQUEST_REPLACE",
                      "REJECT_REPLACE", "CONFIRM_CANCEL", "CONFIRM_EXPIRED"}
<1>1. CASE l \in CommandRequests
  <2>1. PICK op \in {"REQUEST_CANCEL", "REJECT_CANCEL", "REQUEST_REPLACE", "REJECT_REPLACE"},
             o \in Orders, c \in Commands : l = [Request(op, o) EXCEPT !.command = c]
    BY <1>1 DEF CommandRequests
  <2>2. l.op = op /\ l.order = o
    BY <2>1 DEF Request
  <2> QED  BY <2>1, <2>2
<1>2. CASE l \in EndRequests
  <2>1. PICK op \in {"CONFIRM_CANCEL", "CONFIRM_EXPIRED"}, o \in Orders : l = Request(op, o)
    BY <1>2 DEF EndRequests
  <2>2. l.op = op /\ l.order = o
    BY <2>1 DEF Request
  <2> QED  BY <2>1, <2>2
<1> QED  BY <1>1, <1>2 DEF LifecycleRequests

\* A command or an end leaves what a fill depends on alone.
LEMMA LifecycleKeepsFills ==
  ASSUME NEW b \in Books, NEW l \in LifecycleRequests
  PROVE  LET s == Applied(b, l)  r == b[l.order]
         IN  s.fills = r.fills /\ s.history = r.history /\ s.known = r.known
<1>2. PICK r \in OrderRecords : r = b[l.order]
  BY LifecycleFields DEF Books
<1> USE DEF OrderRecords
<1>4. CASE l.op = "REQUEST_CANCEL"
  BY <1>2, <1>4 DEF Applied, CancelRequested
<1>5. CASE l.op = "REJECT_CANCEL"
  BY <1>2, <1>5 DEF Applied, CancelRejected
<1>6. CASE l.op = "REQUEST_REPLACE"
  BY <1>2, <1>6 DEF Applied, ReplaceRequested
<1>7. CASE l.op = "REJECT_REPLACE"
  BY <1>2, <1>7 DEF Applied, ReplaceRejected
<1>8. CASE l.op = "CONFIRM_CANCEL"
  BY <1>2, <1>8 DEF Applied, CancelConfirmed
<1>9. CASE l.op = "CONFIRM_EXPIRED"
  BY <1>2, <1>9 DEF Applied, Expired
<1> QED  BY LifecycleFields, <1>4, <1>5, <1>6, <1>7, <1>8, <1>9

\* An order with other fills.
WithFills(r, fl, hi) == [r EXCEPT !.fills = fl, !.history = hi]

\* A command or an end does the same to an order that differs in its fills.
LEMMA LifecycleCommutes ==
  ASSUME NEW b \in Books, NEW l \in LifecycleRequests, NEW fl, NEW hi,
         NEW c, c[l.order] = WithFills(b[l.order], fl, hi)
  PROVE  Applied(c, l) = WithFills(Applied(b, l), fl, hi)
<1>1. PICK r \in OrderRecords : r = b[l.order]
  BY LifecycleFields DEF Books
<1>2. PICK t : t = WithFills(r, fl, hi)
  OBVIOUS
<1>3. c[l.order] = t
  BY <1>1, <1>2
<1>4. /\ t.cancelCommand = r.cancelCommand /\ t.cancelRequested = r.cancelRequested
      /\ t.cancelled = r.cancelled /\ t.resolved = r.resolved
  BY <1>2 DEF OrderRecords, WithFills
<1>6. CASE l.op = "REQUEST_CANCEL"
  <2>1. Applied(c, l) = CancelRequested(t, l.command)
        /\ Applied(b, l) = CancelRequested(r, l.command)
    BY <1>1, <1>3, <1>6 DEF Applied
  <2>2. CASE r.cancelCommand = l.command
    BY <1>2, <1>4, <2>1, <2>2 DEF CancelRequested
  <2>3. CASE r.cancelCommand # l.command
    <3>1. PICK u : u = (r.cancelRequested \/ ~r.cancelled)
      OBVIOUS
    <3>2. Applied(c, l) = [t EXCEPT !.cancelCommand = l.command, !.cancelRequested = u]
      BY <1>4, <2>1, <2>3, <3>1 DEF CancelRequested
    <3>3. Applied(b, l) = [r EXCEPT !.cancelCommand = l.command, !.cancelRequested = u]
      BY <2>1, <2>3, <3>1 DEF CancelRequested
    <3> QED  BY <1>2, <3>2, <3>3 DEF WithFills
  <2> QED  BY <2>2, <2>3
<1>7. CASE l.op = "REJECT_CANCEL"
  <2>1. Applied(c, l) = CancelRejected(t) /\ Applied(b, l) = CancelRejected(r)
    BY <1>1, <1>3, <1>7 DEF Applied
  <2> QED  BY <1>2, <2>1 DEF CancelRejected, WithFills
<1>8. CASE l.op = "REQUEST_REPLACE"
  <2>1. Applied(c, l) = ReplaceRequested(t, l.command)
        /\ Applied(b, l) = ReplaceRequested(r, l.command)
    BY <1>1, <1>3, <1>8 DEF Applied
  <2> QED  BY <1>2, <2>1 DEF ReplaceRequested, WithFills
<1>9. CASE l.op = "REJECT_REPLACE"
  <2>1. Applied(c, l) = ReplaceRejected(t, l.command)
        /\ Applied(b, l) = ReplaceRejected(r, l.command)
    BY <1>1, <1>3, <1>9 DEF Applied
  <2>2. PICK u : u = r.resolved \cup {l.command}
    OBVIOUS
  <2>3. ReplaceRejected(t, l.command) = [t EXCEPT !.resolved = u, !.replaceRequested = FALSE,
                                                  !.replaceCommand = None]
    BY <1>4, <2>2 DEF ReplaceRejected
  <2>4. ReplaceRejected(r, l.command) = [r EXCEPT !.resolved = u, !.replaceRequested = FALSE,
                                                  !.replaceCommand = None]
    BY <2>2 DEF ReplaceRejected
  <2>5. PICK p : p = [r EXCEPT !.resolved = u]
    OBVIOUS
  <2>6. PICK v : v = [t EXCEPT !.resolved = u]
    OBVIOUS
  <2>7. v = WithFills(p, fl, hi)
    BY <1>2, <2>5, <2>6 DEF WithFills
  <2>8. [v EXCEPT !.replaceRequested = FALSE, !.replaceCommand = None]
        = WithFills([p EXCEPT !.replaceRequested = FALSE, !.replaceCommand = None], fl, hi)
    BY <2>7 DEF WithFills
  <2>9. Applied(c, l) = [v EXCEPT !.replaceRequested = FALSE, !.replaceCommand = None]
    BY <2>1, <2>3, <2>6
  <2>10. Applied(b, l) = [p EXCEPT !.replaceRequested = FALSE, !.replaceCommand = None]
    BY <2>1, <2>4, <2>5
  <2> QED  BY <2>8, <2>9, <2>10
<1>10. CASE l.op = "CONFIRM_CANCEL"
  <2>1. Applied(c, l) = CancelConfirmed(t) /\ Applied(b, l) = CancelConfirmed(r)
    BY <1>1, <1>3, <1>10 DEF Applied
  <2> QED  BY <1>2, <2>1 DEF CancelConfirmed, WithFills
<1>11. CASE l.op = "CONFIRM_EXPIRED"
  <2>1. Applied(c, l) = Expired(t) /\ Applied(b, l) = Expired(r)
    BY <1>1, <1>3, <1>11 DEF Applied
  <2> QED  BY <1>2, <2>1 DEF Expired, WithFills
<1> QED  BY LifecycleFields, <1>6, <1>7, <1>8, <1>9, <1>10, <1>11

\* Recording a fill depends on the history of its order alone, and does nothing
\* but to set its fills.
LEMMA FillAfterLifecycle ==
  ASSUME NEW r \in OrderRecords, NEW h, r.known,
         NEW s, s.fills = r.fills, s.history = r.history
  PROVE  /\ CanRecordFill(s, h) = CanRecordFill(r, h)
         /\ h \notin r.history =>
              LET fl == [r.fills EXCEPT ![h.fid] = h]
                  hi == r.history \cup {h}
              IN  /\ FillRecorded(s, h) = WithFills(s, fl, hi)
                  /\ FillRecorded(r, h) = WithFills(r, fl, hi)
         /\ h \in r.history => FillRecorded(s, h) = s /\ FillRecorded(r, h) = r
  BY DEF CanRecordFill, FillRecorded, WithFills

(***************************************************************************)
(* A fill that would be recorded is recorded also when a command or the    *)
(* order's end comes first, and the order of the two makes no difference   *)
(* (record_fill against request_cancel, confirm_cancel, confirm_expired).  *)
(***************************************************************************)
THEOREM RacesSafe == Spec => []FillsRaceSafely
<1>1. IInv => FillsRaceSafely
  <2> SUFFICES ASSUME IInv, NEW q \in FillRequests, NEW l \in LifecycleRequests,
                      q.order = l.order, Accepts(book, q), Accepts(book, l)
               PROVE  /\ Accepts(Apply(book, l), q)
                      /\ Apply(Apply(book, l), q) = Apply(Apply(book, q), l)
    BY DEF FillsRaceSafely
  <2>1. book \in Books /\ l.order \in Orders
    BY LifecycleFields DEF IInv, TypeOK
  <2>2. PICK o \in Orders : o = q.order /\ o = l.order
    BY <2>1
  <2>3. PICK r \in OrderRecords : r = book[o]
    BY <2>1, <2>2 DEF Books
  <2>4. q.op = "RECORD_FILL"
    <3>1. PICK p \in Orders, f \in FillIds, e \in Executions, n \in Quantities,
               v \in Revisions \cup {None} : q = FillRequest(p, f, e, n, v)
      BY DEF FillRequests
    <3> QED  BY <3>1 DEF FillRequest, Request
  <2>5. PICK h : h = FillOf(q)
    OBVIOUS
  <2>6. r.known /\ CanRecordFill(r, h)
    BY <2>2, <2>3, <2>4, <2>5 DEF Accepts
  <2>7. PICK s : s = Applied(book, l)
    OBVIOUS
  <2>8. s.fills = r.fills /\ s.history = r.history /\ s.known = r.known
    BY <2>1, <2>2, <2>3, <2>7, LifecycleKeepsFills
  <2>9. PICK b : b = Apply(book, l)
    OBVIOUS
  <2>10. b = [book EXCEPT ![o] = s] /\ b[o] = s
    BY <2>1, <2>2, <2>7, <2>9 DEF Apply, Books
  <2>11. CanRecordFill(s, h)
    BY <2>6, <2>8, FillAfterLifecycle
  <2>12. Accepts(b, q)
    BY <2>2, <2>4, <2>5, <2>6, <2>8, <2>10, <2>11 DEF Accepts
  <2>13. PICK c : c = Apply(book, q)
    OBVIOUS
  <2>14. c = [book EXCEPT ![o] = FillRecorded(r, h)] /\ c[o] = FillRecorded(r, h)
    BY <2>1, <2>2, <2>3, <2>4, <2>5, <2>13 DEF Apply, Applied, Books
  <2>15. Apply(b, q) = [b EXCEPT ![o] = FillRecorded(s, h)]
    BY <2>2, <2>4, <2>5, <2>10 DEF Apply, Applied
  <2>16. Apply(c, l) = [c EXCEPT ![o] = Applied(c, l)]
    BY <2>2 DEF Apply
  <2>17. Applied(c, l) = FillRecorded(s, h)
    <3>1. CASE h \in r.history
      <4>1. c = book
        BY <2>1, <2>2, <2>3, <2>14, <3>1 DEF FillRecorded, Books
      <4> QED  BY <2>7, <2>8, <3>1, <4>1 DEF FillRecorded
    <3>2. CASE h \notin r.history
      <4>1. PICK fl, hi : fl = [r.fills EXCEPT ![h.fid] = h] /\ hi = r.history \cup {h}
        OBVIOUS
      <4>2. FillRecorded(s, h) = WithFills(s, fl, hi)
            /\ FillRecorded(r, h) = WithFills(r, fl, hi)
        BY <2>6, <2>8, <3>2, <4>1, FillAfterLifecycle
      <4>3. c[l.order] = WithFills(book[l.order], fl, hi)
        BY <2>2, <2>3, <2>14, <4>2
      <4>4. Applied(c, l) = WithFills(s, fl, hi)
        BY <2>1, <2>7, <4>3, LifecycleCommutes
      <4> QED  BY <4>2, <4>4
    <3> QED  BY <3>1, <3>2
  <2>18. [[book EXCEPT ![o] = s] EXCEPT ![o] = FillRecorded(s, h)]
         = [[book EXCEPT ![o] = FillRecorded(r, h)] EXCEPT ![o] = FillRecorded(s, h)]
    BY <2>1, <2>2 DEF Books
  <2>19. Apply(b, q) = Apply(c, l)
    BY <2>10, <2>14, <2>15, <2>16, <2>17, <2>18
  <2> QED  BY <2>9, <2>12, <2>13, <2>19
<1> QED  BY <1>1, Invariance, PTL

=============================================================================
