-------------------------- MODULE ReservationProofs --------------------------
(***************************************************************************)
(* Proofs about DurableReservations, for any number of processes,          *)
(* reservations, resources and amounts.                                    *)
(***************************************************************************)
EXTENDS DurableReservations, FoldProofs, TLAPS

\* Conserved, of any book: the copies that processes have prepared too.
ConservedRecord(rec) ==
  /\ rec.state \in HeldStates => Plus(rec.remaining, rec.consumed) = rec.original
  /\ rec.state \notin HeldStates =>
       rec.remaining = Zero /\ AtMost(rec.consumed, rec.original)
  /\ rec.state \in {"REJECTED", "PROVEN_ABSENT"} => rec.consumed = Zero

ConservedBook(b) == \A r \in Rids : ConservedRecord(b[r])

PlansConserved ==
  \A p \in Procs : plan[p] # NoRequest => ConservedBook(plan[p].after)

-----------------------------------------------------------------------------
LEMMA ZeroType == Zero \in Amounts
  BY DEF Zero, Amounts

LEMMA PlusType ==
  ASSUME NEW f \in Amounts, NEW g \in Amounts
  PROVE  Plus(f, g) \in Amounts
  BY DEF Plus, Amounts

LEMMA MinusType ==
  ASSUME NEW f \in Amounts, NEW g \in Amounts, AtMost(g, f)
  PROVE  Minus(f, g) \in Amounts
<1>1. ASSUME NEW x \in Resources PROVE f[x] - g[x] \in Nat
  BY DEF AtMost, Amounts
<1> QED  BY <1>1 DEF Minus, Amounts

LEMMA RequestFields ==
  ASSUME NEW q \in Requests
  PROVE  /\ q.op \in Ops /\ q.rid \in Rids /\ q.amounts \in Amounts
         /\ q.available \in Amounts
         /\ q.op = "RESERVE" => q.intent \in Intents
         /\ q.op \in {"MARK_TERMINAL", "MARK_ZERO_WIRE_TERMINAL"} =>
              q.att \in Attempts
<1> USE ZeroType DEF Request
<1>1. CASE q \in {ReserveRequest(r, i, n, v) :
            r \in Rids, i \in Intents, n \in Requirements, v \in Available}
  <2>1. PICK r \in Rids, i \in Intents, n \in Requirements, v \in Available :
          q = ReserveRequest(r, i, n, v)
    BY <1>1
  <2>2. q = [op |-> "RESERVE", rid |-> r, intent |-> i, amounts |-> n,
             available |-> v, att |-> NoRequest]
    BY <2>1 DEF ReserveRequest
  <2> QED  BY <2>2, BookAssumption DEF Ops
<1>2. CASE q \in {UsageRequest(op, r, u) :
            op \in {"CONSUME", "CONSUME_AND_MARK_FILLED", "RESTORE_CONSUMPTION"},
            r \in Rids, u \in Usages}
  <2>1. PICK op \in {"CONSUME", "CONSUME_AND_MARK_FILLED", "RESTORE_CONSUMPTION"},
             r \in Rids, u \in Usages : q = UsageRequest(op, r, u)
    BY <1>2
  <2>2. q = [op |-> op, rid |-> r, intent |-> NoIntent, amounts |-> u,
             available |-> Zero, att |-> NoRequest]
    BY <2>1 DEF UsageRequest
  <2> QED  BY <2>2, BookAssumption DEF Ops
<1>3. CASE q \in {Request("MARK_UNKNOWN", r) : r \in Rids}
  BY <1>3 DEF Ops
<1>4. CASE q \in {EvidenceRequest(op, r, a) :
            op \in {"MARK_TERMINAL", "MARK_ZERO_WIRE_TERMINAL"},
            r \in Rids, a \in Attempts}
  <2>1. PICK op \in {"MARK_TERMINAL", "MARK_ZERO_WIRE_TERMINAL"},
             r \in Rids, a \in Attempts : q = EvidenceRequest(op, r, a)
    BY <1>4
  <2>2. q = [op |-> op, rid |-> r, intent |-> NoIntent, amounts |-> Zero,
             available |-> Zero, att |-> a]
    BY <2>1 DEF EvidenceRequest
  <2> QED  BY <2>2 DEF Ops
<1> QED  BY <1>1, <1>2, <1>3, <1>4 DEF Requests

\* What a request that passes does to the one record it names.
LEMMA PutConserved ==
  ASSUME NEW b \in Books, ConservedBook(b), NEW r \in Rids,
         NEW rec \in Records, ConservedRecord(rec)
  PROVE  Put(b, r, rec) \in Books /\ ConservedBook(Put(b, r, rec))
<1>1. Put(b, r, rec) \in Books
  BY DEF Put, Books
<1>2. ASSUME NEW s \in Rids PROVE ConservedRecord(Put(b, r, rec)[s])
  BY DEF Put, Books, ConservedBook
<1> QED  BY <1>1, <1>2 DEF ConservedBook

LEMMA ReservedConserved ==
  ASSUME NEW b \in Books, ConservedBook(b), NEW r \in Rids, NEW i \in Intents,
         NEW needed \in Amounts
  PROVE  Reserved(b, r, i, needed) \in Books
         /\ ConservedBook(Reserved(b, r, i, needed))
<1> DEFINE rec == [state |-> "WORKING", intent |-> i, original |-> needed,
                   remaining |-> needed, consumed |-> Zero]
<1>1. rec \in Records
  BY ZeroType DEF Records, HeldStates
<1>2. Plus(needed, Zero) = needed
  BY DEF Plus, Zero, Amounts
<1>3. ConservedRecord(rec)
  BY <1>2 DEF ConservedRecord, HeldStates
<1> QED  BY <1>1, <1>3, PutConserved DEF Reserved

LEMMA ConsumedConserved ==
  ASSUME NEW b \in Books, ConservedBook(b), NEW r \in Rids,
         NEW u \in Amounts, CanConsume(b, r, u)
  PROVE  /\ Consumed(b, r, u) \in Books /\ ConservedBook(Consumed(b, r, u))
         /\ Filled(b, r, u) \in Books /\ ConservedBook(Filled(b, r, u))
<1> DEFINE old == b[r]
           rem == Minus(old.remaining, u)
           con == Plus(old.consumed, u)
           rec == [old EXCEPT !.remaining = rem, !.consumed = con]
           fil == [old EXCEPT !.state = "FILLED", !.remaining = Zero,
                              !.consumed = con]
<1>1. old \in Records /\ ConservedRecord(old) /\ old.state \in HeldStates
      /\ AtMost(u, old.remaining)
  BY DEF Books, ConservedBook, CanConsume, Held
<1>2. old.remaining \in Amounts /\ old.consumed \in Amounts /\ old.original \in Amounts
  BY <1>1 DEF Records
<1>3. rem \in Amounts /\ con \in Amounts
  BY <1>1, <1>2, MinusType, PlusType
<1>4. rec \in Records /\ fil \in Records
  BY <1>1, <1>3, ZeroType DEF Records, TerminalStates
<1>5. Plus(old.remaining, old.consumed) = old.original
  BY <1>1 DEF ConservedRecord
<1>6. ASSUME NEW x \in Resources
      PROVE  /\ old.remaining[x] + old.consumed[x] = old.original[x]
             /\ u[x] <= old.remaining[x]
             /\ rem[x] = old.remaining[x] - u[x]
             /\ con[x] = old.consumed[x] + u[x]
  <2>1. Plus(old.remaining, old.consumed)[x] = old.remaining[x] + old.consumed[x]
    BY DEF Plus
  <2> QED  BY <1>1, <1>5, <2>1 DEF AtMost, Minus, Plus
<1>7. ASSUME NEW x \in Resources
      PROVE  rem[x] + con[x] = old.original[x] /\ con[x] <= old.original[x]
  <2>1. /\ old.remaining[x] \in Nat /\ old.consumed[x] \in Nat
        /\ old.original[x] \in Nat /\ u[x] \in Nat
    BY <1>2 DEF Amounts
  <2> QED  BY <1>6, <2>1
<1>8. Plus(rem, con) = old.original
  BY <1>2, <1>7 DEF Plus, Amounts
<1>9. ConservedRecord(rec)
  <2>1. rec.state = old.state /\ rec.remaining = rem /\ rec.consumed = con
        /\ rec.original = old.original
    BY <1>1 DEF Records
  <2> QED  BY <1>1, <1>8, <2>1 DEF ConservedRecord, HeldStates
<1>10. ConservedRecord(fil)
  <2>1. fil.state = "FILLED" /\ fil.remaining = Zero /\ fil.consumed = con
        /\ fil.original = old.original
    BY <1>1 DEF Records
  <2> QED  BY <1>7, <2>1 DEF ConservedRecord, HeldStates, AtMost
<1> HIDE DEF rec, fil
<1>11. Consumed(b, r, u) = Put(b, r, rec) /\ Filled(b, r, u) = Put(b, r, fil)
  BY DEF Consumed, Filled, rec, fil
<1> QED  BY <1>4, <1>9, <1>10, <1>11, PutConserved

LEMMA RestoredConserved ==
  ASSUME NEW b \in Books, ConservedBook(b), NEW r \in Rids,
         NEW u \in Amounts, CanRestore(b, r, u)
  PROVE  Restored(b, r, u) \in Books /\ ConservedBook(Restored(b, r, u))
<1> DEFINE old == b[r]
           con == Minus(old.consumed, u)
           fil == [old EXCEPT !.state = "BUSTED", !.consumed = con,
                              !.remaining = Minus(old.original, con)]
           can == [old EXCEPT !.consumed = con]
           hel == [old EXCEPT !.consumed = con, !.remaining = Plus(old.remaining, u)]
<1>1. /\ old \in Records /\ ConservedRecord(old)
      /\ old.state \in HeldStates \cup {"FILLED", "CANCELED"}
      /\ AtMost(u, old.consumed)
  BY DEF Books, ConservedBook, CanRestore
<1>2. old.remaining \in Amounts /\ old.consumed \in Amounts /\ old.original \in Amounts
  BY <1>1 DEF Records
<1>3. con \in Amounts
  BY <1>1, <1>2, MinusType
<1>4. ASSUME NEW x \in Resources
      PROVE  /\ con[x] = old.consumed[x] - u[x] /\ u[x] <= old.consumed[x]
             /\ old.remaining[x] \in Nat /\ old.consumed[x] \in Nat
             /\ old.original[x] \in Nat /\ u[x] \in Nat /\ con[x] \in Nat
  BY <1>1, <1>2, <1>3 DEF Minus, AtMost, Amounts
<1>5. CASE old.state = "FILLED"
  <2>1. AtMost(old.consumed, old.original)
    BY <1>1, <1>5 DEF ConservedRecord, HeldStates
  <2>2. AtMost(con, old.original)
    BY <1>4, <2>1 DEF AtMost
  <2>3. Minus(old.original, con) \in Amounts
    BY <1>2, <1>3, <2>2, MinusType
  <2>4. fil \in Records
    BY <1>1, <1>3, <2>3 DEF Records, HeldStates
  <2>5. ASSUME NEW x \in Resources
        PROVE  Minus(old.original, con)[x] + con[x] = old.original[x]
    BY <1>4, <2>2 DEF Minus, AtMost
  <2>6. Plus(Minus(old.original, con), con) = old.original
    BY <1>2, <2>5 DEF Plus, Amounts
  <2>7. fil.state = "BUSTED" /\ fil.consumed = con
        /\ fil.remaining = Minus(old.original, con) /\ fil.original = old.original
    BY <1>1 DEF Records
  <2>8. ConservedRecord(fil)
    BY <2>6, <2>7 DEF ConservedRecord, HeldStates
  <2>9. Restored(b, r, u) = Put(b, r, fil)
    BY <1>5 DEF Restored
  <2> HIDE DEF fil
  <2> QED  BY <2>4, <2>8, <2>9, PutConserved
<1>6. CASE old.state = "CANCELED"
  <2>1. old.remaining = Zero /\ AtMost(old.consumed, old.original)
    BY <1>1, <1>6 DEF ConservedRecord, HeldStates
  <2>2. AtMost(con, old.original)
    BY <1>4, <2>1 DEF AtMost
  <2>3. can \in Records
    BY <1>1, <1>3 DEF Records
  <2>4. can.state = "CANCELED" /\ can.consumed = con
        /\ can.remaining = Zero /\ can.original = old.original
    BY <1>1, <1>6, <2>1 DEF Records
  <2>5. ConservedRecord(can)
    BY <2>2, <2>4 DEF ConservedRecord, HeldStates
  <2>6. Restored(b, r, u) = Put(b, r, can)
    BY <1>6 DEF Restored
  <2> HIDE DEF can
  <2> QED  BY <2>3, <2>5, <2>6, PutConserved
<1>7. CASE old.state \in HeldStates
  <2>1. Plus(old.remaining, old.consumed) = old.original
    BY <1>1, <1>7 DEF ConservedRecord
  <2>2. ASSUME NEW x \in Resources
        PROVE  old.remaining[x] + old.consumed[x] = old.original[x]
    <3>1. Plus(old.remaining, old.consumed)[x] = old.remaining[x] + old.consumed[x]
      BY DEF Plus
    <3> QED  BY <2>1, <3>1
  <2>3. Plus(old.remaining, u) \in Amounts
    BY <1>2, PlusType
  <2>4. hel \in Records
    BY <1>1, <1>3, <2>3 DEF Records
  <2>5. ASSUME NEW x \in Resources
        PROVE  Plus(old.remaining, u)[x] + con[x] = old.original[x]
    BY <1>4, <2>2 DEF Plus
  <2>6. Plus(Plus(old.remaining, u), con) = old.original
    BY <1>2, <2>5 DEF Plus, Amounts
  <2>7. hel.state = old.state /\ hel.consumed = con
        /\ hel.remaining = Plus(old.remaining, u) /\ hel.original = old.original
    BY <1>1 DEF Records
  <2>8. ConservedRecord(hel)
    BY <1>7, <2>6, <2>7 DEF ConservedRecord, HeldStates
  <2>9. Restored(b, r, u) = Put(b, r, hel)
    BY <1>7 DEF Restored, HeldStates
  <2> HIDE DEF hel
  <2> QED  BY <2>4, <2>8, <2>9, PutConserved
<1> QED  BY <1>1, <1>5, <1>6, <1>7

LEMMA MarkedConserved ==
  ASSUME NEW b \in Books, ConservedBook(b), NEW r \in Rids
  PROVE  /\ CanMarkUnknown(b, r) =>
              MarkedUnknown(b, r) \in Books /\ ConservedBook(MarkedUnknown(b, r))
         /\ \A outcome \in {"REJECTED", "PROVEN_ABSENT"} :
              CanMarkTerminal(b, r, outcome) =>
                /\ MarkedTerminal(b, r, outcome) \in Books
                /\ ConservedBook(MarkedTerminal(b, r, outcome))
<1> DEFINE old == b[r]
           unk == [old EXCEPT !.state = "UNKNOWN"]
<1>1. old \in Records /\ ConservedRecord(old)
  BY DEF Books, ConservedBook
<1>2. ASSUME CanMarkUnknown(b, r)
      PROVE  MarkedUnknown(b, r) \in Books /\ ConservedBook(MarkedUnknown(b, r))
  <2>1. unk \in Records
    BY <1>1 DEF Records, HeldStates
  <2>2. unk.state = "UNKNOWN" /\ unk.remaining = old.remaining
        /\ unk.consumed = old.consumed /\ unk.original = old.original
    BY <1>1 DEF Records
  <2>3. ConservedRecord(unk)
    BY <1>1, <1>2, <2>2 DEF ConservedRecord, HeldStates, CanMarkUnknown
  <2>4. MarkedUnknown(b, r) = Put(b, r, unk)
    BY DEF MarkedUnknown
  <2> HIDE DEF unk
  <2> QED  BY <2>1, <2>3, <2>4, PutConserved
<1>3. ASSUME NEW outcome \in {"REJECTED", "PROVEN_ABSENT"},
             CanMarkTerminal(b, r, outcome)
      PROVE  /\ MarkedTerminal(b, r, outcome) \in Books
             /\ ConservedBook(MarkedTerminal(b, r, outcome))
  <2> DEFINE ter == [old EXCEPT !.state = outcome, !.remaining = Zero]
  <2>1. ter \in Records
    BY <1>1, ZeroType DEF Records, TerminalStates
  <2>2. ter.state = outcome /\ ter.remaining = Zero /\ ter.consumed = Zero
        /\ ter.original = old.original /\ old.original \in Amounts
    BY <1>1, <1>3 DEF Records, CanMarkTerminal
  <2>3. AtMost(Zero, old.original)
    BY <2>2 DEF AtMost, Zero, Amounts
  <2>4. ConservedRecord(ter)
    BY <2>2, <2>3 DEF ConservedRecord, HeldStates
  <2>5. MarkedTerminal(b, r, outcome) = Put(b, r, ter)
    BY DEF MarkedTerminal
  <2> HIDE DEF ter
  <2> QED  BY <2>1, <2>4, <2>5, PutConserved
<1> QED  BY <1>2, <1>3

LEMMA ApplyConserved ==
  ASSUME NEW b \in Books, ConservedBook(b), NEW q \in Requests, Passes(b, q)
  PROVE  Apply(b, q) \in Books /\ ConservedBook(Apply(b, q))
<1>1. q.op \in Ops /\ q.rid \in Rids /\ q.amounts \in Amounts
      /\ (q.op = "RESERVE" => q.intent \in Intents)
  BY RequestFields
<1>2. CASE q.op = "RESERVE"
  BY <1>1, <1>2, ReservedConserved DEF Apply
<1>3. CASE q.op = "CONSUME"
  <2>1. CanConsume(b, q.rid, q.amounts)
    BY <1>3 DEF Passes, ConsumePasses
  <2> QED  BY <1>1, <1>3, <2>1, ConsumedConserved DEF Apply
<1>4. CASE q.op = "CONSUME_AND_MARK_FILLED"
  <2>1. CanConsume(b, q.rid, q.amounts)
    BY <1>4 DEF Passes, FilledPasses
  <2> QED  BY <1>1, <1>4, <2>1, ConsumedConserved DEF Apply
<1>5. CASE q.op = "RESTORE_CONSUMPTION"
  <2>1. CanRestore(b, q.rid, q.amounts)
    BY <1>5 DEF Passes, RestorePasses
  <2> QED  BY <1>1, <1>5, <2>1, RestoredConserved DEF Apply
<1>6. CASE q.op = "MARK_UNKNOWN"
  <2>1. CanMarkUnknown(b, q.rid)
    BY <1>6 DEF Passes
  <2> QED  BY <1>1, <1>6, <2>1, MarkedConserved DEF Apply
<1>7. CASE q.op = "MARK_TERMINAL"
  <2>1. CanMarkTerminal(b, q.rid, "PROVEN_ABSENT")
    BY <1>7 DEF Passes, TerminalPasses
  <2> QED  BY <1>1, <1>7, <2>1, MarkedConserved DEF Apply
<1>8. CASE q.op = "MARK_ZERO_WIRE_TERMINAL"
  <2>1. b[q.rid].state = "WORKING" /\ b[q.rid].consumed = Zero
    BY <1>8 DEF Passes, ZeroWirePasses
  <2>2. CanMarkTerminal(b, q.rid, "REJECTED")
    BY <2>1 DEF CanMarkTerminal, Held, HeldStates
  <2> QED  BY <1>1, <1>8, <2>2, MarkedConserved DEF Apply
<1> QED  BY <1>1, <1>2, <1>3, <1>4, <1>5, <1>6, <1>7, <1>8 DEF Ops

-----------------------------------------------------------------------------
(***************************************************************************)
(* The prepared copies are conserved as well as the book: that is the      *)
(* strengthening, since a commit replaces the book by such a copy.         *)
(***************************************************************************)
ConservedInv == TypeOK /\ Conserved /\ PlansConserved

LEMMA ConservedOfBook ==
  ASSUME TypeOK
  PROVE  Conserved <=> ConservedBook(book)
  BY DEF Conserved, ConservedBook, ConservedRecord, Held

LEMMA InitConserved == Init => ConservedInv
<1> SUFFICES ASSUME Init PROVE ConservedInv
  OBVIOUS
<1>1. NoRecord \in Records
  BY ZeroType DEF NoRecord, Records
<1>2. TypeOK
  BY <1>1 DEF Init, TypeOK, EmptyBook, Books, Tails
<1>3. AtMost(Zero, Zero)
  BY DEF AtMost, Zero
<1>4. ConservedRecord(NoRecord)
  BY <1>3 DEF ConservedRecord, NoRecord, HeldStates
<1>5. ConservedBook(book)
  BY <1>4 DEF Init, ConservedBook, EmptyBook
<1>6. PlansConserved
  BY DEF Init, PlansConserved
<1> QED  BY <1>2, <1>5, <1>6, ConservedOfBook DEF ConservedInv

LEMMA NextConserved ==
  ASSUME ConservedInv, [Next]_vars
  PROVE  ConservedInv'
<1> USE DEF ConservedInv
<1>1. ConservedBook(book)
  BY ConservedOfBook
<1>2. ASSUME NEW p \in Procs, NEW k \in Keys, NEW q \in Requests, Prepare(p, k, q)
      PROVE  ConservedInv'
  <2> DEFINE after == Apply(book, q)
             new == [key |-> k, req |-> q, ver |-> version, cut |-> seq,
                     after |-> after]
  <2>1. after \in Books /\ ConservedBook(after)
    BY <1>1, <1>2, ApplyConserved DEF TypeOK, Prepare
  <2> HIDE DEF after
  <2>2. new \in Plans
    BY <2>1 DEF Plans, TypeOK
  <2>3. plan' = [plan EXCEPT ![p] = new]
    BY <1>2 DEF Prepare, after
  <2>4. UNCHANGED <<bvars, seq, avars>>
    BY <1>2 DEF Prepare
  <2>5. TypeOK'
    BY <2>2, <2>3, <2>4 DEF TypeOK, bvars, avars
  <2>6. PlansConserved'
    BY <2>1, <2>3 DEF PlansConserved, TypeOK
  <2>7. ConservedBook(book')
    BY <1>1, <2>4 DEF bvars
  <2>8. Conserved'
    BY <2>7, <2>5 DEF Conserved, ConservedBook, ConservedRecord, Held
  <2> QED  BY <2>5, <2>6, <2>8
<1>3. ASSUME NEW p \in Procs, Commit(p)
      PROVE  ConservedInv'
  <2>1. plan[p] \in Plans /\ ConservedBook(plan[p].after)
    BY <1>3 DEF Commit, TypeOK, PlansConserved
  <2>2. book' \in Books /\ ConservedBook(book')
    BY <1>3, <2>1 DEF Commit, Plans
  <2>3. TypeOK'
    BY <1>3, <2>1, <2>2 DEF Commit, TypeOK, Plans, avars
  <2>4. PlansConserved'
    BY <1>3 DEF Commit, PlansConserved, TypeOK
  <2>5. Conserved'
    BY <2>2 DEF Conserved, ConservedBook, ConservedRecord, Held
  <2> QED  BY <2>3, <2>4, <2>5
<1>4. ASSUME NEW p \in Procs, Drop(p)
      PROVE  ConservedInv'
  BY <1>4 DEF Drop, TypeOK, Conserved, Held, PlansConserved, bvars, avars
<1>5. ASSUME UNCHANGED <<bvars, plan>>, TypeOK'
      PROVE  ConservedInv'
  BY <1>5 DEF Conserved, Held, PlansConserved, bvars
<1>6. ASSUME NEW a \in Attempts, NEW i \in Intents, PrepareAttempt(a, i)
      PROVE  ConservedInv'
  BY <1>5, <1>6 DEF PrepareAttempt, AppendAttempt, TypeOK, bvars, Tails
<1>7. ASSUME NEW a \in Attempts, BlockAttempt(a)
      PROVE  ConservedInv'
  BY <1>5, <1>7 DEF BlockAttempt, AppendAttempt, TypeOK, bvars, Tails
<1>8. ASSUME NEW a \in Attempts, SendAttempt(a)
      PROVE  ConservedInv'
  BY <1>5, <1>8 DEF SendAttempt, AppendAttempt, TypeOK, bvars, Tails
<1>9. ASSUME NEW a \in Attempts, SettleAttempt(a)
      PROVE  ConservedInv'
  BY <1>5, <1>9 DEF SettleAttempt, AppendAttempt, TypeOK, bvars, Tails
<1>10. ASSUME NEW a \in Attempts, LateUnknown(a)
       PROVE  ConservedInv'
  BY <1>5, <1>10 DEF LateUnknown, AppendAttempt, TypeOK, bvars, Tails
<1>11. ASSUME NEW a \in Attempts, ResolveAbsent(a)
       PROVE  ConservedInv'
  BY <1>5, <1>11 DEF ResolveAbsent, TypeOK, bvars
<1>12. CASE UNCHANGED vars
  BY <1>5, <1>12 DEF vars, bvars, avars, TypeOK
<1> QED  BY <1>2, <1>3, <1>4, <1>6, <1>7, <1>8, <1>9, <1>10, <1>11, <1>12 DEF Next

\* Type correctness of the durable book.
THEOREM BookTypeCorrect == Spec => []TypeOK
<1>1. ConservedInv /\ [Next]_vars => ConservedInv'
  BY NextConserved
<1> QED  BY InitConserved, <1>1, PTL DEF Spec, ConservedInv

(***************************************************************************)
(* Whatever processes commit, a held reservation holds what it has not     *)
(* consumed and a released one nothing: reservations.py, all operations.   *)
(***************************************************************************)
THEOREM AmountsConserved == Spec => []Conserved
<1>1. ConservedInv /\ [Next]_vars => ConservedInv'
  BY NextConserved
<1> QED  BY InitConserved, <1>1, PTL DEF Spec, ConservedInv

-----------------------------------------------------------------------------
(***************************************************************************)
(* A plan is about a version the book has had; while the book is still at  *)
(* that version, a planned admission passes its check.                     *)
(***************************************************************************)
Admissible(b, q) == CanReserve(b, q.rid, q.intent, q.amounts, q.available)

PlansFresh ==
  \A p \in Procs : plan[p] # NoRequest =>
    /\ plan[p].ver <= version
    /\ (plan[p].ver = version /\ plan[p].req.op = "RESERVE") =>
         Admissible(book, plan[p].req)

LEMMA NextFresh ==
  ASSUME TypeOK, TypeOK', PlansFresh, [Next]_vars
  PROVE  PlansFresh'
<1> USE DEF PlansFresh
<1>1. ASSUME NEW p \in Procs, NEW k \in Keys, NEW q \in Requests, Prepare(p, k, q)
      PROVE  PlansFresh'
  <2>1. UNCHANGED <<book, version>> /\ version \in Nat
    BY <1>1 DEF Prepare, bvars, TypeOK
  <2>2. q.op = "RESERVE" => Admissible(book, q)
    BY <1>1 DEF Prepare, Passes, ReservePasses, Admissible
  <2> SUFFICES ASSUME NEW s \in Procs, plan'[s] # NoRequest
               PROVE  /\ plan'[s].ver <= version'
                      /\ (plan'[s].ver = version' /\ plan'[s].req.op = "RESERVE") =>
                           Admissible(book', plan'[s].req)
    OBVIOUS
  <2>3. CASE s = p
    <3>1. plan'[s].ver = version /\ plan'[s].req = q
      BY <1>1, <2>3 DEF Prepare, TypeOK
    <3> QED  BY <2>1, <2>2, <3>1
  <2>4. CASE s # p
    <3>1. plan'[s] = plan[s]
      BY <1>1, <2>4 DEF Prepare, TypeOK
    <3> QED  BY <2>1, <3>1
  <2> QED  BY <2>3, <2>4
<1>2. ASSUME NEW p \in Procs, Commit(p), NEW s \in Procs, plan'[s] # NoRequest
      PROVE  plan'[s].ver <= version' /\ plan'[s].ver # version'
  <2>1. version \in Nat /\ version' = version + 1
    BY <1>2 DEF Commit, TypeOK
  <2>2. s # p /\ plan'[s] = plan[s]
    BY <1>2 DEF Commit, TypeOK
  <2>3. plan[s].ver <= version /\ plan[s].ver \in Nat
    BY <1>2, <2>2 DEF TypeOK, Plans
  <2> QED  BY <2>1, <2>2, <2>3
<1>3. ASSUME UNCHANGED bvars,
             \A s \in Procs : plan'[s] # NoRequest => plan'[s] = plan[s]
      PROVE  PlansFresh'
  BY <1>3 DEF bvars
<1>4. ASSUME NEW p \in Procs, Drop(p)
      PROVE  PlansFresh'
  BY <1>3, <1>4 DEF Drop, TypeOK
<1>5. ASSUME NEW a \in Attempts, NEW i \in Intents, PrepareAttempt(a, i)
      PROVE  PlansFresh'
  BY <1>3, <1>5 DEF PrepareAttempt
<1>6. ASSUME NEW a \in Attempts,
             BlockAttempt(a) \/ SendAttempt(a) \/ SettleAttempt(a)
             \/ LateUnknown(a) \/ ResolveAbsent(a)
      PROVE  PlansFresh'
  BY <1>3, <1>6
  DEF BlockAttempt, SendAttempt, SettleAttempt, LateUnknown, ResolveAbsent
<1>7. CASE UNCHANGED vars
  BY <1>3, <1>7 DEF vars
<1> QED  BY <1>1, <1>2, <1>4, <1>5, <1>6, <1>7 DEF Next

LEMMA StepAdmissionFits ==
  ASSUME TypeOK, PlansFresh, Next, NEW r \in Rids, NEW k \in Keys,
         log[k] = NoRequest, log'[k] # NoRequest, log'[k].op = "RESERVE",
         log'[k].rid = r, book[r].state = "None"
  PROVE  Fits(book, log'[k].amounts, log'[k].available)
<1>1. PICK p \in Procs : Commit(p)
  BY DEF Next, Prepare, Drop, PrepareAttempt, BlockAttempt, SendAttempt,
         SettleAttempt, LateUnknown, ResolveAbsent, bvars
<1>2. plan[p] \in Plans /\ plan[p] # NoRequest
  BY <1>1 DEF Commit, TypeOK
<1>3. k = plan[p].key /\ log'[k] = plan[p].req
  BY <1>1, <1>2 DEF Commit, TypeOK, Plans
<1>4. plan[p].ver = version
  BY <1>1 DEF Commit, CommitFits
<1>5. Admissible(book, plan[p].req)
  BY <1>2, <1>3, <1>4 DEF PlansFresh
<1> QED  BY <1>3, <1>5 DEF Admissible, CanReserve

(***************************************************************************)
(* A committed admission fits beside all that is held when it is committed:*)
(* the version fence of DurableReservationBook, for any number of racing   *)
(* processes.                                                              *)
(***************************************************************************)
THEOREM AdmissionsFit == Spec => AdmissionFits
<1>1. Init => PlansFresh
  BY DEF Init, PlansFresh
<1>2. TypeOK /\ TypeOK' /\ PlansFresh /\ [Next]_vars => PlansFresh'
  BY NextFresh
<1>3. TypeOK /\ PlansFresh /\ [Next]_vars =>
        [\A r \in Rids, k \in Keys :
           (log[k] = NoRequest /\ log'[k] # NoRequest /\ log'[k].op = "RESERVE"
              /\ log'[k].rid = r /\ book[r].state = "None")
             => Fits(book, log'[k].amounts, log'[k].available)]_vars
  BY StepAdmissionFits
<1> QED  BY <1>1, <1>2, <1>3, BookTypeCorrect, PTL DEF Spec, AdmissionFits

-----------------------------------------------------------------------------
(***************************************************************************)
(* Why a released reservation cannot fill: its evidence names an attempt   *)
(* that never passed the barrier, or one that is proven absent, and the    *)
(* intent has no other. The evidence does not go away while a plan waits.  *)
(***************************************************************************)
Attests(i, a) ==
  /\ owner[a] = i
  /\ tail[a] \in {"Blocked", "Unknown"}
  /\ a \notin wired \/ a \in absent

Evidenced(b) ==
  \A r \in Rids : b[r].state \in {"REJECTED", "PROVEN_ABSENT"} =>
    \E a \in Attempts : Attests(b[r].intent, a)

AttemptsInv ==
  \A a \in Attempts :
    /\ tail[a] # "None" => owner[a] \in Intents
    /\ tail[a] = "None" => owner[a] = NoIntent
    /\ tail[a] \in {"None", "Prepared", "Blocked"} => a \notin wired

OneAttempt ==
  \A a, b \in Attempts : owner[a] = owner[b] /\ owner[a] \in Intents => a = b

EvidenceInv ==
  /\ TypeOK
  /\ AttemptsInv
  /\ OneAttempt
  /\ Evidenced(book)
  /\ \A p \in Procs : plan[p] # NoRequest => Evidenced(plan[p].after)

LEMMA ApplyEvidenced ==
  ASSUME TypeOK, AttemptsInv, NEW q \in Requests, Passes(book, q), Evidenced(book)
  PROVE  Evidenced(Apply(book, q))
<1> DEFINE r == q.rid
<1>1. q.op \in Ops /\ r \in Rids
      /\ (q.op \in {"MARK_TERMINAL", "MARK_ZERO_WIRE_TERMINAL"} => q.att \in Attempts)
  BY RequestFields
<1>2. book \in Books
  BY DEF TypeOK
<1>3. ASSUME NEW rec,
             rec.state \in {"REJECTED", "PROVEN_ABSENT"} =>
               \E a \in Attempts : Attests(rec.intent, a)
      PROVE  Evidenced(Put(book, r, rec))
  <2> SUFFICES ASSUME NEW s \in Rids,
                      Put(book, r, rec)[s].state \in {"REJECTED", "PROVEN_ABSENT"}
               PROVE  \E a \in Attempts : Attests(Put(book, r, rec)[s].intent, a)
    BY DEF Evidenced
  <2>1. CASE s = r
    BY <1>2, <1>3, <2>1 DEF Put, Books
  <2>2. CASE s # r
    <3>1. Put(book, r, rec)[s] = book[s]
      BY <1>2, <2>2 DEF Put, Books
    <3> QED  BY <3>1 DEF Evidenced
  <2> QED  BY <2>1, <2>2
<1>4. book[r] \in Records
  BY <1>1, <1>2 DEF Books
<1>5. CASE q.op = "RESERVE"
  <2>1. Apply(book, q) = Reserved(book, r, q.intent, q.amounts)
    BY <1>5 DEF Apply
  <2>2. CASE book[r].state # "None"
    BY <2>1, <2>2 DEF Reserved
  <2>3. CASE book[r].state = "None"
    BY <1>3, <2>1, <2>3 DEF Reserved
  <2> QED  BY <2>2, <2>3
<1>6. CASE q.op = "CONSUME"
  <2> DEFINE rec == [book[r] EXCEPT !.remaining = Minus(book[r].remaining, q.amounts),
                                    !.consumed = Plus(book[r].consumed, q.amounts)]
  <2>1. Apply(book, q) = Put(book, r, rec) /\ book[r].state \in HeldStates
    BY <1>6 DEF Apply, Passes, ConsumePasses, Consumed, CanConsume, Held
  <2>2. rec.state = book[r].state
    BY <1>4 DEF Records
  <2> HIDE DEF rec
  <2> QED  BY <1>3, <2>1, <2>2 DEF HeldStates
<1>7. CASE q.op = "CONSUME_AND_MARK_FILLED"
  <2> DEFINE rec == [book[r] EXCEPT !.state = "FILLED", !.remaining = Zero,
                                    !.consumed = Plus(book[r].consumed, q.amounts)]
  <2>1. Apply(book, q) = Put(book, r, rec)
    BY <1>7 DEF Apply, Filled
  <2>2. rec.state = "FILLED"
    BY <1>4 DEF Records
  <2> HIDE DEF rec
  <2> QED  BY <1>3, <2>1, <2>2
<1>8. CASE q.op = "RESTORE_CONSUMPTION"
  <2> DEFINE con == Minus(book[r].consumed, q.amounts)
             fil == [book[r] EXCEPT !.state = "BUSTED", !.consumed = con,
                                    !.remaining = Minus(book[r].original, con)]
             can == [book[r] EXCEPT !.consumed = con]
             hel == [book[r] EXCEPT !.consumed = con,
                                    !.remaining = Plus(book[r].remaining, q.amounts)]
  <2>1. Apply(book, q) = Restored(book, r, q.amounts)
        /\ book[r].state \in HeldStates \cup {"FILLED", "CANCELED"}
    BY <1>8 DEF Apply, Passes, RestorePasses, CanRestore
  <2>2. /\ fil.state = "BUSTED" /\ can.state = book[r].state
        /\ hel.state = book[r].state
    BY <1>4 DEF Records
  <2>3. Apply(book, q) \in {Put(book, r, fil), Put(book, r, can), Put(book, r, hel)}
    BY <2>1 DEF Restored
  <2> HIDE DEF fil, can, hel
  <2> QED  BY <1>3, <2>1, <2>2, <2>3 DEF HeldStates
<1>9. CASE q.op = "MARK_UNKNOWN"
  <2> DEFINE rec == [book[r] EXCEPT !.state = "UNKNOWN"]
  <2>1. Apply(book, q) = Put(book, r, rec)
    BY <1>9 DEF Apply, MarkedUnknown
  <2>2. rec.state = "UNKNOWN"
    BY <1>4 DEF Records
  <2> HIDE DEF rec
  <2> QED  BY <1>3, <2>1, <2>2
<1>10. CASE q.op = "MARK_TERMINAL"
  <2> DEFINE rec == [book[r] EXCEPT !.state = "PROVEN_ABSENT", !.remaining = Zero]
  <2>1. Apply(book, q) = Put(book, r, rec)
        /\ VerifyResolutionEvidence(book[r].intent, q.att)
    BY <1>10 DEF Apply, Passes, TerminalPasses, MarkedTerminal
  <2>2. Attests(book[r].intent, q.att)
    BY <2>1 DEF VerifyResolutionEvidence, Attests
  <2>3. rec.intent = book[r].intent
    BY <1>4 DEF Records
  <2> HIDE DEF rec
  <2> QED  BY <1>1, <1>3, <1>10, <2>1, <2>2, <2>3
<1>11. CASE q.op = "MARK_ZERO_WIRE_TERMINAL"
  <2> DEFINE rec == [book[r] EXCEPT !.state = "REJECTED", !.remaining = Zero]
  <2>1. Apply(book, q) = Put(book, r, rec)
        /\ VerifyZeroWireBlocked(book[r].intent, q.att)
    BY <1>11 DEF Apply, Passes, ZeroWirePasses, MarkedTerminal
  <2>2. Attests(book[r].intent, q.att)
    BY <1>1, <1>11, <2>1 DEF VerifyZeroWireBlocked, Attests, AttemptsInv
  <2>3. rec.intent = book[r].intent
    BY <1>4 DEF Records
  <2> HIDE DEF rec
  <2> QED  BY <1>1, <1>3, <1>11, <2>1, <2>2, <2>3
<1> QED
  BY <1>1, <1>5, <1>6, <1>7, <1>8, <1>9, <1>10, <1>11 DEF Ops

LEMMA InitEvidence == Init => EvidenceInv
<1> SUFFICES ASSUME Init PROVE EvidenceInv
  OBVIOUS
<1>1. TypeOK
  BY InitConserved DEF ConservedInv
<1>2. AttemptsInv
  BY DEF Init, AttemptsInv
<1>3. OneAttempt
  BY NoIntentAssumption DEF Init, OneAttempt
<1>4. Evidenced(book)
  BY DEF Init, Evidenced, EmptyBook, NoRecord
<1> QED  BY <1>1, <1>2, <1>3, <1>4 DEF Init, EvidenceInv

\* Attestations survive every step of the attempts.
LEMMA EvidenceStable ==
  ASSUME EvidenceInv, UNCHANGED <<book, plan>>,
         \A i \in Intents \cup {NoIntent}, a \in Attempts :
           Attests(i, a) => Attests(i, a)'
  PROVE  /\ Evidenced(book)'
         /\ \A p \in Procs : plan'[p] # NoRequest => Evidenced(plan[p].after)'
<1>1. ASSUME NEW b \in Books, Evidenced(b)
      PROVE  \A r \in Rids : b[r].state \in {"REJECTED", "PROVEN_ABSENT"} =>
               \E a \in Attempts : Attests(b[r].intent, a)'
  <2>1. \A r \in Rids : b[r].intent \in Intents \cup {NoIntent}
    BY DEF Books, Records
  <2> QED  BY <1>1, <2>1 DEF Evidenced
<1>2. book \in Books /\ Evidenced(book)
  BY DEF EvidenceInv, TypeOK
<1>3. Evidenced(book)'
  BY <1>1, <1>2 DEF Evidenced
<1>4. ASSUME NEW p \in Procs, plan'[p] # NoRequest
      PROVE  Evidenced(plan[p].after)'
  <2>1. plan[p] \in Plans /\ Evidenced(plan[p].after) /\ plan'[p] = plan[p]
    BY <1>4 DEF EvidenceInv, TypeOK
  <2>2. plan[p].after \in Books
    BY <2>1 DEF Plans
  <2> QED  BY <1>1, <2>1, <2>2 DEF Evidenced
<1> QED  BY <1>3, <1>4

LEMMA NextEvidence ==
  ASSUME Resubmit = FALSE, EvidenceInv, TypeOK', [Next]_vars
  PROVE  EvidenceInv'
<1> USE DEF EvidenceInv
<1>1. ASSUME UNCHANGED avars
      PROVE  AttemptsInv' /\ OneAttempt'
             /\ \A b \in Books : Evidenced(b) => Evidenced(b)'
  BY <1>1 DEF avars, AttemptsInv, OneAttempt, Evidenced, Attests
<1>2. ASSUME NEW p \in Procs, NEW k \in Keys, NEW q \in Requests, Prepare(p, k, q)
      PROVE  EvidenceInv'
  <2>1. UNCHANGED <<avars, book>> /\ Passes(book, q)
    BY <1>2 DEF Prepare, bvars
  <2>2. Evidenced(Apply(book, q))
    BY <2>1, ApplyEvidenced
  <2>3. \A s \in Procs : plan'[s] # NoRequest =>
          plan'[s].after \in Books /\ Evidenced(plan'[s].after)
    <3> SUFFICES ASSUME NEW s \in Procs, plan'[s] # NoRequest
                 PROVE  plan'[s].after \in Books /\ Evidenced(plan'[s].after)
      OBVIOUS
    <3>1. plan'[s].after \in Books
      BY DEF TypeOK, Plans
    <3>2. CASE s = p
      <4>1. plan'[s].after = Apply(book, q)
        BY <1>2, <3>2 DEF Prepare, TypeOK
      <4> QED  BY <2>2, <3>1, <4>1
    <3>3. CASE s # p
      BY <1>2, <3>1, <3>3 DEF Prepare, TypeOK
    <3> QED  BY <3>2, <3>3
  <2>4. book \in Books
    BY DEF TypeOK
  <2>5. Evidenced(book)'
    BY <1>1, <2>1, <2>4 DEF Evidenced, Attests, avars
  <2>6. ASSUME NEW s \in Procs, plan'[s] # NoRequest
        PROVE  Evidenced(plan[s].after)'
    BY <2>1, <2>3, <2>6 DEF Evidenced, Attests, avars
  <2> QED  BY <1>1, <2>1, <2>5, <2>6
<1>3. ASSUME NEW p \in Procs, Commit(p) \/ Drop(p)
      PROVE  EvidenceInv'
  <2>1. UNCHANGED avars
    BY <1>3 DEF Commit, Drop
  <2>2. book' = book \/ (plan[p] # NoRequest /\ book' = plan[p].after)
    BY <1>3 DEF Commit, Drop, bvars
  <2>3. Evidenced(book')
    BY <2>2
  <2>4. Evidenced(book)'
    BY <2>1, <2>3 DEF Evidenced, Attests, avars
  <2>5. ASSUME NEW s \in Procs, plan'[s] # NoRequest
        PROVE  plan'[s] = plan[s] /\ Evidenced(plan[s].after)
    BY <1>3, <2>5 DEF Commit, Drop, TypeOK
  <2>6. ASSUME NEW s \in Procs, plan'[s] # NoRequest
        PROVE  Evidenced(plan[s].after)'
    BY <2>1, <2>5, <2>6 DEF Evidenced, Attests, avars
  <2> QED  BY <1>1, <2>1, <2>4, <2>6
<1>4. ASSUME NEW a \in Attempts, NEW i \in Intents, PrepareAttempt(a, i)
      PROVE  EvidenceInv'
  <2>1. \A b \in Attempts : owner[b] # i
    BY <1>4 DEF PrepareAttempt
  <2>2. AttemptsInv'
    BY <1>4 DEF PrepareAttempt, AppendAttempt, AttemptsInv, TypeOK
  <2>3. OneAttempt'
    BY <1>4, <2>1 DEF PrepareAttempt, OneAttempt, TypeOK
  <2>4. \A j \in Intents \cup {NoIntent}, b \in Attempts :
          Attests(j, b) => Attests(j, b)'
    BY <1>4 DEF PrepareAttempt, AppendAttempt, Attests, TypeOK
  <2>5. UNCHANGED <<book, plan>>
    BY <1>4 DEF PrepareAttempt, bvars
  <2> QED  BY <2>2, <2>3, <2>4, <2>5, EvidenceStable
<1>5. ASSUME NEW a \in Attempts, BlockAttempt(a) \/ SendAttempt(a)
      PROVE  EvidenceInv'
  <2>1. AttemptsInv'
    BY <1>5 DEF BlockAttempt, SendAttempt, AppendAttempt, AttemptsInv, TypeOK
  <2>2. OneAttempt'
    BY <1>5 DEF BlockAttempt, SendAttempt, OneAttempt
  <2>3. \A j \in Intents \cup {NoIntent}, b \in Attempts :
          Attests(j, b) => Attests(j, b)'
    BY <1>5 DEF BlockAttempt, SendAttempt, AppendAttempt, Attests, TypeOK
  <2>4. UNCHANGED <<book, plan>>
    BY <1>5 DEF BlockAttempt, SendAttempt, bvars
  <2> QED  BY <2>1, <2>2, <2>3, <2>4, EvidenceStable
<1>6. ASSUME NEW a \in Attempts, SettleAttempt(a) \/ LateUnknown(a)
      PROVE  EvidenceInv'
  <2>1. AttemptsInv'
    BY <1>6 DEF SettleAttempt, LateUnknown, AppendAttempt, AttemptsInv, TypeOK
  <2>2. OneAttempt'
    BY <1>6 DEF SettleAttempt, LateUnknown, OneAttempt
  <2>3. \A j \in Intents \cup {NoIntent}, b \in Attempts :
          Attests(j, b) => Attests(j, b)'
    BY <1>6 DEF SettleAttempt, LateUnknown, AppendAttempt, Attests, TypeOK
  <2>4. UNCHANGED <<book, plan>>
    BY <1>6 DEF SettleAttempt, LateUnknown, bvars
  <2> QED  BY <2>1, <2>2, <2>3, <2>4, EvidenceStable
<1>7. ASSUME NEW a \in Attempts, ResolveAbsent(a)
      PROVE  EvidenceInv'
  <2>1. AttemptsInv' /\ OneAttempt'
    BY <1>7 DEF ResolveAbsent, AttemptsInv, OneAttempt
  <2>2. \A j \in Intents \cup {NoIntent}, b \in Attempts :
          Attests(j, b) => Attests(j, b)'
    BY <1>7 DEF ResolveAbsent, Attests
  <2>3. UNCHANGED <<book, plan>>
    BY <1>7 DEF ResolveAbsent, bvars
  <2> QED  BY <2>1, <2>2, <2>3, EvidenceStable
<1>8. CASE UNCHANGED vars
  <2>1. UNCHANGED <<avars, book, plan>>
    BY <1>8 DEF vars, bvars
  <2>2. \A j \in Intents \cup {NoIntent}, b \in Attempts :
          Attests(j, b) => Attests(j, b)'
    BY <2>1 DEF avars, Attests
  <2> QED  BY <1>1, <2>1, <2>2, EvidenceStable
<1> QED  BY <1>2, <1>3, <1>4, <1>5, <1>6, <1>7, <1>8 DEF Next

LEMMA EvidenceSuffices ==
  ASSUME EvidenceInv
  PROVE  ReleasedNeverFills
<1> SUFFICES ASSUME NEW r \in Rids,
                    book[r].state \in {"REJECTED", "PROVEN_ABSENT"},
                    NEW b \in wired \ absent, owner[b] = book[r].intent
             PROVE  FALSE
  BY DEF ReleasedNeverFills, Fillable
<1>1. PICK a \in Attempts : Attests(book[r].intent, a)
  BY DEF EvidenceInv, Evidenced
<1>2. b \in Attempts /\ owner[a] = owner[b] /\ owner[a] \in Intents
  BY <1>1 DEF Attests, EvidenceInv, AttemptsInv, TypeOK
<1>3. a = b
  BY <1>1, <1>2 DEF EvidenceInv, OneAttempt
<1> QED  BY <1>1, <1>3 DEF Attests

(***************************************************************************)
(* With one attempt per intent, as the simulation session has it, nothing  *)
(* that is released as never executed can execute any more: the release    *)
(* paths of durable_reservations.py against the attempts of dispatch.py.   *)
(***************************************************************************)
THEOREM ReleasesAreSafe == Resubmit = FALSE /\ Spec => []ReleasedNeverFills
<1> SUFFICES ASSUME Resubmit = FALSE PROVE Spec => []ReleasedNeverFills
  OBVIOUS
<1>1. EvidenceInv /\ TypeOK' /\ [Next]_vars => EvidenceInv'
  BY NextEvidence
<1>2. EvidenceInv => ReleasedNeverFills
  BY EvidenceSuffices
<1> QED  BY InitEvidence, <1>1, <1>2, BookTypeCorrect, PTL DEF Spec

-----------------------------------------------------------------------------
(***************************************************************************)
(* Why nothing is lost: a commit adds one request to the journal and does  *)
(* to the consumption of its reservation what that request says, because   *)
(* the copy it installs was made from the book of the same version.        *)
(***************************************************************************)
UsageOps == {"CONSUME", "CONSUME_AND_MARK_FILLED"}

RestoreOps == {"RESTORE_CONSUMPTION"}

CommittedKeys(lg) == {k \in Keys : lg[k] # NoRequest}

KeysIn(lg, r, ops) == {k \in Keys : lg[k] # NoRequest /\ lg[k].op \in ops /\ lg[k].rid = r}

LoggedIn(lg, r, ops, x) == SumFunction([k \in KeysIn(lg, r, ops) |-> lg[k].amounts[x]])

Logs == [Keys -> Requests \cup {NoRequest}]

LEMMA SumOfFunction ==
  ASSUME NEW S, NEW f, DOMAIN f = S
  PROVE  SumFunction(f) = SumFunctionOnSet(f, S)
  BY DEF SumFunction

LEMMA KeysFinite ==
  ASSUME NEW lg \in Logs, IsFiniteSet(CommittedKeys(lg)), NEW r, NEW ops
  PROVE  IsFiniteSet(KeysIn(lg, r, ops))
<1>1. KeysIn(lg, r, ops) \subseteq CommittedKeys(lg)
  BY DEF KeysIn, CommittedKeys
<1> QED  BY <1>1, FS_Subset

LEMMA LoggedType ==
  ASSUME NEW lg \in Logs, IsFiniteSet(CommittedKeys(lg)), NEW r, NEW ops, NEW x \in Resources
  PROVE  LoggedIn(lg, r, ops, x) \in Nat
<1>1. PICK S : S = KeysIn(lg, r, ops)
  OBVIOUS
<1>2. PICK f : f = [k \in S |-> lg[k].amounts[x]]
  OBVIOUS
<1>3. \A k \in S : f[k] \in Nat
  BY <1>1, <1>2, RequestFields DEF KeysIn, Logs, Amounts
<1>4. IsFiniteSet(S)
  BY <1>1, KeysFinite
<1>5. SumFunctionOnSet(f, S) \in Nat
  BY <1>3, <1>4, SumType
<1> QED  BY <1>1, <1>2, <1>5, SumOfFunction DEF LoggedIn

Appended(lg, k, q, mg) == mg = [lg EXCEPT ![k] = q]

\* What q adds to the amounts committed for r by an operation of ops.
Share(q, r, ops, x) == IF q.op \in ops /\ q.rid = r THEN q.amounts[x] ELSE 0

LEMMA LoggedStep ==
  ASSUME NEW lg \in Logs, IsFiniteSet(CommittedKeys(lg)), NEW k \in Keys,
         lg[k] = NoRequest, NEW q \in Requests, NEW mg, Appended(lg, k, q, mg),
         NEW r, NEW ops, NEW x \in Resources
  PROVE  LoggedIn(mg, r, ops, x) = LoggedIn(lg, r, ops, x) + Share(q, r, ops, x)
<1> USE DEF Share, Appended
<1>1. PICK S : S = KeysIn(lg, r, ops)
  OBVIOUS
<1>2. PICK f : f = [j \in S |-> lg[j].amounts[x]]
  OBVIOUS
<1>3. PICK T : T = KeysIn(mg, r, ops)
  OBVIOUS
<1>4. PICK g : g = [j \in T |-> mg[j].amounts[x]]
  OBVIOUS
<1>5. IsFiniteSet(S) /\ k \notin S
  BY <1>1, KeysFinite DEF KeysIn
<1>6. q # NoRequest /\ q.amounts[x] \in Nat
  BY RequestFields, NoRequestAssumption DEF Amounts
<1>7. T = IF q.op \in ops /\ q.rid = r THEN S \cup {k} ELSE S
  BY <1>1, <1>3, <1>5, <1>6 DEF KeysIn, Logs
<1>8. \A j \in S : g[j] = f[j]
  BY <1>1, <1>2, <1>3, <1>4, <1>5, <1>7 DEF KeysIn, Logs
<1>9. LoggedIn(lg, r, ops, x) = SumFunctionOnSet(f, S)
      /\ LoggedIn(mg, r, ops, x) = SumFunctionOnSet(g, T)
  BY <1>1, <1>2, <1>3, <1>4, SumOfFunction DEF LoggedIn
<1>10. SumFunctionOnSet(g, S) = SumFunctionOnSet(f, S)
  BY <1>5, <1>8, SumSame
<1>11. LoggedIn(lg, r, ops, x) \in Nat
  BY LoggedType
<1>12. CASE q.op \in ops /\ q.rid = r
  <2>1. T = S \cup {k}
    BY <1>7, <1>12
  <2>2. g[k] = q.amounts[x]
    BY <1>4, <2>1 DEF Logs
  <2>3. \A j \in S \cup {k} : g[j] \in Nat
    <3>1. ASSUME NEW j \in S PROVE f[j] \in Nat
      BY <1>1, <1>2, <3>1, RequestFields DEF KeysIn, Logs, Amounts
    <3> QED  BY <1>6, <1>8, <2>2, <3>1
  <2>4. SumFunctionOnSet(g, S \cup {k}) = g[k] + SumFunctionOnSet(g, S)
    BY <1>5, <2>3, SumWith
  <2> QED  BY <1>6, <1>9, <1>10, <1>11, <1>12, <2>1, <2>2, <2>4
<1>13. CASE ~(q.op \in ops /\ q.rid = r)
  BY <1>7, <1>9, <1>10, <1>11, <1>13
<1> QED  BY <1>12, <1>13

\* Nothing is consumed of what is not reserved.
UnreservedEmpty(b) == \A r \in Rids : b[r].state = "None" => b[r].consumed = Zero

Touchable(b, q) ==
  q.op \in UsageOps \cup RestoreOps => b[q.rid].state # "None"

LEMMA ConsumedBy ==
  ASSUME NEW b \in Books, UnreservedEmpty(b), NEW q \in Requests, Touchable(b, q)
  PROVE  /\ \A r \in Rids : r # q.rid => Apply(b, q)[r] = b[r]
         /\ q.op \in UsageOps =>
              Apply(b, q)[q.rid].consumed = Plus(b[q.rid].consumed, q.amounts)
         /\ q.op \in RestoreOps =>
              Apply(b, q)[q.rid].consumed = Minus(b[q.rid].consumed, q.amounts)
         /\ q.op \notin UsageOps \cup RestoreOps =>
              Apply(b, q)[q.rid].consumed = b[q.rid].consumed
         /\ UnreservedEmpty(Apply(b, q))
<1>1. q.op \in Ops /\ q.rid \in Rids
  BY RequestFields
<1>2. PICK rec \in Records : rec = b[q.rid]
  BY <1>1 DEF Books
<1>3. rec.state = "None" => rec.consumed = Zero
  BY <1>1, <1>2 DEF UnreservedEmpty
<1> DEFINE Good(new) ==
      /\ q.op \in UsageOps => new.consumed = Plus(rec.consumed, q.amounts)
      /\ q.op \in RestoreOps => new.consumed = Minus(rec.consumed, q.amounts)
      /\ q.op \notin UsageOps \cup RestoreOps => new.consumed = rec.consumed
      /\ new.state = "None" => new.consumed = Zero
<1>4. ASSUME NEW new, Apply(b, q) = Put(b, q.rid, new), Good(new)
      PROVE  /\ \A r \in Rids : r # q.rid => Apply(b, q)[r] = b[r]
             /\ Good(Apply(b, q)[q.rid])
             /\ UnreservedEmpty(Apply(b, q))
  <2>1. PICK c : c = Apply(b, q)
    OBVIOUS
  <2>2. c[q.rid] = new /\ \A r \in Rids : r # q.rid => c[r] = b[r]
    BY <1>1, <1>4, <2>1 DEF Put, Books
  <2>3. UnreservedEmpty(c)
    BY <1>1, <1>4, <2>2 DEF UnreservedEmpty
  <2> QED  BY <1>4, <2>1, <2>2, <2>3
<1> USE DEF UsageOps, RestoreOps
<1>5. CASE q.op = "RESERVE"
  <2>1. CASE rec.state # "None"
    BY <1>1, <1>2, <1>5, <2>1 DEF Apply, Reserved
  <2>2. CASE rec.state = "None"
    <3>1. PICK new : new = [state |-> "WORKING", intent |-> q.intent,
                            original |-> q.amounts, remaining |-> q.amounts,
                            consumed |-> Zero]
      OBVIOUS
    <3>2. Apply(b, q) = Put(b, q.rid, new)
      BY <1>2, <1>5, <2>2, <3>1 DEF Apply, Reserved
    <3>3. Good(new)
      BY <1>3, <1>5, <2>2, <3>1
    <3> HIDE DEF Good
    <3>4. Good(Apply(b, q)[q.rid]) /\ UnreservedEmpty(Apply(b, q))
          /\ \A r \in Rids : r # q.rid => Apply(b, q)[r] = b[r]
      BY <1>4, <3>2, <3>3
    <3> QED  BY <1>2, <3>4 DEF Good
  <2> QED  BY <2>1, <2>2
<1>6. CASE q.op = "CONSUME"
  <2>1. PICK new : new = [rec EXCEPT !.remaining = Minus(rec.remaining, q.amounts),
                                     !.consumed = Plus(rec.consumed, q.amounts)]
    OBVIOUS
  <2>2. Apply(b, q) = Put(b, q.rid, new)
    BY <1>2, <1>6, <2>1 DEF Apply, Consumed
  <2>3. Good(new)
    BY <1>2, <1>6, <2>1 DEF Records, Touchable
  <2> HIDE DEF Good
  <2>4. Good(Apply(b, q)[q.rid]) /\ UnreservedEmpty(Apply(b, q))
        /\ \A r \in Rids : r # q.rid => Apply(b, q)[r] = b[r]
    BY <1>4, <2>2, <2>3
  <2> QED  BY <1>2, <2>4 DEF Good
<1>7. CASE q.op = "CONSUME_AND_MARK_FILLED"
  <2>1. PICK new : new = [rec EXCEPT !.state = "FILLED", !.remaining = Zero,
                                     !.consumed = Plus(rec.consumed, q.amounts)]
    OBVIOUS
  <2>2. Apply(b, q) = Put(b, q.rid, new)
    BY <1>2, <1>7, <2>1 DEF Apply, Filled
  <2>3. Good(new)
    BY <1>2, <1>7, <2>1 DEF Records
  <2> HIDE DEF Good
  <2>4. Good(Apply(b, q)[q.rid]) /\ UnreservedEmpty(Apply(b, q))
        /\ \A r \in Rids : r # q.rid => Apply(b, q)[r] = b[r]
    BY <1>4, <2>2, <2>3
  <2> QED  BY <1>2, <2>4 DEF Good
<1>8. CASE q.op = "RESTORE_CONSUMPTION"
  <2>1. PICK new : new =
          CASE rec.state = "FILLED" ->
                 [rec EXCEPT !.state = "BUSTED",
                             !.consumed = Minus(rec.consumed, q.amounts),
                             !.remaining = Minus(rec.original, Minus(rec.consumed, q.amounts))]
            [] rec.state = "CANCELED" ->
                 [rec EXCEPT !.consumed = Minus(rec.consumed, q.amounts)]
            [] OTHER -> [rec EXCEPT !.consumed = Minus(rec.consumed, q.amounts),
                                    !.remaining = Plus(rec.remaining, q.amounts)]
    OBVIOUS
  <2>2. Apply(b, q) = Put(b, q.rid, new)
    BY <1>2, <1>8, <2>1 DEF Apply, Restored
  <2>3. Good(new)
    <3>1. rec.state # "None"
      BY <1>2, <1>8 DEF Touchable
    <3> QED  BY <1>2, <1>8, <2>1, <3>1 DEF Records
  <2> HIDE DEF Good
  <2>4. Good(Apply(b, q)[q.rid]) /\ UnreservedEmpty(Apply(b, q))
        /\ \A r \in Rids : r # q.rid => Apply(b, q)[r] = b[r]
    BY <1>4, <2>2, <2>3
  <2> QED  BY <1>2, <2>4 DEF Good
<1>9. CASE q.op = "MARK_UNKNOWN"
  <2>1. PICK new : new = [rec EXCEPT !.state = "UNKNOWN"]
    OBVIOUS
  <2>2. Apply(b, q) = Put(b, q.rid, new)
    BY <1>2, <1>9, <2>1 DEF Apply, MarkedUnknown
  <2>3. Good(new)
    BY <1>2, <1>9, <2>1 DEF Records
  <2> HIDE DEF Good
  <2>4. Good(Apply(b, q)[q.rid]) /\ UnreservedEmpty(Apply(b, q))
        /\ \A r \in Rids : r # q.rid => Apply(b, q)[r] = b[r]
    BY <1>4, <2>2, <2>3
  <2> QED  BY <1>2, <2>4 DEF Good
<1>10. ASSUME NEW outcome \in {"PROVEN_ABSENT", "REJECTED"},
              q.op \in {"MARK_TERMINAL", "MARK_ZERO_WIRE_TERMINAL"},
              Apply(b, q) = MarkedTerminal(b, q.rid, outcome)
       PROVE  /\ Good(Apply(b, q)[q.rid]) /\ UnreservedEmpty(Apply(b, q))
              /\ \A r \in Rids : r # q.rid => Apply(b, q)[r] = b[r]
  <2>1. PICK new : new = [rec EXCEPT !.state = outcome, !.remaining = Zero]
    OBVIOUS
  <2>2. Apply(b, q) = Put(b, q.rid, new)
    BY <1>2, <1>10, <2>1 DEF MarkedTerminal
  <2>3. Good(new)
    BY <1>2, <1>10, <2>1 DEF Records
  <2> HIDE DEF Good
  <2> QED  BY <1>4, <2>2, <2>3
<1>11. CASE q.op \in {"MARK_TERMINAL", "MARK_ZERO_WIRE_TERMINAL"}
  <2>1. \E outcome \in {"PROVEN_ABSENT", "REJECTED"} :
          Apply(b, q) = MarkedTerminal(b, q.rid, outcome)
    BY <1>11 DEF Apply
  <2> HIDE DEF Good
  <2>2. Good(Apply(b, q)[q.rid]) /\ UnreservedEmpty(Apply(b, q))
        /\ \A r \in Rids : r # q.rid => Apply(b, q)[r] = b[r]
    BY <1>10, <1>11, <2>1
  <2> QED  BY <1>2, <2>2 DEF Good
<1> QED  BY <1>1, <1>5, <1>6, <1>7, <1>8, <1>9, <1>11 DEF Ops
\* A plan of the present version holds what its request makes of the book.
PlansApply ==
  \A p \in Procs : plan[p] # NoRequest =>
    /\ plan[p].ver <= version
    /\ plan[p].ver = version =>
         /\ Touchable(book, plan[p].req)
         /\ plan[p].after = Apply(book, plan[p].req)

Balanced(b, lg) ==
  \A r \in Rids, x \in Resources :
    b[r].consumed[x] + LoggedIn(lg, r, RestoreOps, x) = LoggedIn(lg, r, UsageOps, x)

LedgerInv ==
  /\ IsFiniteSet(CommittedKeys(log))
  /\ UnreservedEmpty(book)
  /\ Balanced(book, log)
  /\ PlansApply

LEMMA InitLedger == Init => LedgerInv
<1> SUFFICES ASSUME Init PROVE LedgerInv
  OBVIOUS
<1>1. log \in Logs /\ CommittedKeys(log) = {}
  BY DEF Init, Logs, CommittedKeys
<1>2. IsFiniteSet(CommittedKeys(log))
  BY <1>1, FS_EmptySet
<1>3. ASSUME NEW r, NEW ops, NEW x PROVE LoggedIn(log, r, ops, x) = 0
  <2>1. KeysIn(log, r, ops) = {}
    BY <1>1 DEF KeysIn, CommittedKeys
  <2>2. PICK f : f = [k \in KeysIn(log, r, ops) |-> log[k].amounts[x]]
    OBVIOUS
  <2>3. LoggedIn(log, r, ops, x) = SumFunctionOnSet(f, {})
    BY <2>1, <2>2, SumOfFunction DEF LoggedIn
  <2> QED  BY <2>3, SumEmpty
<1>4. \A r \in Rids, x \in Resources : book[r].consumed[x] = 0
  BY DEF Init, EmptyBook, NoRecord, Zero
<1>5. UnreservedEmpty(book)
  BY DEF Init, EmptyBook, NoRecord, UnreservedEmpty
<1>6. Balanced(book, log)
  BY <1>3, <1>4 DEF Balanced
<1> QED  BY <1>2, <1>5, <1>6 DEF Init, LedgerInv, PlansApply

LEMMA CommitLedger ==
  ASSUME ConservedInv, LedgerInv, NEW p \in Procs, Commit(p)
  PROVE  LedgerInv'
<1>1. PICK k, q : k = plan[p].key /\ q = plan[p].req
  OBVIOUS
<1>2. k \in Keys /\ q \in Requests /\ version \in Nat /\ log \in Logs /\ book \in Books
  BY <1>1 DEF Commit, ConservedInv, TypeOK, Plans, Logs
<1>3. log[k] = NoRequest /\ log' = [log EXCEPT ![k] = q] /\ plan[p].ver = version
  BY <1>1 DEF Commit, CommitFits
<1>4. Touchable(book, q) /\ book' = Apply(book, q)
  BY <1>1, <1>3 DEF Commit, LedgerInv, PlansApply
<1>5. /\ IsFiniteSet(CommittedKeys(log))
      /\ UnreservedEmpty(book)
      /\ Balanced(book, log)
  BY DEF LedgerInv
<1>6. IsFiniteSet(CommittedKeys(log'))
  <2>1. CommittedKeys(log') \subseteq CommittedKeys(log) \cup {k}
    BY <1>2, <1>3 DEF CommittedKeys, Logs
  <2>2. IsFiniteSet(CommittedKeys(log) \cup {k})
    BY <1>5, FS_AddElement
  <2> QED  BY <2>1, <2>2, FS_Subset
<1>7. PICK c, mg : c = book' /\ mg = log'
  OBVIOUS
<1>8. /\ \A r \in Rids : r # q.rid => c[r] = book[r]
      /\ q.op \in UsageOps => c[q.rid].consumed = Plus(book[q.rid].consumed, q.amounts)
      /\ q.op \in RestoreOps => c[q.rid].consumed = Minus(book[q.rid].consumed, q.amounts)
      /\ q.op \notin UsageOps \cup RestoreOps => c[q.rid].consumed = book[q.rid].consumed
      /\ UnreservedEmpty(c)
  BY <1>2, <1>4, <1>5, <1>7, ConsumedBy
<1>9. ASSUME NEW r \in Rids, NEW x \in Resources
      PROVE  c[r].consumed[x] + LoggedIn(mg, r, RestoreOps, x) = LoggedIn(mg, r, UsageOps, x)
  <2>1. PICK u, v, w, n :
          /\ u = book[r].consumed[x] /\ v = LoggedIn(log, r, RestoreOps, x)
          /\ w = LoggedIn(log, r, UsageOps, x) /\ n = q.amounts[x]
    OBVIOUS
  <2>2. u \in Nat /\ v \in Nat /\ w \in Nat /\ n \in Nat /\ u + v = w
    <3>1. u \in Nat
      BY <1>2, <1>9, <2>1 DEF Books, Records, Amounts
    <3>2. n \in Nat
      BY <1>2, <1>9, <2>1, RequestFields DEF Amounts
    <3>3. v \in Nat /\ w \in Nat
      BY <1>2, <1>5, <1>9, <2>1, LoggedType
    <3> QED  BY <1>5, <1>9, <2>1, <3>1, <3>2, <3>3 DEF Balanced
  <2>3. /\ LoggedIn(mg, r, RestoreOps, x)
             = v + IF q.op \in RestoreOps /\ q.rid = r THEN n ELSE 0
        /\ LoggedIn(mg, r, UsageOps, x)
             = w + IF q.op \in UsageOps /\ q.rid = r THEN n ELSE 0
    <3>1. ASSUME NEW ops
          PROVE  LoggedIn(mg, r, ops, x) = LoggedIn(log, r, ops, x) + Share(q, r, ops, x)
      <4>1. PICK lg : lg = log
        OBVIOUS
      <4>2. lg \in Logs /\ IsFiniteSet(CommittedKeys(lg)) /\ lg[k] = NoRequest
            /\ Appended(lg, k, q, mg)
        BY <1>2, <1>3, <1>5, <1>7, <4>1 DEF Appended
      <4>3. LoggedIn(mg, r, ops, x) = LoggedIn(lg, r, ops, x) + Share(q, r, ops, x)
        BY <1>2, <1>9, <4>2, LoggedStep
      <4> QED  BY <4>1, <4>3
    <3> QED  BY <2>1, <3>1 DEF Share
  <2>4. CASE q.rid # r
    BY <1>8, <2>1, <2>2, <2>3, <2>4
  <2>5. CASE q.rid = r /\ q.op \in UsageOps
    <3>1. c[r].consumed[x] = u + n /\ q.op \notin RestoreOps
      BY <1>8, <2>1, <2>5 DEF Plus, UsageOps, RestoreOps
    <3> QED  BY <2>2, <2>3, <2>5, <3>1
  <2>6. CASE q.rid = r /\ q.op \in RestoreOps
    <3>1. c[r].consumed[x] = u - n /\ q.op \notin UsageOps
      BY <1>8, <2>1, <2>6 DEF Minus, UsageOps, RestoreOps
    <3> QED  BY <2>2, <2>3, <2>6, <3>1
  <2>7. CASE q.rid = r /\ q.op \notin UsageOps \cup RestoreOps
    BY <1>8, <2>1, <2>2, <2>3, <2>7
  <2> QED  BY <2>4, <2>5, <2>6, <2>7
<1>10. Balanced(book', log') /\ UnreservedEmpty(book')
  BY <1>7, <1>8, <1>9 DEF Balanced
<1>11. PlansApply'
  <2> SUFFICES ASSUME NEW s \in Procs, plan'[s] # NoRequest
               PROVE  plan'[s].ver <= version' /\ plan'[s].ver # version'
    BY DEF PlansApply
  <2>1. version' = version + 1
    BY DEF Commit
  <2>2. s # p /\ plan'[s] = plan[s]
    BY DEF Commit, ConservedInv, TypeOK
  <2>3. plan[s].ver <= version /\ plan[s].ver \in Nat
    BY <2>2 DEF ConservedInv, TypeOK, Plans, LedgerInv, PlansApply
  <2> QED  BY <1>2, <2>1, <2>2, <2>3
<1> QED  BY <1>6, <1>10, <1>11 DEF LedgerInv

LEMMA NextLedger ==
  ASSUME ConservedInv, LedgerInv, [Next]_vars
  PROVE  LedgerInv'
<1>1. ASSUME UNCHANGED bvars,
             \A s \in Procs : plan'[s] # NoRequest => plan'[s] = plan[s]
      PROVE  LedgerInv'
  <2>1. book' = book /\ log' = log /\ version' = version
    BY <1>1 DEF bvars
  <2>2. PlansApply'
    BY <1>1, <2>1 DEF LedgerInv, PlansApply
  <2> QED  BY <2>1, <2>2 DEF LedgerInv
<1>2. ASSUME NEW p \in Procs, NEW k \in Keys, NEW q \in Requests, Prepare(p, k, q)
      PROVE  LedgerInv'
  <2>1. book' = book /\ log' = log /\ version' = version /\ version \in Nat
    BY <1>2 DEF Prepare, bvars, ConservedInv, TypeOK
  <2>2. Touchable(book, q)
    <3>1. CASE q.op \in UsageOps
      BY <1>2, <3>1 DEF Prepare, Passes, ConsumePasses, FilledPasses, CanConsume,
                        Held, HeldStates, UsageOps, Touchable
    <3>2. CASE q.op \in RestoreOps
      BY <1>2, <3>2 DEF Prepare, Passes, RestorePasses, CanRestore,
                        HeldStates, RestoreOps, Touchable
    <3> QED  BY <3>1, <3>2 DEF Touchable
  <2>3. ASSUME NEW s \in Procs, plan'[s] # NoRequest
        PROVE  /\ plan'[s].ver <= version
               /\ plan'[s].ver = version =>
                    /\ Touchable(book, plan'[s].req)
                    /\ plan'[s].after = Apply(book, plan'[s].req)
    <3>1. CASE s = p
      <4>1. /\ plan'[s].ver = version /\ plan'[s].req = q
            /\ plan'[s].after = Apply(book, q)
        BY <1>2, <3>1 DEF Prepare, ConservedInv, TypeOK
      <4> QED  BY <2>1, <2>2, <4>1
    <3>2. CASE s # p
      <4>1. plan'[s] = plan[s]
        BY <1>2, <3>2 DEF Prepare, ConservedInv, TypeOK
      <4> QED  BY <2>3, <4>1 DEF LedgerInv, PlansApply
    <3> QED  BY <3>1, <3>2
  <2>4. PlansApply'
    BY <2>1, <2>3 DEF PlansApply
  <2> QED  BY <2>1, <2>4 DEF LedgerInv
<1>3. ASSUME NEW p \in Procs, Drop(p) PROVE LedgerInv'
  BY <1>1, <1>3 DEF Drop, ConservedInv, TypeOK
<1>4. ASSUME NEW a \in Attempts, NEW i \in Intents, PrepareAttempt(a, i)
      PROVE  LedgerInv'
  BY <1>1, <1>4 DEF PrepareAttempt
<1>5. ASSUME NEW a \in Attempts,
             BlockAttempt(a) \/ SendAttempt(a) \/ SettleAttempt(a)
             \/ LateUnknown(a) \/ ResolveAbsent(a)
      PROVE  LedgerInv'
  BY <1>1, <1>5
  DEF BlockAttempt, SendAttempt, SettleAttempt, LateUnknown, ResolveAbsent
<1>6. CASE UNCHANGED vars
  BY <1>1, <1>6 DEF vars
<1> QED  BY <1>2, <1>3, <1>4, <1>5, <1>6, CommitLedger DEF Next

(***************************************************************************)
(* What a reservation has consumed is what the committed fills and busts   *)
(* of the journal add up to, for any number of racing processes: none is   *)
(* lost and none applied twice (_commit, commit_command).                  *)
(***************************************************************************)
THEOREM LedgerAddsUp == Spec => []NothingLost
<1>1. LedgerInv => NothingLost
  BY DEF LedgerInv, Balanced, LoggedIn, KeysIn, NothingLost, Logged, LoggedKeys,
         UsageOps, RestoreOps
<1>2. ConservedInv /\ LedgerInv /\ [Next]_vars => LedgerInv'
  BY NextLedger
<1>3. ConservedInv /\ [Next]_vars => ConservedInv'
  BY NextConserved
<1> QED  BY InitConserved, InitLedger, <1>1, <1>2, <1>3, PTL DEF Spec

=============================================================================
