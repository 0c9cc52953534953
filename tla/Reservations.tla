---------------------------- MODULE Reservations ----------------------------
(***************************************************************************)
(* ReservationBook of mvp/autotrade_mvp/reservations.py: what each of its  *)
(* operations does to a book, a function from reservation ids to records.  *)
(* Modules that keep a book in a variable apply these operators to it.     *)
(*                                                                         *)
(* An amount map is a function on all resources in which 0 stands for a    *)
(* resource that the map does not name: requirements and usages are        *)
(* positive where they are given, and a resource without availability      *)
(* evidence admits nothing. Decimals are naturals (the code only adds,     *)
(* subtracts and compares them, exactly).                                  *)
(***************************************************************************)
EXTENDS Naturals, FiniteSets, FiniteSetsExt

CONSTANTS
  Rids,       \* reservation_id values
  Intents,    \* intent_id values
  NoIntent,
  Resources   \* CASH:USD, MARGIN_CREDIT:..., BORROW:...

ASSUME NoIntentAssumption == NoIntent \notin Intents

Amounts == [Resources -> Nat]

Zero == [x \in Resources |-> 0]

HeldStates == {"WORKING", "UNKNOWN", "BUSTED"}

TerminalStates == {"FILLED", "CANCELED", "REJECTED", "PROVEN_ABSENT"}

Records == [state : HeldStates \cup TerminalStates \cup {"None"},
            intent : Intents \cup {NoIntent},
            original : Amounts, remaining : Amounts, consumed : Amounts]

NoRecord == [state |-> "None", intent |-> NoIntent, original |-> Zero,
             remaining |-> Zero, consumed |-> Zero]

Books == [Rids -> Records]

EmptyBook == [r \in Rids |-> NoRecord]

Held(b, r) == b[r].state \in HeldStates

Plus(f, g) == [x \in Resources |-> f[x] + g[x]]

Minus(f, g) == [x \in Resources |-> f[x] - g[x]]

AtMost(f, g) == \A x \in Resources : f[x] <= g[x]

Put(b, r, rec) == [b EXCEPT ![r] = rec]

-----------------------------------------------------------------------------
\* total_reserved: what is still held of a resource.
TotalReserved(b, x) ==
  MapThenSumSet(LAMBDA r : b[r].remaining[x], {r \in Rids : Held(b, r)})

\* The whole requirement fits beside everything that is held.
Fits(b, needed, available) ==
  \A x \in Resources :
    needed[x] > 0 => TotalReserved(b, x) + needed[x] <= available[x]

\* reserve: an intent gets one reservation, for ever. The same reservation id
\* with the same content is a no-op.
CanReserve(b, r, i, needed, available) ==
  IF b[r].state # "None"
  THEN b[r].intent = i /\ b[r].original = needed
  ELSE /\ \A q \in Rids : b[q].intent # i
       /\ Fits(b, needed, available)

Reserved(b, r, i, needed) ==
  IF b[r].state # "None" THEN b
  ELSE Put(b, r, [state |-> "WORKING", intent |-> i, original |-> needed,
                  remaining |-> needed, consumed |-> Zero])

\* Mutant: what remains is not checked.
CanConsumeAnything(b, r, usage) == Held(b, r)

\* consume
CanConsume(b, r, usage) == Held(b, r) /\ AtMost(usage, b[r].remaining)

Consumed(b, r, usage) ==
  Put(b, r, [b[r] EXCEPT !.remaining = Minus(b[r].remaining, usage),
                         !.consumed = Plus(b[r].consumed, usage)])

\* consume_and_mark_filled: consume, then release what the order cannot use.
Filled(b, r, usage) ==
  Put(b, r, [b[r] EXCEPT !.state = "FILLED", !.remaining = Zero,
                         !.consumed = Plus(b[r].consumed, usage)])

\* restore_consumption
CanRestore(b, r, usage) ==
  /\ b[r].state \in HeldStates \cup {"FILLED", "CANCELED"}
  /\ AtMost(usage, b[r].consumed)
  /\ b[r].state # "CANCELED" =>
       AtMost(Plus(b[r].remaining, usage), b[r].original)

\* Mutant: a bust holds again only what the busted fill had used.
RestoredNarrowly(b, r, usage) ==
  Put(b, r, [b[r] EXCEPT !.state = IF @ = "FILLED" THEN "BUSTED" ELSE @,
                         !.consumed = Minus(b[r].consumed, usage),
                         !.remaining = Plus(b[r].remaining, usage)])

\* A bust after FILLED holds again all that is not consumed, the buffer that
\* FILLED released included; after CANCELED nothing is held again.
Restored(b, r, usage) ==
  LET consumed == Minus(b[r].consumed, usage) IN
  Put(b, r,
      CASE b[r].state = "FILLED" ->
             [b[r] EXCEPT !.state = "BUSTED", !.consumed = consumed,
                          !.remaining = Minus(b[r].original, consumed)]
        [] b[r].state = "CANCELED" -> [b[r] EXCEPT !.consumed = consumed]
        [] OTHER -> [b[r] EXCEPT !.consumed = consumed,
                                 !.remaining = Plus(b[r].remaining, usage)])

\* mark_unknown
CanMarkUnknown(b, r) == b[r].state \in {"WORKING", "UNKNOWN"}

MarkedUnknown(b, r) == Put(b, r, [b[r] EXCEPT !.state = "UNKNOWN"])

\* mark_terminal, for the two outcomes that say nothing was executed. A
\* reservation that already has the outcome is left alone.
CanMarkTerminal(b, r, outcome) ==
  /\ b[r].consumed = Zero
  /\ Held(b, r) \/ b[r].state = outcome

MarkedTerminal(b, r, outcome) ==
  Put(b, r, [b[r] EXCEPT !.state = outcome, !.remaining = Zero])

=============================================================================
