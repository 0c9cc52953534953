--------------------------- MODULE MCReservations ---------------------------
\* Instances of DurableReservations for TLC.
EXTENDS DurableReservations, TLC

CONSTANTS cash, margin

\* An order that needs both resources, and a smaller one.
Both == [x \in Resources |-> IF x = cash THEN 2 ELSE 1]
CashOnly == [x \in Resources |-> IF x = cash THEN 1 ELSE 0]
Plenty == [x \in Resources |-> 2]

OneRequirement == {Both}
TwoRequirements == {Both, CashOnly}
OneOffer == {Plenty}
OneUsage == {CashOnly}

Sym == Permutations(Procs) \cup Permutations(Keys)
       \cup Permutations(Rids) \cup Permutations(Intents)
       \cup Permutations(Attempts)

=============================================================================
