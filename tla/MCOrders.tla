------------------------------ MODULE MCOrders ------------------------------
\* Instances of DurableOrders for TLC.
EXTENDS DurableOrders, TLC

Sym == Permutations(Keys)
       \cup Permutations(FillIds) \cup Permutations(Executions)
       \cup Permutations(Revisions) \cup Permutations(Commands)

=============================================================================
