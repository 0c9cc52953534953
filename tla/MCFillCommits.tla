--------------------------- MODULE MCFillCommits ---------------------------
\* Instances of FillCommits for TLC.
EXTENDS FillCommits, TLC

CONSTANTS o1, f1, f2, f3, f4, e1, e2

\* Two fills complete the order and leave a part of the envelope unused.
MCFills ==
  {[op |-> "FILL", order |-> o1, exec |-> e1, of |-> None, fid |-> f1, qty |-> 1, cost |-> 2],
   [op |-> "FILL", order |-> o1, exec |-> e2, of |-> None, fid |-> f2, qty |-> 1, cost |-> 2]}

\* The first is corrected to less and then to more, or at once to more.
MCCorrections ==
  {[op |-> "CORRECT", order |-> o1, exec |-> e1, of |-> f1, fid |-> f3, qty |-> 1, cost |-> 1],
   [op |-> "CORRECT", order |-> o1, exec |-> e1, of |-> f3, fid |-> f4, qty |-> 1, cost |-> 3]}

Sym == Permutations(Procs)

=============================================================================
