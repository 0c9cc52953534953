----------------------------- MODULE MCRecovery -----------------------------
\* Instances of Recovery for TLC.
EXTENDS Recovery, TLC

\* Attempts are interchangeable in safety runs.
Sym == Permutations(Attempts)

=============================================================================
