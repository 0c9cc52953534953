----------------------------- MODULE MCDispatch -----------------------------
(* Small instances of Dispatch for TLC. *)
EXTENDS Dispatch, TLC

\* Calls, attempts and intents are interchangeable.
Sym == Permutations(Calls) \cup Permutations(Attempts) \cup Permutations(Intents)

=============================================================================
