----------------------------- MODULE MCAuthority -----------------------------
(* TLC instances of the operator's commands over the authority service.    *)
EXTENDS OperatorCommands

CONSTANT Later    \* policies whose valid_from is not the first instant

AllButTheFirst == [p \in Policies |-> IF p \in Later THEN Times \ {0} ELSE Times]
=============================================================================
