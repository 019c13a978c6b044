--------------------------- MODULE MC_ErrorState ---------------------------
(* ErrorState with two codes, one errno and one site: enough to tell an    *)
(* error from the one that replaces it and from the same error traced.     *)
EXTENDS ErrorState
CONSTANTS e1, e2, s1
Codes == {e1, e2}
OsCodes == {2}
Sites == {s1}
Documents == {[err |-> e2, oserr |-> 2, strace |-> <<s1, s1>>]}
=============================================================================
