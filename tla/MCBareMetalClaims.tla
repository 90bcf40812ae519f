------------------------- MODULE MCBareMetalClaims -------------------------
(* Model-checking instance of BareMetalClaims. *)
EXTENDS BareMetalClaims, FiniteSets, TLC

\* Requests are served by interchangeable goroutines.
HandlerSymmetry == Permutations(Handlers)
=============================================================================
