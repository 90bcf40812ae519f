--------------------------- MODULE MCVMLifecycle ---------------------------
(* Model-checking instance of VMLifecycle. *)
EXTENDS VMLifecycle, TLC

\* Requests are served by interchangeable goroutines.
HandlerSymmetry == Permutations(Handlers)
=============================================================================
