--------------------------- MODULE MCControlPlane ---------------------------
(* Model-checking instances of ControlPlane.                               *)
EXTENDS ControlPlane, TLC

\* Callers and message ids are interchangeable.
PlaneSymmetry == Permutations(Clients) \cup Permutations(Messages)
=============================================================================
