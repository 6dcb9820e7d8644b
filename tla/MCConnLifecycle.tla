--------------------------- MODULE MCConnLifecycle ---------------------------
(* Instances of ConnLifecycle for TLC. *)
EXTENDS ConnLifecycle, TLC

(* Descriptors are interchangeable. *)
Symmetry == Permutations(Sfds)

=============================================================================
