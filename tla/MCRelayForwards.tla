-------------------------- MODULE MCRelayForwards --------------------------
(* Small instances of RelayForwards for TLC. *)
EXTENDS RelayForwards, TLC

\* Guests are interchangeable when none of them is a viewer.
Symmetry == Permutations(Guests \ Viewers)
=============================================================================
