--------------------------- MODULE MCBridgeFanOut ---------------------------
(* Small instances of BridgeFanOut for TLC. *)
EXTENDS BridgeFanOut, TLC

\* Guests with the same access are interchangeable.
Symmetry == Permutations(Viewers) \cup Permutations(Guests \ Viewers)
=============================================================================
