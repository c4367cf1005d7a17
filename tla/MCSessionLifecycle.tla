------------------------- MODULE MCSessionLifecycle -------------------------
(* Small instances of SessionLifecycle for TLC. *)
EXTENDS SessionLifecycle, TLC

\* Sessions, requests, and hosts and guests of one kind are interchangeable.
Symmetry ==
  Permutations(Sessions) \cup Permutations(Requests)
  \cup Permutations(Encrypting) \cup Permutations(Hosts \ Encrypting)
  \cup Permutations(SshGuests) \cup Permutations(Guests \ SshGuests)
=============================================================================
