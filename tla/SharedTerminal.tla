--------------------------- MODULE SharedTerminal ---------------------------
(***************************************************************************)
(* What the relay promises the guests of one session: a terminal that one   *)
(* host writes and every guest watches.  A guest may start watching         *)
(* anywhere in what was said so far; from there it sees everything, in      *)
(* order; and if it is told of the end, it has seen all of it.              *)
(***************************************************************************)
EXTENDS Naturals

CONSTANT Guests

VARIABLES
  said,   \* number of pieces of output so far
  open,   \* the host has not ended the session
  view,   \* guest -> the first and the last piece it was shown, 0 if none
  told    \* guest -> it was shown the end

vars == <<said, open, view, told>>

Init ==
  /\ said = 0
  /\ open = TRUE
  /\ view = [g \in Guests |-> [from |-> 0, to |-> 0]]
  /\ told = [g \in Guests |-> FALSE]

Say ==
  /\ open
  /\ said' = said + 1
  /\ UNCHANGED <<open, view, told>>

End ==
  /\ open
  /\ open' = FALSE
  /\ UNCHANGED <<said, view, told>>

StartWatching(g) ==
  /\ view[g].to = 0
  /\ ~told[g]
  /\ \E n \in 1..said : view' = [view EXCEPT ![g] = [from |-> n, to |-> n]]
  /\ UNCHANGED <<said, open, told>>

Show(g) ==
  /\ view[g].to # 0
  /\ ~told[g]
  /\ view[g].to < said
  /\ view' = [view EXCEPT ![g].to = @ + 1]
  /\ UNCHANGED <<said, open, told>>

Tell(g) ==
  /\ ~open
  /\ ~told[g]
  /\ view[g].to = said
  /\ told' = [told EXCEPT ![g] = TRUE]
  /\ UNCHANGED <<said, open, view>>

Next == Say \/ End \/ \E g \in Guests : StartWatching(g) \/ Show(g) \/ Tell(g)

Spec == Init /\ [][Next]_vars
=============================================================================
