------------------------------ MODULE Replica ------------------------------
(***************************************************************************)
(* What the updates engine of a client promises: a replica of the log of   *)
(* events of the server.  It may see events early, twice or out of order,  *)
(* and it may be late; but its position, the number from which it will ask *)
(* the server for what it has missed, never goes back and never passes an  *)
(* event that it has not seen.                                             *)
(***************************************************************************)
EXTENDS Naturals

CONSTANT Event,         \* the events the log may hold
         NumberOf(_)    \* the number of the last position an event takes

VARIABLES produced,     \* the events in the log of the server
          seen,         \* the events the client has applied
          position      \* how far the client is sure to be complete

vars == <<produced, seen, position>>

Init == produced = {} /\ seen = {} /\ position = 0

Produce == /\ \E e \in Event \ produced : produced' = produced \cup {e}
           /\ UNCHANGED <<seen, position>>

See == /\ seen' \subseteq produced
       /\ seen \subseteq seen'
       /\ position' >= position
       /\ \A e \in produced : NumberOf(e) <= position' => e \in seen'
       /\ UNCHANGED produced

Spec == Init /\ [][Produce \/ See]_vars
=============================================================================
