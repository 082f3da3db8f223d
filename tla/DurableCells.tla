---------------------------- MODULE DurableCells ----------------------------
(***************************************************************************)
(* What the local storage of a client promises.  A cell is a name with a   *)
(* value; values are numbered in the order they are written.  What a       *)
(* reader finds is always complete, only moves forward, and is the latest  *)
(* value written once a synchronous write has returned; a crash forgets    *)
(* what was written and not yet durable, and nothing else.                 *)
(*                                                                         *)
(* One operation on the disk may fail without any of this being lost, but  *)
(* for a cell in an Old form.  After another one a cell may be broken:     *)
(* nothing is promised for it until its latest value is durable again.     *)
(***************************************************************************)
EXTENDS Naturals

CONSTANTS Cell,         \* the names
          Old           \* those in a form that a failure may break

VARIABLES written,      \* the last value handed to the storage
          durable,      \* the value that would be read from the disk, 0 if none
          confirmed,    \* the last value whose durability was reported
          broken,       \* the cells for which nothing is promised
          failures      \* the operations on the disk that have failed

vars == <<written, durable, confirmed, broken, failures>>

Init == /\ written \in [Cell -> Nat \ {0}]
        /\ durable = written /\ confirmed = written
        /\ broken = {} /\ failures = 0

Write(c) == /\ written'[c] > written[c]
            /\ written' = [written EXCEPT ![c] = written'[c]]
            /\ UNCHANGED <<durable, confirmed, broken, failures>>

Flush(c) == /\ c \notin broken
            /\ durable'[c] > durable[c] /\ durable'[c] <= written[c]
            /\ durable' = [durable EXCEPT ![c] = durable'[c]]
            /\ UNCHANGED <<written, confirmed, broken, failures>>

(* What is reported for broken cells means nothing.                        *)
Confirm(C) == /\ \A c \in C \ broken : durable[c] = written[c]
              /\ \A c \in Cell \ broken :
                   confirmed'[c] = IF c \in C THEN durable[c] ELSE confirmed[c]
              /\ UNCHANGED <<written, durable, broken, failures>>

Crash == written' = durable /\ UNCHANGED <<durable, confirmed, broken, failures>>

Fail == failures' = failures + 1 /\ UNCHANGED <<written, durable, confirmed, broken>>

(* A cell breaks, or what is found in a broken one changes.                *)
Break(c) == /\ failures' \in {failures, failures + 1}
            /\ failures' > 1 \/ (failures' = 1 /\ c \in Old)
            /\ broken' = broken \cup {c}
            /\ durable' = [durable EXCEPT ![c] = durable'[c]]
            /\ UNCHANGED <<written, confirmed>>

Mend(c) == /\ c \in broken /\ broken' = broken \ {c}
           /\ durable' = [durable EXCEPT ![c] = written[c]]
           /\ UNCHANGED <<written, confirmed, failures>>

Next == \/ \E c \in Cell : Write(c) \/ Flush(c) \/ Break(c) \/ Mend(c)
        \/ \E C \in SUBSET Cell : Confirm(C)
        \/ Crash \/ Fail

Spec == Init /\ [][Next]_vars
=============================================================================
