------------------------- MODULE StateQueuePromise -------------------------
(***************************************************************************)
(* What a StateQueue promises its two threads (fastpath/StateQueue.h): the *)
(* observer takes up every state that was pushed, in the order of the      *)
(* pushes, and neither its current state nor the one before changes under  *)
(* its eyes.                                                               *)
(***************************************************************************)
CONSTANTS States, Initial

VARIABLES
    pushed,    \* the state pushed last
    current,   \* the state the observer works with
    previous   \* the one it worked with before

vars == <<pushed, current, previous>>

Init == pushed = Initial /\ current = Initial /\ previous = Initial

(* A push waits until the one before it has been taken up. *)
Push ==
    /\ current = pushed
    /\ pushed' \in States
    /\ UNCHANGED <<current, previous>>

Poll ==
    /\ previous' = current /\ current' = pushed
    /\ UNCHANGED pushed

Next == Push \/ Poll
Spec == Init /\ [][Next]_vars
=============================================================================
