----------------------------- MODULE Lifecycle -----------------------------
(* How an input that captures several interfaces ends, as its user sees it:  *)
(* interfaces are lost one by one, and the input goes on with those that are *)
(* left.  It is closed when its user closes it, or by itself when none is    *)
(* left; only then is it no longer read; and it is never open again.         *)
CONSTANT
    Devices   \* the interfaces

VARIABLES
    active,   \* the interfaces still captured
    wanted,   \* did the user close the input
    closed,   \* is it closed
    served    \* is it still read

vars == <<active, wanted, closed, served>>

Init ==
    /\ active \in (SUBSET Devices) \ {{}}
    /\ wanted = FALSE /\ closed = FALSE /\ served = TRUE

\* An interface fails, or is given up after the input was closed
Lose(d) ==
    /\ active' = active \ {d}
    /\ UNCHANGED <<wanted, closed, served>>

CloseByUser ==
    /\ ~wanted
    /\ wanted' = TRUE /\ closed' = TRUE
    /\ UNCHANGED <<active, served>>

CloseByItself ==
    /\ active = {}
    /\ closed' = TRUE
    /\ UNCHANGED <<active, wanted, served>>

StopServing ==
    /\ closed
    /\ served' = FALSE
    /\ UNCHANGED <<active, wanted, closed>>

Next == (\E d \in Devices : Lose(d)) \/ CloseByUser \/ CloseByItself \/ StopServing

Spec == Init /\ [][Next]_vars
=============================================================================
