------------------------------- MODULE Replay -------------------------------
(* What replaying recorded files promises: of the records that come next in  *)
(* their files, one with the least time stamp is given; when all were given, *)
(* and the files are to be looped, it begins anew.                           *)
EXTENDS Naturals, Sequences

VARIABLES
    files,  \* the files, each as the list of its time stamps
    loop,   \* are they looped
    given,  \* how many records of each file were given in this pass
    out     \* the records given so far, as pairs of a file and a place in it

vars == <<files, loop, given, out>>

Init ==
    /\ given = [f \in DOMAIN files |-> 0]
    /\ out = <<>>

Left == {f \in DOMAIN files : given[f] < Len(files[f])}
NextOf(f) == files[f][given[f] + 1]

Give(f) ==
    /\ f \in Left
    /\ \A g \in Left : NextOf(f) <= NextOf(g)
    /\ given' = [given EXCEPT ![f] = @ + 1]
    /\ out' = Append(out, <<f, given'[f]>>)
    /\ UNCHANGED <<files, loop>>

BeginAnew ==
    /\ loop /\ Left = {}
    /\ given' = [f \in DOMAIN files |-> 0]
    /\ UNCHANGED <<files, loop, out>>

Next == BeginAnew \/ \E f \in DOMAIN files : Give(f)

Spec == Init /\ [][Next]_vars
=============================================================================
