----------------------------- MODULE Reassembly -----------------------------
(***************************************************************************)
(* What the reassembly of captured traffic promises, whatever the order in *)
(* which segments arrive and however often each one does: a recording is   *)
(* one HTTP message of the wire, its segments from the first to the one it *)
(* ends with in their order, and rests on captures of its own of every     *)
(* segment.  A message ends with its last segment, or earlier where a      *)
(* segment cannot be told from one that ends a message.                    *)
(***************************************************************************)
EXTENDS Naturals, Sequences, FiniteSets, SequencesExt

CONSTANTS
    Wire,    \* the segments
    Parts,   \* the HTTP messages on the wire, each as the list of its segments
    Ends     \* the segments that look like the end of their message

VARIABLES
    copies,  \* [Wire -> how often it was captured]
    out      \* the recordings so far

vars == <<copies, out>>

Init ==
    /\ copies = [w \in Wire |-> 0]
    /\ out = <<>>

Capture(w) ==
    /\ copies' = [copies EXCEPT ![w] = @ + 1]
    /\ UNCHANGED out

\* How many recordings the segment is part of
Holding(w) == Cardinality({i \in DOMAIN out : w \in ToSet(out[i])})

Record(x, n) ==
    /\ n = Len(Parts[x]) \/ Parts[x][n] \in Ends
    /\ \A i \in 1..n : Holding(Parts[x][i]) < copies[Parts[x][i]]
    /\ out' = Append(out, SubSeq(Parts[x], 1, n))
    /\ UNCHANGED copies

Next ==
    \/ \E w \in Wire : Capture(w)
    \/ \E x \in DOMAIN Parts : \E n \in DOMAIN Parts[x] : Record(x, n)

Spec == Init /\ [][Next]_vars
=============================================================================
