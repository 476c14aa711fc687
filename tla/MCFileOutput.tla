---------------------------- MODULE MCFileOutput ----------------------------
(* Which records Assemble accepts: all (an http request each), or not the    *)
(* second (say, a response).                                                 *)
EXTENDS FileOutputProperties

\* No property tells the writers apart.
Interchangeable == Permutations(Writers)

Requests(r) == TRUE
NotSecond(r) == r # 2
=============================================================================
