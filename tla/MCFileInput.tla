---------------------------- MODULE MCFileInput ----------------------------
(* Small sets of files for FileInput.                                       *)
EXTENDS FileInputProperties

Setup(files, unreadable, malformed, loop, percent) ==
    [files |-> files, unreadable |-> unreadable, damaged |-> {}, malformed |-> malformed,
     loop |-> loop, percent |-> percent]

\* Three files whose records interleave, with equal time stamps, one of them empty; the
\* first record of the second was completed late; files without records; one that
\* cannot be opened between two others; and one with a record that has no time stamp
FileSets == {<<<<1, 3, 6>>, <<4, 2>>, <<>>>>, <<<<>>, <<>>>>}
Limits == {100, 50, 200, 0}
MCSetups ==
    {Setup(files, {}, {}, loop, percent) : files \in FileSets, loop \in BOOLEAN, percent \in Limits}
    \cup {Setup(<<<<1, 4>>, <<2>>, <<3>>>>, {2}, {}, loop, 100) : loop \in BOOLEAN}
    \cup {Setup(<<<<1, 2>>, <<1>>>>, {}, {<<1, 2>>}, TRUE, 100)}

\* A gzip file whose end is missing, next to one that is whole
DamagedSetups ==
    {[files |-> <<<<1>>, <<2>>>>, unreadable |-> {}, damaged |-> {1}, malformed |-> {},
      loop |-> FALSE, percent |-> 100]}
=============================================================================
