---------------------------- MODULE MCVirtualMem ----------------------------
(* Three pages of which two may be resident, and ages of two bits. *)
EXTENDS VirtualMem

CONSTANTS p1, p2, p3, a, b

MCPage == {p1, p2, p3}
MCValue == {a, b}

\* Every page is read and written; p1 is also written back to what it held at
\* first.
MCProgram ==
  [kind : {"read"}, page : MCPage, value : {a}]
    \cup [kind : {"write"}, page : MCPage, value : {b}]
    \cup [kind : {"write"}, page : {p1}, value : {a}]

=============================================================================
