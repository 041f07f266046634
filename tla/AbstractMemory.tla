--------------------------- MODULE AbstractMemory ---------------------------
(***************************************************************************)
(* What the virtual memory of lab08 promises to the program: an array of   *)
(* pages.  An access asked for is performed at some later time, in one     *)
(* step, on what the last write left there.                                *)
(***************************************************************************)
CONSTANTS Page, Value, Zero, NoAccess

VARIABLES mem,          \* what each page holds
          access,       \* the access in progress, or NoAccess
          loaded        \* what the last access returned, Zero until it does

vars == <<mem, access, loaded>>

Access == [kind : {"read", "write"}, page : Page, value : Value]

Init ==
  /\ mem = [p \in Page |-> Zero]
  /\ access = NoAccess
  /\ loaded = Zero

Ask ==
  /\ access = NoAccess
  /\ access' \in Access
  /\ loaded' = Zero
  /\ UNCHANGED mem

Read ==
  /\ access # NoAccess
  /\ access.kind = "read"
  /\ loaded' = mem[access.page]
  /\ access' = NoAccess
  /\ UNCHANGED mem

Write ==
  /\ access # NoAccess
  /\ access.kind = "write"
  /\ mem' = [mem EXCEPT ![access.page] = access.value]
  /\ access' = NoAccess
  /\ UNCHANGED loaded

Next == Ask \/ Read \/ Write

Spec == Init /\ [][Next]_vars

=============================================================================
