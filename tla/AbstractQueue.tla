---------------------------- MODULE AbstractQueue -----------------------------
(* What the queues of lab07 and lab08 do for their clients, without nodes and *)
(* links: a sequence, and one piece of memory for each of its elements.       *)
EXTENDS SequencesExt

CONSTANTS Items, Nil

VARIABLES
    queue,
    empty,      \* what queue_empty says
    memory,     \* how many nodes are allocated
    answer,     \* what the last operation returned
    status      \* "live", "cleared", or "aborted" for want of memory

vars == <<queue, empty, memory, answer, status>>

Becomes(q) == /\ queue' = q
              /\ empty' = (q = <<>>)
              /\ memory' = Len(q)

Put(x) == Becomes(Append(queue, x)) /\ UNCHANGED <<answer, status>>

Take == IF queue = <<>> THEN answer' = Nil /\ UNCHANGED <<queue, empty, memory, status>>
        ELSE answer' = Head(queue) /\ Becomes(Tail(queue)) /\ UNCHANGED status

Delete(x) == /\ Becomes(RemoveFirst(queue, x))
             /\ answer' = IF Contains(queue, x) THEN 1 ELSE 0
             /\ UNCHANGED status

Clear == Becomes(<<>>) /\ status' = "cleared" /\ UNCHANGED answer

Abort == status' = "aborted" /\ UNCHANGED <<queue, empty, memory, answer>>

Init == /\ queue = <<>> /\ empty = TRUE /\ memory = 0
        /\ answer = Nil
        /\ status = "live"

Next == /\ status = "live"
        /\ \/ Take \/ Clear \/ Abort
           \/ \E x \in Items : Put(x) \/ Delete(x)

Spec == Init /\ [][Next]_vars
=============================================================================
