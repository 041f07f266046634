--------------------------- MODULE AbstractBuffer ---------------------------
(***************************************************************************)
(* What bounded_buffer.h promises: a queue of at most `Length` elements.   *)
(* A producer adds at the end, a consumer takes from the front.            *)
(***************************************************************************)
EXTENDS Naturals, Sequences

CONSTANTS Producer, Consumer, Element, EMPTY, Length

VARIABLES queue,        \* the elements in the buffer
          elem          \* the element each thread adds, or has taken

vars == <<queue, elem>>

Init ==
  /\ queue = <<>>
  /\ elem = [t \in Producer \cup Consumer |-> EMPTY]

Make(p) ==
  /\ \E e \in Element : elem' = [elem EXCEPT ![p] = e]
  /\ UNCHANGED queue

Add(p) ==
  /\ elem[p] \in Element
  /\ Len(queue) < Length
  /\ queue' = Append(queue, elem[p])
  /\ elem' = [elem EXCEPT ![p] = EMPTY]

Take(c) ==
  /\ queue # <<>>
  /\ elem' = [elem EXCEPT ![c] = Head(queue)]
  /\ queue' = Tail(queue)

Next ==
  \/ \E p \in Producer : Make(p) \/ Add(p)
  \/ \E c \in Consumer : Take(c)

Spec == Init /\ [][Next]_vars

=============================================================================
