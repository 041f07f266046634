--------------------------- MODULE MCBoundedBuffer ---------------------------
(* The two producers and the consumer of fibtest.c. *)
EXTENDS BoundedBuffer

CONSTANTS p1, p2, c1, e1, e2

MCProducer == {p1, p2}
MCConsumer == {c1}
MCThread == MCProducer \cup MCConsumer
MCElement == {e1, e2}
MCSemaphoreSet == {space, items, mutex}
MCInitialValue == [s \in MCSemaphoreSet |->
  CASE s = space -> Length [] s = items -> 0 [] s = mutex -> 1]

=============================================================================
