----------------------------- MODULE MCSemaphore -----------------------------
(* Four threads on one semaphore: two that sleep, one that signals and one
   that comes in between. *)
EXTENDS Semaphore

CONSTANTS t1, t2, t3, t4, s1

MCThread == {t1, t2, t3, t4}
MCSemaphoreSet == {s1}
MCInitialValue == [s \in MCSemaphoreSet |-> 1]

=============================================================================
