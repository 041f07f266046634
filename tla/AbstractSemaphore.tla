-------------------------- MODULE AbstractSemaphore --------------------------
(***************************************************************************)
(* What semaphore.h promises: a number of permits.  A wait takes one, and  *)
(* waits until there is one to take; a signal adds one.                    *)
(***************************************************************************)
EXTENDS Naturals

CONSTANTS Thread, Semaphore, InitialValue

VARIABLES permits,      \* of each semaphore
          waiting,      \* the semaphore each thread wants a permit of, as a set
          signalling    \* the semaphore each thread has yet to signal, as a set

vars == <<permits, waiting, signalling>>

Init ==
  /\ permits = InitialValue
  /\ waiting = [t \in Thread |-> {}]
  /\ signalling = [t \in Thread |-> {}]

CallWait(t, s) ==
  /\ waiting[t] \cup signalling[t] = {}
  /\ waiting' = [waiting EXCEPT ![t] = {s}]
  /\ UNCHANGED <<permits, signalling>>

CallSignal(t, s) ==
  /\ waiting[t] \cup signalling[t] = {}
  /\ signalling' = [signalling EXCEPT ![t] = {s}]
  /\ UNCHANGED <<permits, waiting>>

Acquire(t, s) ==
  /\ s \in waiting[t]
  /\ permits[s] > 0
  /\ permits' = [permits EXCEPT ![s] = @ - 1]
  /\ waiting' = [waiting EXCEPT ![t] = {}]
  /\ UNCHANGED signalling

Release(t, s) ==
  /\ s \in signalling[t]
  /\ permits' = [permits EXCEPT ![s] = @ + 1]
  /\ signalling' = [signalling EXCEPT ![t] = {}]
  /\ UNCHANGED waiting

Next == \E t \in Thread, s \in Semaphore :
          CallWait(t, s) \/ CallSignal(t, s) \/ Acquire(t, s) \/ Release(t, s)

Spec == Init /\ [][Next]_vars

=============================================================================
