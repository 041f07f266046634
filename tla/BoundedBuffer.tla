---------------------------- MODULE BoundedBuffer ----------------------------
(***************************************************************************)
(* bounded_buffer.c of lab07 with the threads of fibtest.c: producers that *)
(* add for ever and consumers that take for ever, over Semaphore and the   *)
(* preemptive Scheduler.                                                   *)
(*                                                                         *)
(* stage[t] is where thread t is in bounded_buffer_add or _take while it   *)
(* is outside the semaphore code; while it is inside, it is the stage at   *)
(* which the call returns.                                                 *)
(***************************************************************************)
EXTENDS Semaphore

CONSTANTS Producer, Consumer,
          Element,              \* what producers put in the buffer
          EMPTY,                \* -1 in a slot
          Length,               \* the argument of new_bounded_buffer
          space, items, mutex   \* space_avail, elem_take and mutex

\* Each thread of fibtest.c runs producer() or consumer(), and there are some of
\* both.
ASSUME ThreadAssumption ==
  /\ Thread = Producer \cup Consumer
  /\ Producer \cap Consumer = {}
  /\ Producer # {} /\ Consumer # {}
ASSUME ElementAssumption == EMPTY \notin Element
ASSUME LengthAssumption == Length \in Nat \ {0}
ASSUME SemaphoreAssumption ==
  /\ Semaphore = {space, items, mutex}
  /\ space # items /\ items # mutex /\ mutex # space
  /\ InitialValue = [s \in Semaphore |->
       CASE s = space -> Length [] s = items -> 0 [] s = mutex -> 1]

VARIABLES buffer, first, count,
          stage,        \* where each thread is
          elem          \* its local BufferElem

bufferVars == <<buffer, first, count>>
allVars == <<vars, bufferVars, stage, elem>>

Stage == {"outside", "waited", "entered", "written", "copied", "cleared",
          "uncounted", "finished", "left"}

\* new_bounded_buffer, and the threads of main().
BufferInit ==
  /\ Init
  /\ buffer = [i \in 0..(Length - 1) |-> EMPTY]
  /\ first = 0
  /\ count = 0
  /\ stage = [t \in Thread |-> "outside"]
  /\ elem = [t \in Thread |-> EMPTY]

\* Thread t is at this stage and outside the semaphore code.
AtStage(t, s) == At(t, "user") /\ stage[t] = s

Advance(t, s) == stage' = [stage EXCEPT ![t] = s]

-----------------------------------------------------------------------------
\* Calls of the semaphores, common to add and take: first the one that counts
\* what the thread needs, then the mutex; afterwards the mutex, then the one
\* that counts what the thread has made.
Makes(t) == IF t \in Producer THEN items ELSE space

\* A producer has made an element, and waits for space.
EnterAdd(p) ==
  /\ p \in Producer
  /\ AtStage(p, "outside")
  /\ WaitLock(p, space)
  /\ Advance(p, "waited")
  /\ \E e \in Element : elem' = [elem EXCEPT ![p] = e]
  /\ UNCHANGED bufferVars

\* A consumer waits for an element.
EnterTake(c) ==
  /\ c \in Consumer
  /\ AtStage(c, "outside")
  /\ WaitLock(c, items)
  /\ Advance(c, "waited")
  /\ UNCHANGED <<bufferVars, elem>>

\* The mutex is left out.
EnterWithoutMutex(t) ==
  /\ AtStage(t, "waited")
  /\ Advance(t, "entered")
  /\ UNCHANGED <<vars, bufferVars, elem>>

EnterMutex(t) ==
  /\ AtStage(t, "waited")
  /\ WaitLock(t, mutex)
  /\ Advance(t, "entered")
  /\ UNCHANGED <<bufferVars, elem>>

LeaveMutex(t) ==
  /\ AtStage(t, "finished")
  /\ SignalLock(t, mutex)
  /\ Advance(t, "left")
  /\ UNCHANGED <<bufferVars, elem>>

\* The second signal is forgotten.
AnnounceForgotten(t) ==
  /\ AtStage(t, "left")
  /\ Advance(t, "outside")
  /\ UNCHANGED <<vars, bufferVars, elem>>

Announce(t) ==
  /\ AtStage(t, "left")
  /\ SignalLock(t, Makes(t))
  /\ Advance(t, "outside")
  /\ UNCHANGED <<bufferVars, elem>>

-----------------------------------------------------------------------------
(* bounded_buffer_add *)

Slot(i) == (first + i) % Length

\* Copy the element to the slot behind the last one.
AddWrite(p) ==
  /\ p \in Producer
  /\ AtStage(p, "entered")
  /\ buffer' = [buffer EXCEPT ![Slot(count)] = elem[p]]
  /\ Advance(p, "written")
  /\ UNCHANGED <<vars, first, count, elem>>

AddCount(p) ==
  /\ p \in Producer
  /\ AtStage(p, "written")
  /\ count' = count + 1
  /\ Advance(p, "finished")
  /\ UNCHANGED <<vars, buffer, first, elem>>

-----------------------------------------------------------------------------
(* bounded_buffer_take *)

\* Copy the first element out ...
TakeCopy(c) ==
  /\ c \in Consumer
  /\ AtStage(c, "entered")
  /\ elem' = [elem EXCEPT ![c] = buffer[first]]
  /\ Advance(c, "copied")
  /\ UNCHANGED <<vars, bufferVars>>

\* ... clear its slot ...
TakeClear(c) ==
  /\ c \in Consumer
  /\ AtStage(c, "copied")
  /\ buffer' = [buffer EXCEPT ![first] = EMPTY]
  /\ Advance(c, "cleared")
  /\ UNCHANGED <<vars, first, count, elem>>

\* ... and move the counters on, one after the other.
TakeCount(c) ==
  /\ c \in Consumer
  /\ AtStage(c, "cleared")
  /\ count' = count - 1
  /\ Advance(c, "uncounted")
  /\ UNCHANGED <<vars, buffer, first, elem>>

\* The index is not moved.
TakeFirstStays(c) ==
  /\ c \in Consumer
  /\ AtStage(c, "uncounted")
  /\ Advance(c, "finished")
  /\ UNCHANGED <<vars, bufferVars, elem>>

TakeFirst(c) ==
  /\ c \in Consumer
  /\ AtStage(c, "uncounted")
  /\ first' = Slot(1)
  /\ Advance(c, "finished")
  /\ UNCHANGED <<vars, buffer, count, elem>>

-----------------------------------------------------------------------------
BufferStep(t) ==
  \/ EnterAdd(t) \/ EnterTake(t)
  \/ EnterMutex(t) \/ LeaveMutex(t) \/ Announce(t)
  \/ AddWrite(t) \/ AddCount(t)
  \/ TakeCopy(t) \/ TakeClear(t) \/ TakeCount(t) \/ TakeFirst(t)

\* The steps of Semaphore and of the Scheduler.
InnerStep(t) == SemaphoreStep(t) /\ UNCHANGED <<bufferVars, stage, elem>>
OuterStep == SwitchStep /\ UNCHANGED <<bufferVars, stage, elem>>
BufferSignal == Signal /\ UNCHANGED <<bufferVars, stage, elem>>

BufferNext ==
  \/ OuterStep
  \/ BufferSignal
  \/ \E t \in Thread : InnerStep(t) \/ BufferStep(t)

BufferSpec == BufferInit /\ [][BufferNext]_allVars

\* As in Semaphore; and the threads of fibtest never stop adding and taking.
BufferFairness ==
  /\ WF_allVars(OuterStep)
  /\ WF_allVars(BufferSignal)
  /\ \A t \in Thread : SF_allVars(InnerStep(t) \/ BufferStep(t))

FairBufferSpec == BufferSpec /\ BufferFairness

-----------------------------------------------------------------------------
(* Safety *)

\* Between the two semaphores of the mutex: the wait has returned and the signal
\* has not been called.
Inside(t) ==
  \/ stage[t] = "entered" /\ pc[t] \in {"leave", "user"}
  \/ stage[t] \in {"written", "copied", "cleared", "uncounted", "finished"}

\* bounded_buffer.c: "A mutex that ensures only one thread is modifying the
\* buffer", although the thread inside may be preempted at any point.
OneThreadInside == \A t, u \in Thread : Inside(t) /\ Inside(u) => t = u

\* The thread holds a permit: it has returned from, or is about to leave, the
\* wait for what it needs, and has not yet incremented what it makes.
HoldsPermit(t) ==
  CASE stage[t] = "outside" -> pc[t] = "signal"
    [] stage[t] = "waited" -> pc[t] \in {"leave", "user"}
    [] OTHER -> TRUE

\* Each slot of the buffer is at any time space, an element, or in the hands of
\* one thread: the permits of the two semaphores add up, whatever the threads
\* are in the middle of.
PermitsAddUp ==
  value[space] + value[items] + Cardinality({t \in Thread : HoldsPermit(t)}) = Length

\* When no thread is inside, the elements are in the `count` slots from `first`
\* on, around the end of the array, and the other slots are clear.
SlotsMatchCount ==
  (\A t \in Thread : ~Inside(t)) =>
    \A i \in 0..(Length - 1) : buffer[Slot(i)] # EMPTY <=> i < count

\* The scheduler never finds that all threads are blocked.
NeverDeadlocked == cpu \notin Exited

\* The elements in the buffer in their order.  A consumer takes the first one
\* when it has copied it out; it still has to update count and first.
Taking(stages) == \E c \in Consumer : stage[c] \in stages

Contents ==
  LET skip == IF Taking({"copied", "cleared", "uncounted"}) THEN 1 ELSE 0
      gone == IF Taking({"copied", "cleared"}) THEN 1 ELSE 0
  IN  [i \in 1..(count - gone) |-> buffer[Slot(skip + i - 1)]]

\* The element of each thread; a producer's is its own until it has added it.
Elements == [t \in Thread |->
  IF t \in Producer /\ stage[t] \in {"outside", "finished", "left"}
    THEN EMPTY ELSE elem[t]]

Queue == INSTANCE AbstractBuffer WITH queue <- Contents, elem <- Elements

\* What the threads see is a bounded queue: elements come out in the order in
\* which they went in, each once and none lost or invented.
IsQueue == Queue!Spec

-----------------------------------------------------------------------------
(* The rest of what makes the safety properties inductive *)

BufferTypeOK ==
  /\ buffer \in [0..(Length - 1) -> Element \cup {EMPTY}]
  /\ first \in 0..(Length - 1)
  /\ count \in 0..Length
  /\ stage \in [Thread -> Stage]
  /\ elem \in [Thread -> Element \cup {EMPTY}]

Needs(t) == IF t \in Producer THEN space ELSE items

\* The thread is in semaphore_wait, or semaphore_signal, for s, or has left it.
InWait(t, s) ==
  \/ pc[t] = "user"
  \/ pc[t] \in Asleep \cup {"wait", "leave"} /\ arg[t] = {s}

InSignal(t, s) ==
  \/ pc[t] = "user"
  \/ pc[t] \in Waking \cup {"signal", "wake", "leave"} /\ arg[t] = {s}

\* Which call the thread is in at each stage.
StagesMatchCalls ==
  \A t \in Thread :
    /\ CASE stage[t] = "outside" -> InSignal(t, Makes(t))
         [] stage[t] = "waited" -> InWait(t, Needs(t))
         [] stage[t] = "entered" -> InWait(t, mutex)
         [] stage[t] = "left" -> InSignal(t, mutex)
         [] OTHER -> pc[t] = "user"
    /\ stage[t] = "written" => t \in Producer
    /\ stage[t] \in {"copied", "cleared", "uncounted"} => t \in Consumer

\* From the decrement of the mutex to its increment.
HoldsMutex(t) == Inside(t) \/ (stage[t] = "left" /\ pc[t] = "signal")

MutexHeldOnce ==
  /\ \A t, u \in Thread : HoldsMutex(t) /\ HoldsMutex(u) => t = u
  /\ value[mutex] = IF \E t \in Thread : HoldsMutex(t) THEN 0 ELSE 1

\* Threads that hold a permit: those that have yet to update count, and those that
\* have yet to announce what they did to it.
BeforeCount(T) == {t \in T : HoldsPermit(t) /\
                     stage[t] \in {"waited", "entered", "written", "copied", "cleared"}}

AfterCount(T) == {t \in T : HoldsPermit(t) /\
                    stage[t] \in {"uncounted", "finished", "left", "outside"}}

PermitsMatchCount ==
  /\ count = value[items] + Cardinality(BeforeCount(Consumer))
                          + Cardinality(AfterCount(Producer))
  /\ Length - count = value[space] + Cardinality(BeforeCount(Producer))
                                   + Cardinality(AfterCount(Consumer))

\* The slots that hold an element, in each stage of the thread inside.
Filled(t) ==
  CASE stage[t] = "written" -> 0..count
    [] stage[t] = "cleared" -> 1..(count - 1)
    [] stage[t] = "uncounted" -> 1..count
    [] OTHER -> 0..(count - 1)

SlotsMatchStages ==
  /\ SlotsMatchCount
  /\ \A t \in Thread : Inside(t) =>
       \A i \in 0..(Length - 1) : buffer[Slot(i)] # EMPTY <=> i \in Filled(t)

\* A producer keeps its element until it is in the buffer.
ElementsInHand ==
  \A t \in Producer :
    /\ stage[t] \in {"waited", "entered", "written"} => elem[t] \in Element
    /\ stage[t] = "written" => buffer[Slot(count)] = elem[t]

BufferRules ==
  /\ BufferTypeOK
  /\ StagesMatchCalls
  /\ MutexHeldOnce
  /\ PermitsMatchCount
  /\ SlotsMatchStages
  /\ ElementsInHand

BufferInv ==
  /\ IndInv
  /\ NoLostWakeup
  /\ BufferRules
  /\ NeverDeadlocked

(* Liveness *)

\* Elements keep flowing: some consumer takes an element again and again, so the
\* threads that can make progress are always woken (problem1.txt tells how the
\* version that yields instead could go on for long without).
ElementsKeepFlowing == []<><<\E c \in Consumer : TakeFirst(c)>>_allVars

=============================================================================
