------------------------------- MODULE MCLabs ---------------------------------
(* The labs that share nothing and are small, in one run: the two allocators, *)
(* the queue that takes a node of memory for each element, the processor, and *)
(* the accumulator, whose Init, Next and vars have no prefix. `system` says   *)
(* which of them this behaviour is about; the others stay as they begin.      *)
EXTENDS Heap, SmallObjectsTest, LinkedQueue, Processor, Accum, TLC

VARIABLE system

Fills == 1 :> 91 @@ 2 :> 92 @@ 3 :> 93

-----------------------------------------------------------------------------
(* The two programs beside the processor, and every pair of instructions of a *)
(* sample, with what the store holds behind them.                             *)

Code(op, write, src1, src2, dst) == op * 1024 + write * 512 + src1 * 64 + src2 * 8 + dst

ifib == <<\h0a00, \h0b24, \h0adb, \h16da, \h0b6d, \h176d, \h02c4, \h0283, \h02e2, \h0b4e,
          \h2985, \h3c00>>

divider == <<\hbb6, \hbff, \h3c7, \h649, \h1649, \h3cc, \hfe5, \h317, \h235d, \h2b4c,
             \h17b6, \h2ac5, \h1695, \ha69, \h649, \h3cf, \h3dff>>

Some == 255     \* "ffff" in the files, where the value does not matter

FibonacciOf(n) == [name |-> "ifib", instructions |-> ifib, registers |-> <<Some, n, Some, Some, Some>>]

Divisions == {[name |-> "divider", instructions |-> divider,
               registers |-> <<a, b, 0, 32768, Some, Some, Some, Some>>] : a \in {0, 5, 9, 15}, b \in {0, 3, 5, 16}}

Sample == {Code(2, 1, 0, 1, 1), Code(3, 1, 1, 0, 1), Code(4, 1, 0, 1, 0), Code(5, 1, 1, 1, 0),
           Code(1, 1, 0, 0, 1), Code(11, 1, 1, 0, 1), Code(13, 1, 1, 0, 0), Code(12, 1, 1, 1, 1),
           Code(6, 1, 0, 0, 1), Code(10, 0, 0, 0, 1), Code(10, 1, 1, 0, 0), Code(15, 1, 0, 0, 0)}

Pairs == {[name |-> "pair", instructions |-> <<v, NoNumber, w>>, registers |-> <<3, NoNumber, 5>>] :
              v \in Sample, w \in Sample}

Everything == {FibonacciOf(n) : n \in 1 .. 4} \cup Divisions \cup Pairs

Memory == {0, Code(15, 0, 0, 0, 0)}

-----------------------------------------------------------------------------

labVars == <<heapVars, testVars, queueVars, processorVars, vars, system>>

LabInit ==
    /\ HeapInit /\ TestInit /\ QueueInit /\ ProcessorInit /\ Init
    /\ system \in {"heap", "pool", "queue", "processor", "accum"}
    /\ system # "processor" => input = FibonacciOf(1) /\ bus.instr = 0

PoolNext == /\ system = "pool" /\ TestNext
            /\ UNCHANGED <<heapVars, queueVars, processorVars, vars, system>>

LabNext ==
    \/ PoolNext
    \/ /\ system = "heap" /\ HeapNext
       /\ UNCHANGED <<testVars, queueVars, processorVars, vars, system>>
    \/ /\ system = "queue" /\ QueueNext
       /\ UNCHANGED <<heapVars, testVars, processorVars, vars, system>>
    \/ /\ system = "processor" /\ ProcessorNext
       /\ UNCHANGED <<heapVars, testVars, queueVars, vars, system>>
    \/ /\ system = "accum" /\ Next
       /\ UNCHANGED <<heapVars, testVars, queueVars, processorVars, system>>

\* The tester is one thread: it goes on as long as it can. The kernel runs the
\* threads of the accumulator.
LabSpec == /\ LabInit /\ [][LabNext]_labVars
           /\ WF_labVars(PoolNext)
           /\ system = "accum" => Fairness

(* Liveness of the pool's test. A trace of the heap may stop.                 *)
PoolTestEnds == system = "pool" => TestEndsWithEmptyPool

(* Liveness of the accumulator, whose threads have so many calls to make.     *)
AdditionsEnd == system = "accum" => AllAdditionsEnd
=============================================================================
