------------------------------- MODULE Accum -------------------------------
(***************************************************************************)
(* The lock-free accumulator of final/lockfree: add_to_accum of accum.c,   *)
(* the compare-and-swap of cmp_swap.s, and threads that call it as those   *)
(* of testaccum.c do.                                                      *)
(*                                                                         *)
(* add_to_accum reads *accum twice before each compare-and-swap, once for  *)
(* `old` and once for `new`; the build (gcc -O0) makes two loads of them.  *)
(***************************************************************************)
EXTENDS Naturals, FiniteSets

CONSTANTS Thread, Value,
          Modulus,      \* 2^32, the wrap of a uint32_t
          Calls         \* bound: additions that each thread makes

ASSUME ModulusAssumption == Modulus \in Nat \ {0}
ASSUME ValueAssumption == Value \subseteq 0..(Modulus - 1)
ASSUME CallsAssumption == Calls \in Nat

VARIABLES accum,
          value, old, new,      \* of the call of each thread
          result,               \* what its last call returned
          left,                 \* the calls it has yet to make
          pc

locals == <<value, old, new, result, left>>
vars == <<accum, locals, pc>>

Init ==
  /\ accum = 0
  /\ value = [t \in Thread |-> 0]
  /\ old = [t \in Thread |-> 0]
  /\ new = [t \in Thread |-> 0]
  /\ result = [t \in Thread |-> 0]
  /\ left = [t \in Thread |-> Calls]
  /\ pc = [t \in Thread |-> "outside"]

Goto(t, label) == pc' = [pc EXCEPT ![t] = label]

\* The loop of thread_func calls add_to_accum with its next value.
Call(t) ==
  /\ pc[t] = "outside"
  /\ left[t] > 0
  /\ \E v \in Value : value' = [value EXCEPT ![t] = v]
  /\ left' = [left EXCEPT ![t] = @ - 1]
  /\ Goto(t, "first")
  /\ UNCHANGED <<accum, old, new, result>>

\* old = *accum
ReadOld(t) ==
  /\ pc[t] = "first"
  /\ old' = [old EXCEPT ![t] = accum]
  /\ Goto(t, "second")
  /\ UNCHANGED <<accum, value, new, result, left>>

\* new = *accum + value
ReadNew(t) ==
  /\ pc[t] = "second"
  /\ new' = [new EXCEPT ![t] = (accum + value[t]) % Modulus]
  /\ Goto(t, "swap")
  /\ UNCHANGED <<accum, value, old, result, left>>

\* The call returns: its locals are gone.
Return(t) ==
  /\ result' = [result EXCEPT ![t] = new[t]]
  /\ value' = [value EXCEPT ![t] = 0]
  /\ old' = [old EXCEPT ![t] = 0]
  /\ new' = [new EXCEPT ![t] = 0]
  /\ Goto(t, "outside")

\* A store in the place of the atomic instruction, after the comparison.
StoreAnyway(t) ==
  /\ pc[t] = "swap"
  /\ accum' = new[t]
  /\ Return(t)
  /\ UNCHANGED left

\* The compare-and-swap succeeds, and the call returns new ...
Swap(t) ==
  /\ pc[t] = "swap"
  /\ accum = old[t]
  /\ accum' = new[t]
  /\ Return(t)
  /\ UNCHANGED left

\* The loop tries again with the same old and new.
RetryStale(t) ==
  /\ pc[t] = "swap"
  /\ accum # old[t]
  /\ UNCHANGED vars

\* ... or fails, and both are read again.
Retry(t) ==
  /\ pc[t] = "swap"
  /\ accum # old[t]
  /\ Goto(t, "first")
  /\ UNCHANGED <<accum, locals>>

AddStep(t) == ReadOld(t) \/ ReadNew(t) \/ Swap(t) \/ Retry(t)

\* All the additions have been made and the threads joined.
AllDone == \A t \in Thread : pc[t] = "outside" /\ left[t] = 0

Done == AllDone /\ UNCHANGED vars

Next == (\E t \in Thread : Call(t) \/ AddStep(t)) \/ Done

Spec == Init /\ [][Next]_vars

\* The kernel runs every thread.
Fairness == \A t \in Thread : WF_vars(Call(t) \/ AddStep(t))

-----------------------------------------------------------------------------
(* Safety *)

\* The comment on add_to_accum: it returns "the new total that is held in *accum
\* as a result of this particular addition (i.e. irrespective of other
\* concurrent additions that may be occurring)", and no addition is lost or
\* made twice.
Total == INSTANCE AbstractAccumulator WITH
  adding <- [t \in Thread |-> IF pc[t] = "outside" THEN {} ELSE {value[t]}]

IsAccumulator == Total!Spec

(* Liveness *)

\* Lock-freedom: a thread goes round the loop again only because another one
\* has made an addition, so that threads with so many additions to make are all
\* done in the end.  (accum.txt: a single thread may have to retry for as long
\* as others keep adding.)
AllAdditionsEnd == <>AllDone

(* What makes it an accumulator *)

\* No sum of all the additions there can be reaches the modulus: testaccum.c makes
\* 4 * 50000000 of them, of at most 20 each.
SumsFit(m) ==
  /\ IsFiniteSet(Thread)
  /\ m \in Nat
  /\ Value \subseteq 0..m
  /\ (Cardinality(Thread) * Calls) * m < Modulus

TypeOK ==
  /\ accum \in 0..(Modulus - 1)
  /\ value \in [Thread -> 0..(Modulus - 1)]
  /\ old \in [Thread -> 0..(Modulus - 1)]
  /\ new \in [Thread -> 0..(Modulus - 1)]
  /\ result \in [Thread -> 0..(Modulus - 1)]
  /\ left \in [Thread -> 0..Calls]
  /\ pc \in [Thread -> {"outside", "first", "second", "swap"}]

\* The additions that have taken effect, as thread and number.
Made(t) == IF pc[t] = "outside" THEN Calls - left[t] ELSE Calls - left[t] - 1
Landed == {a \in Thread \X (1..Calls) : a[2] <= Made(a[1])}

\* What a thread read a moment ago is not more than the total, and what it is about
\* to store lies between what it read before and the total now, with its own value.
Reads(t) ==
  /\ pc[t] # "outside" => value[t] \in Value /\ left[t] < Calls
  /\ pc[t] = "second" => old[t] <= accum
  /\ pc[t] = "swap" => /\ old[t] + value[t] <= new[t]
                       /\ new[t] <= accum + value[t]

AccumInv(m) ==
  /\ TypeOK
  /\ accum <= Cardinality(Landed) * m
  /\ \A t \in Thread : Reads(t)

=============================================================================
