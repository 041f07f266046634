------------------------ MODULE AbstractAccumulator ------------------------
(***************************************************************************)
(* What the comment on add_to_accum promises: concurrent additions, each   *)
(* in one step that also decides the total it returns.                     *)
(***************************************************************************)
EXTENDS Naturals

CONSTANTS Thread, Value, Modulus

VARIABLES accum,        \* the total
          adding,       \* the value each thread is adding, as a set
          result        \* what its last addition returned

vars == <<accum, adding, result>>

Init ==
  /\ accum = 0
  /\ adding = [t \in Thread |-> {}]
  /\ result = [t \in Thread |-> 0]

Call(t) ==
  /\ adding[t] = {}
  /\ \E v \in Value : adding' = [adding EXCEPT ![t] = {v}]
  /\ UNCHANGED <<accum, result>>

Add(t) ==
  /\ \E v \in adding[t] : accum' = (accum + v) % Modulus
  /\ adding' = [adding EXCEPT ![t] = {}]
  /\ result' = [result EXCEPT ![t] = accum']

Next == \E t \in Thread : Call(t) \/ Add(t)

Spec == Init /\ [][Next]_vars

=============================================================================
