---------------------------- MODULE AccumProofs -----------------------------
(***************************************************************************)
(* The accumulator of final/lockfree loses no addition and makes none      *)
(* twice, with any number of threads, as long as their sum fits its width. *)
(***************************************************************************)
EXTENDS Accum, FiniteSetTheorems, TLAPS

LEMMA NoWrap ==
  ASSUME NEW x \in Nat, x < Modulus
  PROVE  x % Modulus = x
  BY ModulusAssumption

LEMMA ValuesFit ==
  ASSUME NEW v \in Value
  PROVE  v \in 0..(Modulus - 1) /\ v \in Nat
  BY ValueAssumption, ModulusAssumption

LEMMA AllLandedIsFinite ==
  ASSUME NEW m, SumsFit(m)
  PROVE  /\ IsFiniteSet(Thread \X (1..Calls))
         /\ Cardinality(Thread \X (1..Calls)) = Cardinality(Thread) * Calls
         /\ Cardinality(Thread) * Calls \in Nat
  <1>1. IsFiniteSet(1..Calls) /\ Cardinality(1..Calls) = Calls
    <2>1. IsFiniteSet(1..Calls)
          /\ Cardinality(1..Calls) = IF 1 > Calls THEN 0 ELSE Calls - 1 + 1
      BY CallsAssumption, FS_Interval
    <2> QED
      BY <2>1, CallsAssumption
  <1>2. IsFiniteSet(Thread) /\ Cardinality(Thread) \in Nat
    BY FS_CardinalityType DEF SumsFit
  <1> QED
    BY <1>1, <1>2, FS_Product, CallsAssumption

\* Multiplication by the largest value keeps the order.
LEMMA TimesMonotone ==
  ASSUME NEW a \in Nat, NEW b \in Nat, NEW m \in Nat, a <= b
  PROVE  a * m <= b * m /\ a * m \in Nat /\ b * m \in Nat
  OBVIOUS

LEMMA OneMore ==
  ASSUME NEW a \in Nat, NEW m \in Nat
  PROVE  (a + 1) * m = a * m + m
  OBVIOUS

\* While a thread is adding, its addition is one more than have landed, and there
\* is room for it.
LEMMA RoomForOne ==
  ASSUME NEW m, SumsFit(m), AccumInv(m), NEW t \in Thread, pc[t] # "outside"
  PROVE  /\ <<t, Calls - left[t]>> \in (Thread \X (1..Calls)) \ Landed
         /\ Cardinality(Landed \cup {<<t, Calls - left[t]>>}) = Cardinality(Landed) + 1
         /\ Cardinality(Landed) \in Nat
         /\ accum + value[t] <= (Cardinality(Landed) + 1) * m
         /\ accum + value[t] < Modulus
  <1> DEFINE a == <<t, Calls - left[t]>>
  <1>1. left[t] \in 0..Calls /\ left[t] < Calls /\ value[t] \in Value
    BY DEF AccumInv, TypeOK, Reads
  <1>2. a \in (Thread \X (1..Calls)) \ Landed
    BY <1>1, CallsAssumption DEF Landed, Made
  <1>3. IsFiniteSet(Landed) /\ Cardinality(Landed) \in Nat
    BY AllLandedIsFinite, FS_Subset, FS_CardinalityType DEF Landed
  <1>4. Cardinality(Landed \cup {a}) = Cardinality(Landed) + 1
    BY <1>2, <1>3, FS_AddElement
  <1>5. Cardinality(Landed) + 1 <= Cardinality(Thread) * Calls
    <2>1. Landed \cup {a} \subseteq Thread \X (1..Calls)
      BY <1>2 DEF Landed
    <2> QED
      BY <1>4, <2>1, AllLandedIsFinite, FS_Subset
  <1>6. value[t] \in Nat /\ value[t] <= m /\ m \in Nat /\ accum \in Nat
    BY <1>1, ModulusAssumption DEF SumsFit, AccumInv, TypeOK
  <1>7. accum + value[t] <= (Cardinality(Landed) + 1) * m
    <2>1. accum <= Cardinality(Landed) * m
      BY DEF AccumInv
    <2>2. Cardinality(Landed) * m \in Nat
      BY <1>3, <1>6
    <2> QED
      BY <1>3, <1>6, <2>1, <2>2, OneMore
  <1>8. accum + value[t] < Modulus
    <2>1. (Cardinality(Landed) + 1) * m <= (Cardinality(Thread) * Calls) * m
      BY <1>3, <1>5, <1>6, AllLandedIsFinite, TimesMonotone
    <2>2. (Cardinality(Thread) * Calls) * m < Modulus
      BY DEF SumsFit
    <2>3. /\ (Cardinality(Landed) + 1) * m \in Nat
          /\ (Cardinality(Thread) * Calls) * m \in Nat
      BY <1>3, <1>6, AllLandedIsFinite
    <2> QED
      BY <1>6, <1>7, <2>1, <2>2, <2>3, ModulusAssumption
  <1> QED
    BY <1>2, <1>3, <1>4, <1>7, <1>8

LEMMA InitInv == ASSUME NEW m, SumsFit(m) PROVE Init => AccumInv(m)
  <1> SUFFICES ASSUME Init PROVE AccumInv(m)
    OBVIOUS
  <1>1. TypeOK
    BY ModulusAssumption, CallsAssumption DEF Init, TypeOK
  <1>2. Landed = {}
    BY CallsAssumption DEF Init, Landed, Made
  <1>3. accum <= Cardinality(Landed) * m
    BY <1>2, FS_EmptySet DEF Init, SumsFit
  <1>4. \A t \in Thread : Reads(t)
    BY DEF Init, Reads
  <1> QED
    BY <1>1, <1>3, <1>4 DEF AccumInv

\* A successful swap stores the total plus the thread's own value.
LEMMA SwapAdds ==
  ASSUME NEW m, SumsFit(m), AccumInv(m), NEW t \in Thread, Swap(t)
  PROVE  /\ accum' = accum + value[t]
         /\ accum' < Modulus
         /\ value[t] \in Value
         /\ accum' = (accum + value[t]) % Modulus
  <1>1. /\ value[t] \in Value
        /\ old[t] + value[t] <= new[t] /\ new[t] <= accum + value[t]
        /\ accum = old[t] /\ accum' = new[t] /\ pc[t] # "outside"
    BY DEF AccumInv, Reads, Swap
  <1>2. accum \in Nat /\ value[t] \in Nat /\ new[t] \in Nat
    BY ModulusAssumption DEF AccumInv, TypeOK
  <1>3. accum + value[t] < Modulus
    BY <1>1, RoomForOne
  <1> QED
    BY <1>1, <1>2, <1>3, NoWrap

LEMMA StepInv ==
  ASSUME NEW m, SumsFit(m)
  PROVE  AccumInv(m) /\ [Next]_vars => AccumInv(m)'
  <1> SUFFICES ASSUME AccumInv(m), [Next]_vars PROVE AccumInv(m)'
    OBVIOUS
  <1>1. TypeOK /\ accum <= Cardinality(Landed) * m /\ \A u \in Thread : Reads(u)
    BY DEF AccumInv
  <1>2. ASSUME NEW t \in Thread, Call(t) PROVE AccumInv(m)'
    <2> USE <1>2 DEF Call, Goto
    <2>1. left[t] \in 0..Calls /\ left[t] > 0 /\ pc[t] = "outside"
      BY <1>1 DEF TypeOK
    <2>2. TypeOK'
      BY <1>1, <2>1, ValuesFit, CallsAssumption DEF TypeOK
    <2>3. Landed' = Landed
      <3>1. \A u \in Thread : Made(u)' = Made(u)
        BY <1>1, <2>1, CallsAssumption DEF Made, TypeOK
      <3> QED
        BY <3>1 DEF Landed
    <2>4. \A u \in Thread : Reads(u)'
      BY <1>1, <2>1, CallsAssumption DEF Reads, TypeOK
    <2> QED
      BY <1>1, <2>2, <2>3, <2>4 DEF AccumInv
  <1>3. ASSUME NEW t \in Thread, ReadOld(t) PROVE AccumInv(m)'
    <2> USE <1>3 DEF ReadOld, Goto
    <2>1. TypeOK'
      BY <1>1 DEF TypeOK
    <2>2. Landed' = Landed
      <3>1. \A u \in Thread : Made(u)' = Made(u)
        BY <1>1 DEF Made, TypeOK
      <3> QED
        BY <3>1 DEF Landed
    <2>3. \A u \in Thread : Reads(u)'
      BY <1>1, ModulusAssumption DEF Reads, TypeOK
    <2> QED
      BY <1>1, <2>1, <2>2, <2>3 DEF AccumInv
  <1>4. ASSUME NEW t \in Thread, ReadNew(t) PROVE AccumInv(m)'
    <2> USE <1>4 DEF ReadNew, Goto
    <2>1. /\ accum + value[t] \in 0..(Modulus - 1)
          /\ (accum + value[t]) % Modulus = accum + value[t]
      <3>1. accum + value[t] < Modulus
        BY RoomForOne
      <3>2. accum \in Nat /\ value[t] \in Nat
        BY <1>1, ModulusAssumption DEF TypeOK
      <3> QED
        BY <3>1, <3>2, NoWrap, ModulusAssumption
    <2>2. TypeOK'
      BY <1>1, <2>1 DEF TypeOK
    <2>3. Landed' = Landed
      <3>1. \A u \in Thread : Made(u)' = Made(u)
        BY <1>1 DEF Made, TypeOK
      <3> QED
        BY <3>1 DEF Landed
    <2>4. \A u \in Thread : Reads(u)'
      <3>1. Reads(t)'
        <4>1. /\ new'[t] = accum + value[t] /\ old'[t] = old[t] /\ value'[t] = value[t]
              /\ left'[t] = left[t] /\ pc'[t] = "swap" /\ accum' = accum
          BY <1>1, <2>1 DEF TypeOK
        <4>2. old[t] <= accum /\ value[t] \in Value /\ left[t] < Calls
          BY <1>1 DEF Reads
        <4>3. old[t] \in Nat /\ accum \in Nat /\ value[t] \in Nat
          BY <1>1, ModulusAssumption DEF TypeOK
        <4> QED
          BY <4>1, <4>2, <4>3 DEF Reads
      <3>2. ASSUME NEW u \in Thread, u # t PROVE Reads(u)'
        BY <1>1, <3>2 DEF Reads, TypeOK
      <3> QED
        BY <3>1, <3>2
    <2> QED
      BY <1>1, <2>2, <2>3, <2>4 DEF AccumInv
  <1>5. ASSUME NEW t \in Thread, Swap(t) PROVE AccumInv(m)'
    <2> USE <1>5 DEF Swap, Return, Goto
    <2>1. accum' = accum + value[t] /\ accum' < Modulus
      BY SwapAdds
    <2>2. accum \in Nat /\ value[t] \in Nat /\ pc[t] = "swap"
      BY <1>1, ModulusAssumption DEF TypeOK
    <2>3. TypeOK'
      BY <1>1, ModulusAssumption DEF TypeOK
    <2>4. Landed' = Landed \cup {<<t, Calls - left[t]>>}
      <3>1. left[t] \in 0..Calls /\ left[t] < Calls
        BY <1>1, <2>2 DEF TypeOK, Reads
      <3>2. Made(t) = Calls - left[t] - 1 /\ Made(t)' = Calls - left[t]
        BY <1>1, <2>2 DEF Made, TypeOK
      <3>3. \A u \in Thread : u # t => Made(u)' = Made(u)
        BY <1>1 DEF Made, TypeOK
      <3>4. ASSUME NEW u \in Thread, NEW k \in 1..Calls
            PROVE  k <= Made(u)' <=> k <= Made(u) \/ <<u, k>> = <<t, Calls - left[t]>>
        BY <3>1, <3>2, <3>3, CallsAssumption
      <3>5. <<t, Calls - left[t]>> \in Thread \X (1..Calls)
        BY <3>1, CallsAssumption
      <3> QED
        BY <3>4, <3>5 DEF Landed
    <2>5. accum' <= Cardinality(Landed') * m
      <3>1. Cardinality(Landed') = Cardinality(Landed) + 1
        BY <2>2, <2>4, RoomForOne
      <3>2. accum + value[t] <= (Cardinality(Landed) + 1) * m
        BY <2>2, RoomForOne
      <3> QED
        BY <2>1, <3>1, <3>2
    <2>6. \A u \in Thread : Reads(u)'
      <3>1. Reads(t)'
        BY <1>1 DEF Reads, TypeOK
      <3>2. ASSUME NEW u \in Thread, u # t PROVE Reads(u)'
        <4>1. /\ value'[u] = value[u] /\ old'[u] = old[u] /\ new'[u] = new[u]
              /\ pc'[u] = pc[u] /\ left'[u] = left[u]
          BY <1>1, <3>2 DEF TypeOK
        <4>2. old[u] \in Nat /\ new[u] \in Nat /\ value[u] \in Nat
          BY <1>1, ModulusAssumption DEF TypeOK
        <4>3. Reads(u)
          BY <1>1
        <4> QED
          BY <2>1, <2>2, <4>1, <4>2, <4>3 DEF Reads
      <3> QED
        BY <3>1, <3>2
    <2> QED
      BY <2>3, <2>5, <2>6 DEF AccumInv
  <1>6. ASSUME NEW t \in Thread, Retry(t) PROVE AccumInv(m)'
    <2> USE <1>6 DEF Retry, Goto, locals
    <2>1. TypeOK'
      BY <1>1 DEF TypeOK
    <2>2. Landed' = Landed
      <3>1. \A u \in Thread : Made(u)' = Made(u)
        BY <1>1 DEF Made, TypeOK
      <3> QED
        BY <3>1 DEF Landed
    <2>3. \A u \in Thread : Reads(u)'
      BY <1>1 DEF Reads, TypeOK
    <2> QED
      BY <1>1, <2>1, <2>2, <2>3 DEF AccumInv
  <1>7. ASSUME UNCHANGED vars PROVE AccumInv(m)'
    BY <1>1, <1>7 DEF vars, locals, AccumInv, TypeOK, Landed, Made, Reads
  <1> QED
    BY <1>2, <1>3, <1>4, <1>5, <1>6, <1>7 DEF Next, AddStep, Done

\* Only a call and a successful swap can be seen from outside.
LEMMA StepsAreTotalSteps ==
  ASSUME NEW m, SumsFit(m)
  PROVE  AccumInv(m) /\ [Next]_vars => [Total!Next]_Total!vars
  <1> SUFFICES ASSUME AccumInv(m), [Next]_vars PROVE [Total!Next]_Total!vars
    OBVIOUS
  <1> DEFINE Adding == [t \in Thread |-> IF pc[t] = "outside" THEN {} ELSE {value[t]}]
  <1>1. TypeOK
    BY DEF AccumInv
  <1>2. ASSUME NEW t \in Thread, Call(t) PROVE Total!Call(t)
    <2>1. PICK v \in Value : value' = [value EXCEPT ![t] = v]
      BY <1>2 DEF Call
    <2>2. Adding[t] = {}
      BY <1>2 DEF Call
    <2>3. Adding' = [Adding EXCEPT ![t] = {v}]
      BY <1>1, <1>2, <2>1 DEF Call, Goto, TypeOK
    <2>4. UNCHANGED <<accum, result>>
      BY <1>2 DEF Call
    <2> QED
      BY <2>2, <2>3, <2>4 DEF Total!Call
  <1>3. ASSUME NEW t \in Thread, Swap(t) PROVE Total!Add(t)
    <2>1. accum' = (accum + value[t]) % Modulus
      BY <1>3, SwapAdds
    <2>2. Adding[t] = {value[t]}
      BY <1>3 DEF Swap
    <2>3. Adding' = [Adding EXCEPT ![t] = {}]
      BY <1>1, <1>3 DEF Swap, Return, Goto, TypeOK
    <2>4. result' = [result EXCEPT ![t] = accum']
      BY <1>3 DEF Swap, Return
    <2> QED
      BY <2>1, <2>2, <2>3, <2>4 DEF Total!Add
  <1>4. ASSUME NEW t \in Thread, ReadOld(t) \/ ReadNew(t) \/ Retry(t)
        PROVE  UNCHANGED Total!vars
    <2>1. UNCHANGED <<accum, value, result>>
      BY <1>4 DEF ReadOld, ReadNew, Retry, locals
    <2>2. \A u \in Thread : pc'[u] = "outside" <=> pc[u] = "outside"
      BY <1>1, <1>4 DEF ReadOld, ReadNew, Retry, Goto, TypeOK
    <2> QED
      BY <2>1, <2>2 DEF Total!vars
  <1>5. ASSUME UNCHANGED vars PROVE UNCHANGED Total!vars
    BY <1>5 DEF vars, locals, Total!vars
  <1> QED
    BY <1>2, <1>3, <1>4, <1>5 DEF Next, AddStep, Done, Total!Next

\* Concurrent additions are single steps, none lost and none made twice, and each
\* returns the total it made, for any number of threads: as long as no sum wraps.
\* Without that hypothesis the accumulator miscounts.
THEOREM ImplementsAccumulator ==
  ASSUME NEW m, SumsFit(m)
  PROVE  Spec => IsAccumulator
  <1>1. Init => Total!Init
    BY DEF Init, Total!Init
  <1>2. Init => AccumInv(m)
    BY InitInv
  <1>3. AccumInv(m) /\ [Next]_vars => AccumInv(m)'
    BY StepInv
  <1>4. AccumInv(m) /\ [Next]_vars => [Total!Next]_Total!vars
    BY StepsAreTotalSteps
  <1> QED
    BY <1>1, <1>2, <1>3, <1>4, PTL DEF Spec, IsAccumulator, Total!Spec

=============================================================================
