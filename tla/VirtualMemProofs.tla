-------------------------- MODULE VirtualMemProofs --------------------------
(***************************************************************************)
(* The virtual memory of lab08 keeps its tables in step, and is a memory,  *)
(* for any number of pages and frames and under each policy.               *)
(***************************************************************************)
EXTENDS VirtualMem, QueueLemmas

\* The three invariants need one another: the policy must choose a resident
\* page, and what eviction may forget depends on the permissions.
IndInv == TypeOK /\ PolicyTracksResidents /\ ChangesAreNoticed

\* How a list closes up when the entry at place i is evicted.
LEMMA WithoutOnce ==
  ASSUME NEW S, NEW q \in Seq(S), IsInjective(q), NEW i \in 1..Len(q),
         policy = "fifo" => i = 1
  PROVE  /\ Without(q, i) \in Seq(S)
         /\ Len(Without(q, i)) = Len(q) - 1
         /\ IsInjective(Without(q, i))
         /\ ToSet(Without(q, i)) = ToSet(q) \ {q[i]}
  <1>1. Len(q) \in Nat /\ q # <<>> /\ Head(q) = q[1] /\ Len(Tail(q)) = Len(q) - 1
    OBVIOUS
  <1>2. CASE policy = "fifo"
    BY <1>1, <1>2, TailOnce DEF Without
  <1>3. CASE policy # "fifo"
    <2>1. Without(q, i)
            = [j \in 1..Len(q) - 1 |-> IF j = i THEN q[Len(q)] ELSE q[j]]
      BY <1>3 DEF Without, LastInPlaceOf, Last
    <2> QED
      BY <2>1, LastFillsGap
  <1> QED
    BY <1>2, <1>3

LEMMA WithoutKeepsNats ==
  ASSUME NEW q \in Seq(Nat), NEW i \in 1..Len(q)
  PROVE  Without(q, i) \in Seq(Nat) /\ Len(Without(q, i)) = Len(q) - 1
  <1>1. CASE policy = "fifo"
    BY <1>1 DEF Without
  <1>2. CASE policy # "fifo"
    <2>1. Len(q) - 1 \in Nat
      OBVIOUS
    <2>2. Without(q, i) \in [1..Len(q) - 1 -> Nat]
      BY <1>2 DEF Without, LastInPlaceOf, Last
    <2> QED
      BY <2>1, <2>2, FunctionIsSeq
  <1> QED
    BY <1>1, <1>2

LEMMA InitInv == Init => IndInv
  <1> SUFFICES ASSUME Init PROVE IndInv
    OBVIOUS
  <1> USE DEF Init
  <1>1. TypeOK
    <2>1. <<>> \in Seq(Page) /\ <<>> \in Seq(Nat)
      OBVIOUS
    <2> QED
      BY <2>1, ValueAssumption, MaxResidentAssumption, MaxTicksAssumption, AgeAssumption
         DEF TypeOK, Entry, Cleared, Permission, Phase
  <1>2. PolicyTracksResidents
    BY DEF PolicyTracksResidents, resident, Cleared, ToSet, IsInjective
  <1>3. ChangesAreNoticed
    BY DEF ChangesAreNoticed, Noticed, resident, Cleared
  <1> QED
    BY <1>1, <1>2, <1>3 DEF IndInv

\* The policy gives up a page that is mapped, never the one at fault.
LEMMA VictimIsResident ==
  ASSUME IndInv, NEW i \in 1..Len(pages), FaultEvicting(i)
  PROVE  /\ access.page \in Page /\ ~resident(access.page)
         /\ pages[i] \in Page /\ resident(pages[i])
         /\ pages[i] # access.page
  <1> USE DEF IndInv, FaultEvicting, Pending
  <1>1. access.page \in Page
    BY DEF TypeOK, Access
  <1>2. pages[i] \in ToSet(pages) /\ pages[i] \in Page
    BY DEF ToSet, TypeOK
  <1> QED
    BY <1>1, <1>2 DEF PolicyTracksResidents

LEMMA StepInv == IndInv /\ [Next]_vars => IndInv'
  <1> SUFFICES ASSUME IndInv, [Next]_vars
               PROVE  IndInv'
    OBVIOUS
  <1> USE DEF IndInv, Entry, Permission, Phase
  <1>1. ASSUME NEW a \in Program, Ask(a)
        PROVE  IndInv'
    <2> USE <1>1 DEF Ask, memVars, policyVars
    <2>1. TypeOK'
      BY ProgramAssumption, ValueAssumption DEF TypeOK
    <2> QED
      BY <2>1 DEF PolicyTracksResidents, ChangesAreNoticed, Noticed, resident
  <1>2. ASSUME PerformRead
        PROVE  IndInv'
    <2> USE <1>2 DEF PerformRead, Pending, memVars, policyVars
    <2>1. TypeOK'
      BY MaxTicksAssumption DEF TypeOK, Access
    <2> QED
      BY <2>1 DEF PolicyTracksResidents, ChangesAreNoticed, Noticed, resident
  <1>3. ASSUME PerformWrite
        PROVE  IndInv'
    <2> USE <1>3 DEF PerformWrite, Pending, policyVars
    <2>1. TypeOK'
      BY MaxTicksAssumption DEF TypeOK, Access
    <2>2. PolicyTracksResidents'
      BY DEF PolicyTracksResidents, resident
    <2>3. ChangesAreNoticed'
      BY DEF ChangesAreNoticed, Noticed, resident, Allowed, TypeOK, Access, Cleared
    <2> QED
      BY <2>1, <2>2, <2>3
  <1>4. ASSUME FaultWithRoom
        PROVE  IndInv'
    <2> USE <1>4 DEF FaultWithRoom, Pending, Mapped, Cleared
    <2>1. access.page \in Page
      BY DEF TypeOK, Access
    <2>2. TypeOK'
      <3>1. page_table' \in [Page -> Entry] /\ frame' \in [Page -> Value]
        BY <2>1 DEF TypeOK
      <3>2. num_resident' \in 0..MaxResident
        BY MaxResidentAssumption DEF TypeOK
      <3>3. pages' \in Seq(Page) /\ age_table' \in Seq(Nat)
        BY <2>1, AgeAssumption DEF TypeOK
      <3> QED
        BY <3>1, <3>2, <3>3 DEF TypeOK
    <2>3. PolicyTracksResidents'
      <3>1. access.page \notin ToSet(pages)
        BY <2>1 DEF PolicyTracksResidents
      <3>2. /\ IsInjective(pages')
            /\ ToSet(pages') = ToSet(pages) \cup {access.page}
        BY <2>1, <3>1, AppendOnce DEF PolicyTracksResidents, TypeOK
      <3>3. Len(pages') = num_resident' /\ Len(age_table') = num_resident'
        BY DEF PolicyTracksResidents, TypeOK
      <3> QED
        BY <2>1, <3>2, <3>3 DEF PolicyTracksResidents, TypeOK, resident
    <2>4. ChangesAreNoticed'
      BY <2>1 DEF ChangesAreNoticed, Noticed, TypeOK, resident
    <2> QED
      BY <2>2, <2>3, <2>4
  <1>5. ASSUME NEW i \in 1..Len(pages), FaultEvicting(i)
        PROVE  IndInv'
    <2> USE <1>5 DEF FaultEvicting, Pending, Mapped, Cleared
    <2> DEFINE victim == pages[i]
               p == access.page
    <2>1. p \in Page /\ victim \in Page
      BY VictimIsResident
    <2>2. victim \in ToSet(pages) /\ p \notin ToSet(pages) /\ victim # p
      BY <2>1, VictimIsResident DEF PolicyTracksResidents
    <2>3. /\ Without(pages, i) \in Seq(Page)
          /\ Len(Without(pages, i)) = Len(pages) - 1
          /\ IsInjective(Without(pages, i))
          /\ ToSet(Without(pages, i)) = ToSet(pages) \ {victim}
      BY WithoutOnce DEF TypeOK, PolicyTracksResidents, MayEvict
    <2>4. /\ Without(age_table, i) \in Seq(Nat)
          /\ Len(Without(age_table, i)) = Len(age_table) - 1
      BY WithoutKeepsNats DEF TypeOK, PolicyTracksResidents
    <2> HIDE DEF victim, p
    <2>5. TypeOK'
      <3>1. page_table' \in [Page -> Entry]
        BY <2>1 DEF TypeOK, victim, p
      <3>2. frame' \in [Page -> Value]
        BY <2>1, ValueAssumption DEF TypeOK, victim, p
      <3>3. swap' \in [Page -> Value]
        BY <2>1 DEF TypeOK, Saved, victim
      <3>4. pages' \in Seq(Page) /\ age_table' \in Seq(Nat)
        BY <2>1, <2>3, <2>4, AgeAssumption DEF TypeOK, p
      <3>5. idle' \in [Page -> 0..AgeBits]
        BY <2>1, AgeAssumption DEF TypeOK, victim
      <3> QED
        BY <3>1, <3>2, <3>3, <3>4, <3>5 DEF TypeOK
    <2>6. PolicyTracksResidents'
      <3>1. /\ IsInjective(pages')
            /\ ToSet(pages') = (ToSet(pages) \ {victim}) \cup {p}
        BY <2>1, <2>2, <2>3, AppendOnce DEF p
      <3>2. Len(pages') = num_resident' /\ Len(age_table') = num_resident'
        BY <2>3, <2>4 DEF PolicyTracksResidents, TypeOK
      <3>3. \A q \in Page : page_table'[q].resident <=>
                              (page_table[q].resident /\ q # victim) \/ q = p
        BY <2>1, <2>2 DEF TypeOK, victim, p
      <3> QED
        BY <2>1, <3>1, <3>2, <3>3 DEF PolicyTracksResidents, resident
    <2>7. ChangesAreNoticed'
      BY <2>1, <2>2 DEF ChangesAreNoticed, Noticed, TypeOK, resident, Saved, victim, p
    <2> QED
      BY <2>5, <2>6, <2>7
  <1>6. ASSUME FaultOnAccess
        PROVE  IndInv'
    <2> USE <1>6 DEF FaultOnAccess, Pending, policyVars
    <2>1. access.page \in Page
      BY DEF TypeOK, Access
    <2> DEFINE e == [page_table[access.page] EXCEPT !.accessed = TRUE, !.perm = "READ"]
    <2>2. /\ page_table[access.page] \in Entry
          /\ page_table[access.page].resident
          /\ page_table[access.page].perm = "NONE"
      BY <2>1 DEF TypeOK, resident
    <2>3. /\ e \in Entry
          /\ e.resident /\ e.accessed /\ e.perm = "READ"
          /\ e.dirty = page_table[access.page].dirty
      BY <2>2
    <2>4. page_table' = [page_table EXCEPT ![access.page] = e]
      OBVIOUS
    <2> HIDE <1>6 DEF e
    <2>5. TypeOK'
      BY <1>6, <2>1, <2>3, <2>4 DEF TypeOK
    <2>6. \A q \in Page : page_table'[q].resident = page_table[q].resident
      BY <2>1, <2>2, <2>3, <2>4 DEF TypeOK
    <2>7. PolicyTracksResidents'
      BY <1>6, <2>6 DEF PolicyTracksResidents, resident
    <2>8. ChangesAreNoticed'
      <3> SUFFICES ASSUME NEW q \in Page
                   PROVE  Noticed(q)'
        BY DEF ChangesAreNoticed
      <3>1. Noticed(q) /\ Noticed(access.page)
        BY <2>1 DEF ChangesAreNoticed
      <3>2. page_table'[q] = IF q = access.page THEN e ELSE page_table[q]
        BY <2>4 DEF TypeOK
      <3> QED
        BY <1>6, <2>2, <2>3, <3>1, <3>2 DEF Noticed, resident, Cleared
    <2> QED
      BY <2>5, <2>7, <2>8
  <1>7. ASSUME FaultOnWrite
        PROVE  IndInv'
    <2> USE <1>7 DEF FaultOnWrite, Pending, policyVars
    <2>1. access.page \in Page
      BY DEF TypeOK, Access
    <2> DEFINE e == [page_table[access.page] EXCEPT !.dirty = TRUE, !.perm = "RDWR"]
    <2>2. /\ page_table[access.page] \in Entry
          /\ page_table[access.page].resident
          /\ page_table[access.page].perm = "READ"
      BY <2>1 DEF TypeOK, resident
    <2>3. /\ e \in Entry
          /\ e.resident /\ e.dirty /\ e.perm = "RDWR"
          /\ e.accessed = page_table[access.page].accessed
      BY <2>2
    <2>4. page_table' = [page_table EXCEPT ![access.page] = e]
      OBVIOUS
    <2> HIDE <1>7 DEF e
    <2>5. TypeOK'
      BY <1>7, <2>1, <2>3, <2>4 DEF TypeOK
    <2>6. \A q \in Page : page_table'[q].resident = page_table[q].resident
      BY <2>1, <2>2, <2>3, <2>4 DEF TypeOK
    <2>7. PolicyTracksResidents'
      BY <1>7, <2>6 DEF PolicyTracksResidents, resident
    <2>8. ChangesAreNoticed'
      <3> SUFFICES ASSUME NEW q \in Page
                   PROVE  Noticed(q)'
        BY DEF ChangesAreNoticed
      <3>1. Noticed(q) /\ Noticed(access.page)
        BY <2>1 DEF ChangesAreNoticed
      <3>2. page_table'[q] = IF q = access.page THEN e ELSE page_table[q]
        BY <2>4 DEF TypeOK
      <3> QED
        BY <1>7, <2>2, <2>3, <3>1, <3>2 DEF Noticed, resident, Cleared
    <2> QED
      BY <2>5, <2>7, <2>8
  <1>8. ASSUME Tick
        PROVE  IndInv'
    <2> USE <1>8 DEF Tick
    <2>1. age_table' \in Seq(Nat) /\ Len(age_table') = Len(pages)
      <3>1. Len(pages) \in Nat
        BY DEF TypeOK
      <3>2. \A i \in 1..Len(pages) : Shifted(i) \in Nat
        BY AgeAssumption DEF Shifted, TypeOK, PolicyTracksResidents
      <3>3. age_table' \in [1..Len(pages) -> Nat]
        BY <3>2
      <3> QED
        BY <3>1, <3>3, FunctionIsSeq
    <2>2. \A p \in Page :
            /\ Unaccessed(page_table[p]) \in Entry
            /\ Unaccessed(page_table[p]).resident = page_table[p].resident
            /\ Unaccessed(page_table[p]).dirty = page_table[p].dirty
      BY DEF Unaccessed, TypeOK
    <2>3. TypeOK'
      <3>1. page_table' \in [Page -> Entry]
        BY <2>2 DEF TypeOK
      <3>2. ticks' \in 0..MaxTicks
        BY MaxTicksAssumption DEF TypeOK
      <3>3. idle' \in [Page -> 0..AgeBits]
        <4> SUFFICES ASSUME NEW p \in Page
                     PROVE  idle'[p] \in 0..AgeBits
          BY DEF TypeOK
        <4>1. AgeBits \in Nat /\ idle[p] \in 0..AgeBits
          BY AgeAssumption DEF TypeOK
        <4>2. \/ idle'[p] = 0
              \/ idle'[p] = AgeBits
              \/ idle[p] # AgeBits /\ idle'[p] = idle[p] + 1
          BY DEF TypeOK
        <4> QED
          BY <4>1, <4>2
      <3> QED
        BY <2>1, <3>1, <3>2, <3>3 DEF TypeOK
    <2>4. PolicyTracksResidents'
      BY <2>1, <2>2 DEF PolicyTracksResidents, TypeOK, resident
    <2>5. ChangesAreNoticed'
      <3> SUFFICES ASSUME NEW p \in Page
                   PROVE  Noticed(p)'
        BY DEF ChangesAreNoticed
      <3>1. Noticed(p) /\ page_table[p] \in Entry
        BY DEF ChangesAreNoticed, Noticed, TypeOK
      <3>2. page_table'[p] = Unaccessed(page_table[p]) \/ page_table'[p] = page_table[p]
        OBVIOUS
      <3>3. CASE page_table'[p] = page_table[p]
        BY <3>1, <3>3 DEF Noticed, resident
      <3>4. CASE page_table'[p] # page_table[p]
        <4>1. /\ page_table[p].accessed
              /\ page_table'[p] = [page_table[p] EXCEPT !.accessed = FALSE,
                                                       !.perm = "NONE"]
          BY <3>2, <3>4 DEF Unaccessed
        <4>2. /\ page_table'[p].resident = page_table[p].resident
              /\ page_table'[p].dirty = page_table[p].dirty
              /\ page_table'[p].accessed = FALSE
              /\ page_table'[p].perm = "NONE"
          BY <3>1, <4>1
        <4>3. resident(p)
          BY <3>1, <4>1 DEF Noticed, Cleared
        <4> QED
          BY <3>1, <4>2, <4>3 DEF Noticed, resident
      <3> QED
        BY <3>3, <3>4
    <2> QED
      BY <2>3, <2>4, <2>5
  <1>9. ASSUME Cleanup
        PROVE  IndInv'
    <2> USE <1>9 DEF Cleanup
    <2>1. TypeOK'
      BY DEF TypeOK
    <2> QED
      BY <2>1 DEF PolicyTracksResidents, ChangesAreNoticed, Noticed, resident
  <1>10. ASSUME SystemCallFails \/ Exit \/ TickTooLate
         PROVE  IndInv'
    <2> USE <1>10 DEF SystemCallFails, Exit, TickTooLate, memVars, policyVars
    <2>1. TypeOK'
      BY DEF TypeOK
    <2> QED
      BY <2>1 DEF PolicyTracksResidents, ChangesAreNoticed, Noticed, resident
  <1>11. CASE Over \/ UNCHANGED vars
    BY <1>11 DEF Over, vars, memVars, policyVars, TypeOK, PolicyTracksResidents,
                 ChangesAreNoticed, Noticed, resident
  <1> QED
    BY <1>1, <1>2, <1>3, <1>4, <1>5, <1>6, <1>7, <1>8, <1>9, <1>10, <1>11
       DEF Next, Handler

LEMMA Invariant == Spec => []IndInv
  BY InitInv, StepInv, PTL DEF Spec

\* Every variable keeps its type: num_resident never passes max_resident, and
\* every page in memory or in the swap file holds a value the program wrote, or
\* zeros.
THEOREM TypesHold == Spec => []TypeOK
  BY Invariant, PTL DEF IndInv

\* Through any number of faults and evictions, whatever the policy, its list
\* holds each resident page once and no other page (the assertions of map_page,
\* unmap_page and policy_page_mapped never fail).
THEOREM PolicyAgreesWithTable == Spec => []PolicyTracksResidents
  BY Invariant, PTL DEF IndInv

\* Whatever the timer takes back in between, a page that may be written is
\* dirty and a clean one equals its slot of the swap file, so unmap_page may
\* drop it.
THEOREM CleanPagesAreSaved == Spec => []ChangesAreNoticed
  BY Invariant, PTL DEF IndInv

-----------------------------------------------------------------------------
(* The pool is a memory *)

\* No fault, no eviction and no tick changes what the program would read.
LEMMA ContentsKept ==
  ASSUME IndInv, Handler \/ Tick
  PROVE  Contents' = Contents
  <1> USE DEF IndInv, Entry, Permission
  <1> SUFFICES ASSUME NEW q \in Page
               PROVE  (IF resident(q) THEN frame[q] ELSE swap[q])'
                        = IF resident(q) THEN frame[q] ELSE swap[q]
    BY DEF Contents
  <1>1. CASE FaultWithRoom
    <2> USE <1>1 DEF FaultWithRoom, Pending, Mapped, Cleared
    <2>1. access.page \in Page
      BY DEF TypeOK, Access
    <2> QED
      BY <2>1 DEF TypeOK, resident
  <1>2. ASSUME NEW i \in 1..Len(pages), FaultEvicting(i)
        PROVE  (IF resident(q) THEN frame[q] ELSE swap[q])'
                 = IF resident(q) THEN frame[q] ELSE swap[q]
    <2> DEFINE victim == pages[i]
               p == access.page
    <2>1. /\ p \in Page /\ ~resident(p)
          /\ victim \in Page /\ resident(victim)
          /\ victim # p
      BY <1>2, VictimIsResident
    <2>2. /\ page_table' = [page_table EXCEPT ![victim] = Cleared, ![p] = Mapped]
          /\ frame' = [frame EXCEPT ![victim] = Zero, ![p] = swap[p]]
          /\ swap' = Saved(victim)
      BY <1>2 DEF FaultEvicting
    <2> HIDE DEF victim, p
    <2>3. swap'[victim] = frame[victim]
      BY <2>1, <2>2 DEF Saved, ChangesAreNoticed, Noticed, TypeOK
    <2>4. CASE q = victim
      BY <2>1, <2>2, <2>3, <2>4 DEF Cleared, resident, TypeOK
    <2>5. CASE q = p
      BY <2>1, <2>2, <2>5 DEF Mapped, Cleared, resident, TypeOK
    <2>6. CASE q # victim /\ q # p
      BY <2>1, <2>2, <2>6 DEF Saved, resident, TypeOK
    <2> QED
      BY <2>4, <2>5, <2>6
  <1>3. CASE FaultOnAccess \/ FaultOnWrite
    <2>1. /\ frame' = frame /\ swap' = swap
          /\ page_table'[q].resident = page_table[q].resident
      <3>1. page_table[q] \in Entry /\ q \in DOMAIN page_table
        BY DEF TypeOK
      <3>2. CASE FaultOnAccess
        BY <3>1, <3>2 DEF FaultOnAccess
      <3>3. CASE FaultOnWrite
        BY <3>1, <3>3 DEF FaultOnWrite
      <3> QED
        BY <1>3, <3>2, <3>3
    <2> QED
      BY <2>1 DEF resident
  <1>4. CASE Tick
    <2>1. /\ frame' = frame /\ swap' = swap
          /\ page_table'[q].resident = page_table[q].resident
      BY <1>4 DEF Tick, Unaccessed, TypeOK
    <2> QED
      BY <2>1 DEF resident
  <1> QED
    BY <1>1, <1>2, <1>3, <1>4 DEF Handler

LEMMA StepsAreMemorySteps == IndInv /\ [Next]_vars => [Memory!Next]_Memory!vars
  <1> SUFFICES ASSUME IndInv, [Next]_vars
               PROVE  [Memory!Next]_Memory!vars
    OBVIOUS
  <1> USE DEF IndInv, Memory!vars
  <1>1. ASSUME NEW a \in Program, Ask(a)
        PROVE  Memory!Ask
    <2>1. a \in Memory!Access
      BY ProgramAssumption DEF Access, Memory!Access
    <2> QED
      BY <1>1, <2>1 DEF Ask, memVars, Memory!Ask, Contents, resident
  <1>2. ASSUME Pending, Allowed(access)
        PROVE  access.page \in Page /\ resident(access.page)
    <2>1. access.page \in Page
      BY <1>2 DEF Pending, TypeOK, Access
    <2> QED
      BY <1>2, <2>1 DEF Allowed, ChangesAreNoticed, Noticed, Cleared
  <1>3. ASSUME PerformRead
        PROVE  Memory!Read
    <2>1. Contents[access.page] = frame[access.page]
      BY <1>2, <1>3 DEF PerformRead, Contents
    <2> QED
      BY <1>3, <2>1 DEF PerformRead, Pending, memVars, Memory!Read, Contents, resident
  <1>4. ASSUME PerformWrite
        PROVE  Memory!Write
    <2>1. access.page \in Page /\ resident(access.page)
      BY <1>2, <1>4 DEF PerformWrite
    <2>2. Contents' = [Contents EXCEPT ![access.page] = access.value]
      BY <1>4, <2>1 DEF PerformWrite, Contents, resident, TypeOK
    <2> QED
      BY <1>4, <2>2 DEF PerformWrite, Pending, Memory!Write
  <1>5. ASSUME Handler \/ Tick
        PROVE  UNCHANGED Memory!vars
    BY <1>5, ContentsKept DEF Handler, FaultWithRoom, FaultEvicting, FaultOnAccess,
                              FaultOnWrite, Tick
  <1>6. ASSUME SystemCallFails \/ Cleanup \/ Exit \/ TickTooLate \/ Over \/ UNCHANGED vars
        PROVE  UNCHANGED Memory!vars
    BY <1>6 DEF SystemCallFails, Cleanup, Exit, TickTooLate, Over, vars, memVars,
                policyVars, Contents, resident
  <1> QED
    BY <1>1, <1>3, <1>4, <1>5, <1>6 DEF Next, Memory!Next

\* The virtual memory implements an array of pages: what the program reads is
\* what it last wrote, for any number of pages and frames, under each policy and
\* wherever the timer ticks.
THEOREM ImplementsMemory == Spec => IsMemory
  <1>1. Init => Memory!Init
    BY DEF Init, Memory!Init, Contents, resident, Cleared
  <1> QED
    BY <1>1, Invariant, StepsAreMemorySteps, PTL DEF Spec, IsMemory, Memory!Spec

-----------------------------------------------------------------------------
(* The aging policy gives up what was used least recently *)

LEMMA PowersGrow ==
  ASSUME NEW m \in 0..AgeBits, NEW n \in m..AgeBits
  PROVE  2 ^ m <= 2 ^ n
  <1> DEFINE T == {k \in m..AgeBits : ~ (2 ^ m <= 2 ^ k)}
  <1>0. AgeBits \in Nat
    BY AgeAssumption
  <1>1. SUFFICES ASSUME T # {} PROVE FALSE
    OBVIOUS
  <1>2. PICK x \in T : \A y \in T : x <= y
    <2>1. T \in SUBSET Nat
      BY <1>0
    <2> QED
      BY <1>1, <2>1, LeastElement
  <1>3. 2 ^ m \in Nat
    BY <1>0, PowersAssumption
  <1>4. x # m
    BY <1>2, <1>3
  <1>5. x - 1 \in m..AgeBits /\ x - 1 \in 0..AgeBits /\ (x - 1) + 1 = x
    BY <1>0, <1>2, <1>4
  <1>6. x - 1 \notin T
    BY <1>0, <1>2
  <1>7. 2 ^ m <= 2 ^ (x - 1)
    BY <1>5, <1>6
  <1>8. 2 ^ (x - 1) \in Nat /\ 2 ^ x = 2 * 2 ^ (x - 1)
    BY <1>5, PowersAssumption
  <1>9. 2 ^ m <= 2 ^ x
    BY <1>3, <1>7, <1>8
  <1> QED
    BY <1>2, <1>9

\* Of two ages the lower belongs to the page that has been idle for longer.
LEMMA AgesCompare ==
  ASSUME NEW m \in Nat, NEW j \in 0..AgeBits, AgeTells(m, j),
         NEW n \in Nat, NEW k \in 0..AgeBits, AgeTells(n, k),
         m <= n
  PROVE  j >= k
  <1>0. AgeBits \in Nat
    BY AgeAssumption
  <1>1. SUFFICES ASSUME j < k PROVE FALSE
    BY <1>0
  <1> DEFINE low == AgeBits - k
             high == AgeBits - 1 - j
  <1>2. low \in 0..AgeBits /\ high \in low..AgeBits /\ high \in 0..AgeBits
    BY <1>0, <1>1
  <1>3. 2 ^ low <= 2 ^ high
    <2> HIDE DEF low, high
    <2> QED
      BY <1>2, PowersGrow
  <1>4. 2 ^ low \in Nat /\ 2 ^ high \in Nat
    <2> HIDE DEF low, high
    <2> QED
      BY <1>2, PowersAssumption
  <1>5. n < 2 ^ low
    BY DEF AgeTells
  <1>6. m >= 2 ^ high
    <2>1. j < AgeBits
      BY <1>0, <1>1
    <2> QED
      BY <2>1 DEF AgeTells
  <1> HIDE DEF low, high
  <1> QED
    BY <1>3, <1>4, <1>5, <1>6

LEMMA NewAgeTells == AgeTells(TopBit, 0)
  <1>1. AgeBits \in Nat \ {0} /\ TopBit \in Nat \ {0} /\ TopBit = 2 ^ (AgeBits - 1)
    BY AgeAssumption
  <1>2. AgeBits - 1 \in 0..AgeBits /\ (AgeBits - 1) + 1 = AgeBits
    BY <1>1
  <1>3. 2 ^ AgeBits = 2 * 2 ^ (AgeBits - 1)
    BY <1>2, PowersAssumption
  <1>4. AgeBits - 0 = AgeBits /\ AgeBits - 1 - 0 = AgeBits - 1
    BY <1>1
  <1> QED
    BY <1>1, <1>3, <1>4 DEF AgeTells

\* A tick at which the page was accessed, and one at which it was not.
LEMMA TickTells ==
  ASSUME NEW n \in Nat, NEW k \in 0..AgeBits, AgeTells(n, k)
  PROVE  /\ AgeTells((n \div 2) + TopBit, 0)
         /\ k < AgeBits => AgeTells(n \div 2, k + 1)
         /\ k = AgeBits => AgeTells(n \div 2, k)
  <1>0. AgeBits \in Nat \ {0} /\ TopBit \in Nat \ {0} /\ TopBit = 2 ^ (AgeBits - 1)
    BY AgeAssumption
  <1>1. n \div 2 \in Nat /\ 2 * (n \div 2) <= n /\ n <= 2 * (n \div 2) + 1
    OBVIOUS
  <1>2. n < 2 * TopBit
    BY DEF AgeTells
  <1>3. AgeTells((n \div 2) + TopBit, 0)
    <2>1. AgeBits - 1 \in 0..AgeBits /\ (AgeBits - 1) + 1 = AgeBits
      BY <1>0
    <2>2. 2 ^ AgeBits = 2 * TopBit
      BY <1>0, <2>1, PowersAssumption
    <2>3. AgeBits - 0 = AgeBits /\ AgeBits - 1 - 0 = AgeBits - 1
      BY <1>0
    <2>4. (n \div 2) + TopBit < 2 * TopBit /\ (n \div 2) + TopBit >= TopBit
      BY <1>0, <1>1, <1>2
    <2> QED
      BY <1>0, <2>2, <2>3, <2>4 DEF AgeTells
  <1>4. ASSUME k < AgeBits PROVE AgeTells(n \div 2, k + 1)
    <2> DEFINE h == AgeBits - (k + 1)
    <2>1. h \in 0..AgeBits /\ h + 1 = AgeBits - k /\ AgeBits - 1 - k = h
      BY <1>0, <1>4
    <2>2. 2 ^ h \in Nat /\ 2 ^ (AgeBits - k) = 2 * 2 ^ h
      <3>1. 2 ^ h \in Nat /\ 2 ^ (h + 1) = 2 * 2 ^ h
        <4> HIDE DEF h
        <4> QED
          BY <2>1, PowersAssumption
      <3> QED
        BY <2>1, <3>1
    <2>3. n \div 2 < 2 ^ h
      <3>1. n < 2 ^ (AgeBits - k)
        BY DEF AgeTells
      <3> HIDE DEF h
      <3> QED
        BY <1>1, <2>2, <3>1
    <2>4. ASSUME k + 1 < AgeBits PROVE n \div 2 >= 2 ^ (AgeBits - 1 - (k + 1))
      <3> DEFINE g == AgeBits - 1 - (k + 1)
      <3>1. g \in 0..AgeBits /\ g + 1 = AgeBits - 1 - k
        BY <1>0, <2>4
      <3>2. 2 ^ g \in Nat /\ 2 ^ (g + 1) = 2 * 2 ^ g
        <4> HIDE DEF g
        <4> QED
          BY <3>1, PowersAssumption
      <3>3. n >= 2 ^ (AgeBits - 1 - k)
        BY <1>4 DEF AgeTells
      <3>4. n >= 2 * 2 ^ g
        BY <3>1, <3>2, <3>3
      <3> HIDE DEF g
      <3>5. n \div 2 >= 2 ^ g
        BY <1>1, <3>2, <3>4
      <3> QED
        BY <3>5 DEF g
    <2>5. n \div 2 < 2 * TopBit
      BY <1>0, <1>1, <1>2
    <2> QED
      BY <2>3, <2>4, <2>5 DEF AgeTells
  <1>5. ASSUME k = AgeBits PROVE AgeTells(n \div 2, k)
    <2>1. n < 2 ^ (AgeBits - k)
      BY DEF AgeTells
    <2>2. 2 ^ (AgeBits - k) \in Nat
      <3>1. AgeBits - k = 0 /\ 0 \in 0..AgeBits
        BY <1>0, <1>5
      <3> QED
        BY <3>1, PowersAssumption
    <2>3. n \div 2 < 2 ^ (AgeBits - k)
      BY <1>1, <2>1, <2>2
    <2>4. n \div 2 < 2 * TopBit /\ ~ (k < AgeBits)
      BY <1>0, <1>1, <1>2, <1>5
    <2> QED
      BY <2>3, <2>4 DEF AgeTells
  <1> QED
    BY <1>3, <1>4, <1>5

\* What is left in both arrays of the aging policy is left at the same places.
MovedTogether(q, z, i, j) ==
  \E m \in 1..Len(q) : /\ m # i
                        /\ Without(q, i)[j] = q[m]
                        /\ Without(z, i)[j] = z[m]

LEMMA WithoutMovesBoth ==
  ASSUME policy = "aging", NEW q, NEW z, Len(q) = Len(z), Len(q) \in Nat,
         NEW i \in 1..Len(q), NEW j \in 1..(Len(q) - 1)
  PROVE  MovedTogether(q, z, i, j)
  <1> DEFINE m == IF j = i THEN Len(q) ELSE j
  <1>1. m \in 1..Len(q) /\ m # i
    OBVIOUS
  <1>2. Without(q, i)[j] = q[m] /\ Without(z, i)[j] = z[m]
    BY DEF Without, LastInPlaceOf, Last
  <1> HIDE DEF m
  <1> QED
    BY <1>1, <1>2 DEF MovedTogether

\* Neither a fault on a mapped page nor a tick maps or unmaps one.
LEMMA ResidentsStay ==
  ASSUME TypeOK, FaultOnAccess \/ FaultOnWrite \/ Tick, NEW r \in Page
  PROVE  resident(r)' <=> resident(r)
  <1>1. page_table[r] \in Entry /\ r \in DOMAIN page_table
    BY DEF TypeOK
  <1>2. CASE FaultOnAccess
    BY <1>1, <1>2 DEF FaultOnAccess, resident, Entry
  <1>3. CASE FaultOnWrite
    BY <1>1, <1>3 DEF FaultOnWrite, resident, Entry
  <1>4. CASE Tick
    BY <1>1, <1>4 DEF Tick, Unaccessed, resident, Entry
  <1> QED
    BY <1>2, <1>3, <1>4

LEMMA InitAges == Init => AgesTellIdle
  BY DEF Init, AgesTellIdle

LEMMA StepAges == IndInv /\ AgesTellIdle /\ [Next]_vars => AgesTellIdle'
  <1> SUFFICES ASSUME IndInv, AgesTellIdle, [Next]_vars, (phase = "up" /\ policy = "aging")'
               PROVE  /\ \A p \in Page : ~resident(p)' => idle'[p] = 0
                      /\ \A i \in 1..Len(pages') : AgeTells(age_table'[i], idle'[pages'[i]])
    BY DEF AgesTellIdle
  <1>0. phase = "up" /\ policy = "aging"
    BY DEF Next, Ask, PerformRead, PerformWrite, Handler, FaultWithRoom, FaultEvicting,
           FaultOnAccess, FaultOnWrite, SystemCallFails, Tick, Cleanup, Exit, TickTooLate,
           Over, vars
  <1>1. /\ \A p \in Page : ~resident(p) => idle[p] = 0
        /\ \A i \in 1..Len(pages) : AgeTells(age_table[i], idle[pages[i]])
    BY <1>0 DEF AgesTellIdle
  <1>2. TypeOK /\ IndInv'
    BY StepInv DEF IndInv
  <1>3. /\ \A p \in Page : p \in ToSet(pages) <=> resident(p)
        /\ Len(pages) \in Nat /\ Len(age_table) = Len(pages)
        /\ \A i \in 1..Len(pages) : pages[i] \in Page /\ pages[i] \in ToSet(pages)
                                    /\ age_table[i] \in Nat /\ idle[pages[i]] \in 0..AgeBits
    <2>1. /\ \A p \in Page : p \in ToSet(pages) <=> resident(p)
          /\ Len(age_table) = Len(pages)
      BY <1>0 DEF IndInv, PolicyTracksResidents
    <2>2. ASSUME NEW i \in 1..Len(pages)
          PROVE  /\ pages[i] \in Page /\ pages[i] \in ToSet(pages)
                 /\ age_table[i] \in Nat /\ idle[pages[i]] \in 0..AgeBits
      <3>1. pages[i] \in Page /\ i \in 1..Len(age_table)
        BY <1>2, <2>1 DEF TypeOK
      <3>2. pages[i] \in ToSet(pages)
        BY <1>2 DEF TypeOK, ToSet
      <3>3. age_table[i] \in Nat /\ idle[pages[i]] \in 0..AgeBits
        BY <1>2, <3>1 DEF TypeOK
      <3> QED
        BY <3>1, <3>2, <3>3
    <2>3. Len(pages) \in Nat
      BY <1>2 DEF TypeOK
    <2> QED
      BY <2>1, <2>2, <2>3
  <1>4. CASE FaultWithRoom
    <2> DEFINE p == access.page
    <2>1. /\ p \in Page /\ ~resident(p)
          /\ page_table' = [page_table EXCEPT ![p] = Mapped]
          /\ pages' = Append(pages, p) /\ age_table' = Append(age_table, TopBit)
          /\ idle' = idle
      BY <1>2, <1>4 DEF FaultWithRoom, Pending, TypeOK, Access
    <2>2. idle[p] = 0
      BY <1>1, <2>1
    <2> HIDE DEF p
    <2>3. \A r \in Page : ~resident(r)' => ~resident(r)
      BY <1>2, <2>1 DEF resident, Mapped, Cleared, TypeOK
    <2>4. ASSUME NEW i \in 1..Len(pages') PROVE AgeTells(age_table'[i], idle'[pages'[i]])
      <3>1. Len(pages') = Len(pages) + 1
        BY <1>2, <2>1 DEF TypeOK
      <3>2. CASE i = Len(pages) + 1
        <4>1. pages'[i] = p /\ age_table'[i] = TopBit
          BY <1>2, <1>3, <2>1, <3>2 DEF TypeOK
        <4> QED
          BY <2>1, <2>2, <4>1, NewAgeTells
      <3>3. CASE i # Len(pages) + 1
        <4>1. i \in 1..Len(pages)
          BY <1>3, <3>1, <3>3
        <4>2. pages'[i] = pages[i] /\ age_table'[i] = age_table[i]
          BY <1>2, <1>3, <2>1, <4>1 DEF TypeOK
        <4> QED
          BY <1>1, <2>1, <4>1, <4>2
      <3> QED
        BY <3>2, <3>3
    <2>5. ASSUME NEW r \in Page, ~resident(r)' PROVE idle'[r] = 0
      BY <1>1, <2>1, <2>3, <2>5
    <2> QED
      BY <2>4, <2>5
  <1>5. ASSUME NEW i \in 1..Len(pages), FaultEvicting(i)
        PROVE  /\ \A p \in Page : ~resident(p)' => idle'[p] = 0
               /\ \A j \in 1..Len(pages') : AgeTells(age_table'[j], idle'[pages'[j]])
    <2> DEFINE victim == pages[i]
               p == access.page
    <2>1. /\ p \in Page /\ ~resident(p) /\ victim \in Page /\ victim # p
      BY <1>5, VictimIsResident
    <2>2. /\ page_table' = [page_table EXCEPT ![victim] = Cleared, ![p] = Mapped]
          /\ pages' = Append(Without(pages, i), p)
          /\ age_table' = Append(Without(age_table, i), TopBit)
          /\ idle' = [idle EXCEPT ![victim] = 0]
      BY <1>5 DEF FaultEvicting
    <2>3. /\ Without(pages, i) \in Seq(Page) /\ Len(Without(pages, i)) = Len(pages) - 1
          /\ Without(age_table, i) \in Seq(Nat) /\ Len(Without(age_table, i)) = Len(pages) - 1
      <3>1. IsInjective(pages) /\ (policy = "fifo" => i = 1)
        BY <1>0 DEF IndInv, PolicyTracksResidents
      <3>2. /\ Without(pages, i) \in Seq(Page)
            /\ Len(Without(pages, i)) = Len(pages) - 1
        BY <1>2, <3>1, WithoutOnce DEF TypeOK
      <3> QED
        BY <1>2, <1>3, <3>2, WithoutKeepsNats DEF TypeOK
    <2>4. idle[p] = 0 /\ idle'[p] = 0
      BY <1>1, <1>2, <2>1, <2>2 DEF TypeOK
    <2>5. \A r \in Page : /\ ~resident(r)' => r = victim \/ ~resident(r)
                          /\ r # victim => idle'[r] = idle[r]
                          /\ r = victim => idle'[r] = 0
      BY <1>2, <2>1, <2>2 DEF resident, Mapped, Cleared, TypeOK
    <2>6. IsInjective(pages)
      BY <1>0 DEF IndInv, PolicyTracksResidents
    <2>7. ASSUME NEW j \in 1..Len(pages') PROVE AgeTells(age_table'[j], idle'[pages'[j]])
      <3>1. Len(pages') = Len(pages)
        BY <1>3, <2>1, <2>2, <2>3
      <3>2. CASE j = Len(pages)
        <4>1. pages'[j] = p /\ age_table'[j] = TopBit
          BY <1>3, <2>1, <2>2, <2>3, <3>2
        <4> QED
          BY <2>4, <4>1, NewAgeTells
      <3>3. CASE j # Len(pages)
        <4>1. j \in 1..(Len(pages) - 1)
          BY <1>3, <3>1, <3>3
        <4>2. pages'[j] = Without(pages, i)[j] /\ age_table'[j] = Without(age_table, i)[j]
          <5> HIDE DEF p, victim
          <5> QED
            BY <2>1, <2>2, <2>3, <4>1, AgeAssumption
        <4>3. PICK m \in 1..Len(pages) : /\ m # i
                                         /\ Without(pages, i)[j] = pages[m]
                                         /\ Without(age_table, i)[j] = age_table[m]
          <5>1. MovedTogether(pages, age_table, i, j)
            BY <1>0, <1>3, <4>1, WithoutMovesBoth
          <5> QED
            BY <5>1 DEF MovedTogether
        <4>4. pages[m] # victim
          BY <1>2, <2>6, <4>3 DEF IsInjective, TypeOK
        <4>5. idle'[pages[m]] = idle[pages[m]]
          BY <1>3, <2>5, <4>4
        <4> QED
          BY <1>1, <4>2, <4>3, <4>5
      <3> QED
        BY <3>2, <3>3
    <2> QED
      BY <1>1, <2>5, <2>7
  <1>6. CASE FaultOnAccess \/ FaultOnWrite
    <2>1. UNCHANGED <<pages, age_table, idle>>
      BY <1>6 DEF FaultOnAccess, FaultOnWrite, policyVars
    <2>2. ASSUME NEW r \in Page PROVE resident(r)' <=> resident(r)
      BY <1>2, <1>6, ResidentsStay
    <2> QED
      BY <1>1, <2>1, <2>2
  <1>7. CASE Tick
    <2>1. /\ pages' = pages
          /\ age_table' = [i \in 1..Len(pages) |-> Shifted(i)]
      BY <1>7 DEF Tick
    <2>2. ASSUME NEW r \in Page
          PROVE  /\ ~resident(r) \/ page_table[r].accessed => idle'[r] = 0
                 /\ resident(r) /\ ~page_table[r].accessed =>
                      idle'[r] = IF idle[r] = AgeBits THEN AgeBits ELSE idle[r] + 1
      BY <1>7 DEF Tick
    <2>3. \A r \in Page : resident(r)' <=> resident(r)
      BY <1>2, <1>7, ResidentsStay
    <2>4. ASSUME NEW i \in 1..Len(pages) PROVE AgeTells(age_table'[i], idle'[pages[i]])
      <3> DEFINE n == age_table[i]
                 k == idle[pages[i]]
      <3>1. /\ n \in Nat /\ k \in 0..AgeBits /\ AgeTells(n, k)
            /\ pages[i] \in Page /\ resident(pages[i])
        BY <1>1, <1>3
      <3>2. age_table'[i] = (n \div 2) + IF page_table[pages[i]].accessed THEN TopBit ELSE 0
        BY <2>1 DEF Shifted
      <3>3. /\ AgeTells((n \div 2) + TopBit, 0)
            /\ k < AgeBits => AgeTells(n \div 2, k + 1)
            /\ k = AgeBits => AgeTells(n \div 2, k)
        <4> HIDE DEF n, k
        <4> QED
          BY <3>1, TickTells
      <3>4. CASE page_table[pages[i]].accessed
        <4>1. age_table'[i] = (n \div 2) + TopBit /\ idle'[pages[i]] = 0
          BY <2>2, <3>1, <3>2, <3>4
        <4> QED
          BY <3>3, <4>1
      <3>5. CASE ~page_table[pages[i]].accessed
        <4>1. age_table'[i] = n \div 2
          BY <3>1, <3>2, <3>5
        <4>2. idle'[pages[i]] = IF k = AgeBits THEN AgeBits ELSE k + 1
          BY <2>2, <3>1, <3>5
        <4>3. k = AgeBits \/ k < AgeBits
          BY <3>1, AgeAssumption
        <4> HIDE DEF n, k
        <4>4. CASE k = AgeBits
          BY <3>3, <4>1, <4>2, <4>4
        <4>5. CASE k < AgeBits
          <5>1. idle'[pages[i]] = k + 1
            BY <3>1, <4>2, <4>5, AgeAssumption
          <5> QED
            BY <3>3, <4>1, <4>5, <5>1
        <4> QED
          BY <4>3, <4>4, <4>5
      <3> QED
        BY <3>4, <3>5
    <2> QED
      BY <2>1, <2>2, <2>3, <2>4
  <1>8. CASE UNCHANGED <<page_table, policyVars, idle>>
    BY <1>1, <1>8 DEF policyVars, resident
  <1> QED
    BY <1>0, <1>4, <1>5, <1>6, <1>7, <1>8
       DEF Next, Handler, Ask, PerformRead, PerformWrite, SystemCallFails, Cleanup, Exit,
           TickTooLate, Over, vars, memVars, policyVars

\* The aging policy, whose ages are right, evicts the page that has been idle for longest,
\* though its arrays are reordered by every eviction, for any width of the ages.
THEOREM VictimsAreLeastRecent == Spec => VictimIsLeastRecent
  <1>1. ASSUME IndInv, AgesTellIdle, [Next]_vars, policy = "aging",
               NEW p \in Page, NEW q \in Page,
               resident(p) /\ ~resident(p)', resident(q) /\ resident(q)'
        PROVE  idle[p] >= idle[q]
    <2>0. p # q
      BY <1>1
    <2>1. PICK i \in 1..Len(pages) : FaultEvicting(i) /\ p = pages[i]
      <3>1. TypeOK /\ page_table[p] \in Entry
        BY <1>1 DEF IndInv, TypeOK
      <3>2. ~ FaultWithRoom
        BY <1>1, <3>1 DEF FaultWithRoom, resident, Mapped, Cleared, TypeOK
      <3>3. ~ FaultOnAccess /\ ~ FaultOnWrite
        BY <1>1, <3>1, ResidentsStay
      <3>4. ~ Tick
        BY <1>1, <3>1, ResidentsStay
      <3>5. ~ UNCHANGED page_table
        BY <1>1 DEF resident
      <3>6. PICK i \in 1..Len(pages) : FaultEvicting(i)
        BY <1>1, <3>2, <3>3, <3>4, <3>5
           DEF Next, Handler, Ask, PerformRead, PerformWrite, SystemCallFails, Cleanup, Exit,
               TickTooLate, Over, vars, memVars
      <3>7. p = pages[i]
        BY <1>1, <3>1, <3>6 DEF FaultEvicting, resident, Mapped, Cleared, TypeOK
      <3> QED
        BY <3>6, <3>7
    <2>2. phase = "up"
      BY <2>1 DEF FaultEvicting, Pending
    <2>3. TypeOK /\ PolicyTracksResidents
      BY <1>1 DEF IndInv
    <2>4. PICK j \in 1..Len(pages) : q = pages[j]
      BY <1>1, <2>2, <2>3 DEF PolicyTracksResidents, ToSet, TypeOK
    <2>5. age_table[i] <= age_table[j]
      <3>1. j \in 1..Len(age_table)
        BY <2>2, <2>3 DEF PolicyTracksResidents
      <3> QED
        BY <1>1, <2>1, <3>1 DEF FaultEvicting, MayEvict, OldestAt
    <2>6. AgeTells(age_table[i], idle[p]) /\ AgeTells(age_table[j], idle[q])
      BY <1>1, <2>1, <2>2, <2>4 DEF AgesTellIdle
    <2>7. /\ age_table[i] \in Nat /\ age_table[j] \in Nat
          /\ idle[p] \in 0..AgeBits /\ idle[q] \in 0..AgeBits
      BY <2>2, <2>3 DEF PolicyTracksResidents, TypeOK
    <2> QED
      BY <2>5, <2>6, <2>7, AgesCompare
  <1>2. Spec => [](IndInv /\ AgesTellIdle)
    BY InitInv, StepInv, InitAges, StepAges, PTL DEF Spec
  <1>3. IndInv /\ AgesTellIdle /\ [Next]_vars =>
          [policy = "aging" =>
             \A p, q \in Page :
               (resident(p) /\ ~resident(p)') /\ (resident(q) /\ resident(q)')
                 => idle[p] >= idle[q]]_vars
    BY <1>1
  <1> QED
    BY <1>2, <1>3, PTL DEF Spec, VictimIsLeastRecent

=============================================================================
