----------------------------- MODULE QueueLemmas -----------------------------
(***************************************************************************)
(* What the queue and list operations of the thread library and of the     *)
(* page replacement policies do to a sequence that holds each element at   *)
(* most once: append, take, remove, and a last entry that fills a gap. At  *)
(* the end, the least element of a set of numbers.                         *)
(***************************************************************************)
EXTENDS SequencesExt, SequenceTheorems, FiniteSetTheorems, WellFoundedInduction, TLAPS

LEMMA AppendOnce ==
  ASSUME NEW S, NEW q \in Seq(S), IsInjective(q), NEW e \in S, e \notin ToSet(q)
  PROVE  /\ Append(q, e) \in Seq(S)
         /\ IsInjective(Append(q, e))
         /\ ToSet(Append(q, e)) = ToSet(q) \cup {e}
  <1>1. /\ Append(q, e) \in Seq(S)
        /\ DOMAIN q = 1..Len(q)
        /\ DOMAIN Append(q, e) = 1..Len(q) + 1
        /\ \A i \in 1..Len(q) : Append(q, e)[i] = q[i]
        /\ Append(q, e)[Len(q) + 1] = e
        /\ Len(q) \in Nat
    OBVIOUS
  <1> QED
    BY <1>1 DEF IsInjective, ToSet

LEMMA TailOnce ==
  ASSUME NEW S, NEW q \in Seq(S), IsInjective(q), q # <<>>
  PROVE  /\ Head(q) \in S
         /\ Head(q) \in ToSet(q)
         /\ Tail(q) \in Seq(S)
         /\ IsInjective(Tail(q))
         /\ ToSet(Tail(q)) = ToSet(q) \ {Head(q)}
  <1>1. /\ Len(q) \in Nat \ {0}
        /\ Head(q) = q[1]
        /\ Tail(q) \in Seq(S)
        /\ Len(Tail(q)) = Len(q) - 1
        /\ \A i \in 1..Len(q) - 1 : Tail(q)[i] = q[i + 1]
    OBVIOUS
  <1>2. IsInjective(Tail(q))
    BY <1>1 DEF IsInjective
  <1>3. ToSet(Tail(q)) = {q[i + 1] : i \in 1..Len(q) - 1}
    <2>1. DOMAIN Tail(q) = 1..Len(q) - 1
      BY <1>1
    <2> QED
      BY <1>1, <2>1, Zenon DEF ToSet
  <1>4. ToSet(q) = {q[i] : i \in 1..Len(q)}
    BY DEF ToSet
  <1>5. ASSUME NEW x \in ToSet(q), x # Head(q)
        PROVE  x \in ToSet(Tail(q))
    <2>1. PICK i \in 1..Len(q) : x = q[i]
      BY <1>4
    <2>2. i - 1 \in 1..Len(q) - 1 /\ x = q[(i - 1) + 1]
      BY <1>1, <1>5, <2>1
    <2>3. QED
      BY <1>3, <2>2
  <1>6. ASSUME NEW x \in ToSet(Tail(q))
        PROVE  x \in ToSet(q) /\ x # Head(q)
    BY <1>1, <1>3, <1>4, <1>6 DEF IsInjective
  <1>7. Head(q) \in S /\ Head(q) \in ToSet(q)
    BY <1>1, <1>4
  <1> QED
    BY <1>1, <1>2, <1>5, <1>6, <1>7

LEMMA RemoveFirstOnce ==
  ASSUME NEW S, NEW q \in Seq(S), IsInjective(q), NEW e
  PROVE  /\ RemoveFirst(q, e) \in Seq(S)
         /\ IsInjective(RemoveFirst(q, e))
         /\ ToSet(RemoveFirst(q, e)) = ToSet(q) \ {e}
  <1>0. /\ ToSet(q) = {q[i] : i \in 1..Len(q)}
        /\ Len(q) \in Nat /\ DOMAIN q = 1..Len(q)
    BY DEF ToSet
  <1>1. CASE ~\E i \in 1..Len(q) : q[i] = e
    BY <1>0, <1>1 DEF RemoveFirst
  <1>2. CASE \E i \in 1..Len(q) : q[i] = e
    <2>1. PICK k \in 1..Len(q) : q[k] = e
      BY <1>2
    <2>2. {i \in 1..Len(q) : q[i] = e} = {k}
      BY <2>1 DEF IsInjective
    <2>3. Min({k}) = k
      BY <1>0 DEF Min
    <2>4. SelectInSeq(q, LAMBDA v : v = e) = k
      BY <2>2, <2>3 DEF SelectInSeq
    <2> DEFINE r == RemoveFirst(q, e)
               a == SubSeq(q, 1, k - 1)
               b == SubSeq(q, k + 1, Len(q))
    <2>5. r = a \o b
      BY <1>2, <2>4 DEF RemoveFirst, RemoveAt
    <2>6. a \in Seq(S) /\ Len(a) = k - 1 /\ \A i \in 1..k - 1 : a[i] = q[i]
      BY <1>0, <2>1
    <2>7. /\ b \in Seq(S) /\ Len(b) = Len(q) - k
          /\ \A i \in 1..Len(q) - k : b[i] = q[k + i]
      <3>0. k \in Nat /\ k <= Len(q) /\ Len(q) \in Nat
        BY <2>1
      <3>1. /\ b \in Seq(S)
            /\ Len(b) = IF k + 1 <= Len(q) THEN Len(q) - (k + 1) + 1 ELSE 0
            /\ \A i \in 1..Len(q) - (k + 1) + 1 : b[i] = q[(k + 1) + i - 1]
        <4>1. \A i \in k + 1..Len(q) : q[i] \in S
          BY <1>0, <3>0
        <4>2. k + 1 \in Int /\ Len(q) \in Int
          BY <3>0
        <4> QED
          BY <4>1, <4>2, SubSeqProperties
      <3> HIDE DEF b
      <3>2. Len(b) = Len(q) - k
        <4>1. Len(b) = IF k + 1 <= Len(q) THEN Len(q) - (k + 1) + 1 ELSE 0
          BY <3>1
        <4> QED
          BY <3>0, <4>1
      <3>3. ASSUME NEW i \in 1..Len(q) - k
            PROVE  b[i] = q[k + i]
        <4>1. i \in 1..Len(q) - (k + 1) + 1 /\ (k + 1) + i - 1 = k + i
          BY <3>0
        <4> QED
          BY <3>1, <4>1
      <3> QED
        BY <3>1, <3>2, <3>3
    <2> HIDE DEF r, a, b
    <2>8. /\ r \in Seq(S)
          /\ Len(r) = Len(q) - 1
          /\ \A i \in 1..Len(r) : r[i] = IF i < k THEN q[i] ELSE q[i + 1]
      <3>0. \A i \in 1..Len(a) + Len(b) :
              r[i] = IF i <= Len(a) THEN a[i] ELSE b[i - Len(a)]
        BY <2>5, <2>6, <2>7, ConcatProperties
      <3>1. r \in Seq(S) /\ Len(r) = Len(q) - 1
        <4>1. a \in Seq(S) /\ b \in Seq(S)
          BY <2>6, <2>7
        <4>2. r \in Seq(S) /\ Len(r) = Len(a) + Len(b)
          BY <2>5, <4>1, ConcatProperties
        <4> QED
          BY <1>0, <2>1, <2>6, <2>7, <4>2
      <3>2. ASSUME NEW i \in 1..Len(r), i < k
            PROVE  r[i] = q[i]
        <4>1. /\ i \in 1..k - 1 /\ i <= Len(a)
              /\ i \in 1..Len(a) + Len(b)
          BY <1>0, <2>1, <2>6, <2>7, <3>1, <3>2
        <4>2. r[i] = a[i]
          BY <3>0, <4>1
        <4> QED
          BY <2>6, <4>1, <4>2
      <3>3. ASSUME NEW i \in 1..Len(r), ~(i < k)
            PROVE  r[i] = q[i + 1]
        <4>1. /\ i - (k - 1) \in 1..Len(q) - k
              /\ k + (i - (k - 1)) = i + 1
          BY <1>0, <2>1, <3>1, <3>3
        <4>2. /\ i \in 1..Len(a) + Len(b) /\ ~(i <= Len(a))
              /\ i - Len(a) = i - (k - 1)
          BY <1>0, <2>1, <2>6, <2>7, <3>1, <3>3
        <4>3. r[i] = b[i - (k - 1)]
          BY <3>0, <4>2
        <4> QED
          BY <2>7, <4>1, <4>3
      <3> QED
        BY <3>1, <3>2, <3>3
    <2>9. IsInjective(r)
      <3> SUFFICES ASSUME NEW i \in 1..Len(r), NEW j \in 1..Len(r), r[i] = r[j]
                   PROVE  i = j
        BY <2>8 DEF IsInjective
      <3>1. /\ k \in 1..Len(q) /\ Len(q) \in Nat
            /\ i \in 1..Len(q) - 1 /\ j \in 1..Len(q) - 1
        BY <1>0, <2>1, <2>8
      <3>2. /\ i < k => r[i] = q[i]
            /\ ~(i < k) => r[i] = q[i + 1]
            /\ j < k => r[j] = q[j]
            /\ ~(j < k) => r[j] = q[j + 1]
        BY <2>8
      <3>3. \A x, y \in 1..Len(q) : q[x] = q[y] => x = y
        BY <1>0 DEF IsInjective
      <3>4. CASE i < k /\ j < k
        <4>1. i \in 1..Len(q) /\ j \in 1..Len(q)
          BY <3>1, <3>4
        <4>2. q[i] = q[j]
          BY <3>2, <3>4
        <4> QED
          BY <3>3, <4>1, <4>2
      <3>5. CASE i < k /\ ~(j < k)
        <4>1. i \in 1..Len(q) /\ j + 1 \in 1..Len(q)
          BY <3>1, <3>5
        <4>2. q[i] = q[j + 1]
          BY <3>2, <3>5
        <4> QED
          BY <3>1, <3>5, <3>3, <4>1, <4>2
      <3>6. CASE ~(i < k) /\ j < k
        <4>1. i + 1 \in 1..Len(q) /\ j \in 1..Len(q)
          BY <3>1, <3>6
        <4>2. q[i + 1] = q[j]
          BY <3>2, <3>6
        <4> QED
          BY <3>1, <3>6, <3>3, <4>1, <4>2
      <3>7. CASE ~(i < k) /\ ~(j < k)
        <4>1. i + 1 \in 1..Len(q) /\ j + 1 \in 1..Len(q)
          BY <3>1, <3>7
        <4>2. q[i + 1] = q[j + 1]
          BY <3>2, <3>7
        <4> QED
          BY <3>1, <3>3, <4>1, <4>2
      <3> QED
        BY <3>4, <3>5, <3>6, <3>7
    <2>10. ASSUME NEW x \in ToSet(q), x # e
           PROVE  x \in ToSet(r)
      <3>1. PICK i \in 1..Len(q) : x = q[i]
        BY <1>0
      <3>2. CASE i < k
        BY <1>0, <2>8, <3>1, <3>2 DEF ToSet
      <3>3. CASE i > k
        <4>1. i - 1 \in 1..Len(r) /\ r[i - 1] = x
          BY <1>0, <2>8, <3>1, <3>3
        <4> QED
          BY <2>8, <4>1 DEF ToSet
      <3> QED
        BY <2>1, <2>10, <3>1, <3>2, <3>3
    <2>11. ASSUME NEW x \in ToSet(r)
           PROVE  x \in ToSet(q) /\ x # e
      <3>1. PICK i \in 1..Len(r) : x = r[i]
        BY <2>8 DEF ToSet
      <3>2. PICK j \in 1..Len(q) : j # k /\ x = q[j]
        BY <1>0, <2>8, <3>1
      <3> QED
        BY <1>0, <2>1, <3>2 DEF IsInjective
    <2> QED
      BY <2>8, <2>9, <2>10, <2>11 DEF r
  <1> QED
    BY <1>1, <1>2

\* A function from 1..n is a sequence of that length.
LEMMA FunctionIsSeq ==
  ASSUME NEW S, NEW n \in Nat, NEW f \in [1..n -> S]
  PROVE  f \in Seq(S) /\ Len(f) = n
  <1>1. f \in Seq(S)
    BY SeqDef
  <1> QED
    BY <1>1, LenProperties

\* The last entry is moved to place k and the sequence shortened by one.
LEMMA LastFillsGap ==
  ASSUME NEW S, NEW q \in Seq(S), IsInjective(q), NEW k \in 1..Len(q), NEW r,
         r = [j \in 1..Len(q) - 1 |-> IF j = k THEN q[Len(q)] ELSE q[j]]
  PROVE  /\ r \in Seq(S)
         /\ Len(r) = Len(q) - 1
         /\ IsInjective(r)
         /\ ToSet(r) = ToSet(q) \ {q[k]}
  <1>1. /\ Len(q) \in Nat \ {0} /\ DOMAIN q = 1..Len(q)
        /\ \A j \in 1..Len(q) : q[j] \in S
    OBVIOUS
  <1>2. r \in Seq(S) /\ Len(r) = Len(q) - 1
    <2>1. Len(q) - 1 \in Nat /\ r \in [1..Len(q) - 1 -> S]
      BY <1>1
    <2> QED
      BY <2>1, FunctionIsSeq
  <1>3. /\ DOMAIN r = 1..Len(q) - 1
        /\ \A j \in 1..Len(q) - 1 : r[j] = IF j = k THEN q[Len(q)] ELSE q[j]
    OBVIOUS
  <1>4. \A x, y \in 1..Len(q) : q[x] = q[y] => x = y
    BY <1>1 DEF IsInjective
  <1>5. IsInjective(r)
    BY <1>1, <1>3, <1>4 DEF IsInjective
  <1>6. /\ ToSet(q) = {q[j] : j \in 1..Len(q)}
        /\ ToSet(r) = {r[j] : j \in 1..Len(q) - 1}
    BY <1>1, <1>3 DEF ToSet
  <1>7. ASSUME NEW x \in ToSet(q), x # q[k]
        PROVE  x \in ToSet(r)
    <2>1. PICK j \in 1..Len(q) : x = q[j]
      BY <1>6
    <2>2. CASE j = Len(q)
      <3>1. k \in 1..Len(q) - 1 /\ r[k] = x
        BY <1>1, <1>3, <1>7, <2>1, <2>2
      <3> QED
        BY <1>6, <3>1
    <2>3. CASE j # Len(q)
      <3>1. j # k
        BY <1>7, <2>1, Zenon
      <3>2. j \in 1..Len(q) - 1
        BY <2>3
      <3>3. r[j] = x
        BY <1>3, <2>1, <3>1, <3>2
      <3> QED
        BY <1>6, <3>2, <3>3
    <2> QED
      BY <2>2, <2>3
  <1>8. ASSUME NEW x \in ToSet(r)
        PROVE  x \in ToSet(q) /\ x # q[k]
    <2>1. PICK j \in 1..Len(q) - 1 : x = r[j]
      BY <1>6
    <2>2. PICK i \in 1..Len(q) : i # k /\ x = q[i]
      BY <1>1, <1>3, <2>1
    <2> QED
      BY <1>4, <1>6, <2>2
  <1> QED
    BY <1>2, <1>5, <1>7, <1>8

\* s without its place i.
WithoutPlace(s, i) == [j \in 1..Len(s) - 1 |-> IF j < i THEN s[j] ELSE s[j + 1]]

LEMMA GapCloses ==
  ASSUME NEW S, NEW s \in Seq(S), IsInjective(s), NEW i \in 1..Len(s)
  PROVE  /\ WithoutPlace(s, i) \in Seq(S)
         /\ Len(WithoutPlace(s, i)) = Len(s) - 1
         /\ IsInjective(WithoutPlace(s, i))
         /\ ToSet(WithoutPlace(s, i)) = ToSet(s) \ {s[i]}
  <1> DEFINE g == WithoutPlace(s, i)
  <1>1. /\ Len(s) \in Nat \ {0} /\ DOMAIN s = 1..Len(s) /\ i \in Nat /\ i <= Len(s) /\ 1 <= i
        /\ \A j \in 1..Len(s) : s[j] \in S
    OBVIOUS
  <1>2. \A x, y \in 1..Len(s) : s[x] = s[y] => x = y
    BY <1>1 DEF IsInjective
  <1>3. /\ DOMAIN g = 1..Len(s) - 1
        /\ \A j \in 1..Len(s) - 1 : g[j] = IF j < i THEN s[j] ELSE s[j + 1]
    BY DEF WithoutPlace
  <1>4. \A j \in 1..Len(s) - 1 : j \in 1..Len(s) /\ j + 1 \in 1..Len(s)
    BY <1>1
  <1>5. g \in Seq(S) /\ Len(g) = Len(s) - 1
    <2>1. Len(s) - 1 \in Nat /\ g \in [1..Len(s) - 1 -> S]
      BY <1>1, <1>4 DEF WithoutPlace
    <2> HIDE DEF g
    <2> QED
      BY <2>1, FunctionIsSeq
  <1> HIDE DEF g
  <1>6. IsInjective(g)
    <2>1. ASSUME NEW x \in 1..Len(s) - 1, NEW y \in 1..Len(s) - 1, g[x] = g[y]
          PROVE  x = y
      BY <1>1, <1>2, <1>3, <1>4, <2>1
    <2> QED
      BY <1>3, <2>1 DEF IsInjective
  <1>7. ToSet(s) = {s[j] : j \in 1..Len(s)} /\ ToSet(g) = {g[j] : j \in 1..Len(s) - 1}
    BY <1>1, <1>3 DEF ToSet
  <1>8. ASSUME NEW x \in ToSet(s), x # s[i] PROVE x \in ToSet(g)
    <2>1. PICK j \in 1..Len(s) : x = s[j]
      BY <1>7
    <2>2. j # i
      BY <1>8, <2>1, Zenon
    <2>3. CASE j < i
      <3>1. j \in 1..Len(s) - 1 /\ g[j] = s[j]
        BY <1>1, <1>3, <2>3
      <3> QED
        BY <1>7, <2>1, <3>1
    <2>4. CASE ~ (j < i)
      <3>1. j - 1 \in 1..Len(s) - 1 /\ ~ (j - 1 < i) /\ (j - 1) + 1 = j
        BY <1>1, <2>2, <2>4
      <3>2. g[j - 1] = s[j]
        BY <1>3, <3>1
      <3> QED
        BY <1>7, <2>1, <3>1, <3>2
    <2> QED
      BY <2>3, <2>4
  <1>9. ASSUME NEW x \in ToSet(g) PROVE x \in ToSet(s) /\ x # s[i]
    <2>1. PICK j \in 1..Len(s) - 1 : x = g[j]
      BY <1>7
    <2>2. PICK k \in 1..Len(s) : k # i /\ x = s[k]
      BY <1>1, <1>3, <1>4, <2>1
    <2> QED
      BY <1>2, <1>7, <2>2
  <1> QED
    BY <1>5, <1>6, <1>8, <1>9 DEF g

\* RemoveAt of SequencesExt is that.
LEMMA RemoveAtClosesGap ==
  ASSUME NEW S, NEW s \in Seq(S), NEW i \in 1..Len(s)
  PROVE  RemoveAt(s, i) = WithoutPlace(s, i)
  <1> DEFINE a == SubSeq(s, 1, i - 1)
             b == SubSeq(s, i + 1, Len(s))
  <1>1. Len(s) \in Nat /\ i \in Nat /\ 1 <= i /\ i <= Len(s)
    OBVIOUS
  <1>2. /\ a \in Seq(S) /\ Len(a) = i - 1
        /\ \A j \in 1..(i - 1) : a[j] = s[j]
    BY <1>1
  <1>3. /\ b \in Seq(S) /\ Len(b) = Len(s) - i
        /\ \A j \in 1..(Len(s) - i) : b[j] = s[j + i]
    BY <1>1
  <1>4. RemoveAt(s, i) = a \o b
    BY DEF RemoveAt
  <1> HIDE DEF a, b
  <1>5. /\ a \o b \in Seq(S) /\ Len(a \o b) = Len(a) + Len(b)
        /\ \A j \in 1..(Len(a) + Len(b)) :
             (a \o b)[j] = IF j <= Len(a) THEN a[j] ELSE b[j - Len(a)]
    BY <1>2, <1>3, ConcatProperties
  <1>6. Len(a) + Len(b) = Len(s) - 1 /\ Len(s) - 1 \in Nat
    BY <1>1, <1>2, <1>3
  <1>7. ASSUME NEW j \in 1..(Len(s) - 1)
        PROVE  (a \o b)[j] = IF j < i THEN s[j] ELSE s[j + 1]
    <2>1. (a \o b)[j] = IF j <= i - 1 THEN a[j] ELSE b[j - (i - 1)]
      BY <1>2, <1>5, <1>6
    <2>2. CASE j < i
      <3>1. j \in 1..(i - 1) /\ j <= i - 1
        BY <1>1, <2>2
      <3> QED
        BY <1>2, <2>1, <2>2, <3>1
    <2>3. CASE ~(j < i)
      <3>1. j - (i - 1) \in 1..(Len(s) - i) /\ ~(j <= i - 1) /\ (j - (i - 1)) + i = j + 1
        BY <1>1, <2>3
      <3> QED
        BY <1>3, <2>1, <2>3, <3>1
    <2> QED
      BY <2>2, <2>3
  <1> DEFINE g == WithoutPlace(s, i)
  <1>8. /\ g \in Seq(S) /\ Len(g) = Len(s) - 1
        /\ \A j \in 1..(Len(s) - 1) : g[j] = IF j < i THEN s[j] ELSE s[j + 1]
    <2>1. g \in [1..(Len(s) - 1) -> S]
      BY <1>1 DEF WithoutPlace
    <2> QED
      BY <1>6, <2>1, FunctionIsSeq DEF WithoutPlace
  <1> HIDE DEF g
  <1>9. \A j \in 1..Len(g) : g[j] = (a \o b)[j]
    BY <1>7, <1>8
  <1>10. Len(g) = Len(a \o b)
    BY <1>5, <1>6, <1>8
  <1>11. g = a \o b
    BY <1>5, <1>8, <1>9, <1>10, SeqEqual
  <1> QED
    BY <1>4, <1>11 DEF g

-----------------------------------------------------------------------------
(* The least element of a set of numbers, for arguments along a list *)

LEMMA CutIsFinite ==
  ASSUME NEW T \in SUBSET Nat, NEW n \in Nat
  PROVE  IsFiniteSet({k \in T : k < n})
  <1>1. {k \in T : k < n} \in SUBSET Nat
    OBVIOUS
  <1>2. \A s \in {k \in T : k < n} : s <= n
    OBVIOUS
  <1> QED
    BY <1>1, <1>2, FS_BoundedSetOfNaturals

LEMMA LeastElement ==
  ASSUME NEW T \in SUBSET Nat, T # {}
  PROVE  \E x \in T : \A y \in T : x <= y
  <1> DEFINE Cuts == {{k \in T : k < n} : n \in T}
  <1>1. Cuts \subseteq FiniteSubsetsOf(T)
    <2> SUFFICES ASSUME NEW n \in T
                 PROVE  {k \in T : k < n} \in FiniteSubsetsOf(T)
      OBVIOUS
    <2> QED
      BY CutIsFinite DEF FiniteSubsetsOf
  <1>2. IsWellFoundedOn(StrictSubsetOrdering(T), FiniteSubsetsOf(T))
    BY FS_StrictSubsetOrderingWellFounded
  <1>3. Cuts # {}
    OBVIOUS
  <1>4. \E C \in Cuts : \A D \in Cuts : ~ (<<D, C>> \in StrictSubsetOrdering(T))
    <2> HIDE DEF Cuts
    <2> QED
      BY <1>1, <1>2, <1>3, WFMin
  <1>5. PICK x \in T :
          \A D \in Cuts : ~ (<<D, {k \in T : k < x}>> \in StrictSubsetOrdering(T))
    BY <1>4
  <1>6. ASSUME NEW y \in T, y < x PROVE FALSE
    <2> DEFINE D == {k \in T : k < y}
               C == {k \in T : k < x}
    <2>1. D \in Cuts
      OBVIOUS
    <2>2. D \subseteq C /\ C \subseteq T /\ y \in C /\ y \notin D
      <3>1. /\ x \in Nat /\ y \in Nat /\ y < x /\ ~ (y < y)
            /\ \A k \in T : k \in Nat /\ (k < y => k < x)
        BY <1>6
      <3> QED
        BY <3>1
    <2>3. <<D, C>> \in StrictSubsetOrdering(T)
      <3> HIDE DEF D, C
      <3> QED
        BY <2>2 DEF StrictSubsetOrdering
    <2> QED
      BY <2>1, <2>3, <1>5
  <1>7. \A y \in T : x <= y
    BY <1>6
  <1> QED
    BY <1>7

=============================================================================
