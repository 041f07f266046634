-------------------------- MODULE CooperativeProofs ---------------------------
(* The doubly linked lists of lab06 are the queues they stand for, contexts   *)
(* survive the switches, and the library schedules as AbstractThreads says,   *)
(* for any set of threads.                                                    *)
EXTENDS Cooperative, QueueLemmas

-----------------------------------------------------------------------------
(* Lists and the sequences they stand for *)

Queues == {"ready", "blocked"}

\* Along both sequences the links lead to the same threads: a list stands for one
\* sequence at most.
LEMMA OneOrder ==
  ASSUME NEW l, NEW q, NEW s \in Seq(Threads), NEW z \in Seq(Threads),
         Links(l, q, s), Links(l, q, z)
  PROVE  s = z
  <1>0. NULL \notin Threads
    BY ThreadsAssumption
  <1>1. /\ Len(s) \in Nat /\ Len(z) \in Nat
        /\ \A k \in 1..Len(s) : s[k] \in Threads
        /\ \A k \in 1..Len(z) : z[k] \in Threads
        /\ s = <<>> <=> Len(s) = 0
        /\ z = <<>> <=> Len(z) = 0
    OBVIOUS
  <1>2. /\ \A k \in 1..Len(s) : l.next[s[k]] = IF k = Len(s) THEN NULL ELSE s[k + 1]
        /\ \A k \in 1..Len(z) : l.next[z[k]] = IF k = Len(z) THEN NULL ELSE z[k + 1]
    BY DEF Links
  <1>3. /\ s = <<>> <=> z = <<>>
        /\ s # <<>> => s[1] = z[1]
    <2>1. l[q].head = IF s = <<>> THEN NULL ELSE s[1]
      BY DEF Links, Empty
    <2>2. l[q].head = IF z = <<>> THEN NULL ELSE z[1]
      BY DEF Links, Empty
    <2> QED
      BY <1>0, <1>1, <2>1, <2>2
  <1> DEFINE Differ == {k \in 1..Len(s) : k > Len(z) \/ s[k] # z[k]}
  <1>4. Differ = {}
    <2> SUFFICES ASSUME Differ # {} PROVE FALSE
      OBVIOUS
    <2>1. PICK k \in Differ : \A j \in Differ : k <= j
      <3>1. Differ \in SUBSET Nat
        BY <1>1
      <3> HIDE DEF Differ
      <3> QED
        BY <3>1, LeastElement
    <2>2. k \in 1..Len(s) /\ k # 1
      BY <1>1, <1>3, <2>1
    <2>3. k - 1 \in 1..Len(s) /\ k - 1 \notin Differ
      BY <1>1, <2>1, <2>2
    <2>4. k - 1 \in 1..Len(z) /\ s[k - 1] = z[k - 1]
      BY <1>1, <2>2, <2>3
    <2>5. l.next[s[k - 1]] = s[k] /\ s[k] # NULL
      BY <1>0, <1>1, <1>2, <2>2, <2>3
    <2>6. k - 1 # Len(z) /\ s[k] = z[k]
      BY <1>1, <1>2, <2>2, <2>4, <2>5
    <2> QED
      BY <1>1, <2>1, <2>2, <2>4, <2>6
  <1>5. \A k \in 1..Len(s) : k <= Len(z) /\ s[k] = z[k]
    BY <1>4
  <1> HIDE DEF Differ
  <1>6. Len(s) = Len(z)
    <2>1. CASE s = <<>>
      BY <1>1, <1>3, <2>1
    <2>2. CASE s # <<>>
      <3>1. Len(s) \in 1..Len(s) /\ Len(s) \in 1..Len(z) /\ s[Len(s)] = z[Len(s)]
        BY <1>1, <1>5, <2>2
      <3>2. l.next[z[Len(s)]] = NULL
        BY <1>2, <3>1
      <3>3. ASSUME Len(s) # Len(z) PROVE FALSE
        <4>1. Len(s) + 1 \in 1..Len(z)
          BY <1>1, <3>1, <3>3
        <4> QED
          BY <1>0, <1>1, <1>2, <3>1, <3>2, <3>3, <4>1
      <3> QED
        BY <3>3
    <2> QED
      BY <2>1, <2>2
  <1> QED
    BY <1>1, <1>5, <1>6

\* The order of a list is what ChainOf finds.
LEMMA ChainIsOrder ==
  ASSUME NEW l, NEW st, NEW q, NEW s, ListIsOrder(l, st, q, s)
  PROVE  ChainOf(l, st, q) = s
  <1> DEFINE M == Members(st, q)
             Orders == {z \in [1 .. Cardinality(M) -> M] : IsInjective(z)}
  <1>1. /\ s \in Seq(Threads) /\ Len(s) \in Nat /\ DOMAIN s = 1..Len(s)
        /\ s = [k \in 1..Len(s) |-> s[k]]
        /\ IsInjective(s) /\ ToSet(s) = M /\ Links(l, q, s)
    BY DEF ListIsOrder
  <1>2. s \in Bijection(1..Len(s), M)
    <2>1. s \in [1..Len(s) -> M]
      BY <1>1 DEF ToSet
    <2>2. \A y \in M : \E k \in 1..Len(s) : s[k] = y
      BY <1>1 DEF ToSet
    <2> HIDE DEF M
    <2> QED
      BY <1>1, <2>1, <2>2 DEF Bijection, Injection, Surjection
  <1>3. Cardinality(M) = Len(s)
    <2>1. IsFiniteSet(1..Len(s)) /\ Cardinality(1..Len(s)) = Len(s)
      <3>1. IsFiniteSet(1..Len(s))
            /\ Cardinality(1..Len(s)) = IF 1 > Len(s) THEN 0 ELSE Len(s) - 1 + 1
        <4>1. 1 \in Int /\ Len(s) \in Int
          BY <1>1
        <4> HIDE DEF M, Orders
        <4> QED
          BY <4>1, FS_Interval
      <3> QED
        BY <1>1, <3>1
    <2>2. ExistsBijection(1..Len(s), M)
      BY <1>2 DEF ExistsBijection
    <2> QED
      BY <2>1, <2>2, FS_Bijection
  <1>4. s \in Orders
    <2>1. s \in [1..Len(s) -> M]
      BY <1>1 DEF ToSet
    <2> QED
      BY <1>1, <1>3, <2>1
  <1>5. ASSUME NEW z \in Orders, Links(l, q, z) PROVE z = s
    <2>1. z \in [1..Len(s) -> Threads]
      BY <1>3 DEF Members
    <2>2. z \in Seq(Threads)
      BY <1>1, <2>1, FunctionIsSeq
    <2> QED
      BY <1>1, <1>5, <2>2, OneOrder
  <1>6. ChainOf(l, st, q)
          = IF \E z \in Orders : Links(l, q, z)
            THEN CHOOSE z \in Orders : Links(l, q, z) ELSE <<NULL>>
    BY DEF ChainOf
  <1> HIDE DEF Orders
  <1> QED
    BY <1>1, <1>4, <1>5, <1>6

\* Two lists of different threads.
Apart(l, q, s, o, z) ==
    /\ l \in ListsType
    /\ s \in Seq(Threads) /\ IsInjective(s) /\ Links(l, q, s)
    /\ z \in Seq(Threads) /\ IsInjective(z) /\ Links(l, o, z)
    /\ ToSet(s) \cap ToSet(z) = {}

\* The ends of a list, and what its threads are linked to.
LEMMA LinksOf ==
  ASSUME NEW l, NEW q, NEW s \in Seq(Threads), Links(l, q, s)
  PROVE  /\ Len(s) \in Nat /\ DOMAIN s = 1..Len(s)
         /\ \A k \in 1..Len(s) : s[k] \in Threads /\ s[k] # NULL /\ s[k] \in ToSet(s)
         /\ l[q].head = NULL <=> s = <<>>
         /\ s = <<>> <=> Len(s) = 0
         /\ s = <<>> => l[q] = Empty
         /\ s # <<>> => /\ l[q] = [head |-> s[1], tail |-> s[Len(s)]]
                        /\ l[q].head = s[1] /\ l[q].tail = s[Len(s)]
                        /\ 1 \in 1..Len(s) /\ Len(s) \in 1..Len(s)
         /\ \A k \in 1..Len(s) : l.prev[s[k]] = IF k = 1 THEN NULL ELSE s[k - 1]
         /\ \A k \in 1..Len(s) : l.next[s[k]] = IF k = Len(s) THEN NULL ELSE s[k + 1]
  <1>1. /\ Len(s) \in Nat /\ DOMAIN s = 1..Len(s)
        /\ s = <<>> <=> Len(s) = 0
    OBVIOUS
  <1>2. \A k \in 1..Len(s) : s[k] \in Threads /\ s[k] # NULL /\ s[k] \in ToSet(s)
    BY <1>1, ThreadsAssumption DEF ToSet
  <1>3. s # <<>> => 1 \in 1..Len(s) /\ Len(s) \in 1..Len(s)
    BY <1>1
  <1>4. /\ l[q] = IF s = <<>> THEN Empty ELSE [head |-> s[1], tail |-> s[Len(s)]]
        /\ \A k \in 1..Len(s) : l.prev[s[k]] = IF k = 1 THEN NULL ELSE s[k - 1]
        /\ \A k \in 1..Len(s) : l.next[s[k]] = IF k = Len(s) THEN NULL ELSE s[k + 1]
    BY DEF Links
  <1>5. Empty.head = NULL
    BY DEF Empty
  <1>6. CASE s = <<>>
    BY <1>1, <1>2, <1>4, <1>5, <1>6
  <1>7. CASE s # <<>>
    <2>1. /\ l[q] = [head |-> s[1], tail |-> s[Len(s)]]
          /\ l[q].head = s[1] /\ l[q].tail = s[Len(s)] /\ s[1] # NULL
      BY <1>2, <1>3, <1>4, <1>7
    <2> QED
      BY <1>1, <1>2, <1>3, <1>4, <1>7, <2>1
  <1> QED
    BY <1>6, <1>7

\* A list stays in order when its ends and the links of its threads stay.
LEMMA LinksKept ==
  ASSUME NEW l, NEW m, NEW q, NEW s \in Seq(Threads), Links(l, q, s),
         m[q] = l[q],
         \A u \in ToSet(s) : m.prev[u] = l.prev[u] /\ m.next[u] = l.next[u]
  PROVE  Links(m, q, s)
  <1>1. \A k \in 1..Len(s) : s[k] \in ToSet(s)
    BY LinksOf
  <1> QED
    BY <1>1 DEF Links

\* m is l with t at the end of the list q.
Appended(l, q, o, t, m) ==
    /\ m \in ListsType
    /\ m[o] = l[o]
    /\ l[q].head = NULL => /\ m[q] = [head |-> t, tail |-> t]
                           /\ m.prev = [l.prev EXCEPT ![t] = NULL]
                           /\ m.next = [l.next EXCEPT ![t] = NULL]
    /\ l[q].head # NULL => /\ m[q] = [head |-> l[q].head, tail |-> t]
                           /\ m.prev = [l.prev EXCEPT ![t] = l[q].tail]
                           /\ m.next = [l.next EXCEPT ![l[q].tail] = t, ![t] = NULL]

\* What queue_append does to the record of lists.
LEMMA AppendEffect ==
  ASSUME NEW l \in ListsType, NEW q \in Queues, NEW o \in Queues \ {q}, NEW t \in Threads,
         l[q].head # NULL => l[q].tail \in Threads
  PROVE  Appended(l, q, o, t, queue_append(l, q, t))
  <1> DEFINE m == queue_append(l, q, t)
             last == l[q].tail
  <1>1. /\ l.ready \in Ends /\ l.blocked \in Ends
        /\ l.prev \in [Threads -> Threads \cup {NULL}]
        /\ l.next \in [Threads -> Threads \cup {NULL}]
        /\ l = [prev |-> l.prev, next |-> l.next, ready |-> l.ready, blocked |-> l.blocked]
    BY DEF ListsType
  <1>2. CASE q = "ready" /\ o = "blocked"
    <2>1. CASE l[q].head = NULL
      <3>1. m = [prev |-> [l.prev EXCEPT ![t] = NULL], next |-> [l.next EXCEPT ![t] = NULL],
                 ready |-> [head |-> t, tail |-> t], blocked |-> l.blocked]
        BY <1>1, <1>2, <2>1 DEF queue_append
      <3> QED
        BY <1>1, <1>2, <2>1, <3>1 DEF ListsType, Ends, Appended
    <2>2. CASE l[q].head # NULL
      <3>1. m = [prev |-> [l.prev EXCEPT ![t] = last],
                 next |-> [l.next EXCEPT ![last] = t, ![t] = NULL],
                 ready |-> [l.ready EXCEPT !.tail = t], blocked |-> l.blocked]
        BY <1>1, <1>2, <2>2 DEF queue_append
      <3>2. [l.ready EXCEPT !.tail = t] = [head |-> l.ready.head, tail |-> t]
        BY <1>1 DEF Ends
      <3> QED
        BY <1>1, <1>2, <2>2, <3>1, <3>2 DEF ListsType, Ends, Appended
    <2> QED
      BY <2>1, <2>2
  <1>3. CASE q = "blocked" /\ o = "ready"
    <2>1. CASE l[q].head = NULL
      <3>1. m = [prev |-> [l.prev EXCEPT ![t] = NULL], next |-> [l.next EXCEPT ![t] = NULL],
                 ready |-> l.ready, blocked |-> [head |-> t, tail |-> t]]
        BY <1>1, <1>3, <2>1 DEF queue_append
      <3> QED
        BY <1>1, <1>3, <2>1, <3>1 DEF ListsType, Ends, Appended
    <2>2. CASE l[q].head # NULL
      <3>1. m = [prev |-> [l.prev EXCEPT ![t] = last],
                 next |-> [l.next EXCEPT ![last] = t, ![t] = NULL],
                 ready |-> l.ready, blocked |-> [l.blocked EXCEPT !.tail = t]]
        BY <1>1, <1>3, <2>2 DEF queue_append
      <3>2. [l.blocked EXCEPT !.tail = t] = [head |-> l.blocked.head, tail |-> t]
        BY <1>1 DEF Ends
      <3> QED
        BY <1>1, <1>3, <2>2, <3>1, <3>2 DEF ListsType, Ends, Appended
    <2> QED
      BY <2>1, <2>2
  <1> QED
    BY <1>2, <1>3 DEF Queues

\* queue_append appends, to one list, and changes the links of that list's threads only.
LEMMA AppendWorks ==
  ASSUME NEW l, NEW q \in Queues, NEW o \in Queues \ {q}, NEW s, NEW z, Apart(l, q, s, o, z),
         NEW t \in Threads, t \notin ToSet(s), t \notin ToSet(z)
  PROVE  /\ Apart(queue_append(l, q, t), q, Append(s, t), o, z)
         /\ \A u \in Threads : u \notin ToSet(s) /\ u # t =>
                queue_append(l, q, t).next[u] = l.next[u]
  <1> DEFINE m == queue_append(l, q, t)
             last == l[q].tail
             a == Append(s, t)
  <1>1. /\ l \in ListsType /\ s \in Seq(Threads) /\ IsInjective(s) /\ Links(l, q, s)
        /\ z \in Seq(Threads) /\ IsInjective(z) /\ Links(l, o, z)
        /\ ToSet(s) \cap ToSet(z) = {}
    BY DEF Apart
  <1>2. /\ Len(s) \in Nat
        /\ \A k \in 1..Len(s) : s[k] \in Threads /\ s[k] \in ToSet(s)
        /\ l[q].head = NULL <=> s = <<>>
        /\ s = <<>> <=> Len(s) = 0
        /\ s # <<>> => l[q].head = s[1] /\ last = s[Len(s)] /\ Len(s) \in 1..Len(s)
        /\ \A k \in 1..Len(s) : l.prev[s[k]] = IF k = 1 THEN NULL ELSE s[k - 1]
        /\ \A k \in 1..Len(s) : l.next[s[k]] = IF k = Len(s) THEN NULL ELSE s[k + 1]
    BY <1>1, LinksOf
  <1>3. /\ l.prev \in [Threads -> Threads \cup {NULL}]
        /\ l.next \in [Threads -> Threads \cup {NULL}]
    BY <1>1 DEF ListsType
  <1>4. /\ m \in ListsType /\ m[o] = l[o]
        /\ s = <<>> => /\ m[q] = [head |-> t, tail |-> t]
                       /\ m.prev = [l.prev EXCEPT ![t] = NULL]
                       /\ m.next = [l.next EXCEPT ![t] = NULL]
        /\ s # <<>> => /\ m[q] = [head |-> s[1], tail |-> t]
                       /\ m.prev = [l.prev EXCEPT ![t] = last]
                       /\ m.next = [l.next EXCEPT ![last] = t, ![t] = NULL]
    <2>1. l[q].head # NULL => l[q].tail \in Threads
      BY <1>2
    <2>2. Appended(l, q, o, t, m)
      BY <1>1, <2>1, AppendEffect
    <2> HIDE DEF m
    <2> QED
      BY <1>2, <2>2 DEF Appended
  <1>5. /\ a \in Seq(Threads) /\ IsInjective(a) /\ ToSet(a) = ToSet(s) \cup {t}
    BY <1>1, AppendOnce
  <1>6. /\ Len(a) = Len(s) + 1 /\ a # <<>> /\ a[Len(s) + 1] = t
        /\ \A k \in 1..Len(s) : a[k] = s[k]
    BY <1>1
  <1>7. \A x, y \in 1..Len(s) : s[x] = s[y] => x = y
    BY <1>1 DEF IsInjective
  <1> HIDE DEF m, a, last
  <1>8. \A u \in Threads : u \notin ToSet(s) /\ u # t => m.next[u] = l.next[u]
                                                     /\ m.prev[u] = l.prev[u]
    BY <1>2, <1>3, <1>4
  <1>9. Links(m, o, z)
    <2>1. \A u \in ToSet(z) : u \in Threads /\ u \notin ToSet(s) /\ u # t
      BY <1>1 DEF ToSet
    <2> QED
      BY <1>1, <1>4, <1>8, <2>1, LinksKept
  <1>10. Links(m, q, a)
    <2>1. m[q] = [head |-> a[1], tail |-> a[Len(a)]]
      <3>1. CASE s = <<>>
        BY <1>2, <1>4, <1>6, <3>1
      <3>2. CASE s # <<>>
        BY <1>2, <1>4, <1>6, <3>2
      <3> QED
        BY <3>1, <3>2
    <2>2. ASSUME NEW k \in 1..Len(a)
          PROVE  /\ m.prev[a[k]] = IF k = 1 THEN NULL ELSE a[k - 1]
                 /\ m.next[a[k]] = IF k = Len(a) THEN NULL ELSE a[k + 1]
      <3>1. CASE k = Len(s) + 1
        <4>1. a[k] = t /\ k = Len(a) /\ m.next[t] = NULL
          BY <1>2, <1>3, <1>4, <1>6, <3>1
        <4>2. CASE s = <<>>
          BY <1>2, <1>3, <1>4, <3>1, <4>1, <4>2
        <4>3. CASE s # <<>>
          <5>1. m.prev[t] = s[Len(s)] /\ k # 1 /\ k - 1 = Len(s) /\ a[k - 1] = s[Len(s)]
            BY <1>2, <1>3, <1>4, <1>6, <3>1, <4>3
          <5> QED
            BY <4>1, <5>1
        <4> QED
          BY <4>2, <4>3
      <3>2. CASE k # Len(s) + 1
        <4>1. k \in 1..Len(s) /\ s # <<>> /\ k # Len(a)
          BY <1>2, <1>6, <3>2
        <4>2. a[k] = s[k] /\ s[k] \in Threads /\ s[k] # t
          BY <1>2, <1>6, <4>1
        <4>3. m.prev[s[k]] = IF k = 1 THEN NULL ELSE a[k - 1]
          <5>1. m.prev[s[k]] = l.prev[s[k]]
            BY <1>3, <1>4, <4>1, <4>2
          <5>2. k # 1 => k - 1 \in 1..Len(s)
            BY <4>1
          <5> QED
            BY <1>2, <1>6, <4>1, <5>1, <5>2
        <4>4. m.next[s[k]] = a[k + 1]
          <5>1. CASE k = Len(s)
            BY <1>2, <1>3, <1>4, <1>6, <4>1, <4>2, <5>1
          <5>2. CASE k # Len(s)
            <6>1. k + 1 \in 1..Len(s) /\ s[k] # last
              BY <1>2, <1>7, <4>1, <5>2
            <6>2. m.next[s[k]] = l.next[s[k]]
              BY <1>2, <1>3, <1>4, <4>1, <4>2, <6>1
            <6> QED
              BY <1>2, <1>6, <4>1, <5>2, <6>1, <6>2
          <5> QED
            BY <5>1, <5>2
        <4> QED
          BY <4>1, <4>2, <4>3, <4>4
      <3> QED
        BY <3>1, <3>2
    <2> QED
      BY <1>6, <2>1, <2>2 DEF Links
  <1>11. ToSet(a) \cap ToSet(z) = {}
    BY <1>1, <1>5
  <1> QED
    BY <1>1, <1>4, <1>5, <1>8, <1>9, <1>10, <1>11 DEF Apart, m, a

LEMMA TwoAtLeast ==
  ASSUME NEW n \in Nat, 1 \in 1..n, n # 1
  PROVE  2 \in 1..n /\ 1 # n /\ n \in 1..n
  OBVIOUS

\* queue_take takes the first, and leaves its link to the next one alone.
LEMMA TakeWorks ==
  ASSUME NEW l, NEW s, NEW z, Apart(l, "ready", s, "blocked", z), s # <<>>
  PROVE  /\ Apart(queue_take(l, "ready"), "ready", Tail(s), "blocked", z)
         /\ queue_take(l, "ready").next = l.next
         /\ l.ready.head = Head(s)
         /\ l.next[Head(s)] = NULL <=> Len(s) = 1
  <1> DEFINE m == queue_take(l, "ready")
             first == l.ready.head
             b == Tail(s)
  <1>1. /\ l \in ListsType /\ s \in Seq(Threads) /\ IsInjective(s) /\ Links(l, "ready", s)
        /\ z \in Seq(Threads) /\ IsInjective(z) /\ Links(l, "blocked", z)
        /\ ToSet(s) \cap ToSet(z) = {}
    BY DEF Apart
  <1>0. Len(s) \in Nat /\ 1 \in 1..Len(s)
    BY <1>1, LinksOf
  <1>2. /\ Len(s) \in Nat /\ 1 \in 1..Len(s) /\ Len(s) \in 1..Len(s)
        /\ \A k \in 1..Len(s) : s[k] \in Threads /\ s[k] # NULL /\ s[k] \in ToSet(s)
        /\ l.ready = [head |-> s[1], tail |-> s[Len(s)]]
        /\ first = s[1] /\ l.ready.tail = s[Len(s)]
        /\ \A k \in 1..Len(s) : l.prev[s[k]] = IF k = 1 THEN NULL ELSE s[k - 1]
        /\ \A k \in 1..Len(s) : l.next[s[k]] = IF k = Len(s) THEN NULL ELSE s[k + 1]
    BY <1>1, LinksOf
  <1>3. /\ l.ready \in Ends /\ l.blocked \in Ends
        /\ l.prev \in [Threads -> Threads \cup {NULL}]
        /\ l.next \in [Threads -> Threads \cup {NULL}]
        /\ l = [prev |-> l.prev, next |-> l.next, ready |-> l.ready, blocked |-> l.blocked]
    BY <1>1 DEF ListsType
  <1>4. /\ b \in Seq(Threads) /\ IsInjective(b) /\ ToSet(b) = ToSet(s) \ {Head(s)}
        /\ Head(s) = s[1] /\ Len(b) = Len(s) - 1
        /\ \A k \in 1..Len(b) : b[k] = s[k + 1]
        /\ b = <<>> <=> Len(s) = 1
    <2>1. /\ b \in Seq(Threads) /\ IsInjective(b) /\ ToSet(b) = ToSet(s) \ {Head(s)}
      BY <1>1, TailOnce
    <2>2. /\ Head(s) = s[1] /\ Len(b) = Len(s) - 1
          /\ \A k \in 1..Len(b) : b[k] = s[k + 1]
      BY <1>1
    <2>3. Len(s) \in Nat
      BY <1>1
    <2> HIDE DEF b
    <2>4. b = <<>> <=> Len(b) = 0
      BY <2>1
    <2> QED
      BY <2>1, <2>2, <2>3, <2>4
  <1>5. \A x, y \in 1..Len(s) : s[x] = s[y] => x = y
    BY <1>1 DEF IsInjective
  <1>6. l.next[s[1]] = NULL <=> Len(s) = 1
    <2>1. CASE Len(s) = 1
      BY <1>2, <2>1
    <2>2. CASE Len(s) # 1
      <3>1. 2 \in 1..Len(s) /\ 1 # Len(s)
        BY <1>0, <2>2, TwoAtLeast
      <3> QED
        BY <1>2, <2>2, <3>1
    <2> QED
      BY <2>1, <2>2
  <1>7. CASE Len(s) = 1
    <2>1. m = [prev |-> l.prev, next |-> l.next, ready |-> Empty, blocked |-> l.blocked]
      BY <1>2, <1>3, <1>7 DEF queue_take
    <2>2. m \in ListsType /\ m.ready = Empty /\ m.blocked = l.blocked
          /\ m.prev = l.prev /\ m.next = l.next
      BY <1>3, <2>1 DEF ListsType, Ends, Empty
    <2> HIDE DEF m, b
    <2>3. Links(m, "ready", b)
      BY <1>4, <1>7, <2>2 DEF Links
    <2>4. Links(m, "blocked", z)
      BY <1>1, <2>2, LinksKept
    <2> QED
      BY <1>1, <1>2, <1>4, <1>6, <2>2, <2>3, <2>4 DEF Apart, m, b
  <1>8. CASE Len(s) # 1
    <2> DEFINE second == s[2]
    <2>1. 2 \in 1..Len(s) /\ l.next[first] = second /\ first # l.ready.tail
          /\ second \in Threads /\ b # <<>>
      <3>1. 2 \in 1..Len(s) /\ 1 # Len(s) /\ 1 \in 1..Len(s) /\ Len(s) \in 1..Len(s)
        BY <1>0, <1>8, TwoAtLeast
      <3>2. l.next[s[1]] = s[1 + 1]
        BY <1>2, <3>1
      <3>3. s[1] # s[Len(s)]
        BY <1>5, <3>1
      <3>4. s[1 + 1] = second /\ first = s[1] /\ l.ready.tail = s[Len(s)]
        BY <1>2
      <3>5. second \in Threads
        BY <1>2, <3>1
      <3> HIDE DEF second, first, b
      <3> QED
        BY <1>4, <1>8, <3>1, <3>2, <3>3, <3>4, <3>5
    <2>2. m = [prev |-> [l.prev EXCEPT ![second] = NULL], next |-> l.next,
               ready |-> [head |-> second, tail |-> l.ready.tail], blocked |-> l.blocked]
      <3>1. [l.ready EXCEPT !.head = second] = [head |-> second, tail |-> l.ready.tail]
        BY <1>3 DEF Ends
      <3>2. m = [prev |-> [l.prev EXCEPT ![second] = NULL], next |-> l.next,
                 ready |-> [l.ready EXCEPT !.head = second], blocked |-> l.blocked]
        BY <1>3, <2>1 DEF queue_take
      <3> QED
        BY <3>1, <3>2
    <2>3. /\ m \in ListsType /\ m.blocked = l.blocked /\ m.next = l.next
          /\ m.ready = [head |-> second, tail |-> l.ready.tail]
          /\ m.prev = [l.prev EXCEPT ![second] = NULL]
      BY <1>3, <2>1, <2>2 DEF ListsType, Ends
    <2> HIDE DEF m, b, second, first
    <2>4. Links(m, "ready", b)
      <3>1. m.ready = [head |-> b[1], tail |-> b[Len(b)]]
        <4>1. b[1] = second /\ b[Len(b)] = s[Len(s)]
          BY <1>2, <1>4, <1>8 DEF second
        <4> QED
          BY <1>2, <2>3, <4>1
      <3>2. ASSUME NEW k \in 1..Len(b)
            PROVE  /\ m.prev[b[k]] = IF k = 1 THEN NULL ELSE b[k - 1]
                   /\ m.next[b[k]] = IF k = Len(b) THEN NULL ELSE b[k + 1]
        <4>1. k + 1 \in 1..Len(s) /\ b[k] = s[k + 1] /\ k + 1 # 1
          BY <1>2, <1>4
        <4>2. m.next[b[k]] = IF k = Len(b) THEN NULL ELSE b[k + 1]
          <5>1. m.next[b[k]] = IF k + 1 = Len(s) THEN NULL ELSE s[k + 1 + 1]
            BY <1>2, <2>3, <4>1
          <5>2. k + 1 = Len(s) <=> k = Len(b)
            BY <1>2, <1>4
          <5>3. k # Len(b) => b[k + 1] = s[k + 1 + 1]
            BY <1>2, <1>4
          <5> QED
            BY <5>1, <5>2, <5>3
        <4>3. CASE k = 1
          BY <1>3, <2>1, <2>3, <4>1, <4>2, <4>3 DEF second
        <4>4. CASE k # 1
          <5>1. s[k + 1] # second /\ s[k + 1] \in Threads
            BY <1>2, <1>5, <2>1, <4>1, <4>4 DEF second
          <5>2. m.prev[b[k]] = s[k]
            BY <1>2, <1>3, <2>3, <4>1, <5>1
          <5>3. b[k - 1] = s[k]
            BY <1>2, <1>4, <4>4
          <5> QED
            BY <4>2, <4>4, <5>2, <5>3
        <4> QED
          BY <4>3, <4>4
      <3> QED
        BY <2>1, <3>1, <3>2 DEF Links
    <2>5. Links(m, "blocked", z)
      <3>1. second \in ToSet(s)
        BY <1>2, <2>1 DEF second
      <3>2. \A u \in ToSet(z) : u # second /\ u \in Threads
        BY <1>1, <3>1 DEF ToSet
      <3>3. \A u \in ToSet(z) : m.prev[u] = l.prev[u] /\ m.next[u] = l.next[u]
        BY <1>3, <2>3, <3>2
      <3> QED
        BY <1>1, <2>3, <3>3, LinksKept
    <2> QED
      BY <1>1, <1>2, <1>4, <1>6, <2>3, <2>4, <2>5 DEF Apart, m, b, first
  <1> QED
    BY <1>7, <1>8

\* queue_remove takes a thread from any place of the list of blocked ones.
LEMMA RemoveWorks ==
  ASSUME NEW l, NEW s, NEW z, Apart(l, "blocked", s, "ready", z), NEW i \in 1..Len(s)
  PROVE  /\ Apart(queue_remove(l, "blocked", s[i]), "blocked", WithoutPlace(s, i), "ready", z)
         /\ \A u \in Threads : u \notin ToSet(s) =>
                queue_remove(l, "blocked", s[i]).next[u] = l.next[u]
  <1> DEFINE m == queue_remove(l, "blocked", s[i])
             g == WithoutPlace(s, i)
             t == s[i]
             before == l.prev[t]
             after == l.next[t]
  <1>1. /\ l \in ListsType /\ s \in Seq(Threads) /\ IsInjective(s) /\ Links(l, "blocked", s)
        /\ z \in Seq(Threads) /\ IsInjective(z) /\ Links(l, "ready", z)
        /\ ToSet(s) \cap ToSet(z) = {}
    BY DEF Apart
  <1>2. /\ Len(s) \in Nat
        /\ \A k \in 1..Len(s) : s[k] \in Threads /\ s[k] # NULL /\ s[k] \in ToSet(s)
        /\ \A k \in 1..Len(s) : l.prev[s[k]] = IF k = 1 THEN NULL ELSE s[k - 1]
        /\ \A k \in 1..Len(s) : l.next[s[k]] = IF k = Len(s) THEN NULL ELSE s[k + 1]
    BY <1>1, LinksOf
  <1>3. /\ i \in Nat /\ 1 <= i /\ i <= Len(s)
        /\ 1 \in 1..Len(s) /\ Len(s) \in 1..Len(s)
    BY <1>2
  <1>4. l.blocked = [head |-> s[1], tail |-> s[Len(s)]]
    <2>1. s # <<>>
      BY <1>1, <1>2, <1>3
    <2> QED
      BY <1>1, <2>1, LinksOf
  <1>5. /\ l.ready \in Ends
        /\ l.prev \in [Threads -> Threads \cup {NULL}]
        /\ l.next \in [Threads -> Threads \cup {NULL}]
        /\ l = [prev |-> l.prev, next |-> l.next, ready |-> l.ready, blocked |-> l.blocked]
    BY <1>1 DEF ListsType
  <1>6. \A x, y \in 1..Len(s) : s[x] = s[y] => x = y
    BY <1>1 DEF IsInjective
  <1>7. /\ before = IF i = 1 THEN NULL ELSE s[i - 1]
        /\ after = IF i = Len(s) THEN NULL ELSE s[i + 1]
        /\ i # 1 => i - 1 \in 1..Len(s)
        /\ i # Len(s) => i + 1 \in 1..Len(s)
        /\ t \in Threads
    BY <1>2, <1>3
  <1>8. /\ before = NULL <=> i = 1
        /\ after = NULL <=> i = Len(s)
        /\ before # NULL => before \in Threads /\ before \in ToSet(s)
        /\ after # NULL => after \in Threads /\ after \in ToSet(s)
    BY <1>2, <1>7
  <1>9. m = [prev |-> IF after = NULL THEN l.prev ELSE [l.prev EXCEPT ![after] = before],
             next |-> IF before = NULL THEN l.next ELSE [l.next EXCEPT ![before] = after],
             ready |-> l.ready,
             blocked |-> [head |-> IF s[1] = t THEN after ELSE s[1],
                          tail |-> IF s[Len(s)] = t THEN before ELSE s[Len(s)]]]
    <2> DEFINE h == [l.blocked EXCEPT !.head = IF @ = t THEN after ELSE @]
               e == [h EXCEPT !.tail = IF @ = t THEN before ELSE @]
    <2>1. e = [head |-> IF s[1] = t THEN after ELSE s[1],
               tail |-> IF s[Len(s)] = t THEN before ELSE s[Len(s)]]
      <3> HIDE DEF t, before, after
      <3>1. h = [head |-> IF s[1] = t THEN after ELSE s[1], tail |-> s[Len(s)]]
        BY <1>4
      <3> HIDE DEF h
      <3> QED
        BY <3>1
    <2>2. m = [l EXCEPT !.next = IF before = NULL THEN @ ELSE [@ EXCEPT ![before] = after],
                        !.prev = IF after = NULL THEN @ ELSE [@ EXCEPT ![after] = before],
                        !["blocked"].head = IF @ = t THEN after ELSE @,
                        !["blocked"].tail = IF @ = t THEN before ELSE @]
      BY DEF queue_remove
    <2> HIDE DEF m, before, after, t
    <2>3. m = [prev |-> IF after = NULL THEN l.prev ELSE [l.prev EXCEPT ![after] = before],
               next |-> IF before = NULL THEN l.next ELSE [l.next EXCEPT ![before] = after],
               ready |-> l.ready,
               blocked |-> e]
      BY <1>5, <2>2
    <2> HIDE DEF e
    <2> QED
      BY <2>1, <2>3
  <1> HIDE DEF before, after, m, t
  <1>10. /\ m.prev = IF after = NULL THEN l.prev ELSE [l.prev EXCEPT ![after] = before]
         /\ m.next = IF before = NULL THEN l.next ELSE [l.next EXCEPT ![before] = after]
         /\ m.ready = l.ready
         /\ m.blocked = [head |-> IF s[1] = t THEN after ELSE s[1],
                         tail |-> IF s[Len(s)] = t THEN before ELSE s[Len(s)]]
    BY <1>9
  <1>11. m \in ListsType
    <2>1. before \in Threads \cup {NULL} /\ after \in Threads \cup {NULL}
      BY <1>8
    <2>2. m.blocked \in Ends
      BY <1>2, <1>3, <1>10, <2>1 DEF Ends
    <2> QED
      BY <1>5, <1>9, <1>10, <2>1, <2>2 DEF ListsType
  <1>12. \A u \in Threads : /\ u # before => m.next[u] = l.next[u]
                            /\ u # after => m.prev[u] = l.prev[u]
    BY <1>5, <1>10
  <1>13. /\ g \in Seq(Threads) /\ Len(g) = Len(s) - 1 /\ IsInjective(g)
         /\ ToSet(g) = ToSet(s) \ {s[i]}
    BY <1>1, GapCloses
  <1>14. /\ \A j \in 1..Len(g) : g[j] = IF j < i THEN s[j] ELSE s[j + 1]
         /\ g = <<>> <=> Len(g) = 0
    <2>1. \A j \in 1..Len(s) - 1 : g[j] = IF j < i THEN s[j] ELSE s[j + 1]
      BY DEF WithoutPlace
    <2> HIDE DEF g
    <2> QED
      BY <1>13, <2>1
  <1> HIDE DEF g
  <1>15. Links(m, "ready", z)
    <2>1. \A u \in ToSet(z) : u \in Threads /\ u \notin ToSet(s)
      BY <1>1 DEF ToSet
    <2>2. \A u \in ToSet(z) : m.prev[u] = l.prev[u] /\ m.next[u] = l.next[u]
      BY <1>8, <1>5, <1>10, <2>1
    <2> QED
      BY <1>1, <1>10, <2>2, LinksKept
  <1>16. m.blocked = IF g = <<>> THEN Empty ELSE [head |-> g[1], tail |-> g[Len(g)]]
    <2>1. s[1] = t <=> i = 1
      BY <1>3, <1>6 DEF t
    <2>2. s[Len(s)] = t <=> i = Len(s)
      BY <1>3, <1>6 DEF t
    <2>3. CASE Len(s) = 1
      <3>1. i = 1 /\ i = Len(s) /\ g = <<>>
        BY <1>3, <1>13, <1>14, <2>3
      <3> QED
        BY <1>8, <1>10, <2>1, <2>2, <3>1 DEF Empty
    <2>4. CASE Len(s) # 1
      <3>1. 1 \in 1..Len(g) /\ Len(g) \in 1..Len(g) /\ g # <<>>
        BY <1>2, <1>3, <1>13, <1>14, <2>4
      <3>2. (IF s[1] = t THEN after ELSE s[1]) = g[1]
        <4>1. CASE i = 1
          <5>1. g[1] = s[1 + 1] /\ after = s[1 + 1]
            BY <1>7, <1>14, <2>4, <3>1, <4>1
          <5> QED
            BY <2>1, <4>1, <5>1
        <4>2. CASE i # 1
          <5>1. g[1] = s[1]
            BY <1>3, <1>14, <3>1, <4>2
          <5> QED
            BY <2>1, <4>2, <5>1
        <4> QED
          BY <4>1, <4>2
      <3>3. (IF s[Len(s)] = t THEN before ELSE s[Len(s)]) = g[Len(g)]
        <4>1. CASE i = Len(s)
          <5>1. g[Len(g)] = s[i - 1] /\ before = s[i - 1]
            BY <1>2, <1>3, <1>7, <1>13, <1>14, <2>4, <3>1, <4>1
          <5> QED
            BY <2>2, <4>1, <5>1
        <4>2. CASE i # Len(s)
          <5>1. ~ (Len(g) < i) /\ Len(g) + 1 = Len(s)
            BY <1>2, <1>3, <1>13, <4>2
          <5>2. g[Len(g)] = s[Len(s)]
            BY <1>14, <3>1, <5>1
          <5> QED
            BY <2>2, <4>2, <5>2
        <4> QED
          BY <4>1, <4>2
      <3> QED
        BY <1>10, <3>1, <3>2, <3>3
    <2> QED
      BY <2>3, <2>4
  <1>17. ASSUME NEW j \in 1..Len(g)
         PROVE  /\ m.prev[g[j]] = IF j = 1 THEN NULL ELSE g[j - 1]
                /\ m.next[g[j]] = IF j = Len(g) THEN NULL ELSE g[j + 1]
    <2>0. /\ j \in Nat /\ 1 <= j /\ j <= Len(s) - 1 /\ Len(g) = Len(s) - 1
          /\ j \in 1..Len(s) /\ j + 1 \in 1..Len(s)
          /\ j # 1 => j - 1 \in 1..Len(g)
          /\ j # Len(g) => j + 1 \in 1..Len(g)
      BY <1>2, <1>13
    <2>1. CASE j < i
      <3>1. g[j] = s[j] /\ s[j] \in Threads
        BY <1>2, <1>14, <2>0, <2>1
      <3>2. s[j] # after
        BY <1>2, <1>6, <1>7, <2>0, <2>1
      <3>3. m.prev[g[j]] = IF j = 1 THEN NULL ELSE s[j - 1]
        BY <1>2, <1>12, <2>0, <3>1, <3>2
      <3>4. j # 1 => g[j - 1] = s[j - 1]
        BY <1>3, <1>14, <2>0, <2>1
      <3>5. m.next[g[j]] = IF j = Len(g) THEN NULL ELSE g[j + 1]
        <4>1. CASE j + 1 = i
          <5>1. before = s[j] /\ before # NULL
            BY <1>2, <1>3, <1>7, <2>0, <4>1
          <5>2. m.next[s[j]] = after
            BY <1>5, <1>10, <3>1, <5>1
          <5>3. j = Len(g) <=> i = Len(s)
            BY <1>2, <1>3, <2>0, <4>1
          <5>4. j # Len(g) => g[j + 1] = s[i + 1]
            BY <1>3, <1>14, <2>0, <4>1
          <5> QED
            BY <1>7, <3>1, <5>2, <5>3, <5>4
        <4>2. CASE j + 1 # i
          <5>1. s[j] # before
            BY <1>2, <1>3, <1>6, <1>7, <2>0, <2>1, <4>2
          <5>2. j + 1 < i /\ j # Len(g) /\ j # Len(s)
            BY <1>2, <1>3, <2>0, <2>1, <4>2
          <5>3. m.next[s[j]] = s[j + 1]
            BY <1>2, <1>12, <2>0, <3>1, <5>1, <5>2
          <5>4. g[j + 1] = s[j + 1]
            BY <1>14, <2>0, <5>2
          <5> QED
            BY <3>1, <5>2, <5>3, <5>4
        <4> QED
          BY <4>1, <4>2
      <3> QED
        BY <3>3, <3>4, <3>5
    <2>2. CASE ~ (j < i)
      <3>1. g[j] = s[j + 1] /\ s[j + 1] \in Threads
        BY <1>2, <1>14, <2>0, <2>2
      <3>2. s[j + 1] # before
        BY <1>2, <1>3, <1>6, <1>7, <2>0, <2>2
      <3>3. m.next[g[j]] = IF j + 1 = Len(s) THEN NULL ELSE s[j + 1 + 1]
        BY <1>2, <1>12, <2>0, <3>1, <3>2
      <3>4. j # Len(g) => g[j + 1] = s[j + 1 + 1]
        BY <1>3, <1>14, <2>0, <2>2
      <3>5. j + 1 = Len(s) <=> j = Len(g)
        BY <1>2, <2>0
      <3>6. m.prev[g[j]] = IF j = 1 THEN NULL ELSE g[j - 1]
        <4>1. CASE j = i
          <5>1. after = s[j + 1] /\ after # NULL
            BY <1>2, <1>3, <1>7, <2>0, <4>1
          <5>2. m.prev[s[j + 1]] = before
            BY <1>5, <1>10, <3>1, <5>1
          <5>3. j # 1 => g[j - 1] = s[i - 1]
            BY <1>3, <1>14, <2>0, <4>1
          <5> QED
            BY <1>7, <3>1, <4>1, <5>2, <5>3
        <4>2. CASE j # i
          <5>1. s[j + 1] # after
            BY <1>2, <1>3, <1>6, <1>7, <2>0, <2>2, <4>2
          <5>2. j + 1 # 1 /\ (j + 1) - 1 = j /\ j # 1 /\ ~ (j - 1 < i) /\ (j - 1) + 1 = j
            BY <1>3, <2>0, <2>2, <4>2
          <5>3. l.prev[s[j + 1]] = s[j]
            BY <1>2, <2>0, <5>2
          <5>4. m.prev[s[j + 1]] = s[j]
            BY <1>12, <3>1, <5>1, <5>3
          <5>5. g[j - 1] = s[j]
            BY <1>14, <2>0, <5>2
          <5> QED
            BY <3>1, <5>2, <5>4, <5>5
        <4> QED
          BY <4>1, <4>2
      <3> QED
        BY <3>3, <3>4, <3>5, <3>6
    <2> QED
      BY <2>1, <2>2
  <1>18. Links(m, "blocked", g)
    BY <1>16, <1>17 DEF Links
  <1>19. \A u \in Threads : u \notin ToSet(s) => m.next[u] = l.next[u]
    BY <1>8, <1>5, <1>10
  <1>20. ToSet(g) \cap ToSet(z) = {}
    BY <1>1, <1>13
  <1> QED
    BY <1>1, <1>11, <1>13, <1>15, <1>18, <1>19, <1>20 DEF Apart, m, g

-----------------------------------------------------------------------------
(* Contexts *)

\* The pops of glue.s undo its pushes.
LEMMA PopsUndoPushes ==
  /\ Len(pushed) = 16 /\ Len(popped) = 16
  /\ DOMAIN pushed = 1..16 /\ DOMAIN popped = 1..16
  /\ \A k \in 1..16 : popped[17 - k] = pushed[k]
  /\ \A j, k \in 1..16 : popped[j] = popped[k] => j = k
  <1>1. /\ Len(pushed) = 16 /\ Len(popped) = 16
        /\ DOMAIN pushed = 1..16 /\ DOMAIN popped = 1..16
    BY DEF pushed, popped
  <1>2. \A k \in 1..16 : k = 1 \/ k = 2 \/ k = 3 \/ k = 4 \/ k = 5 \/ k = 6 \/ k = 7 \/ k = 8
                        \/ k = 9 \/ k = 10 \/ k = 11 \/ k = 12 \/ k = 13 \/ k = 14
                        \/ k = 15 \/ k = 16
    OBVIOUS
  <1>3. ASSUME NEW k \in 1..16 PROVE popped[17 - k] = pushed[k]
    BY <1>2 DEF pushed, popped
  <1>4. ASSUME NEW j \in 1..16, NEW k \in 1..16, popped[j] = popped[k] PROVE j = k
    BY <1>2, <1>4 DEF popped
  <1> QED
    BY <1>1, <1>3, <1>4

\* r has 16 values above a and b.
Pile(S, a, b, f, r) ==
    /\ r \in Seq(S) /\ Len(r) = 18
    /\ r[1] = a /\ r[2] = b
    /\ \A k \in 1..16 : r[2 + k] = f[k]

LEMMA SixteenMore ==
  ASSUME NEW S, NEW d \in Seq(S), Len(d) = 2, NEW f \in Seq(S), Len(f) = 16
  PROVE  Pile(S, d[1], d[2], f, d \o f)
  <1>1. /\ d \o f \in Seq(S)
        /\ Len(d \o f) = Len(d) + Len(f)
        /\ \A i \in 1 .. Len(d) + Len(f) :
              (d \o f)[i] = IF i <= Len(d) THEN d[i] ELSE f[i - Len(d)]
    BY ConcatProperties
  <1> DEFINE r == d \o f
  <1>2. \A i \in 1 .. 2 + 16 : r[i] = IF i <= 2 THEN d[i] ELSE f[i - 2]
    BY <1>1, Zenon
  <1>3. Len(r) = 18
    BY <1>1
  <1> HIDE DEF r
  <1>4. ASSUME NEW k \in 1..16 PROVE r[2 + k] = f[k]
    <2>1. 2 + k \in 1 .. 2 + 16 /\ ~ (2 + k <= 2) /\ (2 + k) - 2 = k
      OBVIOUS
    <2> QED
      BY <1>2, <2>1
  <1>5. r[1] = d[1] /\ r[2] = d[2]
    <2>1. 1 \in 1 .. 2 + 16 /\ 2 \in 1 .. 2 + 16 /\ 1 <= 2 /\ 2 <= 2
      OBVIOUS
    <2> QED
      BY <1>2, <2>1
  <1> QED
    BY <1>1, <1>3, <1>4, <1>5 DEF r, Pile

LEMMA Stacked ==
  ASSUME NEW S, NEW a \in S, NEW b \in S, NEW f \in [1..16 -> S]
  PROVE  Pile(S, a, b, f, <<a, b>> \o f)
  <1>1. f \in Seq(S) /\ Len(f) = 16
    <2>1. 16 \in Nat
      OBVIOUS
    <2> QED
      BY <2>1, FunctionIsSeq
  <1>2. /\ <<a, b>> \in Seq(S) /\ Len(<<a, b>>) = 2
        /\ <<a, b>>[1] = a /\ <<a, b>>[2] = b
    OBVIOUS
  <1>3. Pile(S, <<a, b>>[1], <<a, b>>[2], f, <<a, b>> \o f)
    BY <1>1, <1>2, SixteenMore
  <1> QED
    BY <1>2, <1>3

\* Where a context has what.
Layout(t, c) ==
    /\ Len(c) = 18 /\ c[1] = "__sthread_finish" /\ c[2] = "f"
    /\ SubSeq(c, 1, 1) = <<"__sthread_finish">>
    /\ \/ \A k \in 1..16 : c[2 + k] = IF k = 6 THEN <<t, "arg">> ELSE Zero
       \/ \A k \in 1..16 : c[2 + k] = <<t, pushed[k]>>

LEMMA ContextLayout ==
  ASSUME NEW t, NEW c, Saved(t, c)
  PROVE  Layout(t, c)
  <1>1. ASSUME NEW S, c \in Seq(S), Len(c) = 18, c[1] = "__sthread_finish"
        PROVE  SubSeq(c, 1, 1) = <<"__sthread_finish">>
    <2> DEFINE b == SubSeq(c, 1, 1)
    <2>1. \A i \in 1..1 : c[i] \in {"__sthread_finish"}
      BY <1>1
    <2>2. 1 \in Int /\ (IF 1 <= 1 THEN 1 - 1 + 1 ELSE 0) = 1 /\ 1 \in 1 .. 1 - 1 + 1
            /\ 1 + 1 - 1 = 1
      OBVIOUS
    <2>3. /\ b \in Seq({"__sthread_finish"})
          /\ Len(b) = IF 1 <= 1 THEN 1 - 1 + 1 ELSE 0
          /\ \A i \in 1 .. 1 - 1 + 1 : b[i] = c[1 + i - 1]
      BY <2>1, <2>2, SubSeqProperties
    <2> HIDE DEF b
    <2>4. b \in Seq({"__sthread_finish"}) /\ Len(b) = 1 /\ b[1] = "__sthread_finish"
      BY <1>1, <2>2, <2>3
    <2>5. b = <<"__sthread_finish">>
      BY <2>4
    <2> QED
      BY <2>5 DEF b
  <1>2. CASE c = initialize_context("f", <<t, "arg">>)
    <2> DEFINE f == [k \in 1 .. 16 |-> IF k = 6 THEN <<t, "arg">> ELSE Zero]
               S == {"__sthread_finish", "f"} \cup {f[k] : k \in 1..16}
    <2>1. f \in [1..16 -> S] /\ "__sthread_finish" \in S /\ "f" \in S
      OBVIOUS
    <2>2. c = <<"__sthread_finish", "f">> \o f
      BY <1>2 DEF initialize_context
    <2>3. \A k \in 1..16 : f[k] = IF k = 6 THEN <<t, "arg">> ELSE Zero
      OBVIOUS
    <2> HIDE DEF f, S
    <2>4. /\ c \in Seq(S) /\ Len(c) = 18 /\ c[1] = "__sthread_finish" /\ c[2] = "f"
          /\ \A k \in 1..16 : c[2 + k] = f[k]
      BY <2>1, <2>2, Stacked DEF Pile
    <2> QED
      BY <1>1, <2>3, <2>4 DEF Layout
  <1>3. CASE c = Save(<<"__sthread_finish">>, "f", [r \in Registers |-> <<t, r>>])
    <2> DEFINE f == [k \in DOMAIN pushed |-> [r \in Registers |-> <<t, r>>][pushed[k]]]
               S == {"__sthread_finish", "f"} \cup {f[k] : k \in 1..16}
    <2>1. f \in [1..16 -> S] /\ "__sthread_finish" \in S /\ "f" \in S
      BY PopsUndoPushes
    <2>2. c = <<"__sthread_finish", "f">> \o f
      BY <1>3 DEF Save
    <2>3. \A k \in 1..16 : f[k] = <<t, pushed[k]>>
      BY PopsUndoPushes DEF Registers
    <2> HIDE DEF f, S
    <2>4. /\ c \in Seq(S) /\ Len(c) = 18 /\ c[1] = "__sthread_finish" /\ c[2] = "f"
          /\ \A k \in 1..16 : c[2 + k] = f[k]
      BY <2>1, <2>2, Stacked DEF Pile
    <2> QED
      BY <1>1, <2>3, <2>4 DEF Layout
  <1> QED
    BY <1>2, <1>3 DEF Saved

\* What a thread finds when it comes to run.
OwnContext(t, pc, regs) ==
    /\ pc = "f"
    /\ \/ regs = [r \in Registers |-> <<t, r>>]
       \/ regs = [r \in Registers |-> IF r = "rdi" THEN <<t, "arg">> ELSE Zero]

LEMMA RestoreWorks ==
  ASSUME NEW t, NEW stacks, Saved(t, stacks[t]), Restore(t, stacks)
  PROVE  /\ stack' = [stacks EXCEPT ![t] = <<"__sthread_finish">>]
         /\ OwnContext(t, cpu'.pc, cpu'.regs)
  <1> DEFINE c == stacks[t]
             Place(r) == CHOOSE k \in DOMAIN popped : popped[k] = r
  <1>1. Layout(t, c)
    BY ContextLayout
  <1>2. /\ cpu' = [pc |-> c[2], regs |-> [r \in Registers |-> c[Len(c) + 1 - Place(r)]]]
        /\ stack' = [stacks EXCEPT ![t] = SubSeq(c, 1, 1)]
    <2>1. Len(c) = 18 /\ Len(popped) = 16
      BY <1>1, PopsUndoPushes DEF Layout
    <2>2. /\ cpu' = [pc |-> c[Len(c) - Len(popped)],
                     regs |-> [r \in Registers |-> c[Len(c) + 1 - Place(r)]]]
          /\ stack' = [stacks EXCEPT ![t] = SubSeq(c, 1, Len(c) - Len(popped) - 1)]
      BY DEF Restore
    <2>3. Len(c) - Len(popped) = 2 /\ Len(c) - Len(popped) - 1 = 1
      BY <2>1
    <2> HIDE DEF c, Place
    <2> QED
      BY <2>2, <2>3
  <1>3. ASSUME NEW k \in 1..16 PROVE Place(pushed[k]) = 17 - k
    <2>1. 17 - k \in DOMAIN popped /\ popped[17 - k] = pushed[k]
      BY PopsUndoPushes
    <2>2. \A j \in DOMAIN popped : popped[j] = pushed[k] => j = 17 - k
      BY <2>1, PopsUndoPushes
    <2> QED
      BY <2>1, <2>2
  <1>4. \A r \in Registers : \E k \in 1..16 : r = pushed[k]
    BY PopsUndoPushes DEF Registers
  <1>5. ASSUME NEW k \in 1..16 PROVE c[Len(c) + 1 - Place(pushed[k])] = c[2 + k]
    <2> HIDE DEF c, Place
    <2>0. Place(pushed[k]) = 17 - k
      BY <1>3
    <2>1. Len(c) + 1 - Place(pushed[k]) = 2 + k
      BY <1>1, <2>0 DEF Layout
    <2> QED
      BY <2>1
  <1>6. ASSUME NEW k \in 1..16 PROVE pushed[k] = "rdi" <=> k = 6
    <2>1. k = 1 \/ k = 2 \/ k = 3 \/ k = 4 \/ k = 5 \/ k = 6 \/ k = 7 \/ k = 8
            \/ k = 9 \/ k = 10 \/ k = 11 \/ k = 12 \/ k = 13 \/ k = 14
            \/ k = 15 \/ k = 16
      OBVIOUS
    <2> QED
      BY <2>1 DEF pushed
  <1> DEFINE Popped(r) == c[Len(c) + 1 - Place(r)]
  <1>7. /\ cpu'.pc = c[2] /\ cpu'.regs = [r \in Registers |-> Popped(r)]
        /\ stack' = [stacks EXCEPT ![t] = SubSeq(c, 1, 1)]
    BY <1>2
  <1>8. \A k \in 1..16 : Popped(pushed[k]) = c[2 + k]
    BY <1>5
  <1> HIDE DEF c, Place, Popped
  <1>9. CASE \A k \in 1..16 : c[2 + k] = IF k = 6 THEN <<t, "arg">> ELSE Zero
    <2>1. \A r \in Registers : Popped(r) = IF r = "rdi" THEN <<t, "arg">> ELSE Zero
      BY <1>4, <1>6, <1>8, <1>9
    <2> QED
      BY <1>1, <1>7, <2>1 DEF Layout, OwnContext
  <1>10. CASE \A k \in 1..16 : c[2 + k] = <<t, pushed[k]>>
    <2>1. ASSUME NEW r \in Registers PROVE Popped(r) = <<t, r>>
      <3>1. PICK k \in 1..16 : r = pushed[k]
        BY <1>4
      <3>2. Popped(pushed[k]) = <<t, pushed[k]>>
        BY <1>8, <1>10, Zenon
      <3> QED
        BY <3>1, <3>2, Zenon
    <2> QED
      BY <1>1, <1>7, <2>1 DEF Layout, OwnContext
  <1> QED
    BY <1>1, <1>9, <1>10 DEF Layout

-----------------------------------------------------------------------------
(* The parts of a switch *)

States == {"none", "Ready", "Running", "Blocked"}

\* Both lists are in order.
TwoLists(l, st, r, b) ==
    /\ l \in ListsType /\ st \in [Threads -> States]
    /\ ListIsOrder(l, st, "ready", r)
    /\ ListIsOrder(l, st, "blocked", b)

LEMMA ListsAreApart ==
  ASSUME NEW l, NEW st, NEW r, NEW b, TwoLists(l, st, r, b)
  PROVE  /\ Apart(l, "ready", r, "blocked", b)
         /\ Apart(l, "blocked", b, "ready", r)
         /\ r \in Seq(Threads) /\ b \in Seq(Threads)
         /\ ToSet(r) = {t \in Threads : st[t] = "Ready"}
         /\ ToSet(b) = {t \in Threads : st[t] = "Blocked"}
  <1>1. /\ ToSet(r) = {t \in Threads : st[t] = "Ready"}
        /\ ToSet(b) = {t \in Threads : st[t] = "Blocked"}
    BY DEF TwoLists, ListIsOrder, Members
  <1>2. ToSet(r) \cap ToSet(b) = {}
    BY <1>1
  <1> QED
    BY <1>1, <1>2 DEF TwoLists, ListIsOrder, Apart

\* The converse.
LEMMA ApartAreLists ==
  ASSUME NEW l, NEW st, NEW r, NEW b, Apart(l, "ready", r, "blocked", b),
         st \in [Threads -> States],
         ToSet(r) = {t \in Threads : st[t] = "Ready"},
         ToSet(b) = {t \in Threads : st[t] = "Blocked"}
  PROVE  TwoLists(l, st, r, b)
  BY DEF TwoLists, ListIsOrder, Members, Apart

\* The lists after a step are those that ChainOf finds.
LEMMA ChainsAre ==
  ASSUME NEW l, NEW st, NEW r, NEW b, TwoLists(l, st, r, b)
  PROVE  ChainOf(l, st, "ready") = r /\ ChainOf(l, st, "blocked") = b
  BY ChainIsOrder DEF TwoLists

\* A thread that is in neither list goes to the end of one.
Enqueued(l, st, r, b, t, x) ==
    /\ x = "Ready" => TwoLists(enqueue_thread(l, t, x), [st EXCEPT ![t] = x], Append(r, t), b)
    /\ x = "Blocked" => TwoLists(enqueue_thread(l, t, x), [st EXCEPT ![t] = x], r, Append(b, t))
    /\ \A u \in Threads : u # t /\ u \notin ToSet(r) /\ u \notin ToSet(b) =>
           enqueue_thread(l, t, x).next[u] = l.next[u]

LEMMA EnqueueWorks ==
  ASSUME NEW l, NEW st, NEW r, NEW b, TwoLists(l, st, r, b),
         NEW t \in Threads, st[t] \notin {"Ready", "Blocked"}, NEW x \in {"Ready", "Blocked"}
  PROVE  Enqueued(l, st, r, b, t, x)
  <1> DEFINE m == enqueue_thread(l, t, x)
             now == [st EXCEPT ![t] = x]
  <1>1. /\ Apart(l, "ready", r, "blocked", b) /\ Apart(l, "blocked", b, "ready", r)
        /\ r \in Seq(Threads) /\ b \in Seq(Threads)
        /\ ToSet(r) = {u \in Threads : st[u] = "Ready"}
        /\ ToSet(b) = {u \in Threads : st[u] = "Blocked"}
    BY ListsAreApart
  <1>2. st \in [Threads -> States] /\ now \in [Threads -> States]
    BY DEF TwoLists, States
  <1>3. t \notin ToSet(r) /\ t \notin ToSet(b)
    BY <1>1
  <1>4. IsInjective(r) /\ IsInjective(b)
    BY <1>1 DEF Apart
  <1>5. /\ "ready" \in Queues /\ "blocked" \in Queues
        /\ "ready" \in Queues \ {"blocked"} /\ "blocked" \in Queues \ {"ready"}
    BY DEF Queues
  <1>6. CASE x = "Ready"
    <2>1. m = queue_append(l, "ready", t)
      BY <1>6 DEF enqueue_thread
    <2>2. /\ Apart(m, "ready", Append(r, t), "blocked", b)
          /\ \A u \in Threads : u \notin ToSet(r) /\ u # t => m.next[u] = l.next[u]
      <3> DEFINE n == queue_append(l, "ready", t)
      <3>1. "ready" \in Queues /\ "blocked" \in Queues \ {"ready"}
        BY <1>5
      <3>2. Apart(l, "ready", r, "blocked", b) /\ t \notin ToSet(r) /\ t \notin ToSet(b)
        BY <1>1, <1>3
      <3>3. /\ Apart(n, "ready", Append(r, t), "blocked", b)
            /\ \A u \in Threads : u \notin ToSet(r) /\ u # t => n.next[u] = l.next[u]
        BY <3>1, <3>2, AppendWorks
      <3> QED
        BY <2>1, <3>3
    <2>3. ToSet(Append(r, t)) = {u \in Threads : now[u] = "Ready"}
      BY <1>1, <1>2, <1>3, <1>4, <1>6, AppendOnce
    <2>4. ToSet(b) = {u \in Threads : now[u] = "Blocked"}
      BY <1>1, <1>2, <1>3, <1>6
    <2> HIDE DEF m, now
    <2>5. TwoLists(m, now, Append(r, t), b)
      BY <1>2, <2>2, <2>3, <2>4, ApartAreLists
    <2> QED
      BY <1>6, <2>2, <2>5 DEF m, now, Enqueued
  <1>7. CASE x = "Blocked"
    <2>1. m = queue_append(l, "blocked", t)
      BY <1>7 DEF enqueue_thread
    <2>2. /\ Apart(m, "blocked", Append(b, t), "ready", r)
          /\ \A u \in Threads : u \notin ToSet(b) /\ u # t => m.next[u] = l.next[u]
      <3> DEFINE n == queue_append(l, "blocked", t)
      <3>1. "blocked" \in Queues /\ "ready" \in Queues \ {"blocked"}
        BY <1>5
      <3>2. Apart(l, "blocked", b, "ready", r) /\ t \notin ToSet(b) /\ t \notin ToSet(r)
        BY <1>1, <1>3
      <3>3. /\ Apart(n, "blocked", Append(b, t), "ready", r)
            /\ \A u \in Threads : u \notin ToSet(b) /\ u # t => n.next[u] = l.next[u]
        BY <3>1, <3>2, AppendWorks
      <3> QED
        BY <2>1, <3>3
    <2>3. ToSet(Append(b, t)) = {u \in Threads : now[u] = "Blocked"}
      BY <1>1, <1>2, <1>3, <1>4, <1>7, AppendOnce
    <2>4. ToSet(r) = {u \in Threads : now[u] = "Ready"}
      BY <1>1, <1>2, <1>3, <1>7
    <2>5. Apart(m, "ready", r, "blocked", Append(b, t))
      BY <2>2 DEF Apart
    <2> HIDE DEF m, now
    <2>6. TwoLists(m, now, r, Append(b, t))
      BY <1>2, <2>3, <2>4, <2>5, ApartAreLists
    <2> QED
      BY <1>7, <2>2, <2>6 DEF m, now, Enqueued
  <1> QED
    BY <1>6, <1>7

\* A blocked thread goes to the end of the ready ones.
Unblocked(l, st, r, b, t) ==
    LET m == enqueue_thread(queue_remove(l, "blocked", t), t, "Ready")
    IN  \E g : /\ TwoLists(m, [st EXCEPT ![t] = "Ready"], Append(r, t), g)
               /\ ToSet(g) = ToSet(b) \ {t}
               /\ \A u \in Threads : u # t /\ u \notin ToSet(r) /\ u \notin ToSet(b) =>
                      m.next[u] = l.next[u]

LEMMA UnblockWorks ==
  ASSUME NEW l, NEW st, NEW r, NEW b, TwoLists(l, st, r, b),
         NEW t \in Threads, st[t] = "Blocked"
  PROVE  Unblocked(l, st, r, b, t)
  <1> DEFINE n == queue_remove(l, "blocked", t)
             m == queue_append(n, "ready", t)
             now == [st EXCEPT ![t] = "Ready"]
  <1>1. /\ Apart(l, "blocked", b, "ready", r)
        /\ r \in Seq(Threads) /\ b \in Seq(Threads)
        /\ ToSet(r) = {u \in Threads : st[u] = "Ready"}
        /\ ToSet(b) = {u \in Threads : st[u] = "Blocked"}
    BY ListsAreApart
  <1>2. st \in [Threads -> States] /\ now \in [Threads -> States]
    BY DEF TwoLists, States
  <1>3. PICK i \in 1..Len(b) : b[i] = t
    BY <1>1 DEF ToSet
  <1>4. IsInjective(r) /\ IsInjective(b)
    BY <1>1 DEF Apart
  <1> DEFINE g == WithoutPlace(b, i)
  <1>5. g \in Seq(Threads) /\ ToSet(g) = ToSet(b) \ {t}
    BY <1>1, <1>3, <1>4, GapCloses
  <1>6. /\ Apart(n, "blocked", g, "ready", r)
        /\ \A u \in Threads : u \notin ToSet(b) => n.next[u] = l.next[u]
    <2>1. /\ Apart(queue_remove(l, "blocked", b[i]), "blocked", WithoutPlace(b, i), "ready", r)
          /\ \A u \in Threads : u \notin ToSet(b) =>
                queue_remove(l, "blocked", b[i]).next[u] = l.next[u]
      BY <1>1, RemoveWorks
    <2> QED
      BY <1>3, <2>1
  <1>7. t \notin ToSet(r) /\ t \notin ToSet(g)
    BY <1>1, <1>5
  <1>8. "ready" \in Queues /\ "blocked" \in Queues \ {"ready"}
    BY DEF Queues
  <1> HIDE DEF n, g
  <1>9. Apart(n, "ready", r, "blocked", g)
    BY <1>6 DEF Apart
  <1>10. /\ Apart(m, "ready", Append(r, t), "blocked", g)
         /\ \A u \in Threads : u \notin ToSet(r) /\ u # t => m.next[u] = n.next[u]
    BY <1>7, <1>8, <1>9, AppendWorks
  <1>11. ToSet(Append(r, t)) = {u \in Threads : now[u] = "Ready"}
    BY <1>1, <1>2, <1>4, <1>7, AppendOnce
  <1>12. ToSet(g) = {u \in Threads : now[u] = "Blocked"}
    BY <1>1, <1>2, <1>5
  <1>13. TwoLists(m, now, Append(r, t), g)
    <2> HIDE DEF m, now
    <2> QED
      BY <1>2, <1>10, <1>11, <1>12, ApartAreLists
  <1>14. \A u \in Threads : u # t /\ u \notin ToSet(r) /\ u \notin ToSet(b) =>
           m.next[u] = l.next[u]
    BY <1>6, <1>10
  <1>15. m = enqueue_thread(n, t, "Ready")
    BY DEF enqueue_thread
  <1> HIDE DEF m, now
  <1> QED
    BY <1>5, <1>13, <1>14, <1>15 DEF n, now, Unblocked

\* The first ready thread is taken and becomes the running one.
LEMMA DispatchWorks ==
  ASSUME NEW l, NEW st, NEW r, NEW b, TwoLists(l, st, r, b), r # <<>>
  PROVE  /\ TwoLists(queue_take(l, "ready"), [st EXCEPT ![Head(r)] = "Running"], Tail(r), b)
         /\ l.ready.head = Head(r) /\ Head(r) \in Threads /\ st[Head(r)] = "Ready"
         /\ queue_take(l, "ready").next[Head(r)] = NULL <=> Len(r) = 1
  <1> DEFINE m == queue_take(l, "ready")
             now == [st EXCEPT ![Head(r)] = "Running"]
  <1>1. /\ Apart(l, "ready", r, "blocked", b)
        /\ r \in Seq(Threads) /\ b \in Seq(Threads)
        /\ ToSet(r) = {u \in Threads : st[u] = "Ready"}
        /\ ToSet(b) = {u \in Threads : st[u] = "Blocked"}
    BY ListsAreApart
  <1>2. IsInjective(r)
    BY <1>1 DEF Apart
  <1>3. Head(r) \in Threads /\ Head(r) \in ToSet(r) /\ ToSet(Tail(r)) = ToSet(r) \ {Head(r)}
    BY <1>1, <1>2, TailOnce
  <1>4. st \in [Threads -> States] /\ now \in [Threads -> States]
    BY DEF TwoLists, States
  <1>5. st[Head(r)] = "Ready"
    BY <1>1, <1>3
  <1>6. /\ Apart(m, "ready", Tail(r), "blocked", b)
        /\ m.next = l.next
        /\ l.ready.head = Head(r)
        /\ l.next[Head(r)] = NULL <=> Len(r) = 1
    BY <1>1, TakeWorks
  <1>7. ToSet(Tail(r)) = {u \in Threads : now[u] = "Ready"}
    BY <1>1, <1>3, <1>4
  <1>8. ToSet(b) = {u \in Threads : now[u] = "Blocked"}
    BY <1>1, <1>3, <1>4, <1>5
  <1> HIDE DEF m, now
  <1>9. TwoLists(m, now, Tail(r), b)
    BY <1>4, <1>6, <1>7, <1>8, ApartAreLists
  <1> QED
    BY <1>3, <1>5, <1>6, <1>9 DEF m, now

-----------------------------------------------------------------------------
(* The invariant *)

\* What the second half of a switch leaves, from the lists, the states and the contexts
\* that the first half has made.
LEMMA SelectWorks ==
  ASSUME NEW STATE l, NEW STATE st, NEW STATE stacks, NEW STATE r, NEW STATE b,
         TwoLists(l, st, r, b),
         stacks = [t \in Threads |-> stacks[t]],
         \A t \in Threads : st[t] \in {"Ready", "Blocked"} => Saved(t, stacks[t]),
         current \in Threads \cup {NULL},
         Select(st, l, stacks)
  PROVE  /\ CoopInv'
         /\ r # <<>> => /\ current' = Head(r) /\ outcome' = "running"
                        /\ Chain("ready")' = Tail(r) /\ Chain("blocked")' = b
                        /\ lists'.next[current'] = NULL <=> Len(r) = 1
         /\ r = <<>> => /\ outcome' = IF b = <<>> THEN "completed" ELSE "stuck"
                        /\ Chain("ready")' = r /\ Chain("blocked")' = b
  <1>1. /\ Apart(l, "ready", r, "blocked", b)
        /\ r \in Seq(Threads) /\ b \in Seq(Threads)
        /\ l \in ListsType /\ st \in [Threads -> States]
    BY ListsAreApart DEF TwoLists
  <1>2. (l.ready.head = NULL <=> r = <<>>) /\ (l.blocked.head = NULL <=> b = <<>>)
    BY <1>1, LinksOf DEF Apart
  <1>3. CASE r # <<>>
    <2> DEFINE h == Head(r)
    <2>1. /\ TwoLists(queue_take(l, "ready"), [st EXCEPT ![h] = "Running"], Tail(r), b)
          /\ l.ready.head = h /\ h \in Threads /\ st[h] = "Ready"
          /\ queue_take(l, "ready").next[h] = NULL <=> Len(r) = 1
      BY <1>3, DispatchWorks
    <2>2. /\ current' = h /\ lists' = queue_take(l, "ready")
          /\ state' = [st EXCEPT ![h] = "Running"]
          /\ Restore(h, stacks) /\ outcome' = "running"
      BY <1>2, <1>3, <2>1 DEF Select
    <2>3. Chain("ready")' = Tail(r) /\ Chain("blocked")' = b
      BY <2>1, <2>2, ChainsAre DEF Chain
    <2>4. /\ stack' = [stacks EXCEPT ![h] = <<"__sthread_finish">>]
          /\ OwnContext(h, cpu'.pc, cpu'.regs)
      BY <2>1, <2>2, RestoreWorks
    <2> HIDE DEF h
    <2>5. TwoLists(lists', state', Chain("ready")', Chain("blocked")')
      BY <2>1, <2>2, <2>3
    <2>6. stack'[h] = <<"__sthread_finish">> /\ \A t \in Threads : t # h => stack'[t] = stacks[t]
      BY <2>1, <2>4
    <2>7. TypeOK'
      BY <2>1, <2>2, <2>4, <2>5 DEF TypeOK, TwoLists, States
    <2>8. OneRuns'
      BY <1>1, <2>1, <2>2 DEF OneRuns
    <2>9. WaitingAreSaved'
      BY <1>1, <2>1, <2>2, <2>6 DEF WaitingAreSaved
    <2>10. ContextIsOwn'
      BY <2>2, <2>4, <2>6 DEF ContextIsOwn, OwnContext
    <2>11. CoopInv'
      BY <2>5, <2>7, <2>8, <2>9, <2>10 DEF CoopInv, TwoLists
    <2> QED
      BY <1>3, <2>1, <2>2, <2>3, <2>11 DEF h
  <1>4. CASE r = <<>>
    <2>1. /\ outcome' = IF b = <<>> THEN "completed" ELSE "stuck"
          /\ state' = st /\ lists' = l /\ stack' = stacks
          /\ UNCHANGED <<current, cpu>>
      BY <1>2, <1>4 DEF Select
    <2>2. Chain("ready")' = r /\ Chain("blocked")' = b
      BY <2>1, ChainsAre DEF Chain
    <2>3. TypeOK'
      BY <1>1, <2>1 DEF TypeOK, States
    <2>4. OneRuns' /\ ContextIsOwn'
      BY <2>1 DEF OneRuns, ContextIsOwn
    <2>5. WaitingAreSaved'
      BY <2>1 DEF WaitingAreSaved
    <2>6. CoopInv'
      BY <2>1, <2>2, <2>3, <2>4, <2>5 DEF CoopInv, TwoLists
    <2> QED
      BY <1>4, <2>1, <2>2, <2>6
  <1> QED
    BY <1>3, <1>4

\* What the invariant says of the lists.
LEMMA InvGivesLists ==
  ASSUME CoopInv
  PROVE  /\ TwoLists(lists, state, Chain("ready"), Chain("blocked"))
         /\ Chain("ready") \in Seq(Threads) /\ Chain("blocked") \in Seq(Threads)
         /\ ToSet(Chain("ready")) = {t \in Threads : state[t] = "Ready"}
         /\ ToSet(Chain("blocked")) = {t \in Threads : state[t] = "Blocked"}
         /\ lists.ready.head = NULL <=> Chain("ready") = <<>>
  <1>1. TwoLists(lists, state, Chain("ready"), Chain("blocked"))
    BY DEF CoopInv, TypeOK, TwoLists, States
  <1>2. Apart(lists, "ready", Chain("ready"), "blocked", Chain("blocked"))
    BY <1>1, ListsAreApart
  <1>3. lists.ready.head = NULL <=> Chain("ready") = <<>>
    BY <1>2, LinksOf DEF Apart
  <1> QED
    BY <1>1, <1>3, ListsAreApart

LEMMA InitInv == Init => CoopInv
  <1> SUFFICES ASSUME Init PROVE CoopInv
    OBVIOUS
  <1>1. TypeOK
    BY DEF Init, TypeOK, ListsType, Ends, Empty
  <1>2. <<>> \in Seq(Threads) /\ IsInjective(<<>>) /\ ToSet(<<>>) = {}
    BY DEF IsInjective, ToSet
  <1>3. Links(lists, "ready", <<>>) /\ Links(lists, "blocked", <<>>)
    BY DEF Init, Links
  <1>4. Members(state, "ready") = {} /\ Members(state, "blocked") = {}
    BY DEF Init, Members
  <1>5. TwoLists(lists, state, <<>>, <<>>)
    BY <1>1, <1>2, <1>3, <1>4 DEF TwoLists, ListIsOrder, TypeOK, States
  <1>6. Chain("ready") = <<>> /\ Chain("blocked") = <<>>
    BY <1>5, ChainsAre DEF Chain
  <1>7. OneRuns /\ ContextIsOwn /\ WaitingAreSaved
    BY DEF Init, OneRuns, ContextIsOwn, WaitingAreSaved
  <1> QED
    BY <1>1, <1>5, <1>6, <1>7 DEF CoopInv, TwoLists

-----------------------------------------------------------------------------
(* Each call keeps the invariant and is a step of AbstractThreads *)

\* A switch can go on from here: the lists and every waiting context are in order.
CanSwitch(l, st, stacks, r, b) ==
    /\ TwoLists(l, st, r, b)
    /\ stacks = [t \in Threads |-> stacks[t]]
    /\ \A t \in Threads : st[t] \in {"Ready", "Blocked"} => Saved(t, stacks[t])

LEMMA SelectDispatches ==
  ASSUME NEW STATE l, NEW STATE st, NEW STATE stacks, NEW STATE r, NEW STATE b,
         CanSwitch(l, st, stacks, r, b),
         NEW STATE w, w = ToSet(b),
         current \in Threads \cup {NULL},
         Select(st, l, stacks),
         r # Chain("ready") => r # <<>>
  PROVE  CoopInv' /\ Abstract!Dispatch(r, w)
  <1>1. /\ CoopInv'
        /\ r # <<>> => /\ current' = Head(r) /\ outcome' = "running"
                       /\ Chain("ready")' = Tail(r) /\ Chain("blocked")' = b
                       /\ lists'.next[current'] = NULL <=> Len(r) = 1
        /\ r = <<>> => /\ outcome' = IF b = <<>> THEN "completed" ELSE "stuck"
                       /\ Chain("ready")' = r /\ Chain("blocked")' = b
    BY SelectWorks DEF CanSwitch
  <1>2. {Chain("blocked")[k] : k \in DOMAIN Chain("blocked")}' = w
    BY <1>1 DEF ToSet
  <1>3. CASE r # <<>>
    <2>1. (outcome = "running" /\ lists.next[current] = NULL)' <=> Len(r) = 1
      BY <1>1, <1>3
    <2>2. (IF outcome = "running" THEN current ELSE NULL)' = Head(r)
      BY <1>1, <1>3
    <2> QED
      BY <1>1, <1>2, <1>3, <2>1, <2>2 DEF Abstract!Dispatch
  <1>4. CASE r = <<>>
    <2>1. b = <<>> <=> w = {}
      <3>1. b \in Seq(Threads)
        BY ListsAreApart DEF CanSwitch
      <3>2. CASE b = <<>>
        <4>1. Len(b) = 0
          BY <3>2
        <4> QED
          BY <3>2, <4>1 DEF ToSet
      <3>3. CASE b # <<>>
        <4>1. 1 \in 1..Len(b)
          BY <3>1, <3>3
        <4>2. b[1] \in ToSet(b)
          BY <3>1, <4>1 DEF ToSet
        <4> QED
          BY <3>3, <4>2
      <3> QED
        BY <3>2, <3>3
    <2>2. outcome' # "running"
      BY <1>1, <1>4
    <2>3. r = Chain("ready")
      BY <1>4
    <2> QED
      BY <1>1, <1>2, <1>4, <2>1, <2>2, <2>3 DEF Abstract!Dispatch
  <1> QED
    BY <1>1, <1>3, <1>4

LEMMA CreateStep ==
  ASSUME CoopInv, NEW t \in Threads, sthread_create(t)
  PROVE  CoopInv' /\ Abstract!Create(t)
  <1> DEFINE r == Chain("ready")
             b == Chain("blocked")
             next == [state EXCEPT ![t] = "Ready"]
  <1>1. /\ TwoLists(lists, state, r, b)
        /\ ToSet(r) = {u \in Threads : state[u] = "Ready"}
        /\ ToSet(b) = {u \in Threads : state[u] = "Blocked"}
    BY InvGivesLists
  <1>2. /\ outcome \in {"main", "running"} /\ state[t] = "none"
        /\ state' = next /\ lists' = enqueue_thread(lists, t, "Ready")
        /\ stack' = [stack EXCEPT ![t] = initialize_context("f", <<t, "arg">>)]
        /\ UNCHANGED <<current, cpu, outcome>>
    BY DEF sthread_create
  <1>3. TypeOK /\ OneRuns /\ WaitingAreSaved /\ ContextIsOwn
    BY DEF CoopInv
  <1>4. /\ TwoLists(lists', state', Append(r, t), b)
        /\ \A u \in Threads : u # t /\ u \notin ToSet(r) /\ u \notin ToSet(b) =>
               lists'.next[u] = lists.next[u]
    <2>1. state[t] \notin {"Ready", "Blocked"} /\ "Ready" \in {"Ready", "Blocked"}
      BY <1>2
    <2> HIDE DEF r, b
    <2>2. Enqueued(lists, state, r, b, t, "Ready")
      BY <1>1, <2>1, EnqueueWorks
    <2> QED
      BY <1>2, <2>2 DEF Enqueued
  <1>5. r' = Append(r, t) /\ b' = b
    BY <1>4, ChainsAre DEF Chain
  <1>6. outcome = "running" => /\ current \in Threads /\ current # t
                               /\ state[current] = "Running" /\ stack'[current] = stack[current]
                               /\ lists'.next[current] = lists.next[current]
    <2> SUFFICES ASSUME outcome = "running"
                 PROVE  /\ current \in Threads /\ current # t
                        /\ state[current] = "Running" /\ stack'[current] = stack[current]
                        /\ lists'.next[current] = lists.next[current]
      OBVIOUS
    <2>1. current \in Threads /\ state[current] = "Running" /\ current # t
      BY <1>2, <1>3 DEF OneRuns
    <2>2. current \notin ToSet(r) /\ current \notin ToSet(b)
      BY <1>1, <2>1
    <2>3. stack'[current] = stack[current]
      BY <1>2, <1>3, <2>1 DEF TypeOK
    <2> QED
      BY <1>4, <2>1, <2>2, <2>3
  <1>7. CoopInv'
    <2>1. TypeOK'
      BY <1>2, <1>3, <1>4 DEF TypeOK, TwoLists
    <2>2. OneRuns'
      BY <1>2, <1>3, <1>6 DEF OneRuns, TypeOK
    <2>3. WaitingAreSaved'
      BY <1>2, <1>3 DEF WaitingAreSaved, TypeOK, Saved
    <2>4. ContextIsOwn'
      BY <1>2, <1>3, <1>6 DEF ContextIsOwn
    <2> HIDE DEF r, b
    <2>5. ListIsOrder(lists', state', "ready", r') /\ ListIsOrder(lists', state', "blocked", b')
      BY <1>4, <1>5 DEF TwoLists
    <2> QED
      BY <2>1, <2>2, <2>3, <2>4, <2>5 DEF CoopInv, r, b
  <1>8. Abstract!Create(t)
    <2>1. t \notin Abstract!Known
      <3>1. t \notin ToSet(r) /\ t \notin ToSet(b)
        BY <1>1, <1>2
      <3>2. outcome = "running" => current # t
        BY <1>6
      <3> QED
        BY <3>1, <3>2, ThreadsAssumption DEF Abstract!Known, ToSet
    <2>2. (outcome = "running" /\ lists.next[current] = NULL)'
            <=> (outcome = "running" /\ lists.next[current] = NULL)
      BY <1>2, <1>6
    <2>3. (IF outcome = "running" THEN current ELSE NULL)'
            = (IF outcome = "running" THEN current ELSE NULL)
      BY <1>2
    <2> QED
      BY <1>2, <1>5, <2>1, <2>2, <2>3 DEF Abstract!Create
  <1> QED
    BY <1>7, <1>8

LEMMA StartStep ==
  ASSUME CoopInv, sthread_start
  PROVE  CoopInv' /\ Abstract!Start
  <1> DEFINE r == Chain("ready")
             b == Chain("blocked")
             w == {b[k] : k \in DOMAIN b}
  <1>1. CanSwitch(lists, state, stack, r, b) /\ current \in Threads \cup {NULL}
    BY InvGivesLists DEF CoopInv, TypeOK, WaitingAreSaved, CanSwitch
  <1>2. outcome = "main" /\ Select(state, lists, stack)
    BY DEF sthread_start
  <1>3. r # Chain("ready") => r # <<>>
    OBVIOUS
  <1>4. w = ToSet(b)
    BY DEF ToSet
  <1>5. CoopInv' /\ Abstract!Dispatch(r, w)
    <2> HIDE DEF r, b, w
    <2> QED
      BY <1>1, <1>2, <1>3, <1>4, SelectDispatches
  <1> QED
    BY <1>2, <1>5 DEF Abstract!Start

\* The assertion of sthread_unblock ends the process.
LEMMA AbortStep ==
  ASSUME CoopInv, NEW t \in Threads, UnblockAsserts(t)
  PROVE  CoopInv' /\ Abstract!Abort
  <1>1. /\ outcome = "running" /\ outcome' = "aborted"
        /\ UNCHANGED <<state, lists, current, stack, cpu>>
    BY DEF UnblockAsserts
  <1>2. Chain("ready")' = Chain("ready") /\ Chain("blocked")' = Chain("blocked")
    BY <1>1 DEF Chain
  <1>3. CoopInv'
    BY <1>1, <1>2 DEF CoopInv, TypeOK, OneRuns, WaitingAreSaved, ContextIsOwn
  <1>4. /\ (IF outcome = "running" THEN current ELSE NULL)' = NULL
        /\ (outcome = "running" /\ lists.next[current] = NULL)' <=> FALSE
    BY <1>1
  <1> QED
    BY <1>1, <1>2, <1>3, <1>4 DEF Abstract!Abort

\* A thread moves from the blocked ones to the end of the ready ones; the running one
\* and its links stay.
LEMMA UnblockStep ==
  ASSUME CoopInv, NEW t \in Threads, sthread_unblock(t)
  PROVE  CoopInv' /\ Abstract!Unblock(t)
  <1> DEFINE r == Chain("ready")
             b == Chain("blocked")
  <1>1. /\ TwoLists(lists, state, r, b)
        /\ ToSet(r) = {u \in Threads : state[u] = "Ready"}
        /\ ToSet(b) = {u \in Threads : state[u] = "Blocked"}
    BY InvGivesLists
  <1>2. /\ outcome = "running" /\ state[t] = "Blocked"
        /\ state' = [state EXCEPT ![t] = "Ready"]
        /\ lists' = enqueue_thread(queue_remove(lists, "blocked", t), t, "Ready")
        /\ UNCHANGED <<current, stack, cpu, outcome>>
    BY DEF sthread_unblock
  <1>3. TypeOK /\ OneRuns /\ WaitingAreSaved /\ ContextIsOwn
    BY DEF CoopInv
  <1>4. PICK g : /\ TwoLists(lists', state', Append(r, t), g)
                 /\ ToSet(g) = ToSet(b) \ {t}
                 /\ \A u \in Threads : u # t /\ u \notin ToSet(r) /\ u \notin ToSet(b) =>
                        lists'.next[u] = lists.next[u]
    <2> HIDE DEF r, b
    <2>1. Unblocked(lists, state, r, b, t)
      BY <1>1, <1>2, UnblockWorks
    <2> QED
      BY <1>2, <2>1 DEF Unblocked
  <1>5. r' = Append(r, t) /\ b' = g
    BY <1>4, ChainsAre DEF Chain
  <1>6. /\ current \in Threads /\ current # t /\ state[current] = "Running"
        /\ lists'.next[current] = lists.next[current]
    <2>1. current \in Threads /\ state[current] = "Running" /\ current # t
      BY <1>2, <1>3 DEF OneRuns
    <2>2. current \notin ToSet(r) /\ current \notin ToSet(b)
      BY <1>1, <2>1
    <2> QED
      BY <1>4, <2>1, <2>2
  <1>7. CoopInv'
    <2>1. TypeOK'
      BY <1>2, <1>3, <1>4 DEF TypeOK, TwoLists
    <2>2. OneRuns' /\ ContextIsOwn'
      BY <1>2, <1>3, <1>6 DEF OneRuns, TypeOK, ContextIsOwn
    <2>3. WaitingAreSaved'
      BY <1>2, <1>3 DEF WaitingAreSaved, TypeOK
    <2> HIDE DEF r, b
    <2>4. ListIsOrder(lists', state', "ready", r') /\ ListIsOrder(lists', state', "blocked", b')
      BY <1>4, <1>5 DEF TwoLists
    <2> QED
      BY <2>1, <2>2, <2>3, <2>4 DEF CoopInv, r, b
  <1>8. Abstract!Unblock(t)
    <2>1. (outcome = "running" /\ lists.next[current] = NULL)'
            <=> (outcome = "running" /\ lists.next[current] = NULL)
      BY <1>2, <1>6
    <2>2. (IF outcome = "running" THEN current ELSE NULL)'
            = (IF outcome = "running" THEN current ELSE NULL)
      BY <1>2
    <2>3. /\ {b[k] : k \in DOMAIN b} = ToSet(b)
          /\ {Chain("blocked")[k] : k \in DOMAIN Chain("blocked")}' = ToSet(g)
      BY <1>5 DEF ToSet
    <2>4. t \in ToSet(b)
      BY <1>1, <1>2
    <2> QED
      BY <1>2, <1>4, <1>5, <2>1, <2>2, <2>3, <2>4 DEF Abstract!Unblock
  <1> QED
    BY <1>7, <1>8

\* The first half of a switch: what the running thread leaves in the memory of its context.
Left == [stack EXCEPT ![current] = Save(stack[current], "f", [r \in Registers |-> <<current, r>>])]

\* The running thread is in neither list, and what it leaves is its context.
LEMMA RunningIsAlone ==
  ASSUME CoopInv, outcome = "running"
  PROVE  /\ current \in Threads /\ state[current] = "Running"
         /\ current \notin ToSet(Chain("ready")) /\ current \notin ToSet(Chain("blocked"))
         /\ Left = [t \in Threads |-> Left[t]]
         /\ Saved(current, Left[current])
         /\ \A t \in Threads : t # current => Left[t] = stack[t]
  <1>1. TypeOK /\ OneRuns /\ ContextIsOwn
    BY DEF CoopInv
  <1>2. current \in Threads /\ state[current] = "Running"
    BY <1>1 DEF OneRuns
  <1>3. current \notin ToSet(Chain("ready")) /\ current \notin ToSet(Chain("blocked"))
    BY <1>2, InvGivesLists
  <1>4. /\ Left = [t \in Threads |-> Left[t]]
        /\ Left[current] = Save(stack[current], "f", [r \in Registers |-> <<current, r>>])
        /\ \A t \in Threads : t # current => Left[t] = stack[t]
    BY <1>1, <1>2 DEF TypeOK, Left
  <1>5. stack[current] = <<"__sthread_finish">>
    BY <1>1 DEF ContextIsOwn
  <1>6. Saved(current, Left[current])
    BY <1>4, <1>5 DEF Saved
  <1> QED
    BY <1>2, <1>3, <1>4, <1>6

LEMMA BlockStep ==
  ASSUME CoopInv, sthread_block
  PROVE  CoopInv' /\ Abstract!Block
  <1> DEFINE r == Chain("ready")
             b == Chain("blocked")
             m == enqueue_thread(lists, current, "Blocked")
             now == [state EXCEPT ![current] = "Blocked"]
             running == IF outcome = "running" THEN current ELSE NULL
             w == {b[k] : k \in DOMAIN b} \cup {running}
  <1>1. outcome = "running" /\ Select(now, m, Left)
    BY DEF sthread_block, Switch, Left
  <1>2. /\ TwoLists(lists, state, r, b)
        /\ r \in Seq(Threads) /\ b \in Seq(Threads)
        /\ IsInjective(b)
    BY InvGivesLists DEF TwoLists, ListIsOrder
  <1>3. /\ current \in Threads /\ state[current] = "Running"
        /\ current \notin ToSet(r) /\ current \notin ToSet(b)
        /\ Left = [t \in Threads |-> Left[t]]
        /\ Saved(current, Left[current])
        /\ \A t \in Threads : t # current => Left[t] = stack[t]
    BY <1>1, RunningIsAlone
  <1>4. TypeOK /\ WaitingAreSaved
    BY DEF CoopInv
  <1>5. TwoLists(m, now, r, Append(b, current))
    <2> HIDE DEF r, b
    <2>1. state[current] \notin {"Ready", "Blocked"} /\ "Blocked" \in {"Ready", "Blocked"}
      BY <1>3
    <2>2. Enqueued(lists, state, r, b, current, "Blocked")
      BY <1>2, <1>3, <2>1, EnqueueWorks
    <2> QED
      BY <2>2 DEF Enqueued
  <1>6. \A t \in Threads : now[t] \in {"Ready", "Blocked"} => Saved(t, Left[t])
    BY <1>3, <1>4 DEF TypeOK, WaitingAreSaved
  <1>7. CanSwitch(m, now, Left, r, Append(b, current))
    <2> HIDE DEF m, now, r, b
    <2> QED
      BY <1>3, <1>5, <1>6 DEF CanSwitch
  <1>8. w = ToSet(Append(b, current))
    <2>1. ToSet(Append(b, current)) = ToSet(b) \cup {current}
      <3> HIDE DEF b
      <3> QED
        BY <1>2, <1>3, AppendOnce
    <2>2. {b[k] : k \in DOMAIN b} = ToSet(b)
      BY DEF ToSet
    <2>3. running = current
      BY <1>1
    <2> QED
      BY <2>1, <2>2, <2>3
  <1>9. current \in Threads \cup {NULL} /\ (r # Chain("ready") => r # <<>>)
    BY <1>3
  <1>10. CoopInv' /\ Abstract!Dispatch(r, w)
    <2> DEFINE c == Append(b, current)
    <2>1. CanSwitch(m, now, Left, r, c) /\ w = ToSet(c)
      BY <1>7, <1>8
    <2> HIDE DEF r, b, m, now, running, w, c
    <2> QED
      BY <1>1, <1>9, <2>1, SelectDispatches
  <1> QED
    BY <1>1, <1>10 DEF Abstract!Block

\* A thread that finishes leaves its struct and its stack.
LEMMA FinishStep ==
  ASSUME CoopInv, __sthread_finish
  PROVE  CoopInv' /\ Abstract!Finish
  <1> DEFINE r == Chain("ready")
             b == Chain("blocked")
             now == [state EXCEPT ![current] = "none"]
             stacks == [stack EXCEPT ![current] = <<>>]
             w == {b[k] : k \in DOMAIN b}
  <1>1. outcome = "running" /\ Select(now, lists, stacks)
    BY DEF __sthread_finish, Switch
  <1>2. /\ TwoLists(lists, state, r, b)
        /\ ToSet(r) = {t \in Threads : state[t] = "Ready"}
        /\ ToSet(b) = {t \in Threads : state[t] = "Blocked"}
    BY InvGivesLists
  <1>3. current \in Threads /\ state[current] = "Running"
    BY <1>1, RunningIsAlone
  <1>4. TypeOK /\ WaitingAreSaved
    BY DEF CoopInv
  <1>5. now \in [Threads -> States]
    BY <1>4 DEF TypeOK, States
  <1>6. TwoLists(lists, now, r, b)
    <2>1. /\ ToSet(r) = {t \in Threads : now[t] = "Ready"}
          /\ ToSet(b) = {t \in Threads : now[t] = "Blocked"}
      BY <1>2, <1>3, <1>4 DEF TypeOK
    <2>2. Apart(lists, "ready", r, "blocked", b)
      BY <1>2, ListsAreApart
    <2> HIDE DEF r, b, now
    <2> QED
      BY <1>5, <2>1, <2>2, ApartAreLists
  <1>7. /\ stacks = [t \in Threads |-> stacks[t]]
        /\ \A t \in Threads : now[t] \in {"Ready", "Blocked"} => Saved(t, stacks[t])
    BY <1>3, <1>4 DEF TypeOK, WaitingAreSaved
  <1>8. CanSwitch(lists, now, stacks, r, b)
    <2> HIDE DEF now, r, b, stacks
    <2> QED
      BY <1>6, <1>7 DEF CanSwitch
  <1>9. /\ w = ToSet(b)
        /\ current \in Threads \cup {NULL} /\ (r # Chain("ready") => r # <<>>)
    BY <1>3 DEF ToSet
  <1>10. CoopInv' /\ Abstract!Dispatch(r, w)
    <2> HIDE DEF r, b, now, stacks, w
    <2> QED
      BY <1>1, <1>8, <1>9, SelectDispatches
  <1> QED
    BY <1>1, <1>10 DEF Abstract!Finish

\* A thread that yields and gets the processor back at once: it was alone when it was
\* chosen, or is.
LEMMA ResumeStep ==
  ASSUME CoopInv, sthread_yield, Resumes
  PROVE  CoopInv' /\ UNCHANGED <<Chain("ready"), Chain("blocked")>>
         /\ UNCHANGED <<lists, current, outcome>>
  <1>1. outcome = "running" /\ Restore(current, Left) /\ UNCHANGED <<state, lists, current, outcome>>
    BY DEF sthread_yield, Switch, Left
  <1>2. /\ current \in Threads
        /\ Left = [t \in Threads |-> Left[t]]
        /\ Saved(current, Left[current])
        /\ \A t \in Threads : t # current => Left[t] = stack[t]
        /\ state[current] = "Running"
    BY <1>1, RunningIsAlone
  <1>3. /\ stack' = [Left EXCEPT ![current] = <<"__sthread_finish">>]
        /\ OwnContext(current, cpu'.pc, cpu'.regs)
    <2> HIDE DEF Left
    <2> QED
      BY <1>1, <1>2, RestoreWorks
  <1>4. Chain("ready")' = Chain("ready") /\ Chain("blocked")' = Chain("blocked")
    BY <1>1 DEF Chain
  <1>5. /\ stack' = [t \in Threads |-> stack'[t]]
        /\ stack'[current] = <<"__sthread_finish">>
        /\ \A t \in Threads : t # current => stack'[t] = stack[t]
    BY <1>2, <1>3
  <1>6. TypeOK' /\ OneRuns'
    BY <1>1, <1>5 DEF CoopInv, TypeOK, OneRuns
  <1>7. WaitingAreSaved'
    BY <1>1, <1>2, <1>5 DEF CoopInv, WaitingAreSaved
  <1>8. ContextIsOwn'
    BY <1>1, <1>3, <1>5 DEF ContextIsOwn, OwnContext
  <1>9. CoopInv'
    BY <1>1, <1>4, <1>6, <1>7, <1>8 DEF CoopInv
  <1> QED
    BY <1>1, <1>4, <1>9

LEMMA YieldStep ==
  ASSUME CoopInv, sthread_yield, ~ Resumes
  PROVE  CoopInv' /\ Abstract!Yield
  <1> DEFINE r == Chain("ready")
             b == Chain("blocked")
             m == enqueue_thread(lists, current, "Ready")
             now == [state EXCEPT ![current] = "Ready"]
             running == IF outcome = "running" THEN current ELSE NULL
             q == Append(r, running)
             w == {b[k] : k \in DOMAIN b}
  <1>1. outcome = "running" /\ Select(now, m, Left)
    BY DEF sthread_yield, Switch, Left
  <1>2. /\ TwoLists(lists, state, r, b)
        /\ r \in Seq(Threads) /\ b \in Seq(Threads)
        /\ lists.ready.head = NULL <=> r = <<>>
    BY InvGivesLists
  <1>3. /\ current \in Threads /\ state[current] = "Running"
        /\ current \notin ToSet(r) /\ current \notin ToSet(b)
        /\ Left = [t \in Threads |-> Left[t]]
        /\ Saved(current, Left[current])
        /\ \A t \in Threads : t # current => Left[t] = stack[t]
    BY <1>1, RunningIsAlone
  <1>4. TypeOK /\ WaitingAreSaved
    BY DEF CoopInv
  <1>5. running = current
    BY <1>1
  <1>6. TwoLists(m, now, q, b)
    <2> HIDE DEF r, b, running
    <2>1. state[current] \notin {"Ready", "Blocked"} /\ "Ready" \in {"Ready", "Blocked"}
      BY <1>3
    <2>2. Enqueued(lists, state, r, b, current, "Ready")
      BY <1>2, <1>3, <2>1, EnqueueWorks
    <2> QED
      BY <1>5, <2>2 DEF Enqueued
  <1>7. \A t \in Threads : now[t] \in {"Ready", "Blocked"} => Saved(t, Left[t])
    BY <1>3, <1>4 DEF TypeOK, WaitingAreSaved
  <1>8. CanSwitch(m, now, Left, q, b)
    <2> HIDE DEF m, now, q, b
    <2> QED
      BY <1>3, <1>6, <1>7 DEF CanSwitch
  <1>9. /\ w = ToSet(b)
        /\ current \in Threads \cup {NULL}
    BY <1>3 DEF ToSet
  <1>10. q # Chain("ready") => q # <<>>
    BY <1>2, <1>3, <1>5
  <1>11. CoopInv' /\ Abstract!Dispatch(q, w)
    <2> HIDE DEF r, b, m, now, q, w
    <2> QED
      BY <1>1, <1>8, <1>9, <1>10, SelectDispatches
  <1>12. r # <<>> /\ ~ (outcome = "running" /\ lists.next[current] = NULL)
    BY <1>2 DEF Resumes
  <1> QED
    BY <1>1, <1>11, <1>12 DEF Abstract!Yield

-----------------------------------------------------------------------------
(* The theorems *)

LEMMA StepInv == CoopInv /\ [Next]_vars => CoopInv'
  <1> SUFFICES ASSUME CoopInv, [Next]_vars PROVE CoopInv'
    OBVIOUS
  <1>1. CASE sthread_start
    BY <1>1, StartStep
  <1>2. CASE sthread_yield
    BY <1>2, YieldStep, ResumeStep
  <1>3. CASE sthread_block
    BY <1>3, BlockStep
  <1>4. CASE __sthread_finish
    BY <1>4, FinishStep
  <1>5. ASSUME NEW t \in Threads, sthread_create(t) PROVE CoopInv'
    BY <1>5, CreateStep
  <1>6. ASSUME NEW t \in Threads, sthread_unblock(t) PROVE CoopInv'
    BY <1>6, UnblockStep
  <1>7. ASSUME NEW t \in Threads, UnblockAsserts(t) PROVE CoopInv'
    BY <1>7, AbortStep
  <1>8. CASE UNCHANGED vars
    BY <1>8 DEF vars, CoopInv, TypeOK, OneRuns, WaitingAreSaved, ContextIsOwn, Chain
  <1> QED
    BY <1>1, <1>2, <1>3, <1>4, <1>5, <1>6, <1>7, <1>8 DEF Next, Calls, Others

LEMMA InitIsAbstract == Init => Abstract!Init
  <1> SUFFICES ASSUME Init PROVE Abstract!Init
    OBVIOUS
  <1>1. ToSet(Chain("ready")) = {} /\ ToSet(Chain("blocked")) = {}
    BY InitInv, InvGivesLists DEF Init
  <1>2. Chain("ready") = <<>>
    BY InitInv, InvGivesLists DEF Init, Empty
  <1>3. {Chain("blocked")[k] : k \in DOMAIN Chain("blocked")} = {}
    BY <1>1 DEF ToSet
  <1>4. outcome = "main"
    BY DEF Init
  <1> QED
    BY <1>2, <1>3, <1>4 DEF Abstract!Init

LEMMA StepsAreThreadSteps == CoopInv /\ [Next]_vars => [Abstract!Next]_(Abstract!vars)
  <1> SUFFICES ASSUME CoopInv, [Next]_vars PROVE [Abstract!Next]_(Abstract!vars)
    OBVIOUS
  <1>1. CASE sthread_start
    BY <1>1, StartStep DEF Abstract!Next
  <1>2. CASE sthread_yield
    <2>1. CASE Resumes
      <3>1. UNCHANGED <<Chain("ready"), Chain("blocked"), lists, current, outcome>>
        BY <1>2, <2>1, ResumeStep
      <3> QED
        BY <3>1 DEF Abstract!vars
    <2> QED
      BY <1>2, <2>1, YieldStep DEF Abstract!Next
  <1>3. CASE sthread_block
    BY <1>3, BlockStep DEF Abstract!Next
  <1>4. CASE __sthread_finish
    BY <1>4, FinishStep DEF Abstract!Next
  <1>5. ASSUME NEW t \in Threads, sthread_create(t) PROVE Abstract!Next
    BY <1>5, CreateStep DEF Abstract!Next
  <1>6. ASSUME NEW t \in Threads, sthread_unblock(t) PROVE Abstract!Next
    BY <1>6, UnblockStep DEF Abstract!Next
  <1>7. ASSUME NEW t \in Threads, UnblockAsserts(t) PROVE Abstract!Next
    BY <1>7, AbortStep DEF Abstract!Next
  <1>8. CASE UNCHANGED vars
    BY <1>8 DEF vars, Abstract!vars, Chain
  <1> QED
    BY <1>1, <1>2, <1>3, <1>4, <1>5, <1>6, <1>7, <1>8 DEF Next, Calls, Others

(* Whatever the order of the calls, a thread that runs has its own registers, *)
(* its own stack and the place it left, and its function returns to           *)
(* __sthread_finish.                                                          *)
THEOREM ContextsSurvive == Spec => []ContextIsOwn
  <1>1. CoopInv => ContextIsOwn
    BY DEF CoopInv
  <1> QED
    BY <1>1, InitInv, StepInv, PTL DEF Spec

(* Whatever the order of the calls, and for any set of threads, the linked    *)
(* lists are a first-come-first-served queue and a set of blocked threads:    *)
(* each call of the library is a step of AbstractThreads.                     *)
THEOREM ImplementsThreads == Spec => IsScheduler
  <1>1. Spec => []CoopInv
    BY InitInv, StepInv, PTL DEF Spec
  <1> QED
    BY <1>1, InitIsAbstract, StepsAreThreadSteps, PTL DEF Spec, IsScheduler, Abstract!Spec

=============================================================================
