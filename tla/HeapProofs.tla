------------------------------ MODULE HeapProofs ------------------------------
(***************************************************************************)
(* The heap of lab03 stays consistent and keeps what is stored in it, for  *)
(* a heap of any size and any trace of requests.                           *)
(***************************************************************************)
EXTENDS Heap, QueueLemmas

LEMMA WordsAre == \A a : a \in Words <=> a \in Nat /\ a % 4 = 0 /\ a < MaxHeap
  <1>1. ASSUME NEW a \in Words
        PROVE  a \in Nat /\ a % 4 = 0 /\ a < MaxHeap
    BY HeapAssumption, <1>1 DEF Words
  <1>2. ASSUME NEW a \in Nat, a % 4 = 0, a < MaxHeap
        PROVE  a \in Words
    <2>1. (a \div 4) \in 0 .. (MaxHeap \div 4) - 1 /\ a = 4 * (a \div 4)
      BY HeapAssumption, <1>2
    <2> QED
      BY <2>1 DEF Words
  <1> QED
    BY <1>1, <1>2

LEMMA WordsApart ==
  ASSUME NEW p \in Nat, p % 8 = 4, NEW q \in Nat, q % 8 = 4
  PROVE  p + 4 # q + 8 /\ (p + 4) % 8 = 0 /\ (p + 8) % 8 = 4 /\ p # 0
  OBVIOUS

LEMMA TagDivides ==
  ASSUME NEW s \in Nat, s % 8 = 0, NEW b \in {0, 1}
  PROVE  ((s + b) \div 8) * 8 = s /\ (s + b) % 8 = b
  OBVIOUS

LEMMA AlignIsEnough ==
  ASSUME NEW n \in Nat
  PROVE  ALIGN(n) \in Nat /\ ALIGN(n) % 8 = 0 /\ ALIGN(n) >= n /\ ALIGN(n) < n + 8
  BY DEF ALIGN

-----------------------------------------------------------------------------
(* The blocks as a map from where each begins to its size and bit *)

Tag(size, alloc) == [size |-> size, alloc |-> alloc]
Tags == [size : Nat, alloc : {0, 1}]

\* The blocks of m lie apart from one another below brk.
Spaced(m, brk) ==
    /\ brk \in Nat /\ brk % 8 = 4 /\ brk <= MaxHeap
    /\ m \in [DOMAIN m -> Tags]
    /\ \A p \in DOMAIN m : /\ p \in Nat /\ p % 8 = 4
                           /\ m[p].size % 8 = 0 /\ m[p].size >= 24
                           /\ p + m[p].size <= brk
    /\ \A p, q \in DOMAIN m : p < q => p + m[p].size <= q

\* They leave no gap.
Whole(m, brk) ==
    /\ brk # heap_initp => heap_initp \in DOMAIN m
    /\ \A p \in DOMAIN m : p + m[p].size = brk \/ p + m[p].size \in DOMAIN m

Retag(m, p, alloc) == [q \in DOMAIN m |-> IF q = p THEN Tag(m[p].size, alloc) ELSE m[q]]

Merge(m, p, n, alloc) ==
    [q \in DOMAIN m \ {n} |-> IF q = p THEN Tag(m[p].size + m[n].size, alloc) ELSE m[q]]

Split(m, p, size) ==
    [q \in DOMAIN m \cup {p + size} |->
        IF q = p THEN Tag(size, 1)
        ELSE IF q = p + size THEN Tag(m[p].size - size, 0)
        ELSE m[q]]

Grown(m, brk, size) ==
    [q \in DOMAIN m \cup {brk} |-> IF q = brk THEN Tag(size, 1) ELSE m[q]]

LEMMA RetagIsLayout ==
  ASSUME NEW m, NEW brk, Spaced(m, brk), Whole(m, brk), NEW p \in DOMAIN m, NEW a \in {0, 1}
  PROVE  Spaced(Retag(m, p, a), brk) /\ Whole(Retag(m, p, a), brk)
  <1> DEFINE r == Retag(m, p, a)
  <1>1. /\ DOMAIN r = DOMAIN m
        /\ \A q \in DOMAIN m : /\ r[q].size = m[q].size
                               /\ r[q] \in Tags
    BY DEF Retag, Spaced, Tag, Tags
  <1>2. r \in [DOMAIN r -> Tags]
    BY <1>1 DEF Retag
  <1> HIDE DEF r
  <1>3. Spaced(r, brk)
    BY <1>1, <1>2 DEF Spaced
  <1>4. Whole(r, brk)
    BY <1>1 DEF Whole
  <1> QED
    BY <1>3, <1>4 DEF r

LEMMA MergeIsLayout ==
  ASSUME NEW m, NEW brk, Spaced(m, brk), Whole(m, brk), NEW a \in {0, 1},
         NEW p \in DOMAIN m, NEW n \in DOMAIN m, n = p + m[p].size
  PROVE  Spaced(Merge(m, p, n, a), brk) /\ Whole(Merge(m, p, n, a), brk)
  <1> DEFINE r == Merge(m, p, n, a)
  <1>0. \A q \in DOMAIN m : m[q] \in Tags /\ m[q].size \in Nat
    BY DEF Spaced, Tags
  <1>1. /\ DOMAIN r = DOMAIN m \ {n}
        /\ \A q \in DOMAIN m \ {n} :
             /\ r[q].size = IF q = p THEN m[p].size + m[n].size ELSE m[q].size
             /\ r[q] \in Tags
    BY <1>0 DEF Merge, Tag, Tags
  <1>2. r \in [DOMAIN r -> Tags]
    BY <1>1 DEF Merge
  <1> HIDE DEF r
  <1>3. p \in Nat /\ n \in Nat /\ p < n /\ heap_initp \in Nat
    BY <1>0 DEF Spaced, heap_initp
  <1>4. Spaced(r, brk)
    <2>1. ASSUME NEW q \in DOMAIN r
          PROVE  /\ q \in Nat /\ q % 8 = 4 /\ r[q].size % 8 = 0 /\ r[q].size >= 24
                 /\ q + r[q].size <= brk
      BY <1>0, <1>1, <1>3 DEF Spaced
    <2>2. ASSUME NEW x \in DOMAIN r, NEW y \in DOMAIN r, x < y
          PROVE  x + r[x].size <= y
      <3>1. CASE x = p
        <4>1. y \in DOMAIN m /\ y # n /\ n <= y
          BY <1>0, <1>1, <1>3, <2>2, <3>1 DEF Spaced
        <4>2. n + m[n].size <= y
          BY <1>3, <4>1 DEF Spaced
        <4> QED
          BY <1>0, <1>1, <1>3, <3>1, <4>2
      <3>2. CASE x # p
        BY <1>0, <1>1, <2>2, <3>2 DEF Spaced
      <3> QED
        BY <3>1, <3>2
    <2> QED
      BY <1>2, <2>1, <2>2 DEF Spaced
  <1>5. Whole(r, brk)
    <2>1. brk # heap_initp => heap_initp \in DOMAIN r
      BY <1>1, <1>3 DEF Whole, Spaced, heap_initp
    <2>2. ASSUME NEW q \in DOMAIN r
          PROVE  q + r[q].size = brk \/ q + r[q].size \in DOMAIN r
      <3>1. CASE q = p
        <4>1. q + r[q].size = n + m[n].size
          BY <1>0, <1>1, <1>3, <3>1
        <4>2. n + m[n].size # n
          BY <1>0, <1>3 DEF Spaced
        <4> QED
          BY <1>1, <4>1, <4>2 DEF Whole
      <3>2. CASE q # p
        <4>1. q \in DOMAIN m /\ r[q].size = m[q].size /\ q \in Nat /\ q # n
          BY <1>1, <3>2 DEF Spaced
        <4>2. q + m[q].size # n
          <5>1. CASE q < p
            <6>1. q + m[q].size <= p
              BY <4>1, <5>1 DEF Spaced
            <6> QED
              BY <1>0, <1>3, <4>1, <6>1
          <5>2. CASE p < q
            BY <1>0, <1>3, <4>1, <5>2 DEF Spaced
          <5> QED
            BY <1>3, <3>2, <4>1, <5>1, <5>2
        <4> QED
          BY <1>1, <4>1, <4>2 DEF Whole
      <3> QED
        BY <3>1, <3>2
    <2> QED
      BY <2>1, <2>2 DEF Whole
  <1> QED
    BY <1>4, <1>5 DEF r

LEMMA SplitIsLayout ==
  ASSUME NEW m, NEW brk, Spaced(m, brk), Whole(m, brk), NEW p \in DOMAIN m,
         NEW size \in Nat, size % 8 = 0, size >= 24, m[p].size - size >= 24
  PROVE  /\ Spaced(Split(m, p, size), brk) /\ Whole(Split(m, p, size), brk)
         /\ p + size \notin DOMAIN m
  <1> DEFINE r == Split(m, p, size)
             n == p + size
  <1>0. /\ \A q \in DOMAIN m : m[q] \in Tags /\ m[q].size \in Nat /\ q \in Nat
        /\ p \in Nat /\ n \in Nat /\ p < n
        /\ n < p + m[p].size /\ m[p].size - size \in Nat
    BY DEF Spaced, Tags
  <1>1. n \notin DOMAIN m
    BY <1>0 DEF Spaced
  <1>2. /\ DOMAIN r = DOMAIN m \cup {n}
        /\ \A q \in DOMAIN m \cup {n} :
             /\ r[q].size = IF q = p THEN size ELSE IF q = n THEN m[p].size - size ELSE m[q].size
             /\ r[q] \in Tags
    BY <1>0 DEF Split, Tag, Tags
  <1>3. r \in [DOMAIN r -> Tags]
    BY <1>2 DEF Split
  <1> HIDE DEF r
  <1>4. Spaced(r, brk)
    <2>0. n % 8 = 4 /\ (m[p].size - size) % 8 = 0 /\ n + (m[p].size - size) = p + m[p].size
      BY <1>0 DEF Spaced
    <2>1. ASSUME NEW q \in DOMAIN r
          PROVE  /\ q \in Nat /\ q % 8 = 4 /\ r[q].size % 8 = 0 /\ r[q].size >= 24
                 /\ q + r[q].size <= brk
      BY <1>0, <1>2, <2>0 DEF Spaced
    <2>2. ASSUME NEW x \in DOMAIN r, NEW y \in DOMAIN r, x < y
          PROVE  x + r[x].size <= y
      <3>1. CASE x = p
        <4>1. CASE y = n
          BY <1>0, <1>2, <3>1, <4>1
        <4>2. CASE y # n
          <5>1. p + m[p].size <= y
            BY <1>2, <2>2, <3>1, <4>2 DEF Spaced
          <5> QED
            BY <1>0, <1>2, <3>1, <4>2, <5>1
        <4> QED
          BY <4>1, <4>2
      <3>2. CASE x = n
        <4>1. y \in DOMAIN m /\ p < y
          BY <1>0, <1>2, <2>2, <3>2
        <4>2. p + m[p].size <= y
          BY <4>1 DEF Spaced
        <4> QED
          BY <1>0, <1>2, <2>0, <3>2, <4>2
      <3>3. CASE x # p /\ x # n
        <4>1. x \in DOMAIN m /\ r[x].size = m[x].size
          BY <1>2, <3>3
        <4>2. CASE y = n
          <5>1. x < p
            BY <1>0, <2>2, <3>3, <4>1, <4>2 DEF Spaced
          <5>2. x + m[x].size <= p
            BY <4>1, <5>1 DEF Spaced
          <5> QED
            BY <1>0, <4>1, <4>2, <5>2
        <4>3. CASE y # n
          BY <1>2, <2>2, <4>1, <4>3 DEF Spaced
        <4> QED
          BY <4>2, <4>3
      <3> QED
        BY <3>1, <3>2, <3>3
    <2> QED
      BY <1>3, <2>1, <2>2 DEF Spaced
  <1>5. Whole(r, brk)
    BY <1>0, <1>1, <1>2 DEF Whole
  <1> QED
    BY <1>1, <1>4, <1>5 DEF r

LEMMA GrownIsLayout ==
  ASSUME NEW m, NEW brk, Spaced(m, brk), Whole(m, brk),
         NEW size \in Nat, size % 8 = 0, size >= 24, brk + size <= MaxHeap
  PROVE  /\ Spaced(Grown(m, brk, size), brk + size) /\ Whole(Grown(m, brk, size), brk + size)
         /\ brk \notin DOMAIN m
  <1> DEFINE r == Grown(m, brk, size)
  <1>0. /\ \A q \in DOMAIN m : m[q] \in Tags /\ m[q].size \in Nat /\ q \in Nat /\ q < brk
        /\ brk \in Nat
    BY DEF Spaced, Tags
  <1>1. brk \notin DOMAIN m
    BY <1>0
  <1>2. /\ DOMAIN r = DOMAIN m \cup {brk}
        /\ \A q \in DOMAIN m \cup {brk} :
             /\ r[q].size = IF q = brk THEN size ELSE m[q].size
             /\ r[q] \in Tags
    BY <1>0 DEF Grown, Tag, Tags
  <1>3. r \in [DOMAIN r -> Tags]
    BY <1>2 DEF Grown
  <1> HIDE DEF r
  <1>4. Spaced(r, brk + size)
    <2>1. brk + size \in Nat /\ (brk + size) % 8 = 4
      BY DEF Spaced
    <2>2. ASSUME NEW q \in DOMAIN r
          PROVE  /\ q \in Nat /\ q % 8 = 4 /\ r[q].size % 8 = 0 /\ r[q].size >= 24
                 /\ q + r[q].size <= brk + size
      BY <1>0, <1>2 DEF Spaced
    <2>3. ASSUME NEW x \in DOMAIN r, NEW y \in DOMAIN r, x < y
          PROVE  x + r[x].size <= y
      BY <1>0, <1>2, <2>3 DEF Spaced
    <2> QED
      BY <1>3, <2>1, <2>2, <2>3 DEF Spaced
  <1>5. Whole(r, brk + size)
    BY <1>0, <1>1, <1>2 DEF Whole
  <1> QED
    BY <1>1, <1>4, <1>5 DEF r

\* Every block but the first follows one.
LEMMA BlockBefore ==
  ASSUME NEW m, NEW brk, Spaced(m, brk), Whole(m, brk), NEW p \in DOMAIN m, p # heap_initp
  PROVE  \E q \in DOMAIN m : q + m[q].size = p
  <1> DEFINE T == {p - q : q \in {x \in DOMAIN m : x < p}}
  <1>0. \A q \in DOMAIN m : m[q].size \in Nat /\ q \in Nat /\ q % 8 = 4
    BY DEF Spaced, Tags
  <1>1. T \in SUBSET Nat
    BY <1>0
  <1>2. T # {}
    <2>1. brk # heap_initp
      BY <1>0 DEF Spaced, heap_initp
    <2>2. heap_initp \in DOMAIN m /\ heap_initp < p
      BY <1>0, <2>1 DEF Whole, heap_initp
    <2> QED
      BY <2>2
  <1>3. PICK t \in T : \A u \in T : t <= u
    <2> HIDE DEF T
    <2> QED
      BY <1>1, <1>2, LeastElement
  <1>4. PICK q \in DOMAIN m : q < p /\ t = p - q
    BY <1>3
  <1>5. ASSUME NEW x \in DOMAIN m, x < p
        PROVE  x <= q
    <2>1. p - x \in T
      BY <1>5
    <2>2. p - q <= p - x
      BY <1>3, <1>4, <2>1
    <2> QED
      BY <1>0, <2>2
  <1>6. q + m[q].size <= p
    BY <1>4 DEF Spaced
  <1>7. q + m[q].size \in DOMAIN m
    BY <1>0, <1>4, <1>6 DEF Whole, Spaced
  <1>8. q + m[q].size > q
    BY <1>0 DEF Spaced
  <1> QED
    BY <1>0, <1>5, <1>6, <1>7, <1>8

-----------------------------------------------------------------------------
(* The words of a block *)

Heaps == [mem : [Words -> Int], brk : Nat, free : Nat]

\* Header and footer of each block are what the map says, and the prologue is there.
Tagged(h, m) ==
    /\ h.mem[0] = 1
    /\ \A p \in DOMAIN m : /\ h.mem[p] = m[p].size + m[p].alloc
                           /\ h.mem[p + m[p].size - 4] = m[p].size + m[p].alloc

\* The words the block at p takes up, and the two of its tags.
Own(m, p) == {a \in Words : p <= a /\ a < p + m[p].size}
TagWords(m, p) == {p, p + m[p].size - 4}

\* Only words of W have changed.
Except(h, g, W) == \A a \in Words \ W : g.mem[a] = h.mem[a]

LEMMA BlockInWords ==
  ASSUME NEW m, NEW brk, Spaced(m, brk), NEW p \in DOMAIN m
  PROVE  /\ p \in Words /\ p + m[p].size - 4 \in Words /\ p + 4 \in Words /\ p + 8 \in Words
         /\ p + m[p].size \in Words
         /\ m[p].size \in Nat /\ m[p].alloc \in {0, 1} /\ p \in Nat
  <1>1. m[p].size \in Nat /\ m[p].alloc \in {0, 1} /\ p \in Nat
    BY DEF Spaced, Tags
  <1>2. /\ p % 8 = 4 /\ m[p].size % 8 = 0 /\ m[p].size >= 24 /\ p + m[p].size <= brk
        /\ brk % 8 = 4 /\ brk <= MaxHeap /\ brk \in Nat
    BY DEF Spaced
  <1>3. brk < MaxHeap
    BY <1>2, HeapAssumption
  <1> DEFINE s == m[p].size
  <1>4. /\ p % 4 = 0 /\ (p + s - 4) % 4 = 0 /\ (p + 4) % 4 = 0 /\ (p + 8) % 4 = 0
        /\ (p + s) % 4 = 0
        /\ p \in Nat /\ p + s - 4 \in Nat /\ p + 4 \in Nat /\ p + 8 \in Nat /\ p + s \in Nat
        /\ p < MaxHeap /\ p + s - 4 < MaxHeap /\ p + 4 < MaxHeap /\ p + 8 < MaxHeap
        /\ p + s < MaxHeap
    BY <1>1, <1>2, <1>3, HeapAssumption
  <1>5. \A a \in Nat : a % 4 = 0 /\ a < MaxHeap => a \in Words
    BY WordsAre
  <1>6. p \in Words /\ p + s - 4 \in Words /\ p + 4 \in Words /\ p + 8 \in Words /\ p + s \in Words
    <2> HIDE DEF s
    <2> QED
      BY <1>4, <1>5
  <1> QED
    BY <1>1, <1>6

LEMMA TagsAreRead ==
  ASSUME NEW h \in Heaps, NEW m, NEW brk, Spaced(m, brk), Tagged(h, m), NEW p \in DOMAIN m
  PROVE  /\ GET_SIZE(h, p) = m[p].size
         /\ GET_ALLOC(h, p) = m[p].alloc
         /\ GET_FOOTER(h, p) = h.mem[p]
         /\ GET_AFTER(h, p) = p + m[p].size
  <1>1. m[p].size \in Nat /\ m[p].size % 8 = 0 /\ m[p].alloc \in {0, 1}
    BY DEF Spaced, Tags
  <1>2. /\ h.mem[p] = m[p].size + m[p].alloc
        /\ h.mem[p + m[p].size - 4] = m[p].size + m[p].alloc
    BY DEF Tagged
  <1>3. GET_SIZE(h, p) = m[p].size /\ GET_ALLOC(h, p) = m[p].alloc
    BY <1>1, <1>2, TagDivides, ZenonT(30) DEF GET_SIZE, GET_ALLOC
  <1> QED
    BY <1>2, <1>3 DEF GET_FOOTER, GET_AFTER

\* What the block before says in its footer.
LEMMA FooterIsRead ==
  ASSUME NEW h \in Heaps, NEW m, NEW brk, Spaced(m, brk), Tagged(h, m),
         NEW p \in DOMAIN m, NEW q \in DOMAIN m, q + m[q].size = p
  PROVE  GET_BEFORE(h, p) = q /\ GET_B_ALLOC(h, p) = m[q].alloc
  <1>1. /\ m[q].size \in Nat /\ m[q].size % 8 = 0 /\ m[q].alloc \in {0, 1} /\ q \in Nat
    BY DEF Spaced, Tags
  <1>2. h.mem[p - 4] = m[q].size + m[q].alloc
    <2>1. p - 4 = q + m[q].size - 4
      BY <1>1
    <2> QED
      BY <2>1 DEF Tagged
  <1>3. GET_SIZE(h, p - 4) = m[q].size /\ GET_ALLOC(h, p - 4) = m[q].alloc
    BY <1>1, <1>2, TagDivides DEF GET_SIZE, GET_ALLOC
  <1> QED
    BY <1>1, <1>3 DEF GET_BEFORE, GET_B_ALLOC

LEMMA OwnIsOwn ==
  ASSUME NEW m, NEW brk, Spaced(m, brk), NEW p \in DOMAIN m, NEW q \in DOMAIN m, p # q
  PROVE  Own(m, p) \cap Own(m, q) = {}
  <1>1. \A a \in Words : a \in Nat
    BY WordsAre
  <1>2. p \in Nat /\ q \in Nat /\ m[p].size \in Nat /\ m[q].size \in Nat
    BY BlockInWords
  <1>3. p + m[p].size <= q \/ q + m[q].size <= p
    BY <1>2 DEF Spaced
  <1> QED
    BY <1>1, <1>2, <1>3 DEF Own

LEMMA TagsAreOwn ==
  ASSUME NEW m, NEW brk, Spaced(m, brk), NEW p \in DOMAIN m
  PROVE  TagWords(m, p) \subseteq Own(m, p)
  <1>1. m[p].size >= 24
    BY DEF Spaced
  <1> QED
    BY <1>1, BlockInWords DEF TagWords, Own

\* Writing the tags of one block of a map whose other blocks are tagged.
LEMMA SetTagsWorks ==
  ASSUME NEW h \in Heaps, NEW m, NEW r, NEW brk, Spaced(r, brk), Tagged(h, m), NEW p \in DOMAIN r,
         \A q \in DOMAIN r \ {p} : q \in DOMAIN m /\ r[q] = m[q],
         NEW g, g = SetTags(h, p, r[p].size, r[p].alloc)
  PROVE  /\ g \in Heaps /\ g.brk = h.brk /\ g.free = h.free
         /\ Tagged(g, r)
         /\ Except(h, g, TagWords(r, p))
  <1> DEFINE s == r[p].size
             v == r[p].size + r[p].alloc
  <1>1. p \in Words /\ p + s - 4 \in Words /\ p \in Nat /\ s \in Nat /\ v \in Int /\ s >= 24
    BY BlockInWords DEF Spaced
  <1>2. /\ h.mem \in [Words -> Int] /\ h.brk \in Nat /\ h.free \in Nat
        /\ h = [mem |-> h.mem, brk |-> h.brk, free |-> h.free]
    BY DEF Heaps
  <1>3. g = [mem |-> [[h.mem EXCEPT ![p] = v] EXCEPT ![p + s - 4] = v],
             brk |-> h.brk, free |-> h.free]
    BY <1>2 DEF SetTags
  <1> HIDE DEF v
  <1>4. g \in Heaps /\ g.brk = h.brk /\ g.free = h.free
    BY <1>1, <1>2, <1>3 DEF Heaps
  <1>5. \A a \in Words : g.mem[a] = IF a = p \/ a = p + s - 4 THEN v ELSE h.mem[a]
    BY <1>1, <1>2, <1>3
  <1>6. Except(h, g, TagWords(r, p))
    BY <1>5 DEF Except, TagWords
  <1>7. Tagged(g, r)
    <2>1. g.mem[0] = 1
      <3>1. 0 \in Words /\ p # 0 /\ p + s - 4 # 0
        BY <1>1, HeapAssumption, WordsAre DEF Spaced
      <3> QED
        BY <1>5, <3>1 DEF Tagged
    <2>2. ASSUME NEW q \in DOMAIN r
          PROVE  /\ g.mem[q] = r[q].size + r[q].alloc
                 /\ g.mem[q + r[q].size - 4] = r[q].size + r[q].alloc
      <3>1. CASE q = p
        BY <1>1, <1>5, <3>1 DEF v
      <3>2. CASE q # p
        <4>1. TagWords(r, q) \cap TagWords(r, p) = {}
          BY <3>2, OwnIsOwn, TagsAreOwn
        <4>2. q \in Words /\ q + r[q].size - 4 \in Words
          BY BlockInWords
        <4>3. g.mem[q] = h.mem[q] /\ g.mem[q + r[q].size - 4] = h.mem[q + r[q].size - 4]
          BY <4>1, <4>2, <1>5 DEF TagWords
        <4>4. q \in DOMAIN m /\ r[q] = m[q]
          BY <3>2
        <4> QED
          BY <4>3, <4>4 DEF Tagged
      <3> QED
        BY <3>1, <3>2
    <2> QED
      BY <2>1, <2>2 DEF Tagged
  <1> QED
    BY <1>4, <1>6, <1>7

LEMMA TagsStay ==
  ASSUME NEW h, NEW g, NEW m, NEW brk, Spaced(m, brk), Tagged(h, m), NEW W, Except(h, g, W),
         0 \notin W, \A p \in DOMAIN m : TagWords(m, p) \cap W = {}
  PROVE  Tagged(g, m)
  <1>1. 0 \in Words
    BY HeapAssumption, WordsAre
  <1>2. ASSUME NEW p \in DOMAIN m
        PROVE  g.mem[p] = h.mem[p] /\ g.mem[p + m[p].size - 4] = h.mem[p + m[p].size - 4]
    BY <1>2, BlockInWords DEF Except, TagWords
  <1> QED
    BY <1>1, <1>2 DEF Tagged, Except

-----------------------------------------------------------------------------
(* The free list *)

\* The blocks of F are linked from h.free on, and the order falls along the links.
Ordered(h, F, top, order) ==
    /\ order \in [F -> 0 .. top]
    /\ h.free \in F \cup {NULL}
    /\ F # {} => h.free # NULL
    /\ \A p \in F : /\ p \in Nat /\ p % 8 = 4 /\ p + 4 \in Words /\ p + 8 \in Words
                    /\ get_next(h, p) \in F \cup {NULL}
                    /\ get_prev(h, p) \in F \cup {NULL}
                    /\ get_prev(h, p) = NULL <=> p = h.free
                    /\ get_prev(h, p) # NULL => get_next(h, get_prev(h, p)) = p
                    /\ get_next(h, p) # NULL => /\ get_prev(h, get_next(h, p)) = p
                                                /\ order[get_next(h, p)] < order[p]

Chained(h, F) == \E top \in Nat : \E order \in [F -> 0 .. top] : Ordered(h, F, top, order)

LinkWords(F) == {p + 4 : p \in F} \cup {p + 8 : p \in F}

LEMMA LinkWorks ==
  ASSUME NEW h \in Heaps, NEW p \in Nat, p % 8 = 4, NEW field \in Nat, p + field \in Words,
         NEW q \in Nat, q # p
  PROVE  /\ Link(h, p, field, q) \in Heaps
         /\ Link(h, p, field, q).brk = h.brk /\ Link(h, p, field, q).free = h.free
         /\ Linked(Link(h, p, field, q), p, field) = q
         /\ Except(h, Link(h, p, field, q), {p + field})
  <1> DEFINE v == IF q = NULL THEN 0 ELSE q - p
             g == Link(h, p, field, q)
  <1>1. /\ h.mem \in [Words -> Int] /\ h.brk \in Nat /\ h.free \in Nat
        /\ h = [mem |-> h.mem, brk |-> h.brk, free |-> h.free]
    BY DEF Heaps
  <1>2. g = [mem |-> [h.mem EXCEPT ![p + field] = v], brk |-> h.brk, free |-> h.free]
    BY <1>1 DEF Link
  <1>3. v \in Int /\ (v = 0 => q = NULL) /\ (v # 0 => q = p + v)
    BY DEF NULL
  <1> HIDE DEF v
  <1>4. g.mem[p + field] = v /\ \A a \in Words \ {p + field} : g.mem[a] = h.mem[a]
    BY <1>1, <1>2
  <1>5. g \in Heaps /\ g.brk = h.brk /\ g.free = h.free
    BY <1>1, <1>2, <1>3 DEF Heaps
  <1> QED
    BY <1>3, <1>4, <1>5 DEF Linked, Except, NULL

LEMMA SetNextWorks ==
  ASSUME NEW h \in Heaps, NEW p \in Nat, p % 8 = 4, p + 8 \in Words, NEW q \in Nat, q # p
  PROVE  /\ set_next(h, p, q) \in Heaps
         /\ set_next(h, p, q).brk = h.brk /\ set_next(h, p, q).free = h.free
         /\ get_next(set_next(h, p, q), p) = q
         /\ Except(h, set_next(h, p, q), {p + 8})
  BY LinkWorks DEF set_next, get_next

LEMMA SetPrevWorks ==
  ASSUME NEW h \in Heaps, NEW p \in Nat, p % 8 = 4, p + 4 \in Words, NEW q \in Nat, q # p
  PROVE  /\ set_prev(h, p, q) \in Heaps
         /\ set_prev(h, p, q).brk = h.brk /\ set_prev(h, p, q).free = h.free
         /\ get_prev(set_prev(h, p, q), p) = q
         /\ Except(h, set_prev(h, p, q), {p + 4})
  BY LinkWorks DEF set_prev, get_prev

\* Links are read from their words.
LEMMA LinksStay ==
  ASSUME NEW h, NEW g, NEW W, Except(h, g, W), NEW p \in Nat, p + 4 \in Words, p + 8 \in Words
  PROVE  /\ p + 4 \notin W => get_prev(g, p) = get_prev(h, p)
         /\ p + 8 \notin W => get_next(g, p) = get_next(h, p)
  BY DEF Except, get_prev, get_next, Linked

LEMMA ChainStays ==
  ASSUME NEW h, NEW g, NEW F, Chained(h, F), g.free = h.free,
         NEW W, Except(h, g, W), W \cap LinkWords(F) = {}
  PROVE  Chained(g, F)
  <1>0. PICK top \in Nat : \E order \in [F -> 0 .. top] : Ordered(h, F, top, order)
    BY DEF Chained
  <1>1. PICK order \in [F -> 0 .. top] : Ordered(h, F, top, order)
    BY <1>0
  <1>2. ASSUME NEW p \in F
        PROVE  get_prev(g, p) = get_prev(h, p) /\ get_next(g, p) = get_next(h, p)
    BY <1>1, LinksStay DEF Ordered, LinkWords
  <1>3. NULL \notin F
    BY <1>1 DEF Ordered, NULL
  <1>4. Ordered(g, F, top, order)
    BY <1>1, <1>2, <1>3 DEF Ordered
  <1> QED
    BY <1>4 DEF Chained

LEMMA AddFrontWorks ==
  ASSUME NEW h \in Heaps, NEW F, Chained(h, F),
         NEW p \in Nat, p % 8 = 4, p + 4 \in Words, p + 8 \in Words, p \notin F,
         NEW g, g = add_front(h, p)
  PROVE  /\ g \in Heaps /\ g.brk = h.brk
         /\ Chained(g, F \cup {p})
         /\ Except(h, g, LinkWords(F \cup {p}))
  <1>0. PICK top \in Nat : \E order \in [F -> 0 .. top] : Ordered(h, F, top, order)
    BY DEF Chained
  <1>1. PICK order \in [F -> 0 .. top] : Ordered(h, F, top, order)
    BY <1>0
  <1>2. /\ \A f \in F : f \in Nat /\ f % 8 = 4 /\ f + 4 \in Words /\ f + 8 \in Words
        /\ NULL \notin F /\ p # NULL /\ h.free \in Nat /\ h.free # p
        /\ h.free # NULL => h.free \in F
    BY <1>1 DEF Ordered, NULL
  <1> DEFINE a == set_prev(h, p, NULL)
             own == set_next(a, p, h.free)
             both == IF h.free = NULL THEN own ELSE set_prev(own, h.free, p)
  <1>3. /\ a \in Heaps /\ a.brk = h.brk /\ a.free = h.free
        /\ get_prev(a, p) = NULL
        /\ Except(h, a, {p + 4})
    <2>1. NULL \in Nat /\ p + 4 \in Words
      BY DEF NULL
    <2> QED
      BY <1>2, <2>1, SetPrevWorks
  <1> HIDE DEF a
  <1>4. /\ own \in Heaps /\ own.brk = h.brk /\ own.free = h.free
        /\ get_next(own, p) = h.free
        /\ Except(a, own, {p + 8})
    BY <1>2, <1>3, SetNextWorks, ZenonT(30)
  <1>5. get_prev(own, p) = NULL
    BY <1>3, <1>4, LinksStay
  <1> HIDE DEF own
  <1>6. /\ both \in Heaps /\ both.brk = h.brk /\ both.free = h.free
        /\ h.free # NULL => get_prev(both, h.free) = p
        /\ Except(own, both, IF h.free = NULL THEN {} ELSE {h.free + 4})
    <2>1. CASE h.free = NULL
      BY <1>4, <2>1 DEF Except
    <2>2. CASE h.free # NULL
      BY <1>2, <1>4, <2>2, SetPrevWorks, ZenonT(30)
    <2> QED
      BY <2>1, <2>2
  <1> HIDE DEF both
  <1>7. g = [mem |-> both.mem, brk |-> both.brk, free |-> p]
    BY <1>6 DEF add_front, own, both, a, Heaps
  <1>8. g \in Heaps /\ g.brk = h.brk /\ g.free = p /\ g.mem = both.mem
    BY <1>6, <1>7 DEF Heaps
  <1>9. Except(h, g, LinkWords(F \cup {p}))
    BY <1>2, <1>3, <1>4, <1>6, <1>8 DEF Except, LinkWords
  <1>10. /\ get_prev(g, p) = NULL
         /\ get_next(g, p) = h.free
    <2>1. /\ p + 4 \notin IF h.free = NULL THEN {} ELSE {h.free + 4}
          /\ p + 8 \notin IF h.free = NULL THEN {} ELSE {h.free + 4}
      BY <1>2
    <2>2. get_prev(both, p) = NULL /\ get_next(both, p) = h.free
      BY <1>4, <1>5, <1>6, <2>1, LinksStay
    <2> QED
      BY <1>8, <2>2 DEF get_prev, get_next, Linked
  <1>11. ASSUME NEW f \in F
         PROVE  /\ get_prev(g, f) = IF f = h.free THEN p ELSE get_prev(h, f)
                /\ get_next(g, f) = get_next(h, f)
    <2>1. f \in Nat /\ f % 8 = 4 /\ f + 4 \in Words /\ f + 8 \in Words /\ f # p /\ f # NULL
      BY <1>2
    <2>2. f + 4 # p + 4 /\ f + 4 # p + 8 /\ f + 8 # p + 4 /\ f + 8 # p + 8
      BY <2>1
    <2>3. get_prev(own, f) = get_prev(h, f) /\ get_next(own, f) = get_next(h, f)
      BY <1>3, <1>4, <2>1, <2>2, LinksStay
    <2>4. f + 8 # h.free + 4 /\ (f # h.free => f + 4 # h.free + 4)
      BY <1>2, <2>1 DEF NULL
    <2>5. get_next(both, f) = get_next(h, f) /\ (f # h.free => get_prev(both, f) = get_prev(h, f))
      BY <1>6, <2>1, <2>3, <2>4, LinksStay
    <2>6. get_prev(both, f) = IF f = h.free THEN p ELSE get_prev(h, f)
      BY <1>6, <2>1, <2>5
    <2> QED
      BY <1>8, <2>5, <2>6 DEF get_prev, get_next, Linked
  <1> DEFINE o == [f \in F \cup {p} |-> IF f = p THEN top + 1 ELSE order[f]]
  <1>12. Ordered(g, F \cup {p}, top + 1, o)
    <2>1. /\ o \in [F \cup {p} -> 0 .. top + 1]
          /\ o[p] = top + 1
          /\ \A f \in F : o[f] = order[f] /\ o[f] < top + 1 /\ o[f] \in Nat
      BY DEF o
    <2> HIDE DEF o
    <2>2. ASSUME NEW f \in F
          PROVE  /\ get_next(g, f) \in F \cup {p} \cup {NULL}
                 /\ get_prev(g, f) \in F \cup {p} \cup {NULL}
                 /\ get_prev(g, f) = NULL <=> f = g.free
                 /\ get_prev(g, f) # NULL => get_next(g, get_prev(g, f)) = f
                 /\ get_next(g, f) # NULL => /\ get_prev(g, get_next(g, f)) = f
                                             /\ o[get_next(g, f)] < o[f]
      BY <1>1, <1>2, <1>8, <1>10, <1>11, <2>1 DEF Ordered
    <2>3. /\ get_next(g, p) \in F \cup {p} \cup {NULL}
          /\ get_prev(g, p) \in F \cup {p} \cup {NULL}
          /\ get_prev(g, p) = NULL <=> p = g.free
          /\ get_next(g, p) # NULL => /\ get_prev(g, get_next(g, p)) = p
                                      /\ o[get_next(g, p)] < o[p]
      BY <1>2, <1>8, <1>10, <1>11, <2>1
    <2> QED
      BY <1>2, <1>8, <1>10, <2>1, <2>2, <2>3 DEF Ordered
  <1>13. Chained(g, F \cup {p})
    <2>1. top + 1 \in Nat /\ o \in [F \cup {p} -> 0 .. top + 1]
      BY <1>12 DEF Ordered
    <2> QED
      BY <1>12, <2>1 DEF Chained
  <1> QED
    BY <1>8, <1>9, <1>13

LEMMA RemoveFreeWorks ==
  ASSUME NEW h \in Heaps, NEW F, Chained(h, F), NEW x \in F, NEW g, g = remove_free(h, x)
  PROVE  /\ g \in Heaps /\ g.brk = h.brk
         /\ Chained(g, F \ {x})
         /\ Except(h, g, LinkWords(F \ {x}))
  <1>0. PICK top \in Nat : \E order \in [F -> 0 .. top] : Ordered(h, F, top, order)
    BY DEF Chained
  <1>1. PICK order \in [F -> 0 .. top] : Ordered(h, F, top, order)
    BY <1>0
  <1>2. /\ \A f \in F : f \in Nat /\ f % 8 = 4 /\ f + 4 \in Words /\ f + 8 \in Words /\ f # NULL
        /\ NULL \in Nat
    <2>1. \A f \in F : f \in Nat /\ f % 8 = 4 /\ f + 4 \in Words /\ f + 8 \in Words
      BY <1>1 DEF Ordered
    <2> QED
      BY <2>1 DEF NULL
  <1> DEFINE prev == get_prev(h, x)
             next == get_next(h, x)
             \* The links before and after, and the front.
             a == IF prev = NULL THEN h ELSE set_next(h, prev, next)
             b == IF next = NULL THEN a ELSE set_prev(a, next, prev)
             front == IF prev = NULL THEN next ELSE h.free
  <1>3. /\ prev \in F \cup {NULL} /\ next \in F \cup {NULL}
        /\ prev # NULL => get_next(h, prev) = x
        /\ next # NULL => get_prev(h, next) = x /\ order[next] < order[x]
        /\ prev = NULL <=> x = h.free
    BY <1>1 DEF Ordered
  <1>4. /\ prev # x /\ next # x
        /\ prev # NULL => order[x] < order[prev]
        /\ prev # NULL => prev # next
    <2>1. \A f \in F : order[f] \in Nat
      OBVIOUS
    <2>2. prev # NULL => order[x] < order[prev]
      BY <1>1, <1>2, <1>3 DEF Ordered
    <2> QED
      BY <1>2, <1>3, <2>1, <2>2
  <1>5. g = [mem |-> b.mem, brk |-> b.brk, free |-> front]
    <2>1. /\ h = [mem |-> h.mem, brk |-> h.brk, free |-> h.free]
          /\ h.mem \in [Words -> Int] /\ h.brk \in Nat /\ h.free \in Nat
      BY DEF Heaps
    <2>2. CASE prev = NULL /\ next = NULL
      BY <2>1, <2>2 DEF remove_free
    <2>3. CASE prev = NULL /\ next # NULL
      BY <2>1, <2>3 DEF remove_free, set_prev, Link
    <2>4. CASE prev # NULL /\ next = NULL
      BY <2>1, <2>4 DEF remove_free, set_next, Link
    <2>5. CASE prev # NULL /\ next # NULL
      BY <2>1, <2>5 DEF remove_free, set_next, set_prev, Link
    <2> QED
      BY <2>2, <2>3, <2>4, <2>5
  <1>6. prev \in Nat /\ next \in Nat
    BY <1>2, <1>3
  <1> HIDE DEF prev, next
  <1>7. /\ a \in Heaps /\ a.brk = h.brk /\ a.free = h.free
        /\ prev # NULL => get_next(a, prev) = next
        /\ Except(h, a, IF prev = NULL THEN {} ELSE {prev + 8})
    <2>1. CASE prev = NULL
      BY <2>1 DEF Except
    <2>2. CASE prev # NULL
      <3>1. prev \in F /\ prev # next
        BY <1>3, <1>4, <2>2
      <3> QED
        BY <1>2, <1>6, <2>2, <3>1, SetNextWorks
    <2> QED
      BY <2>1, <2>2
  <1> HIDE DEF a
  <1>8. /\ b \in Heaps /\ b.brk = h.brk /\ b.free = h.free
        /\ next # NULL => get_prev(b, next) = prev
        /\ Except(a, b, IF next = NULL THEN {} ELSE {next + 4})
    <2>1. CASE next = NULL
      BY <1>7, <2>1 DEF Except
    <2>2. CASE next # NULL
      <3>1. next \in F /\ prev # next
        BY <1>3, <1>4, <2>2
      <3> QED
        BY <1>2, <1>6, <1>7, <2>2, <3>1, SetPrevWorks, ZenonT(30)
    <2> QED
      BY <2>1, <2>2
  <1> HIDE DEF b
  <1>9. g \in Heaps /\ g.brk = h.brk /\ g.free = front /\ g.mem = b.mem
    BY <1>5, <1>6, <1>8 DEF Heaps
  <1>10. Except(h, g, LinkWords(F \ {x}))
    BY <1>3, <1>4, <1>7, <1>8, <1>9 DEF Except, LinkWords
  <1>11. ASSUME NEW f \in F
         PROVE  /\ get_prev(g, f) = IF f = next THEN prev ELSE get_prev(h, f)
                /\ get_next(g, f) = IF f = prev THEN next ELSE get_next(h, f)
    <2>1. f \in Nat /\ f % 8 = 4 /\ f + 4 \in Words /\ f + 8 \in Words /\ f # NULL
      BY <1>2
    <2>2. /\ prev # NULL => f + 4 # prev + 8 /\ (f # prev => f + 8 # prev + 8)
          /\ next # NULL => f + 8 # next + 4 /\ (f # next => f + 4 # next + 4)
      BY <1>2, <1>3, <2>1
    <2>3. /\ get_prev(a, f) = get_prev(h, f)
          /\ get_next(a, f) = IF f = prev THEN next ELSE get_next(h, f)
      BY <1>7, <2>1, <2>2, LinksStay
    <2>4. /\ get_prev(b, f) = IF f = next THEN prev ELSE get_prev(h, f)
          /\ get_next(b, f) = IF f = prev THEN next ELSE get_next(h, f)
      BY <1>8, <2>1, <2>2, <2>3, LinksStay
    <2> QED
      BY <1>9, <2>4 DEF get_prev, get_next, Linked
  <1> DEFINE G == F \ {x}
             o == [f \in G |-> order[f]]
  <1>12. Ordered(g, G, top, o)
    <2>1. o \in [G -> 0 .. top] /\ \A f \in G : o[f] = order[f]
      OBVIOUS
    <2> HIDE DEF o
    <2>2. g.free \in G \cup {NULL} /\ (G # {} => g.free # NULL)
      <3>1. CASE prev = NULL
        <4>1. ASSUME next = NULL, NEW f \in G PROVE FALSE
          \* The front has no one after it, so nobody else is there.
          <5>1. get_prev(h, f) # NULL
            BY <1>1, <1>3, <3>1 DEF Ordered
          <5> DEFINE T == {top - order[y] : y \in G}
          <5>2. T \in SUBSET Nat /\ T # {}
            OBVIOUS
          <5>3. PICK t \in T : \A u \in T : t <= u
            <6> HIDE DEF T
            <6> QED
              BY <5>2, LeastElement
          <5>4. PICK y \in G : t = top - order[y]
            BY <5>3
          <5>5. y # h.free
            BY <1>3, <3>1
          <5>6. get_prev(h, y) \in F /\ get_next(h, get_prev(h, y)) = y
            BY <1>1, <5>5 DEF Ordered
          <5>7. get_prev(h, y) # x
            BY <1>2, <4>1, <5>6 DEF next
          <5>8. order[y] < order[get_prev(h, y)]
            BY <1>1, <1>2, <5>6 DEF Ordered
          <5>9. top - order[get_prev(h, y)] \in T
            BY <5>6, <5>7
          <5> QED
            BY <5>3, <5>4, <5>6, <5>8, <5>9
        <4> QED
          BY <1>3, <1>4, <1>9, <3>1, <4>1
      <3>2. CASE prev # NULL
        BY <1>1, <1>3, <1>9, <3>2 DEF Ordered
      <3> QED
        BY <3>1, <3>2
    <2>3. ASSUME NEW f \in G
          PROVE  /\ get_next(g, f) \in G \cup {NULL}
                 /\ get_prev(g, f) \in G \cup {NULL}
                 /\ get_prev(g, f) = NULL <=> f = g.free
      <3>1. /\ get_next(h, f) \in F \cup {NULL} /\ get_prev(h, f) \in F \cup {NULL}
            /\ get_prev(h, f) = NULL <=> f = h.free
            /\ get_prev(h, f) = x => f = next
            /\ get_next(h, f) = x => f = prev
        <4>1. /\ get_prev(h, f) = x => get_next(h, x) = f
              /\ get_next(h, f) = x => get_prev(h, x) = f
          BY <1>1, <1>2 DEF Ordered
        <4> QED
          BY <1>1, <4>1 DEF Ordered, next, prev
      <3> QED
        BY <1>2, <1>3, <1>4, <1>9, <1>11, <3>1
    <2>4. ASSUME NEW f \in G, get_prev(g, f) # NULL
          PROVE  get_next(g, get_prev(g, f)) = f
      BY <1>1, <1>2, <1>3, <1>4, <1>11, <2>3, <2>4 DEF Ordered
    <2>5. ASSUME NEW f \in G, get_next(g, f) # NULL
          PROVE  get_prev(g, get_next(g, f)) = f /\ o[get_next(g, f)] < o[f]
      BY <1>1, <1>2, <1>3, <1>4, <1>11, <2>1, <2>3, <2>5 DEF Ordered
    <2> QED
      BY <1>2, <2>1, <2>2, <2>3, <2>4, <2>5 DEF Ordered
  <1>13. Chained(g, G)
    <2>1. o \in [G -> 0 .. top]
      BY <1>12 DEF Ordered
    <2> QED
      BY <1>12, <2>1 DEF Chained
  <1> QED
    BY <1>9, <1>10, <1>13

-----------------------------------------------------------------------------
(* Heap, blocks and free list in the middle of an operation, when the list   *)
(* need not hold the free blocks, and between two of them                    *)

FreeIn(m) == {p \in DOMAIN m : m[p].alloc = 0}
TakenIn(m) == {p \in DOMAIN m : m[p].alloc = 1}

\* What is on the list lies in some block.
Within(m, F) == \A f \in F : \E q \in DOMAIN m : q <= f /\ f + 24 <= q + m[q].size

Loose(h, m, F) ==
    /\ h \in Heaps
    /\ Spaced(m, h.brk) /\ Whole(m, h.brk)
    /\ Tagged(h, m)
    /\ Chained(h, F)
    /\ Within(m, F)

\* No two free blocks touch.
Apart(m) == \A p \in FreeIn(m) : p + m[p].size \notin FreeIn(m)

Sound(h, m) == Loose(h, m, FreeIn(m)) /\ Apart(m)

\* The words of the blocks of A are as before.
Keeps(h, g, m, A) == \A t \in A : \A a \in Own(m, t) : g.mem[a] = h.mem[a]

LEMMA ListIsOfNumbers ==
  ASSUME NEW h, NEW F, Chained(h, F), NEW f \in F
  PROVE  f \in Nat /\ f % 8 = 4 /\ f + 4 \in Words /\ f + 8 \in Words
  <1>0. PICK top \in Nat : \E order \in [F -> 0 .. top] : Ordered(h, F, top, order)
    BY DEF Chained
  <1> QED
    BY <1>0 DEF Ordered

LEMMA TagsMissLinks ==
  ASSUME NEW m, NEW brk, Spaced(m, brk), NEW F, F \subseteq Nat, Within(m, F), NEW p \in DOMAIN m
  PROVE  TagWords(m, p) \cap LinkWords(F) = {} /\ 0 \notin LinkWords(F)
  <1>1. ASSUME NEW f \in F
        PROVE  f + 4 \notin TagWords(m, p) /\ f + 8 \notin TagWords(m, p)
    <2>1. PICK q \in DOMAIN m : q <= f /\ f + 24 <= q + m[q].size
      BY DEF Within
    <2>2. p \in Nat /\ q \in Nat /\ m[p].size \in Nat /\ m[q].size \in Nat /\ f \in Nat
          /\ m[p].size >= 24
      BY BlockInWords DEF Spaced
    <2>3. p = q \/ p + m[p].size <= q \/ q + m[q].size <= p
      BY <2>2 DEF Spaced
    <2> QED
      BY <2>1, <2>2, <2>3 DEF TagWords
  <1> QED
    BY <1>1 DEF LinkWords

\* One block is tagged anew.
LEMMA TagsWork ==
  ASSUME NEW h, NEW m, NEW F, h \in Heaps, Tagged(h, m), Chained(h, F),
         NEW r, Spaced(r, h.brk), Whole(r, h.brk), Within(r, F), NEW p \in DOMAIN r,
         \A q \in DOMAIN r \ {p} : q \in DOMAIN m /\ r[q] = m[q],
         NEW g, g = SetTags(h, p, r[p].size, r[p].alloc)
  PROVE  Loose(g, r, F) /\ Except(h, g, TagWords(r, p)) /\ g.brk = h.brk
  <1>1. /\ g \in Heaps /\ g.brk = h.brk /\ g.free = h.free
        /\ Tagged(g, r) /\ Except(h, g, TagWords(r, p))
    BY SetTagsWorks
  <1>2. TagWords(r, p) \cap LinkWords(F) = {}
    BY TagsMissLinks, ListIsOfNumbers
  <1>3. Chained(g, F)
    BY <1>1, <1>2, ChainStays
  <1> QED
    BY <1>1, <1>3 DEF Loose

LEMMA RemoveKeepsLoose ==
  ASSUME NEW h, NEW m, NEW F, Loose(h, m, F), NEW x \in F
  PROVE  /\ Loose(remove_free(h, x), m, F \ {x})
         /\ Except(h, remove_free(h, x), LinkWords(F \ {x}))
         /\ remove_free(h, x).brk = h.brk
  <1> DEFINE g == remove_free(h, x)
  <1>1. /\ g \in Heaps /\ g.brk = h.brk /\ Chained(g, F \ {x})
        /\ Except(h, g, LinkWords(F \ {x}))
    BY RemoveFreeWorks DEF Loose
  <1>2. F \ {x} \subseteq Nat /\ Within(m, F \ {x})
    BY ListIsOfNumbers DEF Loose, Within
  <1>3. \A p \in DOMAIN m : /\ TagWords(m, p) \cap LinkWords(F \ {x}) = {}
                            /\ 0 \notin LinkWords(F \ {x})
    BY <1>2, TagsMissLinks DEF Loose
  <1>4. 0 \notin LinkWords(F \ {x})
    BY <1>2 DEF LinkWords
  <1>5. Tagged(g, m)
    BY <1>1, <1>3, <1>4, TagsStay DEF Loose
  <1> QED
    BY <1>1, <1>2, <1>5 DEF Loose

LEMMA AddKeepsLoose ==
  ASSUME NEW h, NEW m, NEW F, Loose(h, m, F), NEW p \in DOMAIN m, p \notin F,
         NEW g, g = add_front(h, p)
  PROVE  Loose(g, m, F \cup {p}) /\ Except(h, g, LinkWords(F \cup {p})) /\ g.brk = h.brk
  <1>0. p \in Nat /\ p % 8 = 4 /\ p + 4 \in Words /\ p + 8 \in Words /\ m[p].size >= 24
        /\ m[p].size \in Nat
    BY BlockInWords DEF Loose, Spaced
  <1>1. /\ g \in Heaps /\ g.brk = h.brk /\ Chained(g, F \cup {p})
        /\ Except(h, g, LinkWords(F \cup {p}))
    BY <1>0, AddFrontWorks DEF Loose
  <1>2. F \cup {p} \subseteq Nat /\ Within(m, F \cup {p})
    BY <1>0, ListIsOfNumbers DEF Loose, Within
  <1>3. \A q \in DOMAIN m : TagWords(m, q) \cap LinkWords(F \cup {p}) = {}
    BY <1>2, TagsMissLinks DEF Loose
  <1>4. 0 \notin LinkWords(F \cup {p})
    BY <1>2 DEF LinkWords
  <1>5. Tagged(g, m)
    BY <1>1, <1>3, <1>4, TagsStay DEF Loose
  <1> QED
    BY <1>1, <1>2, <1>5 DEF Loose

LEMMA TagsKeep ==
  ASSUME NEW h, NEW g, NEW m, NEW brk, Spaced(m, brk), NEW p \in DOMAIN m,
         Except(h, g, TagWords(m, p)), NEW A, A \subseteq DOMAIN m, p \notin A
  PROVE  Keeps(h, g, m, A)
  <1> SUFFICES ASSUME NEW t \in A, NEW a \in Own(m, t)
               PROVE  g.mem[a] = h.mem[a]
    BY DEF Keeps
  <1>1. t \in DOMAIN m /\ t # p
    OBVIOUS
  <1>2. a \in Words /\ a \notin TagWords(m, p)
    <2>1. Own(m, p) \cap Own(m, t) = {}
      BY <1>1, OwnIsOwn
    <2> QED
      BY <2>1, TagsAreOwn DEF Own
  <1> QED
    BY <1>2 DEF Except

LEMMA LinksKeep ==
  ASSUME NEW h, NEW g, NEW m, NEW brk, Spaced(m, brk), NEW F, F \subseteq DOMAIN m,
         Except(h, g, LinkWords(F)), NEW A, A \subseteq DOMAIN m, A \cap F = {}
  PROVE  Keeps(h, g, m, A)
  <1> SUFFICES ASSUME NEW t \in A, NEW a \in Own(m, t)
               PROVE  g.mem[a] = h.mem[a]
    BY DEF Keeps
  <1>1. ASSUME NEW f \in F
        PROVE  f + 4 \notin Own(m, t) /\ f + 8 \notin Own(m, t)
    <2>1. f \in DOMAIN m /\ t \in DOMAIN m /\ t # f
      OBVIOUS
    <2>2. Own(m, f) \cap Own(m, t) = {}
      BY <2>1, OwnIsOwn
    <2>3. f + 4 \in Own(m, f) /\ f + 8 \in Own(m, f)
      BY <2>1, BlockInWords DEF Own, Spaced
    <2> QED
      BY <2>2, <2>3
  <1>2. a \in Words /\ a \notin LinkWords(F)
    BY <1>1 DEF LinkWords, Own
  <1> QED
    BY <1>2 DEF Except

LEMMA KeepsOn ==
  ASSUME NEW h, NEW g, NEW k, NEW m, NEW r, NEW A, Keeps(h, g, m, A), Keeps(g, k, r, A),
         \A t \in A : r[t] = m[t]
  PROVE  Keeps(h, k, m, A)
  BY DEF Keeps, Own

LEMMA RightNeighbour ==
  ASSUME NEW h, NEW m, NEW F, Loose(h, m, F), NEW p \in DOMAIN m
  PROVE  MergesRight(h, p) <=> p + m[p].size \in FreeIn(m)
  <1> DEFINE n == p + m[p].size
  <1>1. /\ p \in Nat /\ m[p].size \in Nat /\ h.brk \in Nat
        /\ GET_AFTER(h, p) = n
    BY BlockInWords, TagsAreRead DEF Loose, Heaps
  <1>2. CASE n \in DOMAIN m
    <2>1. n \in Nat /\ m[n].size \in Nat /\ m[n].size >= 24 /\ n + m[n].size <= h.brk
      BY <1>2, BlockInWords DEF Loose, Spaced
    <2>2. GET_ALLOC(h, n) = m[n].alloc
      BY <1>2, TagsAreRead DEF Loose
    <2> QED
      BY <1>1, <1>2, <2>1, <2>2 DEF MergesRight, mem_heap_hi, FreeIn
  <1>3. CASE n \notin DOMAIN m
    <2>1. n = h.brk
      BY <1>3 DEF Loose, Whole
    <2> QED
      BY <1>1, <1>3, <2>1 DEF MergesRight, mem_heap_hi, FreeIn
  <1> QED
    BY <1>2, <1>3

LEMMA LeftNeighbour ==
  ASSUME NEW h, NEW m, NEW F, Loose(h, m, F), NEW p \in DOMAIN m
  PROVE  /\ MergesLeft(h, p) => \E q \in FreeIn(m) : q + m[q].size = p /\ GET_BEFORE(h, p) = q
         /\ ~MergesLeft(h, p) => \A q \in FreeIn(m) : q + m[q].size # p
  <1>0. \A q \in DOMAIN m : q \in Nat /\ m[q].size \in Nat /\ m[q].size >= 24 /\ q % 8 = 4
    BY BlockInWords DEF Loose, Spaced
  <1>1. CASE p = heap_initp
    <2>1. h.mem[p - 4] = 1
      BY <1>1 DEF Loose, Tagged, heap_initp
    <2>2. GET_B_ALLOC(h, p) = 1
      BY <2>1 DEF GET_B_ALLOC, GET_ALLOC
    <2>3. \A q \in DOMAIN m : q + m[q].size # p
      BY <1>0, <1>1 DEF heap_initp
    <2> QED
      BY <2>2, <2>3 DEF MergesLeft, FreeIn
  <1>2. CASE p # heap_initp
    <2>1. PICK q \in DOMAIN m : q + m[q].size = p
      BY <1>2, BlockBefore DEF Loose
    <2>2. GET_BEFORE(h, p) = q /\ GET_B_ALLOC(h, p) = m[q].alloc
      BY <2>1, FooterIsRead DEF Loose
    <2>3. q >= heap_initp
      BY <1>0 DEF heap_initp
    <2>4. \A x \in DOMAIN m : x + m[x].size = p => x = q
      <3>1. ASSUME NEW x \in DOMAIN m, x + m[x].size = p, x < q
            PROVE  FALSE
        <4>1. x + m[x].size <= q
          BY <3>1 DEF Loose, Spaced
        <4> QED
          BY <1>0, <2>1, <3>1, <4>1
      <3>2. ASSUME NEW x \in DOMAIN m, x + m[x].size = p, q < x
            PROVE  FALSE
        <4>1. q + m[q].size <= x
          BY <3>2 DEF Loose, Spaced
        <4> QED
          BY <1>0, <2>1, <3>2, <4>1
      <3> QED
        BY <1>0, <3>1, <3>2
    <2> QED
      BY <2>1, <2>2, <2>3, <2>4 DEF MergesLeft, FreeIn
  <1> QED
    BY <1>1, <1>2

-----------------------------------------------------------------------------
(* Freeing *)

\* What the user of the block at p may write to.
Payload(m, p) == {a \in Words : p + 4 <= a /\ a < p + m[p].size - 4}

\* On the way from h to g the block at p takes in the free one at n.
Absorbs(h, g, m, F, p, n, a) ==
    /\ Loose(g, Merge(m, p, n, a), F \ {n}) /\ g.brk = h.brk
    /\ \A A \in SUBSET (DOMAIN m \ (F \cup {p})) : Keeps(h, g, m, A)
    /\ p \notin F => \A w \in Payload(m, p) : g.mem[w] = h.mem[w]

LEMMA AbsorbWorks ==
  ASSUME NEW h, NEW m, NEW F, Loose(h, m, F), F \subseteq DOMAIN m,
         NEW p \in DOMAIN m, NEW n \in F, n = p + m[p].size, NEW a \in {0, 1}
  PROVE  Absorbs(h, Absorb(h, p, a), m, F, p, n, a)
  <1> DEFINE g == Absorb(h, p, a)
             r == Merge(m, p, n, a)
             k == SetTags(h, p, r[p].size, r[p].alloc)
  <1>1. /\ n \in DOMAIN m /\ p \in Nat /\ n \in Nat /\ m[p].size \in Nat /\ m[n].size \in Nat
        /\ m[p].size >= 24 /\ m[n].size >= 24 /\ p # n
    BY BlockInWords DEF Loose, Spaced
  <1>2. Spaced(r, h.brk) /\ Whole(r, h.brk)
    BY <1>1, MergeIsLayout DEF Loose
  <1>3. /\ DOMAIN r = DOMAIN m \ {n}
        /\ r[p] = Tag(m[p].size + m[n].size, a)
        /\ r[p].size = m[p].size + m[n].size /\ r[p].alloc = a
        /\ \A q \in DOMAIN r \ {p} : q \in DOMAIN m /\ r[q] = m[q]
    BY <1>1 DEF Merge, Tag
  <1>4. g = remove_free(k, n)
    <2>1. GET_SIZE(h, p) = m[p].size /\ GET_AFTER(h, p) = n /\ GET_SIZE(h, n) = m[n].size
      BY <1>1, TagsAreRead DEF Loose
    <2> QED
      BY <1>3, <2>1 DEF Absorb
  <1> HIDE DEF r
  <1>5. Within(r, F)
    <2>1. ASSUME NEW f \in F
          PROVE  \E q \in DOMAIN r : q <= f /\ f + 24 <= q + r[q].size
      <3>1. f \in DOMAIN m /\ f \in Nat /\ m[f].size \in Nat /\ m[f].size >= 24
        BY BlockInWords DEF Loose, Spaced
      <3>2. CASE f = n \/ f = p
        <4>1. p \in DOMAIN r /\ p <= f /\ f + 24 <= p + r[p].size
          BY <1>1, <1>3, <3>2
        <4> QED
          BY <4>1
      <3>3. CASE f # n /\ f # p
        <4>1. f \in DOMAIN r /\ f <= f /\ f + 24 <= f + r[f].size
          BY <1>3, <3>1, <3>3
        <4> QED
          BY <4>1
      <3> QED
        BY <3>2, <3>3
    <2> QED
      BY <2>1 DEF Within
  <1>6. Loose(k, r, F) /\ Except(h, k, TagWords(r, p)) /\ k.brk = h.brk
    <2>1. p \in DOMAIN r
      BY <1>1, <1>3
    <2>2. h \in Heaps /\ Tagged(h, m) /\ Chained(h, F)
      BY DEF Loose
    <2> HIDE DEF k
    <2>3. k = SetTags(h, p, r[p].size, r[p].alloc)
      BY DEF k
    <2> QED
      BY <1>2, <1>3, <1>5, <2>1, <2>2, <2>3, TagsWork
  <1> HIDE DEF k, g
  <1>7. Loose(g, r, F \ {n}) /\ Except(k, g, LinkWords(F \ {n})) /\ g.brk = k.brk
    BY <1>4, <1>6, RemoveKeepsLoose
  <1>8. F \ {n} \subseteq DOMAIN r
    BY <1>3
  <1>9. ASSUME NEW A \in SUBSET (DOMAIN m \ (F \cup {p}))
        PROVE  Keeps(h, g, m, A)
    <2>1. A \subseteq DOMAIN r /\ p \notin A /\ A \cap (F \ {n}) = {} /\ p \in DOMAIN r
      BY <1>1, <1>3
    <2>2. Keeps(h, k, r, A)
      BY <1>2, <1>6, <2>1, TagsKeep
    <2>3. Keeps(k, g, r, A)
      BY <1>2, <1>7, <1>8, <2>1, LinksKeep
    <2>4. Keeps(h, g, r, A)
      BY <2>2, <2>3, KeepsOn
    <2> QED
      BY <1>3, <2>1, <2>4 DEF Keeps, Own
  <1>10. ASSUME p \notin F, NEW w \in Payload(m, p)
         PROVE  g.mem[w] = h.mem[w]
    <2>1. w \in Words /\ w \in Nat /\ p + 4 <= w /\ w < p + m[p].size - 4
      BY WordsAre DEF Payload
    <2>2. w \notin TagWords(r, p)
      BY <1>1, <1>3, <2>1 DEF TagWords
    <2>3. ASSUME NEW f \in F \ {n}
          PROVE  w # f + 4 /\ w # f + 8
      <3>1. f \in DOMAIN m /\ f # p /\ f \in Nat /\ m[f].size \in Nat /\ m[f].size >= 24
        BY <1>10, BlockInWords DEF Loose, Spaced
      <3>2. p + m[p].size <= f \/ f + m[f].size <= p
        BY <1>1, <3>1 DEF Loose, Spaced
      <3> QED
        BY <1>1, <2>1, <3>1, <3>2
    <2>4. w \notin LinkWords(F \ {n})
      BY <2>3 DEF LinkWords
    <2> QED
      BY <1>6, <1>7, <2>1, <2>2, <2>4 DEF Except
  <1> QED
    BY <1>6, <1>7, <1>9, <1>10 DEF r, g, Absorbs

\* The block at p is given back.
LEMMA FreeWorks ==
  ASSUME NEW h, NEW m, Sound(h, m), NEW p \in TakenIn(m), NEW g, g = free(h, p + 4)
  PROVE  \E r : /\ Sound(g, r) /\ g.brk = h.brk
                /\ TakenIn(r) = TakenIn(m) \ {p}
                /\ \A t \in TakenIn(r) : r[t] = m[t]
                /\ Keeps(h, g, m, TakenIn(r))
  <1> DEFINE m0 == Retag(m, p, 0)
             h0 == SetTags(h, p, m0[p].size, m0[p].alloc)
             F == FreeIn(m)
             A == TakenIn(m) \ {p}
             n == p + m[p].size
             right == coalesce_right(h0, p)
  <1>1. /\ Loose(h, m, F) /\ p \in DOMAIN m /\ p \notin F /\ F \subseteq DOMAIN m
        /\ p \in Nat /\ m[p].size \in Nat /\ m[p].size >= 24 /\ p % 8 = 4
        /\ \A q \in DOMAIN m : m[q].alloc \in {0, 1}
    BY BlockInWords DEF Sound, Loose, Spaced, FreeIn, TakenIn
  <1>2. /\ DOMAIN m0 = DOMAIN m
        /\ m0[p].size = m[p].size /\ m0[p].alloc = 0
        /\ \A q \in DOMAIN m \ {p} : m0[q] = m[q]
        /\ FreeIn(m0) = F \cup {p}
    BY <1>1 DEF Retag, Tag, FreeIn
  <1>3. Spaced(m0, h.brk) /\ Whole(m0, h.brk)
    <2>1. 0 \in {0, 1}
      OBVIOUS
    <2> QED
      BY <1>1, <2>1, RetagIsLayout DEF Loose
  <1> HIDE DEF m0
  <1>4. Loose(h0, m0, F) /\ Except(h, h0, TagWords(m0, p)) /\ h0.brk = h.brk
    <2>1. Within(m0, F)
      BY <1>1, <1>2 DEF Loose, Within
    <2>2. h \in Heaps /\ Tagged(h, m) /\ Chained(h, F)
      BY <1>1 DEF Loose
    <2> HIDE DEF h0, F
    <2>3. h0 = SetTags(h, p, m0[p].size, m0[p].alloc)
      BY DEF h0
    <2>4. p \in DOMAIN m0 /\ \A q \in DOMAIN m0 \ {p} : q \in DOMAIN m /\ m0[q] = m[q]
      BY <1>1, <1>2
    <2> QED
      BY <1>3, <2>1, <2>2, <2>3, <2>4, TagsWork
  <1>5. Keeps(h, h0, m, A)
    <2>1. A \subseteq DOMAIN m0 /\ p \notin A /\ p \in DOMAIN m0
      BY <1>1, <1>2 DEF TakenIn
    <2>2. Keeps(h, h0, m0, A)
      BY <1>3, <1>4, <2>1, TagsKeep
    <2> QED
      BY <1>2, <2>1, <2>2 DEF Keeps, Own
  <1>6. /\ g = IF MergesLeft(right, p) THEN coalesce_left(right, p) ELSE add_front(right, p)
    <2>1. GET_SIZE(h, p) = m[p].size
      BY <1>1, TagsAreRead DEF Loose
    <2>2. p + 4 # NULL /\ ~(p < heap_initp) /\ (p + 4) - 4 = p
      BY <1>1 DEF NULL, heap_initp
    <2> QED
      BY <1>2, <2>1, <2>2 DEF free
  <1> HIDE DEF h0
  <1>7. PICK m1 : /\ Loose(right, m1, FreeIn(m1) \ {p}) /\ right.brk = h.brk
                  /\ p \in FreeIn(m1) /\ TakenIn(m1) = A
                  /\ \A t \in A : m1[t] = m[t]
                  /\ p + m1[p].size \notin FreeIn(m1)
                  /\ \A q \in FreeIn(m1) \ {p} : q + m1[q].size \notin FreeIn(m1) \ {p}
                  /\ Keeps(h, right, m, A)
    <2>0. \A q \in F : q + m[q].size \notin F
      BY DEF Sound, Apart
    <2>1. CASE n \in F
      <3> DEFINE m1 == Merge(m0, p, n, 0)
      <3>1. /\ n \in DOMAIN m /\ n # p /\ n \in Nat /\ m[n].size \in Nat
            /\ n = p + m0[p].size /\ p \in DOMAIN m0
        BY <1>1, <1>2, <2>1, BlockInWords DEF Loose
      <3>2. right = Absorb(h0, p, 0)
        <4>1. MergesRight(h0, p)
          BY <1>2, <1>4, <2>1, <3>1, RightNeighbour
        <4> QED
          BY <4>1 DEF coalesce_right
      <3>3. /\ Loose(right, m1, F \ {n}) /\ right.brk = h0.brk
            /\ Keeps(h0, right, m0, A)
        <4>1. F \subseteq DOMAIN m0 /\ 0 \in {0, 1}
          BY <1>1, <1>2
        <4>2. A \in SUBSET (DOMAIN m0 \ (F \cup {p}))
          BY <1>2 DEF TakenIn, FreeIn
        <4> HIDE DEF F, A, n, right
        <4>3. Absorbs(h0, right, m0, F, p, n, 0)
          BY <1>4, <2>1, <3>1, <3>2, <4>1, AbsorbWorks
        <4> QED
          BY <4>2, <4>3 DEF Absorbs
      <3>4. /\ DOMAIN m1 = DOMAIN m \ {n}
            /\ m1[p].size = m[p].size + m[n].size /\ m1[p].alloc = 0
            /\ \A q \in DOMAIN m \ {n, p} : m1[q] = m[q]
        BY <1>1, <1>2, <3>1 DEF Merge, Tag
      <3> HIDE DEF m1
      <3>5. FreeIn(m1) = (F \cup {p}) \ {n} /\ TakenIn(m1) = A
        BY <1>1, <2>1, <3>1, <3>4 DEF FreeIn, TakenIn
      <3>6. FreeIn(m1) \ {p} = F \ {n}
        BY <1>1, <3>5
      <3>7. p + m1[p].size = n + m[n].size /\ n + m[n].size \notin F /\ n + m[n].size # p
        BY <1>1, <2>0, <2>1, <3>1, <3>4
      <3>8. \A t \in A : m1[t] = m[t]
        BY <2>1, <3>4 DEF TakenIn, FreeIn
      <3>9. \A q \in FreeIn(m1) \ {p} : q + m1[q].size \notin FreeIn(m1) \ {p}
        BY <1>1, <2>0, <3>4, <3>6
      <3>10. Keeps(h, right, m, A)
        BY <1>2, <1>5, <3>3, KeepsOn DEF TakenIn
      <3> QED
        BY <1>4, <3>1, <3>3, <3>5, <3>6, <3>7, <3>8, <3>9, <3>10
    <2>2. CASE n \notin F
      <3>1. n # p
        BY <1>1
      <3>2. right = h0
        <4>1. ~MergesRight(h0, p)
          BY <1>1, <1>2, <1>4, <2>2, <3>1, RightNeighbour
        <4> QED
          BY <4>1 DEF coalesce_right
      <3>3. FreeIn(m0) \ {p} = F /\ TakenIn(m0) = A /\ p \in FreeIn(m0)
        BY <1>1, <1>2 DEF FreeIn, TakenIn
      <3>4. \A q \in F : q + m0[q].size \notin F
        BY <1>1, <1>2, <2>0
      <3> QED
        BY <1>1, <1>2, <1>4, <1>5, <2>2, <3>1, <3>2, <3>3, <3>4 DEF TakenIn
    <2> QED
      BY <2>1, <2>2
  <1> HIDE DEF right
  <1> DEFINE G == FreeIn(m1) \ {p}
  <1>8. p \in DOMAIN m1 /\ m1[p].alloc = 0 /\ G \subseteq DOMAIN m1 /\ A \subseteq DOMAIN m1
    BY <1>7 DEF FreeIn, TakenIn
  <1>9. CASE MergesLeft(right, p)
    <2>1. PICK q \in FreeIn(m1) : q + m1[q].size = p /\ GET_BEFORE(right, p) = q
      BY <1>7, <1>8, <1>9, LeftNeighbour
    <2>2. /\ q \in DOMAIN m1 /\ q \in Nat /\ q # p /\ m1[q].size \in Nat /\ m1[p].size \in Nat
          /\ m1[q].size >= 24 /\ m1[p].size >= 24
      BY <1>7, <1>8, <2>1, BlockInWords DEF Loose, Spaced, FreeIn
    <2> DEFINE r == Merge(m1, q, p, 0)
    <2>3. Spaced(r, h.brk) /\ Whole(r, h.brk)
      <3>1. 0 \in {0, 1}
        OBVIOUS
      <3> QED
        BY <1>7, <1>8, <2>1, <2>2, <3>1, MergeIsLayout DEF Loose
    <2>4. /\ DOMAIN r = DOMAIN m1 \ {p}
          /\ r[q].size = m1[q].size + m1[p].size /\ r[q].alloc = 0
          /\ \A x \in DOMAIN r \ {q} : x \in DOMAIN m1 /\ r[x] = m1[x]
      BY <2>2 DEF Merge, Tag
    <2>5. g = SetTags(right, q, r[q].size, r[q].alloc)
      <3>1. GET_SIZE(right, p) = m1[p].size /\ GET_SIZE(right, q) = m1[q].size
        BY <1>7, <1>8, <2>2, TagsAreRead DEF Loose
      <3>2. g = coalesce_left(right, p)
        BY <1>6, <1>9
      <3>3. m1[p].size + m1[q].size = r[q].size
        BY <2>2, <2>4
      <3> QED
        BY <2>1, <2>4, <3>1, <3>2, <3>3 DEF coalesce_left
    <2> HIDE DEF r
    <2>6. Within(r, G)
      <3>1. ASSUME NEW f \in G
            PROVE  \E x \in DOMAIN r : x <= f /\ f + 24 <= x + r[x].size
        <4>1. f \in DOMAIN m1 /\ f # p /\ f \in Nat /\ m1[f].size \in Nat /\ m1[f].size >= 24
          BY <1>7, <1>8, BlockInWords DEF Loose, Spaced
        <4>2. f \in DOMAIN r /\ f <= f /\ f + 24 <= f + r[f].size
          BY <2>2, <2>4, <4>1
        <4> QED
          BY <4>2
      <3> QED
        BY <3>1 DEF Within
    <2>7. Loose(g, r, G) /\ Except(right, g, TagWords(r, q)) /\ g.brk = right.brk
      <3>1. right \in Heaps /\ Tagged(right, m1) /\ Chained(right, G) /\ q \in DOMAIN r
        BY <1>7, <2>2, <2>4 DEF Loose
      <3> HIDE DEF G
      <3> QED
        BY <1>7, <2>3, <2>4, <2>5, <2>6, <3>1, TagsWork
    <2>8. FreeIn(r) = G /\ TakenIn(r) = A /\ q \in G
      BY <1>7, <1>8, <2>1, <2>2, <2>4 DEF FreeIn, TakenIn
    <2>9. Apart(r)
      <3>1. ASSUME NEW x \in G
            PROVE  x + r[x].size \notin G
        <4>1. CASE x = q
          <5>1. x + r[x].size = p + m1[p].size
            BY <1>7, <2>1, <2>2, <2>4, <4>1
          <5> QED
            BY <1>7, <5>1
        <4>2. CASE x # q
          BY <1>7, <1>8, <2>4, <4>2, <2>8 DEF FreeIn
        <4> QED
          BY <4>1, <4>2
      <3> QED
        BY <2>8, <3>1 DEF Apart
    <2>10. Keeps(h, g, m, A)
      <3>1. q \notin A /\ A \subseteq DOMAIN r /\ q \in DOMAIN r
        BY <1>7, <1>8, <2>1, <2>2, <2>4 DEF FreeIn, TakenIn
      <3>2. Keeps(right, g, r, A)
        BY <2>3, <2>7, <3>1, TagsKeep
      <3>3. \A t \in A : r[t] = m[t]
        BY <1>7, <2>4, <3>1
      <3> QED
        BY <1>7, <3>2, <3>3, KeepsOn
    <2>11. \A t \in A : r[t] = m[t]
      BY <1>7, <1>8, <2>1, <2>4, <2>8 DEF FreeIn, TakenIn
    <2> QED
      BY <1>7, <2>7, <2>8, <2>9, <2>10, <2>11 DEF Sound
  <1>10. CASE ~MergesLeft(right, p)
    <2>1. \A q \in FreeIn(m1) : q + m1[q].size # p
      BY <1>7, <1>8, <1>10, LeftNeighbour
    <2>2. g = add_front(right, p)
      BY <1>6, <1>10
    <2>3. Loose(g, m1, G \cup {p}) /\ Except(right, g, LinkWords(G \cup {p})) /\ g.brk = right.brk
      BY <1>7, <1>8, <2>2, AddKeepsLoose
    <2>4. G \cup {p} = FreeIn(m1)
      BY <1>7
    <2>5. Apart(m1)
      BY <1>7, <2>1 DEF Apart
    <2>6. Keeps(h, g, m, A)
      <3>1. A \cap FreeIn(m1) = {} /\ FreeIn(m1) \subseteq DOMAIN m1
        BY <1>7 DEF FreeIn, TakenIn
      <3>2. Keeps(right, g, m1, A)
        BY <1>7, <1>8, <2>3, <2>4, <3>1, LinksKeep DEF Loose
      <3> QED
        BY <1>7, <3>2, KeepsOn
    <2> QED
      BY <1>7, <2>3, <2>4, <2>5, <2>6 DEF Sound
  <1> QED
    BY <1>9, <1>10

-----------------------------------------------------------------------------
(* Along the links and along the blocks *)

\* f goes from a by `step`.
Steps(f, S, a, step) == /\ f \in [Nat -> S]
                        /\ f[0] = a
                        /\ \A n \in Nat : f[n + 1] = step[f[n]]

LEMMA WalkExists ==
  ASSUME NEW S, NEW a \in S, NEW step \in [S -> S]
  PROVE  \E f : Steps(f, S, a, step)
  <1> DEFINE Walks(n) == {f \in [0 .. n -> S] : /\ f[0] = a
                                                /\ \A k \in 0 .. n - 1 : f[k + 1] = step[f[k]]}
  <1>1. ASSUME NEW n \in Nat
        PROVE  Walks(n) # {}
    <2> DEFINE T == {k \in Nat : Walks(k) = {}}
    <2>1. ASSUME T # {}
          PROVE  FALSE
      <3>1. PICK k \in T : \A j \in T : k <= j
        <4>1. T \in SUBSET Nat
          OBVIOUS
        <4> HIDE DEF T
        <4> QED
          BY <2>1, <4>1, LeastElement
      <3>2. k # 0
        <4> DEFINE f == [j \in 0 .. 0 |-> a]
        <4>1. f \in Walks(0)
          OBVIOUS
        <4> QED
          BY <4>1
      <3>3. k - 1 \in Nat /\ k - 1 \notin T
        <4>1. k \in Nat
          OBVIOUS
        <4> HIDE DEF T
        <4> QED
          BY <3>1, <3>2, <4>1
      <3>4. PICK f \in Walks(k - 1) : TRUE
        BY <3>3
      <3> DEFINE g == [j \in 0 .. k |-> IF j = k THEN step[f[k - 1]] ELSE f[j]]
      <3>5. f \in [0 .. k - 1 -> S] /\ f[0] = a /\ \A j \in 0 .. (k - 1) - 1 : f[j + 1] = step[f[j]]
        BY <3>4
      <3>6. g \in [0 .. k -> S] /\ g[0] = a
        BY <3>2, <3>3, <3>5
      <3>7. ASSUME NEW j \in 0 .. k - 1
            PROVE  g[j + 1] = step[g[j]]
        <4>1. g[j] = f[j] /\ j \in 0 .. k /\ j + 1 \in 0 .. k
          BY <3>3
        <4>2. CASE j = k - 1
          BY <4>1, <4>2
        <4>3. CASE j # k - 1
          <5>1. j \in 0 .. (k - 1) - 1 /\ j + 1 # k
            BY <3>3, <4>3
          <5> QED
            BY <3>5, <4>1, <5>1
        <4> QED
          BY <4>2, <4>3
      <3>8. g \in Walks(k)
        <4> HIDE DEF g
        <4> QED
          BY <3>6, <3>7
      <3> QED
        BY <3>1, <3>8
    <2> QED
      BY <2>1
  <1>2. ASSUME NEW n \in Nat, NEW f \in Walks(n), NEW k \in Nat, NEW g \in Walks(k),
               NEW j \in Nat, j <= n, j <= k
        PROVE  f[j] = g[j]
    <2> DEFINE T == {i \in Nat : i <= n /\ i <= k /\ f[i] # g[i]}
    <2>1. ASSUME T # {}
          PROVE  FALSE
      <3>1. PICK i \in T : \A x \in T : i <= x
        <4>1. T \in SUBSET Nat
          OBVIOUS
        <4> HIDE DEF T
        <4> QED
          BY <2>1, <4>1, LeastElement
      <3>2. i # 0
        BY <3>1
      <3>3. /\ i - 1 \in Nat /\ i - 1 \notin T /\ i - 1 \in 0 .. n - 1 /\ i - 1 \in 0 .. k - 1
            /\ (i - 1) + 1 = i /\ i - 1 <= n /\ i - 1 <= k
        BY <3>1, <3>2
      <3>4. f[i - 1] = g[i - 1]
        BY <3>3
      <3>5. f[i] = step[f[i - 1]] /\ g[i] = step[g[i - 1]]
        BY <3>3
      <3> QED
        BY <3>1, <3>4, <3>5
    <2> QED
      BY <1>2, <2>1
  <1> DEFINE w(n) == CHOOSE f \in Walks(n) : TRUE
             all == [n \in Nat |-> w(n)[n]]
  <1>3. \A n \in Nat : w(n) \in Walks(n)
    BY <1>1
  <1> HIDE DEF w
  <1>4. all \in [Nat -> S] /\ all[0] = a
    BY <1>3
  <1>5. ASSUME NEW n \in Nat
        PROVE  all[n + 1] = step[all[n]]
    <2>1. w(n + 1) \in Walks(n + 1) /\ w(n) \in Walks(n) /\ n + 1 \in Nat /\ n \in 0 .. (n + 1) - 1
      BY <1>3
    <2>2. w(n + 1)[n + 1] = step[w(n + 1)[n]]
      BY <2>1
    <2>3. w(n + 1)[n] = w(n)[n]
      <3>1. n <= n + 1 /\ n <= n
        OBVIOUS
      <3> HIDE DEF Walks
      <3> QED
        BY <1>2, <2>1, <3>1
    <2> QED
      BY <2>2, <2>3
  <1> QED
    BY <1>4, <1>5 DEF Steps

LEMMA FreeWalk ==
  ASSUME NEW h \in Heaps, NEW F, Chained(h, F)
  PROVE  /\ FreeAt(h) \in [Nat -> F \cup {NULL}]
         /\ FreeAt(h)[0] = h.free
         /\ \A k \in Nat : FreeAt(h)[k + 1] = IF FreeAt(h)[k] = NULL THEN NULL
                                              ELSE get_next(h, FreeAt(h)[k])
  <1>0. PICK top \in Nat : \E order \in [F -> 0 .. top] : Ordered(h, F, top, order)
    BY DEF Chained
  <1>1. /\ h.free \in F \cup {NULL} /\ \A p \in F : get_next(h, p) \in F \cup {NULL}
    BY <1>0 DEF Ordered
  <1> DEFINE S == F \cup {NULL}
             step == [p \in S |-> IF p = NULL THEN NULL ELSE get_next(h, p)]
             Follows(At) == At = [k \in Nat |-> IF k = 0 THEN h.free
                                                ELSE IF At[k - 1] = NULL THEN NULL
                                                     ELSE get_next(h, At[k - 1])]
  <1>2. PICK f : Steps(f, S, h.free, step)
    <2>1. step \in [S -> S] /\ h.free \in S
      BY <1>1
    <2> HIDE DEF step, S
    <2> QED
      BY <2>1, WalkExists
  <1>3. Follows(f)
    <2>1. ASSUME NEW k \in Nat, k # 0
          PROVE  f[k] = IF f[k - 1] = NULL THEN NULL ELSE get_next(h, f[k - 1])
      <3>1. k - 1 \in Nat /\ (k - 1) + 1 = k
        BY <2>1
      <3>2. f[(k - 1) + 1] = step[f[k - 1]] /\ f[k - 1] \in S
        BY <1>2, <3>1 DEF Steps
      <3> QED
        BY <3>1, <3>2
    <2>2. \A k \in Nat : f[k] = IF k = 0 THEN h.free
                                ELSE IF f[k - 1] = NULL THEN NULL ELSE get_next(h, f[k - 1])
      BY <1>2, <2>1 DEF Steps
    <2>3. f = [k \in Nat |-> f[k]]
      BY <1>2 DEF Steps
    <2> QED
      BY <2>2, <2>3
  <1>4. FreeAt(h) = CHOOSE At : Follows(At)
    BY DEF FreeAt
  <1>5. Follows(FreeAt(h))
    <2> HIDE DEF Follows
    <2> QED
      BY <1>3, <1>4
  <1> DEFINE g == FreeAt(h)
  <1>6. /\ DOMAIN g = Nat /\ g[0] = h.free
        /\ \A k \in Nat : k # 0 => g[k] = IF g[k - 1] = NULL THEN NULL ELSE get_next(h, g[k - 1])
    <2> HIDE DEF g
    <2>1. g = [k \in Nat |-> IF k = 0 THEN h.free
                             ELSE IF g[k - 1] = NULL THEN NULL ELSE get_next(h, g[k - 1])]
      BY <1>5 DEF g
    <2>2. DOMAIN g = Nat
      BY <2>1, Zenon
    <2>3. \A k \in Nat : g[k] = IF k = 0 THEN h.free
                             ELSE IF g[k - 1] = NULL THEN NULL ELSE get_next(h, g[k - 1])
      BY <2>1, Zenon
    <2> QED
      BY <2>2, <2>3
  <1> HIDE DEF g
  <1>7. \A k \in Nat : g[k + 1] = IF g[k] = NULL THEN NULL ELSE get_next(h, g[k])
    <2> TAKE k \in Nat
    <2>1. k + 1 \in Nat /\ k + 1 # 0 /\ (k + 1) - 1 = k
      OBVIOUS
    <2> QED
      BY <1>6, <2>1
  <1>8. \A k \in Nat : g[k] \in S
    <2> DEFINE T == {k \in Nat : g[k] \notin S}
    <2>1. ASSUME T # {}
          PROVE  FALSE
      <3>1. PICK k \in T : \A j \in T : k <= j
        <4>1. T \in SUBSET Nat
          OBVIOUS
        <4> HIDE DEF T
        <4> QED
          BY <2>1, <4>1, LeastElement
      <3>2. k # 0
        BY <1>1, <1>6, <3>1
      <3>3. k - 1 \in Nat /\ k - 1 \notin T
        BY <3>1, <3>2
      <3>4. g[k - 1] \in S /\ g[k] = IF g[k - 1] = NULL THEN NULL ELSE get_next(h, g[k - 1])
        BY <1>6, <3>1, <3>2, <3>3
      <3> QED
        BY <1>1, <3>1, <3>4
    <2> QED
      BY <2>1
  <1>9. g = [k \in Nat |-> g[k]]
    <2>1. g = [k \in Nat |-> IF k = 0 THEN h.free
                             ELSE IF g[k - 1] = NULL THEN NULL ELSE get_next(h, g[k - 1])]
      BY <1>5 DEF g
    <2> QED
      BY <2>1, Zenon
  <1>10. g \in [Nat -> S]
    BY <1>8, <1>9
  <1> QED
    BY <1>6, <1>7, <1>10 DEF g

\* Counting in blocks of the smallest size.
LEMMA BlockNumber ==
  ASSUME NEW x \in Nat, NEW max \in Nat, x + 24 <= max
  PROVE  x \div 24 \in 0 .. (max \div 24) - 1
  OBVIOUS

LEMMA BlockNumbersDiffer ==
  ASSUME NEW x \in Nat, NEW y \in Nat, x + 24 <= y
  PROVE  x \div 24 # y \div 24
  OBVIOUS

\* Less than what fits into the heap.
LEMMA FewBlocks ==
  ASSUME NEW m, NEW brk, Spaced(m, brk), NEW n \in Nat, NEW f \in [0 .. n -> DOMAIN m],
         \A i, j \in 0 .. n : f[i] = f[j] => i = j
  PROVE  n < MaxBlocks
  <1> DEFINE T == 0 .. MaxBlocks - 1
             g == [i \in 0 .. n |-> (f[i] - 4) \div 24]
  <1>0. ASSUME NEW p \in DOMAIN m
        PROVE  /\ p \in Nat /\ p >= 4 /\ p + 28 <= MaxHeap
               /\ (p - 4) \div 24 \in T
               /\ \A q \in DOMAIN m : p < q => /\ p + 24 <= q
                                               /\ (p - 4) \div 24 # (q - 4) \div 24
    <2>1. /\ p \in Nat /\ p % 8 = 4 /\ m[p].size \in Nat /\ m[p].size >= 24
          /\ p + m[p].size <= brk /\ brk <= MaxHeap /\ brk \in Nat /\ brk % 8 = 4
      BY BlockInWords DEF Spaced
    <2> DEFINE s == m[p].size
    <2>2. p >= 4 /\ p + 24 <= brk /\ brk + 4 <= MaxHeap
      <3>1. s \in Nat /\ s >= 24 /\ p + s <= brk
        BY <2>1
      <3> HIDE DEF s
      <3>2. p >= 4 /\ p + 24 <= brk
        BY <2>1, <3>1
      <3>3. brk + 4 <= MaxHeap
        <4>1. MaxHeap \in Nat /\ MaxHeap % 8 = 0 /\ brk \in Nat /\ brk % 8 = 4 /\ brk <= MaxHeap
          BY <2>1, HeapAssumption
        <4> QED
          BY <4>1
      <3> QED
        BY <3>2, <3>3
    <2> HIDE DEF s
    <2>3. p + 28 <= MaxHeap
      <3>1. MaxHeap \in Nat
        BY HeapAssumption
      <3> QED
        BY <2>1, <2>2, <3>1
    <2>4. (p - 4) \div 24 \in T
      <3> DEFINE x == p - 4
      <3>1. x \in Nat /\ x + 24 <= MaxHeap /\ MaxHeap \in Nat
        <4>1. p \in Nat /\ p >= 4
          BY <2>1, <2>2
        <4>2. MaxHeap \in Nat
          BY HeapAssumption
        <4> QED
          BY <2>3, <4>1, <4>2
      <3> HIDE DEF x
      <3>2. x \div 24 \in 0 .. (MaxHeap \div 24) - 1
        BY <3>1, BlockNumber
      <3> QED
        BY <3>2 DEF x, MaxBlocks
    <2>5. ASSUME NEW q \in DOMAIN m, p < q
          PROVE  p + 24 <= q /\ (p - 4) \div 24 # (q - 4) \div 24
      <3>1. p + m[p].size <= q /\ q \in Nat
        BY <2>5 DEF Spaced
      <3>2. p + 24 <= q
        BY <2>1, <3>1
      <3> DEFINE x == p - 4
                 y == q - 4
      <3>3. x \in Nat /\ y \in Nat /\ x + 24 <= y
        BY <2>1, <2>2, <3>1, <3>2
      <3> HIDE DEF x, y
      <3>4. x \div 24 # y \div 24
        BY <3>3, BlockNumbersDiffer
      <3> QED
        BY <3>2, <3>4 DEF x, y
    <2> QED
      BY <2>1, <2>2, <2>3, <2>4, <2>5
  <1>1. MaxBlocks \in Nat
    BY HeapAssumption DEF MaxBlocks
  <1>2. ASSUME NEW i \in 0 .. n
        PROVE  g[i] \in T
    BY <1>0
  <1>3. ASSUME NEW i \in 0 .. n, NEW j \in 0 .. n, i # j
        PROVE  g[i] # g[j]
    <2>1. f[i] \in DOMAIN m /\ f[j] \in DOMAIN m /\ f[i] # f[j]
      BY <1>3
    <2>2. PICK p \in DOMAIN m, q \in DOMAIN m : p = f[i] /\ q = f[j]
      BY <2>1
    <2>3. p \in Nat /\ q \in Nat /\ p # q
      BY <1>0, <2>1, <2>2
    <2>4. (p - 4) \div 24 # (q - 4) \div 24
      <3>1. CASE p < q
        BY <1>0, <3>1
      <3>2. CASE q < p
        BY <1>0, <3>2
      <3> QED
        BY <2>3, <3>1, <3>2
    <2> QED
      BY <2>2, <2>4
  <1>4. IsFiniteSet(T) /\ Cardinality(T) = MaxBlocks
    <2>1. Cardinality(0 .. MaxBlocks - 1) = IF 0 > MaxBlocks - 1 THEN 0 ELSE (MaxBlocks - 1) - 0 + 1
      BY <1>1, FS_Interval
    <2>2. IsFiniteSet(0 .. MaxBlocks - 1)
      BY <1>1, FS_Interval
    <2> QED
      BY <1>1, <2>1, <2>2
  <1>5. IsFiniteSet(0 .. n) /\ Cardinality(0 .. n) = n + 1
    BY FS_Interval
  <1>6. g \in [0 .. n -> T]
    BY <1>2
  <1> HIDE DEF g, T
  <1>7. ~(Cardinality(T) < Cardinality(0 .. n))
    BY <1>3, <1>4, <1>5, <1>6, FS_PigeonHole
  <1> QED
    BY <1>1, <1>4, <1>5, <1>7

\* The free list ends, and visits every block that is on it.
LEMMA FreeWalkEnds ==
  ASSUME NEW h, NEW m, NEW F, Loose(h, m, F), F \subseteq DOMAIN m
  PROVE  /\ \A k \in Nat : FreeAt(h)[k] \in F \cup {NULL}
         /\ FreeAt(h)[MaxBlocks] = NULL
         /\ FreeList(h) = F
  <1> DEFINE at == FreeAt(h)
  <1>0. PICK top \in Nat : \E order \in [F -> 0 .. top] : Ordered(h, F, top, order)
    BY DEF Chained, Loose
  <1>1. PICK order \in [F -> 0 .. top] : Ordered(h, F, top, order)
    BY <1>0
  <1>2. /\ at \in [Nat -> F \cup {NULL}]
        /\ at[0] = h.free
        /\ \A k \in Nat : at[k + 1] = IF at[k] = NULL THEN NULL ELSE get_next(h, at[k])
    BY FreeWalk DEF Loose
  <1> HIDE DEF at
  <1>3. NULL \notin F /\ MaxBlocks \in Nat /\ \A p \in F : order[p] \in 0 .. top
    BY <1>1, HeapAssumption, SMTT(30) DEF Ordered, NULL, MaxBlocks
  \* Once at the end it stays there, and until then the order falls.
  <1>4. ASSUME NEW k \in Nat, at[k] # NULL, NEW j \in Nat, j < k
        PROVE  at[j] \in F /\ order[at[k]] < order[at[j]]
    <2> DEFINE T == {d \in Nat : d < k /\ ~(at[k - 1 - d] \in F /\ order[at[k]] < order[at[k - 1 - d]])}
    <2>1. ASSUME T # {}
          PROVE  FALSE
      <3>0. T \in SUBSET Nat
        OBVIOUS
      <3>1. PICK d \in T : \A x \in T : d <= x
        <4> HIDE DEF T
        <4> QED
          BY <2>1, <3>0, LeastElement
      <3>2. d \in Nat /\ d < k /\ k - 1 - d \in Nat /\ (k - 1 - d) + 1 = k - d /\ k - d \in Nat
        BY <3>1
      <3>3. at[k - d] \in F /\ (d # 0 => order[at[k]] < order[at[k - d]])
        <4>1. CASE d = 0
          BY <1>2, <1>4, <4>1
        <4>2. CASE d # 0
          <5>1. d - 1 \in Nat /\ d - 1 < k /\ k - 1 - (d - 1) = k - d /\ d - 1 \notin T
            <6> HIDE DEF T
            <6> QED
              BY <3>1, <3>2, <4>2
          <5> QED
            BY <4>2, <5>1
        <4> QED
          BY <4>1, <4>2
      <3>4. at[k - d] = IF at[k - 1 - d] = NULL THEN NULL ELSE get_next(h, at[k - 1 - d])
        BY <1>2, <3>2
      <3>5. at[k - 1 - d] \in F /\ at[k - d] = get_next(h, at[k - 1 - d])
        BY <1>2, <1>3, <3>2, <3>3, <3>4
      <3>6. order[at[k - d]] < order[at[k - 1 - d]]
        BY <1>1, <1>3, <3>3, <3>5 DEF Ordered
      <3>7. order[at[k]] < order[at[k - 1 - d]]
        <4>1. CASE d = 0
          <5>1. k - d = k
            BY <4>1
          <5> QED
            BY <3>6, <5>1
        <4>2. CASE d # 0
          BY <1>2, <1>3, <1>4, <3>3, <3>5, <3>6, <4>2
        <4> QED
          BY <4>1, <4>2
      <3> QED
        BY <3>1, <3>5, <3>7
    <2>2. k - 1 - j \in Nat /\ k - 1 - j < k /\ k - 1 - (k - 1 - j) = j
      BY <1>4
    <2>3. k - 1 - j \notin T
      BY <2>1
    <2> QED
      BY <2>2, <2>3
  <1>5. ASSUME NEW k \in Nat, at[k] # NULL
        PROVE  k < MaxBlocks
    <2> DEFINE f == [j \in 0 .. k |-> at[j]]
    <2>1. \A j \in 0 .. k : at[j] \in F
      <3> TAKE j \in 0 .. k
      <3>1. CASE j = k
        BY <1>2, <1>5, <3>1
      <3>2. CASE j # k
        <4>1. j \in Nat /\ j < k
          BY <3>2
        <4> QED
          BY <1>4, <1>5, <4>1
      <3> QED
        BY <3>1, <3>2
    <2>2. f \in [0 .. k -> DOMAIN m]
      BY <2>1
    <2>3. ASSUME NEW i \in 0 .. k, NEW j \in 0 .. k, i < j
          PROVE  f[i] # f[j]
      <3>1. at[j] # NULL /\ i \in Nat /\ j \in Nat
        BY <1>3, <2>1
      <3>2. order[at[j]] < order[at[i]] /\ order[at[j]] \in Nat /\ order[at[i]] \in Nat
        BY <1>3, <1>4, <2>1, <2>3, <3>1
      <3> QED
        BY <3>2
    <2>4. \A i, j \in 0 .. k : f[i] = f[j] => i = j
      <3> HIDE DEF f
      <3> QED
        BY <2>3
    <2> HIDE DEF f
    <2> QED
      BY <2>2, <2>4, FewBlocks DEF Loose
  <1>6. at[MaxBlocks] = NULL
    BY <1>3, <1>5
  <1>7. ASSUME NEW p \in F
        PROVE  \E k \in Nat : at[k] = p
    <2> DEFINE Missed == {q \in F : \A k \in Nat : at[k] # q}
               T == {top - order[q] : q \in Missed}
    <2>1. ASSUME Missed # {}
          PROVE  FALSE
      <3>1. T \in SUBSET Nat /\ T # {}
        BY <1>3, <2>1
      <3>2. PICK t \in T : \A x \in T : t <= x
        <4> HIDE DEF T
        <4> QED
          BY <3>1, LeastElement
      <3>3. PICK q \in Missed : t = top - order[q]
        BY <3>2
      <3>4. q \in F /\ q # h.free
        BY <1>2, <3>3
      <3>5. get_prev(h, q) \in F /\ get_next(h, get_prev(h, q)) = q
        BY <1>1, <3>4 DEF Ordered
      <3>6. order[q] < order[get_prev(h, q)]
        BY <1>1, <1>3, <3>4, <3>5 DEF Ordered
      <3>7. get_prev(h, q) \in Missed
        <4>1. ASSUME NEW k \in Nat, at[k] = get_prev(h, q)
              PROVE  FALSE
          <5>1. at[k + 1] = q /\ k + 1 \in Nat
            BY <1>2, <1>3, <3>5, <4>1
          <5> QED
            BY <3>3, <5>1
        <4> QED
          BY <3>5, <4>1
      <3>8. top - order[get_prev(h, q)] \in T
        BY <3>7
      <3> QED
        BY <1>3, <3>2, <3>3, <3>4, <3>5, <3>6, <3>8
    <2> QED
      BY <2>1
  <1>8. FreeList(h) = F
    <2>1. FreeList(h) = {at[k] : k \in 0 .. MaxBlocks} \ {NULL}
      BY DEF FreeList, at
    <2>2. ASSUME NEW p \in F
          PROVE  p \in FreeList(h)
      <3>1. PICK k \in Nat : at[k] = p
        BY <1>7
      <3>2. k \in 0 .. MaxBlocks
        BY <1>3, <1>5, <3>1
      <3> QED
        BY <1>3, <2>1, <3>1, <3>2
    <2>3. FreeList(h) \subseteq F
      BY <1>2, <2>1
    <2> QED
      BY <2>2, <2>3
  <1> QED
    BY <1>2, <1>6, <1>8 DEF at

LEMMA FirstFitWorks ==
  ASSUME NEW h, NEW m, NEW F, Loose(h, m, F), F \subseteq DOMAIN m, NEW newsize \in Nat
  PROVE  /\ FirstFit(h, newsize) \in F \cup {NULL}
         /\ FirstFit(h, newsize) # NULL => m[FirstFit(h, newsize)].size >= newsize
  <1> DEFINE at == FreeAt(h)
             Ends(k) == at[k] = NULL \/ GET_SIZE(h, at[k]) >= newsize
             First(k) == Ends(k) /\ \A j \in 0 .. k - 1 : ~Ends(j)
  <1>1. (\A k \in Nat : at[k] \in F \cup {NULL}) /\ at[MaxBlocks] = NULL
    BY FreeWalkEnds
  <1>2. MaxBlocks \in Nat
    BY HeapAssumption DEF MaxBlocks
  <1> HIDE DEF at
  <1>3. \E k \in 0 .. MaxBlocks : First(k)
    <2> DEFINE T == {k \in Nat : Ends(k)}
    <2>1. T \in SUBSET Nat /\ MaxBlocks \in T
      BY <1>1, <1>2
    <2>2. PICK k \in T : \A j \in T : k <= j
      <3> HIDE DEF T
      <3> QED
        BY <2>1, LeastElement
    <2>3. k \in 0 .. MaxBlocks
      BY <1>2, <2>1, <2>2
    <2>4. \A j \in 0 .. k - 1 : ~Ends(j)
      BY <2>2, <2>3
    <2>5. Ends(k)
      BY <2>2
    <2> QED
      BY <2>3, <2>4, <2>5
  <1> DEFINE k == CHOOSE k \in 0 .. MaxBlocks : First(k)
  <1>4. k \in 0 .. MaxBlocks /\ First(k)
    <2> HIDE DEF First
    <2> QED
      BY <1>3
  <1>5. FirstFit(h, newsize) = at[k]
    BY DEF FirstFit, at
  <1> HIDE DEF k
  <1>6. at[k] \in F \cup {NULL} /\ (at[k] = NULL \/ GET_SIZE(h, at[k]) >= newsize)
    BY <1>1, <1>2, <1>4
  <1>7. at[k] # NULL => GET_SIZE(h, at[k]) = m[at[k]].size
    BY <1>6, TagsAreRead DEF Loose
  <1> QED
    BY <1>5, <1>6, <1>7

LEMMA BlockWalk ==
  ASSUME NEW h, NEW m, NEW F, Loose(h, m, F)
  PROVE  /\ BlockAt(h) \in [Nat -> DOMAIN m \cup {h.brk}]
         /\ BlockAt(h)[0] = heap_initp
         /\ \A k \in Nat : BlockAt(h)[k] \in DOMAIN m =>
              BlockAt(h)[k + 1] = BlockAt(h)[k] + m[BlockAt(h)[k]].size
         /\ \A k \in Nat : BlockAt(h)[k] = h.brk => BlockAt(h)[k + 1] = h.brk
  <1> DEFINE S == DOMAIN m \cup {h.brk}
             After(p) == IF \/ p >= h.brk
                            \/ GET_SIZE(h, p) < 24
                            \/ GET_AFTER(h, p) > h.brk
                         THEN h.brk ELSE GET_AFTER(h, p)
             step == [p \in S |-> After(p)]
             Follows(At) == At = [k \in Nat |-> IF k = 0 THEN heap_initp ELSE After(At[k - 1])]
  <1>1. ASSUME NEW p \in DOMAIN m
        PROVE  After(p) = p + m[p].size /\ After(p) \in S
    <2>1. /\ GET_SIZE(h, p) = m[p].size /\ GET_AFTER(h, p) = p + m[p].size
          /\ p \in Nat /\ m[p].size \in Nat /\ m[p].size >= 24 /\ p + m[p].size <= h.brk
          /\ h.brk \in Nat
      BY TagsAreRead, BlockInWords DEF Loose, Spaced
    <2>2. ~(p >= h.brk) /\ ~(m[p].size < 24) /\ ~(p + m[p].size > h.brk)
      BY <2>1
    <2> QED
      BY <2>1, <2>2 DEF Loose, Whole
  <1>2. After(h.brk) = h.brk
    BY DEF Loose, Heaps
  <1>3. heap_initp \in S
    BY DEF Loose, Whole
  <1> HIDE DEF After
  <1>4. PICK f : Steps(f, S, heap_initp, step)
    <2>1. step \in [S -> S]
      BY <1>1, <1>2
    <2> HIDE DEF step, S
    <2> QED
      BY <1>3, <2>1, WalkExists
  <1>5. Follows(f)
    <2>1. ASSUME NEW k \in Nat, k # 0
          PROVE  f[k] = After(f[k - 1])
      <3>1. k - 1 \in Nat /\ (k - 1) + 1 = k
        BY <2>1
      <3>2. f[(k - 1) + 1] = step[f[k - 1]] /\ f[k - 1] \in S
        BY <1>4, <3>1 DEF Steps
      <3> QED
        BY <3>1, <3>2
    <2>2. \A k \in Nat : f[k] = IF k = 0 THEN heap_initp ELSE After(f[k - 1])
      BY <1>4, <2>1 DEF Steps
    <2>3. f = [k \in Nat |-> f[k]]
      BY <1>4 DEF Steps
    <2> QED
      BY <2>2, <2>3
  <1>6. BlockAt(h) = CHOOSE At : Follows(At)
    BY DEF BlockAt, After
  <1>7. Follows(BlockAt(h))
    <2> HIDE DEF Follows
    <2> QED
      BY <1>5, <1>6
  <1> DEFINE g == BlockAt(h)
  <1>8. g = [k \in Nat |-> IF k = 0 THEN heap_initp ELSE After(g[k - 1])]
    BY <1>7
  <1> HIDE DEF g
  <1>9. /\ DOMAIN g = Nat /\ g[0] = heap_initp
        /\ \A k \in Nat : k # 0 => g[k] = After(g[k - 1])
    <2>1. DOMAIN g = Nat
      BY <1>8, Zenon
    <2>2. \A k \in Nat : g[k] = IF k = 0 THEN heap_initp ELSE After(g[k - 1])
      BY <1>8, Zenon
    <2> QED
      BY <2>1, <2>2
  <1>10. \A k \in Nat : g[k] \in S
    <2> DEFINE T == {k \in Nat : g[k] \notin S}
    <2>1. ASSUME T # {}
          PROVE  FALSE
      <3>1. PICK k \in T : \A j \in T : k <= j
        <4>1. T \in SUBSET Nat
          OBVIOUS
        <4> HIDE DEF T
        <4> QED
          BY <2>1, <4>1, LeastElement
      <3>2. k # 0
        BY <1>3, <1>9, <3>1
      <3>3. k - 1 \in Nat /\ k - 1 \notin T
        BY <3>1, <3>2
      <3>4. g[k - 1] \in S /\ g[k] = After(g[k - 1])
        BY <1>9, <3>1, <3>2, <3>3
      <3> QED
        BY <1>1, <1>2, <3>1, <3>4
    <2> QED
      BY <2>1
  <1>11. g = [k \in Nat |-> g[k]]
    BY <1>8, Zenon
  <1>12. ASSUME NEW k \in Nat, g[k] \in DOMAIN m
         PROVE  g[k + 1] = g[k] + m[g[k]].size
    <2>1. k + 1 \in Nat /\ k + 1 # 0 /\ (k + 1) - 1 = k
      OBVIOUS
    <2>2. g[k + 1] = After(g[k])
      BY <1>9, <2>1
    <2> QED
      BY <1>1, <1>12, <2>2
  <1>13. ASSUME NEW k \in Nat, g[k] = h.brk
         PROVE  g[k + 1] = h.brk
    <2>1. k + 1 \in Nat /\ k + 1 # 0 /\ (k + 1) - 1 = k
      OBVIOUS
    <2> QED
      BY <1>2, <1>9, <1>13, <2>1
  <1>14. g \in [Nat -> S]
    BY <1>10, <1>11
  <1> QED
    BY <1>9, <1>12, <1>13, <1>14 DEF g

\* Going from block to block meets all of them.
LEMMA BlocksAreMet ==
  ASSUME NEW h, NEW m, NEW F, Loose(h, m, F)
  PROVE  Blocks(h) = DOMAIN m
  <1> DEFINE at == BlockAt(h)
  <1>1. /\ at \in [Nat -> DOMAIN m \cup {h.brk}]
        /\ at[0] = heap_initp
        /\ \A k \in Nat : at[k] \in DOMAIN m => at[k + 1] = at[k] + m[at[k]].size
        /\ \A k \in Nat : at[k] = h.brk => at[k + 1] = h.brk
    BY BlockWalk
  <1> HIDE DEF at
  <1>2. /\ MaxBlocks \in Nat /\ h.brk \in Nat /\ Spaced(m, h.brk)
        /\ \A p \in DOMAIN m : p \in Nat /\ m[p].size \in Nat /\ m[p].size >= 24 /\ p < h.brk
    BY HeapAssumption DEF MaxBlocks, Loose, Spaced, Tags
  <1>3. Blocks(h) = {p \in {at[k] : k \in 0 .. MaxBlocks} : p < h.brk}
    BY DEF Blocks, at
  <1>4. Blocks(h) \subseteq DOMAIN m
    BY <1>1, <1>2, <1>3
  <1>5. ASSUME NEW p \in DOMAIN m
        PROVE  \E k \in Nat : at[k] = p
    <2> DEFINE Missed == {q \in DOMAIN m : \A k \in Nat : at[k] # q}
    <2>1. ASSUME Missed # {}
          PROVE  FALSE
      <3>1. PICK q \in Missed : \A x \in Missed : q <= x
        <4>1. Missed \in SUBSET Nat
          BY <1>2
        <4> HIDE DEF Missed
        <4> QED
          BY <2>1, <4>1, LeastElement
      <3>2. q \in DOMAIN m /\ q # heap_initp
        BY <1>1, <3>1
      <3>3. PICK b \in DOMAIN m : b + m[b].size = q
        BY <3>2, BlockBefore DEF Loose
      <3>4. b < q
        BY <1>2, <3>2, <3>3
      <3>5. b \notin Missed
        <4> HIDE DEF Missed
        <4> QED
          BY <1>2, <3>1, <3>2, <3>4
      <3>6. PICK k \in Nat : at[k] = b
        BY <3>5
      <3>7. at[k + 1] = q /\ k + 1 \in Nat
        BY <1>1, <3>3, <3>6
      <3> QED
        BY <3>1, <3>7
    <2> QED
      BY <2>1
  \* Until the end each is behind the one before.
  <1>6. ASSUME NEW k \in Nat, at[k] \in DOMAIN m, NEW j \in Nat, j < k
        PROVE  at[j] \in DOMAIN m /\ at[j] < at[k]
    <2> DEFINE T == {d \in Nat : d < k /\ ~(at[k - 1 - d] \in DOMAIN m /\ at[k - 1 - d] < at[k])}
    <2>1. ASSUME T # {}
          PROVE  FALSE
      <3>0. T \in SUBSET Nat
        OBVIOUS
      <3>1. PICK d \in T : \A x \in T : d <= x
        <4> HIDE DEF T
        <4> QED
          BY <2>1, <3>0, LeastElement
      <3>2. d \in Nat /\ d < k /\ k - 1 - d \in Nat /\ (k - 1 - d) + 1 = k - d /\ k - d \in Nat
        BY <3>1
      <3>3. at[k - d] \in DOMAIN m /\ at[k - d] <= at[k]
        <4>1. CASE d = 0
          BY <1>2, <1>6, <4>1
        <4>2. CASE d # 0
          <5>1. d - 1 \in Nat /\ d - 1 < k /\ k - 1 - (d - 1) = k - d /\ d - 1 \notin T
            <6> HIDE DEF T
            <6> QED
              BY <3>1, <3>2, <4>2
          <5>2. at[k - d] \in DOMAIN m /\ at[k - d] < at[k]
            BY <5>1
          <5> QED
            BY <1>2, <1>6, <5>2
        <4> QED
          BY <4>1, <4>2
      <3>4. at[k - 1 - d] \in DOMAIN m
        <4>1. at[k - 1 - d] = h.brk => at[k - d] = h.brk
          BY <1>1, <3>2
        <4> QED
          BY <1>1, <1>2, <3>2, <3>3, <4>1
      <3>5. at[k - d] = at[k - 1 - d] + m[at[k - 1 - d]].size
        BY <1>1, <3>2, <3>4
      <3>6. at[k - 1 - d] < at[k]
        BY <1>2, <1>6, <3>3, <3>4, <3>5
      <3> QED
        BY <3>1, <3>4, <3>6
    <2>2. k - 1 - j \in Nat /\ k - 1 - j < k /\ k - 1 - (k - 1 - j) = j
      BY <1>6
    <2>3. k - 1 - j \notin T
      BY <2>1
    <2> QED
      BY <2>2, <2>3
  <1>7. ASSUME NEW k \in Nat, at[k] \in DOMAIN m
        PROVE  k < MaxBlocks
    <2> DEFINE f == [j \in 0 .. k |-> at[j]]
    <2>1. \A j \in 0 .. k : at[j] \in DOMAIN m
      <3> TAKE j \in 0 .. k
      <3>1. CASE j = k
        BY <1>7, <3>1
      <3>2. CASE j # k
        <4>1. j \in Nat /\ j < k
          BY <3>2
        <4> QED
          BY <1>6, <1>7, <4>1
      <3> QED
        BY <3>1, <3>2
    <2>2. f \in [0 .. k -> DOMAIN m]
      BY <2>1
    <2>3. ASSUME NEW i \in 0 .. k, NEW j \in 0 .. k, i < j
          PROVE  f[i] # f[j]
      <3>1. at[j] \in DOMAIN m /\ i \in Nat /\ j \in Nat
        BY <2>1
      <3>2. at[i] < at[j] /\ at[i] \in Nat /\ at[j] \in Nat
        BY <1>2, <1>6, <2>1, <2>3, <3>1
      <3> QED
        BY <3>2
    <2>4. \A i, j \in 0 .. k : f[i] = f[j] => i = j
      <3> HIDE DEF f
      <3> QED
        BY <2>3
    <2> HIDE DEF f
    <2> QED
      BY <1>2, <2>2, <2>4, FewBlocks
  <1>8. ASSUME NEW p \in DOMAIN m
        PROVE  p \in Blocks(h)
    <2>1. PICK k \in Nat : at[k] = p
      BY <1>5
    <2>2. k \in 0 .. MaxBlocks
      BY <1>2, <1>7, <2>1
    <2> QED
      BY <1>2, <1>3, <2>1, <2>2
  <1> QED
    BY <1>4, <1>8

-----------------------------------------------------------------------------
(* Handing out a block *)

\* On the way from h to g the block at p, of asize bytes or more, is taken.
HandsOut(h, m, g, r, p, asize) ==
    /\ Sound(g, r)
    /\ p \notin TakenIn(m) /\ TakenIn(r) = TakenIn(m) \cup {p} /\ r[p].size >= asize
    /\ \A t \in TakenIn(m) : r[t] = m[t]
    /\ Keeps(h, g, m, TakenIn(m))

LEMMA GrowWorks ==
  ASSUME NEW h, NEW m, Sound(h, m), NEW asize \in Nat, asize % 8 = 0, asize >= 24,
         h.brk + asize <= MaxHeap
  PROVE  \E r : HandsOut(h, m, SetTags([h EXCEPT !.brk = @ + asize], h.brk, asize, 1),
                         r, h.brk, asize)
  <1> DEFINE b == h.brk
             k == [h EXCEPT !.brk = @ + asize]
             r == Grown(m, b, asize)
             g == SetTags(k, b, asize, 1)
             F == FreeIn(m)
             A == TakenIn(m)
  <1>1. /\ h \in Heaps /\ Spaced(m, b) /\ Whole(m, b) /\ Tagged(h, m) /\ Chained(h, F)
        /\ Within(m, F) /\ Apart(m) /\ b \in Nat
    BY DEF Sound, Loose, Spaced
  <1>2. k \in Heaps /\ k.brk = b + asize /\ k.free = h.free /\ k.mem = h.mem
    BY <1>1 DEF Heaps
  <1> HIDE DEF k
  <1>3. Tagged(k, m) /\ Except(h, k, {})
    BY <1>1, <1>2 DEF Tagged, Except
  <1>4. Chained(k, F)
    <2>1. {} \cap LinkWords(F) = {}
      OBVIOUS
    <2> HIDE DEF F
    <2> QED
      BY <1>1, <1>2, <1>3, <2>1, ChainStays
  <1>5. Spaced(r, b + asize) /\ Whole(r, b + asize) /\ b \notin DOMAIN m
    BY <1>1, GrownIsLayout
  <1>6. /\ DOMAIN r = DOMAIN m \cup {b}
        /\ r[b].size = asize /\ r[b].alloc = 1
        /\ \A q \in DOMAIN m : r[q] = m[q]
    BY <1>5 DEF Grown, Tag
  <1> HIDE DEF r
  <1>7. Within(r, F)
    BY <1>1, <1>6 DEF Within
  <1>8. Loose(g, r, F) /\ Except(k, g, TagWords(r, b)) /\ g.brk = k.brk
    <2>1. b \in DOMAIN r /\ \A q \in DOMAIN r \ {b} : q \in DOMAIN m /\ r[q] = m[q]
      BY <1>6
    <2>2. g = SetTags(k, b, r[b].size, r[b].alloc)
      BY <1>6
    <2> HIDE DEF F, g
    <2> QED
      BY <1>2, <1>3, <1>4, <1>5, <1>7, <2>1, <2>2, TagsWork
  <1> HIDE DEF g
  <1>9. FreeIn(r) = F /\ TakenIn(r) = A \cup {b} /\ b \notin A /\ A \subseteq DOMAIN m
    BY <1>5, <1>6 DEF FreeIn, TakenIn
  <1>10. Apart(r)
    <2>1. ASSUME NEW x \in F
          PROVE  x + r[x].size \notin F
      BY <1>1, <1>6 DEF Apart, FreeIn
    <2> QED
      BY <1>9, <2>1 DEF Apart
  <1>11. \A t \in A : r[t] = m[t]
    BY <1>6, <1>9
  <1>12. Keeps(h, g, m, A)
    <2>1. A \subseteq DOMAIN r /\ b \in DOMAIN r
      BY <1>6, <1>9
    <2>2. Keeps(k, g, r, A)
      BY <1>5, <1>8, <1>9, <2>1, TagsKeep
    <2> QED
      BY <1>2, <1>11, <2>2 DEF Keeps, Own
  <1>13. HandsOut(h, m, g, r, b, asize)
    BY <1>6, <1>8, <1>9, <1>10, <1>11, <1>12 DEF HandsOut, Sound
  <1> QED
    BY <1>13 DEF g, k

LEMMA WholeWorks ==
  ASSUME NEW h, NEW m, Sound(h, m), NEW p \in FreeIn(m), NEW asize \in Nat, m[p].size >= asize
  PROVE  \E r : HandsOut(h, m, remove_free(SetTags(h, p, GET_SIZE(h, p), 1), p), r, p, asize)
  <1> DEFINE r == Retag(m, p, 1)
             k == SetTags(h, p, GET_SIZE(h, p), 1)
             g == remove_free(k, p)
             F == FreeIn(m)
             A == TakenIn(m)
  <1>1. /\ h \in Heaps /\ Spaced(m, h.brk) /\ Whole(m, h.brk) /\ Tagged(h, m) /\ Chained(h, F)
        /\ Within(m, F) /\ Apart(m) /\ p \in DOMAIN m /\ m[p].alloc = 0 /\ Loose(h, m, F)
        /\ \A q \in DOMAIN m : m[q].alloc \in {0, 1}
    BY BlockInWords DEF Sound, Loose, FreeIn
  <1>2. Spaced(r, h.brk) /\ Whole(r, h.brk)
    <2>1. 1 \in {0, 1}
      OBVIOUS
    <2> QED
      BY <1>1, <2>1, RetagIsLayout
  <1>3. /\ DOMAIN r = DOMAIN m
        /\ r[p].size = m[p].size /\ r[p].alloc = 1
        /\ \A q \in DOMAIN m \ {p} : r[q] = m[q]
    BY <1>1 DEF Retag, Tag
  <1> HIDE DEF r
  <1>4. \A q \in DOMAIN m : r[q].size = m[q].size
    BY <1>3
  <1>5. Within(r, F)
    BY <1>1, <1>3, <1>4 DEF Within
  <1>6. k = SetTags(h, p, r[p].size, r[p].alloc)
    BY <1>1, <1>3, TagsAreRead
  <1> HIDE DEF k
  <1>7. Loose(k, r, F) /\ Except(h, k, TagWords(r, p)) /\ k.brk = h.brk
    <2>1. p \in DOMAIN r /\ \A q \in DOMAIN r \ {p} : q \in DOMAIN m /\ r[q] = m[q]
      BY <1>1, <1>3
    <2> HIDE DEF F
    <2> QED
      BY <1>1, <1>2, <1>5, <1>6, <2>1, TagsWork
  <1>8. Loose(g, r, F \ {p}) /\ Except(k, g, LinkWords(F \ {p})) /\ g.brk = k.brk
    BY <1>7, RemoveKeepsLoose
  <1> HIDE DEF g
  <1>9. FreeIn(r) = F \ {p} /\ TakenIn(r) = A \cup {p} /\ p \notin A /\ A \subseteq DOMAIN m
    BY <1>1, <1>3 DEF FreeIn, TakenIn
  <1>10. Apart(r)
    BY <1>1, <1>4, <1>9 DEF Apart, FreeIn
  <1>11. \A t \in A : r[t] = m[t]
    BY <1>3, <1>9
  <1>12. Keeps(h, g, m, A)
    <2>1. Keeps(h, k, r, A)
      BY <1>1, <1>2, <1>3, <1>7, <1>9, TagsKeep
    <2>2. F \ {p} \subseteq DOMAIN r /\ A \subseteq DOMAIN r /\ A \cap (F \ {p}) = {}
      BY <1>3 DEF FreeIn, TakenIn
    <2>3. Keeps(k, g, r, A)
      BY <1>2, <1>8, <2>2, LinksKeep
    <2>4. Keeps(h, g, r, A)
      BY <2>1, <2>3, KeepsOn
    <2> QED
      BY <1>11, <2>4 DEF Keeps, Own
  <1>13. HandsOut(h, m, g, r, p, asize)
    BY <1>3, <1>8, <1>9, <1>10, <1>11, <1>12 DEF HandsOut, Sound
  <1> QED
    BY <1>13 DEF g, k

LEMMA SplitWorks ==
  ASSUME NEW h, NEW m, Sound(h, m), NEW p \in FreeIn(m), NEW asize \in Nat,
         asize % 8 = 0, asize >= 24, m[p].size - asize > MIN_SIZE
  PROVE  /\ split_explicit(h, p, asize, m[p].size - asize).ptr = p + 4
         /\ \E r : HandsOut(h, m, split_explicit(h, p, asize, m[p].size - asize).heap,
                            r, p, asize)
  <1> DEFINE F == FreeIn(m)
             G == F \ {p}
             A == TakenIn(m)
             new == p + asize
             rest == m[p].size - asize
             k == remove_free(h, p)
             m1 == [q \in DOMAIN m |-> IF q = p THEN Tag(asize, 1) ELSE m[q]]
             first == SetTags(k, p, asize, 1)
             r == Split(m, p, asize)
             second == SetTags(first, new, rest, 0)
             g == add_front(second, new)
  <1>1. /\ h \in Heaps /\ Spaced(m, h.brk) /\ Whole(m, h.brk) /\ Tagged(h, m) /\ Chained(h, F)
        /\ Apart(m) /\ p \in DOMAIN m /\ m[p].alloc = 0 /\ Loose(h, m, F)
        /\ \A q \in DOMAIN m : /\ q \in Nat /\ m[q].size \in Nat /\ m[q].alloc \in {0, 1}
                               /\ m[q].size >= 24 /\ m[q].size % 8 = 0
        /\ F \subseteq DOMAIN m /\ A \subseteq DOMAIN m
    BY BlockInWords DEF Sound, Loose, FreeIn, TakenIn, Spaced
  <1>2. Loose(k, m, G) /\ Except(h, k, LinkWords(G)) /\ k.brk = h.brk
    BY <1>1, RemoveKeepsLoose
  <1> HIDE DEF k
  <1>3. rest \in Nat /\ rest >= 24 /\ new \in Nat /\ p < new
    <2> DEFINE s == m[p].size
    <2>1. s \in Nat /\ s % 8 = 0
      BY <1>1
    <2> HIDE DEF s
    <2>2. s - asize > 16
      BY DEF s, MIN_SIZE
    <2>3. s - asize \in Nat /\ s - asize >= 24
      BY <2>1, <2>2
    <2> QED
      BY <1>1, <2>3 DEF s
  <1>4. Spaced(r, h.brk) /\ Whole(r, h.brk) /\ new \notin DOMAIN m
    BY <1>1, <1>3, SplitIsLayout
  <1>5. /\ DOMAIN r = DOMAIN m \cup {new}
        /\ r[p].size = asize /\ r[p].alloc = 1
        /\ r[new].size = rest /\ r[new].alloc = 0
        /\ \A q \in DOMAIN m \ {p} : r[q] = m[q]
    BY <1>1, <1>3, <1>4 DEF Split, Tag
  <1>6. /\ DOMAIN m1 = DOMAIN m
        /\ m1[p].size = asize /\ m1[p].alloc = 1
        /\ \A q \in DOMAIN m : m1[q] = r[q]
        /\ \A q \in DOMAIN m \ {p} : m1[q] = m[q]
    BY <1>1, <1>4, <1>5 DEF Tag, Split
  <1>7. m1 \in [DOMAIN m1 -> Tags]
    <2>1. \A q \in DOMAIN m : m[q] \in Tags
      BY <1>1 DEF Spaced
    <2>2. Tag(asize, 1) \in Tags
      BY DEF Tag, Tags
    <2> QED
      BY <2>1, <2>2
  <1> HIDE DEF r, m1
  <1>8. Spaced(m1, h.brk)
    BY <1>4, <1>5, <1>6, <1>7 DEF Spaced
  <1>9. /\ first \in Heaps /\ first.brk = k.brk /\ first.free = k.free
        /\ Tagged(first, m1) /\ Except(k, first, TagWords(m1, p))
    <2>1. p \in DOMAIN m1 /\ \A q \in DOMAIN m1 \ {p} : q \in DOMAIN m /\ m1[q] = m[q]
      BY <1>1, <1>6
    <2>2. k \in Heaps /\ Tagged(k, m)
      BY <1>2 DEF Loose
    <2>3. first = SetTags(k, p, m1[p].size, m1[p].alloc)
      BY <1>6
    <2> HIDE DEF first
    <2> QED
      BY <1>8, <2>1, <2>2, <2>3, SetTagsWorks
  <1> HIDE DEF first
  <1>10. G \subseteq Nat /\ Within(m1, G) /\ Within(r, G)
    <2>1. ASSUME NEW f \in G
          PROVE  /\ f \in DOMAIN m1 /\ f \in DOMAIN r /\ f \in Nat /\ f <= f
                 /\ f + 24 <= f + m1[f].size /\ f + 24 <= f + r[f].size
      BY <1>1, <1>5, <1>6
    <2> QED
      BY <2>1 DEF Within
  <1>11. Chained(first, G)
    <2>1. TagWords(m1, p) \cap LinkWords(G) = {}
      BY <1>1, <1>6, <1>8, <1>10, TagsMissLinks
    <2>2. Chained(k, G)
      BY <1>2 DEF Loose
    <2> HIDE DEF G
    <2> QED
      BY <1>9, <2>1, <2>2, ChainStays
  <1>12. Loose(second, r, G) /\ Except(first, second, TagWords(r, new)) /\ second.brk = h.brk
    <2>1. new \in DOMAIN r /\ \A q \in DOMAIN r \ {new} : q \in DOMAIN m1 /\ r[q] = m1[q]
      BY <1>5, <1>6
    <2>2. second = SetTags(first, new, r[new].size, r[new].alloc)
      BY <1>5
    <2>3. first.brk = h.brk
      BY <1>2, <1>9
    <2> HIDE DEF G, second, new
    <2> QED
      BY <1>4, <1>9, <1>10, <1>11, <2>1, <2>2, <2>3, TagsWork
  <1> HIDE DEF second
  <1>13. Loose(g, r, G \cup {new}) /\ Except(second, g, LinkWords(G \cup {new})) /\ g.brk = h.brk
    <2>1. new \in DOMAIN r /\ new \notin G
      BY <1>1, <1>4, <1>5
    <2> HIDE DEF G, new
    <2> QED
      BY <1>12, <2>1, AddKeepsLoose
  <1>14. FreeIn(r) = G \cup {new} /\ TakenIn(r) = A \cup {p} /\ p \notin A
    BY <1>1, <1>4, <1>5 DEF FreeIn, TakenIn
  <1>15. Apart(r)
    <2>1. ASSUME NEW x \in G
          PROVE  x + r[x].size \notin G \cup {new}
      <3>1. x \in DOMAIN m /\ x # p /\ r[x] = m[x] /\ x + m[x].size \notin F
        BY <1>1, <1>5 DEF Apart
      <3>2. x + m[x].size = h.brk \/ x + m[x].size \in DOMAIN m
        BY <1>1, <3>1 DEF Whole
      <3>3. new < h.brk /\ h.brk \in Nat
        BY <1>1, <1>3 DEF Spaced
      <3>4. x + m[x].size # new
        BY <1>3, <1>4, <3>2, <3>3
      <3> QED
        BY <3>1, <3>4
    <2>2. new + r[new].size \notin G \cup {new}
      <3>1. new + r[new].size = p + m[p].size /\ new + r[new].size # new
        BY <1>1, <1>3, <1>5
      <3>2. p + m[p].size \notin F
        BY <1>1 DEF Apart
      <3> QED
        BY <3>1, <3>2
    <2> QED
      BY <1>14, <2>1, <2>2 DEF Apart
  <1>16. split_explicit(h, p, asize, m[p].size - asize) = Result(g, p + 4)
    <2>1. new \in DOMAIN r /\ new + r[new].size \notin FreeIn(r)
      BY <1>5, <1>14, <1>15 DEF Apart
    <2>2. ~MergesRight(g, new)
      BY <1>13, <2>1, RightNeighbour
    <2> QED
      BY <2>2 DEF split_explicit, coalesce_right, g, second, first, k
  <1> HIDE DEF g
  <1>17. \A t \in A : r[t] = m[t] /\ m1[t] = m[t] /\ t # p /\ t # new
    BY <1>1, <1>4, <1>5, <1>6, <1>14
  <1>18. Keeps(h, g, m, A)
    <2>1. Keeps(h, k, m, A)
      <3>1. G \subseteq DOMAIN m /\ A \cap G = {}
        BY <1>1 DEF FreeIn, TakenIn
      <3> QED
        BY <1>1, <1>2, <3>1, LinksKeep
    <2>2. Keeps(k, first, m1, A)
      BY <1>1, <1>6, <1>8, <1>9, <1>17, TagsKeep
    <2>3. Keeps(first, second, r, A)
      <3>1. new \in DOMAIN r /\ A \subseteq DOMAIN r /\ new \notin A
        BY <1>1, <1>5, <1>17
      <3> HIDE DEF new, A
      <3> QED
        BY <1>4, <1>12, <3>1, TagsKeep
    <2>4. Keeps(second, g, r, A)
      <3>1. G \cup {new} \subseteq DOMAIN r /\ A \subseteq DOMAIN r /\ A \cap (G \cup {new}) = {}
        BY <1>1, <1>5, <1>17 DEF FreeIn, TakenIn
      <3> HIDE DEF new, A, G
      <3> QED
        BY <1>4, <1>13, <3>1, LinksKeep
    <2>5. Keeps(h, first, m, A)
      BY <1>17, <2>1, <2>2, KeepsOn
    <2>6. Keeps(h, second, m, A)
      BY <1>17, <2>3, <2>5, KeepsOn
    <2> QED
      BY <1>17, <2>4, <2>6, KeepsOn
  <1>19. HandsOut(h, m, g, r, p, asize)
    BY <1>1, <1>5, <1>13, <1>14, <1>15, <1>17, <1>18 DEF HandsOut, Sound
  <1> QED
    BY <1>16, <1>19 DEF Result

LEMMA MallocWorks ==
  ASSUME NEW h, NEW m, Sound(h, m), NEW size \in Nat
  PROVE  /\ malloc(h, size).ptr = NULL => malloc(h, size).heap = h
         /\ malloc(h, size).ptr # NULL =>
              /\ size > 0
              /\ \E p \in Nat : /\ malloc(h, size).ptr = p + 4
                                /\ \E r : HandsOut(h, m, malloc(h, size).heap, r, p,
                                                   ALIGN(size + MIN_SIZE))
  <1> DEFINE asize == ALIGN(size + MIN_SIZE)
             F == FreeIn(m)
             p == FirstFit(h, asize)
             out == find_fit(h, asize)
  <1>1. CASE size = 0
    BY <1>1 DEF malloc, Result
  <1>2. CASE size # 0
    <2>1. size + MIN_SIZE \in Nat /\ size > 0 /\ size + MIN_SIZE > 16
      BY <1>2 DEF MIN_SIZE
    <2>2. asize \in Nat /\ asize % 8 = 0 /\ asize >= 24
      <3>1. asize \in Nat /\ asize % 8 = 0 /\ asize >= size + MIN_SIZE
        BY <2>1, AlignIsEnough
      <3> HIDE DEF asize
      <3>2. asize > 16
        BY <2>1, <3>1
      <3> QED
        BY <3>1, <3>2
    <2>3. malloc(h, size) = out
      BY <1>2 DEF malloc
    <2> HIDE DEF asize
    <2>4. Loose(h, m, F) /\ F \subseteq DOMAIN m /\ h.brk \in Nat
      BY DEF Sound, FreeIn, Loose, Heaps
    <2>5. p \in F \cup {NULL} /\ (p # NULL => m[p].size >= asize)
      BY <2>2, <2>4, FirstFitWorks
    <2>6. CASE p = NULL /\ ~Grows(h, asize)
      <3>1. out = Result(h, NULL)
        BY <2>6 DEF find_fit
      <3> QED
        BY <2>3, <3>1 DEF Result
    <2>7. CASE p = NULL /\ Grows(h, asize)
      <3>1. out = Result(SetTags([h EXCEPT !.brk = @ + asize], h.brk, asize, 1), h.brk + 4)
        BY <2>7 DEF find_fit
      <3>2. /\ out.ptr = h.brk + 4
            /\ out.heap = SetTags([h EXCEPT !.brk = @ + asize], h.brk, asize, 1)
        BY <3>1 DEF Result
      <3>3. \E r : HandsOut(h, m, out.heap, r, h.brk, asize)
        BY <2>2, <2>7, <3>2, GrowWorks DEF Grows
      <3> HIDE DEF out
      <3> QED
        BY <2>1, <2>3, <2>4, <3>2, <3>3 DEF NULL, asize
    <2>8. CASE p # NULL
      <3>1. p \in F /\ p \in DOMAIN m /\ p \in Nat /\ m[p].size \in Nat /\ GET_SIZE(h, p) = m[p].size
        BY <2>4, <2>5, <2>8, BlockInWords, TagsAreRead DEF Loose
      <3>2. CASE m[p].size - asize > MIN_SIZE
        <4>1. out = split_explicit(h, p, asize, m[p].size - asize)
          BY <2>2, <2>8, <3>1, <3>2 DEF find_fit, MIN_SIZE
        <4>2. out.ptr = p + 4 /\ \E r : HandsOut(h, m, out.heap, r, p, asize)
          <5> HIDE DEF p, out
          <5> QED
            BY <2>2, <3>1, <3>2, <4>1, SplitWorks
        <4> HIDE DEF out, p
        <4> QED
          BY <2>1, <2>3, <3>1, <4>2 DEF NULL, asize
      <3>3. CASE ~(m[p].size - asize > MIN_SIZE)
        <4>1. m[p].size - asize <= MIN_SIZE
          BY <2>2, <3>1, <3>3 DEF MIN_SIZE
        <4>2. out = Result(remove_free(SetTags(h, p, GET_SIZE(h, p), 1), p), p + 4)
          BY <2>8, <3>1, <3>3, <4>1 DEF find_fit
        <4>3. /\ out.ptr = p + 4
              /\ out.heap = remove_free(SetTags(h, p, GET_SIZE(h, p), 1), p)
          BY <4>2 DEF Result
        <4>4. \E r : HandsOut(h, m, out.heap, r, p, asize)
          <5> HIDE DEF p, out
          <5> QED
            BY <2>2, <2>5, <2>8, <3>1, <4>3, WholeWorks
        <4> HIDE DEF out, p
        <4> QED
          BY <2>1, <2>3, <3>1, <4>3, <4>4 DEF NULL, asize
      <3> QED
        BY <3>2, <3>3
    <2> QED
      BY <2>6, <2>7, <2>8
  <1> QED
    BY <1>1, <1>2

\* On the way from h to g the taken block at p may have become larger.
Widens(h, m, g, r, p) ==
    /\ Sound(g, r)
    /\ TakenIn(r) = TakenIn(m) /\ r[p].size >= m[p].size
    /\ \A t \in TakenIn(m) \ {p} : r[t] = m[t]
    /\ Keeps(h, g, m, TakenIn(m) \ {p})
    /\ \A w \in Payload(m, p) : g.mem[w] = h.mem[w]

LEMMA ExpandWorks ==
  ASSUME NEW h, NEW m, Sound(h, m), NEW p \in TakenIn(m), NEW asize \in Nat
  PROVE  \E r : Widens(h, m, expand_right(h, p, asize), r, p)
  <1> DEFINE F == FreeIn(m)
             n == p + m[p].size
             A == TakenIn(m) \ {p}
  <1>1. /\ Loose(h, m, F) /\ F \subseteq DOMAIN m /\ p \in DOMAIN m /\ p \notin F /\ Apart(m)
        /\ m[p].size \in Nat /\ m[p].alloc = 1
    BY BlockInWords DEF Sound, FreeIn, TakenIn, Loose
  <1>2. CASE expand_right(h, p, asize) = h
    BY <1>1, <1>2 DEF Keeps, Widens
  <1>3. CASE expand_right(h, p, asize) # h
    <2> DEFINE r == Merge(m, p, n, 1)
               g == Absorb(h, p, 1)
    <2>1. MergesRight(h, p) /\ expand_right(h, p, asize) = g
      BY <1>3 DEF expand_right
    <2>2. n \in F
      BY <1>1, <2>1, RightNeighbour
    <2>3. n # p /\ n \in DOMAIN m /\ m[n].size \in Nat /\ m[n].size >= 24
      BY <1>1, <2>2, BlockInWords DEF Loose, Spaced
    <2>4. /\ Loose(g, r, F \ {n})
          /\ Keeps(h, g, m, A)
          /\ \A w \in Payload(m, p) : g.mem[w] = h.mem[w]
      <3>1. 1 \in {0, 1} /\ n = p + m[p].size
        OBVIOUS
      <3>2. A \in SUBSET (DOMAIN m \ (F \cup {p}))
        BY DEF FreeIn, TakenIn
      <3> HIDE DEF n, F, A
      <3>3. Absorbs(h, g, m, F, p, n, 1)
        BY <1>1, <2>2, <3>1, AbsorbWorks
      <3> HIDE DEF g
      <3> QED
        BY <1>1, <3>2, <3>3 DEF Absorbs
    <2>5. /\ DOMAIN r = DOMAIN m \ {n}
          /\ r[p].size = m[p].size + m[n].size /\ r[p].alloc = 1
          /\ \A q \in DOMAIN m \ {n, p} : r[q] = m[q]
      BY <1>1, <2>3 DEF Merge, Tag
    <2> HIDE DEF r, g
    <2>6. FreeIn(r) = F \ {n} /\ TakenIn(r) = TakenIn(m) /\ n \notin TakenIn(m)
      BY <1>1, <2>2, <2>3, <2>5 DEF FreeIn, TakenIn
    <2>7. Apart(r)
      BY <1>1, <2>5, <2>6 DEF Apart
    <2>8. \A t \in A : r[t] = m[t]
      BY <2>5, <2>6 DEF TakenIn
    <2>9. Sound(g, r)
      BY <2>4, <2>6, <2>7 DEF Sound
    <2>10. r[p].size >= m[p].size
      BY <1>1, <2>3, <2>5
    <2> QED
      BY <2>1, <2>4, <2>6, <2>8, <2>9, <2>10 DEF Widens
  <1> QED
    BY <1>2, <1>3

-----------------------------------------------------------------------------
(* Writing to a block *)

LEMMA WriteWorks ==
  ASSUME NEW h, NEW m, Sound(h, m), NEW p \in TakenIn(m), NEW g \in Heaps,
         g.brk = h.brk, g.free = h.free, Except(h, g, Payload(m, p))
  PROVE  Sound(g, m) /\ Keeps(h, g, m, TakenIn(m) \ {p})
  <1> DEFINE F == FreeIn(m)
             W == Payload(m, p)
  <1>1. /\ h \in Heaps /\ Spaced(m, h.brk) /\ Whole(m, h.brk) /\ Tagged(h, m) /\ Chained(h, F)
        /\ Within(m, F) /\ Apart(m) /\ p \in DOMAIN m
        /\ p \in Nat /\ m[p].size \in Nat /\ m[p].size >= 24 /\ p % 8 = 4
    BY BlockInWords DEF Sound, Loose, Spaced, TakenIn
  <1>2. W \subseteq Own(m, p) /\ W \cap TagWords(m, p) = {} /\ 0 \notin W
    BY <1>1, WordsAre DEF Payload, Own, TagWords
  <1>3. ASSUME NEW q \in DOMAIN m, q # p
        PROVE  Own(m, q) \cap W = {}
    BY <1>1, <1>2, <1>3, OwnIsOwn
  <1>4. ASSUME NEW q \in DOMAIN m
        PROVE  TagWords(m, q) \cap W = {}
    <2>1. TagWords(m, q) \subseteq Own(m, q)
      BY <1>1, TagsAreOwn
    <2> HIDE DEF W
    <2> QED
      BY <1>2, <1>3, <2>1
  <1>5. W \cap LinkWords(F) = {}
    <2>1. ASSUME NEW f \in F
          PROVE  f + 4 \notin W /\ f + 8 \notin W
      <3>1. f \in DOMAIN m /\ f # p
        BY DEF FreeIn, TakenIn
      <3>2. f + 4 \in Own(m, f) /\ f + 8 \in Own(m, f)
        BY <1>1, <3>1, BlockInWords DEF Own, Spaced
      <3> QED
        BY <1>3, <3>1, <3>2
    <2> QED
      BY <2>1 DEF LinkWords
  <1> HIDE DEF W
  <1>6. Except(h, g, W)
    BY DEF W
  <1>7. Tagged(g, m)
    BY <1>1, <1>2, <1>4, <1>6, TagsStay
  <1>8. Chained(g, F)
    <2> HIDE DEF F
    <2> QED
      BY <1>1, <1>5, <1>6, ChainStays
  <1>9. Keeps(h, g, m, TakenIn(m) \ {p})
    <2>1. ASSUME NEW t \in TakenIn(m) \ {p}, NEW a \in Own(m, t)
          PROVE  g.mem[a] = h.mem[a]
      <3>1. t \in DOMAIN m /\ t # p
        BY DEF TakenIn
      <3>2. a \in Words /\ a \notin W
        BY <1>3, <3>1 DEF Own
      <3> QED
        BY <1>6, <3>2 DEF Except
    <2> QED
      BY <2>1 DEF Keeps
  <1> QED
    BY <1>1, <1>7, <1>8, <1>9 DEF Sound, Loose

\* The words of n bytes at `to` hold v, the others what they held.
Filled(h, g, to, n, v) ==
    \A a \in Words : g.mem[a] = IF to <= a /\ a < to + n THEN v ELSE h.mem[a]

\* The words of n bytes at `to` hold what was at `from`.
Copied(h, g, to, from, n) ==
    \A a \in Words : to <= a /\ a < to + n => /\ a - to + from \in Words
                                           /\ g.mem[a] = h.mem[a - to + from]

LEMMA FillWorks ==
  ASSUME NEW h, NEW m, Sound(h, m), NEW p \in TakenIn(m), NEW to \in Nat, NEW n \in Nat,
         NEW v \in Int, p + 4 <= to, to + n <= p + m[p].size - 4
  PROVE  /\ Sound(memset(h, to, v, n), m)
         /\ Keeps(h, memset(h, to, v, n), m, TakenIn(m) \ {p})
         /\ Filled(h, memset(h, to, v, n), to, n, v)
  <1> DEFINE g == memset(h, to, v, n)
  <1>1. /\ h \in Heaps /\ p \in DOMAIN m /\ p \in Nat /\ m[p].size \in Nat
    BY BlockInWords DEF Sound, Loose, TakenIn
  <1>2. /\ h.mem \in [Words -> Int] /\ h.brk \in Nat /\ h.free \in Nat
        /\ h = [mem |-> h.mem, brk |-> h.brk, free |-> h.free]
    BY <1>1 DEF Heaps
  <1>3. g = [mem |-> [a \in Words |-> IF a \in to .. to + n - 1 THEN v ELSE h.mem[a]],
             brk |-> h.brk, free |-> h.free]
    BY <1>2 DEF memset
  <1>4. \A a \in Words : g.mem[a] = IF to <= a /\ a < to + n THEN v ELSE h.mem[a]
    <2>1. \A a \in Words : a \in to .. to + n - 1 <=> to <= a /\ a < to + n
      BY WordsAre
    <2> QED
      BY <1>3, <2>1
  <1>5. g \in Heaps /\ g.brk = h.brk /\ g.free = h.free
    BY <1>2, <1>3 DEF Heaps
  <1> HIDE DEF g
  <1>6. Except(h, g, Payload(m, p))
    BY <1>1, <1>4, WordsAre DEF Except, Payload
  <1>7. Sound(g, m) /\ Keeps(h, g, m, TakenIn(m) \ {p})
    BY <1>5, <1>6, WriteWorks
  <1> QED
    BY <1>4, <1>7 DEF g, Filled

LEMMA CopyWorks ==
  ASSUME NEW h, NEW m, Sound(h, m), NEW p \in TakenIn(m), NEW q \in TakenIn(m), NEW n \in Nat,
         n + 8 <= m[p].size, n <= m[q].size
  PROVE  /\ Sound(memcpy(h, p + 4, q + 4, n), m)
         /\ Keeps(h, memcpy(h, p + 4, q + 4, n), m, TakenIn(m) \ {p})
         /\ Copied(h, memcpy(h, p + 4, q + 4, n), p + 4, q + 4, n)
  <1> DEFINE g == memcpy(h, p + 4, q + 4, n)
             Read(a) == a - (p + 4) + (q + 4)
             Over(a) == p + 4 <= a /\ a < p + 4 + n
  <1>1. /\ h \in Heaps /\ p \in DOMAIN m /\ p \in Nat /\ m[p].size \in Nat /\ p % 8 = 4
        /\ q \in DOMAIN m /\ q \in Nat /\ m[q].size \in Nat /\ q % 8 = 4 /\ m[q].size % 8 = 0
        /\ q + m[q].size \in Words
    BY BlockInWords DEF Sound, Loose, TakenIn, Spaced
  <1>2. /\ h.mem \in [Words -> Int] /\ h.brk \in Nat /\ h.free \in Nat
        /\ h = [mem |-> h.mem, brk |-> h.brk, free |-> h.free]
    BY <1>1 DEF Heaps
  <1>3. ASSUME NEW a \in Words, Over(a)
        PROVE  Read(a) \in Words
    <2> DEFINE s == m[q].size
    <2>1. a \in Nat /\ a % 4 = 0 /\ q + s \in Nat /\ q + s < MaxHeap
      BY <1>1, WordsAre
    <2>2. s \in Nat /\ s % 8 = 0 /\ n <= s
      BY <1>1
    <2> HIDE DEF s
    <2>3. Read(a) \in Nat /\ Read(a) % 4 = 0
      BY <1>1, <1>3, <2>1
    <2>4. Read(a) < q + 4 + s
      BY <1>1, <1>3, <2>1, <2>2
    <2>5. Read(a) <= q + s
      <3>1. (q + s) % 4 = 0
        BY <1>1, <2>2
      <3> DEFINE e == q + s
                 d == Read(a)
      <3>2. e \in Nat /\ e % 4 = 0 /\ d \in Nat /\ d % 4 = 0 /\ d < e + 4
        BY <1>1, <2>1, <2>2, <2>3, <2>4, <3>1
      <3> HIDE DEF e, d
      <3>3. d <= e
        BY <3>2
      <3> QED
        BY <3>3 DEF e, d
    <2>6. Read(a) < MaxHeap
      BY <1>1, <2>1, <2>2, <2>3, <2>5, HeapAssumption
    <2> QED
      BY <2>3, <2>6, WordsAre
  <1>4. \A a \in Words : a \in p + 4 .. p + 4 + n - 1 <=> Over(a)
    BY <1>1, WordsAre
  <1>5. g = [mem |-> [a \in Words |-> IF a \in p + 4 .. p + 4 + n - 1 THEN h.mem[Read(a)] ELSE h.mem[a]],
             brk |-> h.brk, free |-> h.free]
    BY <1>2 DEF memcpy
  <1>6. \A a \in Words : g.mem[a] = IF Over(a) THEN h.mem[Read(a)] ELSE h.mem[a]
    <2> HIDE DEF Read, Over
    <2> QED
      BY <1>4, <1>5
  <1>7. g \in Heaps /\ g.brk = h.brk /\ g.free = h.free
    <2> HIDE DEF Read, Over
    <2> QED
      BY <1>2, <1>3, <1>4, <1>5 DEF Heaps
  <1> HIDE DEF g
  <1>8. Except(h, g, Payload(m, p))
    BY <1>1, <1>6, WordsAre DEF Except, Payload
  <1>9. Sound(g, m) /\ Keeps(h, g, m, TakenIn(m) \ {p})
    BY <1>7, <1>8, WriteWorks
  <1> QED
    BY <1>3, <1>6, <1>9 DEF g, Copied

-----------------------------------------------------------------------------
(* The heap in the terms of the properties *)

LEMMA SoundIsConsistent ==
  ASSUME NEW m, Sound(heap, m)
  PROVE  HeapIsConsistent
  <1> DEFINE F == FreeIn(m)
  <1>1. /\ Loose(heap, m, F) /\ F \subseteq DOMAIN m /\ Apart(m)
        /\ heap \in Heaps /\ Spaced(m, heap.brk) /\ Tagged(heap, m)
    BY DEF Sound, Loose, FreeIn
  <1>2. Blocks(heap) = DOMAIN m /\ FreeList(heap) = F
    BY <1>1, BlocksAreMet, FreeWalkEnds
  <1>3. ASSUME NEW p \in DOMAIN m
        PROVE  /\ (p + 4) % 8 = 0 /\ GET_FOOTER(heap, p) = heap.mem[p]
               /\ GET_AFTER(heap, p) <= heap.brk /\ GET_SIZE(heap, p) >= 24
               /\ GET_ALLOC(heap, p) = m[p].alloc
               /\ GET_ALLOC(heap, p) = 0 => ~MergesRight(heap, p)
    <2>1. /\ GET_SIZE(heap, p) = m[p].size /\ GET_ALLOC(heap, p) = m[p].alloc
          /\ GET_FOOTER(heap, p) = heap.mem[p] /\ GET_AFTER(heap, p) = p + m[p].size
      BY <1>1, TagsAreRead
    <2>2. p \in Nat /\ p % 8 = 4 /\ m[p].size >= 24 /\ p + m[p].size <= heap.brk
      BY <1>1 DEF Spaced
    <2>3. m[p].alloc = 0 => ~MergesRight(heap, p)
      BY <1>1, RightNeighbour DEF Apart, FreeIn
    <2> QED
      BY <2>1, <2>2, <2>3
  <1>4. BlocksTileTheHeap
    BY <1>2, <1>3 DEF BlocksTileTheHeap, HeapIsTagged
  <1>5. F = {p \in Blocks(heap) : GET_ALLOC(heap, p) = 0}
    BY <1>2, <1>3 DEF FreeIn
  <1>6. ListIsLinked(heap) /\ (heap.free # NULL => get_prev(heap, heap.free) = NULL)
    <2>0. PICK top \in Nat : \E order \in [F -> 0 .. top] : Ordered(heap, F, top, order)
      BY <1>1 DEF Loose, Chained
    <2>1. PICK order \in [F -> 0 .. top] : Ordered(heap, F, top, order)
      BY <2>0
    <2>2. /\ \A p \in F : get_prev(heap, p) # NULL => get_next(heap, get_prev(heap, p)) = p
          /\ \A p \in F : get_prev(heap, p) = NULL <=> p = heap.free
          /\ heap.free \in F \cup {NULL}
      BY <2>1 DEF Ordered
    <2>3. \A p \in F : GET_ALLOC(heap, p) = 0
      BY <1>5
    <2> QED
      BY <1>2, <2>2, <2>3 DEF ListIsLinked
  <1> QED
    BY <1>2, <1>4, <1>5, <1>6 DEF HeapIsConsistent, FreeListIsExact

-----------------------------------------------------------------------------
(* The data of the requests *)

Used(B) == {i \in Ids : B[i] # None}
Others(B, i) == {B[j].ptr - 4 : j \in Used(B) \ {i}}
Requests == [ptr : Nat, size : Nat, fill : Int]

\* The block of m at b.ptr holds what b is about.
Holds(h, m, b) ==
    /\ b.ptr - 4 \in TakenIn(m)
    /\ b.size + 8 <= m[b.ptr - 4].size
    /\ \A a \in Words : b.ptr <= a /\ a < b.ptr + b.size => h.mem[a] = b.fill

\* Each of the driver's blocks is one of the taken blocks of m, and no block is left over.
Stored(h, m, B) ==
    /\ B \in [Ids -> Requests]
    /\ \A i \in Used(B) : Holds(h, m, B[i])
    /\ \A i, j \in Used(B) : B[i].ptr = B[j].ptr => i = j
    /\ TakenIn(m) = {B[i].ptr - 4 : i \in Used(B)}

\* The inductive invariant: there is a map that describes heap and data.
HeapInv == \E m : Sound(heap, m) /\ Stored(heap, m, block)

LEMMA StoredIsSafe ==
  ASSUME NEW m, Sound(heap, m), Stored(heap, m, block)
  PROVE  DataIsSafe
  <1>1. /\ heap \in Heaps /\ heap.brk \in Nat /\ Spaced(m, heap.brk) /\ Tagged(heap, m)
        /\ Loose(heap, m, FreeIn(m))
    BY DEF Sound, Loose, Heaps
  <1>2. Blocks(heap) = DOMAIN m
    BY <1>1, BlocksAreMet
  <1>3. \A p \in DOMAIN m : GET_SIZE(heap, p) = m[p].size /\ GET_ALLOC(heap, p) = m[p].alloc
    BY <1>1, TagsAreRead
  <1>4. \A p \in DOMAIN m : m[p].size \in Nat /\ m[p].alloc \in {0, 1} /\ p \in Nat
    BY <1>1, BlockInWords
  <1>5. {p \in Blocks(heap) : GET_ALLOC(heap, p) # 0} = {block[i].ptr - 4 : i \in Used(block)}
    <2>1. {p \in Blocks(heap) : GET_ALLOC(heap, p) # 0} = TakenIn(m)
      BY <1>2, <1>3, <1>4 DEF TakenIn
    <2> QED
      BY <2>1 DEF Stored
  <1>6. ASSUME NEW i \in Used(block)
        PROVE  /\ block[i].ptr \in Nat /\ block[i].size \in Nat
               /\ block[i].ptr - 4 \in DOMAIN m
               /\ block[i].size + 8 <= m[block[i].ptr - 4].size
               /\ \A a \in Words : block[i].ptr <= a /\ a < block[i].ptr + block[i].size =>
                                     heap.mem[a] = block[i].fill
    BY <1>6 DEF Stored, Holds, Requests, Used, TakenIn
  <1>7. ASSUME NEW i \in Used(block)
        PROVE  /\ add_range(i) /\ check_index(i)
               /\ block[i].size + 8 <= GET_SIZE(heap, block[i].ptr - 4)
    <2> DEFINE b == block[i]
               p == block[i].ptr - 4
    <2>1. /\ b.ptr \in Nat /\ b.size \in Nat /\ p \in DOMAIN m /\ p \in Nat /\ p + 4 = b.ptr
          /\ b.size + 8 <= m[p].size /\ m[p].size \in Nat
      BY <1>4, <1>6, <1>7
    <2>2. p % 8 = 4 /\ p + m[p].size <= heap.brk
      BY <1>1, <2>1 DEF Spaced
    <2>3. b.ptr % 8 = 0 /\ b.ptr >= 0 /\ b.ptr + b.size - 1 <= mem_heap_hi(heap)
      <3> HIDE DEF b, p
      <3> QED
        BY <1>1, <2>1, <2>2 DEF mem_heap_hi
    <2>4. ASSUME NEW j \in Ids \ {i}, block[j] # None
          PROVE  b.ptr + b.size <= block[j].ptr \/ block[j].ptr + block[j].size <= b.ptr
      <3> DEFINE c == block[j]
                 q == block[j].ptr - 4
      <3>1. j \in Used(block)
        BY <2>4 DEF Used
      <3>2. /\ c.ptr \in Nat /\ c.size \in Nat /\ q \in DOMAIN m /\ q \in Nat /\ q + 4 = c.ptr
            /\ c.size + 8 <= m[q].size /\ m[q].size \in Nat
        BY <1>4, <1>6, <3>1
      <3>3. b.ptr # c.ptr
        BY <1>7, <3>1 DEF Stored
      <3> HIDE DEF b, p, c, q
      <3>4. p # q
        BY <2>1, <3>2, <3>3
      <3>5. p + m[p].size <= q \/ q + m[q].size <= p
        BY <1>1, <2>1, <3>2, <3>4 DEF Spaced
      <3> QED
        BY <2>1, <3>2, <3>5 DEF c
    <2>5. add_range(i)
      BY <2>3, <2>4 DEF add_range
    <2>6. check_index(i)
      <3>1. \A a \in Words : a \in b.ptr .. b.ptr + b.size - 1 => b.ptr <= a /\ a < b.ptr + b.size
        BY <2>1, WordsAre
      <3> QED
        BY <1>6, <1>7, <3>1 DEF check_index
    <2>7. b.size + 8 <= GET_SIZE(heap, p)
      BY <1>3, <2>1
    <2> QED
      BY <2>5, <2>6, <2>7
  <1> QED
    BY <1>5, <1>7 DEF DataIsSafe, Used

LEMMA OthersAre ==
  ASSUME NEW h, NEW m, NEW B, Stored(h, m, B), NEW i \in Ids
  PROVE  /\ B[i] = None => Others(B, i) = TakenIn(m)
         /\ B[i] # None => /\ Others(B, i) = TakenIn(m) \ {B[i].ptr - 4}
                           /\ B[i].ptr - 4 \in TakenIn(m) /\ B[i].ptr \in Nat
  <1>1. \A j \in Ids : B[j].ptr \in Nat
    BY DEF Stored, Requests
  <1>2. CASE B[i] = None
    <2>1. Used(B) \ {i} = Used(B)
      BY <1>2 DEF Used
    <2> QED
      BY <1>2, <2>1 DEF Stored, Others
  <1>3. CASE B[i] # None
    <2>1. i \in Used(B)
      BY <1>3 DEF Used
    <2>2. \A j \in Used(B) \ {i} : B[j].ptr - 4 # B[i].ptr - 4
      BY <1>1, <2>1 DEF Stored, Used
    <2>3. TakenIn(m) = {B[j].ptr - 4 : j \in Used(B)}
      BY DEF Stored
    <2>4. Others(B, i) = TakenIn(m) \ {B[i].ptr - 4}
      BY <2>1, <2>2, <2>3 DEF Others
    <2> QED
      BY <1>1, <1>3, <2>1, <2>3, <2>4
  <1> QED
    BY <1>2, <1>3

\* The words of a payload are words of its block.
LEMMA KeptIsHeld ==
  ASSUME NEW h, NEW m, NEW g, NEW r, NEW b \in Requests, Holds(h, m, b), Sound(h, m),
         b.ptr - 4 \in TakenIn(r), r[b.ptr - 4].size \in Nat,
         r[b.ptr - 4].size >= m[b.ptr - 4].size,
         \A w \in Payload(m, b.ptr - 4) : g.mem[w] = h.mem[w]
  PROVE  Holds(g, r, b)
  <1> DEFINE p == b.ptr - 4
  <1>1. p \in DOMAIN m /\ p \in Nat /\ m[p].size \in Nat /\ b.ptr \in Nat /\ b.size \in Nat
        /\ b.size + 8 <= m[p].size
    BY BlockInWords DEF Holds, TakenIn, Sound, Loose, Requests
  <1>2. ASSUME NEW a \in Words, b.ptr <= a, a < b.ptr + b.size
        PROVE  g.mem[a] = b.fill
    <2>1. a \in Payload(m, p)
      BY <1>1, <1>2, WordsAre DEF Payload
    <2> QED
      BY <1>2, <2>1 DEF Holds
  <1> QED
    BY <1>1, <1>2 DEF Holds

LEMMA KeptInPayload ==
  ASSUME NEW h, NEW g, NEW m, NEW A, Keeps(h, g, m, A), NEW t \in A, t \in Nat, m[t].size \in Nat
  PROVE  \A w \in Payload(m, t) : g.mem[w] = h.mem[w]
  <1>1. Payload(m, t) \subseteq Own(m, t)
    BY WordsAre DEF Payload, Own
  <1> QED
    BY <1>1 DEF Keeps

\* Block i becomes b, while the blocks of the others stay as they are.
LEMMA StoredAs ==
  ASSUME NEW h, NEW m, NEW B, Sound(h, m), Stored(h, m, B), NEW i \in Ids,
         NEW g, NEW r, Sound(g, r), NEW b \in Requests,
         Keeps(h, g, m, Others(B, i)), \A t \in Others(B, i) : r[t] = m[t],
         TakenIn(r) = Others(B, i) \cup (IF b = None THEN {} ELSE {b.ptr - 4}),
         b # None => b.ptr - 4 \notin Others(B, i) /\ Holds(g, r, b)
  PROVE  Stored(g, r, [B EXCEPT ![i] = b])
  <1> DEFINE C == [B EXCEPT ![i] = b]
             O == Others(B, i)
  <1>1. B \in [Ids -> Requests] /\ \A j \in Ids : B[j].ptr \in Nat
    BY DEF Stored, Requests
  <1>2. C \in [Ids -> Requests] /\ C[i] = b /\ \A j \in Ids \ {i} : C[j] = B[j]
    BY <1>1
  <1> HIDE DEF C
  <1>3. Used(C) = (Used(B) \ {i}) \cup (IF b = None THEN {} ELSE {i})
    BY <1>2 DEF Used
  <1>4. ASSUME NEW j \in Used(B) \ {i}
        PROVE  Holds(g, r, B[j]) /\ B[j].ptr - 4 \in O /\ j \in Ids
    <2> DEFINE c == B[j]
               t == c.ptr - 4
    <2>1. Holds(h, m, c) /\ c \in Requests /\ t \in O /\ t \in TakenIn(r) /\ t \in TakenIn(m)
      BY <1>1 DEF Stored, Others, Used, Holds
    <2>2. t \in Nat /\ m[t].size \in Nat
      BY <2>1, BlockInWords DEF TakenIn, Sound, Loose
    <2> HIDE DEF O, c, t
    <2>3. r[t] = m[t] /\ \A w \in Payload(m, t) : g.mem[w] = h.mem[w]
      BY <2>1, <2>2, KeptInPayload DEF O
    <2>4. Holds(g, r, c)
      BY <2>1, <2>2, <2>3, KeptIsHeld DEF t
    <2> QED
      BY <2>1, <2>4 DEF c, t, Used
  <1>5. \A j \in Used(C) : Holds(g, r, C[j])
    BY <1>2, <1>3, <1>4
  <1>6. ASSUME NEW j \in Used(C), NEW k \in Used(C), C[j].ptr = C[k].ptr
        PROVE  j = k
    <2>1. CASE j # i /\ k # i
      BY <1>2, <1>3, <1>6, <2>1 DEF Stored, Used
    <2>2. CASE j = i /\ k # i
      BY <1>2, <1>3, <1>4, <1>6, <2>2
    <2>3. CASE j # i /\ k = i
      BY <1>2, <1>3, <1>4, <1>6, <2>3
    <2> QED
      BY <2>1, <2>2, <2>3
  <1>7. TakenIn(r) = {C[j].ptr - 4 : j \in Used(C)}
    <2>1. O = {C[j].ptr - 4 : j \in Used(B) \ {i}}
      BY <1>2 DEF Others, Used
    <2>2. CASE b = None
      BY <1>3, <2>1, <2>2
    <2>3. CASE b # None
      <3>1. Used(C) = (Used(B) \ {i}) \cup {i}
        BY <1>3, <2>3
      <3>2. TakenIn(r) = O \cup {C[i].ptr - 4}
        BY <1>2, <2>3
      <3> HIDE DEF O
      <3> QED
        BY <2>1, <3>1, <3>2
    <2> QED
      BY <2>2, <2>3
  <1> QED
    BY <1>2, <1>5, <1>6, <1>7 DEF Stored, C

\* What Take does with a block at ptr leaves a heap described by r.
Takes(k, r, B, i, ptr, size, kept, v) ==
    LET g == memset(k, ptr + kept, v, size - kept)
    IN  Sound(g, r) /\ Stored(g, r, [B EXCEPT ![i] = Block(ptr, size, v)])

\* A block is handed out and filled.
LEMMA FreshWorks ==
  ASSUME NEW h, NEW m, NEW B, Sound(h, m), Stored(h, m, B), NEW i \in Ids, B[i] = None,
         NEW size \in Nat, NEW v \in Int, malloc(h, size).ptr # NULL,
         NEW k, NEW kept,
         \/ k = malloc(h, size).heap /\ kept = 0
         \/ k = memset(malloc(h, size).heap, malloc(h, size).ptr, v, size) /\ kept = size
  PROVE  \E r : Takes(k, r, B, i, malloc(h, size).ptr, size, kept, v)
  <1> DEFINE new == malloc(h, size)
             asize == ALIGN(size + MIN_SIZE)
             A == TakenIn(m)
             b == Block(new.ptr, size, v)
             g == memset(k, new.ptr + kept, v, size - kept)
  <1>1. PICK p \in Nat : /\ new.ptr = p + 4
                         /\ \E r : HandsOut(h, m, new.heap, r, p, asize)
    BY MallocWorks
  <1>2. PICK r : HandsOut(h, m, new.heap, r, p, asize)
    BY <1>1
  <1>3. asize \in Nat /\ asize >= size + 16
    BY AlignIsEnough DEF MIN_SIZE
  <1> HIDE DEF asize, new
  <1>4. /\ Sound(new.heap, r) /\ p \in TakenIn(r) /\ TakenIn(r) = A \cup {p} /\ p \notin A
        /\ TakenIn(r) \ {p} = A
        /\ r[p].size \in Nat /\ size + 16 <= r[p].size
        /\ \A t \in A : r[t] = m[t]
        /\ Keeps(h, new.heap, m, A)
    <2>1. /\ Sound(new.heap, r) /\ p \in TakenIn(r) /\ TakenIn(r) = A \cup {p} /\ p \notin A
          /\ TakenIn(r) \ {p} = A /\ r[p].size >= asize
          /\ \A t \in A : r[t] = m[t]
          /\ Keeps(h, new.heap, m, A)
      BY <1>2 DEF HandsOut
    <2>2. r[p].size \in Nat
      BY <2>1, BlockInWords DEF Sound, Loose, TakenIn
    <2> QED
      BY <1>3, <2>1, <2>2
  <1>5. /\ Sound(k, r) /\ Keeps(new.heap, k, r, A)
        /\ \A a \in Words : kept # 0 /\ p + 4 <= a /\ a < p + 4 + size => k.mem[a] = v
    <2>1. CASE k = new.heap /\ kept = 0
      BY <1>4, <2>1 DEF Keeps, new
    <2>2. CASE k = memset(new.heap, new.ptr, v, size) /\ kept = size
      <3>1. /\ Sound(memset(new.heap, p + 4, v, size), r)
            /\ Keeps(new.heap, memset(new.heap, p + 4, v, size), r, TakenIn(r) \ {p})
            /\ Filled(new.heap, memset(new.heap, p + 4, v, size), p + 4, size, v)
        <4> DEFINE to == p + 4
        <4>1. to \in Nat /\ p + 4 <= to /\ to + size <= p + r[p].size - 4
          BY <1>4
        <4>2. Sound(new.heap, r) /\ p \in TakenIn(r)
          BY <1>4
        <4> HIDE DEF to
        <4>3. /\ Sound(memset(new.heap, to, v, size), r)
              /\ Keeps(new.heap, memset(new.heap, to, v, size), r, TakenIn(r) \ {p})
              /\ Filled(new.heap, memset(new.heap, to, v, size), to, size, v)
          BY <4>1, <4>2, FillWorks
        <4> QED
          BY <4>3 DEF to
      <3> QED
        BY <1>1, <1>4, <2>2, <3>1 DEF Filled
    <2> QED
      BY <2>1, <2>2 DEF new
  <1>6. /\ Sound(g, r) /\ Keeps(k, g, r, A) /\ kept \in {0, size}
        /\ \A a \in Words : g.mem[a] = IF p + 4 + kept <= a /\ a < p + 4 + size THEN v
                                       ELSE k.mem[a]
    <2> DEFINE to == p + 4 + kept
               n == size - kept
    <2>1. /\ to \in Nat /\ n \in Nat /\ p + 4 <= to /\ to + n <= p + r[p].size - 4
          /\ to + n = p + 4 + size /\ g = memset(k, to, v, n)
      BY <1>1, <1>4
    <2> HIDE DEF to, n
    <2>2. /\ Sound(memset(k, to, v, n), r) /\ Keeps(k, memset(k, to, v, n), r, TakenIn(r) \ {p})
          /\ Filled(k, memset(k, to, v, n), to, n, v)
      <3>1. /\ Sound(k, r) /\ p \in TakenIn(r)
            /\ to \in Nat /\ n \in Nat /\ p + 4 <= to /\ to + n <= p + r[p].size - 4
        BY <1>4, <1>5, <2>1
      <3> QED
        BY <3>1, FillWorks
    <2>3. /\ Sound(g, r) /\ Keeps(k, g, r, A)
          /\ Filled(k, g, to, n, v)
      BY <1>4, <2>1, <2>2
    <2> HIDE DEF g
    <2> QED
      BY <2>1, <2>3 DEF to, Filled
  <1> HIDE DEF g
  <1>7. b.ptr = p + 4 /\ b.ptr - 4 = p /\ b.size = size /\ b.fill = v /\ b \in Requests /\ b # None
    BY <1>1 DEF Block, Requests, None, NULL
  <1>8. Holds(g, r, b)
    <2>1. ASSUME NEW a \in Words, p + 4 <= a, a < p + 4 + size
          PROVE  g.mem[a] = v
      BY <1>5, <1>6, <2>1, WordsAre
    <2> QED
      BY <1>4, <1>7, <2>1 DEF Holds
  <1>9. Others(B, i) = A
    BY OthersAre
  <1>10. Keeps(h, g, m, A)
    <2>1. Keeps(h, new.heap, m, A) /\ Keeps(new.heap, k, r, A) /\ Keeps(k, g, r, A)
          /\ \A t \in A : r[t] = m[t]
      BY <1>4, <1>5, <1>6
    <2> HIDE DEF A
    <2>2. Keeps(h, k, m, A)
      BY <2>1, KeepsOn
    <2> QED
      BY <2>1, <2>2, KeepsOn
  <1> HIDE DEF b
  <1>11. Stored(g, r, [B EXCEPT ![i] = b])
    BY <1>4, <1>6, <1>7, <1>8, <1>9, <1>10, StoredAs
  <1> QED
    BY <1>6, <1>11 DEF g, b, new, Takes

\* A block is given back.
LEMMA GoneWorks ==
  ASSUME NEW h, NEW m, NEW B, Sound(h, m), Stored(h, m, B), NEW i \in Ids
  PROVE  \E r : /\ Sound(free(h, B[i].ptr), r)
                /\ Stored(free(h, B[i].ptr), r, [B EXCEPT ![i] = None])
  <1>1. None \in Requests
    BY DEF None, Requests, NULL
  <1>2. CASE B[i] = None
    <2>1. free(h, B[i].ptr) = h
      BY <1>2 DEF free, None
    <2>2. [B EXCEPT ![i] = None] = B
      BY <1>2 DEF Stored
    <2> QED
      BY <2>1, <2>2
  <1>3. CASE B[i] # None
    <2> DEFINE p == B[i].ptr - 4
               g == free(h, B[i].ptr)
    <2>1. p \in TakenIn(m) /\ B[i].ptr = p + 4 /\ Others(B, i) = TakenIn(m) \ {p}
      BY <1>3, OthersAre
    <2>2. g = free(h, p + 4)
      BY <2>1
    <2> HIDE DEF p, g
    <2>3. PICK r : /\ Sound(g, r)
                   /\ TakenIn(r) = TakenIn(m) \ {p}
                   /\ \A t \in TakenIn(r) : r[t] = m[t]
                   /\ Keeps(h, g, m, TakenIn(r))
      BY <2>1, <2>2, FreeWorks
    <2>4. Stored(g, r, [B EXCEPT ![i] = None])
      <3> DEFINE O == Others(B, i)
      <3>1. /\ Sound(g, r) /\ TakenIn(r) = O \cup (IF None = None THEN {} ELSE {None.ptr - 4})
            /\ \A t \in O : r[t] = m[t]
            /\ Keeps(h, g, m, O)
        BY <2>1, <2>3
      <3> QED
        BY <1>1, <3>1, StoredAs
    <2> QED
      BY <2>3, <2>4 DEF g
  <1> QED
    BY <1>2, <1>3

\* A block is made longer or moved, and what is new in it filled.
LEMMA MovedWorks ==
  ASSUME NEW h, NEW m, NEW B, Sound(h, m), Stored(h, m, B), NEW i \in Ids, B[i] # None,
         NEW size \in Nat, size # 0
  PROVE  LET out == realloc(h, B[i].ptr, size)
             kept == IF size < B[i].size THEN size ELSE B[i].size
         IN  /\ out.ptr = NULL => \E r : Sound(out.heap, r) /\ Stored(out.heap, r, B)
             /\ out.ptr # NULL => \E r : Takes(out.heap, r, B, i, out.ptr, size, kept, B[i].fill)
  <1> DEFINE old == B[i]
             p == old.ptr - 4
             v == old.fill
             O == Others(B, i)
             asize == ALIGN(size + MIN_SIZE)
             kept == IF size < old.size THEN size ELSE old.size
             wide == expand_right(h, p, asize)
             new == malloc(wide, size)
             out == realloc(h, old.ptr, size)
             g == memset(out.heap, out.ptr + kept, v, size - kept)
             b == Block(out.ptr, size, v)
  <1>1. /\ p \in TakenIn(m) /\ old.ptr \in Nat /\ O = TakenIn(m) \ {p} /\ p \notin O
        /\ TakenIn(m) = O \cup {p}
    BY OthersAre
  <1>2. old \in Requests /\ Holds(h, m, old) /\ v \in Int /\ old.size \in Nat
    BY DEF Stored, Used, Requests
  <1>3. asize \in Nat /\ asize >= size + 16
    BY AlignIsEnough DEF MIN_SIZE
  <1>4. p \in DOMAIN m /\ p \in Nat /\ m[p].size \in Nat /\ old.size + 8 <= m[p].size
        /\ old.ptr = p + 4
    BY <1>1, <1>2, BlockInWords DEF TakenIn, Sound, Loose, Holds
  <1>5. kept \in Nat /\ kept <= size /\ kept <= old.size /\ size - kept \in Nat
    BY <1>2
  <1> HIDE DEF asize, kept, O
  <1>6. PICK r1 : /\ Sound(wide, r1)
                  /\ TakenIn(r1) = TakenIn(m) /\ r1[p].size >= m[p].size
                  /\ \A t \in TakenIn(m) \ {p} : r1[t] = m[t]
                  /\ Keeps(h, wide, m, TakenIn(m) \ {p})
                  /\ \A w \in Payload(m, p) : wide.mem[w] = h.mem[w]
    <2>1. \E r : Widens(h, m, wide, r, p)
      BY <1>1, <1>3, ExpandWorks
    <2> HIDE DEF wide, p
    <2> QED
      BY <2>1 DEF Widens
  <1> HIDE DEF wide, new
  <1>7. /\ r1[p].size \in Nat /\ p \in DOMAIN r1 /\ GET_SIZE(wide, p) = r1[p].size
        /\ wide.mem[p] - 1 = r1[p].size
    <2>1. p \in DOMAIN r1 /\ Loose(wide, r1, FreeIn(r1)) /\ r1[p].alloc = 1
      BY <1>1, <1>6 DEF Sound, TakenIn
    <2>2. r1[p].size \in Nat /\ GET_SIZE(wide, p) = r1[p].size
      BY <2>1, BlockInWords, TagsAreRead DEF Loose
    <2>3. wide.mem[p] = r1[p].size + 1
      BY <2>1 DEF Loose, Tagged
    <2> QED
      BY <2>1, <2>2, <2>3
  <1>8. Holds(wide, r1, old)
    <2>1. /\ old.ptr - 4 \in TakenIn(r1) /\ r1[old.ptr - 4].size \in Nat
          /\ r1[old.ptr - 4].size >= m[old.ptr - 4].size
          /\ \A w \in Payload(m, old.ptr - 4) : wide.mem[w] = h.mem[w]
      BY <1>1, <1>6, <1>7
    <2> HIDE DEF old, p
    <2> QED
      BY <1>2, <2>1, KeptIsHeld
  <1>9. Keeps(h, wide, m, O) /\ \A t \in O : r1[t] = m[t]
    BY <1>1, <1>6
  <1>10. CASE GET_SIZE(wide, p) >= asize
    <2>1. out.heap = wide /\ out.ptr = old.ptr
      BY <1>4, <1>10 DEF realloc, Result, wide, asize, NULL
    <2> DEFINE to == p + 4 + kept
               n == size - kept
    <2>2. /\ to \in Nat /\ n \in Nat /\ p + 4 <= to /\ to + n <= p + r1[p].size - 4
          /\ to + n = p + 4 + size /\ out.ptr + kept = to /\ g = memset(wide, to, v, n)
      BY <1>3, <1>4, <1>5, <1>7, <1>10, <2>1
    <2> HIDE DEF to, n
    <2>3. /\ Sound(memset(wide, to, v, n), r1)
          /\ Keeps(wide, memset(wide, to, v, n), r1, TakenIn(r1) \ {p})
          /\ Filled(wide, memset(wide, to, v, n), to, n, v)
      BY <1>1, <1>2, <1>6, <2>2, FillWorks
    <2>4. Sound(g, r1) /\ Keeps(wide, g, r1, O) /\ Filled(wide, g, to, n, v)
      BY <1>1, <1>6, <2>2, <2>3
    <2> HIDE DEF g, out
    <2>5. b.ptr = p + 4 /\ b.ptr - 4 = p /\ b.size = size /\ b.fill = v /\ b \in Requests /\ b # None
      BY <1>2, <1>4, <2>1 DEF Block, Requests, None, NULL
    <2>6. Holds(g, r1, b)
      <3>1. ASSUME NEW a \in Words, p + 4 <= a, a < p + 4 + size
            PROVE  g.mem[a] = v
        <4>1. CASE to <= a
          BY <2>2, <2>4, <3>1, <4>1 DEF Filled
        <4>2. CASE ~(to <= a)
          <5>1. a < p + 4 + kept
            BY <1>4, <1>5, <4>2, WordsAre DEF to
          <5>2. old.ptr <= a /\ a < old.ptr + old.size
            BY <1>2, <1>4, <1>5, <3>1, <5>1, WordsAre
          <5>3. wide.mem[a] = v
            BY <1>8, <5>2 DEF Holds
          <5> QED
            BY <2>4, <4>2, <5>3 DEF Filled
        <4> QED
          BY <4>1, <4>2
      <3>2. size + 8 <= r1[p].size
        BY <1>3, <1>7, <1>10
      <3> QED
        BY <1>1, <1>6, <2>5, <3>1, <3>2 DEF Holds
    <2>7. Keeps(h, g, m, O)
      BY <1>9, <2>4, KeepsOn
    <2> HIDE DEF b
    <2>8. Stored(g, r1, [B EXCEPT ![i] = b])
      <3>1. TakenIn(r1) = O \cup (IF b = None THEN {} ELSE {b.ptr - 4}) /\ b.ptr - 4 \notin O
        BY <1>1, <1>6, <2>5
      <3> HIDE DEF old, v, p
      <3> QED
        BY <1>9, <2>4, <2>5, <2>6, <2>7, <3>1, StoredAs DEF O
    <2> QED
      BY <1>4, <2>1, <2>4, <2>8 DEF g, b, out, kept, NULL, Takes
  <1>11. CASE ~(GET_SIZE(wide, p) >= asize) /\ new.ptr = NULL
    <2>1. out.heap = wide /\ out.ptr = NULL
      BY <1>4, <1>11 DEF realloc, Result, wide, new, asize, NULL
    <2>2. old # None /\ [B EXCEPT ![i] = old] = B
      BY DEF Stored
    <2>3. Stored(wide, r1, [B EXCEPT ![i] = old])
      <3>1. /\ TakenIn(r1) = O \cup (IF old = None THEN {} ELSE {old.ptr - 4})
            /\ old.ptr - 4 \notin O
        BY <1>1, <1>6
      <3> HIDE DEF old, p
      <3> QED
        BY <1>2, <1>6, <1>8, <1>9, <2>2, <3>1, StoredAs DEF O
    <2> QED
      BY <1>6, <2>1, <2>2, <2>3
  <1>12. CASE ~(GET_SIZE(wide, p) >= asize) /\ new.ptr # NULL
    <2> DEFINE n == IF size < wide.mem[p] - 1 THEN size ELSE wide.mem[p] - 1
               copied == memcpy(new.heap, new.ptr, old.ptr, n)
               freed == free(copied, old.ptr)
    <2>1. PICK q \in Nat : /\ new.ptr = q + 4
                           /\ \E r : HandsOut(wide, r1, new.heap, r, q, asize)
      BY <1>6, <1>12, MallocWorks DEF new, asize
    <2>2. PICK r2 : HandsOut(wide, r1, new.heap, r2, q, asize)
      BY <2>1
    <2>3. /\ Sound(new.heap, r2) /\ q \notin TakenIn(r1) /\ TakenIn(r2) = TakenIn(r1) \cup {q}
          /\ r2[q].size >= asize /\ \A t \in TakenIn(r1) : r2[t] = r1[t]
          /\ Keeps(wide, new.heap, r1, TakenIn(r1))
      BY <2>2 DEF HandsOut
    <2>4. out.heap = freed /\ out.ptr = q + 4
      <3>1. old.ptr # NULL
        BY <1>4 DEF NULL
      <3>2. out = Result(freed, new.ptr)
        BY <1>12, <3>1 DEF realloc, wide, new, asize
      <3> QED
        BY <2>1, <3>2 DEF Result
    <2>5. /\ n \in Nat /\ n + 8 <= r2[q].size /\ n <= r2[p].size /\ kept <= n
          /\ r2[q].size \in Nat /\ size + 16 <= r2[q].size
          /\ p \in TakenIn(r2) /\ q \in TakenIn(r2) /\ p # q /\ q \notin O
      <3>1. p \in TakenIn(r2) /\ q \in TakenIn(r2) /\ p # q /\ r2[p] = r1[p] /\ q \notin O
        BY <1>1, <1>6, <2>3
      <3>2. r2[q].size \in Nat
        BY <2>3, <3>1, BlockInWords DEF Sound, Loose, TakenIn
      <3> QED
        BY <1>2, <1>3, <1>4, <1>5, <1>6, <1>7, <2>3, <3>1, <3>2
    <2> HIDE DEF n
    <2>6. /\ Sound(copied, r2) /\ Keeps(new.heap, copied, r2, TakenIn(r2) \ {q})
          /\ Copied(new.heap, copied, q + 4, p + 4, n)
      <3>1. copied = memcpy(new.heap, q + 4, p + 4, n)
        BY <1>4, <2>1
      <3> HIDE DEF copied, p
      <3>2. /\ Sound(memcpy(new.heap, q + 4, p + 4, n), r2)
            /\ Keeps(new.heap, memcpy(new.heap, q + 4, p + 4, n), r2, TakenIn(r2) \ {q})
            /\ Copied(new.heap, memcpy(new.heap, q + 4, p + 4, n), q + 4, p + 4, n)
        BY <2>3, <2>5, CopyWorks
      <3> QED
        BY <3>1, <3>2
    <2> HIDE DEF copied
    <2>7. PICK r3 : /\ Sound(freed, r3)
                    /\ TakenIn(r3) = TakenIn(r2) \ {p}
                    /\ \A t \in TakenIn(r3) : r3[t] = r2[t]
                    /\ Keeps(copied, freed, r2, TakenIn(r3))
      <3>1. freed = free(copied, p + 4)
        BY <1>4
      <3> HIDE DEF freed, p
      <3> QED
        BY <2>5, <2>6, <3>1, FreeWorks
    <2>8. TakenIn(r3) = O \cup {q} /\ r3[q] = r2[q] /\ q \in TakenIn(r3) /\ TakenIn(r3) \ {q} = O
      BY <1>1, <1>6, <2>3, <2>5, <2>7
    <2> DEFINE to == q + 4 + kept
               d == size - kept
    <2>9. /\ to \in Nat /\ d \in Nat /\ q + 4 <= to /\ to + d <= q + r3[q].size - 4
          /\ to + d = q + 4 + size /\ out.ptr + kept = to /\ g = memset(freed, to, v, d)
      BY <1>5, <2>4, <2>5, <2>8
    <2> HIDE DEF to, d, freed
    <2>10. /\ Sound(memset(freed, to, v, d), r3)
           /\ Keeps(freed, memset(freed, to, v, d), r3, TakenIn(r3) \ {q})
           /\ Filled(freed, memset(freed, to, v, d), to, d, v)
      BY <1>2, <2>7, <2>8, <2>9, FillWorks
    <2>11. Sound(g, r3) /\ Keeps(freed, g, r3, O) /\ Filled(freed, g, to, d, v)
      BY <2>8, <2>9, <2>10
    <2> HIDE DEF g, out
    <2>12. b.ptr = q + 4 /\ b.ptr - 4 = q /\ b.size = size /\ b.fill = v /\ b \in Requests /\ b # None
      BY <1>2, <2>4 DEF Block, Requests, None, NULL
    <2>13. ASSUME NEW a \in Words, q + 4 <= a, a < q + 4 + kept
           PROVE  freed.mem[a] = v
      <3> DEFINE c == a - (q + 4) + (p + 4)
      <3>1. c \in Words /\ copied.mem[a] = new.heap.mem[c]
        <4>1. a < q + 4 + n
          BY <1>5, <2>5, <2>13, WordsAre
        <4> QED
          BY <2>6, <2>13, <4>1 DEF Copied
      <3>2. old.ptr <= c /\ c < old.ptr + old.size
        BY <1>2, <1>4, <1>5, <2>13, WordsAre
      <3>3. wide.mem[c] = v
        BY <1>8, <3>1, <3>2 DEF Holds
      <3>4. c \in Own(r1, p)
        BY <1>2, <1>4, <1>6, <1>7, <3>1, <3>2, WordsAre DEF Own
      <3> HIDE DEF c
      <3>5. new.heap.mem[c] = wide.mem[c]
        BY <1>1, <1>6, <2>3, <3>4 DEF Keeps
      <3>6. a \in Own(r2, q)
        BY <1>5, <2>5, <2>13, WordsAre DEF Own
      <3>7. freed.mem[a] = copied.mem[a]
        BY <2>7, <2>8, <3>6 DEF Keeps
      <3> QED
        BY <3>1, <3>3, <3>5, <3>7
    <2>14. Holds(g, r3, b)
      <3>1. ASSUME NEW a \in Words, q + 4 <= a, a < q + 4 + size
            PROVE  g.mem[a] = v
        <4>1. CASE to <= a
          BY <2>9, <2>11, <3>1, <4>1 DEF Filled
        <4>2. CASE ~(to <= a)
          <5>1. a < q + 4 + kept
            BY <1>5, <4>2, WordsAre DEF to
          <5>2. freed.mem[a] = v
            BY <2>13, <3>1, <5>1
          <5> QED
            BY <2>11, <4>2, <5>2 DEF Filled
        <4> QED
          BY <4>1, <4>2
      <3>2. size + 8 <= r3[q].size
        BY <2>5, <2>8
      <3> QED
        BY <2>8, <2>12, <3>1, <3>2 DEF Holds
    <2>15. Keeps(h, g, m, O) /\ \A t \in O : r3[t] = m[t]
      <3>1. \A t \in O : /\ t \in TakenIn(r1) /\ t \in TakenIn(r3)
                         /\ r1[t] = m[t] /\ r2[t] = m[t] /\ r3[t] = m[t]
        BY <1>1, <1>6, <1>9, <2>3, <2>7, <2>8
      <3>2. Keeps(wide, new.heap, r1, O)
        BY <2>3, <3>1 DEF Keeps
      <3>3. Keeps(new.heap, copied, r2, O)
        <4>1. O \subseteq TakenIn(r2) \ {q}
          BY <2>3, <2>5, <3>1
        <4> QED
          BY <2>6, <4>1 DEF Keeps
      <3>4. Keeps(copied, freed, r2, O)
        BY <2>7, <3>1 DEF Keeps
      <3>5. Keeps(h, new.heap, m, O)
        BY <1>9, <3>1, <3>2, KeepsOn
      <3>6. Keeps(h, copied, m, O)
        BY <3>1, <3>3, <3>5, KeepsOn
      <3>7. Keeps(h, freed, m, O)
        BY <3>1, <3>4, <3>6, KeepsOn
      <3> QED
        BY <2>11, <3>1, <3>7, KeepsOn
    <2> HIDE DEF b
    <2>16. Stored(g, r3, [B EXCEPT ![i] = b])
      <3>1. TakenIn(r3) = O \cup (IF b = None THEN {} ELSE {b.ptr - 4}) /\ b.ptr - 4 \notin O
        BY <2>5, <2>8, <2>12
      <3> HIDE DEF old, v, p
      <3> QED
        BY <2>11, <2>12, <2>14, <2>15, <3>1, StoredAs DEF O
    <2> QED
      BY <2>4, <2>11, <2>16 DEF g, b, out, kept, NULL, Takes
  <1> QED
    BY <1>10, <1>11, <1>12

-----------------------------------------------------------------------------
(* The requests *)

LEMMA HeapStarts == HeapInit => HeapInv
  <1> SUFFICES ASSUME HeapInit
               PROVE  HeapInv
    OBVIOUS
  <1> DEFINE m == [p \in {} |-> Tag(0, 0)]
  <1>1. DOMAIN m = {} /\ FreeIn(m) = {} /\ TakenIn(m) = {}
    BY DEF FreeIn, TakenIn
  <1>2. m \in [DOMAIN m -> Tags]
    BY <1>1
  <1> HIDE DEF m
  <1>3. /\ heap.brk = 4 /\ heap.free = NULL /\ heap.mem = [a \in Words |-> IF a = 0 THEN 1 ELSE 0]
        /\ heap \in Heaps
    BY DEF HeapInit, Heaps, NULL
  <1>4. Spaced(m, heap.brk) /\ Whole(m, heap.brk)
    BY <1>1, <1>2, <1>3, HeapAssumption DEF Spaced, Whole, heap_initp
  <1>5. Tagged(heap, m)
    <2>1. 0 \in Words
      BY HeapAssumption, WordsAre
    <2> QED
      BY <1>1, <1>3, <2>1 DEF Tagged
  <1>6. Chained(heap, {})
    <2> DEFINE order == [p \in {} |-> 0]
    <2>1. order \in [{} -> 0 .. 0]
      OBVIOUS
    <2>2. Ordered(heap, {}, 0, order)
      BY <1>3, <2>1 DEF Ordered
    <2> QED
      BY <2>1, <2>2 DEF Chained
  <1>7. Sound(heap, m)
    BY <1>1, <1>3, <1>4, <1>5, <1>6 DEF Sound, Loose, Within, Apart
  <1>8. Stored(heap, m, block)
    <2>1. \A i \in Ids : block[i] = None
      BY DEF HeapInit
    <2>2. block \in [Ids -> Requests]
      BY DEF HeapInit, None, Requests, NULL
    <2>3. Used(block) = {}
      BY <2>1 DEF Used
    <2> QED
      BY <1>1, <2>2, <2>3 DEF Stored
  <1> QED
    BY <1>7, <1>8 DEF HeapInv

\* A request for a block that the driver has not got.
LEMMA NewStep ==
  ASSUME HeapInv, NEW i \in Ids, block[i] = None, NEW size \in Nat, NEW v \in Int,
         NEW out, NEW kept,
         \/ out = malloc(heap, size) /\ kept = 0
         \/ out = calloc(heap, size) /\ kept = size /\ malloc(heap, size).ptr # NULL /\ v = 0,
         Take(i, out, size, kept, v)
  PROVE  HeapInv'
  <1>1. PICK m : Sound(heap, m) /\ Stored(heap, m, block)
    BY DEF HeapInv
  <1> DEFINE new == malloc(heap, size)
  <1>2. out.ptr = new.ptr
    BY DEF calloc, Result
  <1>3. CASE out.ptr = NULL
    <2>1. out = new
      BY <1>2, <1>3
    <2>2. heap' = heap /\ block' = block
      BY <1>1, <1>3, <2>1, MallocWorks DEF Take
    <2> QED
      BY <1>1, <2>2 DEF HeapInv
  <1>4. CASE out.ptr # NULL
    <2> DEFINE k == out.heap
    <2>1. \/ k = new.heap /\ kept = 0
          \/ k = memset(new.heap, new.ptr, v, size) /\ kept = size
      BY DEF calloc, Result
    <2>2. /\ heap' = memset(k, new.ptr + kept, v, size - kept)
          /\ block' = [block EXCEPT ![i] = Block(new.ptr, size, v)]
      BY <1>2, <1>4 DEF Take
    <2>3. new.ptr # NULL
      BY <1>2, <1>4
    <2> HIDE DEF k
    <2>4. \E r : Takes(k, r, block, i, new.ptr, size, kept, v)
      BY <1>1, <2>1, <2>3, FreshWorks
    <2> QED
      BY <2>2, <2>4 DEF HeapInv, Takes
  <1> QED
    BY <1>3, <1>4

LEMMA ReallocStep ==
  ASSUME HeapInv, NEW i \in Ids, NEW size \in Nat, Realloc(i, size)
  PROVE  HeapInv'
  <1>1. PICK m : Sound(heap, m) /\ Stored(heap, m, block)
    BY DEF HeapInv
  <1> DEFINE b == block[i]
             out == realloc(heap, b.ptr, size)
  <1>2. /\ b \in Requests /\ b.size \in Nat /\ b.ptr \in Nat /\ b.fill \in Int /\ FillOf[i] \in Int
        /\ b = None => b.ptr = NULL /\ b.size = 0
        /\ b # None => b.ptr # NULL
    <2>1. b \in Requests /\ b.size \in Nat /\ b.ptr \in Nat /\ b.fill \in Int /\ FillOf[i] \in Int
      BY <1>1, HeapAssumption DEF Stored, Requests
    <2>2. b # None => b.ptr # NULL
      <3>1. ASSUME b # None
            PROVE  b.ptr - 4 \in TakenIn(m)
        BY <1>1, <3>1, OthersAre
      <3>2. b # None => b.ptr - 4 \in Nat
        BY <1>1, <3>1, BlockInWords DEF Sound, Loose, TakenIn
      <3> QED
        BY <2>1, <3>2 DEF NULL
    <2> QED
      BY <2>1, <2>2 DEF None
  <1>3. CASE size = 0
    <2>1. out.heap = free(heap, b.ptr)
      BY <1>3 DEF realloc, Result
    <2>2. heap' = free(heap, block[i].ptr) /\ block' = [block EXCEPT ![i] = None]
      BY <1>3, <2>1 DEF Realloc
    <2> QED
      BY <1>1, <2>2, GoneWorks DEF HeapInv
  <1>4. CASE size # 0 /\ b = None
    <2>1. out = malloc(heap, size)
      BY <1>2, <1>4 DEF realloc
    <2>2. Take(i, out, size, 0, FillOf[i])
      <3>1. (IF size < b.size THEN size ELSE b.size) = 0
        BY <1>2, <1>4
      <3> HIDE DEF out
      <3> QED
        BY <1>4, <3>1 DEF Realloc, out
    <2> HIDE DEF out
    <2> QED
      BY <1>2, <1>4, <2>1, <2>2, NewStep
  <1>5. CASE size # 0 /\ b # None
    <2> DEFINE kept == IF size < b.size THEN size ELSE b.size
    <2>1. Take(i, out, size, kept, b.fill)
      BY <1>5 DEF Realloc
    <2>2. /\ out.ptr = NULL => \E r : Sound(out.heap, r) /\ Stored(out.heap, r, block)
          /\ out.ptr # NULL => \E r : Takes(out.heap, r, block, i, out.ptr, size, kept, b.fill)
      BY <1>1, <1>5, MovedWorks
    <2> HIDE DEF out, kept
    <2>3. CASE out.ptr = NULL
      BY <2>1, <2>2, <2>3 DEF Take, HeapInv
    <2>4. CASE out.ptr # NULL
      BY <2>1, <2>2, <2>4 DEF Take, Takes, HeapInv
    <2> QED
      BY <2>3, <2>4
  <1> QED
    BY <1>3, <1>4, <1>5

LEMMA HeapSteps == HeapInv /\ [HeapNext]_heapVars => HeapInv'
  <1> SUFFICES ASSUME HeapInv, [HeapNext]_heapVars
               PROVE  HeapInv'
    OBVIOUS
  <1>1. CASE UNCHANGED heapVars
    BY <1>1 DEF HeapInv, heapVars, Stored, Used
  <1>2. ASSUME NEW i \in Ids, Free(i)
        PROVE  HeapInv'
    <2>1. PICK m : Sound(heap, m) /\ Stored(heap, m, block)
      BY DEF HeapInv
    <2>2. PICK r : /\ Sound(free(heap, block[i].ptr), r)
                   /\ Stored(free(heap, block[i].ptr), r, [block EXCEPT ![i] = None])
      BY <2>1, GoneWorks
    <2> QED
      BY <1>2, <2>2 DEF HeapInv, Free
  <1>3. ASSUME NEW i \in Ids, NEW size \in Sizes, Malloc(i, size)
        PROVE  HeapInv'
    <2>1. size \in Nat /\ FillOf[i] \in Int
      BY HeapAssumption
    <2>2. block[i] = None /\ Take(i, malloc(heap, size), size, 0, FillOf[i])
      BY <1>3 DEF Malloc
    <2> QED
      BY <2>1, <2>2, NewStep
  <1>4. ASSUME NEW i \in Ids, NEW size \in Sizes, Calloc(i, size)
        PROVE  HeapInv'
    <2>1. size \in Nat /\ 0 \in Int
      BY HeapAssumption
    <2>2. /\ block[i] = None /\ malloc(heap, size).ptr # NULL
          /\ Take(i, calloc(heap, size), size, size, 0)
      BY <1>4 DEF Calloc
    <2> QED
      BY <2>1, <2>2, NewStep
  <1>5. ASSUME NEW i \in Ids, NEW size \in Sizes, Realloc(i, size)
        PROVE  HeapInv'
    <2>1. size \in Nat
      BY HeapAssumption
    <2> QED
      BY <1>5, <2>1, ReallocStep
  <1> QED
    BY <1>1, <1>2, <1>3, <1>4, <1>5 DEF HeapNext, Request

(***************************************************************************)
(* After any trace of mm_malloc, mm_calloc, mm_realloc and mm_free, on a   *)
(* heap of any size, the blocks tile the heap, header and footer agree, no *)
(* two free blocks touch, and the free list of mm.c holds exactly the free *)
(* blocks, linked both ways.                                               *)
(***************************************************************************)
THEOREM HeapStaysConsistent == HeapSpec => []HeapIsConsistent
  <1>1. HeapInv => HeapIsConsistent
    BY SoundIsConsistent DEF HeapInv
  <1> QED
    BY <1>1, HeapStarts, HeapSteps, PTL DEF HeapSpec

(***************************************************************************)
(* The blocks handed out by mm.c are aligned, inside the heap and apart    *)
(* from one another, are as large as asked for, still hold what the driver *)
(* put there, and none of them leaks.                                      *)
(***************************************************************************)
THEOREM DataStaysSafe == HeapSpec => []DataIsSafe
  <1>1. HeapInv => DataIsSafe
    BY StoredIsSafe DEF HeapInv
  <1> QED
    BY <1>1, HeapStarts, HeapSteps, PTL DEF HeapSpec
=============================================================================
