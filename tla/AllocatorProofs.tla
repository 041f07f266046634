--------------------------- MODULE AllocatorProofs ----------------------------
(* The small-object allocator of the midterm keeps every object in a slot of  *)
(* its own, for any size of the chunks and any schedule of its tester; and    *)
(* the linked queue, which takes a node of memory for each element, is a      *)
(* sequence.                                                                  *)
EXTENDS SmallObjectsTest, LinkedQueue, QueueLemmas

-----------------------------------------------------------------------------
(* One chunk *)

\* A chunk, but for the bounds of its count.
Countless == [addr : Addresses, next_available : 0 .. objects_per_chunk, num_freed : Int,
              free_arr : [Slots -> {0, 1}], mem : [Slots -> Values \cup {0, Overwritten}]]

LEMMA CountMakesChunk ==
  ASSUME NEW c \in Countless, c.num_freed \in 0 .. objects_per_chunk
  PROVE  c \in Chunk
  BY DEF Countless, Chunk

\* num_freed and next_available describe the slots that are not taken.
Counted(c) ==
    /\ c.num_freed = objects_per_chunk - Cardinality(Taken(c))
    /\ c.next_available \in (Slots \ Taken(c)) \cup {objects_per_chunk}

LEMMA SlotsAreCounted ==
  ASSUME NEW c
  PROVE  /\ objects_per_chunk \in Nat \ {0}
         /\ IsFiniteSet(Slots) /\ Cardinality(Slots) = objects_per_chunk
         /\ IsFiniteSet(Taken(c)) /\ Cardinality(Taken(c)) \in 0 .. objects_per_chunk
         /\ Cardinality(Taken(c)) = 0 <=> Taken(c) = {}
         /\ Cardinality(Taken(c)) = objects_per_chunk => Taken(c) = Slots
  <1>1. objects_per_chunk \in Nat \ {0}
    BY PoolAssumption
  <1>2. IsFiniteSet(Slots) /\ Cardinality(Slots) = objects_per_chunk
    <2>1. /\ IsFiniteSet(0 .. (objects_per_chunk - 1))
          /\ Cardinality(0 .. (objects_per_chunk - 1)) =
               IF 0 > objects_per_chunk - 1 THEN 0 ELSE (objects_per_chunk - 1) - 0 + 1
      <3> DEFINE n == objects_per_chunk - 1
      <3>1. 0 \in Int /\ n \in Int
        BY <1>1
      <3> HIDE DEF n
      <3>2. /\ IsFiniteSet(0 .. n)
            /\ Cardinality(0 .. n) = IF 0 > n THEN 0 ELSE n - 0 + 1
        BY <3>1, FS_Interval
      <3> QED
        BY <3>2 DEF n
    <2> QED
      BY <1>1, <2>1 DEF Slots
  <1>3. Taken(c) \in SUBSET Slots
    BY DEF Taken
  <1>4. /\ IsFiniteSet(Taken(c)) /\ Cardinality(Taken(c)) <= objects_per_chunk
        /\ objects_per_chunk = Cardinality(Taken(c)) => Slots = Taken(c)
    BY <1>2, <1>3, FS_Subset
  <1>5. Cardinality(Taken(c)) \in Nat
    BY <1>4, FS_CardinalityType
  <1>6. Cardinality(Taken(c)) = 0 <=> Taken(c) = {}
    BY <1>4, FS_EmptySet
  <1> QED
    BY <1>1, <1>2, <1>4, <1>5, <1>6

\* The search for a slot ends at one that is not taken, or at the end of the chunk.
LEMMA FreeFromWorks ==
  ASSUME NEW c, c.free_arr \in [Slots -> {0, 1}], NEW s \in 0 .. objects_per_chunk
  PROVE  FreeFrom(c, s) \in (Slots \ Taken(c)) \cup {objects_per_chunk}
  <1> DEFINE T == {t \in s .. objects_per_chunk - 1 : c.free_arr[t] = 0} \cup {objects_per_chunk}
  <1>1. objects_per_chunk \in Nat \ {0}
    BY PoolAssumption
  <1>2. T \in SUBSET Nat /\ T # {}
    BY <1>1
  <1>3. \E x \in T : \A y \in T : x <= y
    <2> HIDE DEF T
    <2> QED
      BY <1>2, LeastElement
  <1>4. Min(T) \in T
    <2> HIDE DEF T
    <2> QED
      BY <1>3 DEF Min
  <1>5. FreeFrom(c, s) \in T
    BY <1>4 DEF FreeFrom
  <1>6. ASSUME NEW t \in s .. objects_per_chunk - 1, c.free_arr[t] = 0
        PROVE  t \in Slots \ Taken(c)
    BY <1>1, <1>6 DEF Slots, Taken
  <1> QED
    BY <1>5, <1>6

\* What the search for a chunk does to one that it comes by.
LEMMA PassedKeeps ==
  ASSUME NEW c \in Chunk, Counted(c)
  PROVE  /\ Passed(c) \in Chunk /\ Counted(Passed(c))
         /\ Passed(c).addr = c.addr /\ Passed(c).mem = c.mem
         /\ Taken(Passed(c)) = Taken(c)
  <1>1. CASE Passed(c) = c
    BY <1>1
  <1>2. CASE Passed(c) # c
    <2>1. Passed(c) = [c EXCEPT !.next_available = FreeFrom(c, 0)]
      BY <1>2 DEF Passed, update_next_avail
    <2>2. 0 \in 0 .. objects_per_chunk /\ c.free_arr \in [Slots -> {0, 1}]
      BY PoolAssumption DEF Chunk
    <2>3. FreeFrom(c, 0) \in (Slots \ Taken(c)) \cup {objects_per_chunk}
      BY <2>2, FreeFromWorks
    <2>4. FreeFrom(c, 0) \in 0 .. objects_per_chunk
      BY <2>3, PoolAssumption DEF Slots
    <2> DEFINE d == [c EXCEPT !.next_available = FreeFrom(c, 0)]
    <2>5. /\ d \in Chunk /\ d.addr = c.addr /\ d.mem = c.mem /\ d.free_arr = c.free_arr
          /\ d.num_freed = c.num_freed /\ d.next_available = FreeFrom(c, 0)
      BY <2>4 DEF Chunk
    <2>6. Taken(d) = Taken(c)
      BY <2>5 DEF Taken
    <2>7. Counted(d)
      BY <2>3, <2>5, <2>6 DEF Counted
    <2> QED
      BY <2>1, <2>5, <2>6, <2>7
  <1> QED
    BY <1>1, <1>2

LEMMA NewChunkIsEmpty ==
  ASSUME NEW a \in Addresses
  PROVE  LET c == init_new_chunk(a)
         IN  c \in Chunk /\ Counted(c) /\ HasRoom(c) /\ c.addr = a /\ Taken(c) = {}
  <1> DEFINE c == init_new_chunk(a)
  <1>1. objects_per_chunk \in Nat \ {0}
    BY PoolAssumption
  <1>2. c \in Chunk /\ HasRoom(c) /\ c.addr = a
    BY <1>1 DEF init_new_chunk, Chunk, HasRoom, Slots
  <1>3. Taken(c) = {}
    BY DEF Taken, init_new_chunk
  <1>4. Cardinality(Taken(c)) = 0
    BY <1>3, FS_EmptySet
  <1>5. Counted(c)
    BY <1>1, <1>3, <1>4 DEF Counted, init_new_chunk, Slots
  <1> QED
    BY <1>2, <1>3, <1>5

LEMMA AllocTakes ==
  ASSUME NEW c \in Chunk, Counted(c), HasRoom(c)
  PROVE  LET d == alloc_object_from_chunk(c)
         IN  /\ c.next_available \in Slots \ Taken(c)
             /\ d \in Chunk /\ Counted(d) /\ d.addr = c.addr /\ d.mem = c.mem
             /\ Taken(d) = Taken(c) \cup {c.next_available}
  <1> DEFINE s == c.next_available
             e == [c EXCEPT !.free_arr[s] = 1, !.num_freed = @ - 1]
             d == [e EXCEPT !.next_available = FreeFrom(e, e.next_available + 1)]
  <1>1. objects_per_chunk \in Nat \ {0}
    BY PoolAssumption
  <1>2. s \in Slots \ Taken(c) /\ s \in 0 .. objects_per_chunk - 1
    BY <1>1 DEF Counted, HasRoom, Slots
  <1>3. /\ e.free_arr = [c.free_arr EXCEPT ![s] = 1] /\ e.next_available = s
        /\ e.num_freed = c.num_freed - 1 /\ e.addr = c.addr /\ e.mem = c.mem
        /\ e.free_arr \in [Slots -> {0, 1}] /\ e \in Countless
    <2> DEFINE f == [c.free_arr EXCEPT ![s] = 1]
               n == c.num_freed - 1
    <2>0. /\ c.free_arr \in [Slots -> {0, 1}] /\ c.num_freed \in 0 .. objects_per_chunk
      BY DEF Chunk
    <2>1. f \in [Slots -> {0, 1}] /\ n \in Int
      <3>1. n \in Int
        BY <1>1, <2>0
      <3>2. f \in [Slots -> {0, 1}]
        BY <2>0
      <3> QED
        BY <3>1, <3>2
    <2>2. e = [c EXCEPT !.free_arr = f, !.num_freed = n]
      BY DEF Chunk
    <2> HIDE DEF e, f, n, s
    <2>3. /\ e.free_arr = f /\ e.next_available = c.next_available /\ e.num_freed = n
          /\ e.addr = c.addr /\ e.mem = c.mem /\ e \in Countless
      BY <2>1, <2>2 DEF Chunk, Countless
    <2> QED
      BY <2>1, <2>3 DEF f, n, s
  <1>4. Taken(e) = Taken(c) \cup {s}
    BY <1>2, <1>3 DEF Taken, Chunk
  <1> HIDE DEF e
  <1>5. s + 1 \in 0 .. objects_per_chunk
    BY <1>1, <1>2
  <1>6. FreeFrom(e, s + 1) \in (Slots \ Taken(e)) \cup {objects_per_chunk}
    BY <1>3, <1>5, FreeFromWorks
  <1>7. Cardinality(Taken(e)) = Cardinality(Taken(c)) + 1
    <2> DEFINE T == Taken(c)
    <2>1. IsFiniteSet(T) /\ s \notin T
      BY <1>2, SlotsAreCounted
    <2> HIDE DEF T, s
    <2>2. Cardinality(T \cup {s}) = Cardinality(T) + 1
      BY <2>1, FS_AddElement
    <2> QED
      BY <1>4, <2>2 DEF T
  <1>8. /\ Cardinality(Taken(c)) \in Nat /\ Cardinality(Taken(e)) \in 0 .. objects_per_chunk
    BY SlotsAreCounted
  <1>9. e.num_freed = objects_per_chunk - Cardinality(Taken(e)) /\ e.num_freed \in 0 .. objects_per_chunk
    BY <1>1, <1>3, <1>7, <1>8 DEF Counted
  <1>10. FreeFrom(e, s + 1) \in 0 .. objects_per_chunk
    BY <1>1, <1>6 DEF Slots
  <1>11. /\ d \in Chunk /\ d.addr = c.addr /\ d.mem = c.mem /\ d.free_arr = e.free_arr
         /\ d.num_freed = e.num_freed /\ d.next_available = FreeFrom(e, s + 1)
    <2>1. e \in Chunk
      BY <1>3, <1>9, CountMakesChunk
    <2> QED
      BY <1>3, <1>10, <2>1 DEF Chunk
  <1>12. Taken(d) = Taken(e)
    BY <1>11 DEF Taken
  <1>13. Counted(d)
    BY <1>6, <1>9, <1>11, <1>12 DEF Counted
  <1>14. alloc_object_from_chunk(c) = d
    BY DEF alloc_object_from_chunk, find_next_avail, e
  <1> HIDE DEF d
  <1> QED
    BY <1>2, <1>4, <1>11, <1>12, <1>13, <1>14

LEMMA FreeReturns ==
  ASSUME NEW c \in Chunk, Counted(c), NEW s \in Taken(c)
  PROVE  LET d == free_object_in_chunk(c, s)
         IN  /\ d \in Chunk /\ Counted(d) /\ d.addr = c.addr
             /\ Taken(d) = Taken(c) \ {s}
             /\ \A t \in Slots : t # s => d.mem[t] = c.mem[t]
             /\ is_chunk_empty(d) <=> Taken(d) = {}
  <1> DEFINE d == free_object_in_chunk(c, s)
  <1>1. objects_per_chunk \in Nat \ {0}
    BY PoolAssumption
  <1>2. s \in Slots
    BY DEF Taken
  <1>3. /\ d.free_arr = [c.free_arr EXCEPT ![s] = 0] /\ d.next_available = c.next_available
        /\ d.num_freed = c.num_freed + 1 /\ d.addr = c.addr
        /\ d.mem = [c.mem EXCEPT ![s] = Overwritten] /\ d \in Countless
    <2> DEFINE f == [c.free_arr EXCEPT ![s] = 0]
               n == c.num_freed + 1
               v == [c.mem EXCEPT ![s] = Overwritten]
    <2>0. /\ c.free_arr \in [Slots -> {0, 1}] /\ c.num_freed \in 0 .. objects_per_chunk
          /\ c.mem \in [Slots -> Values \cup {0, Overwritten}]
      BY DEF Chunk
    <2>1. /\ f \in [Slots -> {0, 1}] /\ n \in Int
          /\ v \in [Slots -> Values \cup {0, Overwritten}]
      <3>1. n \in Int
        BY <1>1, <2>0
      <3>2. f \in [Slots -> {0, 1}]
        BY <2>0
      <3>3. v \in [Slots -> Values \cup {0, Overwritten}]
        BY <2>0
      <3> QED
        BY <3>1, <3>2, <3>3
    <2>2. d = [c EXCEPT !.free_arr = f, !.num_freed = n, !.mem = v]
      BY DEF Chunk, free_object_in_chunk
    <2> HIDE DEF d, f, n, v
    <2>3. /\ d.free_arr = f /\ d.next_available = c.next_available /\ d.num_freed = n
          /\ d.addr = c.addr /\ d.mem = v /\ d \in Countless
      BY <2>1, <2>2 DEF Chunk, Countless
    <2> QED
      BY <2>1, <2>3 DEF f, n, v
  <1>4. /\ d.free_arr \in [Slots -> {0, 1}] /\ d.mem \in [Slots -> Values \cup {0, Overwritten}]
        /\ \A t \in Slots : t # s => d.mem[t] = c.mem[t]
    BY <1>2, <1>3 DEF Chunk
  <1>5. Taken(d) = Taken(c) \ {s}
    BY <1>2, <1>3 DEF Taken, Chunk
  <1> HIDE DEF d
  <1>6. Cardinality(Taken(d)) = Cardinality(Taken(c)) - 1
    <2> DEFINE T == Taken(c)
    <2>1. IsFiniteSet(T) /\ s \in T
      BY SlotsAreCounted
    <2> HIDE DEF T
    <2>2. Cardinality(T \ {s}) = Cardinality(T) - 1
      BY <2>1, FS_RemoveElement
    <2> QED
      BY <1>5, <2>2 DEF T
  <1>7. /\ Cardinality(Taken(c)) \in Nat /\ Cardinality(Taken(d)) \in 0 .. objects_per_chunk
        /\ Cardinality(Taken(d)) = 0 <=> Taken(d) = {}
    BY SlotsAreCounted
  <1>8. d.num_freed = objects_per_chunk - Cardinality(Taken(d)) /\ d.num_freed \in 0 .. objects_per_chunk
    BY <1>1, <1>3, <1>6, <1>7 DEF Counted
  <1>9. d \in Chunk
    BY <1>3, <1>8, CountMakesChunk
  <1>10. Counted(d)
    BY <1>3, <1>5, <1>8 DEF Counted
  <1>11. is_chunk_empty(d) <=> Taken(d) = {}
    BY <1>1, <1>7, <1>8 DEF is_chunk_empty
  <1> QED
    BY <1>3, <1>4, <1>5, <1>9, <1>10, <1>11 DEF d

-----------------------------------------------------------------------------
(* The chunks of a pool *)

\* Chunks are told apart by their addresses.
Distinct(p) == \A k, l \in 1 .. Len(p) : p[k].addr = p[l].addr => k = l

LEMMA ChunkOfWorks ==
  ASSUME NEW p \in Seq(Chunk), Distinct(p), NEW o, NEW k \in 1 .. Len(p), p[k].addr = o.addr
  PROVE  ChunkOf(p, o) = k
  <1>1. {l \in 1 .. Len(p) : p[l].addr = o.addr} = {k}
    BY DEF Distinct
  <1>2. Min({k}) = k
    BY DEF Min
  <1>3. SelectInSeq(p, LAMBDA c : c.addr = o.addr) = k
    BY <1>1, <1>2 DEF SelectInSeq
  <1> QED
    BY <1>3 DEF ChunkOf

\* Where get_nonfull_chunk finds room, or 0.
FoundAt(p) == SelectInSeq(p, LAMBDA c : HasRoom(Passed(c)))

LEMMA FoundWorks ==
  ASSUME NEW p \in Seq(Chunk)
  PROVE  \/ FoundAt(p) = 0
         \/ FoundAt(p) \in 1 .. Len(p) /\ HasRoom(Passed(p[FoundAt(p)]))
  <1> DEFINE T == {k \in 1 .. Len(p) : HasRoom(Passed(p[k]))}
  <1>1. FoundAt(p) = IF T # {} THEN Min(T) ELSE 0
    BY DEF FoundAt, SelectInSeq
  <1>2. T \in SUBSET Nat
    OBVIOUS
  <1>3. ASSUME T # {} PROVE Min(T) \in T
    <2> HIDE DEF T
    <2>1. \E x \in T : \A y \in T : x <= y
      BY <1>2, <1>3, LeastElement
    <2> QED
      BY <2>1 DEF Min
  <1> QED
    BY <1>1, <1>3

\* What get_nonfull_chunk gives: a chunk with room, in a pool that is the same but for
\* the hints, or has a new chunk at its end.
Got(p, a, g) ==
    /\ g.pool \in Seq(Chunk) /\ g.at \in 1 .. Len(g.pool) /\ HasRoom(g.pool[g.at])
    /\ \A k \in 1 .. Len(g.pool) : Counted(g.pool[k])
    /\ \A k \in 1 .. Len(p) : /\ g.pool[k].addr = p[k].addr
                               /\ g.pool[k].mem = p[k].mem
                               /\ Taken(g.pool[k]) = Taken(p[k])
    /\ \/ Len(g.pool) = Len(p)
       \/ /\ Len(g.pool) = Len(p) + 1 /\ g.at = Len(p) + 1
          /\ g.pool[g.at].addr = a /\ Taken(g.pool[g.at]) = {}

LEMMA GetWorks ==
  ASSUME NEW p \in Seq(Chunk), \A k \in 1 .. Len(p) : Counted(p[k]), NEW a \in Addresses
  PROVE  Got(p, a, get_nonfull_chunk(p, a))
  <1> DEFINE upto == IF FoundAt(p) = 0 THEN Len(p) ELSE FoundAt(p)
             n == [k \in DOMAIN p |-> IF k <= upto THEN Passed(p[k]) ELSE p[k]]
             g == get_nonfull_chunk(p, a)
  <1>1. g = IF FoundAt(p) # 0 THEN [pool |-> n, at |-> FoundAt(p)]
            ELSE [pool |-> Append(n, init_new_chunk(a)), at |-> Len(p) + 1]
    BY DEF get_nonfull_chunk, FoundAt
  <1>2. /\ Len(p) \in Nat /\ DOMAIN p = 1 .. Len(p)
        /\ \A k \in 1 .. Len(p) : p[k] \in Chunk
    OBVIOUS
  <1>3. ASSUME NEW k \in 1 .. Len(p)
        PROVE  /\ n[k] \in Chunk /\ Counted(n[k])
               /\ n[k].addr = p[k].addr /\ n[k].mem = p[k].mem /\ Taken(n[k]) = Taken(p[k])
    <2>1. p[k] \in Chunk /\ Counted(p[k])
      BY <1>2
    <2>2. /\ Passed(p[k]) \in Chunk /\ Counted(Passed(p[k]))
          /\ Passed(p[k]).addr = p[k].addr /\ Passed(p[k]).mem = p[k].mem
          /\ Taken(Passed(p[k])) = Taken(p[k])
      BY <2>1, PassedKeeps
    <2>3. n[k] = Passed(p[k]) \/ n[k] = p[k]
      BY <1>2
    <2> HIDE DEF n
    <2> QED
      BY <2>1, <2>2, <2>3
  <1>4. n \in Seq(Chunk) /\ Len(n) = Len(p)
    <2>1. n \in [1 .. Len(p) -> Chunk]
      BY <1>2, <1>3
    <2> HIDE DEF n
    <2> QED
      BY <1>2, <2>1, FunctionIsSeq
  <1>5. CASE FoundAt(p) # 0
    <2>1. FoundAt(p) \in 1 .. Len(p) /\ HasRoom(Passed(p[FoundAt(p)]))
      BY <1>5, FoundWorks
    <2>2. n[FoundAt(p)] = Passed(p[FoundAt(p)])
      BY <1>2, <1>5, <2>1
    <2> HIDE DEF n, g
    <2>3. g.pool = n /\ g.at = FoundAt(p)
      BY <1>1, <1>5
    <2> QED
      BY <1>3, <1>4, <2>1, <2>2, <2>3 DEF Got, g
  <1>6. CASE FoundAt(p) = 0
    <2> DEFINE c == init_new_chunk(a)
    <2>1. c \in Chunk /\ Counted(c) /\ HasRoom(c) /\ c.addr = a /\ Taken(c) = {}
      BY NewChunkIsEmpty
    <2> HIDE DEF n, g, c
    <2>2. g.pool = Append(n, c) /\ g.at = Len(p) + 1
      BY <1>1, <1>6 DEF c
    <2>3. /\ Append(n, c) \in Seq(Chunk) /\ Len(Append(n, c)) = Len(p) + 1
          /\ \A k \in 1 .. Len(p) : Append(n, c)[k] = n[k]
          /\ Append(n, c)[Len(p) + 1] = c
      BY <1>4, <2>1
    <2>4. \A k \in 1 .. Len(p) + 1 : k \in 1 .. Len(p) \/ k = Len(p) + 1
      BY <1>2
    <2>5. /\ g.at \in 1 .. Len(g.pool) /\ g.pool[g.at] = c /\ Len(g.pool) = Len(p) + 1
          /\ \A k \in 1 .. Len(p) : g.pool[k] = n[k]
          /\ g.pool \in Seq(Chunk)
      BY <1>2, <2>2, <2>3
    <2>6. \A k \in 1 .. Len(g.pool) : Counted(g.pool[k])
      BY <1>3, <2>1, <2>2, <2>4, <2>5
    <2>7. \A k \in 1 .. Len(p) : /\ g.pool[k].addr = p[k].addr
                                 /\ g.pool[k].mem = p[k].mem
                                 /\ Taken(g.pool[k]) = Taken(p[k])
      BY <1>3, <2>5
    <2>8. Got(p, a, g)
      BY <2>1, <2>2, <2>5, <2>6, <2>7 DEF Got
    <2> QED
      BY <2>8 DEF g
  <1> QED
    BY <1>5, <1>6

-----------------------------------------------------------------------------
(* A pool and its objects *)

PoolOK(p) == /\ p \in Seq(Chunk) /\ Distinct(p)
             /\ \A k \in 1 .. Len(p) : Counted(p[k]) /\ Taken(p[k]) # {}

IsObject(p, o) == \E k \in 1 .. Len(p) : p[k].addr = o.addr /\ o.slot \in Taken(p[k])

Holds(p, o, v) == \E k \in 1 .. Len(p) : /\ p[k].addr = o.addr /\ o.slot \in Taken(p[k])
                                         /\ p[k].mem[o.slot] = v

\* An allocation, and the write of a value into the new object.
Written(p, a, v) ==
    LET r == so_alloc(p, a)
        k == ChunkOf(r.pool, r.object)
    IN  [r.pool EXCEPT ![k].mem[r.object.slot] = v]

\* The new object is none of the others, and they keep their values.
Allocates(p, q, o, v) ==
    /\ PoolOK(q) /\ o \in Object /\ ~IsObject(p, o) /\ Holds(q, o, v)
    /\ \A x \in Object : IsObject(q, x) <=> IsObject(p, x) \/ x = o
    /\ \A x \in Object : \A w : Holds(p, x, w) => Holds(q, x, w)

\* Only the chunk at k changes, or is new: slot s of it is taken, and gets v.
OneMore(p, q, k, s, v) ==
    /\ k \in 1 .. Len(q)
    /\ Len(q) = Len(p) \/ (Len(q) = Len(p) + 1 /\ k = Len(q))
    /\ \A l \in 1 .. Len(p) : q[l].addr = p[l].addr
    /\ \A l \in 1 .. Len(p) : l # k => Taken(q[l]) = Taken(p[l]) /\ q[l].mem = p[l].mem
    /\ s \in Slots /\ s \in Taken(q[k]) /\ q[k].mem[s] = v
    /\ k \in 1 .. Len(p) =>
          /\ Taken(q[k]) = Taken(p[k]) \cup {s} /\ s \notin Taken(p[k])
          /\ \A t \in Slots : t # s => q[k].mem[t] = p[k].mem[t]
    /\ k \notin 1 .. Len(p) =>
          /\ Taken(q[k]) = {s}
          /\ \A l \in 1 .. Len(p) : p[l].addr # q[k].addr

LEMMA OneMoreAllocates ==
  ASSUME NEW p, PoolOK(p), NEW q, q \in Seq(Chunk), \A l \in 1 .. Len(q) : Counted(q[l]),
         NEW k, NEW s, NEW v, OneMore(p, q, k, s, v),
         NEW o, o = [addr |-> q[k].addr, slot |-> s]
  PROVE  Allocates(p, q, o, v)
  <1>1. /\ Len(p) \in Nat /\ Len(q) \in Nat /\ k \in 1 .. Len(q) /\ s \in Slots
        /\ \A l \in 1 .. Len(p) : l \in 1 .. Len(q)
        /\ \A l \in 1 .. Len(q) : l \in 1 .. Len(p) \/ (l = k /\ k \notin 1 .. Len(p))
    BY DEF PoolOK, OneMore
  <1>a. /\ \A l \in 1 .. Len(p) : q[l].addr = p[l].addr
        /\ \A l \in 1 .. Len(p) : l # k => Taken(q[l]) = Taken(p[l]) /\ q[l].mem = p[l].mem
        /\ s \in Taken(q[k]) /\ q[k].mem[s] = v
    BY Zenon DEF OneMore
  <1>b. k \in 1 .. Len(p) =>
          /\ Taken(q[k]) = Taken(p[k]) \cup {s} /\ s \notin Taken(p[k])
          /\ \A t \in Slots : t # s => q[k].mem[t] = p[k].mem[t]
    BY DEF OneMore
  <1>c. k \notin 1 .. Len(p) =>
          Taken(q[k]) = {s} /\ \A l \in 1 .. Len(p) : p[l].addr # q[k].addr
    BY DEF OneMore
  <1>d. /\ \A l, j \in 1 .. Len(p) : p[l].addr = p[j].addr => l = j
        /\ \A l \in 1 .. Len(p) : Taken(p[l]) # {}
    BY DEF PoolOK, Distinct
  <1>2. o \in Object /\ o.addr = q[k].addr /\ o.slot = s
    <2>1. q[k] \in Chunk
      BY <1>1
    <2> QED
      BY <1>1, <2>1 DEF Chunk, Object
  <1>3. Distinct(q)
    <2>1. ASSUME NEW l \in 1 .. Len(q), NEW j \in 1 .. Len(q), q[l].addr = q[j].addr
          PROVE  l = j
      <3>1. CASE l \in 1 .. Len(p) /\ j \in 1 .. Len(p)
        BY <1>a, <1>d, <2>1, <3>1
      <3>2. CASE l \notin 1 .. Len(p) \/ j \notin 1 .. Len(p)
        BY <1>1, <1>a, <1>c, <2>1, <3>2
      <3> QED
        BY <3>1, <3>2
    <2> QED
      BY <2>1 DEF Distinct
  <1>4. \A l \in 1 .. Len(q) : Taken(q[l]) # {}
    BY <1>1, <1>a, <1>b, <1>d
  <1>5. ~IsObject(p, o)
    <2> SUFFICES ASSUME NEW l \in 1 .. Len(p), p[l].addr = q[k].addr, s \in Taken(p[l])
                 PROVE  FALSE
      BY <1>2 DEF IsObject
    <2>1. k \in 1 .. Len(p) /\ q[l].addr = q[k].addr
      BY <1>a, <1>c
    <2>2. l = k
      BY <1>1, <1>3, <2>1 DEF Distinct
    <2> QED
      BY <1>b, <2>1, <2>2
  <1>6. Holds(q, o, v)
    BY <1>1, <1>2, <1>a DEF Holds
  <1>7. ASSUME NEW x \in Object, NEW w, Holds(p, x, w)
        PROVE  Holds(q, x, w)
    <2>1. PICK l \in 1 .. Len(p) : /\ p[l].addr = x.addr /\ x.slot \in Taken(p[l])
                                  /\ p[l].mem[x.slot] = w
      BY <1>7 DEF Holds
    <2>2. x.slot \in Slots
      BY DEF Object
    <2>3. l \in 1 .. Len(q) /\ q[l].addr = x.addr
      BY <1>1, <1>a, <2>1
    <2>4. x.slot \in Taken(q[l]) /\ q[l].mem[x.slot] = w
      <3>1. CASE l = k
        <4>1. x.slot # s
          BY <1>b, <2>1, <3>1
        <4> QED
          BY <1>b, <2>1, <2>2, <3>1, <4>1
      <3>2. CASE l # k
        BY <1>a, <2>1, <3>2
      <3> QED
        BY <3>1, <3>2
    <2> QED
      BY <2>3, <2>4 DEF Holds
  <1>8. ASSUME NEW x \in Object, IsObject(p, x)
        PROVE  IsObject(q, x)
    <2>1. PICK l \in 1 .. Len(p) : p[l].addr = x.addr /\ x.slot \in Taken(p[l])
      BY <1>8 DEF IsObject
    <2>2. l \in 1 .. Len(q) /\ q[l].addr = x.addr
      BY <1>1, <1>a, <2>1
    <2>3. x.slot \in Taken(q[l])
      BY <1>a, <1>b, <2>1
    <2> QED
      BY <2>2, <2>3 DEF IsObject
  <1>9. ASSUME NEW x \in Object, IsObject(q, x), x # o
        PROVE  IsObject(p, x)
    <2>1. PICK l \in 1 .. Len(q) : q[l].addr = x.addr /\ x.slot \in Taken(q[l])
      BY <1>9 DEF IsObject
    <2>2. ~(l = k /\ x.slot = s)
      BY <1>2, <1>9, <2>1 DEF Object
    <2>3. l \in 1 .. Len(p) /\ x.slot \in Taken(p[l]) /\ p[l].addr = x.addr
      <3>1. CASE l = k
        <4>1. x.slot # s /\ x.slot \in Taken(q[k])
          BY <2>1, <2>2, <3>1
        <4>2. k \in 1 .. Len(p) /\ x.slot \in Taken(p[k])
          BY <1>b, <1>c, <4>1
        <4> QED
          BY <1>a, <2>1, <3>1, <4>2
      <3>2. CASE l # k
        <4>1. l \in 1 .. Len(p)
          BY <1>1, <3>2
        <4> QED
          BY <1>a, <2>1, <3>2, <4>1
      <3> QED
        BY <3>1, <3>2
    <2> QED
      BY <2>3 DEF IsObject
  <1>10. IsObject(q, o)
    BY <1>6 DEF IsObject, Holds
  <1>11. PoolOK(q)
    BY <1>3, <1>4 DEF PoolOK
  <1> QED
    BY <1>2, <1>5, <1>6, <1>7, <1>8, <1>9, <1>10, <1>11 DEF Allocates

LEMMA AllocWorks ==
  ASSUME NEW p, PoolOK(p), NEW a \in Addresses, \A l \in 1 .. Len(p) : p[l].addr # a,
         NEW v \in Values
  PROVE  Allocates(p, Written(p, a, v), so_alloc(p, a).object, v)
  <1> DEFINE g == get_nonfull_chunk(p, a)
             k == g.at
             c == g.pool[k]
             s == c.next_available
             d == alloc_object_from_chunk(c)
             h == [g.pool EXCEPT ![k] = d]
             e == [d EXCEPT !.mem[s] = v]
             q == [g.pool EXCEPT ![k] = e]
             o == [addr |-> c.addr, slot |-> s]
  <1>1. p \in Seq(Chunk) /\ (\A l \in 1 .. Len(p) : Counted(p[l])) /\ Distinct(p)
    BY DEF PoolOK
  <1>2. Got(p, a, g)
    <2>1. Got(p, a, get_nonfull_chunk(p, a))
      BY <1>1, GetWorks
    <2> QED
      BY <2>1
  <1>3. so_alloc(p, a) = [pool |-> h, object |-> o]
    BY DEF so_alloc
  <1> HIDE DEF g
  <1>4. /\ g.pool \in Seq(Chunk) /\ k \in 1 .. Len(g.pool) /\ HasRoom(c) /\ Counted(c)
        /\ c \in Chunk
    BY <1>2 DEF Got
  <1>5. /\ s \in Slots \ Taken(c) /\ d \in Chunk /\ Counted(d) /\ d.addr = c.addr
        /\ d.mem = c.mem /\ Taken(d) = Taken(c) \cup {s}
    <2> HIDE DEF c
    <2>1. /\ c.next_available \in Slots \ Taken(c)
          /\ alloc_object_from_chunk(c) \in Chunk /\ Counted(alloc_object_from_chunk(c))
          /\ alloc_object_from_chunk(c).addr = c.addr
          /\ alloc_object_from_chunk(c).mem = c.mem
          /\ Taken(alloc_object_from_chunk(c)) = Taken(c) \cup {c.next_available}
      BY <1>4, AllocTakes
    <2> QED
      BY <2>1
  <1>6. /\ \A l \in 1 .. Len(p) : g.pool[l].addr = p[l].addr
        /\ \A l \in 1 .. Len(p) : g.pool[l].mem = p[l].mem /\ Taken(g.pool[l]) = Taken(p[l])
        /\ \A l \in 1 .. Len(g.pool) : Counted(g.pool[l])
    BY <1>2 DEF Got
  <1>7. \/ Len(g.pool) = Len(p)
        \/ Len(g.pool) = Len(p) + 1 /\ k = Len(p) + 1 /\ c.addr = a /\ Taken(c) = {}
    BY <1>2 DEF Got
  <1> HIDE DEF d
  <1>8. /\ e \in Chunk /\ Taken(e) = Taken(c) \cup {s} /\ Counted(e) /\ e.addr = c.addr
        /\ e.mem = [c.mem EXCEPT ![s] = v]
    <2> HIDE DEF s, c
    <2>1. /\ d.mem \in [Slots -> Values \cup {0, Overwritten}]
          /\ [d.mem EXCEPT ![s] = v] \in [Slots -> Values \cup {0, Overwritten}]
      <3>1. d.mem \in [Slots -> Values \cup {0, Overwritten}]
        BY <1>5 DEF Chunk
      <3> QED
        BY <3>1
    <2>2. /\ e \in Chunk /\ e.addr = d.addr /\ e.free_arr = d.free_arr
          /\ e.num_freed = d.num_freed /\ e.next_available = d.next_available
          /\ e.mem = [d.mem EXCEPT ![s] = v]
      <3> DEFINE f == [d.mem EXCEPT ![s] = v]
      <3>1. e = [d EXCEPT !.mem = f]
        BY <1>5 DEF Chunk
      <3>2. f \in [Slots -> Values \cup {0, Overwritten}]
        BY <2>1
      <3> HIDE DEF e, f
      <3>3. /\ e \in Chunk /\ e.addr = d.addr /\ e.free_arr = d.free_arr
            /\ e.num_freed = d.num_freed /\ e.next_available = d.next_available
            /\ e.mem = f
        BY <1>5, <3>1, <3>2 DEF Chunk
      <3> QED
        BY <3>3 DEF f
    <2> HIDE DEF e
    <2>3. Taken(e) = Taken(d)
      BY <2>2 DEF Taken
    <2>4. Counted(e)
      BY <1>5, <2>2, <2>3 DEF Counted
    <2> QED
      BY <1>5, <2>2, <2>3, <2>4
  <1> HIDE DEF c, s, e
  <1>9. /\ q \in Seq(Chunk) /\ Len(q) = Len(g.pool) /\ q[k] = e
        /\ \A l \in 1 .. Len(g.pool) : l # k => q[l] = g.pool[l]
    BY <1>4, <1>8
  <1> HIDE DEF q
  <1>10. Distinct(g.pool)
    <2>1. ASSUME NEW l \in 1 .. Len(g.pool), NEW j \in 1 .. Len(g.pool),
                 g.pool[l].addr = g.pool[j].addr
          PROVE  l = j
      <3>1. CASE l \in 1 .. Len(p) /\ j \in 1 .. Len(p)
        BY <1>1, <1>6, <2>1, <3>1 DEF Distinct
      <3>2. CASE l \notin 1 .. Len(p) \/ j \notin 1 .. Len(p)
        <4>1. \A x \in 1 .. Len(g.pool) : x \notin 1 .. Len(p) => x = k
          BY <1>1, <1>7
        <4>2. c.addr = a
          BY <1>1, <1>7, <3>2
        <4>3. \A x \in 1 .. Len(g.pool) : g.pool[x].addr = a => x \notin 1 .. Len(p)
          BY <1>6
        <4> QED
          BY <2>1, <3>2, <4>1, <4>2, <4>3 DEF c
      <3> QED
        BY <3>1, <3>2
    <2> QED
      BY <2>1 DEF Distinct
  <1>11. ChunkOf(h, o) = k
    <2>1. /\ h \in Seq(Chunk) /\ Len(h) = Len(g.pool) /\ h[k] = d
          /\ \A l \in 1 .. Len(g.pool) : l # k => h[l] = g.pool[l]
      BY <1>4, <1>5
    <2> HIDE DEF h
    <2>2. \A l \in 1 .. Len(h) : h[l].addr = g.pool[l].addr
      BY <1>5, <2>1 DEF c
    <2>3. Distinct(h)
      BY <1>10, <2>1, <2>2 DEF Distinct
    <2>4. h[k].addr = o.addr /\ k \in 1 .. Len(h)
      BY <1>4, <1>5, <2>1
    <2> HIDE DEF o, k
    <2> QED
      BY <2>1, <2>3, <2>4, ChunkOfWorks
  <1>12. Written(p, a, v) = q
    <2>1. Written(p, a, v) = [h EXCEPT ![ChunkOf(h, o)].mem[o.slot] = v]
      BY <1>3 DEF Written
    <2>2. [h EXCEPT ![ChunkOf(h, o)].mem[o.slot] = v] = [h EXCEPT ![k].mem[s] = v]
      BY <1>11
    <2>3. [h EXCEPT ![k].mem[s] = v] = q
      BY <1>4 DEF q, e
    <2> QED
      BY <2>1, <2>2, <2>3
  <1>13. OneMore(p, q, k, s, v)
    <2>1. /\ s \in Slots /\ s \in Taken(q[k]) /\ q[k].mem[s] = v /\ q[k].addr = c.addr
          /\ \A t \in Slots : t # s => q[k].mem[t] = c.mem[t]
      <3>1. c.mem \in [Slots -> Values \cup {0, Overwritten}]
        BY <1>4 DEF Chunk
      <3> QED
        BY <1>5, <1>8, <1>9, <3>1
    <2>2. \A l \in 1 .. Len(p) : l \in 1 .. Len(g.pool)
      BY <1>1, <1>7
    <2>3. k \in 1 .. Len(q) /\ (Len(q) = Len(p) \/ (Len(q) = Len(p) + 1 /\ k = Len(q)))
      BY <1>4, <1>7, <1>9
    <2>4. \A l \in 1 .. Len(p) :
            /\ q[l].addr = p[l].addr
            /\ l # k => Taken(q[l]) = Taken(p[l]) /\ q[l].mem = p[l].mem
      <3>1. ASSUME NEW l \in 1 .. Len(p), l # k
            PROVE  q[l].addr = p[l].addr /\ Taken(q[l]) = Taken(p[l]) /\ q[l].mem = p[l].mem
        BY <1>6, <1>9, <2>2, <3>1
      <3>2. ASSUME NEW l \in 1 .. Len(p), l = k
            PROVE  q[l].addr = p[l].addr
        BY <1>6, <2>1, <3>2 DEF c
      <3> QED
        BY <3>1, <3>2
    <2>5. ASSUME k \in 1 .. Len(p)
          PROVE  /\ Taken(q[k]) = Taken(p[k]) \cup {s} /\ s \notin Taken(p[k])
                 /\ \A t \in Slots : t # s => q[k].mem[t] = p[k].mem[t]
      <3>1. Taken(c) = Taken(p[k]) /\ c.mem = p[k].mem
        BY <1>6, <2>5 DEF c
      <3> QED
        BY <1>5, <1>8, <1>9, <2>1, <3>1
    <2>6. ASSUME k \notin 1 .. Len(p)
          PROVE  Taken(q[k]) = {s} /\ \A l \in 1 .. Len(p) : p[l].addr # q[k].addr
      <3>1. c.addr = a /\ Taken(c) = {}
        BY <1>4, <1>7, <2>6
      <3> QED
        BY <1>8, <1>9, <2>1, <3>1
    <2> HIDE DEF k
    <2> QED
      BY <2>1, <2>3, <2>4, <2>5, <2>6 DEF OneMore
  <1>14. \A l \in 1 .. Len(q) : Counted(q[l])
    BY <1>6, <1>8, <1>9
  <1>15. o = [addr |-> q[k].addr, slot |-> s]
    BY <1>8, <1>9
  <1>16. so_alloc(p, a).object = o
    BY <1>3
  <1> HIDE DEF o, k
  <1>17. Allocates(p, q, o, v)
    BY <1>9, <1>13, <1>14, <1>15, OneMoreAllocates
  <1> QED
    BY <1>12, <1>16, <1>17

\* After a release the object is gone, and the others keep their values.
Releases(p, q, o) ==
    /\ PoolOK(q)
    /\ \A x \in Object : IsObject(q, x) <=> IsObject(p, x) /\ x # o
    /\ \A x \in Object : \A v : x # o /\ Holds(p, x, v) => Holds(q, x, v)

LEMMA FreeWorks ==
  ASSUME NEW p, PoolOK(p), NEW o \in Object, IsObject(p, o)
  PROVE  Releases(p, so_free(p, o), o)
  <1>1. PICK k \in 1 .. Len(p) : p[k].addr = o.addr /\ o.slot \in Taken(p[k])
    BY DEF IsObject
  <1> DEFINE s == o.slot
             d == free_object_in_chunk(p[k], s)
             f == [p EXCEPT ![k] = d]
             q == so_free(p, o)
  <1>2. /\ p \in Seq(Chunk) /\ Len(p) \in Nat /\ p[k] \in Chunk /\ Distinct(p)
        /\ \A l \in 1 .. Len(p) : Counted(p[l]) /\ Taken(p[l]) # {}
    BY DEF PoolOK
  <1>3. ChunkOf(p, o) = k
    BY <1>1, <1>2, ChunkOfWorks
  <1>4. q = IF is_chunk_empty(f[k]) THEN RemoveAt(f, k) ELSE f
    BY <1>3 DEF so_free
  <1>5. /\ d \in Chunk /\ Counted(d) /\ d.addr = p[k].addr
        /\ Taken(d) = Taken(p[k]) \ {s}
        /\ \A t \in Slots : t # s => d.mem[t] = p[k].mem[t]
        /\ is_chunk_empty(d) <=> Taken(d) = {}
    <2>1. Counted(p[k]) /\ s \in Taken(p[k])
      BY <1>1, <1>2
    <2> QED
      BY <1>2, <2>1, FreeReturns
  <1> HIDE DEF d, q
  <1>6. /\ f \in Seq(Chunk) /\ Len(f) = Len(p) /\ f[k] = d
        /\ \A l \in 1 .. Len(p) : l # k => f[l] = p[l]
    BY <1>2, <1>5
  <1> HIDE DEF f
  <1>7. \A l \in 1 .. Len(p) : f[l].addr = p[l].addr /\ Counted(f[l])
    BY <1>2, <1>5, <1>6
  <1>8. ASSUME NEW x \in Object
        PROVE  IsObject(f, x) <=> IsObject(p, x) /\ x # o
    <2>1. \A y \in Object : y = o <=> y.addr = o.addr /\ y.slot = o.slot
      BY DEF Object
    <2>2. ASSUME IsObject(f, x) PROVE IsObject(p, x) /\ x # o
      <3>1. PICK l \in 1 .. Len(p) : f[l].addr = x.addr /\ x.slot \in Taken(f[l])
        BY <1>6, <2>2 DEF IsObject
      <3>2. CASE l = k
        BY <1>5, <1>6, <3>1, <3>2 DEF IsObject
      <3>3. CASE l # k
        <4>1. x.addr # o.addr
          BY <1>1, <1>2, <1>7, <3>1, <3>3 DEF Distinct
        <4> QED
          BY <1>6, <3>1, <3>3, <4>1 DEF IsObject
      <3> QED
        BY <3>2, <3>3
    <2>3. ASSUME IsObject(p, x), x # o PROVE IsObject(f, x)
      <3>1. PICK l \in 1 .. Len(p) : p[l].addr = x.addr /\ x.slot \in Taken(p[l])
        BY <2>3 DEF IsObject
      <3>2. x.slot \in Taken(f[l])
        <4>1. CASE l = k
          <5>1. x.slot # s
            BY <1>1, <2>1, <2>3, <3>1, <4>1
          <5> QED
            BY <1>5, <1>6, <3>1, <4>1, <5>1
        <4>2. CASE l # k
          BY <1>6, <3>1, <4>2
        <4> QED
          BY <4>1, <4>2
      <3> QED
        BY <1>6, <1>7, <3>1, <3>2 DEF IsObject
    <2> QED
      BY <2>2, <2>3
  <1>9. ASSUME NEW x \in Object, NEW v, x # o, Holds(p, x, v)
        PROVE  Holds(f, x, v)
    <2>1. x = o <=> x.addr = o.addr /\ x.slot = o.slot
      BY DEF Object
    <2>2. PICK l \in 1 .. Len(p) : /\ p[l].addr = x.addr /\ x.slot \in Taken(p[l])
                                  /\ p[l].mem[x.slot] = v
      BY <1>9 DEF Holds
    <2>3. x.slot \in Taken(f[l]) /\ f[l].mem[x.slot] = v
      <3>1. CASE l = k
        <4>1. x.slot # s /\ x.slot \in Slots
          BY <1>1, <1>9, <2>1, <2>2, <3>1 DEF Object
        <4> QED
          BY <1>5, <1>6, <2>2, <3>1, <4>1
      <3>2. CASE l # k
        BY <1>6, <2>2, <3>2
      <3> QED
        BY <3>1, <3>2
    <2> QED
      BY <1>6, <1>7, <2>2, <2>3 DEF Holds
  <1>10. CASE Taken(d) # {}
    <2>1. q = f
      BY <1>4, <1>5, <1>6, <1>10
    <2>2. PoolOK(f)
      BY <1>2, <1>6, <1>7, <1>10 DEF PoolOK, Distinct
    <2> QED
      BY <1>8, <1>9, <2>1, <2>2 DEF Releases, q
  <1>11. CASE Taken(d) = {}
    <2> DEFINE g == WithoutPlace(f, k)
    <2>1. q = g
      <3>1. q = RemoveAt(f, k)
        BY <1>4, <1>5, <1>6, <1>11
      <3>2. RemoveAt(f, k) = WithoutPlace(f, k)
        BY <1>6, RemoveAtClosesGap
      <3> QED
        BY <3>1, <3>2
    <2>2. \A l \in 1 .. Len(f) - 1 : g[l] = IF l < k THEN f[l] ELSE f[l + 1]
      BY DEF WithoutPlace
    <2>3. g \in Seq(Chunk) /\ Len(g) = Len(f) - 1
      <3>1. Len(f) - 1 \in Nat
        BY <1>1, <1>2, <1>6
      <3>2. \A l \in 1 .. Len(f) - 1 : l \in 1 .. Len(f) /\ l + 1 \in 1 .. Len(f)
        BY <3>1
      <3>3. g \in [1 .. Len(f) - 1 -> Chunk]
        BY <1>6, <3>2 DEF WithoutPlace
      <3> HIDE DEF g
      <3> QED
        BY <3>1, <3>3, FunctionIsSeq
    <2> HIDE DEF g
    <2> DEFINE was(l) == IF l < k THEN l ELSE l + 1
    <2>4. ASSUME NEW l \in 1 .. Len(g)
          PROVE  was(l) \in 1 .. Len(f) /\ was(l) # k /\ g[l] = f[was(l)]
      BY <1>1, <1>2, <1>6, <2>2, <2>3
    <2>5. ASSUME NEW j \in 1 .. Len(f), j # k
          PROVE  \E l \in 1 .. Len(g) : was(l) = j
      <3>1. CASE j < k
        <4>1. j \in 1 .. Len(g) /\ was(j) = j
          BY <1>1, <1>2, <1>6, <2>3, <3>1
        <4> QED
          BY <4>1
      <3>2. CASE j > k
        <4>1. j - 1 \in 1 .. Len(g) /\ was(j - 1) = j
          BY <1>1, <1>2, <1>6, <2>3, <3>2
        <4> QED
          BY <4>1
      <3> QED
        BY <1>1, <1>2, <2>5, <3>1, <3>2
    <2>6. \A l, j \in 1 .. Len(g) : was(l) = was(j) => l = j
      BY <1>1, <1>2, <1>6, <2>3
    <2> HIDE DEF was
    <2>7. PoolOK(g)
      <3>1. Distinct(f)
        BY <1>2, <1>6, <1>7 DEF Distinct
      <3>2. Distinct(g)
        BY <2>4, <2>6, <3>1 DEF Distinct
      <3>3. \A j \in 1 .. Len(f) : j # k => Counted(f[j]) /\ Taken(f[j]) # {}
        BY <1>2, <1>6, <1>7
      <3> QED
        BY <2>3, <2>4, <3>2, <3>3 DEF PoolOK
    <2>8. ASSUME NEW x PROVE IsObject(g, x) <=> IsObject(f, x)
      <3>1. ASSUME IsObject(g, x) PROVE IsObject(f, x)
        BY <2>4, <3>1 DEF IsObject
      <3>2. ASSUME IsObject(f, x) PROVE IsObject(g, x)
        <4>1. PICK j \in 1 .. Len(f) : f[j].addr = x.addr /\ x.slot \in Taken(f[j])
          BY <3>2 DEF IsObject
        <4>2. j # k
          BY <1>6, <1>11, <4>1
        <4>3. PICK l \in 1 .. Len(g) : was(l) = j
          BY <2>5, <4>2
        <4> QED
          BY <2>4, <4>1, <4>3 DEF IsObject
      <3> QED
        BY <3>1, <3>2
    <2>9. ASSUME NEW x, NEW v, Holds(f, x, v) PROVE Holds(g, x, v)
      <3>1. PICK j \in 1 .. Len(f) : /\ f[j].addr = x.addr /\ x.slot \in Taken(f[j])
                                    /\ f[j].mem[x.slot] = v
        BY <2>9 DEF Holds
      <3>2. j # k
        BY <1>6, <1>11, <3>1
      <3>3. PICK l \in 1 .. Len(g) : was(l) = j
        BY <2>5, <3>2
      <3> QED
        BY <2>4, <3>1, <3>3 DEF Holds
    <2> QED
      BY <1>8, <1>9, <2>1, <2>7, <2>8, <2>9 DEF Releases, q
  <1> QED
    BY <1>10, <1>11

-----------------------------------------------------------------------------
(* The tester's record of the objects *)

\* PoolInv of a pool p and an info array f.
Tells(p, f) ==
    /\ PoolOK(p) /\ f \in [Entries -> Info \cup {Nothing}]
    /\ \A e \in Entries : f[e] # Nothing => Holds(p, f[e].mem, f[e].value)
    /\ \A e, g \in Entries : f[e] # Nothing /\ f[g] # Nothing /\ f[e].mem = f[g].mem => e = g
    /\ \A x \in Object : IsObject(p, x) => \E e \in Entries : f[e] # Nothing /\ f[e].mem = x

LEMMA PoolInvTells ==
  PoolInv <=> Tells(pool, info) /\ i \in Nat
  <1>1. ASSUME PoolInv PROVE Tells(pool, info) /\ i \in Nat
    <2>1. /\ pool \in Seq(Chunk) /\ info \in [Entries -> Info \cup {Nothing}] /\ i \in Nat
          /\ DOMAIN pool = 1 .. Len(pool) /\ \A k \in 1 .. Len(pool) : pool[k] \in Chunk
      BY <1>1 DEF PoolInv, TestTypeOK
    <2>2. PoolOK(pool)
      BY <1>1, <2>1 DEF PoolInv, ObjectsAreSafe, BookkeepingAgrees, PoolOK, Distinct, Counted
    <2>3. \A e \in Entries : info[e] # Nothing => Holds(pool, info[e].mem, info[e].value)
      BY <1>1, <2>1 DEF PoolInv, ObjectsAreSafe, Live, Holds
    <2>4. \A e, g \in Entries : info[e] # Nothing /\ info[g] # Nothing
              /\ info[e].mem = info[g].mem => e = g
      BY <1>1 DEF PoolInv, ObjectsAreSafe, Live
    <2>5. ASSUME NEW x \in Object, IsObject(pool, x)
          PROVE  \E e \in Entries : info[e] # Nothing /\ info[e].mem = x
      <3>1. PICK k \in 1 .. Len(pool) : pool[k].addr = x.addr /\ x.slot \in Taken(pool[k])
        BY <2>5 DEF IsObject
      <3>2. x = [addr |-> pool[k].addr, slot |-> x.slot] /\ x.slot \in Slots
        BY <3>1 DEF Object
      <3>3. PICK e \in Live : info[e].mem = [addr |-> pool[k].addr, slot |-> x.slot]
        BY <1>1, <2>1, <3>1, <3>2 DEF PoolInv, ObjectsAreSafe
      <3> QED
        BY <3>2, <3>3 DEF Live
    <2> QED
      BY <2>1, <2>2, <2>3, <2>4, <2>5 DEF Tells
  <1>2. ASSUME Tells(pool, info), i \in Nat PROVE PoolInv
    <2>1. /\ pool \in Seq(Chunk) /\ info \in [Entries -> Info \cup {Nothing}]
          /\ DOMAIN pool = 1 .. Len(pool) /\ \A k \in 1 .. Len(pool) : pool[k] \in Chunk
      BY <1>2 DEF Tells, PoolOK
    <2>2. TestTypeOK
      BY <1>2, <2>1 DEF TestTypeOK
    <2>3. BookkeepingAgrees
      BY <1>2, <2>1 DEF Tells, PoolOK, Counted, BookkeepingAgrees
    <2>4. \A e \in Live : \E k \in DOMAIN pool :
            /\ pool[k].addr = info[e].mem.addr
            /\ info[e].mem.slot \in Taken(pool[k])
            /\ pool[k].mem[info[e].mem.slot] = info[e].value
      BY <1>2, <2>1 DEF Tells, Live, Holds
    <2>5. \A e, f \in Live : info[e].mem = info[f].mem => e = f
      BY <1>2 DEF Tells, Live
    <2>6. ASSUME NEW k \in DOMAIN pool, NEW s \in Slots, s \in Taken(pool[k])
          PROVE  \E e \in Live : info[e].mem = [addr |-> pool[k].addr, slot |-> s]
      <3> DEFINE x == [addr |-> pool[k].addr, slot |-> s]
      <3>1. x \in Object
        BY <2>1 DEF Chunk, Object
      <3>2. IsObject(pool, x)
        BY <2>1, <2>6 DEF IsObject
      <3> HIDE DEF x
      <3>3. PICK e \in Entries : info[e] # Nothing /\ info[e].mem = x
        BY <1>2, <3>1, <3>2 DEF Tells
      <3> QED
        BY <3>3 DEF Live, x
    <2>7. \A k, l \in DOMAIN pool : pool[k].addr = pool[l].addr => k = l
      BY <1>2, <2>1 DEF Tells, PoolOK, Distinct
    <2>8. ObjectsAreSafe
      BY <2>4, <2>5, <2>6, <2>7 DEF ObjectsAreSafe
    <2> QED
      BY <2>2, <2>3, <2>8 DEF PoolInv
  <1> QED
    BY <1>1, <1>2

LEMMA NothingIsNoInfo ==
  /\ Nothing \notin Info
  /\ max_live_objs \in Nat \ {0}
  <1>1. max_live_objs \in Nat \ {0}
    BY TestAssumption
  <1>2. 0 \notin Values
    BY TestAssumption
  <1>3. \A x \in Info : x.value # 0
    BY <1>2 DEF Info
  <1>4. Nothing.value = 0
    BY DEF Nothing
  <1> QED
    BY <1>1, <1>3, <1>4

LEMMA ReleaseWorks ==
  ASSUME NEW p, NEW f, Tells(p, f), NEW e \in Entries, f[e] # Nothing
  PROVE  Tells(so_free(p, f[e].mem), [f EXCEPT ![e] = Nothing])
  <1> DEFINE o == f[e].mem
             q == so_free(p, o)
             h == [f EXCEPT ![e] = Nothing]
  <1>1. /\ PoolOK(p) /\ f \in [Entries -> Info \cup {Nothing}] /\ f[e] \in Info
        /\ Holds(p, f[e].mem, f[e].value)
    BY DEF Tells
  <1>2. o \in Object /\ IsObject(p, o)
    BY <1>1 DEF Info, Holds, IsObject
  <1> HIDE DEF o
  <1>3. Releases(p, q, o)
    BY <1>1, <1>2, FreeWorks
  <1> HIDE DEF q
  <1>4. /\ h \in [Entries -> Info \cup {Nothing}] /\ h[e] = Nothing
        /\ \A g \in Entries : g # e => h[g] = f[g]
    BY <1>1
  <1> HIDE DEF h
  <1>5. \A g \in Entries : h[g] # Nothing => g # e /\ f[g] # Nothing /\ h[g] = f[g]
    BY <1>4
  <1>6. \A g \in Entries : f[g] # Nothing /\ g # e => f[g].mem # o /\ f[g].mem \in Object
    BY <1>1 DEF Tells, Info, o
  <1>7. \A g \in Entries : h[g] # Nothing => Holds(q, h[g].mem, h[g].value)
    <2> SUFFICES ASSUME NEW g \in Entries, h[g] # Nothing
                 PROVE  Holds(q, h[g].mem, h[g].value)
      OBVIOUS
    <2>1. f[g] # Nothing /\ h[g] = f[g] /\ f[g].mem # o /\ f[g].mem \in Object
      BY <1>5, <1>6
    <2>2. Holds(p, f[g].mem, f[g].value)
      BY <2>1 DEF Tells
    <2>3. Holds(q, f[g].mem, f[g].value)
      BY <1>3, <2>1, <2>2 DEF Releases
    <2> QED
      BY <2>1, <2>3
  <1>8. \A j, g \in Entries : h[j] # Nothing /\ h[g] # Nothing /\ h[j].mem = h[g].mem => j = g
    BY <1>5 DEF Tells
  <1>9. ASSUME NEW x \in Object, IsObject(q, x)
        PROVE  \E g \in Entries : h[g] # Nothing /\ h[g].mem = x
    <2>1. IsObject(p, x) /\ x # o
      BY <1>3, <1>9 DEF Releases
    <2>2. PICK g \in Entries : f[g] # Nothing /\ f[g].mem = x
      BY <2>1 DEF Tells
    <2>3. g # e
      BY <2>1, <2>2 DEF o
    <2> QED
      BY <1>4, <2>2, <2>3
  <1>10. PoolOK(q)
    BY <1>3 DEF Releases
  <1>11. Tells(q, h)
    BY <1>4, <1>7, <1>8, <1>9, <1>10 DEF Tells
  <1> QED
    BY <1>11 DEF q, h, o

\* An object that only ages stays where it is.
LEMMA AgeingWorks ==
  ASSUME NEW p, NEW f, Tells(p, f), NEW e \in Entries, f[e] # Nothing, f[e].age > 1
  PROVE  Tells(p, [f EXCEPT ![e].age = @ - 1])
  <1> DEFINE h == [f EXCEPT ![e].age = @ - 1]
             r == [f[e] EXCEPT !.age = @ - 1]
  <1>1. /\ PoolOK(p) /\ f \in [Entries -> Info \cup {Nothing}] /\ f[e] \in Info
    BY DEF Tells
  <1>2. r \in Info /\ r.mem = f[e].mem /\ r.value = f[e].value
    <2>1. f[e].age - 1 \in Nat
      BY <1>1 DEF Info
    <2> QED
      BY <1>1, <2>1 DEF Info
  <1> HIDE DEF r
  <1>3. /\ h \in [Entries -> Info \cup {Nothing}] /\ h[e] = r
        /\ \A g \in Entries : g # e => h[g] = f[g]
    BY <1>1, <1>2 DEF r
  <1> HIDE DEF h
  <1>4. r # Nothing
    BY <1>2, NothingIsNoInfo
  <1>5. \A g \in Entries : /\ h[g] # Nothing <=> f[g] # Nothing
                           /\ h[g] # Nothing => h[g].mem = f[g].mem /\ h[g].value = f[g].value
    BY <1>2, <1>3, <1>4
  <1>6. Tells(p, h)
    <2>1. \A g \in Entries : h[g] # Nothing => Holds(p, h[g].mem, h[g].value)
      <3> SUFFICES ASSUME NEW g \in Entries, h[g] # Nothing
                   PROVE  Holds(p, h[g].mem, h[g].value)
        OBVIOUS
      <3>1. Holds(p, f[g].mem, f[g].value)
        BY <1>5 DEF Tells
      <3> QED
        BY <1>5, <3>1
    <2>2. \A j, g \in Entries : h[j] # Nothing /\ h[g] # Nothing /\ h[j].mem = h[g].mem => j = g
      BY <1>5 DEF Tells
    <2>3. ASSUME NEW x \in Object, IsObject(p, x)
          PROVE  \E g \in Entries : h[g] # Nothing /\ h[g].mem = x
      BY <1>5, <2>3 DEF Tells
    <2> QED
      BY <1>1, <1>3, <2>1, <2>2, <2>3 DEF Tells
  <1> QED
    BY <1>6 DEF h

LEMMA RecordWorks ==
  ASSUME NEW p, NEW f, Tells(p, f), NEW e \in Entries, f[e] = Nothing,
         NEW a \in Addresses, \A k \in 1 .. Len(p) : p[k].addr # a,
         NEW v \in Values, NEW age \in Ages
  PROVE  Tells(Written(p, a, v),
               [f EXCEPT ![e] = [mem |-> so_alloc(p, a).object, value |-> v, age |-> age]])
  <1> DEFINE o == so_alloc(p, a).object
             q == Written(p, a, v)
             r == [mem |-> o, value |-> v, age |-> age]
             h == [f EXCEPT ![e] = r]
  <1>1. /\ PoolOK(p) /\ f \in [Entries -> Info \cup {Nothing}]
        /\ \A g \in Entries : f[g] # Nothing => f[g] \in Info
    BY DEF Tells
  <1>2. Allocates(p, q, o, v)
    BY <1>1, AllocWorks
  <1> HIDE DEF o, q
  <1>3. o \in Object /\ PoolOK(q) /\ ~IsObject(p, o) /\ Holds(q, o, v)
    BY <1>2 DEF Allocates
  <1>4. r \in Info /\ r.mem = o /\ r.value = v
    BY <1>3, TestAssumption DEF Info
  <1> HIDE DEF r
  <1>5. r # Nothing
    BY <1>4, NothingIsNoInfo
  <1>6. /\ h \in [Entries -> Info \cup {Nothing}] /\ h[e] = r
        /\ \A g \in Entries : g # e => h[g] = f[g]
    BY <1>1, <1>4
  <1> HIDE DEF h
  <1>7. \A g \in Entries : g # e /\ h[g] # Nothing =>
          f[g] # Nothing /\ h[g].mem = f[g].mem /\ h[g].value = f[g].value
    BY <1>6
  <1>8. \A g \in Entries : f[g] # Nothing =>
          /\ f[g].mem \in Object /\ f[g].mem # o
          /\ Holds(p, f[g].mem, f[g].value) /\ Holds(q, f[g].mem, f[g].value)
    <2> SUFFICES ASSUME NEW g \in Entries, f[g] # Nothing
                 PROVE  /\ f[g].mem \in Object /\ f[g].mem # o
                        /\ Holds(p, f[g].mem, f[g].value) /\ Holds(q, f[g].mem, f[g].value)
      OBVIOUS
    <2>1. Holds(p, f[g].mem, f[g].value) /\ f[g].mem \in Object
      BY <1>1 DEF Tells, Info
    <2>2. IsObject(p, f[g].mem)
      BY <2>1 DEF Holds, IsObject
    <2>3. Holds(q, f[g].mem, f[g].value)
      BY <1>2, <2>1 DEF Allocates
    <2> QED
      BY <1>3, <2>1, <2>2, <2>3
  <1>9. \A g \in Entries : h[g] # Nothing => Holds(q, h[g].mem, h[g].value)
    <2> SUFFICES ASSUME NEW g \in Entries, h[g] # Nothing
                 PROVE  Holds(q, h[g].mem, h[g].value)
      OBVIOUS
    <2>1. CASE g = e
      BY <1>3, <1>4, <1>6, <2>1
    <2>2. CASE g # e
      <3>1. f[g] # Nothing /\ h[g] = f[g]
        BY <1>6, <2>2
      <3> QED
        BY <1>8, <3>1
    <2> QED
      BY <2>1, <2>2
  <1>10. ASSUME NEW j \in Entries, NEW g \in Entries, h[j] # Nothing, h[g] # Nothing,
                h[j].mem = h[g].mem
         PROVE  j = g
    <2>1. ASSUME NEW x \in Entries, x # e, h[x] # Nothing
          PROVE  h[x].mem # h[e].mem
      BY <1>4, <1>6, <1>8, <2>1
    <2>2. CASE j # e /\ g # e
      BY <1>6, <1>10, <2>2 DEF Tells
    <2> QED
      BY <1>10, <2>1, <2>2
  <1>11. ASSUME NEW x \in Object, IsObject(q, x)
         PROVE  \E g \in Entries : h[g] # Nothing /\ h[g].mem = x
    <2>1. IsObject(p, x) \/ x = o
      BY <1>2, <1>11 DEF Allocates
    <2>2. CASE x = o
      BY <1>4, <1>5, <1>6, <2>2
    <2>3. CASE IsObject(p, x)
      <3>1. PICK g \in Entries : f[g] # Nothing /\ f[g].mem = x
        BY <2>3 DEF Tells
      <3>2. g # e
        BY <3>1
      <3> QED
        BY <1>6, <3>1, <3>2
    <2> QED
      BY <2>1, <2>2, <2>3
  <1>12. Tells(q, h)
    BY <1>3, <1>6, <1>9, <1>10, <1>11 DEF Tells
  <1> QED
    BY <1>12 DEF q, h, r, o

\* While an entry is not in use there is an address where no chunk is: each chunk has a
\* live object, and no two chunks the same one.
LEMMA AnAddressIsUnused ==
  ASSUME NEW p, NEW f, Tells(p, f), NEW e \in Entries, f[e] = Nothing
  PROVE  \E a \in Addresses : \A k \in 1 .. Len(p) : p[k].addr # a
  <1> SUFFICES ASSUME \A a \in Addresses : \E k \in 1 .. Len(p) : p[k].addr = a
               PROVE  FALSE
    OBVIOUS
  <1> DEFINE Used == {g \in Entries : f[g] # Nothing}
             Rest == Entries \ {e}
  <1>1. max_live_objs \in Nat \ {0}
    BY NothingIsNoInfo
  <1>2. IsFiniteSet(Entries) /\ Cardinality(Entries) = max_live_objs
    <2> DEFINE n == max_live_objs - 1
    <2>1. 0 \in Int /\ n \in Int
      BY <1>1
    <2>2. /\ IsFiniteSet(0 .. n)
          /\ Cardinality(0 .. n) = IF 0 > n THEN 0 ELSE n - 0 + 1
      <3> HIDE DEF n
      <3> QED
        BY <2>1, FS_Interval
    <2> QED
      BY <1>1, <2>2 DEF Entries
  <1>3. IsFiniteSet(Rest) /\ Cardinality(Rest) = max_live_objs - 1
    BY <1>2, FS_RemoveElement
  <1>4. Used \in SUBSET Rest
    OBVIOUS
  <1>5. /\ IsFiniteSet(Used) /\ Cardinality(Used) <= max_live_objs - 1
        /\ Cardinality(Used) \in Nat
    <2> HIDE DEF Used, Rest
    <2>1. IsFiniteSet(Used) /\ Cardinality(Used) <= Cardinality(Rest)
      BY <1>3, <1>4, FS_Subset
    <2>2. Cardinality(Used) \in Nat
      BY <2>1, FS_CardinalityType
    <2> QED
      BY <1>3, <2>1, <2>2
  <1>6. ASSUME NEW a \in Addresses
        PROVE  \E g \in Used : f[g].mem.addr = a
    <2>1. PICK k \in 1 .. Len(p) : p[k].addr = a
      OBVIOUS
    <2>2. Taken(p[k]) # {}
      BY DEF Tells, PoolOK
    <2>3. PICK s \in Taken(p[k]) : TRUE
      BY <2>2
    <2>4. s \in Slots
      BY <2>3 DEF Taken
    <2> DEFINE x == [addr |-> a, slot |-> s]
    <2>5. x \in Object /\ x.addr = a /\ x.slot = s
      BY <2>4 DEF Object
    <2> HIDE DEF x
    <2>6. IsObject(p, x)
      BY <2>1, <2>3, <2>5 DEF IsObject
    <2>7. PICK g \in Entries : f[g] # Nothing /\ f[g].mem = x
      BY <2>5, <2>6 DEF Tells
    <2> QED
      BY <2>5, <2>7
  <1>7. \A g \in Used : f[g].mem.addr \in Addresses
    BY DEF Tells, Info, Object
  <1> DEFINE where == [g \in Used |-> f[g].mem.addr]
  <1>8. where \in Surjection(Used, Addresses)
    BY <1>6, <1>7 DEF Surjection
  <1>9. IsFiniteSet(Addresses) /\ Cardinality(Addresses) <= Cardinality(Used)
    <2> HIDE DEF where, Used
    <2> QED
      BY <1>5, <1>8, FS_Surjection
  <1>10. Cardinality(Addresses) \in Nat /\ Cardinality(Addresses) >= max_live_objs
    BY <1>9, FS_CardinalityType, TestAssumption
  <1> QED
    BY <1>1, <1>5, <1>9, <1>10

-----------------------------------------------------------------------------
(* The tester *)

LEMMA InitInv ==
  ASSUME TestInit
  PROVE  PoolInv
  <1>1. Nothing \in Info \cup {Nothing}
    OBVIOUS
  <1>2. info \in [Entries -> Info \cup {Nothing}] /\ \A e \in Entries : info[e] = Nothing
    BY <1>1 DEF TestInit
  <1>3. pool = <<>> /\ pool \in Seq(Chunk) /\ Len(pool) = 0 /\ i = 0
    BY DEF TestInit
  <1>4. PoolOK(pool)
    BY <1>3 DEF PoolOK, Distinct
  <1>5. \A x : ~IsObject(pool, x)
    BY <1>3 DEF IsObject
  <1>6. Tells(pool, info)
    BY <1>2, <1>4, <1>5 DEF Tells
  <1> QED
    BY <1>3, <1>6, PoolInvTells

LEMMA StepInv ==
  ASSUME PoolInv, [TestNext]_testVars
  PROVE  PoolInv'
  <1>1. Tells(pool, info) /\ i \in Nat
    BY PoolInvTells
  <1>2. max_live_objs \in Nat \ {0}
    BY NothingIsNoInfo
  <1>3. i < max_live_objs => i \in Entries
    BY <1>1, <1>2 DEF Entries
  <1> SUFFICES Tells(pool', info') /\ i' \in Nat
    <2>1. PoolInv' <=> (Tells(pool, info) /\ i \in Nat)'
      BY PoolInvTells, PTL
    <2> QED
      BY <2>1 DEF Tells
  <1>4. CASE Age
    <2>1. i \in Entries /\ i' \in Nat
      BY <1>1, <1>3, <1>4 DEF Age
    <2>2. CASE info[i] = Nothing
      BY <1>1, <1>4, <2>1, <2>2 DEF Age
    <2>3. CASE info[i] # Nothing /\ info[i].age > 1
      <3>1. pool' = pool /\ info' = [info EXCEPT ![i].age = @ - 1]
        BY <1>4, <2>3 DEF Age
      <3>2. Tells(pool, [info EXCEPT ![i].age = @ - 1])
        BY <1>1, <2>1, <2>3, AgeingWorks
      <3> QED
        BY <2>1, <3>1, <3>2
    <2>4. CASE info[i] # Nothing /\ ~(info[i].age > 1)
      <3>1. pool' = so_free(pool, info[i].mem) /\ info' = [info EXCEPT ![i] = Nothing]
        BY <1>4, <2>4 DEF Age
      <3>2. Tells(so_free(pool, info[i].mem), [info EXCEPT ![i] = Nothing])
        BY <1>1, <2>1, <2>4, ReleaseWorks
      <3> QED
        BY <2>1, <3>1, <3>2
    <2> QED
      BY <2>2, <2>3, <2>4
  <1>5. CASE Choose
    BY <1>1, <1>5 DEF Choose
  <1>6. CASE Allocate
    <2>1. i \in Entries /\ i' \in Nat
      BY <1>1, <1>3, <1>6 DEF Allocate
    <2>2. CASE info[i] # Nothing
      BY <1>1, <1>6, <2>1, <2>2 DEF Allocate
    <2>3. CASE info[i] = Nothing
      <3>1. PICK age \in Ages, value \in Values :
              /\ pool' = Written(pool, Unused, value)
              /\ info' = [info EXCEPT ![i] = [mem |-> so_alloc(pool, Unused).object,
                                             value |-> value, age |-> age]]
        BY <1>6, <2>3 DEF Allocate, Written
      <3>2. Unused \in Addresses /\ \A k \in 1 .. Len(pool) : pool[k].addr # Unused
        <4>1. \E a \in Addresses : \A k \in 1 .. Len(pool) : pool[k].addr # a
          BY <1>1, <2>1, <2>3, AnAddressIsUnused
        <4>2. DOMAIN pool = 1 .. Len(pool)
          BY <1>1 DEF Tells, PoolOK
        <4> QED
          BY <4>1, <4>2 DEF Unused
      <3> DEFINE a == Unused
      <3> HIDE DEF a
      <3>3. a \in Addresses /\ \A k \in 1 .. Len(pool) : pool[k].addr # a
        BY <3>2 DEF a
      <3>4. Tells(Written(pool, a, value),
                  [info EXCEPT ![i] = [mem |-> so_alloc(pool, a).object,
                                       value |-> value, age |-> age]])
        BY <1>1, <2>1, <2>3, <3>3, RecordWorks
      <3> QED
        BY <2>1, <3>1, <3>4 DEF a
    <2> QED
      BY <2>2, <2>3
  <1>7. CASE EndRound
    BY <1>1, <1>7 DEF EndRound
  <1>8. CASE UNCHANGED testVars
    BY <1>1, <1>8 DEF testVars
  <1> QED
    BY <1>4, <1>5, <1>6, <1>7, <1>8 DEF TestNext

LEMMA PoolInvHolds == TestSpec => []PoolInv
  <1>1. TestInit => PoolInv
    BY InitInv
  <1>2. PoolInv /\ [TestNext]_testVars => PoolInv'
    BY StepInv
  <1> QED
    BY <1>1, <1>2, PTL DEF TestSpec

\* Every live object keeps a slot of its own and its value there, from so_alloc to its
\* so_free, for any size of the chunks, any schedule of the tester and any choice of the
\* unused address where malloc puts a new chunk.
THEOREM ObjectsStaySafe == TestSpec => []ObjectsAreSafe
  <1>1. PoolInv => ObjectsAreSafe
    BY DEF PoolInv
  <1> QED
    BY <1>1, PoolInvHolds, PTL

\* num_freed, next_available and free_arr of every chunk agree, and no empty chunk stays
\* in the pool.
THEOREM BookkeepingStaysRight == TestSpec => []BookkeepingAgrees
  <1>1. PoolInv => BookkeepingAgrees
    BY DEF PoolInv
  <1> QED
    BY <1>1, PoolInvHolds, PTL

-----------------------------------------------------------------------------
(* The linked queue is a sequence *)

Links == [threadp : Items, prev : Nodes \cup {Nil}, next : Nodes \cup {Nil}]

\* The elements that a sequence of nodes holds.
Held(nd, s) == [k \in DOMAIN s |-> nd[s[k]].threadp]

\* What an order says, in the forms the proofs use.
LEMMA OrderTells ==
  ASSUME NEW nd, NEW hd, NEW tl, NEW s, Order(nd, hd, tl, s)
  PROVE  /\ s \in Seq(Nodes) /\ IsInjective(s) /\ Len(s) \in Nat /\ DOMAIN s = 1..Len(s)
         /\ DOMAIN nd = ToSet(s)
         /\ \A m \in ToSet(s) : nd[m] \in Links /\ m \in Nodes
         /\ \A k \in 1..Len(s) : s[k] \in Nodes /\ s[k] # Nil /\ s[k] \in ToSet(s)
         /\ \A m \in ToSet(s) : \E k \in 1..Len(s) : m = s[k]
         /\ \A j, k \in 1..Len(s) : s[j] = s[k] => j = k
         /\ s = <<>> <=> Len(s) = 0
         /\ hd = Nil <=> s = <<>>
         /\ s = <<>> => hd = Nil /\ tl = Nil
         /\ s # <<>> => hd = s[1] /\ tl = s[Len(s)]
         /\ \A k \in 1..Len(s) : nd[s[k]].prev = IF k = 1 THEN Nil ELSE s[k - 1]
         /\ \A k \in 1..Len(s) : nd[s[k]].next = IF k = Len(s) THEN Nil ELSE s[k + 1]
  <1>1. /\ s \in Seq(Nodes) /\ IsInjective(s)
        /\ nd \in [ToSet(s) -> Links]
        /\ hd = IF s = <<>> THEN Nil ELSE s[1]
        /\ tl = IF s = <<>> THEN Nil ELSE s[Len(s)]
        /\ \A k \in 1..Len(s) : nd[s[k]].prev = IF k = 1 THEN Nil ELSE s[k - 1]
        /\ \A k \in 1..Len(s) : nd[s[k]].next = IF k = Len(s) THEN Nil ELSE s[k + 1]
    BY Zenon DEF Order, Links
  <1>2. /\ Len(s) \in Nat /\ DOMAIN s = 1..Len(s)
        /\ s = <<>> <=> Len(s) = 0
        /\ \A k \in 1..Len(s) : s[k] \in Nodes
    BY <1>1
  <1>3. /\ \A k \in 1..Len(s) : s[k] \in ToSet(s)
        /\ \A m \in ToSet(s) : \E k \in 1..Len(s) : m = s[k]
    BY <1>2 DEF ToSet
  <1>4. \A k \in 1..Len(s) : s[k] # Nil
    BY <1>2, QueueAssumption
  <1>5. \A j, k \in 1..Len(s) : s[j] = s[k] => j = k
    BY <1>1, <1>2 DEF IsInjective
  <1>6. DOMAIN nd = ToSet(s) /\ \A m \in ToSet(s) : nd[m] \in Links
    BY <1>1
  <1>7. \A m \in ToSet(s) : m \in Nodes
    BY <1>2, <1>3
  <1>8. hd = Nil <=> s = <<>>
    <2>1. CASE s = <<>>
      BY <1>1, <2>1
    <2>2. CASE s # <<>>
      <3>1. 1 \in 1..Len(s)
        BY <1>2, <2>2
      <3>2. hd = s[1]
        BY <1>1, <2>2, Zenon
      <3> QED
        BY <1>4, <2>2, <3>1, <3>2
    <2> QED
      BY <2>1, <2>2
  <1> QED
    BY <1>1, <1>2, <1>3, <1>4, <1>5, <1>6, <1>7, <1>8, Zenon

LEMMA OrderHasItsSize ==
  ASSUME NEW s \in Seq(Nodes), IsInjective(s)
  PROVE  /\ IsFiniteSet(ToSet(s)) /\ Cardinality(ToSet(s)) = Len(s)
         /\ Cardinality(Nodes) \in Nat /\ Len(s) <= Cardinality(Nodes)
         /\ Cardinality(1..Len(s)) = Len(s)
  <1> DEFINE M == ToSet(s)
  <1>1. Len(s) \in Nat /\ DOMAIN s = 1..Len(s)
    OBVIOUS
  <1>2. s \in Bijection(1..Len(s), M)
    <2>1. s \in [1..Len(s) -> M]
      BY <1>1 DEF ToSet
    <2>2. \A y \in M : \E k \in 1..Len(s) : s[k] = y
      BY <1>1 DEF ToSet
    <2> HIDE DEF M
    <2> QED
      BY <1>1, <2>1, <2>2 DEF Bijection, Injection, Surjection, IsInjective
  <1>3. M \subseteq Nodes
    BY <1>1 DEF ToSet
  <1> HIDE DEF M
  <1>4. IsFiniteSet(1..Len(s)) /\ Cardinality(1..Len(s)) = Len(s)
    <2>1. IsFiniteSet(1..Len(s))
          /\ Cardinality(1..Len(s)) = IF 1 > Len(s) THEN 0 ELSE Len(s) - 1 + 1
      <3>1. 1 \in Int /\ Len(s) \in Int
        BY <1>1
      <3> QED
        BY <3>1, FS_Interval
    <2> QED
      BY <1>1, <2>1
  <1>5. ExistsBijection(1..Len(s), M)
    BY <1>2 DEF ExistsBijection
  <1>6. IsFiniteSet(M) /\ Cardinality(M) = Len(s)
    BY <1>4, <1>5, FS_Bijection
  <1>7. IsFiniteSet(Nodes)
    BY QueueAssumption
  <1>8. Cardinality(Nodes) \in Nat
    BY <1>7, FS_CardinalityType
  <1>9. Cardinality(M) <= Cardinality(Nodes)
    BY <1>3, <1>7, FS_Subset
  <1> QED
    BY <1>4, <1>6, <1>8, <1>9 DEF M

\* Nth follows the links.
LEMMA NthFollows ==
  ASSUME NEW s, Order(node, head, tail, s)
  PROVE  \A k \in 1..Cardinality(Nodes) : Nth[k] = IF k <= Len(s) THEN s[k] ELSE Nil
  <1> DEFINE c == Cardinality(Nodes)
             f == [k \in 1..c |-> IF k <= Len(s) THEN s[k] ELSE Nil]
             Follows(g) == g = [k \in 1..c |-> IF k = 1 THEN head ELSE After[g[k - 1]]]
  <1>1. /\ s \in Seq(Nodes) /\ IsInjective(s) /\ Len(s) \in Nat
        /\ DOMAIN node = ToSet(s)
        /\ \A k \in 1..Len(s) : s[k] \in Nodes /\ s[k] # Nil /\ s[k] \in ToSet(s)
        /\ s = <<>> <=> Len(s) = 0
        /\ s = <<>> => head = Nil
        /\ s # <<>> => head = s[1]
        /\ \A k \in 1..Len(s) : node[s[k]].next = IF k = Len(s) THEN Nil ELSE s[k + 1]
    BY OrderTells
  <1>2. c \in Nat /\ Len(s) <= c
    BY <1>1, OrderHasItsSize
  <1>3. Nil \notin ToSet(s)
    <2>1. \A m \in ToSet(s) : m \in Nodes
      BY OrderTells
    <2> QED
      BY <2>1, QueueAssumption
  <1>4. \A k \in 1..Len(s) : After[s[k]] = IF k = Len(s) THEN Nil ELSE s[k + 1]
    BY <1>1 DEF After
  <1>5. After[Nil] = Nil
    BY <1>1, <1>3 DEF After
  <1> HIDE DEF c
  <1>6. ASSUME NEW k \in 1..c
        PROVE  f[k] = IF k = 1 THEN head ELSE After[f[k - 1]]
    <2>1. CASE k = 1
      BY <1>1, <1>2, <2>1
    <2>2. CASE k # 1 /\ k - 1 <= Len(s)
      <3>1. k - 1 \in 1..c /\ k - 1 \in 1..Len(s) /\ (k - 1) + 1 = k
        BY <1>1, <1>2, <2>2
      <3>2. f[k - 1] = s[k - 1]
        BY <2>2, <3>1
      <3>3. After[f[k - 1]] = IF k - 1 = Len(s) THEN Nil ELSE s[k]
        BY <1>4, <3>1, <3>2
      <3>4. f[k] = IF k - 1 = Len(s) THEN Nil ELSE s[k]
        BY <1>1, <2>2
      <3> QED
        BY <2>2, <3>3, <3>4
    <2>3. CASE k # 1 /\ ~(k - 1 <= Len(s))
      <3>1. k - 1 \in 1..c /\ ~(k <= Len(s))
        BY <1>1, <1>2, <2>3
      <3>2. f[k - 1] = Nil /\ f[k] = Nil
        BY <2>3, <3>1
      <3> QED
        BY <1>5, <2>3, <3>2
    <2> QED
      BY <2>1, <2>2, <2>3
  <1>7. Follows(f)
    <2>1. f = [k \in 1..c |-> f[k]]
      OBVIOUS
    <2> HIDE DEF f
    <2> QED
      BY <1>6, <2>1
  <1>8. Nth = CHOOSE g : Follows(g)
    BY DEF Nth, c
  <1>9. Follows(Nth)
    <2> HIDE DEF Follows, f
    <2> QED
      BY <1>7, <1>8
  <1>10. \A k \in 1..c : Nth[k] = IF k = 1 THEN head ELSE After[Nth[k - 1]]
    <2>1. Nth = [k \in 1..c |-> IF k = 1 THEN head ELSE After[Nth[k - 1]]]
      BY <1>9
    <2> QED
      BY <2>1
  <1> HIDE DEF f, Follows
  <1>11. \A k \in 1..c : Nth[k] = f[k]
    <2> DEFINE Bad == {k \in 1..c : Nth[k] # f[k]}
    <2> SUFFICES ASSUME Bad # {} PROVE FALSE
      OBVIOUS
    <2>1. Bad \in SUBSET Nat
      BY <1>2
    <2>2. \E x \in Bad : \A y \in Bad : x <= y
      <3> HIDE DEF Bad
      <3> QED
        BY <2>1, LeastElement
    <2>3. PICK x \in Bad : \A y \in Bad : x <= y
      BY <2>2
    <2>4. x \in 1..c /\ Nth[x] # f[x]
      BY <2>3
    <2>5. x # 1
      BY <1>6, <1>10, <2>4
    <2>6. x - 1 \in 1..c /\ ~(x <= x - 1)
      BY <1>2, <2>4, <2>5
    <2>7. Nth[x - 1] = f[x - 1]
      BY <2>3, <2>6
    <2> QED
      BY <1>6, <1>10, <2>4, <2>5, <2>7
  <1> QED
    BY <1>11 DEF c, f

\* The chain of a list in order is that order.
LEMMA ChainIsTheOrder ==
  ASSUME NEW s, Order(node, head, tail, s)
  PROVE  Chain = s
  <1> DEFINE N == Len(s)
  <1>1. /\ s \in Seq(Nodes) /\ IsInjective(s) /\ N \in Nat
        /\ DOMAIN node = ToSet(s) /\ DOMAIN s = 1..N
        /\ \A k \in 1..N : s[k] \in ToSet(s)
    BY OrderTells
  <1>2. /\ Cardinality(DOMAIN node) = N /\ Cardinality(1..N) = N
        /\ Cardinality(Nodes) \in Nat /\ N <= Cardinality(Nodes)
    BY <1>1, OrderHasItsSize
  <1>3. \A k \in 1..N : Nth[k] = s[k]
    <2>1. \A k \in 1..N : k \in 1..Cardinality(Nodes) /\ k <= N
      BY <1>1, <1>2
    <2> QED
      BY <2>1, NthFollows
  <1>4. {k \in 1..N : Nth[k] \in DOMAIN node} = 1..N
    BY <1>1, <1>3
  <1>5. Chain = [k \in 1..N |-> Nth[k]]
    BY <1>2, <1>4 DEF Chain
  <1>6. s = [k \in 1..N |-> s[k]]
    BY <1>1
  <1> QED
    BY <1>3, <1>5, <1>6

\* Links that are those of a sequence's nodes.
LEMMA LinksOfNodes ==
  ASSUME NEW nd, NEW s, DOMAIN nd = ToSet(s), nd = [m \in DOMAIN nd |-> nd[m]],
         \A k \in DOMAIN s : nd[s[k]] \in Links
  PROVE  nd \in [ToSet(s) -> Links]
  <1>1. \A m \in ToSet(s) : \E k \in DOMAIN s : m = s[k]
    BY DEF ToSet
  <1>2. \A m \in ToSet(s) : nd[m] \in Links
    BY <1>1
  <1> QED
    BY <1>2

\* A new last node.
Appended(nd, tl, n, x) ==
    [m \in DOMAIN nd \cup {n} |->
        IF m = n THEN [threadp |-> x, prev |-> tl, next |-> Nil]
        ELSE [nd[m] EXCEPT !.next = IF m = tl THEN n ELSE @]]

LEMMA NodeIsAppended ==
  ASSUME NEW nd, NEW hd, NEW tl, NEW s, Order(nd, hd, tl, s),
         NEW n \in Nodes \ DOMAIN nd, NEW x \in Items,
         NEW md, md = Appended(nd, tl, n, x)
  PROVE  /\ Order(md, IF hd = Nil THEN n ELSE hd, n, Append(s, n))
         /\ Held(md, Append(s, n)) = Append(Held(nd, s), x)
  <1> DEFINE r == Append(s, n)
             N == Len(s)
  <1>1. /\ s \in Seq(Nodes) /\ IsInjective(s) /\ N \in Nat /\ DOMAIN s = 1..N
        /\ DOMAIN nd = ToSet(s)
        /\ \A m \in ToSet(s) : nd[m] \in Links /\ m \in Nodes
        /\ \A k \in 1..N : s[k] \in Nodes /\ s[k] # Nil /\ s[k] \in ToSet(s)
        /\ \A j, k \in 1..N : s[j] = s[k] => j = k
        /\ s = <<>> <=> N = 0
        /\ hd = Nil <=> s = <<>>
        /\ s = <<>> => hd = Nil /\ tl = Nil
        /\ s # <<>> => hd = s[1] /\ tl = s[N]
        /\ \A k \in 1..N : nd[s[k]].prev = IF k = 1 THEN Nil ELSE s[k - 1]
        /\ \A k \in 1..N : nd[s[k]].next = IF k = N THEN Nil ELSE s[k + 1]
    BY OrderTells
  <1>2. n \in Nodes /\ n \notin ToSet(s) /\ n # Nil
    BY <1>1, QueueAssumption
  <1>0. s \in Seq(Nodes) /\ IsInjective(s) /\ N \in Nat
    BY <1>1
  <1>3. r \in Seq(Nodes) /\ IsInjective(r) /\ ToSet(r) = ToSet(s) \cup {n}
    BY <1>0, <1>2, AppendOnce
  <1>4. /\ Len(r) = N + 1 /\ DOMAIN r = 1..N + 1
        /\ \A k \in 1..N : r[k] = s[k]
        /\ r[N + 1] = n
        /\ r # <<>>
    BY <1>0
  <1> HIDE DEF r, N
  <1>5. /\ \A k \in 1..N + 1 : k \in 1..N \/ k = N + 1
        /\ \A k \in 1..N : k \in 1..N + 1 /\ k # N + 1 /\ (k # 1 => k - 1 \in 1..N)
        /\ \A k \in 1..N : k # N => k + 1 \in 1..N
        /\ N + 1 \in 1..N + 1 /\ (N + 1) - 1 = N
        /\ N # 0 => N \in 1..N /\ 1 \in 1..N /\ N + 1 # 1
    BY <1>0
  <1>6. /\ DOMAIN md = ToSet(r)
        /\ md = [m \in DOMAIN md |-> md[m]]
        /\ md[n] = [threadp |-> x, prev |-> tl, next |-> Nil]
    BY <1>1, <1>3 DEF Appended
  <1>7. \A m \in ToSet(s) : m # n /\ md[m] = [nd[m] EXCEPT !.next = IF m = tl THEN n ELSE @]
    BY <1>1, <1>2 DEF Appended
  <1>8. \A m \in ToSet(s) : /\ md[m] \in Links
                             /\ md[m].threadp = nd[m].threadp /\ md[m].prev = nd[m].prev
                             /\ md[m].next = IF m = tl THEN n ELSE nd[m].next
    <2> SUFFICES ASSUME NEW m \in ToSet(s)
                 PROVE  /\ md[m] \in Links
                        /\ md[m].threadp = nd[m].threadp /\ md[m].prev = nd[m].prev
                        /\ md[m].next = IF m = tl THEN n ELSE nd[m].next
      OBVIOUS
    <2>1. nd[m] \in Links
      BY <1>1
    <2>2. md[m] = [nd[m] EXCEPT !.next = IF m = tl THEN n ELSE @]
      BY <1>7
    <2> QED
      BY <1>2, <2>1, <2>2 DEF Links
  <1>9. \A k \in 1..N : s[k] = tl <=> k = N
    <2> SUFFICES ASSUME NEW k \in 1..N PROVE s[k] = tl <=> k = N
      OBVIOUS
    <2>1. N # 0
      BY <1>0
    <2>2. s # <<>> /\ N \in 1..N
      BY <1>1, <1>5, <2>1
    <2> QED
      BY <1>1, <2>2
  <1>10. ASSUME NEW k \in 1..N + 1
         PROVE  /\ md[r[k]] \in Links
                /\ md[r[k]].prev = IF k = 1 THEN Nil ELSE r[k - 1]
                /\ md[r[k]].next = IF k = Len(r) THEN Nil ELSE r[k + 1]
    <2>1. CASE k \in 1..N
      <3>1. r[k] = s[k] /\ s[k] \in ToSet(s) /\ k # N + 1
        BY <1>1, <1>4, <1>5, <2>1
      <3>2. md[r[k]] \in Links
        BY <1>8, <3>1
      <3>3. md[r[k]].prev = IF k = 1 THEN Nil ELSE r[k - 1]
        <4>1. k # 1 => k - 1 \in 1..N
          BY <1>5, <2>1
        <4> QED
          BY <1>1, <1>4, <1>8, <2>1, <3>1, <4>1
      <3>4. md[r[k]].next = IF k = N THEN n ELSE nd[s[k]].next
        BY <1>8, <1>9, <2>1, <3>1
      <3>5. md[r[k]].next = r[k + 1]
        <4>1. k # N => k + 1 \in 1..N
          BY <1>5, <2>1
        <4> QED
          BY <1>1, <1>4, <2>1, <3>4, <4>1
      <3> QED
        BY <1>4, <3>1, <3>2, <3>3, <3>5
    <2>2. CASE k = N + 1
      <3>1. md[r[k]] = [threadp |-> x, prev |-> tl, next |-> Nil]
        BY <1>4, <1>6, <2>2
      <3>2. tl \in Nodes \cup {Nil}
        <4>1. s # <<>> => N \in 1..N
          BY <1>1, <1>5
        <4> QED
          BY <1>1, <4>1
      <3>3. md[r[k]] \in Links
        BY <1>2, <3>1, <3>2 DEF Links
      <3>4. tl = IF k = 1 THEN Nil ELSE r[k - 1]
        <4>1. CASE N = 0
          BY <1>1, <2>2, <4>1
        <4>2. CASE N # 0
          <5>1. k # 1 /\ k - 1 = N /\ N \in 1..N /\ s # <<>>
            BY <1>1, <1>5, <2>2, <4>2
          <5> QED
            BY <1>1, <1>4, <5>1
        <4> QED
          BY <4>1, <4>2
      <3> QED
        BY <1>4, <2>2, <3>1, <3>3, <3>4
    <2> QED
      BY <1>5, <2>1, <2>2
  <1>11. (IF hd = Nil THEN n ELSE hd) = IF r = <<>> THEN Nil ELSE r[1]
    <2>1. CASE s = <<>>
      BY <1>1, <1>4, <2>1
    <2>2. CASE s # <<>>
      <3>1. 1 \in 1..N
        BY <1>1, <1>5, <2>2
      <3> QED
        BY <1>1, <1>4, <2>2, <3>1
    <2> QED
      BY <2>1, <2>2
  <1>12. n = IF r = <<>> THEN Nil ELSE r[Len(r)]
    BY <1>4
  <1>13. Order(md, IF hd = Nil THEN n ELSE hd, n, r)
    <2> DEFINE h == IF hd = Nil THEN n ELSE hd
    <2>1. h = IF r = <<>> THEN Nil ELSE r[1]
      BY <1>11
    <2>2. \A k \in 1..Len(r) :
             /\ md[r[k]] \in Links
             /\ md[r[k]].prev = IF k = 1 THEN Nil ELSE r[k - 1]
             /\ md[r[k]].next = IF k = Len(r) THEN Nil ELSE r[k + 1]
      BY <1>4, <1>10
    <2> HIDE DEF h
    <2>3. \A k \in DOMAIN r : md[r[k]] \in Links
      BY <1>4, <2>2
    <2>4. md \in [ToSet(r) -> Links]
      BY <1>6, <2>3, LinksOfNodes
    <2>5. Order(md, h, n, r)
      BY <1>3, <1>12, <2>1, <2>2, <2>4, Zenon DEF Order, Links
    <2> QED
      BY <2>5 DEF h
  <1>14. Held(md, r) = Append(Held(nd, s), x)
    <2> DEFINE a == Held(nd, s)
               b == Held(md, r)
    <2>1. a \in Seq(Items) /\ Len(a) = N
      <3>1. \A j \in 1..N : nd[s[j]].threadp \in Items
        BY <1>1 DEF Links
      <3>2. a = [j \in 1..N |-> nd[s[j]].threadp]
        BY <1>1 DEF Held
      <3>3. a \in [1..N -> Items]
        BY <3>1, <3>2
      <3> HIDE DEF a
      <3> QED
        BY <1>0, <3>3, FunctionIsSeq
    <2>2. \A k \in 1..N : a[k] = nd[s[k]].threadp
      BY <1>1 DEF Held
    <2>3. DOMAIN b = 1..N + 1 /\ b = [k \in 1..N + 1 |-> b[k]]
      BY <1>4 DEF Held
    <2>4. \A k \in 1..N + 1 : b[k] = md[r[k]].threadp
      BY <1>4 DEF Held
    <2>5. \A k \in 1..N : b[k] = a[k]
      <3> SUFFICES ASSUME NEW k \in 1..N PROVE b[k] = a[k]
        OBVIOUS
      <3>1. k \in 1..N + 1 /\ r[k] = s[k] /\ s[k] \in ToSet(s)
        BY <1>1, <1>4, <1>5
      <3> HIDE DEF a, b
      <3> QED
        BY <1>8, <2>2, <2>4, <3>1
    <2>6. b[N + 1] = x
      <3>1. N + 1 \in 1..N + 1
        BY <1>5
      <3>2. md[n].threadp = x
        BY <1>6
      <3> HIDE DEF a, b
      <3>3. b[N + 1] = md[r[N + 1]].threadp
        BY <2>4, <3>1
      <3>4. r[N + 1] = n
        BY <1>4
      <3> QED
        BY <3>2, <3>3, <3>4
    <2> HIDE DEF a, b
    <2>7. /\ DOMAIN Append(a, x) = 1..N + 1 /\ Append(a, x)[N + 1] = x
          /\ Append(a, x) = [k \in 1..N + 1 |-> Append(a, x)[k]]
          /\ \A k \in 1..N : Append(a, x)[k] = a[k]
      <3>1. Append(a, x) \in Seq(Items) /\ Len(Append(a, x)) = N + 1
        BY <1>0, <2>1
      <3>2. Append(a, x)[N + 1] = x
        BY <2>1
      <3>3. \A k \in 1..N : Append(a, x)[k] = a[k]
        BY <2>1
      <3>4. DOMAIN Append(a, x) = 1..N + 1
        BY <3>1
      <3> DEFINE z == Append(a, x)
      <3>5. z \in Seq(Items)
        BY <3>1
      <3> HIDE DEF z
      <3>6. z = [k \in DOMAIN z |-> z[k]]
        BY <3>5
      <3> QED
        BY <3>2, <3>3, <3>4, <3>6 DEF z
    <2>8. \A k \in 1..N + 1 : b[k] = Append(a, x)[k]
      BY <1>5, <2>5, <2>6, <2>7
    <2>9. b = Append(a, x)
      BY <2>3, <2>7, <2>8
    <2> QED
      BY <2>9 DEF a, b
  <1> QED
    BY <1>13, <1>14 DEF r, N

\* A node goes, and the links close the gap.
Unlinked(nd, n) ==
    LET p == nd[n].prev
        q == nd[n].next
    IN  [m \in DOMAIN nd \ {n} |->
            [nd[m] EXCEPT !.next = IF m = p THEN q ELSE @, !.prev = IF m = q THEN p ELSE @]]

LEMMA NodeIsUnlinked ==
  ASSUME NEW nd, NEW hd, NEW tl, NEW s, Order(nd, hd, tl, s),
         NEW k \in 1..Len(s), NEW md, md = Unlinked(nd, s[k])
  PROVE  /\ Order(md, IF hd = s[k] THEN nd[s[k]].next ELSE hd,
                  IF tl = s[k] THEN nd[s[k]].prev ELSE tl, WithoutPlace(s, k))
         /\ Held(md, WithoutPlace(s, k)) = WithoutPlace(Held(nd, s), k)
  <1> DEFINE r == WithoutPlace(s, k)
             N == Len(s)
             n == s[k]
             p == nd[n].prev
             q == nd[n].next
             Place(j) == IF j < k THEN j ELSE j + 1
  <1>1. /\ s \in Seq(Nodes) /\ IsInjective(s) /\ N \in Nat /\ DOMAIN s = 1..N
        /\ DOMAIN nd = ToSet(s)
        /\ \A m \in ToSet(s) : nd[m] \in Links /\ m \in Nodes
        /\ \A j \in 1..N : s[j] \in Nodes /\ s[j] # Nil /\ s[j] \in ToSet(s)
        /\ \A j, l \in 1..N : s[j] = s[l] => j = l
        /\ s # <<>> => hd = s[1] /\ tl = s[N]
        /\ s = <<>> <=> N = 0
        /\ \A j \in 1..N : nd[s[j]].prev = IF j = 1 THEN Nil ELSE s[j - 1]
        /\ \A j \in 1..N : nd[s[j]].next = IF j = N THEN Nil ELSE s[j + 1]
    BY OrderTells
  <1>0. s \in Seq(Nodes) /\ IsInjective(s) /\ N \in Nat /\ k \in 1..N
    BY <1>1
  <1>3. /\ r \in Seq(Nodes) /\ Len(r) = N - 1 /\ IsInjective(r)
        /\ ToSet(r) = ToSet(s) \ {n}
    BY <1>0, GapCloses
  <1>4. DOMAIN r = 1..N - 1 /\ \A j \in 1..N - 1 : r[j] = s[Place(j)]
    BY DEF WithoutPlace
  <1> HIDE DEF r, N
  <1>2. k \in Nat /\ 1 <= k /\ k <= N /\ N - 1 \in Nat /\ 1 \in 1..N /\ N \in 1..N
    BY <1>0
  <1>5. \A j \in 1..N - 1 : Place(j) \in 1..N /\ Place(j) # k
    BY <1>2
  <1>6. p = IF k = 1 THEN Nil ELSE s[k - 1]
    BY <1>1
  <1>7. q = IF k = N THEN Nil ELSE s[k + 1]
    BY <1>1
  <1>8. p \in Nodes \cup {Nil} /\ q \in Nodes \cup {Nil}
    <2>1. nd[n] \in Links
      BY <1>1
    <2> QED
      BY <2>1 DEF Links
  <1> HIDE DEF p, q
  <1>9. /\ DOMAIN md = ToSet(r)
        /\ md = [m \in DOMAIN md |-> md[m]]
        /\ \A m \in ToSet(r) :
             md[m] = [nd[m] EXCEPT !.next = IF m = p THEN q ELSE @, !.prev = IF m = q THEN p ELSE @]
    BY <1>1, <1>3 DEF Unlinked, p, q
  <1>10. \A m \in ToSet(r) :
            /\ md[m] \in Links
            /\ md[m].threadp = nd[m].threadp
            /\ md[m].prev = IF m = q THEN p ELSE nd[m].prev
            /\ md[m].next = IF m = p THEN q ELSE nd[m].next
    <2> SUFFICES ASSUME NEW m \in ToSet(r)
                 PROVE  /\ md[m] \in Links
                        /\ md[m].threadp = nd[m].threadp
                        /\ md[m].prev = IF m = q THEN p ELSE nd[m].prev
                        /\ md[m].next = IF m = p THEN q ELSE nd[m].next
      OBVIOUS
    <2>1. nd[m] \in Links
      BY <1>1, <1>3
    <2>2. md[m] = [nd[m] EXCEPT !.next = IF m = p THEN q ELSE @, !.prev = IF m = q THEN p ELSE @]
      BY <1>9
    <2> QED
      BY <1>8, <2>1, <2>2 DEF Links
  <1>11. ASSUME NEW j \in 1..N - 1
         PROVE  /\ r[j] = s[Place(j)] /\ r[j] \in ToSet(r) /\ r[j] \in ToSet(s)
                /\ Place(j) \in 1..N /\ Place(j) # k
                /\ r[j] = p <=> Place(j) = k - 1
                /\ r[j] = q <=> Place(j) = k + 1
    <2>1. r[j] = s[Place(j)] /\ Place(j) \in 1..N /\ Place(j) # k
      BY <1>4, <1>5
    <2>2. r[j] \in ToSet(r) /\ r[j] \in ToSet(s)
      <3>1. r[j] \in ToSet(r)
        BY <1>4 DEF ToSet
      <3> QED
        BY <1>3, <3>1
    <2> DEFINE w == Place(j)
    <2>3. w \in 1..N /\ r[j] = s[w]
      BY <2>1
    <2> HIDE DEF w
    <2>4. r[j] = p <=> w = k - 1
      <3>1. CASE k = 1
        <4>1. s[w] # Nil /\ w # k - 1
          <5>1. w # k - 1
            BY <2>3, <3>1
          <5> QED
            BY <1>1, <2>3, <5>1
        <4> QED
          BY <1>6, <2>3, <3>1, <4>1
      <3>2. CASE k # 1
        <4>1. k - 1 \in 1..N /\ p = s[k - 1]
          BY <1>2, <1>6, <3>2
        <4> QED
          BY <1>1, <2>3, <4>1
      <3> QED
        BY <3>1, <3>2
    <2>5. r[j] = q <=> w = k + 1
      <3>1. CASE k = N
        <4>1. s[w] # Nil /\ w # k + 1
          <5>1. w # k + 1
            BY <1>2, <2>3, <3>1
          <5> QED
            BY <1>1, <2>3, <5>1
        <4> QED
          BY <1>7, <2>3, <3>1, <4>1
      <3>2. CASE k # N
        <4>1. k + 1 \in 1..N /\ q = s[k + 1]
          BY <1>2, <1>7, <3>2
        <4> QED
          BY <1>1, <2>3, <4>1
      <3> QED
        BY <3>1, <3>2
    <2> QED
      BY <2>1, <2>2, <2>4, <2>5 DEF w
  <1>12. ASSUME NEW j \in 1..N - 1
         PROVE  md[r[j]].prev = IF j = 1 THEN Nil ELSE r[j - 1]
    <2>1. md[r[j]].prev = IF r[j] = q THEN p ELSE nd[r[j]].prev
      BY <1>10, <1>11
    <2>2. CASE j < k
      <3>1. Place(j) = j /\ r[j] = s[j] /\ j \in 1..N /\ j # k + 1
        BY <1>2, <1>11, <2>2
      <3>2. r[j] # q
        BY <1>11, <3>1
      <3>3. md[r[j]].prev = IF j = 1 THEN Nil ELSE s[j - 1]
        BY <1>1, <2>1, <3>1, <3>2
      <3>4. j # 1 => r[j - 1] = s[j - 1]
        BY <1>2, <1>4, <2>2
      <3> QED
        BY <3>3, <3>4
    <2>3. CASE j = k
      <3>1. Place(j) = k + 1
        BY <2>3
      <3>2. r[j] = q
        BY <1>11, <3>1
      <3>3. md[r[j]].prev = IF k = 1 THEN Nil ELSE s[k - 1]
        BY <1>6, <2>1, <3>2
      <3>4. k # 1 => r[k - 1] = s[k - 1]
        <4>1. k # 1 => k - 1 \in 1..N - 1 /\ Place(k - 1) = k - 1
          BY <1>2
        <4> QED
          BY <1>4, <4>1
      <3> QED
        BY <2>3, <3>3, <3>4
    <2>4. CASE j > k
      <3>1. Place(j) = j + 1 /\ r[j] = s[j + 1] /\ j + 1 \in 1..N /\ j + 1 # k + 1 /\ j # 1
        BY <1>2, <1>11, <2>4
      <3>2. r[j] # q
        BY <1>11, <3>1
      <3>3. md[r[j]].prev = s[j]
        <4>1. nd[s[j + 1]].prev = IF j + 1 = 1 THEN Nil ELSE s[(j + 1) - 1]
          BY <1>1, <3>1
        <4>2. (j + 1) - 1 = j /\ j + 1 # 1
          BY <1>2
        <4> QED
          BY <2>1, <3>1, <3>2, <4>1, <4>2
      <3>4. r[j - 1] = s[j]
        <4>1. j - 1 \in 1..N - 1 /\ Place(j - 1) = j
          BY <1>2, <2>4
        <4> QED
          BY <1>4, <4>1
      <3> QED
        BY <3>1, <3>3, <3>4
    <2> QED
      BY <1>2, <2>2, <2>3, <2>4
  <1>13. ASSUME NEW j \in 1..N - 1
         PROVE  md[r[j]].next = IF j = N - 1 THEN Nil ELSE r[j + 1]
    <2>1. md[r[j]].next = IF r[j] = p THEN q ELSE nd[r[j]].next
      BY <1>10, <1>11
    <2>2. CASE j < k - 1
      <3>1. Place(j) = j /\ r[j] = s[j] /\ j \in 1..N /\ j # k - 1 /\ j # N /\ j # N - 1
        BY <1>2, <1>11, <2>2
      <3>2. r[j] # p
        BY <1>11, <3>1
      <3>3. md[r[j]].next = s[j + 1]
        BY <1>1, <2>1, <3>1, <3>2
      <3>4. r[j + 1] = s[j + 1]
        <4>1. j + 1 \in 1..N - 1 /\ Place(j + 1) = j + 1
          BY <1>2, <2>2
        <4> QED
          BY <1>4, <4>1
      <3> QED
        BY <3>1, <3>3, <3>4
    <2>3. CASE j = k - 1
      <3>1. Place(j) = k - 1
        BY <1>2, <2>3
      <3>2. r[j] = p
        BY <1>11, <3>1
      <3>3. md[r[j]].next = IF k = N THEN Nil ELSE s[k + 1]
        BY <1>7, <2>1, <3>2
      <3>4. k # N => r[k] = s[k + 1]
        <4>1. k # N => k \in 1..N - 1 /\ Place(k) = k + 1
          BY <1>2
        <4> QED
          BY <1>4, <4>1
      <3>5. j + 1 = k /\ (j = N - 1 <=> k = N)
        BY <1>2, <2>3
      <3> QED
        BY <3>3, <3>4, <3>5
    <2>4. CASE j > k - 1
      <3>1. Place(j) = j + 1 /\ r[j] = s[j + 1] /\ j + 1 \in 1..N /\ j + 1 # k - 1
        BY <1>2, <1>11, <2>4
      <3>2. r[j] # p
        BY <1>11, <3>1
      <3>3. md[r[j]].next = IF j + 1 = N THEN Nil ELSE s[(j + 1) + 1]
        BY <1>1, <2>1, <3>1, <3>2
      <3>4. j # N - 1 => r[j + 1] = s[(j + 1) + 1]
        <4>1. j # N - 1 => j + 1 \in 1..N - 1 /\ Place(j + 1) = (j + 1) + 1
          BY <1>2, <2>4
        <4> QED
          BY <1>4, <4>1
      <3>5. j = N - 1 <=> j + 1 = N
        BY <1>2
      <3> QED
        BY <3>3, <3>4, <3>5
    <2> QED
      BY <1>2, <2>2, <2>3, <2>4
  <1>14. (IF hd = n THEN q ELSE hd) = IF r = <<>> THEN Nil ELSE r[1]
    <2>1. hd = s[1] /\ 1 \in 1..N /\ (r = <<>> <=> N = 1)
      <3>1. s # <<>> /\ 1 \in 1..N
        <4>1. N # 0 /\ 1 \in 1..N
          BY <1>2
        <4> QED
          BY <1>1, <4>1
      <3>2. r = <<>> <=> N = 1
        BY <1>2, <1>3
      <3> QED
        BY <1>1, <3>1, <3>2
    <2>2. CASE k = 1
      <3>1. (IF hd = n THEN q ELSE hd) = IF N = 1 THEN Nil ELSE s[2]
        BY <1>7, <2>1, <2>2
      <3>2. N # 1 => r[1] = s[2]
        <4>1. N # 1 => 1 \in 1..N - 1 /\ Place(1) = 2
          BY <1>2, <2>2
        <4> QED
          BY <1>4, <4>1
      <3> QED
        BY <2>1, <3>1, <3>2
    <2>3. CASE k # 1
      <3>1. hd # n
        BY <1>1, <2>1, <2>3
      <3>2. 1 \in 1..N - 1 /\ Place(1) = 1 /\ N # 1
        BY <1>2, <2>3
      <3>3. r[1] = s[1]
        BY <1>4, <3>2
      <3> QED
        BY <2>1, <3>1, <3>2, <3>3
    <2> QED
      BY <2>2, <2>3
  <1>15. (IF tl = n THEN p ELSE tl) = IF r = <<>> THEN Nil ELSE r[Len(r)]
    <2>1. tl = s[N] /\ N \in 1..N /\ (r = <<>> <=> N = 1)
      <3>1. s # <<>> /\ N \in 1..N
        <4>1. N # 0 /\ N \in 1..N
          BY <1>2
        <4> QED
          BY <1>1, <4>1
      <3>2. r = <<>> <=> N = 1
        BY <1>2, <1>3
      <3> QED
        BY <1>1, <3>1, <3>2
    <2>2. CASE k = N
      <3>1. (IF tl = n THEN p ELSE tl) = IF N = 1 THEN Nil ELSE s[N - 1]
        BY <1>6, <2>1, <2>2
      <3>2. N # 1 => r[N - 1] = s[N - 1]
        <4>1. N # 1 => N - 1 \in 1..N - 1 /\ Place(N - 1) = N - 1
          BY <1>2, <2>2
        <4> QED
          BY <1>4, <4>1
      <3> QED
        BY <1>3, <2>1, <3>1, <3>2
    <2>3. CASE k # N
      <3>1. tl # n
        BY <1>1, <2>1, <2>3
      <3>2. N - 1 \in 1..N - 1 /\ Place(N - 1) = N /\ N # 1
        BY <1>2, <2>3
      <3>3. r[N - 1] = s[N]
        BY <1>4, <3>2
      <3> QED
        BY <1>3, <2>1, <3>1, <3>2, <3>3
    <2> QED
      BY <2>2, <2>3
  <1>16. Order(md, IF hd = n THEN q ELSE hd, IF tl = n THEN p ELSE tl, r)
    <2> DEFINE h == IF hd = n THEN q ELSE hd
               t == IF tl = n THEN p ELSE tl
    <2>1. /\ h = IF r = <<>> THEN Nil ELSE r[1]
          /\ t = IF r = <<>> THEN Nil ELSE r[Len(r)]
      BY <1>14, <1>15
    <2>2. /\ \A j \in 1..Len(r) : md[r[j]].prev = IF j = 1 THEN Nil ELSE r[j - 1]
          /\ \A j \in 1..Len(r) : md[r[j]].next = IF j = Len(r) THEN Nil ELSE r[j + 1]
      BY <1>3, <1>12, <1>13
    <2>3. \A j \in DOMAIN r : md[r[j]] \in Links
      BY <1>4, <1>10, <1>11
    <2> HIDE DEF h, t
    <2>4. DOMAIN md = ToSet(r) /\ md = [m \in DOMAIN md |-> md[m]]
      BY <1>9
    <2>5. md \in [ToSet(r) -> Links]
      BY <2>3, <2>4, LinksOfNodes
    <2>6. Order(md, h, t, r)
      BY <1>3, <2>1, <2>2, <2>5, Zenon DEF Order, Links
    <2> QED
      BY <2>6 DEF h, t
  <1>17. Held(md, r) = WithoutPlace(Held(nd, s), k)
    <2> DEFINE a == Held(nd, s)
               b == Held(md, r)
    <2>1. a \in Seq(Items) /\ Len(a) = N
      <3>1. \A j \in 1..N : nd[s[j]].threadp \in Items
        BY <1>1 DEF Links
      <3>2. a = [j \in 1..N |-> nd[s[j]].threadp]
        BY <1>1 DEF Held
      <3>3. a \in [1..N -> Items]
        BY <3>1, <3>2
      <3> HIDE DEF a
      <3> QED
        BY <1>0, <3>3, FunctionIsSeq
    <2>2. \A j \in 1..N : a[j] = nd[s[j]].threadp
      BY <1>1 DEF Held
    <2>3. /\ b = [j \in 1..N - 1 |-> md[r[j]].threadp]
      BY <1>4 DEF Held
    <2>4. WithoutPlace(a, k) = [j \in 1..N - 1 |-> IF j < k THEN a[j] ELSE a[j + 1]]
      BY <2>1 DEF WithoutPlace
    <2> HIDE DEF a, b
    <2>5. \A j \in 1..N - 1 : md[r[j]].threadp = IF j < k THEN a[j] ELSE a[j + 1]
      <3> SUFFICES ASSUME NEW j \in 1..N - 1
                   PROVE  md[r[j]].threadp = IF j < k THEN a[j] ELSE a[j + 1]
        OBVIOUS
      <3>1. md[r[j]].threadp = nd[s[Place(j)]].threadp /\ Place(j) \in 1..N
        BY <1>3, <1>10, <1>11
      <3>2. md[r[j]].threadp = a[Place(j)]
        BY <2>2, <3>1
      <3> QED
        BY <3>2
    <2>6. b = WithoutPlace(a, k)
      BY <2>3, <2>4, <2>5
    <2> QED
      BY <2>6 DEF a, b
  <1> QED
    BY <1>16, <1>17 DEF r, N, p, q

\* What an order of the queue's nodes says of the sequence that the queue is.
OrderMeans(s) ==
    /\ Chain = s
    /\ Elements = Held(node, s)
    /\ Elements \in Seq(Items) /\ Len(Elements) = Len(s)
    /\ Cardinality(DOMAIN node) = Len(Elements)
    /\ queue_empty <=> Elements = <<>>

OrdersMean == \A s : Order(node, head, tail, s) => OrderMeans(s)

LEMMA QueueIsItsOrder == OrdersMean
  <1> SUFFICES ASSUME NEW s, Order(node, head, tail, s) PROVE OrderMeans(s)
    BY DEF OrdersMean
  <1> DEFINE N == Len(s)
             a == Held(node, s)
  <1>1. /\ s \in Seq(Nodes) /\ IsInjective(s) /\ N \in Nat /\ DOMAIN s = 1..N
        /\ DOMAIN node = ToSet(s)
        /\ \A m \in ToSet(s) : node[m] \in Links
        /\ \A j \in 1..N : s[j] \in ToSet(s)
        /\ s = <<>> <=> N = 0
        /\ head = Nil <=> s = <<>>
    BY OrderTells
  <1>2. Chain = s
    BY ChainIsTheOrder
  <1>3. Elements = a
    BY <1>2 DEF Elements, Held
  <1>4. a \in [1..N -> Items]
    <2>1. \A j \in 1..N : node[s[j]].threadp \in Items
      BY <1>1 DEF Links
    <2>2. a = [j \in 1..N |-> node[s[j]].threadp]
      BY <1>1 DEF Held
    <2> QED
      BY <2>1, <2>2
  <1> HIDE DEF a
  <1>5. a \in Seq(Items) /\ Len(a) = N
    BY <1>1, <1>4, FunctionIsSeq
  <1>6. a = <<>> <=> N = 0
    BY <1>5
  <1>7. Cardinality(DOMAIN node) = N
    BY <1>1, OrderHasItsSize
  <1> QED
    BY <1>1, <1>2, <1>3, <1>5, <1>6, <1>7 DEF OrderMeans, queue_empty, a

LEMMA NoNodesNoElements ==
  DOMAIN node = {} => Elements = <<>> /\ Cardinality(DOMAIN node) = 0
  <1> SUFFICES ASSUME DOMAIN node = {} PROVE Elements = <<>> /\ Cardinality(DOMAIN node) = 0
    OBVIOUS
  <1>1. Cardinality({}) = 0
    BY FS_EmptySet
  <1>2. {k \in 1..0 : Nth[k] \in DOMAIN node} = {}
    OBVIOUS
  <1>3. Chain = [k \in 1..0 |-> Nth[k]]
    BY <1>1, <1>2 DEF Chain
  <1>4. DOMAIN Chain = {}
    BY <1>3
  <1> QED
    BY <1>1, <1>4 DEF Elements

\* The first element goes.
LEMMA FirstGoes ==
  ASSUME NEW S, NEW s \in Seq(S), s # <<>>
  PROVE  WithoutPlace(s, 1) = Tail(s) /\ Head(s) = s[1]
  <1> DEFINE t == Tail(s)
             r == WithoutPlace(s, 1)
  <1>1. Len(s) \in Nat /\ Len(s) # 0
    OBVIOUS
  <1>2. /\ t \in Seq(S) /\ Len(t) = Len(s) - 1
        /\ \A j \in 1..Len(s) - 1 : t[j] = s[j + 1]
    OBVIOUS
  <1>3. t = [j \in 1..Len(s) - 1 |-> s[j + 1]]
    <2>1. DOMAIN t = 1..Len(s) - 1
      BY <1>1, <1>2
    <2> HIDE DEF t
    <2>2. t = [j \in DOMAIN t |-> t[j]]
      BY <1>2
    <2> QED
      BY <1>2, <2>1, <2>2
  <1>4. \A j \in 1..Len(s) - 1 : ~(j < 1)
    BY <1>1
  <1>5. r = [j \in 1..Len(s) - 1 |-> s[j + 1]]
    BY <1>4 DEF WithoutPlace
  <1>6. Head(s) = s[1]
    OBVIOUS
  <1> QED
    BY <1>3, <1>5, <1>6

\* The first of an element goes.
PlaceOf(a, x) == SelectInSeq(a, LAMBDA v : v = x)

LEMMA FirstOfItGoes ==
  ASSUME NEW S, NEW a \in Seq(S), NEW x, NEW place, place = PlaceOf(a, x)
  PROVE  /\ place = 0 => RemoveFirst(a, x) = a /\ ~Contains(a, x)
         /\ place # 0 => /\ place \in 1..Len(a) /\ a[place] = x
                         /\ RemoveFirst(a, x) = WithoutPlace(a, place)
                         /\ Contains(a, x)
  <1> DEFINE I == {k \in 1..Len(a) : a[k] = x}
  <1>1. place = IF I # {} THEN Min(I) ELSE 0
    BY DEF PlaceOf, SelectInSeq
  <1>2. Len(a) \in Nat /\ I \subseteq Nat /\ 0 \notin I
    OBVIOUS
  <1>3. Contains(a, x) <=> I # {}
    BY DEF Contains
  <1>4. CASE I = {}
    <2>1. RemoveFirst(a, x) = a
      BY <1>4 DEF RemoveFirst
    <2> QED
      BY <1>1, <1>3, <1>4, <2>1
  <1>5. CASE I # {}
    <2>1. \E k \in I : \A j \in I : k <= j
      <3> HIDE DEF I
      <3> QED
        BY <1>2, <1>5, LeastElement
    <2>2. Min(I) \in I
      <3> HIDE DEF I
      <3> QED
        BY <2>1 DEF Min
    <2>3. place \in I /\ place # 0
      BY <1>1, <1>2, <1>5, <2>2
    <2>4. place \in 1..Len(a) /\ a[place] = x
      BY <2>3
    <2>5. RemoveFirst(a, x) = RemoveAt(a, place)
      BY <2>4 DEF RemoveFirst, PlaceOf
    <2>6. RemoveAt(a, place) = WithoutPlace(a, place)
      BY <2>4, RemoveAtClosesGap
    <2> QED
      BY <1>3, <1>5, <2>3, <2>4, <2>5, <2>6
  <1> QED
    BY <1>4, <1>5

\* What an order of the nodes says after a step.
LEMMA OrderMeansNext ==
  ASSUME NEW s, Order(node', head', tail', s)
  PROVE  /\ Chain' = s
         /\ Elements' = Held(node', s)
         /\ Cardinality(DOMAIN node') = Len(Elements')
         /\ head' = Nil <=> Elements' = <<>>
         /\ status' # "cleared" => QueueInv'
  <1>1. OrdersMean'
    BY QueueIsItsOrder, PTL
  <1>2. OrderMeans(s)'
    BY <1>1 DEF OrdersMean
  <1>3. /\ Chain' = s
        /\ Elements' = Held(node', s)
        /\ Cardinality(DOMAIN node') = Len(Elements')
        /\ head' = Nil <=> Elements' = <<>>
    BY <1>2, Zenon DEF OrderMeans, queue_empty
  <1> QED
    BY <1>3 DEF QueueInv

\* An order of the nodes before a step.
LEMMA OrderMeansNow ==
  ASSUME QueueInv, status # "cleared"
  PROVE  /\ Order(node, head, tail, Chain)
         /\ Elements = Held(node, Chain)
         /\ Elements \in Seq(Items) /\ Len(Elements) = Len(Chain)
         /\ Cardinality(DOMAIN node) = Len(Elements)
         /\ head = Nil <=> Elements = <<>>
  <1>1. Order(node, head, tail, Chain)
    BY DEF QueueInv
  <1>2. OrderMeans(Chain)
    BY <1>1, QueueIsItsOrder DEF OrdersMean
  <1> QED
    BY <1>1, <1>2, Zenon DEF OrderMeans, queue_empty

\* The queue becomes q, as the abstract queue would.
NowHolds(q) ==
    /\ QueueInv'
    /\ Elements' = q
    /\ Queue!Becomes(q)

LEMMA OrderBecomes ==
  ASSUME NEW s, Order(node', head', tail', s), NEW q, Held(node', s) = q,
         status' # "cleared"
  PROVE  NowHolds(q)
  <1>1. /\ Elements' = q /\ Cardinality(DOMAIN node') = Len(Elements')
        /\ head' = Nil <=> Elements' = <<>>
        /\ QueueInv'
    BY OrderMeansNext
  <1>2. (status = "cleared" \/ queue_empty)' = (q = <<>>)
    BY <1>1 DEF queue_empty
  <1> QED
    BY <1>1, <1>2 DEF NowHolds, Queue!Becomes

LEMMA NothingMoves ==
  ASSUME QueueInv, status # "cleared", status' # "cleared", UNCHANGED <<node, head, tail>>
  PROVE  QueueInv' /\ UNCHANGED <<Elements, status = "cleared" \/ queue_empty, Cardinality(DOMAIN node)>>
  <1>1. Order(node', head', tail', Chain) /\ Elements = Held(node', Chain)
    BY OrderMeansNow
  <1>2. Elements' = Held(node', Chain) /\ QueueInv'
    BY <1>1, OrderMeansNext
  <1>3. (status = "cleared" \/ queue_empty)' = (status = "cleared" \/ queue_empty)
    BY DEF queue_empty
  <1> QED
    BY <1>1, <1>2, <1>3

QueueLives == QueueInv /\ status = "live"

LEMMA AppendStep ==
  ASSUME QueueLives, NEW x \in Items, queue_append(x)
  PROVE  QueueInv' /\ (Queue!Put(x) \/ Queue!Abort)
  <1>1. /\ Order(node, head, tail, Chain) /\ Elements = Held(node, Chain)
        /\ QueueInv /\ status = "live"
    BY OrderMeansNow DEF QueueLives
  <1>2. CASE status' = "aborted" /\ UNCHANGED <<node, head, tail, answer>>
    <2>1. /\ QueueInv'
          /\ UNCHANGED <<Elements, status = "cleared" \/ queue_empty, Cardinality(DOMAIN node)>>
      BY <1>1, <1>2, NothingMoves
    <2> QED
      BY <1>2, <2>1 DEF Queue!Abort
  <1>3. ASSUME NEW n \in Nodes \ DOMAIN node,
               node' = Appended(node, IF queue_empty THEN Nil ELSE tail, n, x),
               head' = IF queue_empty THEN n ELSE head,
               tail' = n, UNCHANGED <<answer, status>>
        PROVE  QueueInv' /\ Queue!Put(x)
    <2>1. tail = IF queue_empty THEN Nil ELSE tail
      BY <1>1, OrderTells DEF queue_empty
    <2>2. node' = Appended(node, tail, n, x)
      BY <1>3, <2>1
    <2>3. /\ Order(node', IF head = Nil THEN n ELSE head, n, Append(Chain, n))
          /\ Held(node', Append(Chain, n)) = Append(Held(node, Chain), x)
      BY <1>1, <2>2, NodeIsAppended
    <2>4. Order(node', head', tail', Append(Chain, n))
      BY <1>3, <2>3 DEF queue_empty
    <2>5. NowHolds(Append(Elements, x))
      BY <1>1, <1>3, <2>3, <2>4, OrderBecomes
    <2> QED
      BY <1>3, <2>5 DEF NowHolds, Queue!Put
  <1> QED
    BY <1>2, <1>3 DEF queue_append, Appended

\* After queue_take and after queue_remove one node is unlinked.
LEMMA UnlinkBecomes ==
  ASSUME QueueLives, NEW k \in 1..Len(Chain), UNCHANGED status,
         node' = Unlinked(node, Chain[k]),
         head' = IF head = Chain[k] THEN node[Chain[k]].next ELSE head,
         tail' = IF tail = Chain[k] THEN node[Chain[k]].prev ELSE tail
  PROVE  NowHolds(WithoutPlace(Elements, k))
  <1>1. /\ Order(node, head, tail, Chain) /\ Elements = Held(node, Chain)
        /\ status = "live"
    BY OrderMeansNow DEF QueueLives
  <1>2. /\ Order(node', IF head = Chain[k] THEN node[Chain[k]].next ELSE head,
                  IF tail = Chain[k] THEN node[Chain[k]].prev ELSE tail, WithoutPlace(Chain, k))
        /\ Held(node', WithoutPlace(Chain, k)) = WithoutPlace(Held(node, Chain), k)
    BY <1>1, NodeIsUnlinked
  <1>3. Order(node', head', tail', WithoutPlace(Chain, k))
    BY <1>2
  <1> QED
    BY <1>1, <1>2, <1>3, OrderBecomes

LEMMA SameOperators ==
  ASSUME NEW a, NEW x
  PROVE  /\ Queue!RemoveFirst(a, x) = RemoveFirst(a, x)
         /\ Queue!Contains(a, x) <=> Contains(a, x)
  <1>1. Queue!SelectInSeq(a, LAMBDA v : v = x) = SelectInSeq(a, LAMBDA v : v = x)
    BY DEF Queue!SelectInSeq, SelectInSeq, Queue!Min, Min
  <1>2. Queue!RemoveFirst(a, x) = RemoveFirst(a, x)
    BY <1>1 DEF Queue!RemoveFirst, RemoveFirst, Queue!RemoveAt, RemoveAt
  <1> QED
    BY <1>2 DEF Queue!Contains, Contains

LEMMA RemoveStep ==
  ASSUME QueueLives, NEW x \in Items, queue_remove(x)
  PROVE  QueueInv' /\ Queue!Delete(x)
  <1> DEFINE place == SelectInSeq(Chain, LAMBDA n : node[n].threadp = x)
             a == Elements
             s == Chain
  <1>1. /\ Order(node, head, tail, s) /\ a = Held(node, s)
        /\ QueueInv /\ status = "live"
        /\ a \in Seq(Items) /\ Len(a) = Len(s)
    BY OrderMeansNow DEF QueueLives
  <1>2. \A k \in 1..Len(s) : a[k] = node[s[k]].threadp
    <2>1. DOMAIN s = 1..Len(s)
      BY <1>1, OrderTells
    <2> HIDE DEF s
    <2> QED
      BY <1>1, <2>1 DEF Held
  <1>3. {k \in 1..Len(s) : node[s[k]].threadp = x} = {k \in 1..Len(a) : a[k] = x}
    <2> HIDE DEF s, a
    <2> QED
      BY <1>1, <1>2
  <1>4. place = PlaceOf(a, x)
    <2> HIDE DEF a
    <2> QED
      BY <1>3 DEF PlaceOf, SelectInSeq
  <1>5. /\ IF place = 0 THEN answer' = 0 /\ UNCHANGED <<node, head, tail>>
           ELSE answer' = 1 /\ unlink(s[place])
        /\ UNCHANGED status
    BY DEF queue_remove
  <1> HIDE DEF place, a, s
  <1>6. /\ place = 0 => RemoveFirst(a, x) = a /\ ~Contains(a, x)
        /\ place # 0 => /\ place \in 1..Len(a) /\ a[place] = x
                        /\ RemoveFirst(a, x) = WithoutPlace(a, place)
                        /\ Contains(a, x)
    BY <1>1, <1>4, FirstOfItGoes
  <1>7. QueueInv' /\ Queue!Becomes(RemoveFirst(Elements, x))
    <2>1. CASE place = 0
      <3>1. UNCHANGED <<node, head, tail, status>>
        BY <1>5, <2>1
      <3>2. Order(node', head', tail', s) /\ Held(node', s) = RemoveFirst(a, x)
        BY <1>1, <1>6, <2>1, <3>1
      <3>3. NowHolds(RemoveFirst(a, x))
        BY <1>1, <3>1, <3>2, OrderBecomes
      <3> QED
        BY <3>3 DEF NowHolds, a
    <2>2. CASE place # 0
      <3>1. unlink(s[place]) /\ UNCHANGED status /\ place \in 1..Len(s)
        BY <1>1, <1>5, <1>6, <2>2
      <3>2. /\ node' = Unlinked(node, s[place])
            /\ head' = IF head = s[place] THEN node[s[place]].next ELSE head
            /\ tail' = IF tail = s[place] THEN node[s[place]].prev ELSE tail
        BY <3>1 DEF unlink, Unlinked
      <3>3. NowHolds(WithoutPlace(Elements, place))
        BY <3>1, <3>2, UnlinkBecomes DEF s
      <3> QED
        BY <1>6, <2>2, <3>3 DEF NowHolds, a
    <2> QED
      BY <2>1, <2>2
  <1>8. answer' = IF Contains(a, x) THEN 1 ELSE 0
    BY <1>5, <1>6
  <1>9. UNCHANGED status
    BY <1>5
  <1> QED
    BY <1>7, <1>8, <1>9, SameOperators DEF Queue!Delete, a

LEMMA ClearStep ==
  ASSUME QueueLives, queue_clear
  PROVE  QueueInv' /\ Queue!Clear
  <1>1. Order(node, head, tail, Chain)
    BY OrderMeansNow DEF QueueLives
  <1>2. DOMAIN node = ToSet(Chain) /\ DOMAIN Chain = 1..Len(Chain)
    BY <1>1, OrderTells
  <1>3. DOMAIN node \ Range(Chain) = {}
    BY <1>2 DEF Range, ToSet
  <1>4. DOMAIN node' = {} /\ status' = "cleared" /\ UNCHANGED answer
    BY <1>3 DEF queue_clear, Restrict
  <1>5. (DOMAIN node = {} => Elements = <<>> /\ Cardinality(DOMAIN node) = 0)'
    BY NoNodesNoElements, PTL
  <1>6. Elements' = <<>> /\ Cardinality(DOMAIN node)' = 0
    BY <1>4, <1>5
  <1>7. QueueInv'
    BY <1>4 DEF QueueInv
  <1>8. Queue!Becomes(<<>>)
    BY <1>4, <1>6 DEF Queue!Becomes
  <1> QED
    BY <1>4, <1>7, <1>8 DEF Queue!Clear

\* The first node goes from a list of two or more.
LEMMA HeadIsUnlinked ==
  ASSUME NEW s, Order(node, head, tail, s), Len(s) # 0, Len(s) # 1
  PROVE  Restrict([node EXCEPT ![node[head].next].prev = Nil], DOMAIN node \ {head})
           = Unlinked(node, head)
  <1> DEFINE q == node[head].next
             old == [node EXCEPT ![q].prev = Nil]
  <1>1. /\ DOMAIN s = 1..Len(s) /\ Len(s) \in Nat
        /\ DOMAIN node = ToSet(s)
        /\ \A m \in ToSet(s) : node[m] \in Links /\ m \in Nodes
        /\ \A j \in 1..Len(s) : s[j] \in ToSet(s)
        /\ s = <<>> <=> Len(s) = 0
        /\ s # <<>> => head = s[1]
        /\ \A j \in 1..Len(s) : node[s[j]].prev = IF j = 1 THEN Nil ELSE s[j - 1]
        /\ \A j \in 1..Len(s) : node[s[j]].next = IF j = Len(s) THEN Nil ELSE s[j + 1]
    BY OrderTells
  <1>2. 1 \in 1..Len(s) /\ 2 \in 1..Len(s) /\ 1 + 1 = 2 /\ 1 # Len(s) /\ head = s[1]
    <2> DEFINE n == Len(s)
    <2>1. n \in Nat /\ n # 0 /\ n # 1
      BY <1>1
    <2>2. 1 \in 1..n /\ 2 \in 1..n /\ 1 + 1 = 2 /\ 1 # n
      <3> HIDE DEF n
      <3> QED
        BY <2>1
    <2> QED
      BY <1>1, <2>1, <2>2
  <1>3. node[head].prev = Nil /\ q = s[2] /\ q \in DOMAIN node
    <2>1. node[head].prev = Nil
      BY <1>1, <1>2
    <2>2. q = s[2]
      BY <1>1, <1>2
    <2> QED
      BY <1>1, <1>2, <2>1, <2>2
  <1> HIDE DEF q
  <1>4. \A m \in DOMAIN node : m # Nil
    BY <1>1, QueueAssumption
  <1>5. ASSUME NEW m \in DOMAIN node \ {head}
        PROVE  old[m] = [node[m] EXCEPT !.next = IF m = Nil THEN q ELSE @,
                                        !.prev = IF m = q THEN Nil ELSE @]
    <2> DEFINE nx == IF m = Nil THEN q ELSE node[m].next
               pv == IF m = q THEN Nil ELSE node[m].prev
               new == [node[m] EXCEPT !.next = nx, !.prev = pv]
    <2>1. node[m] \in Links /\ m # Nil
      BY <1>1, <1>4
    <2>2. node[m] = [threadp |-> node[m].threadp, prev |-> node[m].prev, next |-> node[m].next]
      BY <2>1 DEF Links
    <2>3. nx = node[m].next
      BY <2>1
    <2>4. new = [threadp |-> node[m].threadp, prev |-> pv, next |-> nx]
      <3>1. node[m].next \in Nodes \cup {Nil} /\ node[m].prev \in Nodes \cup {Nil}
        BY <2>1 DEF Links
      <3>2. nx \in Nodes \cup {Nil} /\ pv \in Nodes \cup {Nil}
        BY <2>3, <3>1
      <3> HIDE DEF nx, pv
      <3>3. new \in Links /\ new.threadp = node[m].threadp /\ new.prev = pv /\ new.next = nx
        BY <2>1, <3>2 DEF Links
      <3> HIDE DEF new
      <3> QED
        BY <3>3 DEF Links
    <2>5. CASE m = q
      <3>1. old[m] = [node[m] EXCEPT !.prev = Nil]
        BY <2>5
      <3>2. old[m] = [threadp |-> node[m].threadp, prev |-> Nil, next |-> node[m].next]
        BY <2>2, <3>1
      <3>3. new = [threadp |-> node[m].threadp, prev |-> Nil, next |-> node[m].next]
        BY <2>5, <2>3, <2>4
      <3> QED
        BY <3>2, <3>3
    <2>6. CASE m # q
      <3>1. old[m] = node[m]
        BY <2>6
      <3>2. new = [threadp |-> node[m].threadp, prev |-> node[m].prev, next |-> node[m].next]
        BY <2>6, <2>3, <2>4
      <3> QED
        BY <2>2, <3>1, <3>2
    <2> QED
      BY <2>5, <2>6
  <1>6. Unlinked(node, head)
          = [m \in DOMAIN node \ {head} |->
               [node[m] EXCEPT !.next = IF m = Nil THEN q ELSE @, !.prev = IF m = q THEN Nil ELSE @]]
    BY <1>3 DEF Unlinked, q
  <1>7. Restrict(old, DOMAIN node \ {head}) = [m \in DOMAIN node \ {head} |-> old[m]]
    BY DEF Restrict
  <1> HIDE DEF old
  <1>8. Restrict(old, DOMAIN node \ {head}) = Unlinked(node, head)
    BY <1>5, <1>6, <1>7
  <1> QED
    BY <1>8 DEF old, q

LEMMA TakeStep ==
  ASSUME QueueLives, queue_take
  PROVE  QueueInv' /\ Queue!Take
  <1> DEFINE s == Chain
             a == Elements
  <1>1. /\ Order(node, head, tail, s) /\ a = Held(node, s)
        /\ QueueInv /\ status = "live"
        /\ a \in Seq(Items) /\ Len(a) = Len(s)
        /\ head = Nil <=> a = <<>>
    BY OrderMeansNow DEF QueueLives
  <1>2. UNCHANGED status
    BY DEF queue_take
  <1>3. CASE queue_empty
    <2>1. answer' = Nil /\ UNCHANGED <<node, head, tail>>
      BY <1>3 DEF queue_take
    <2>2. a = <<>>
      BY <1>1, <1>3 DEF queue_empty
    <2>3. /\ QueueInv'
          /\ UNCHANGED <<a, status = "cleared" \/ queue_empty, Cardinality(DOMAIN node)>>
      BY <1>1, <1>2, <2>1, NothingMoves
    <2> QED
      BY <1>2, <2>1, <2>2, <2>3 DEF Queue!Take
  <1>4. CASE ~queue_empty
    <2>1. /\ answer' = node[head].threadp
          /\ IF head = tail
             THEN head' = Nil /\ tail' = Nil /\ node' = Restrict(node, DOMAIN node \ {head})
             ELSE /\ node' = Restrict([node EXCEPT ![node[head].next].prev = Nil],
                                      DOMAIN [node EXCEPT ![node[head].next].prev = Nil] \ {head})
                  /\ head' = node[head].next
                  /\ UNCHANGED tail
      BY <1>4 DEF queue_take
    <2>2. a # <<>> /\ head # Nil
      BY <1>1, <1>4 DEF queue_empty
    <2> HIDE DEF s
    <2>3. /\ Len(s) \in Nat /\ DOMAIN s = 1..Len(s)
          /\ DOMAIN node = ToSet(s)
          /\ \A m \in ToSet(s) : \E k \in 1..Len(s) : m = s[k]
          /\ \A j, k \in 1..Len(s) : s[j] = s[k] => j = k
          /\ head = Nil <=> s = <<>>
          /\ s = <<>> <=> Len(s) = 0
          /\ s # <<>> => head = s[1] /\ tail = s[Len(s)]
          /\ \A j \in 1..Len(s) : node[s[j]].prev = IF j = 1 THEN Nil ELSE s[j - 1]
          /\ \A j \in 1..Len(s) : node[s[j]].next = IF j = Len(s) THEN Nil ELSE s[j + 1]
      BY <1>1, OrderTells
    <2>4. Len(s) # 0 /\ 1 \in 1..Len(s) /\ Len(s) \in 1..Len(s) /\ head = s[1] /\ tail = s[Len(s)]
      <3>1. Len(s) # 0 /\ Len(s) \in Nat /\ s # <<>>
        BY <2>2, <2>3
      <3>2. 1 \in 1..Len(s) /\ Len(s) \in 1..Len(s)
        BY <3>1
      <3> QED
        BY <2>3, <3>1, <3>2
    <2>5. answer' = Head(a) /\ WithoutPlace(a, 1) = Tail(a)
      <3>1. a[1] = node[s[1]].threadp
        BY <1>1, <2>3, <2>4 DEF Held
      <3>2. WithoutPlace(a, 1) = Tail(a) /\ Head(a) = a[1]
        BY <1>1, <2>2, FirstGoes
      <3> QED
        BY <2>1, <2>4, <3>1, <3>2
    <2>6. /\ node' = Unlinked(node, s[1])
          /\ head' = node[s[1]].next
          /\ tail' = IF tail = s[1] THEN node[s[1]].prev ELSE tail
      <3>1. node[s[1]].prev = Nil
        BY <2>3, <2>4
      <3>2. CASE head = tail
        <4>1. Len(s) = 1
          BY <2>3, <2>4, <3>2
        <4>2. node[s[1]].next = Nil
          BY <2>3, <2>4, <4>1
        <4>3. DOMAIN node \ {head} = {}
          BY <2>3, <2>4, <4>1
        <4>4. node' = [m \in {} |-> node[m]]
          BY <2>1, <3>2, <4>3 DEF Restrict
        <4>5. Unlinked(node, s[1]) = [m \in {} |-> node[m]]
          BY <2>4, <4>3, Zenon DEF Unlinked
        <4> QED
          BY <2>1, <2>4, <3>1, <3>2, <4>2, <4>4, <4>5
      <3>3. CASE head # tail
        <4>1. Len(s) # 1
          BY <2>4, <3>3
        <4>2. DOMAIN [node EXCEPT ![node[head].next].prev = Nil] = DOMAIN node
          OBVIOUS
        <4>3. node' = Unlinked(node, head)
          BY <1>1, <2>1, <2>4, <3>3, <4>1, <4>2, HeadIsUnlinked
        <4> QED
          BY <2>1, <2>4, <3>3, <4>3
      <3> QED
        BY <3>2, <3>3
    <2>7. NowHolds(WithoutPlace(Elements, 1))
      <3>1. head' = IF head = s[1] THEN node[s[1]].next ELSE head
        BY <2>4, <2>6
      <3> QED
        BY <1>2, <2>4, <2>6, <3>1, UnlinkBecomes DEF s
    <2>8. NowHolds(Tail(a))
      BY <2>5, <2>7
    <2> QED
      BY <1>2, <2>2, <2>5, <2>8 DEF NowHolds, Queue!Take
  <1> QED
    BY <1>3, <1>4

LEMMA QueueStarts == QueueInit => QueueInv /\ Queue!Init
  <1> SUFFICES ASSUME QueueInit PROVE QueueInv /\ Queue!Init
    OBVIOUS
  <1>1. node = <<>> /\ head = Nil /\ tail = Nil /\ answer = Nil /\ status = "live"
    BY DEF QueueInit
  <1>2. DOMAIN node = {}
    BY <1>1
  <1>3. Elements = <<>> /\ Cardinality(DOMAIN node) = 0
    BY <1>2, NoNodesNoElements
  <1>4. Order(node, head, tail, <<>>)
    <2>1. <<>> \in Seq(Nodes) /\ IsInjective(<<>>) /\ ToSet(<<>>) = {} /\ Len(<<>>) = 0
      BY DEF IsInjective, ToSet
    <2>2. node \in [{} -> Links]
      BY <1>1
    <2> QED
      BY <1>1, <2>1, <2>2 DEF Order, Links
  <1>5. Chain = <<>>
    BY <1>4, ChainIsTheOrder
  <1> QED
    BY <1>1, <1>3, <1>4, <1>5 DEF QueueInv, Queue!Init, queue_empty

LEMMA QueueSteps ==
  QueueInv /\ [QueueNext]_queueVars => QueueInv' /\ [Queue!Next]_(Queue!vars)
  <1> SUFFICES ASSUME QueueInv, [QueueNext]_queueVars
               PROVE  QueueInv' /\ [Queue!Next]_(Queue!vars)
    OBVIOUS
  <1>1. CASE QueueNext
    <2>1. QueueLives
      BY <1>1 DEF QueueNext, QueueLives
    <2>2. status = "live"
      BY <2>1 DEF QueueLives
    <2>3. CASE queue_take
      BY <2>1, <2>2, <2>3, TakeStep DEF Queue!Next
    <2>4. CASE queue_clear
      BY <2>1, <2>2, <2>4, ClearStep DEF Queue!Next
    <2>5. ASSUME NEW x \in Items, queue_append(x) PROVE QueueInv' /\ Queue!Next
      BY <2>1, <2>2, <2>5, AppendStep DEF Queue!Next
    <2>6. ASSUME NEW x \in Items, queue_remove(x) PROVE QueueInv' /\ Queue!Next
      BY <2>1, <2>2, <2>6, RemoveStep DEF Queue!Next
    <2> QED
      BY <1>1, <2>3, <2>4, <2>5, <2>6 DEF QueueNext
  <1>2. CASE UNCHANGED queueVars
    <2>1. UNCHANGED <<node, head, tail, answer, status>>
      BY <1>2 DEF queueVars
    <2>2. CASE status = "cleared"
      <3>1. DOMAIN node = {} /\ DOMAIN node' = {}
        BY <2>1, <2>2 DEF QueueInv
      <3>2. (DOMAIN node = {} => Elements = <<>> /\ Cardinality(DOMAIN node) = 0)'
        BY NoNodesNoElements, PTL
      <3>3. Elements = <<>> /\ Elements' = <<>>
        BY <3>1, <3>2, NoNodesNoElements
      <3>4. QueueInv'
        BY <2>1, <2>2, <3>1 DEF QueueInv
      <3> QED
        BY <2>1, <3>3, <3>4 DEF Queue!vars, queue_empty
    <2>3. CASE status # "cleared"
      BY <2>1, <2>3, NothingMoves DEF Queue!vars
    <2> QED
      BY <2>2, <2>3
  <1> QED
    BY <1>1, <1>2

(* Whatever the order of the calls, for any elements and wherever malloc puts *)
(* the nodes, the linked list is the sequence: each call is a step of         *)
(* AbstractQueue, which has one node of memory for each element.              *)
THEOREM LinksAreASequence == QueueSpec => ListIsSequence
  <1>1. QueueSpec => []QueueInv
    BY QueueStarts, QueueSteps, PTL DEF QueueSpec
  <1> QED
    BY <1>1, QueueStarts, QueueSteps, PTL DEF QueueSpec, ListIsSequence, Queue!Spec

=============================================================================
