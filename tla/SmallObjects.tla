----------------------------- MODULE SmallObjects -----------------------------
(* smallobj.c of the midterm: objects of one size in chunks of a fixed number *)
(* of slots. A pool is the sequence of its chunks, in list order; a chunk has *)
(* the address malloc gave it, and an object is a chunk's address and a slot. *)
EXTENDS Integers, SequencesExt, FiniteSetsExt

CONSTANT objects_per_chunk

ASSUME PoolAssumption == objects_per_chunk \in Nat \ {0}

Slots == 0 .. objects_per_chunk - 1
Overwritten == 238      \* 0xEE, in a slot that was freed

init_new_chunk(addr) ==
    [addr |-> addr, next_available |-> 0, num_freed |-> objects_per_chunk,
     free_arr |-> [s \in Slots |-> 0], mem |-> [s \in Slots |-> 0]]

\* The first slot from s on that is not taken, or the end of the chunk.
FreeFrom(c, s) == Min({t \in s .. objects_per_chunk - 1 : c.free_arr[t] = 0} \cup {objects_per_chunk})

update_next_avail(c) == [c EXCEPT !.next_available = FreeFrom(c, 0)]

\* What get_nonfull_chunk does to a chunk it comes by.
Passed(c) == IF c.next_available >= objects_per_chunk /\ c.num_freed > 0
             THEN update_next_avail(c) ELSE c

HasRoom(c) == c.next_available < objects_per_chunk

\* The search stops at the first chunk with room; only those before it are updated. A
\* new chunk goes to the end of the list.
get_nonfull_chunk(pool, addr) ==
    LET found == SelectInSeq(pool, LAMBDA c : HasRoom(Passed(c)))
        upto == IF found = 0 THEN Len(pool) ELSE found
        passed == [k \in DOMAIN pool |-> IF k <= upto THEN Passed(pool[k]) ELSE pool[k]]
    IN  IF found # 0 THEN [pool |-> passed, at |-> found]
        ELSE [pool |-> Append(passed, init_new_chunk(addr)), at |-> Len(pool) + 1]

\* Looks at the slots freed since only when it comes to the end, not at those taken.
find_next_avail_blindly(c) == [c EXCEPT !.next_available = @ + 1]

find_next_avail(c) == [c EXCEPT !.next_available = FreeFrom(c, @ + 1)]

alloc_object_from_chunk(c) ==
    find_next_avail([c EXCEPT !.free_arr[c.next_available] = 1, !.num_freed = @ - 1])

\* The pool afterwards and the new object. `addr` is what malloc returns if it is called.
so_alloc(pool, addr) ==
    LET r == get_nonfull_chunk(pool, addr)
        c == r.pool[r.at]
    IN  [pool |-> [r.pool EXCEPT ![r.at] = alloc_object_from_chunk(c)],
         object |-> [addr |-> c.addr, slot |-> c.next_available]]

\* Forgets the count, which tells an empty chunk from others.
free_object_uncounted(c, slot) == [c EXCEPT !.free_arr[slot] = 0, !.mem[slot] = Overwritten]

free_object_in_chunk(c, slot) ==
    [c EXCEPT !.free_arr[slot] = 0, !.num_freed = @ + 1, !.mem[slot] = Overwritten]

\* Off by one.
never_empty(c) == c.num_freed > objects_per_chunk

is_chunk_empty(c) == c.num_freed = objects_per_chunk

ChunkOf(pool, object) == SelectInSeq(pool, LAMBDA c : c.addr = object.addr)

\* An empty chunk is unlinked and given back. (An object of no chunk aborts.)
so_free(pool, object) ==
    LET k == ChunkOf(pool, object)
        freed == [pool EXCEPT ![k] = free_object_in_chunk(@, object.slot)]
    IN  IF is_chunk_empty(freed[k]) THEN RemoveAt(freed, k) ELSE freed
=============================================================================
