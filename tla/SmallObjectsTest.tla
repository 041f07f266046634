--------------------------- MODULE SmallObjectsTest ---------------------------
(* run_test of the midterm's tester.c: rounds in which objects age and are    *)
(* released, and others are allocated, until all have come and gone.          *)
EXTENDS SmallObjects

CONSTANTS
    max_live_objs, total_objs, Ages, Values,    \* of the command line, or drawn at random
    Addresses                                   \* where malloc may put a chunk

ASSUME TestAssumption ==
    /\ max_live_objs \in 1 .. total_objs /\ total_objs \in Nat
    /\ Ages \subseteq Nat \ {0} /\ Values \subseteq 1 .. 200
    /\ Cardinality(Addresses) >= max_live_objs

VARIABLES
    pool,           \* pool->chunk_list
    info,           \* info[i]: the object, its value and its age
    phase, i,       \* the loop in run_test, and its index
    to_allocate, allocated, released

testVars == <<pool, info, phase, i, to_allocate, allocated, released>>

Nothing == [mem |-> [addr |-> "none", slot |-> 0], value |-> 0, age |-> 0]
Entries == 0 .. max_live_objs - 1
Live == {e \in Entries : info[e] # Nothing}

\* Where malloc puts a chunk if the pool grows. Which one makes no difference, but the
\* address of a chunk given back may come again.
Unused == CHOOSE a \in Addresses : \A k \in DOMAIN pool : pool[k].addr # a

\* One entry of the first loop: it ages, and is released when its age is 0.
Age == /\ phase = "release"
       /\ i < max_live_objs
       /\ i' = i + 1
       /\ IF info[i] = Nothing THEN UNCHANGED <<pool, info, released>>
          ELSE IF info[i].age > 1
          THEN info' = [info EXCEPT ![i].age = @ - 1] /\ UNCHANGED <<pool, released>>
          ELSE /\ pool' = so_free(pool, info[i].mem)
               /\ info' = [info EXCEPT ![i] = Nothing]
               /\ released' = released + 1
       /\ UNCHANGED <<phase, to_allocate, allocated>>

\* How many objects this round allocates.
Choose == /\ phase = "release"
          /\ i = max_live_objs
          /\ LET room == max_live_objs - Cardinality(Live)
                 left == total_objs - allocated
             IN  IF left > 0 /\ room > 0
                 THEN \E n \in 1 .. room : to_allocate' = Min({n, left})
                 ELSE to_allocate' = 0
          /\ phase' = "allocate"
          /\ i' = 0
          /\ UNCHANGED <<pool, info, allocated, released>>

\* One entry of the second loop: if it is not in use, it records a new object.
Allocate ==
    /\ phase = "allocate"
    /\ i < max_live_objs
    /\ to_allocate > 0
    /\ i' = i + 1
    /\ IF info[i] # Nothing THEN UNCHANGED <<pool, info, to_allocate, allocated>>
       ELSE \E age \in Ages, value \in Values, r \in {so_alloc(pool, Unused)} :
                LET o == r.object
                    k == ChunkOf(r.pool, o)
                IN  /\ pool' = [r.pool EXCEPT ![k].mem[o.slot] = value]
                    /\ info' = [info EXCEPT ![i] = [mem |-> o, value |-> value, age |-> age]]
                    /\ to_allocate' = to_allocate - 1
                    /\ allocated' = allocated + 1
    /\ UNCHANGED <<phase, released>>

EndRound == /\ phase = "allocate"
            /\ i = max_live_objs \/ to_allocate = 0
            /\ phase' = IF released < total_objs THEN "release" ELSE "done"
            /\ i' = 0
            /\ UNCHANGED <<pool, info, to_allocate, allocated, released>>

TestInit == /\ pool = <<>>
            /\ info = [e \in Entries |-> Nothing]
            /\ phase = "release" /\ i = 0
            /\ to_allocate = 0 /\ allocated = 0 /\ released = 0

TestNext == Age \/ Choose \/ Allocate \/ EndRound

TestSpec == TestInit /\ [][TestNext]_testVars

-----------------------------------------------------------------------------
(* Properties *)

Taken(c) == {s \in Slots : c.free_arr[s] = 1}

(* Every live object has a slot of its own in a chunk of the pool, and the    *)
(* value written into it: what check_all_objects tests after every change. No *)
(* other slot is taken, and chunks are told apart by their addresses.         *)
ObjectsAreSafe ==
    /\ \A e \in Live : \E k \in DOMAIN pool :
           /\ pool[k].addr = info[e].mem.addr
           /\ info[e].mem.slot \in Taken(pool[k])
           /\ pool[k].mem[info[e].mem.slot] = info[e].value
    /\ \A e, f \in Live : info[e].mem = info[f].mem => e = f
    /\ \A k \in DOMAIN pool, s \in Slots : s \in Taken(pool[k]) =>
           \E e \in Live : info[e].mem = [addr |-> pool[k].addr, slot |-> s]
    /\ \A k, l \in DOMAIN pool : pool[k].addr = pool[l].addr => k = l

(* The three descriptions of the same slots agree: num_freed counts the free  *)
(* ones, next_available is one of them or the end, and a chunk with none      *)
(* taken has left the pool (the comments of chunk_t and smallobj_pool_t).     *)
BookkeepingAgrees ==
    \A k \in DOMAIN pool :
        LET c == pool[k]
        IN  /\ c.num_freed = objects_per_chunk - Cardinality(Taken(c))
            /\ c.next_available \in (Slots \ Taken(c)) \cup {objects_per_chunk}
            /\ Taken(c) # {}

(* The test ends, whatever ages it draws, and the pool is then as small as it *)
(* was ("Final pool size should be ... something bad happened", tester.c).    *)
TestEndsWithEmptyPool == <>[](phase = "done" /\ pool = <<>>)

-----------------------------------------------------------------------------
(* With their types, the two invariants are inductive *)

Chunk == [addr : Addresses, next_available : 0 .. objects_per_chunk,
          num_freed : 0 .. objects_per_chunk, free_arr : [Slots -> {0, 1}],
          mem : [Slots -> Values \cup {0, Overwritten}]]

Object == [addr : Addresses, slot : Slots]
Info == [mem : Object, value : Values, age : Nat]

TestTypeOK == /\ pool \in Seq(Chunk)
              /\ info \in [Entries -> Info \cup {Nothing}]
              /\ i \in Nat

PoolInv == TestTypeOK /\ ObjectsAreSafe /\ BookkeepingAgrees
=============================================================================
