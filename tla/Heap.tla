--------------------------------- MODULE Heap ---------------------------------
(* mm.c of lab03 over memlib.c, driven the way eval_mm_valid of mdriver.c     *)
(* drives it.                                                                 *)
(*                                                                            *)
(* Addresses are offsets in bytes from the start of the heap, memory holds    *)
(* one integer per word of four bytes. A block starts with a word of size and *)
(* allocated bit and ends with the same word; a free block has the offsets to *)
(* its neighbours in the free list behind the first. The allocator's state is *)
(* one record: mem, brk (mem_brk) and free (free_initp).                      *)
EXTENDS Integers, FiniteSets

CONSTANTS
    Ids,            \* the indices of a trace
    FillOf,         \* the data the driver writes, one word for each index
    Sizes,          \* the sizes a trace asks for, in bytes
    MaxHeap,        \* MAX_HEAP
    MaxRequests     \* bounds the trace

ASSUME HeapAssumption == /\ MaxHeap \in Nat /\ MaxHeap % 8 = 0 /\ MaxHeap > 0
                         /\ Sizes \subseteq Nat /\ \A n \in Sizes : n % 4 = 0
                         /\ FillOf \in [Ids -> Int]

NULL == 0           \* no block starts here: it is the prologue
heap_initp == 4
MIN_SIZE == 16
MaxBlocks == MaxHeap \div 24    \* the smallest block holds a word and has 16 bytes around it
ALIGN(n) == ((n + 7) \div 8) * 8

Words == {4 * i : i \in 0 .. (MaxHeap \div 4) - 1}

mem_heap_hi(h) == h.brk - 1
Grows(h, n) == h.brk + n <= MaxHeap

-----------------------------------------------------------------------------
(* Blocks, by the address of their header *)

GET_SIZE(h, p) == (h.mem[p] \div 8) * 8
GET_ALLOC(h, p) == h.mem[p] % 8
GET_FOOTER(h, p) == h.mem[p + GET_SIZE(h, p) - 4]
GET_AFTER(h, p) == p + GET_SIZE(h, p)
GET_BEFORE(h, p) == p - GET_SIZE(h, p - 4)
GET_B_ALLOC(h, p) == GET_ALLOC(h, p - 4)

SetTags(h, p, size, alloc) ==
    [h EXCEPT !.mem[p] = size + alloc, !.mem[p + size - 4] = size + alloc]

Linked(h, p, field) == IF h.mem[p + field] = 0 THEN NULL ELSE p + h.mem[p + field]
Link(h, p, field, q) == [h EXCEPT !.mem[p + field] = IF q = NULL THEN 0 ELSE q - p]

get_prev(h, p) == Linked(h, p, 4)
get_next(h, p) == Linked(h, p, 8)
set_prev(h, p, q) == Link(h, p, 4, q)
set_next(h, p, q) == Link(h, p, 8, q)

add_front(h, p) ==
    LET own == set_next(set_prev(h, p, NULL), p, h.free)
        both == IF h.free = NULL THEN own ELSE set_prev(own, h.free, p)
    IN  [both EXCEPT !.free = p]

remove_free(h, p) ==
    LET prev == get_prev(h, p)
        next == get_next(h, p)
    IN  CASE prev = NULL /\ next = NULL -> [h EXCEPT !.free = NULL]
          [] prev = NULL /\ next # NULL -> [set_prev(h, next, NULL) EXCEPT !.free = next]
          [] prev # NULL /\ next = NULL -> set_next(h, prev, NULL)
          [] prev # NULL /\ next # NULL -> set_prev(set_next(h, prev, next), next, prev)

-----------------------------------------------------------------------------
(* Merging *)

MergesRight(h, p) == /\ GET_AFTER(h, p) <= mem_heap_hi(h)
                     /\ GET_ALLOC(h, GET_AFTER(h, p)) = 0

\* With the block after p, which leaves the free list.
Absorb(h, p, alloc) ==
    LET next == GET_AFTER(h, p)
    IN  remove_free(SetTags(h, p, GET_SIZE(h, p) + GET_SIZE(h, next), alloc), next)

coalesce_right(h, p) == IF MergesRight(h, p) THEN Absorb(h, p, 0) ELSE h

MergesLeft(h, p) == GET_BEFORE(h, p) >= heap_initp /\ GET_B_ALLOC(h, p) = 0

\* Leaves the footer at the size of the block that was freed.
coalesce_left_header_only(h, p) ==
    LET prev == GET_BEFORE(h, p)
    IN  [h EXCEPT !.mem[prev] = GET_SIZE(h, p) + GET_SIZE(h, prev)]

\* The block before p is on the free list and stays where it is there.
coalesce_left(h, p) ==
    LET prev == GET_BEFORE(h, p)
    IN  SetTags(h, prev, GET_SIZE(h, p) + GET_SIZE(h, prev), 0)

free(h, ptr) ==
    LET p == ptr - 4
        right == coalesce_right(SetTags(h, p, GET_SIZE(h, p), 0), p)
    IN  IF ptr = NULL \/ p < heap_initp THEN h
        ELSE IF MergesLeft(right, p) THEN coalesce_left(right, p)
        ELSE add_front(right, p)

-----------------------------------------------------------------------------
(* Allocating: the heap afterwards and the payload, or NULL. *)

Result(h, ptr) == [heap |-> h, ptr |-> ptr]

split_explicit(h, p, allocsize, freesize) ==
    LET new == p + allocsize
        first == SetTags(remove_free(h, p), p, allocsize, 1)
        both == add_front(SetTags(first, new, freesize, 0), new)
    IN  Result(coalesce_right(both, new), p + 4)

\* The blocks of the free list from its front, and NULL from its end on.
FreeAt(h) ==
    LET At[k \in Nat] == IF k = 0 THEN h.free
                         ELSE LET p == At[k - 1] IN IF p = NULL THEN NULL ELSE get_next(h, p)
    IN  At

\* The first of them that is large enough.
FirstFit(h, newsize) ==
    LET At == FreeAt(h)
        Ends(k) == At[k] = NULL \/ GET_SIZE(h, At[k]) >= newsize
    IN  At[CHOOSE k \in 0 .. MaxBlocks : Ends(k) /\ \A j \in 0 .. k - 1 : ~Ends(j)]

find_fit(h, newsize) ==
    LET p == FirstFit(h, newsize)
        freesize == GET_SIZE(h, p) - newsize
    IN  CASE p = NULL /\ ~Grows(h, newsize) -> Result(h, NULL)
          [] p = NULL /\ Grows(h, newsize) ->
                 Result(SetTags([h EXCEPT !.brk = @ + newsize], h.brk, newsize, 1), h.brk + 4)
          [] p # NULL /\ freesize > MIN_SIZE -> split_explicit(h, p, newsize, freesize)
          [] p # NULL /\ freesize <= MIN_SIZE ->
                 Result(remove_free(SetTags(h, p, GET_SIZE(h, p), 1), p), p + 4)

malloc(h, size) ==
    IF size = 0 THEN Result(h, NULL) ELSE find_fit(h, ALIGN(size + MIN_SIZE))

\* Also when both blocks are larger than needed by far.
expand_right(h, p, asize) ==
    IF MergesRight(h, p) /\ GET_SIZE(h, p) + GET_SIZE(h, GET_AFTER(h, p)) >= asize
    THEN Absorb(h, p, 1) ELSE h

memcpy(h, to, from, n) ==
    [h EXCEPT !.mem = [a \in Words |-> IF a \in to .. to + n - 1 THEN @[a - to + from] ELSE @[a]]]

memset(h, to, value, n) ==
    [h EXCEPT !.mem = [a \in Words |-> IF a \in to .. to + n - 1 THEN value ELSE @[a]]]

\* Frees the old block before it copies it: the free list writes its links there.
realloc_freed_first(h, old, size) ==
    LET new == malloc(free(h, old), size)
    IN  IF new.ptr = NULL THEN new ELSE Result(memcpy(new.heap, new.ptr, old, size), new.ptr)

\* oldsize is the header of the old block: the copy may go on behind the payload, by the
\* footer, the next header and (the allocated bit) one more byte, which is left out here.
realloc(h, old, size) ==
    LET asize == ALIGN(size + MIN_SIZE)
        wide == expand_right(h, old - 4, asize)
        new == malloc(wide, size)
        oldsize == wide.mem[old - 4] - 1
        copied == memcpy(new.heap, new.ptr, old, IF size < oldsize THEN size ELSE oldsize)
    IN  CASE size = 0 -> Result(free(h, old), NULL)
          [] size # 0 /\ old = NULL -> malloc(h, size)
          [] OTHER -> IF GET_SIZE(wide, old - 4) >= asize THEN Result(wide, old)
                      ELSE IF new.ptr = NULL THEN Result(wide, NULL)
                      ELSE Result(free(copied, old), new.ptr)

calloc(h, size) ==
    LET new == malloc(h, size) IN Result(memset(new.heap, new.ptr, 0, size), new.ptr)

-----------------------------------------------------------------------------
(* The driver: blocks, block_sizes and the data in each block *)

VARIABLES heap, block, requests

heapVars == <<heap, block, requests>>

None == [ptr |-> NULL, size |-> 0, fill |-> 0]
Block(ptr, size, fill) == [ptr |-> ptr, size |-> size, fill |-> fill]

\* What is asked for has come; `kept` bytes at its start hold the data already.
Take(i, r, size, kept, fill) ==
    IF r.ptr = NULL THEN heap' = r.heap /\ UNCHANGED block
    ELSE /\ heap' = memset(r.heap, r.ptr + kept, fill, size - kept)
         /\ block' = [block EXCEPT ![i] = Block(r.ptr, size, fill)]

Malloc(i, size) == /\ block[i] = None
                   /\ Take(i, malloc(heap, size), size, 0, FillOf[i])

\* Without room calloc clears through NULL, which ends the program: no step here.
Calloc(i, size) == /\ block[i] = None
                   /\ size > 0
                   /\ malloc(heap, size).ptr # NULL
                   /\ Take(i, calloc(heap, size), size, size, 0)

Realloc(i, size) ==
    LET b == block[i]
        fill == IF b = None THEN FillOf[i] ELSE b.fill
        r == realloc(heap, b.ptr, size)
    IN  IF size = 0 THEN heap' = r.heap /\ block' = [block EXCEPT ![i] = None]
        ELSE Take(i, r, size, IF size < b.size THEN size ELSE b.size, fill)

Free(i) == /\ heap' = free(heap, block[i].ptr)
           /\ block' = [block EXCEPT ![i] = None]

HeapInit == /\ heap = [mem |-> [a \in Words |-> IF a = 0 THEN 1 ELSE 0], brk |-> 4, free |-> NULL]
            /\ block = [i \in Ids |-> None]
            /\ requests = 0

Request(i) == \/ Free(i)
              \/ \E size \in Sizes : Malloc(i, size) \/ Calloc(i, size) \/ Realloc(i, size)

HeapNext == /\ requests < MaxRequests
            /\ requests' = requests + 1
            /\ \E i \in Ids : Request(i)

HeapSpec == HeapInit /\ [][HeapNext]_heapVars

-----------------------------------------------------------------------------
(* Properties *)

\* The blocks from the first to the end of the heap, as far as their sizes make sense.
BlockAt(h) ==
    LET At[k \in Nat] ==
            IF k = 0 THEN heap_initp
            ELSE LET p == At[k - 1]
                 IN  IF p >= h.brk \/ GET_SIZE(h, p) < 24 \/ GET_AFTER(h, p) > h.brk THEN h.brk
                     ELSE GET_AFTER(h, p)
    IN  At

Blocks(h) == {p \in {BlockAt(h)[k] : k \in 0 .. MaxBlocks} : p < h.brk}
FreeList(h) == {FreeAt(h)[k] : k \in 0 .. MaxBlocks} \ {NULL}

\* The two scans of mm_checkheap: along the free list, and along the heap.
ListIsLinked(h) ==
    \A p \in FreeList(h) : /\ get_prev(h, p) # NULL => get_next(h, get_prev(h, p)) = p
                           /\ GET_ALLOC(h, p) = 0

HeapIsTagged(h) ==
    \A p \in Blocks(h) : /\ (p + 4) % 8 = 0
                         /\ GET_FOOTER(h, p) = h.mem[p]
                         /\ GET_AFTER(h, p) <= h.brk

\* The driver's look at a block it got, and at the data in a block it has.
add_range(i) ==
    LET b == block[i]
    IN  /\ b.ptr % 8 = 0
        /\ b.ptr >= 0 /\ b.ptr + b.size - 1 <= mem_heap_hi(heap)
        /\ \A j \in Ids \ {i} : \/ block[j] = None
                                \/ b.ptr + b.size <= block[j].ptr
                                \/ block[j].ptr + block[j].size <= b.ptr

check_index(i) == \A a \in Words : a \in block[i].ptr .. block[i].ptr + block[i].size - 1 =>
                                     heap.mem[a] = block[i].fill

BlocksTileTheHeap ==
    /\ HeapIsTagged(heap)
    /\ \A p \in Blocks(heap) : /\ GET_SIZE(heap, p) >= 24
                               /\ GET_ALLOC(heap, p) = 0 => ~MergesRight(heap, p)

FreeListIsExact ==
    /\ ListIsLinked(heap)
    /\ FreeList(heap) = {p \in Blocks(heap) : GET_ALLOC(heap, p) = 0}
    /\ heap.free # NULL => get_prev(heap, heap.free) = NULL

(* After any sequence of requests the blocks tile the heap to its end, header *)
(* and footer of each agree, every payload is aligned, and no two free blocks *)
(* touch: what mm_checkheap looks at, and what coalescing promises. The free  *)
(* list holds exactly the free blocks, and its links lead back where they     *)
(* come from: a block missing from it is lost for good, an allocated one in   *)
(* it is handed out twice.                                                    *)
HeapIsConsistent == BlocksTileTheHeap /\ FreeListIsExact

(* Every allocated block belongs to one request, is as large as asked for, and *)
(* holds the data put there, whatever was allocated, moved and freed since:   *)
(* the checks of add_range and check_index in mdriver.c. No block leaks.      *)
DataIsSafe ==
    /\ \A i \in Ids : block[i] # None =>
           /\ add_range(i) /\ check_index(i)
           /\ block[i].size + 8 <= GET_SIZE(heap, block[i].ptr - 4)
    /\ {p \in Blocks(heap) : GET_ALLOC(heap, p) # 0} =
           {block[i].ptr - 4 : i \in {j \in Ids : block[j] # None}}
=============================================================================
