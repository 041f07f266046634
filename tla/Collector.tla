------------------------------ MODULE Collector ------------------------------
(* alloc.c of lab04: the pool of subpython, its table of references and the   *)
(* stop-and-copy collector.                                                   *)
(*                                                                            *)
(* The interpreter is sequential, so its state is one record m that the       *)
(* operators take and return:                                                 *)
(*   mem     the Values in the pool, by address; memory that a collection has *)
(*           cleared, or that was never written, is not in the domain         *)
(*   table   ref_table, up to num_refs                                        *)
(*   from, to, free, alloc    the four pointers, as offsets from mem          *)
(*   wiped   the halves that a collection has memset                          *)
(*   junk    what the seen field holds in memory nobody has cleared           *)
(*   vars    global_vars, up to num_vars (see Subpython)                      *)
(*   gcs     how often this statement collected, and brimful whether one of   *)
(*           the collections met the case described at NotToCopy              *)
(*   endless a pool that never fills; used by the reference semantics only    *)
(*   status  "ok", or why the interpreter is unwinding: "error" (longjmp),    *)
(*           "exit", or "abort" (a failed assertion)                          *)
(* References count from 1 here and NULL_REF is 0. Sizes are in bytes.        *)
EXTENDS Integers, Sequences, FiniteSets, TLC

CONSTANT Half       \* HALF_MEMORY

ASSUME HalfAssumption == Half \in Nat \ {0}

NullRef == 0
Null == -1          \* an unused slot of ref_table

Failed(m) == m.status # "ok"
Fail(m, how) == [m EXCEPT !.status = how]

-----------------------------------------------------------------------------
(* Values *)

SizeOf(type, data) ==
    16 + CASE type \in {"none", "bool"} -> 0
           [] type = "int" -> 4
           [] type \in {"float", "list"} -> 8
           [] type = "dict" -> 12
           [] type = "str" -> Len(data) + 1

get_size(v) == SizeOf(v.type, v.data)

\* A Value read from memory that holds only zeros: VAL_NONE with reference 0.
Zeroed == [ref |-> 1, type |-> "none", seen |-> 0, data |-> <<>>]

At(m, a) == IF a \in DOMAIN m.mem THEN m.mem[a] ELSE Zeroed

\* The two assertions of deref.
Live(m, r) == r \in DOMAIN m.table /\ m.table[r] # Null

\* Who dereferences a reference that may be dead tests Live first.
deref(m, r) == IF Live(m, r) THEN At(m, m.table[r]) ELSE Zeroed

\* What a Value refers to, in the order the collector follows.
Links(v) == IF v.type \in {"list", "dict"}
            THEN SelectSeq(v.data, LAMBDA r : r # NullRef) ELSE <<>>

\* The addresses of the Values in the from pool.
Pool(m) == {a \in DOMAIN m.mem : m.from <= a /\ a < m.free}

-----------------------------------------------------------------------------
(* Collecting *)

CONSTANTS Junk      \* the possible contents of uncleared memory, as seen fields

mm_init(junk) ==
    [mem |-> <<>>, table |-> <<>>, from |-> 0, free |-> 0, to |-> Half, alloc |-> Half,
     wiped |-> {}, junk |-> junk, vars |-> <<>>, gcs |-> 0, brimful |-> FALSE, endless |-> FALSE,
     status |-> "ok", val |-> NullRef, loc |-> [kind |-> "var", at |-> 0, field |-> 0],
     out |-> <<>>, temp |-> 0]

\* The three tests of copy_wrapper that say "copied already". They miss the Value at
\* the very start of the upper pool, but then the third test finds it, because the
\* lower pool ends before the upper one starts. Only if it does not, as it is full to
\* the last byte, is that Value (None) copied again.
Brimful(m) == m.from < m.to /\ m.free = m.to

NotToCopy(m, r) ==
    LET a == m.table[r]
    IN  \/ m.to > m.from /\ a > m.to
        \/ m.to < m.from /\ a < m.from
        \/ a > m.free

\* Marks the Value before it copies it.
copy_wrapper_marked_first(m, r) ==
    LET a == m.table[r]
        v == [At(m, a) EXCEPT !.seen = 1]
    IN  [m EXCEPT !.mem = (m.alloc :> v) @@ (a :> v) @@ @,
                  !.table[r] = m.alloc,
                  !.alloc = @ + get_size(v)]

copy_wrapper(m, r) ==
    LET a == m.table[r]
        v == At(m, a)
    IN  [m EXCEPT !.mem = (m.alloc :> v) @@ (a :> [v EXCEPT !.seen = 1]) @@ @,
                  !.table[r] = m.alloc,
                  !.alloc = @ + get_size(v)]

\* Depth first: the Value, then what it holds, then its next.
RECURSIVE copy_val(_, _), copy_links(_, _)
copy_val(m, r) ==
    IF Failed(m) THEN m
    ELSE IF ~Live(m, r) THEN Fail(m, "abort")
    ELSE IF NotToCopy(m, r) THEN m
    ELSE copy_links(copy_wrapper(m, r), Links(deref(m, r)))

copy_links(m, rs) ==
    IF rs = <<>> THEN m ELSE copy_links(copy_val(m, Head(rs)), Tail(rs))

copy_globals(m) ==
    copy_links(m, SelectSeq([i \in 1 .. Len(m.vars) |-> m.vars[i].ref], LAMBDA r : r # NullRef))

\* A Value of the from pool that nobody copied gives its reference back.
iterate_from(m) ==
    LET dead == {m.mem[a].ref : a \in {b \in Pool(m) : m.mem[b].seen = 0}}
    IN  [m EXCEPT !.table = [r \in DOMAIN @ |-> IF r \in dead THEN Null ELSE @[r]]]

\* Clears the from pool and swaps the pools.
swap_pools(m, brimful) ==
    LET kept == {a \in DOMAIN m.mem : a < m.from \/ a >= m.from + Half}
    IN  [m EXCEPT !.mem = [a \in kept |-> m.mem[a]],
                  !.free = m.alloc, !.from = m.to, !.to = m.from, !.alloc = m.from,
                  !.wiped = @ \cup {m.from}, !.gcs = @ + 1, !.brimful = @ \/ brimful]

collect_garbage(m) ==
    LET Swapped(copied) ==
            IF Failed(copied) THEN copied ELSE swap_pools(iterate_from(copied), Brimful(m))
    IN  IF m.endless THEN m ELSE Swapped(copy_globals(m))

-----------------------------------------------------------------------------
(* Allocating *)

has_space_available(m, n) == m.endless \/ m.free + n <= m.from + Half

\* The first unused slot of the table, or a new one. The doubling of the table
\* itself is left out.
make_reference(m) ==
    LET unused == {r \in DOMAIN m.table : m.table[r] = Null}
    IN  IF unused = {} THEN Len(m.table) + 1
        ELSE CHOOSE r \in unused : \A s \in unused : r <= s

\* Nobody initialises seen.
place(m, type, data) ==
    LET r == make_reference(m)
        v == [ref |-> r, type |-> type, data |-> data,
              seen |-> IF m.from \in m.wiped THEN 0 ELSE m.junk]
    IN  [m EXCEPT !.mem = (m.free :> v) @@ @,
                  !.table = IF r > Len(@) THEN Append(@, m.free) ELSE [@ EXCEPT ![r] = m.free],
                  !.free = @ + get_size(v),
                  !.val = r]

\* Leaves the reference of the new Value in val.
mm_malloc(m, type, data) ==
    LET n == SizeOf(type, data)
        Placed(c) == IF Failed(c) THEN c
                     ELSE IF has_space_available(c, n) THEN place(c, type, data)
                     ELSE Fail(c, "exit")
    IN  Placed(IF has_space_available(m, n) THEN m ELSE collect_garbage(m))
=============================================================================
