----------------------------- MODULE VirtualMem -----------------------------
(***************************************************************************)
(* The user-space virtual memory of lab08: virtualmem.c with one of its    *)
(* three page replacement policies, vmpolicy_fifo.c, vmpolicy_aging.c and  *)
(* vmpolicy_random.c.                                                      *)
(*                                                                         *)
(* The program touches one page at a time.  Where the page's protection    *)
(* does not allow the access the SIGSEGV handler runs, and the instruction *)
(* is tried again.  The handler is one step, for SIGALRM is masked while   *)
(* it runs; between two steps the SIGALRM handler may run the policy's     *)
(* timer tick.                                                             *)
(***************************************************************************)
EXTENDS Naturals, SequencesExt

CONSTANTS Page, Value,
          Zero,         \* what the swap file holds at first
          NoAccess,     \* no access is in progress
          Program,      \* the loads and stores the program makes
          MaxResident,  \* max_resident
          AgeBits,      \* SIZE_AGE
          TopBit,       \* 1 << (SIZE_AGE - 1)
          MaxTicks      \* bound: timer ticks during one access

Access == [kind : {"read", "write"}, page : Page, value : Value]

ASSUME ValueAssumption == Zero \in Value /\ NoAccess \notin Access
ASSUME ProgramAssumption == Program \subseteq Access
ASSUME MaxResidentAssumption == MaxResident \in Nat \ {0}
ASSUME AgeAssumption ==
  AgeBits \in Nat \ {0} /\ TopBit \in Nat \ {0} /\ TopBit = 2 ^ (AgeBits - 1)
\* Arithmetic, which the provers need told: they do not interpret powers.
ASSUME PowersAssumption ==
  \A n \in 0..AgeBits : 2 ^ n \in Nat /\ 2 ^ (n + 1) = 2 * 2 ^ n
ASSUME MaxTicksAssumption == MaxTicks \in Nat

VARIABLES policy,       \* the policy the program was linked with
          page_table,   \* the entry of each page
          frame,        \* what is mapped at each resident page
          swap,         \* the page's slot of the swap file
          num_resident,
          pages,        \* the policy's list of loaded pages
          age_table,    \* the aging policy's age of each of them
          access,       \* what the program is doing
          loaded,       \* what its last access returned, Zero until it does
          phase,        \* of the life of the system
          ticks,        \* timer ticks since the access began
          idle          \* history: ticks at which the page was not accessed,
                        \* since the last one at which it was

policyVars == <<pages, age_table>>
memVars == <<page_table, frame, swap, num_resident, policyVars>>
vars == <<policy, memVars, access, loaded, phase, ticks, idle>>

Policy == {"fifo", "aging", "random"}
Permission == {"NONE", "READ", "RDWR"}
Phase == {"up", "cleaned", "exited", "aborted"}

\* A page table entry.  A cleared one is zero in every bit, its permission
\* included.
Entry == [resident : BOOLEAN, accessed : BOOLEAN, dirty : BOOLEAN,
          perm : Permission \cup {"zero"}]

Cleared ==
  [resident |-> FALSE, accessed |-> FALSE, dirty |-> FALSE, perm |-> "zero"]

resident(p) == page_table[p].resident

\* vmem_init: nothing resident, the swap file full of zeros, the timer started.
Init ==
  /\ policy \in Policy
  /\ page_table = [p \in Page |-> Cleared]
  /\ frame = [p \in Page |-> Zero]
  /\ swap = [p \in Page |-> Zero]
  /\ num_resident = 0
  /\ pages = <<>>
  /\ age_table = <<>>
  /\ access = NoAccess
  /\ loaded = Zero
  /\ phase = "up"
  /\ ticks = 0
  /\ idle = [p \in Page |-> 0]

-----------------------------------------------------------------------------
\* The program's next load or store in the pool.
Ask(a) ==
  /\ phase = "up"
  /\ access = NoAccess
  /\ access' = a
  /\ loaded' = Zero
  /\ UNCHANGED <<policy, memVars, phase, ticks, idle>>

\* The access the program waits for, on a page that has to allow it.
Pending == phase = "up" /\ access # NoAccess

\* The protection of the page allows the access.
Allowed(a) ==
  page_table[a.page].perm \in (IF a.kind = "read" THEN {"READ", "RDWR"} ELSE {"RDWR"})

PerformRead ==
  /\ Pending
  /\ access.kind = "read"
  /\ Allowed(access)
  /\ loaded' = frame[access.page]
  /\ access' = NoAccess
  /\ ticks' = 0
  /\ UNCHANGED <<policy, memVars, phase, idle>>

PerformWrite ==
  /\ Pending
  /\ access.kind = "write"
  /\ Allowed(access)
  /\ frame' = [frame EXCEPT ![access.page] = access.value]
  /\ access' = NoAccess
  /\ ticks' = 0
  /\ UNCHANGED <<policy, page_table, swap, num_resident, policyVars, loaded,
                 phase, idle>>

-----------------------------------------------------------------------------
(* The policies *)

\* A search that stops one short of the end of the list.
OldestButLast(i) ==
  /\ i = 1 \/ i < Len(age_table)
  /\ \A j \in 1..(Len(age_table) - 1) : age_table[i] <= age_table[j]

\* The page whose age is the lowest, the first of them in the list.
OldestAt(i) ==
  /\ \A j \in 1..Len(age_table) : age_table[i] <= age_table[j]
  /\ \A j \in 1..(i - 1) : age_table[i] < age_table[j]

\* choose_and_evict_victim_page may take the page at place i of the list.
MayEvict(i) == CASE policy = "fifo" -> i = 1
                 [] policy = "aging" -> OldestAt(i)
                 [] policy = "random" -> TRUE

\* The list merely shortened, as if the victim were always its last entry.
LastDropped(s, i) == [j \in 1..(Len(s) - 1) |-> s[j]]

\* ... and leaves the rest of the list so: a queue moves up, an array has its
\* last entry moved to the place of the victim.
LastInPlaceOf(s, i) == [j \in 1..(Len(s) - 1) |-> IF j = i THEN Last(s) ELSE s[j]]
Without(s, i) == IF policy = "fifo" THEN Tail(s) ELSE LastInPlaceOf(s, i)

\* shift_and_set: the age of the page at place i after a tick.
Shifted(i) == (age_table[i] \div 2)
                + (IF page_table[pages[i]].accessed THEN TopBit ELSE 0)

-----------------------------------------------------------------------------
(* The SIGSEGV handler *)

\* map_page: what the table and the memory hold of page p once it is loaded,
\* with no permission so that its first access is noticed.
Mapped == [Cleared EXCEPT !.resident = TRUE, !.perm = "NONE"]

\* The limit taken as one more than it is.
FaultBeyondLimit ==
  /\ Pending
  /\ ~resident(access.page)
  /\ num_resident <= MaxResident
  /\ page_table' = [page_table EXCEPT ![access.page] = Mapped]
  /\ frame' = [frame EXCEPT ![access.page] = swap[access.page]]
  /\ num_resident' = num_resident + 1
  /\ pages' = Append(pages, access.page)
  /\ age_table' = Append(age_table, TopBit)
  /\ UNCHANGED <<policy, swap, access, loaded, phase, ticks, idle>>

\* The page at fault is not mapped, and there is room for it.
FaultWithRoom ==
  /\ Pending
  /\ ~resident(access.page)
  /\ num_resident < MaxResident
  /\ page_table' = [page_table EXCEPT ![access.page] = Mapped]
  /\ frame' = [frame EXCEPT ![access.page] = swap[access.page]]
  /\ num_resident' = num_resident + 1
  /\ pages' = Append(pages, access.page)
  /\ age_table' = Append(age_table, TopBit)
  /\ UNCHANGED <<policy, swap, access, loaded, phase, ticks, idle>>

\* Only a page used since the last tick is written back.
SavedIfAccessed(v) ==
  IF page_table[v].accessed THEN [swap EXCEPT ![v] = frame[v]] ELSE swap

\* unmap_page: the swap file once page v has been unmapped.
Saved(v) ==
  IF page_table[v].dirty THEN [swap EXCEPT ![v] = frame[v]] ELSE swap

\* The page at fault is not mapped and the page at place i makes room for it.
FaultEvicting(i) ==
  /\ Pending
  /\ ~resident(access.page)
  /\ num_resident = MaxResident
  /\ MayEvict(i)
  /\ page_table' = [page_table EXCEPT ![pages[i]] = Cleared,
                                      ![access.page] = Mapped]
  /\ swap' = Saved(pages[i])
  /\ frame' = [frame EXCEPT ![pages[i]] = Zero,
                            ![access.page] = swap[access.page]]
  /\ pages' = Append(Without(pages, i), access.page)
  /\ age_table' = Append(Without(age_table, i), TopBit)
  /\ idle' = [idle EXCEPT ![pages[i]] = 0]
  /\ UNCHANGED <<policy, num_resident, access, loaded, phase, ticks>>

\* The page is mapped without permission: it has now been accessed.
FaultOnAccess ==
  /\ Pending
  /\ resident(access.page)
  /\ page_table[access.page].perm = "NONE"
  /\ page_table' = [page_table EXCEPT
                      ![access.page] = [@ EXCEPT !.accessed = TRUE, !.perm = "READ"]]
  /\ UNCHANGED <<policy, frame, swap, num_resident, policyVars, access, loaded,
                 phase, ticks, idle>>

\* The page is marked dirty and stays read-only.
FaultOnWriteKeepsPerm ==
  /\ Pending
  /\ resident(access.page)
  /\ page_table[access.page].perm = "READ"
  /\ access.kind = "write"
  /\ page_table' = [page_table EXCEPT ![access.page].dirty = TRUE]
  /\ UNCHANGED <<policy, frame, swap, num_resident, policyVars, access, loaded,
                 phase, ticks, idle>>

\* The page may be read and a write was tried: it is now dirty.
FaultOnWrite ==
  /\ Pending
  /\ resident(access.page)
  /\ page_table[access.page].perm = "READ"
  /\ access.kind = "write"
  /\ page_table' = [page_table EXCEPT
                      ![access.page] = [@ EXCEPT !.dirty = TRUE, !.perm = "RDWR"]]
  /\ UNCHANGED <<policy, frame, swap, num_resident, policyVars, access, loaded,
                 phase, ticks, idle>>

Handler ==
  \/ FaultWithRoom
  \/ \E i \in 1..Len(pages) : FaultEvicting(i)
  \/ FaultOnAccess
  \/ FaultOnWrite

\* A system call fails, in the handler of a fault or in the tick of the aging
\* policy, which protects the pages it finds accessed: they abort.
SystemCallFails ==
  /\ phase = "up"
  /\ \/ Pending /\ ~Allowed(access)
     \/ policy = "aging" /\ \E p \in ToSet(pages) : page_table[p].accessed
  /\ phase' = "aborted"
  /\ UNCHANGED <<policy, memVars, access, loaded, ticks, idle>>

-----------------------------------------------------------------------------
(* The SIGALRM handler, and the end *)

\* The permission is not taken back.
UnaccessedKeepsPerm(e) == [e EXCEPT !.accessed = FALSE]

\* The entry of a page of the list after a tick: an accessed one is so no more,
\* and its next access will fault again.
Unaccessed(e) ==
  IF e.accessed THEN [e EXCEPT !.accessed = FALSE, !.perm = "NONE"] ELSE e

\* policy_timer_tick of the aging policy, on every page of the list; the other
\* two policies do nothing.
Tick ==
  /\ phase = "up"
  /\ policy = "aging"
  /\ Pending => ticks < MaxTicks
  /\ ticks' = IF Pending THEN ticks + 1 ELSE 0
  /\ age_table' = [i \in 1..Len(pages) |-> Shifted(i)]
  /\ page_table' = [p \in Page |-> IF p \in ToSet(pages)
                                     THEN Unaccessed(page_table[p])
                                     ELSE page_table[p]]
  /\ idle' = [p \in Page |->
       IF ~resident(p) \/ page_table[p].accessed THEN 0
       ELSE IF idle[p] = AgeBits THEN AgeBits ELSE idle[p] + 1]
  /\ UNCHANGED <<policy, frame, swap, num_resident, pages, access, loaded, phase>>

\* vmem_cleanup at the end of main() frees and forgets the list; then the
\* process ends.
Cleanup ==
  /\ phase = "up"
  /\ access = NoAccess
  /\ phase' = "cleaned"
  /\ pages' = <<>>
  /\ age_table' = <<>>
  /\ UNCHANGED <<policy, page_table, frame, swap, num_resident, access, loaded,
                 ticks, idle>>

Exit ==
  /\ phase = "cleaned"
  /\ phase' = "exited"
  /\ UNCHANGED <<policy, memVars, access, loaded, ticks, idle>>

\* The timer was never stopped: the aging policy follows the null pointer.
TickTooLate ==
  /\ policy = "aging"
  /\ phase = "cleaned"
  /\ phase' = "aborted"
  /\ UNCHANGED <<policy, memVars, access, loaded, ticks, idle>>

Over ==
  /\ phase \in {"exited", "aborted"}
  /\ UNCHANGED vars

Next ==
  \/ \E a \in Program : Ask(a)
  \/ PerformRead \/ PerformWrite
  \/ Handler \/ SystemCallFails
  \/ Tick
  \/ Cleanup \/ Exit \/ TickTooLate
  \/ Over

Spec == Init /\ [][Next]_vars

\* The instruction is tried again after each fault, and goes through when it can.
Fairness == WF_vars(Handler) /\ WF_vars(PerformRead \/ PerformWrite)

FairSpec == Spec /\ Fairness

-----------------------------------------------------------------------------
(* Safety *)

TypeOK ==
  /\ policy \in Policy
  /\ page_table \in [Page -> Entry]
  /\ frame \in [Page -> Value]
  /\ swap \in [Page -> Value]
  /\ num_resident \in 0..MaxResident
  /\ pages \in Seq(Page)
  /\ age_table \in Seq(Nat)
  /\ access \in Access \cup {NoAccess}
  /\ loaded \in Value
  /\ phase \in Phase
  /\ ticks \in 0..MaxTicks
  /\ idle \in [Page -> 0..AgeBits]

\* The policy's list and the page table agree, eviction after eviction: the
\* pages the policy may choose from are exactly the resident ones, each once,
\* and there are never more than MaxResident of them.  (The assertions of
\* map_page, unmap_page, sigsegv_handler and policy_page_mapped.)
PolicyTracksResidents ==
  phase = "up" =>
    /\ \A p \in Page : p \in ToSet(pages) <=> resident(p)
    /\ IsInjective(pages)
    /\ num_resident = Len(pages)
    /\ Len(age_table) = Len(pages)

\* What the handlers rely on to notice every change of a page: a page that may
\* be written is dirty, one that may be read was accessed, and one that is clean
\* holds what its slot of the swap file does.  Ticks take permissions back, in
\* any order with the faults, but never the dirty bit.
Noticed(p) ==
  IF resident(p)
    THEN /\ page_table[p].perm # "zero"
         /\ page_table[p].perm = "RDWR" => page_table[p].dirty
         /\ page_table[p].accessed <=> page_table[p].perm # "NONE"
         /\ ~page_table[p].dirty => frame[p] = swap[p]
    ELSE page_table[p] = Cleared

ChangesAreNoticed == \A p \in Page : Noticed(p)

\* The memory the program sees.
Contents == [p \in Page |-> IF resident(p) THEN frame[p] ELSE swap[p]]

Memory == INSTANCE AbstractMemory WITH mem <- Contents

\* The program cannot tell the pool from an array of pages that are always
\* there: no write is lost when its page is evicted, whatever the policy, the
\* faults, the ticks and the failures.
IsMemory == Memory!Spec

\* The aging policy evicts a page that nobody has used for at least as many
\* ticks as any page that stays (up to the AgeBits it can remember), although
\* its arrays are reordered by every eviction.
VictimIsLeastRecent ==
  [][policy = "aging" =>
       \A p, q \in Page :
         (resident(p) /\ ~resident(p)') /\ (resident(q) /\ resident(q)')
           => idle[p] >= idle[q]]_vars

\* What makes it so: the age of a page, read as a binary number, has its first 1
\* behind as many zeros as there are ticks since the page was last seen accessed.
AgeTells(n, k) ==
  /\ n < 2 * TopBit
  /\ n < 2 ^ (AgeBits - k)
  /\ k < AgeBits => n >= 2 ^ (AgeBits - 1 - k)

AgesTellIdle ==
  phase = "up" /\ policy = "aging" =>
    /\ \A p \in Page : ~resident(p) => idle[p] = 0
    /\ \A i \in 1..Len(pages) : AgeTells(age_table[i], idle[pages[i]])

(* Liveness *)

\* Every access is performed in the end, however many faults it takes and even
\* if ticks take back permissions in between, unless the process aborts.
AccessesComplete ==
  access # NoAccess ~> (access = NoAccess \/ phase = "aborted")

=============================================================================
