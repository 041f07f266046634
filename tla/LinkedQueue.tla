----------------------------- MODULE LinkedQueue ------------------------------
(* queue.c of lab07 and of lab08, which differ in the type of an element and  *)
(* in queue_clear, which lab08 adds: a doubly linked list of nodes, each of   *)
(* them allocated by queue_append and freed when its element leaves.          *)
EXTENDS Integers, SequencesExt

CONSTANTS
    Items,      \* threads or pages
    Nodes,      \* where malloc may put a node
    Nil

ASSUME QueueAssumption == Nil \notin Items \cup Nodes /\ IsFiniteSet(Nodes)

VARIABLES
    node,               \* the fields of each allocated node
    head, tail,         \* of the queue
    answer,             \* what the last operation returned
    status              \* "live", "cleared", or "aborted" for want of memory

queueVars == <<node, head, tail, answer, status>>

\* Along the links from the head: the k-th node, and Nil from where none is allocated.
After == [p \in Nodes \cup {Nil} |-> IF p \in DOMAIN node THEN node[p].next ELSE Nil]
Nth[k \in 1 .. Cardinality(Nodes)] == IF k = 1 THEN head ELSE After[Nth[k - 1]]

Chain ==
    LET n == Cardinality({k \in 1 .. Cardinality(DOMAIN node) : Nth[k] \in DOMAIN node})
    IN  [k \in 1 .. n |-> Nth[k]]

queue_empty == head = Nil

\* Without memory for the node the process ends.
queue_append(x) ==
    \/ \E n \in Nodes \ DOMAIN node :
           LET before == IF queue_empty THEN Nil ELSE tail
               Links(m) ==
                   IF m = n THEN [threadp |-> x, prev |-> before, next |-> Nil]
                   ELSE [node[m] EXCEPT !.next = IF m = before THEN n ELSE @]
           IN  /\ node' = [m \in DOMAIN node \cup {n} |-> Links(m)]
               /\ head' = IF queue_empty THEN n ELSE head
               /\ tail' = n
               /\ UNCHANGED <<answer, status>>
    \/ status' = "aborted" /\ UNCHANGED <<node, head, tail, answer>>

queue_take ==
    /\ IF queue_empty THEN answer' = Nil /\ UNCHANGED <<node, head, tail>>
       ELSE LET second == node[head].next
                Kept(f) == Restrict(f, DOMAIN f \ {head})
            IN  /\ answer' = node[head].threadp
                /\ IF head = tail THEN head' = Nil /\ tail' = Nil /\ node' = Kept(node)
                   ELSE /\ node' = Kept([node EXCEPT ![second].prev = Nil])
                        /\ head' = second
                        /\ UNCHANGED tail
    /\ UNCHANGED status

\* The tail stays at the node that goes.
unlink_keeps_tail(n) ==
    LET p == node[n].prev
        q == node[n].next
        Links(m) == [node[m] EXCEPT !.next = IF m = p THEN q ELSE @, !.prev = IF m = q THEN p ELSE @]
    IN  /\ node' = [m \in DOMAIN node \ {n} |-> Links(m)]
        /\ head' = IF head = n THEN q ELSE head
        /\ UNCHANGED tail

\* Takes a node out of the list and frees it.
unlink(n) ==
    LET p == node[n].prev
        q == node[n].next
        Links(m) == [node[m] EXCEPT !.next = IF m = p THEN q ELSE @, !.prev = IF m = q THEN p ELSE @]
    IN  /\ node' = [m \in DOMAIN node \ {n} |-> Links(m)]
        /\ head' = IF head = n THEN q ELSE head
        /\ tail' = IF tail = n THEN p ELSE tail

queue_remove(x) ==
    LET chain == Chain
        place == SelectInSeq(chain, LAMBDA n : node[n].threadp = x)
    IN  /\ IF place = 0 THEN answer' = 0 /\ UNCHANGED <<node, head, tail>>
           ELSE answer' = 1 /\ unlink(chain[place])
        /\ UNCHANGED status

\* Before the queue itself is freed: its head still points to the first node.
queue_clear == /\ node' = Restrict(node, DOMAIN node \ Range(Chain))
               /\ status' = "cleared"
               /\ UNCHANGED <<head, tail, answer>>

QueueInit == /\ node = <<>>
             /\ head = Nil /\ tail = Nil
             /\ answer = Nil
             /\ status = "live"

QueueNext == /\ status = "live"
             /\ \/ queue_take \/ queue_clear
                \/ \E x \in Items : queue_append(x) \/ queue_remove(x)

-----------------------------------------------------------------------------
(* Properties *)

Elements == [k \in DOMAIN Chain |-> node[Chain[k]].threadp]

Queue == INSTANCE AbstractQueue WITH
    queue <- Elements,
    empty <- status = "cleared" \/ queue_empty,
    memory <- Cardinality(DOMAIN node)

(* The list is the sequence it stands for after any calls: also when an       *)
(* element is removed at either end or from the middle, when a node is        *)
(* allocated where a freed one has been, and when the queue runs empty and is *)
(* filled again. What is not in it has been freed (queue.c).                  *)
ListIsSequence == Queue!Spec

QueueSpec == QueueInit /\ [][QueueNext]_queueVars

\* The links are those of the sequence s of nodes, and no other node is allocated.
Order(links, first, last, s) ==
    /\ s \in Seq(Nodes) /\ IsInjective(s)
    /\ links \in [ToSet(s) -> [threadp : Items, prev : Nodes \cup {Nil}, next : Nodes \cup {Nil}]]
    /\ first = IF s = <<>> THEN Nil ELSE s[1]
    /\ last = IF s = <<>> THEN Nil ELSE s[Len(s)]
    /\ \A k \in 1 .. Len(s) : /\ links[s[k]].prev = IF k = 1 THEN Nil ELSE s[k - 1]
                              /\ links[s[k]].next = IF k = Len(s) THEN Nil ELSE s[k + 1]

\* Inductive, for the proof that the list is a sequence.
QueueInv == IF status = "cleared" THEN DOMAIN node = {}
            ELSE Order(node, head, tail, Chain)
=============================================================================
