--------------------------- MODULE AbstractThreads ----------------------------
(* What the cooperative threads of lab06 do for their clients, without lists  *)
(* and contexts: one thread runs until it yields, blocks or finishes, and the *)
(* first of the ready ones follows.                                           *)
EXTENDS Sequences, FiniteSets

CONSTANTS Threads, NULL

VARIABLES
    running,    \* a thread, or NULL before sthread_start
    ready,      \* those to follow, in order
    blocked,    \* those that wait to be unblocked
    hogging,    \* nobody was left to follow when `running` was chosen
    outcome     \* "main" until sthread_start, "running", and how the process ended

vars == <<running, ready, blocked, hogging, outcome>>

Known == {ready[k] : k \in DOMAIN ready} \cup blocked \cup ({running} \ {NULL})

Dispatch(q, waiting) ==
    /\ blocked' = waiting
    /\ IF q # <<>>
       THEN /\ running' = Head(q)
            /\ ready' = Tail(q)
            /\ hogging' = (Len(q) = 1)
            /\ outcome' = "running"
       ELSE /\ outcome' = IF waiting = {} THEN "completed" ELSE "stuck"
            /\ running' = NULL
            /\ hogging' = FALSE
            /\ UNCHANGED ready

Create(t) == /\ outcome \in {"main", "running"}
             /\ t \notin Known
             /\ ready' = Append(ready, t)
             /\ UNCHANGED <<running, blocked, hogging, outcome>>

Start == outcome = "main" /\ Dispatch(ready, blocked)

\* One that hogs the processor gets it back, even if others have become ready since.
Yield == /\ outcome = "running"
         /\ ready # <<>>
         /\ ~hogging
         /\ Dispatch(Append(ready, running), blocked)

Block == outcome = "running" /\ Dispatch(ready, blocked \cup {running})

Finish == outcome = "running" /\ Dispatch(ready, blocked)

Unblock(t) == /\ outcome = "running"
              /\ t \in blocked
              /\ blocked' = blocked \ {t}
              /\ ready' = Append(ready, t)
              /\ UNCHANGED <<running, hogging, outcome>>

\* The assertion of sthread_unblock.
Abort == /\ outcome = "running"
         /\ outcome' = "aborted"
         /\ running' = NULL /\ hogging' = FALSE
         /\ UNCHANGED <<ready, blocked>>

Init == /\ running = NULL
        /\ ready = <<>>
        /\ blocked = {}
        /\ hogging = FALSE
        /\ outcome = "main"

Next == \/ Start \/ Yield \/ Block \/ Finish \/ Abort
        \/ \E t \in Threads : Create(t) \/ Unblock(t)

Spec == Init /\ [][Next]_vars
=============================================================================
