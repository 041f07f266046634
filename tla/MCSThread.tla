----------------------------- MODULE MCSThread -----------------------------
(* Four threads for TLC: enough for two that unblock, one that is
   unblocked, and one in a queue between them. *)
EXTENDS SThread

CONSTANTS t1, t2, t3, t4

MCThread == {t1, t2, t3, t4}

=============================================================================
