------------------------------ MODULE MCAccum ------------------------------
(* Three threads that add values which undo one another. *)
EXTENDS Accum

CONSTANTS t1, t2, t3

MCThread == {t1, t2, t3}
OppositeValue == {1, Modulus - 1}

=============================================================================
