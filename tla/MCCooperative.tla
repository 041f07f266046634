---------------------------- MODULE MCCooperative -----------------------------
(* Four threads that call the cooperative library of lab06 as they like.      *)
EXTENDS Cooperative
=============================================================================
