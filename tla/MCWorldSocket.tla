------------------------------ MODULE MCWorldSocket ------------------------------
(* Six packets, of which the fourth needs a buffer of its own. *)
EXTENDS WorldSocket

OneLarge == {4}
================================================================================
