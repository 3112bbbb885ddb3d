----------------------------- MODULE MCWorldSession -----------------------------
(* Two connections of one account for TLC.                                  *)
EXTENDS WorldSession
================================================================================
