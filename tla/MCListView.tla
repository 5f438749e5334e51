------------------------------ MODULE MCListView ------------------------------
(***************************************************************************)
(* Instances of ListView for TLC.                                          *)
(***************************************************************************)
EXTENDS ListView
================================================================================
