----------------------------- MODULE MCOrderEntry ------------------------------
(***************************************************************************)
(* Instances of OrderEntry for TLC.                                        *)
(***************************************************************************)
EXTENDS OrderEntry
================================================================================
