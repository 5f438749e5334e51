------------------------------ MODULE MCStaffDesk ------------------------------
(***************************************************************************)
(* Instances of StaffDesk for TLC.                                         *)
(***************************************************************************)
EXTENDS StaffDesk, TLC

\* Users of one role are interchangeable: nothing orders them.
RoleSymmetry == Permutations(Admins) \cup Permutations(Drivers)
================================================================================
