---------------------------- MODULE MCDashboard ----------------------------
(***************************************************************************)
(* Constants of Dashboard for TLC.                                         *)
(***************************************************************************)
EXTENDS Dashboard
=============================================================================
