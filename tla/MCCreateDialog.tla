--------------------------- MODULE MCCreateDialog ---------------------------
(***************************************************************************)
(* Constants of CreateDialog for TLC.                                      *)
(***************************************************************************)
EXTENDS CreateDialog

CONSTANTS v1, v2
=============================================================================
