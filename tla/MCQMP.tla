------------------------------- MODULE MCQMP -------------------------------
(* Small instances of QMP for TLC. *)
EXTENDS QMP, TLC
=============================================================================
