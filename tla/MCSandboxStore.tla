--------------------------- MODULE MCSandboxStore ---------------------------
(* SandboxStore for TLC: a pod with two containers beside its own.         *)
EXTENDS SandboxStore
=============================================================================
