--------------------------- MODULE MCShimService ---------------------------
(* Small instances of ShimService for TLC. *)
EXTENDS ShimService

NoExecs == <<>>
ExecInSandbox == [e \in Execs |-> Sandbox]
=============================================================================
