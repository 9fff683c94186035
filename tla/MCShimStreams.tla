--------------------------- MODULE MCShimStreams ---------------------------
(* ShimStreams for TLC: a sandbox without streams and a container with none, *)
(* a terminal, the outputs alone, or stdin alone.                            *)
EXTENDS ShimStreams

MCGivens == {{}, {"stdin", "stdout"}, {"stdout", "stderr"}, {"stdin"}}
MCPodGivens == {{}}
=============================================================================
