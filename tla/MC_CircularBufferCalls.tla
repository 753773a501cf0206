----------------------- MODULE MC_CircularBufferCalls -----------------------
(* Three values and capacity 3, the capacity the repository's tests use.   *)
EXTENDS CircularBufferCalls
=============================================================================
