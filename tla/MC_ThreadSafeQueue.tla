------------------------- MODULE MC_ThreadSafeQueue -------------------------
(* Three threads and two elements, so that two consumers contend for one   *)
(* element while a third thread adds or clears.  No symmetry: the runs     *)
(* check refinement and liveness.                                          *)
EXTENDS ThreadSafeQueue
=============================================================================
