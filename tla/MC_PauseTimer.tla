---------------------------- MODULE MC_PauseTimer ----------------------------
(* The main thread, the console's thread and one the engine has started; a *)
(* second of 20 units, rounds that are calm, late, stalled or early.       *)
EXTENDS ServerLoop

MCDuration == {-3, 0, 2, 9, 60}
=============================================================================
