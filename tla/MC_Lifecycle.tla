---------------------------- MODULE MC_Lifecycle -----------------------------
(* There is nothing to bound: a process starts once and ends once.         *)
EXTENDS Process
=============================================================================
