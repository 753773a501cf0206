-------------------------- MODULE MC_ServerConsole --------------------------
(* Two lines, two commands to complete, up to three lines entered, a       *)
(* terminal whose every call may fail.                                     *)
EXTENDS ConsoleTerminal
=============================================================================
