------------------------ MODULE MC_UserInputHistory -------------------------
(* Two valid inputs, the empty one, and a ring of capacity three:          *)
(* small enough to wrap and to evict within a few inputs.                  *)
EXTENDS UserInputHistory

CONSTANT MaxFileLines \* the longest file the first process may find

MCInitialFiles == UNION {[1..n -> T] : n \in 0..MaxFileLines} \union {NoFile}

=============================================================================
