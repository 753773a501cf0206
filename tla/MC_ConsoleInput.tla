-------------------------- MODULE MC_ConsoleInput ---------------------------
(* Characters are numbers in the order of their codes: 0 the blank, 1 an   *)
(* upper-case letter, 2 its lower-case form, 3 another letter.  The engine *)
(* lists three names out of order: the first and the last of them share    *)
(* more than all three do, and one is alone with its first two letters.    *)
EXTENDS ConsoleInput

MCLower == [c \in 0..3 |-> IF c = 1 THEN 2 ELSE c]
MCCommands == << <<1, 3>>, <<2, 2, 3>>, <<2, 3, 3>> >>
MCLines == UNION {[1..n -> {0, 2, 3}] : n \in 0..4}
\* The first is only blanks, which the history refuses; entering the others in
\* turn evicts the older ones.
MCEntered == {<<0>>, <<2>>, <<2, 2>>}
=============================================================================
