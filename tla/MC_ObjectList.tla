---------------------------- MODULE MC_ObjectList ----------------------------
(* Lists of up to four elements over two objects: duplicates occur, and    *)
(* there is room on both sides of the cursor, which may leave the list.    *)
EXTENDS ObjectList
=============================================================================
