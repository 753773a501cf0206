-------------------------- MODULE UserInputHistory --------------------------
(***************************************************************************)
(* Model::UserInputHistory: a ring of the last HISTORY_CAPACITY console    *)
(* inputs, the position the arrow keys walk over it, and the file it is    *)
(* loaded from and rewritten to.  Loading and saving are loops over lines, *)
(* so that the process can die between two of them; the file outlives it.  *)
(***************************************************************************)
EXTENDS CircularBuffer, Sequences   \* N is HISTORY_CAPACITY, T the inputs

CONSTANTS
    Valid,       \* the inputs is_valid_input accepts
    NoFile,      \* the state of a file that does not exist
    NoInput,     \* std::nullopt
    InitialFiles \* the files the first process may find

ASSUME ValidAssumption == Valid \subseteq T /\ ValueInit \notin Valid
ASSUME FilesAssumption == InitialFiles \subseteq Seq(T) \union {NoFile}
ASSUME MarkersAssumption == NoFile \notin Seq(T) /\ NoInput \notin T

VARIABLES
    history_,  \* the ring
    position_, \* where the arrow keys are; Size(history_) is past the newest
    mode,      \* "idle", or inside "loading" or "saving"
    lines,     \* the lines the loop in progress has not handled yet
    file,      \* the content of filename_
    shown,     \* what the last call of next() or previous() returned
    pristine,  \* history of the object: nothing was ever stored in the ring
    saved,     \* history of the file: what the last completed save wrote
    intact     \* history of the file: no save or clear touched it since then

object == <<history_, position_, pristine>>
vars == <<history_, position_, mode, lines, file, shown, pristine, saved, intact>>

Modes == {"idle", "loading", "saving"}

\* The types of the history, its file and the two loops over the file's lines.
TypeOK ==
    /\ history_ \in Ring
    /\ position_ \in Nat
    /\ mode \in Modes
    /\ lines \in Seq(T)
    /\ file \in Seq(T) \union {NoFile}
    /\ shown \in T \union {NoInput}
    /\ pristine \in BOOLEAN
    /\ saved \in Seq(T)
    /\ intact \in BOOLEAN

\* A new object, constructed on whatever file is there.
Init ==
    /\ history_ = EmptyRing
    /\ position_ = 0
    /\ mode = "idle"
    /\ lines = <<>>
    /\ file \in InitialFiles
    /\ shown = NoInput
    /\ pristine = TRUE
    /\ saved = <<>>
    /\ intact = FALSE

-----------------------------------------------------------------------------

\* Mutant of Remembers: the input is compared with the oldest entry.
RemembersUnlessOldest(ring, input) == input \in Valid /\ input # Front(ring)

\* The body shared by append() and the loop of load().
Remembers(ring, input) == input \in Valid /\ input # Back(ring)
Remember(ring, input) == IF Remembers(ring, input) THEN PushBack(ring, input) ELSE ring

append(input) ==
    /\ mode = "idle"
    /\ history_' = Remember(history_, input)
    /\ position_' = Size(history_')
    /\ pristine' = FALSE
    /\ shown' = NoInput
    /\ UNCHANGED <<mode, lines, file, saved, intact>>

\* Mutant of next: the position may pass the end by one more.
nextPastEnd ==
    /\ mode = "idle"
    /\ position_' = IF position_ <= Size(history_) THEN position_ + 1 ELSE position_
    /\ shown' = IF position_ <= Size(history_) THEN At(history_, position_) ELSE NoInput
    /\ UNCHANGED <<history_, mode, lines, file, pristine, saved, intact>>

next ==
    /\ mode = "idle"
    /\ position_' = IF position_ < Size(history_) THEN position_ + 1 ELSE position_
    /\ shown' = IF position_' < Size(history_) THEN At(history_, position_') ELSE NoInput
    /\ UNCHANGED <<history_, mode, lines, file, pristine, saved, intact>>

previous ==
    /\ mode = "idle"
    /\ position_' = IF position_ > 0 THEN position_ - 1 ELSE position_
    /\ shown' = IF position_ > 0 THEN At(history_, position_') ELSE NoInput
    /\ UNCHANGED <<history_, mode, lines, file, pristine, saved, intact>>

\* Mutant of clear: the position is left where it was.
clearKeepsPosition ==
    /\ mode = "idle"
    /\ history_' = Clear(history_)
    /\ \/ file' = NoFile /\ saved' = <<>> /\ intact' = FALSE
       \/ UNCHANGED <<file, saved, intact>>
    /\ pristine' = FALSE
    /\ shown' = NoInput
    /\ UNCHANGED <<position_, mode, lines>>

\* The removal of the file can fail: try_file_remove only logs it.
clear ==
    /\ mode = "idle"
    /\ history_' = Clear(history_)
    /\ position_' = Size(history_')
    /\ \/ file' = NoFile /\ saved' = <<>> /\ intact' = FALSE
       \/ UNCHANGED <<file, saved, intact>>
    /\ pristine' = FALSE
    /\ shown' = NoInput
    /\ UNCHANGED <<mode, lines>>

-----------------------------------------------------------------------------
(* load(): a file that is not there or cannot be read changes nothing.     *)

LoadBegin ==
    /\ mode = "idle"
    /\ file # NoFile
    /\ history_' = Clear(history_)
    /\ mode' = "loading"
    /\ lines' = file
    /\ shown' = NoInput
    /\ UNCHANGED <<position_, file, pristine, saved, intact>>

LoadLine ==
    /\ mode = "loading"
    /\ lines # <<>>
    /\ history_' = Remember(history_, Head(lines))
    /\ lines' = Tail(lines)
    /\ UNCHANGED <<position_, mode, file, shown, pristine, saved, intact>>

LoadEnd ==
    /\ mode = "loading"
    /\ lines = <<>>
    /\ position_' = Size(history_)
    /\ mode' = "idle"
    /\ pristine' = FALSE
    /\ UNCHANGED <<history_, lines, file, shown, saved, intact>>

-----------------------------------------------------------------------------
(* save(): the file is truncated when it is opened and written line after  *)
(* line; a failure to open or to write is logged and otherwise ignored.    *)

\* Mutant of SaveBegin: the file is opened for appending.
SaveBeginAppending ==
    /\ mode = "idle"
    /\ ~Empty(history_)
    /\ file' = IF file = NoFile THEN <<>> ELSE file
    /\ mode' = "saving"
    /\ lines' = Items(history_)
    /\ shown' = NoInput
    /\ intact' = FALSE
    /\ UNCHANGED <<object, saved>>

SaveBegin ==
    /\ mode = "idle"
    /\ ~Empty(history_)
    /\ file' = <<>>
    /\ mode' = "saving"
    /\ lines' = Items(history_)
    /\ shown' = NoInput
    /\ intact' = FALSE
    /\ UNCHANGED <<object, saved>>

SaveLine ==
    /\ mode = "saving"
    /\ lines # <<>>
    /\ file' = Append(file, Head(lines))
    /\ lines' = Tail(lines)
    /\ UNCHANGED <<object, mode, shown, saved, intact>>

SaveEnd ==
    /\ mode = "saving"
    /\ lines = <<>>
    /\ mode' = "idle"
    /\ saved' = Items(history_)
    /\ intact' = TRUE
    /\ UNCHANGED <<object, lines, file, shown>>

SaveFail ==
    /\ mode = "saving"
    /\ lines # <<>>
    /\ mode' = "idle"
    /\ lines' = <<>>
    /\ UNCHANGED <<object, file, shown, saved, intact>>

\* The process dies at any point and a new one constructs a new object.
Restart ==
    /\ history_' = EmptyRing
    /\ position_' = 0
    /\ mode' = "idle"
    /\ lines' = <<>>
    /\ shown' = NoInput
    /\ pristine' = TRUE
    /\ UNCHANGED <<file, saved, intact>>

-----------------------------------------------------------------------------

Next ==
    \/ \E input \in T : append(input)
    \/ next \/ previous \/ clear
    \/ LoadBegin \/ LoadLine \/ LoadEnd
    \/ SaveBegin \/ SaveLine \/ SaveEnd \/ SaveFail
    \/ Restart

Spec == Init /\ [][Next]_vars

-----------------------------------------------------------------------------

\* However calls, eviction, clear() and load() are mixed, the position stays
\* on an entry or just past the newest one, so previous() and next() never
\* index the ring beyond its elements.  load() leaves it behind only while it
\* is still reading.
PositionInRange == mode # "loading" => position_ <= Size(history_)

\* What an arrow key is given is an entry still in the history, the one at the
\* position: never an element clear() or an eviction left in the array.
ShownIsReachable ==
    shown # NoInput =>
        /\ position_ + 1 \in DOMAIN Items(history_)
        /\ shown = Items(history_)[position_ + 1]

\* The history never holds an input is_valid_input rejects, nor the same input
\* twice in a row, also after the oldest entries were evicted, after clear()
\* and after loading a file edited by hand.
NoRepeatedNeighbours ==
    LET items == Items(history_) IN
    /\ \A k \in DOMAIN items : items[k] \in Valid
    /\ \A k \in DOMAIN items : k + 1 \in DOMAIN items => items[k] # items[k + 1]

\* A save that completes leaves a file holding the whole history, and a new
\* process that loads such a file has the same history: nothing a save writes
\* is dropped, reordered or merged by load().
LoadRestoresSave ==
    [][(LoadEnd /\ pristine /\ intact) => Items(history_') = saved]_vars

\* A valid input other than the newest one becomes the newest entry, at any
\* fill of the ring and also on a new one, whose back() is an element never
\* stored.  On a ring clear() emptied back() is an erased element, and an input
\* equal to that one is dropped.
AppendRemembers ==
    LET items == Items(history_) IN
    \A input \in Valid :
        (IF items = <<>> THEN pristine ELSE items[Len(items)] # input) =>
            LET after == Items(Remember(history_, input))
            IN after # <<>> /\ after[Len(after)] = input

\* README.md:15, "The last 100 commands are saved to `input_history.txt` and
\* loaded on startup": whenever a process ends, what the next one finds is the
\* history saved last, or the newer one that was being saved.
SavedHistorySurvives ==
    [][(Restart /\ saved # <<>> /\ file # NoFile) => file \in {saved, Items(history_)}]_vars
=============================================================================
