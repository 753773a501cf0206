---------------------------- MODULE ConsoleInput ----------------------------
(***************************************************************************)
(* View::ConsoleInput as a line editor: one action per key.  Every handler *)
(* changes the line and, on its own, prints what should bring the terminal *)
(* to the same state; nothing ever redraws the row.  The arrow keys walk   *)
(* the history of UserInputHistory, Enter appends to it, and Tab completes *)
(* from the names the engine knows.  What Enter and Tab do to the other    *)
(* thread is in ServerConsole, what Enter does to the file is in           *)
(* UserInputHistory.                                                       *)
(***************************************************************************)
EXTENDS Terminal, SequencesExt

CONSTANTS
    N,          \* HISTORY_CAPACITY
    T,          \* the lines the history can hold
    Typed,      \* the printable characters that can be typed
    Lower,      \* to_lower, character by character
    Commands,   \* the names the engine knows, in the order it lists them
    NoInput,    \* std::nullopt
    MaxLine,    \* bound on the length of a line a character is typed into
    Entered     \* bound on the lines Enter is pressed on

VARIABLES
    input_line_,
    cursor_position_,
    saved_input_,       \* the draft set aside while the history is walked
    history_, position_, \* of the UserInputHistory behind the presenter
    shown,              \* what the presenter last returned from it
    row                 \* the terminal's row

line == <<input_line_, cursor_position_>>
history == <<history_, position_>>
vars == <<input_line_, cursor_position_, saved_input_, history_, position_, shown, row>>

Character == Typed \union {Blank} \union {Lower[c] : c \in DOMAIN Lower}
Text == Seq(Character)

ASSUME NAssumption == N \in Nat \ {0}
ASSUME LinesAssumption == <<>> \in T /\ T \subseteq Text /\ Entered \subseteq T
ASSUME NoInputAssumption == NoInput \notin Text
ASSUME CommandsAssumption == Commands \in Seq(Seq(DOMAIN Lower)) /\ Character \subseteq Int

\* is_valid_input: not only blanks.
Valid == {text \in T : \E i \in DOMAIN text : text[i] # Blank}

\* The history between two of its calls; its file is not looked at here.
History == INSTANCE UserInputHistory WITH
    ValueInit <- <<>>, mode <- "idle", lines <- <<>>, pristine <- BOOLEAN = {},
    NoFile <- {}, InitialFiles <- {{}}, file <- {}, saved <- {}, intact <- {}

\* The types; the cursor is inside the line or at its end, where every handler
\* indexes and cuts the string.
TypeOK ==
    /\ input_line_ \in Text
    /\ cursor_position_ \in 0..Len(input_line_)
    /\ saved_input_ \in Text \union {NoInput}
    /\ history_ \in History!Ring
    /\ position_ \in Nat
    /\ shown \in Text \union {NoInput}
    /\ row \in [cells : Text, column : Nat]

Init ==
    /\ input_line_ = <<>> /\ cursor_position_ = 0
    /\ saved_input_ = NoInput
    /\ history_ = History!EmptyRing /\ position_ = 0 /\ shown = NoInput
    /\ row = BlankRow

-----------------------------------------------------------------------------
(* Helpers of the handlers.                                                *)

AfterCursor == SubSeq(input_line_, cursor_position_ + 1, Len(input_line_))
BeforeCursor == SubSeq(input_line_, 1, cursor_position_)

\* The line becomes text with the cursor at its end.
LineBecomes(text) ==
    /\ input_line_' = text
    /\ cursor_position_' = Len(text)

\* The row after clear_input: to the end of the line, then erased leftwards.
ClearedRow == Erase(Write(row, AfterCursor), Len(input_line_))

Untouched == UNCHANGED <<saved_input_, history>> /\ shown' = NoInput

-----------------------------------------------------------------------------
(* The arrow keys, Home and End.                                           *)

handle_up_arrow ==
    /\ History!previous
    /\ IF shown' = NoInput
       THEN UNCHANGED <<line, saved_input_, row>>
       ELSE /\ saved_input_' = IF saved_input_ = NoInput THEN input_line_ ELSE saved_input_
            /\ row' = Write(ClearedRow, shown')
            /\ LineBecomes(shown')

\* Mutant of handle_down_arrow: the draft is forgotten at the first entry.
DownForgetsDraft ==
    /\ History!next
    /\ IF shown' # NoInput \/ saved_input_ # NoInput
       THEN LET text == IF shown' # NoInput THEN shown' ELSE saved_input_ IN
            /\ saved_input_' = NoInput
            /\ row' = Write(ClearedRow, text)
            /\ LineBecomes(text)
       ELSE UNCHANGED <<line, saved_input_, row>>

handle_down_arrow ==
    /\ History!next
    /\ IF shown' # NoInput \/ saved_input_ # NoInput
       THEN LET text == IF shown' # NoInput THEN shown' ELSE saved_input_ IN
            /\ saved_input_' = IF shown' # NoInput THEN saved_input_ ELSE NoInput
            /\ row' = Write(ClearedRow, text)
            /\ LineBecomes(text)
       ELSE UNCHANGED <<line, saved_input_, row>>

\* Mutant of handle_left_arrow: the cursor moves left of the line.
LeftUnguarded ==
    /\ cursor_position_' = cursor_position_ - 1
    /\ row' = Backspaces(row, 1)
    /\ UNCHANGED input_line_
    /\ Untouched

handle_left_arrow ==
    /\ cursor_position_ # 0
    /\ cursor_position_' = cursor_position_ - 1
    /\ row' = Backspaces(row, 1)
    /\ UNCHANGED input_line_
    /\ Untouched

handle_right_arrow ==
    /\ cursor_position_ # Len(input_line_)
    /\ cursor_position_' = cursor_position_ + 1
    /\ row' = Write(row, <<input_line_[cursor_position_ + 1]>>)
    /\ UNCHANGED input_line_
    /\ Untouched

handle_home ==
    /\ cursor_position_ # 0
    /\ cursor_position_' = 0
    /\ row' = CarriageReturn(row)
    /\ UNCHANGED input_line_
    /\ Untouched

handle_end ==
    /\ cursor_position_' = Len(input_line_)
    /\ row' = Write(row, AfterCursor)
    /\ UNCHANGED input_line_
    /\ Untouched

-----------------------------------------------------------------------------
(* Editing.                                                                *)

\* Mutant of handle_backspace: one step back too few, the erased cell forgotten.
BackspaceShort ==
    /\ cursor_position_ # 0
    /\ cursor_position_' = cursor_position_ - 1
    /\ input_line_' = RemoveAt(input_line_, cursor_position_)
    /\ row' = Backspaces(Write(Backspaces(row, 1), Append(AfterCursor, Blank)), Len(AfterCursor))
    /\ Untouched

handle_backspace ==
    /\ cursor_position_ # 0
    /\ cursor_position_' = cursor_position_ - 1
    /\ input_line_' = RemoveAt(input_line_, cursor_position_)
    /\ row' = Backspaces(Write(Backspaces(row, 1), Append(AfterCursor, Blank)),
                         Len(AfterCursor) + 1)
    /\ Untouched

handle_delete ==
    /\ cursor_position_ < Len(input_line_)
    /\ input_line_' = RemoveAt(input_line_, cursor_position_ + 1)
    /\ row' = Backspaces(Write(row, Append(Tail(AfterCursor), Blank)), Len(AfterCursor))
    /\ UNCHANGED cursor_position_
    /\ Untouched

handle_char(ch) ==
    /\ Len(input_line_) < MaxLine
    /\ input_line_' = BeforeCursor \o <<ch>> \o AfterCursor
    /\ cursor_position_' = cursor_position_ + 1
    /\ row' = Backspaces(Write(row, <<ch>> \o AfterCursor), Len(AfterCursor))
    /\ Untouched

\* enqueue_input appends the line to the history.  The draft stays.
handle_newline ==
    /\ input_line_ \in Entered
    /\ History!append(input_line_)
    /\ LineBecomes(<<>>)
    /\ row' = BlankRow
    /\ UNCHANGED saved_input_

-----------------------------------------------------------------------------
(* Tab.                                                                    *)

LowerText(text) == [i \in DOMAIN text |-> Lower[text[i]]]

\* The order of std::string.
Before(a, b) ==
    \/ IsStrictPrefix(a, b)
    \/ \E i \in DOMAIN a \intersect DOMAIN b :
        a[i] < b[i] /\ \A j \in 1..i-1 : a[j] = b[j]

\* The engine lists the names that begin with command, in any case.
get_command_matches(command) ==
    LET matches[i \in 0..Len(Commands)] ==
            IF i = 0 THEN <<>>
            ELSE IF IsPrefix(LowerText(command), LowerText(Commands[i]))
                 THEN Append(matches[i - 1], Commands[i])
                 ELSE matches[i - 1]
    IN matches[Len(Commands)]

\* std::sort.
Sorted(texts) ==
    LET Rearranged == {[i \in DOMAIN texts |-> texts[order[i]]] :
                          order \in Bijection(DOMAIN texts, DOMAIN texts)}
    IN CHOOSE text \in Rearranged :
           \A i, j \in DOMAIN texts : i < j => ~Before(text[j], text[i])

\* Mutant of find_command_matches: the matches are left in the engine's order.
MatchesUnsorted(command) ==
    IF command = <<>> THEN <<>>
    ELSE LET matches == get_command_matches(command)
         IN [i \in DOMAIN matches |-> LowerText(matches[i])]

find_command_matches(command) ==
    IF command = <<>> THEN <<>>
    ELSE LET matches == get_command_matches(command)
         IN Sorted([i \in DOMAIN matches |-> LowerText(matches[i])])

\* Up to the first character in which the first and the last match differ.
find_common_command_prefix(commands) ==
    LET first == Head(commands)
        last == Last(commands)
        common == {n \in 0..Len(first) : IsPrefix(SubSeq(first, 1, n), last)}
    IN SubSeq(first, 1, Max(common))

TabCompletes(commands) ==
    LET completion == Append(SubSeq(Head(commands), Len(input_line_) + 1, Len(Head(commands))), Blank)
    IN /\ LineBecomes(input_line_ \o completion)
       /\ row' = Write(row, completion)

\* The list is printed on rows of its own, the line on a new one.
TabLists(commands) ==
    LET prefix == find_common_command_prefix(commands)
    IN /\ LineBecomes(prefix)
       /\ row' = Write(BlankRow, prefix)

handle_tab ==
    LET commands == find_command_matches(input_line_) IN
    /\ commands # <<>>
    /\ IF Len(commands) = 1 THEN TabCompletes(commands) ELSE TabLists(commands)
    /\ Untouched

-----------------------------------------------------------------------------

Next ==
    \/ handle_up_arrow \/ handle_down_arrow
    \/ handle_left_arrow \/ handle_right_arrow \/ handle_home \/ handle_end
    \/ handle_backspace \/ handle_delete \/ handle_tab \/ handle_newline
    \/ \E ch \in Typed : handle_char(ch)

Spec == Init /\ [][Next]_vars

-----------------------------------------------------------------------------

\* What the user sees is what the editor holds.
InSync == Reads(row, input_line_) /\ row.column = cursor_position_

\* Tab completes a command while the cursor is inside the line.
CompletesInside ==
    /\ handle_tab
    /\ Len(find_command_matches(input_line_)) = 1
    /\ cursor_position_ < Len(input_line_)

\* Each handler prints exactly what its change of the line needs, wherever the
\* cursor is: a row that agrees with the line agrees with it after any key, but
\* for a completion inside the line.
KeysKeepRowInSync == [][InSync /\ ~CompletesInside => InSync']_vars

\* As long as a walk over the history is on, whatever keys are pressed on the
\* way, a draft is set aside: going down past the newest entry always has a line
\* to bring back, never a missing optional to read.
DraftHeldDuringWalk ==
    position_ < History!Size(history_) => saved_input_ # NoInput

\* When several commands match, the line becomes the longest prefix all of them
\* share, not only the first and the last one that the code compares.
TabFindsCommonPrefix ==
    [][ LET commands == find_command_matches(input_line_)
            shared(text) == \A i \in DOMAIN commands : IsPrefix(text, commands[i])
        IN handle_tab /\ Len(commands) > 1 =>
            /\ shared(input_line_')
            /\ \A text \in Prefixes(Head(commands)) :
                Len(text) > Len(input_line_') => ~shared(text) ]_vars
=============================================================================
