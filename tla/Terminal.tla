------------------------------ MODULE Terminal ------------------------------
(***************************************************************************)
(* The row of a terminal the console's line is edited on, as far as the    *)
(* code in libs/view/src/view/console_input.cpp uses it: a printable       *)
(* character overwrites the cell at the column and moves right, '\b' moves *)
(* left and stops at the first column, '\r' goes to the first column, and  *)
(* '\n' starts a blank row.  The row is wide enough not to wrap.           *)
(***************************************************************************)
EXTENDS Integers, Sequences

CONSTANT Blank \* the character of an empty cell

BlankRow == [cells |-> <<>>, column |-> 0]

Cell(row, i) == IF i \in DOMAIN row.cells THEN row.cells[i] ELSE Blank

Larger(m, n) == IF m > n THEN m ELSE n

\* text is printed, character by character.
Write(row, text) ==
    LET end == row.column + Len(text)
        cells == [i \in 1..Larger(Len(row.cells), end) |->
                    IF i \in row.column+1..end THEN text[i - row.column] ELSE Cell(row, i)]
    IN [cells |-> cells, column |-> end]

\* '\b' is printed n times.
Backspaces(row, n) == [row EXCEPT !.column = Larger(0, @ - n)]

\* '\r' is printed.
CarriageReturn(row) == [row EXCEPT !.column = 0]

\* "\b \b" is printed n times: at the first column it blanks that cell.
Erase(row, n) ==
    LET left == Larger(0, row.column - n)
        erased == IF n > row.column THEN 1..Larger(1, row.column) ELSE left+1..row.column
    IN [cells |-> [i \in DOMAIN row.cells |-> IF i \in erased THEN Blank ELSE row.cells[i]],
        column |-> left]

\* The row reads as text, with nothing after it.
Reads(row, text) ==
    \A i \in 1..Larger(Len(row.cells), Len(text)) :
        Cell(row, i) = IF i \in DOMAIN text THEN text[i] ELSE Blank
=============================================================================
