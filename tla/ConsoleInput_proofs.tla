------------------------ MODULE ConsoleInput_proofs -------------------------
(***************************************************************************)
(* For every alphabet, history, list of commands and length of line: the   *)
(* cursor stays inside the line, each key prints what its change of the    *)
(* line needs, a walk over the history has a draft to come back to, and a  *)
(* Tab finds the longest prefix that all matches share.                    *)
(***************************************************************************)
EXTENDS ConsoleInput, WellFoundedInduction, TLAPS

-----------------------------------------------------------------------------
(* The row.                                                                *)

Row == [cells : Text, column : Nat]
Column == Nat \ {0}

\* The character a text has at a place, or a blank.
At(text, i) == IF i \in 1..Len(text) THEN text[i] ELSE Blank

\* A cell of a row is what its text has there, and always a character.
LEMMA CellIsAt ==
    ASSUME NEW r \in Row
    PROVE  /\ r.cells \in Text /\ r.column \in Nat /\ Blank \in Character
           /\ \A i : Cell(r, i) = At(r.cells, i)
           /\ \A i : Cell(r, i) \in Character
<1>1. r.cells \in Text /\ r.column \in Nat /\ Blank \in Character
  BY DEF Row, Character
<1>2. DOMAIN r.cells = 1..Len(r.cells) /\ \A i \in 1..Len(r.cells) : r.cells[i] \in Character
  BY <1>1 DEF Text
<1>3. QED BY <1>1, <1>2 DEF Cell, At

\* Printing changes the cells it is printed on and moves past them.
LEMMA WriteFacts ==
    ASSUME NEW r \in Row, NEW text \in Text
    PROVE  /\ Write(r, text) \in Row
           /\ Write(r, text).column = r.column + Len(text)
           /\ \A i \in Column :
                Cell(Write(r, text), i) =
                    IF i \in r.column+1..r.column+Len(text) THEN text[i - r.column] ELSE Cell(r, i)
<1> DEFINE end == r.column + Len(text)
           size == Larger(Len(r.cells), end)
           cells == [i \in 1..size |->
                       IF i \in r.column+1..end THEN text[i - r.column] ELSE Cell(r, i)]
<1>1. /\ r.cells \in Text /\ r.column \in Nat /\ Blank \in Character
      /\ \A i : Cell(r, i) = At(r.cells, i) /\ Cell(r, i) \in Character
  BY CellIsAt
<1>2. Len(text) \in Nat /\ Len(r.cells) \in Nat /\ \A k \in 1..Len(text) : text[k] \in Character
  BY <1>1 DEF Text
<1>3. end \in Nat /\ size \in Nat /\ size >= end /\ size >= Len(r.cells)
  BY <1>1, <1>2 DEF Larger
<1>4. \A i \in r.column+1..end : i - r.column \in 1..Len(text)
  BY <1>1, <1>2
<1>5. Write(r, text) = [cells |-> cells, column |-> end]
  BY DEF Write
<1> HIDE DEF end, size
<1>6. cells \in Seq(Character) /\ Len(cells) = size
  BY <1>1, <1>2, <1>3, <1>4
<1>7. \A i \in Column : At(cells, i) =
          IF i \in r.column+1..end THEN text[i - r.column] ELSE Cell(r, i)
  <2> SUFFICES ASSUME NEW i \in Column
               PROVE  At(cells, i) = IF i \in r.column+1..end THEN text[i - r.column] ELSE Cell(r, i)
    OBVIOUS
  <2>1. CASE i \in 1..size
    BY <1>6, <2>1 DEF At
  <2>2. CASE i \notin 1..size
    <3>1. i > size
      BY <1>3, <2>2 DEF Column
    <3>2. i \notin r.column+1..end /\ i \notin 1..Len(r.cells)
      BY <1>1, <1>2, <1>3, <3>1 DEF Column
    <3>3. QED BY <1>1, <1>6, <2>2, <3>2 DEF At
  <2>3. QED BY <2>1, <2>2
<1> HIDE DEF cells
<1>8. Write(r, text) \in Row
  BY <1>3, <1>5, <1>6 DEF Row, Text
<1>9. Write(r, text).cells = cells /\ Write(r, text).column = end
  BY <1>5
<1>10. QED BY <1>7, <1>8, <1>9, CellIsAt DEF end

\* Moving left changes no cell.
LEMMA BackspacesFacts ==
    ASSUME NEW r \in Row, NEW n \in Nat
    PROVE  /\ Backspaces(r, n) \in Row
           /\ n <= r.column => Backspaces(r, n).column = r.column - n
           /\ \A i : Cell(Backspaces(r, n), i) = Cell(r, i)
<1>1. Backspaces(r, n) = [r EXCEPT !.column = Larger(0, r.column - n)]
  BY DEF Backspaces
<1>2. r.column \in Nat /\ Larger(0, r.column - n) \in Nat
      /\ (n <= r.column => Larger(0, r.column - n) = r.column - n)
  BY DEF Row, Larger
<1>3. Backspaces(r, n) \in Row
  BY <1>1, <1>2 DEF Row
<1>4. Backspaces(r, n).cells = r.cells /\ Backspaces(r, n).column = Larger(0, r.column - n)
  BY <1>1 DEF Row
<1>5. QED BY <1>2, <1>3, <1>4 DEF Cell

\* A carriage return goes to the first column and changes no cell.
LEMMA CarriageReturnFacts ==
    ASSUME NEW r \in Row
    PROVE  /\ CarriageReturn(r) \in Row /\ CarriageReturn(r).column = 0
           /\ \A i : Cell(CarriageReturn(r), i) = Cell(r, i)
BY DEF CarriageReturn, Row, Cell

\* Erasing back to the first column blanks what is left of the column.
LEMMA EraseFacts ==
    ASSUME NEW r \in Row, NEW n \in Nat
    PROVE  /\ Erase(r, n) \in Row
           /\ n = r.column =>
                /\ Erase(r, n).column = 0
                /\ \A i \in Column : Cell(Erase(r, n), i) = IF i <= n THEN Blank ELSE Cell(r, i)
<1> DEFINE left == Larger(0, r.column - n)
           erased == IF n > r.column THEN 1..Larger(1, r.column) ELSE left+1..r.column
           cells == [i \in DOMAIN r.cells |-> IF i \in erased THEN Blank ELSE r.cells[i]]
<1>1. /\ r.cells \in Text /\ r.column \in Nat /\ Blank \in Character
      /\ DOMAIN r.cells = 1..Len(r.cells) /\ Len(r.cells) \in Nat
      /\ \A i \in 1..Len(r.cells) : r.cells[i] \in Character
  BY CellIsAt DEF Text
<1>2. left \in Nat /\ (n = r.column => left = 0 /\ erased = 1..n)
  BY <1>1 DEF Larger
<1>3. Erase(r, n) = [cells |-> cells, column |-> left]
  BY DEF Erase
<1> HIDE DEF left, erased
<1>4. cells \in Text /\ DOMAIN cells = 1..Len(r.cells)
  BY <1>1 DEF Text
<1>5. Erase(r, n) \in Row
  BY <1>2, <1>3, <1>4 DEF Row
<1>6. ASSUME n = r.column, NEW i \in Column
      PROVE  Cell(Erase(r, n), i) = IF i <= n THEN Blank ELSE Cell(r, i)
  BY <1>1, <1>2, <1>3, <1>4, <1>6 DEF Cell, Column
<1>7. Erase(r, n).column = left
  BY <1>3
<1>8. QED BY <1>2, <1>5, <1>6, <1>7

\* A row that reads as a text has its characters in the first columns and blanks
\* in all others.
LEMMA ReadsEverywhere ==
    ASSUME NEW r \in Row, NEW text \in Text
    PROVE  Reads(r, text) <=> \A i \in Column : Cell(r, i) = At(text, i)
<1>1. /\ Len(text) \in Nat /\ Len(r.cells) \in Nat /\ DOMAIN text = 1..Len(text)
      /\ \A i : Cell(r, i) = At(r.cells, i)
  BY CellIsAt DEF Text
<1>2. Larger(Len(r.cells), Len(text)) >= Len(r.cells) /\ Larger(Len(r.cells), Len(text)) >= Len(text)
      /\ Larger(Len(r.cells), Len(text)) \in Nat
  BY <1>1 DEF Larger
<1> DEFINE size == Larger(Len(r.cells), Len(text))
<1> HIDE DEF size
<1>3. Reads(r, text) <=> \A i \in 1..size : Cell(r, i) = At(text, i)
  BY <1>1 DEF Reads, At, size
<1>4. \A i \in Column : i \in 1..size \/ (Cell(r, i) = Blank /\ At(text, i) = Blank)
  BY <1>1, <1>2 DEF At, Column, size
<1>5. \A i \in 1..size : i \in Column
  BY DEF Column
<1>6. QED BY <1>3, <1>4, <1>5

-----------------------------------------------------------------------------
(* The keys that edit the line.                                            *)

LineOK ==
    /\ input_line_ \in Text
    /\ cursor_position_ \in 0..Len(input_line_)
    /\ row \in Row

\* The row shows text with the column at c.
Shows(r, text, c) == (\A i \in Column : Cell(r, i) = At(text, i)) /\ r.column = c

\* The run's InSync, read column by column.
LEMMA InSyncShows == LineOK => (InSync <=> Shows(row, input_line_, cursor_position_))
BY ReadsEverywhere DEF LineOK, InSync, Shows

\* A key may leave the line in state, and what it leaves on the row agrees with it
\* if that agreed before.
Keeps ==
    /\ LineOK'
    /\ Shows(row, input_line_, cursor_position_) => Shows(row', input_line_', cursor_position_')

\* The two parts of the line.
LEMMA LineFacts ==
    ASSUME LineOK
    PROVE  /\ Len(input_line_) \in Nat /\ cursor_position_ \in Nat
           /\ cursor_position_ <= Len(input_line_)
           /\ \A k \in 1..Len(input_line_) : input_line_[k] \in Character
           /\ AfterCursor \in Text /\ Len(AfterCursor) = Len(input_line_) - cursor_position_
           /\ \A k \in 1..Len(AfterCursor) : AfterCursor[k] = input_line_[cursor_position_ + k]
           /\ BeforeCursor \in Text /\ Len(BeforeCursor) = cursor_position_
           /\ \A k \in 1..cursor_position_ : BeforeCursor[k] = input_line_[k]
<1>1. input_line_ \in Seq(Character) /\ cursor_position_ \in 0..Len(input_line_)
  BY DEF LineOK, Text
<1>2. /\ AfterCursor \in Seq(Character) /\ Len(AfterCursor) = Len(input_line_) - cursor_position_
      /\ \A k \in 1..Len(input_line_) - cursor_position_ :
            AfterCursor[k] = input_line_[cursor_position_ + k]
  BY <1>1 DEF AfterCursor
<1>3. /\ BeforeCursor \in Seq(Character) /\ Len(BeforeCursor) = cursor_position_
      /\ \A k \in 1..cursor_position_ : BeforeCursor[k] = input_line_[k]
  BY <1>1 DEF BeforeCursor
<1>4. QED BY <1>1, <1>2, <1>3 DEF Text

\* Texts with the same characters are the same.
LEMMA SameText ==
    ASSUME NEW S, NEW s \in Seq(S), NEW t \in Seq(S), Len(s) = Len(t),
           \A k \in 1..Len(s) : s[k] = t[k]
    PROVE  s = t
OBVIOUS

\* A text without one of its characters.
LEMMA RemoveFacts ==
    ASSUME NEW text \in Text, NEW p \in 1..Len(text)
    PROVE  /\ RemoveAt(text, p) \in Text
           /\ Len(RemoveAt(text, p)) = Len(text) - 1
           /\ \A k \in 1..Len(text) - 1 : RemoveAt(text, p)[k] = IF k < p THEN text[k] ELSE text[k + 1]
<1> DEFINE a == SubSeq(text, 1, p - 1)
           b == SubSeq(text, p + 1, Len(text))
<1>0. text \in Seq(Character)
  BY DEF Text
<1>1. /\ a \in Seq(Character) /\ Len(a) = p - 1
      /\ \A k \in 1..p - 1 : a[k] = text[k]
  BY <1>0
<1>2. /\ b \in Seq(Character) /\ Len(b) = Len(text) - p
      /\ \A k \in 1..Len(text) - p : b[k] = text[k + p]
  BY <1>0
<1>3. Len(text) \in Nat /\ p \in Nat /\ p >= 1 /\ p <= Len(text)
  BY <1>0
<1> HIDE DEF a, b
<1>4. a \o b \in Seq(Character) /\ Len(a \o b) = Len(text) - 1
  <2>1. a \o b \in Seq(Character) /\ Len(a \o b) = Len(a) + Len(b)
    <3>1. a \in Seq(Character) /\ b \in Seq(Character)
      BY <1>1, <1>2
    <3>2. QED BY <3>1
  <2>2. Len(a) + Len(b) = Len(text) - 1
    BY <1>1, <1>2, <1>3
  <2>3. QED BY <2>1, <2>2
<1>5. ASSUME NEW k \in 1..Len(text) - 1 PROVE (a \o b)[k] = IF k < p THEN text[k] ELSE text[k + 1]
  <2>1. CASE k < p
    BY <1>1, <1>2, <1>3, <2>1
  <2>2. CASE ~(k < p)
    <3>1. k - (p - 1) \in 1..Len(text) - p /\ (k - (p - 1)) + p = k + 1 /\ k \in Len(a) + 1..Len(a) + Len(b)
      BY <1>1, <1>2, <1>3, <2>2
    <3>2. (a \o b)[k] = b[k - (p - 1)]
      BY <1>1, <1>2, <3>1
    <3>3. QED BY <1>2, <2>2, <3>1, <3>2
  <2>3. QED BY <2>1, <2>2
<1>6. QED BY <1>4, <1>5 DEF RemoveAt, a, b, Text

-----------------------------------------------------------------------------
(* Moving the cursor.                                                      *)

\* Left steps back over one character.
LEMMA LeftKeeps == LineOK /\ handle_left_arrow => Keeps
<1> SUFFICES ASSUME LineOK, handle_left_arrow PROVE Keeps
  OBVIOUS
<1>1. /\ Len(input_line_) \in Nat /\ cursor_position_ \in Nat
      /\ cursor_position_ <= Len(input_line_) /\ cursor_position_ # 0
      /\ row \in Row /\ input_line_ \in Text
  BY LineFacts DEF handle_left_arrow, LineOK
<1>2. /\ input_line_' = input_line_ /\ cursor_position_' = cursor_position_ - 1
      /\ row' = Backspaces(row, 1)
  BY DEF handle_left_arrow
<1>3. /\ row' \in Row
      /\ 1 <= row.column => row'.column = row.column - 1
      /\ \A i : Cell(row', i) = Cell(row, i)
  BY <1>1, <1>2, BackspacesFacts
<1>4. LineOK'
  <2>1. cursor_position_ - 1 \in 0..Len(input_line_)
    BY <1>1
  <2>2. QED BY <1>1, <1>2, <1>3, <2>1 DEF LineOK
<1>5. ASSUME Shows(row, input_line_, cursor_position_)
      PROVE  Shows(row', input_line_', cursor_position_')
  <2>1. row.column = cursor_position_ /\ row'.column = cursor_position_ - 1
    BY <1>1, <1>3, <1>5 DEF Shows
  <2>2. QED BY <1>2, <1>3, <1>5, <2>1 DEF Shows
<1>6. QED BY <1>4, <1>5 DEF Keeps

\* Home goes to the first column.
LEMMA HomeKeeps == LineOK /\ handle_home => Keeps
<1> SUFFICES ASSUME LineOK, handle_home PROVE Keeps
  OBVIOUS
<1>1. /\ Len(input_line_) \in Nat /\ row \in Row /\ input_line_ \in Text
  BY LineFacts DEF LineOK
<1>2. input_line_' = input_line_ /\ cursor_position_' = 0 /\ row' = CarriageReturn(row)
  BY DEF handle_home
<1>3. row' \in Row /\ row'.column = 0 /\ \A i : Cell(row', i) = Cell(row, i)
  BY <1>1, <1>2, CarriageReturnFacts
<1>4. QED BY <1>1, <1>2, <1>3 DEF Keeps, LineOK, Shows

\* Printing again what the row already shows only moves the column.
LEMMA PrintsAgain ==
    ASSUME NEW r \in Row, NEW text \in Text, NEW c \in 0..Len(text), Shows(r, text, c),
           NEW n \in 0..Len(text) - c
    PROVE  Write(r, SubSeq(text, c + 1, c + n)) \in Row
           /\ Shows(Write(r, SubSeq(text, c + 1, c + n)), text, c + n)
<1> DEFINE part == SubSeq(text, c + 1, c + n)
<1>1. Len(text) \in Nat /\ text \in Seq(Character) /\ c \in Nat /\ n \in Nat /\ c + n <= Len(text)
  BY DEF Text
<1>2. /\ part \in Seq(Character) /\ Len(part) = n /\ \A k \in 1..n : part[k] = text[c + k]
  BY <1>1
<1> HIDE DEF part
<1>3. /\ Write(r, part) \in Row /\ Write(r, part).column = c + n
      /\ \A i \in Column :
           Cell(Write(r, part), i) =
               IF i \in c + 1..c + n THEN part[i - c] ELSE Cell(r, i)
  <2>1. r.column = c /\ part \in Text
    BY <1>2 DEF Shows, Text
  <2>2. QED BY <1>2, <2>1, WriteFacts
<1>4. ASSUME NEW i \in Column PROVE Cell(Write(r, part), i) = At(text, i)
  <2>1. Cell(r, i) = At(text, i)
    BY DEF Shows
  <2>2. CASE i \in c + 1..c + n
    <3>1. i - c \in 1..n /\ c + (i - c) = i /\ i \in 1..Len(text)
      BY <1>1, <2>2
    <3>2. part[i - c] = text[i]
      BY <1>2, <3>1
    <3>3. QED BY <1>3, <2>2, <3>1, <3>2 DEF At
  <2>3. QED BY <1>3, <2>1, <2>2
<1>5. QED BY <1>3, <1>4 DEF Shows, part

\* Right prints the character it moves over.
LEMMA RightKeeps == LineOK /\ handle_right_arrow => Keeps
<1> SUFFICES ASSUME LineOK, handle_right_arrow PROVE Keeps
  OBVIOUS
<1>1. /\ Len(input_line_) \in Nat /\ cursor_position_ \in Nat
      /\ cursor_position_ <= Len(input_line_) /\ cursor_position_ # Len(input_line_)
      /\ row \in Row /\ input_line_ \in Text /\ input_line_ \in Seq(Character)
  BY LineFacts DEF handle_right_arrow, LineOK, Text
<1>2. cursor_position_ + 1 \in 1..Len(input_line_) /\ cursor_position_ + 1 \in 0..Len(input_line_)
      /\ 1 \in 0..Len(input_line_) - cursor_position_ /\ cursor_position_ \in 0..Len(input_line_)
  BY <1>1
<1>3. /\ input_line_' = input_line_ /\ cursor_position_' = cursor_position_ + 1
      /\ row' = Write(row, <<input_line_[cursor_position_ + 1]>>)
  BY DEF handle_right_arrow
<1>4. <<input_line_[cursor_position_ + 1]>> \in Text
  <2>1. input_line_[cursor_position_ + 1] \in Character
    BY <1>1, <1>2
  <2>2. QED BY <2>1 DEF Text
<1>5. row' \in Row
  BY <1>1, <1>3, <1>4, WriteFacts
<1>6. SubSeq(input_line_, cursor_position_ + 1, cursor_position_ + 1)
          = <<input_line_[cursor_position_ + 1]>>
  <2> DEFINE part == SubSeq(input_line_, cursor_position_ + 1, cursor_position_ + 1)
  <2>1. part \in Seq(Character) /\ Len(part) = 1 /\ part[1] = input_line_[cursor_position_ + 1]
    BY <1>1, <1>2
  <2>2. /\ <<input_line_[cursor_position_ + 1]>> \in Seq(Character)
        /\ Len(<<input_line_[cursor_position_ + 1]>>) = 1
    BY <1>4 DEF Text
  <2> HIDE DEF part
  <2>3. part = <<input_line_[cursor_position_ + 1]>>
    BY <2>1, <2>2, SameText
  <2>4. QED BY <2>3 DEF part
<1>7. ASSUME Shows(row, input_line_, cursor_position_)
      PROVE  Shows(row', input_line_', cursor_position_')
  BY <1>1, <1>2, <1>3, <1>6, <1>7, PrintsAgain
<1>8. QED BY <1>1, <1>2, <1>3, <1>5, <1>7 DEF Keeps, LineOK

\* End prints what is between the cursor and the end.
LEMMA EndKeeps == LineOK /\ handle_end => Keeps
<1> SUFFICES ASSUME LineOK, handle_end PROVE Keeps
  OBVIOUS
<1>1. /\ Len(input_line_) \in Nat /\ cursor_position_ \in Nat
      /\ cursor_position_ <= Len(input_line_)
      /\ row \in Row /\ input_line_ \in Text /\ AfterCursor \in Text
  BY LineFacts DEF LineOK
<1>2. /\ Len(input_line_) - cursor_position_ \in 0..Len(input_line_) - cursor_position_
      /\ cursor_position_ + (Len(input_line_) - cursor_position_) = Len(input_line_)
      /\ cursor_position_ \in 0..Len(input_line_) /\ Len(input_line_) \in 0..Len(input_line_)
  BY <1>1
<1>3. /\ input_line_' = input_line_ /\ cursor_position_' = Len(input_line_)
      /\ row' = Write(row, AfterCursor)
  BY DEF handle_end
<1>4. row' \in Row
  BY <1>1, <1>3, WriteFacts
<1>5. ASSUME Shows(row, input_line_, cursor_position_)
      PROVE  Shows(row', input_line_', cursor_position_')
  BY <1>1, <1>2, <1>3, <1>5, PrintsAgain DEF AfterCursor
<1>6. QED BY <1>1, <1>2, <1>3, <1>4, <1>5 DEF Keeps, LineOK

-----------------------------------------------------------------------------
(* Editing the line.                                                       *)

\* A row that showed one text shows another once the characters in which they
\* differ are printed.
LEMMA PrintsOver ==
    ASSUME NEW r \in Row, NEW old, NEW new, NEW part \in Text,
           NEW c \in Nat, Shows(r, old, c),
           \A i \in Column :
               At(new, i) = IF i \in c + 1..c + Len(part) THEN part[i - c] ELSE At(old, i)
    PROVE  Write(r, part) \in Row /\ Shows(Write(r, part), new, c + Len(part))
<1>1. Len(part) \in Nat /\ r.column = c
  BY DEF Text, Shows
<1>2. /\ Write(r, part) \in Row /\ Write(r, part).column = c + Len(part)
      /\ \A i \in Column :
            Cell(Write(r, part), i) =
                IF i \in c + 1..c + Len(part) THEN part[i - c] ELSE Cell(r, i)
  BY <1>1, WriteFacts
<1>3. \A i \in Column : Cell(Write(r, part), i) = At(new, i)
  <2> SUFFICES ASSUME NEW i \in Column PROVE Cell(Write(r, part), i) = At(new, i)
    OBVIOUS
  <2>1. Cell(r, i) = At(old, i)
    BY DEF Shows
  <2>2. QED BY <1>2, <2>1
<1>4. QED BY <1>2, <1>3 DEF Shows

\* And the column is where it belongs after moving back from there.
LEMMA PrintsTheDifference ==
    ASSUME NEW r \in Row, NEW old, NEW new, NEW part \in Text,
           NEW c \in Nat, NEW n \in 0..c + Len(part), Shows(r, old, c),
           \A i \in Column :
               At(new, i) = IF i \in c + 1..c + Len(part) THEN part[i - c] ELSE At(old, i)
    PROVE  Shows(Backspaces(Write(r, part), n), new, c + Len(part) - n)
<1> DEFINE w == Write(r, part)
<1>1. w \in Row /\ Shows(w, new, c + Len(part))
  BY PrintsOver
<1>2. n \in Nat /\ n <= c + Len(part)
  BY DEF Text
<1> HIDE DEF w
<1>3. /\ n <= w.column => Backspaces(w, n).column = w.column - n
      /\ \A i : Cell(Backspaces(w, n), i) = Cell(w, i)
  BY <1>1, <1>2, BackspacesFacts
<1>4. QED BY <1>1, <1>2, <1>3 DEF Shows, w

\* A text with one more character, character by character.
LEMMA AppendFacts ==
    ASSUME NEW text \in Text, NEW ch \in Character
    PROVE  /\ Append(text, ch) \in Text /\ Len(Append(text, ch)) = Len(text) + 1
           /\ Append(text, ch)[Len(text) + 1] = ch
           /\ \A k \in 1..Len(text) : Append(text, ch)[k] = text[k]
BY DEF Text

\* Backspace prints the rest of the line one column to the left.
LEMMA BackspaceKeeps == LineOK /\ handle_backspace => Keeps
<1> SUFFICES ASSUME LineOK, handle_backspace PROVE Keeps
  OBVIOUS
<1> DEFINE length == Len(input_line_)
           cursor == cursor_position_
           new == RemoveAt(input_line_, cursor)
           part == Append(AfterCursor, Blank)
<1>1. /\ length \in Nat /\ cursor \in Nat /\ cursor <= length /\ cursor # 0
      /\ row \in Row /\ input_line_ \in Text /\ Blank \in Character
      /\ AfterCursor \in Text /\ Len(AfterCursor) = length - cursor
      /\ \A k \in 1..Len(AfterCursor) : AfterCursor[k] = input_line_[cursor + k]
  BY LineFacts, CellIsAt DEF handle_backspace, LineOK
<1>2. /\ input_line_' = new /\ cursor_position_' = cursor - 1
      /\ row' = Backspaces(Write(Backspaces(row, 1), part), Len(AfterCursor) + 1)
  BY DEF handle_backspace
<1>3. cursor \in 1..length
  BY <1>1
<1>4. /\ new \in Text /\ Len(new) = length - 1
      /\ \A k \in 1..length - 1 : new[k] = IF k < cursor THEN input_line_[k] ELSE input_line_[k + 1]
  BY <1>1, <1>3, RemoveFacts
<1>5. /\ part \in Text /\ Len(part) = length - cursor + 1
      /\ part[length - cursor + 1] = Blank
      /\ \A k \in 1..length - cursor : part[k] = AfterCursor[k]
  <2>1. /\ part \in Text /\ Len(part) = Len(AfterCursor) + 1
        /\ part[Len(AfterCursor) + 1] = Blank
        /\ \A k \in 1..Len(AfterCursor) : part[k] = AfterCursor[k]
    BY <1>1, AppendFacts
  <2> HIDE DEF part
  <2>2. QED BY <1>1, <2>1
<1>6. /\ Backspaces(row, 1) \in Row
      /\ 1 <= row.column => Backspaces(row, 1).column = row.column - 1
      /\ \A i : Cell(Backspaces(row, 1), i) = Cell(row, i)
  BY <1>1, BackspacesFacts
<1>7. Len(AfterCursor) + 1 \in Nat /\ Len(AfterCursor) + 1 = length - cursor + 1
  BY <1>1
<1> HIDE DEF length, cursor, new, part
<1>8. row' \in Row
  <2>1. Write(Backspaces(row, 1), part) \in Row
    BY <1>5, <1>6, WriteFacts
  <2>2. QED BY <1>2, <1>7, <2>1, BackspacesFacts
<1>9. LineOK'
  <2>1. cursor - 1 \in 0..length - 1
    BY <1>1
  <2>2. QED BY <1>2, <1>4, <1>8, <2>1 DEF LineOK
<1>10. \A i \in Column :
          At(new, i) = IF i \in cursor - 1 + 1..cursor - 1 + Len(part)
                       THEN part[i - (cursor - 1)] ELSE At(input_line_, i)
  <2> SUFFICES ASSUME NEW i \in Column
               PROVE  At(new, i) = IF i \in cursor - 1 + 1..cursor - 1 + Len(part)
                                   THEN part[i - (cursor - 1)] ELSE At(input_line_, i)
    OBVIOUS
  <2>0. i \in Nat /\ i >= 1 /\ cursor - 1 + 1 = cursor /\ cursor - 1 + Len(part) = length
    BY <1>1, <1>5 DEF Column
  <2>1. CASE i < cursor
    BY <1>1, <1>4, <2>0, <2>1 DEF At, length
  <2>2. CASE i >= cursor /\ i < length
    <3>1. i - (cursor - 1) \in 1..length - cursor /\ cursor + (i - (cursor - 1)) = i + 1
      BY <1>1, <2>0, <2>2
    <3>2. part[i - (cursor - 1)] = input_line_[i + 1]
      BY <1>1, <1>5, <3>1
    <3>3. At(new, i) = input_line_[i + 1]
      BY <1>1, <1>4, <2>0, <2>2 DEF At
    <3>4. i \in cursor - 1 + 1..cursor - 1 + Len(part)
      BY <1>1, <2>0, <2>2
    <3>5. QED BY <3>2, <3>3, <3>4
  <2>3. CASE i = length
    <3>1. At(new, i) = Blank
      BY <1>1, <1>4, <2>0, <2>3 DEF At
    <3>2. part[i - (cursor - 1)] = Blank /\ i \in cursor..length
      <4>1. i - (cursor - 1) = length - cursor + 1
        BY <1>1, <2>3
      <4>2. QED BY <1>1, <1>5, <2>3, <4>1
    <3>3. QED BY <2>0, <3>1, <3>2
  <2>4. CASE i > length
    BY <1>1, <1>4, <2>0, <2>4 DEF At, length
  <2>5. i < cursor \/ (i >= cursor /\ i < length) \/ i = length \/ i > length
    BY <1>1, <2>0
  <2>6. QED BY <2>1, <2>2, <2>3, <2>4, <2>5, Zenon
<1>11. ASSUME Shows(row, input_line_, cursor_position_)
       PROVE  Shows(row', input_line_', cursor_position_')
  <2>1. Shows(Backspaces(row, 1), input_line_, cursor - 1)
    BY <1>1, <1>6, <1>11 DEF Shows, cursor
  <2>2. /\ cursor - 1 \in Nat /\ length - cursor + 1 \in 0..cursor - 1 + Len(part)
        /\ cursor - 1 + Len(part) - (length - cursor + 1) = cursor - 1
    BY <1>1, <1>5
  <2>3. Shows(Backspaces(Write(Backspaces(row, 1), part), length - cursor + 1), new,
              cursor - 1 + Len(part) - (length - cursor + 1))
    BY <1>5, <1>6, <1>10, <2>1, <2>2, PrintsTheDifference
  <2>4. QED BY <1>2, <1>7, <2>2, <2>3
<1>12. QED BY <1>9, <1>11 DEF Keeps

\* Delete prints the rest of the line over the character it removes.
LEMMA DeleteKeeps == LineOK /\ handle_delete => Keeps
<1> SUFFICES ASSUME LineOK, handle_delete PROVE Keeps
  OBVIOUS
<1> DEFINE length == Len(input_line_)
           cursor == cursor_position_
           new == RemoveAt(input_line_, cursor + 1)
           part == Append(Tail(AfterCursor), Blank)
<1>1. /\ length \in Nat /\ cursor \in Nat /\ cursor < length
      /\ row \in Row /\ input_line_ \in Text /\ Blank \in Character
      /\ AfterCursor \in Text /\ Len(AfterCursor) = length - cursor
      /\ \A k \in 1..Len(AfterCursor) : AfterCursor[k] = input_line_[cursor + k]
  BY LineFacts, CellIsAt DEF handle_delete, LineOK
<1>2. /\ input_line_' = new /\ cursor_position_' = cursor
      /\ row' = Backspaces(Write(row, part), Len(AfterCursor))
  BY DEF handle_delete
<1>3. cursor + 1 \in 1..length
  BY <1>1
<1>4. /\ new \in Text /\ Len(new) = length - 1
      /\ \A k \in 1..length - 1 :
            new[k] = IF k < cursor + 1 THEN input_line_[k] ELSE input_line_[k + 1]
  BY <1>1, <1>3, RemoveFacts
<1>5. /\ part \in Text /\ Len(part) = length - cursor
      /\ part[length - cursor] = Blank
      /\ \A k \in 1..length - cursor - 1 : part[k] = AfterCursor[k + 1]
  <2> DEFINE rest == Tail(AfterCursor)
  <2>1. /\ rest \in Text /\ Len(rest) = length - cursor - 1
        /\ \A k \in 1..length - cursor - 1 : rest[k] = AfterCursor[k + 1]
    <3>1. AfterCursor \in Seq(Character) /\ AfterCursor # <<>>
      BY <1>1 DEF Text
    <3>2. /\ rest \in Seq(Character) /\ Len(rest) = Len(AfterCursor) - 1
          /\ \A k \in 1..Len(AfterCursor) - 1 : rest[k] = AfterCursor[k + 1]
      BY <3>1
    <3> HIDE DEF rest
    <3>3. QED BY <1>1, <3>2 DEF Text
  <2> HIDE DEF rest
  <2>2. /\ Append(rest, Blank) \in Text /\ Len(Append(rest, Blank)) = Len(rest) + 1
        /\ Append(rest, Blank)[Len(rest) + 1] = Blank
        /\ \A k \in 1..Len(rest) : Append(rest, Blank)[k] = rest[k]
    BY <1>1, <2>1, AppendFacts
  <2>3. part = Append(rest, Blank)
    BY DEF rest
  <2> HIDE DEF part
  <2>4. Len(rest) + 1 = length - cursor
    BY <1>1, <2>1
  <2>5. QED BY <2>1, <2>2, <2>3, <2>4
<1>6. Len(AfterCursor) \in Nat
  BY <1>1
<1> HIDE DEF length, cursor, new, part
<1>8. row' \in Row
  <2>1. Write(row, part) \in Row
    BY <1>1, <1>5, WriteFacts
  <2>2. QED BY <1>2, <1>6, <2>1, BackspacesFacts
<1>9. LineOK'
  <2>1. cursor \in 0..length - 1
    BY <1>1
  <2>2. QED BY <1>2, <1>4, <1>8, <2>1 DEF LineOK
<1>10. \A i \in Column :
          At(new, i) = IF i \in cursor + 1..cursor + Len(part)
                       THEN part[i - cursor] ELSE At(input_line_, i)
  <2> SUFFICES ASSUME NEW i \in Column
               PROVE  At(new, i) = IF i \in cursor + 1..cursor + Len(part)
                                   THEN part[i - cursor] ELSE At(input_line_, i)
    OBVIOUS
  <2>0. i \in Nat /\ i >= 1 /\ cursor + Len(part) = length
    BY <1>1, <1>5 DEF Column
  <2>1. CASE i <= cursor
    <3>1. i \in 1..length - 1 /\ i \in 1..length /\ i < cursor + 1 /\ i \notin cursor + 1..length
      BY <1>1, <2>0, <2>1
    <3>2. At(new, i) = input_line_[i] /\ At(input_line_, i) = input_line_[i]
      BY <1>4, <3>1 DEF At, length
    <3>3. QED BY <2>0, <3>1, <3>2
  <2>2. CASE i > cursor /\ i < length
    <3>1. i - cursor \in 1..length - cursor - 1 /\ cursor + (i - cursor + 1) = i + 1
          /\ i - cursor + 1 \in 1..length - cursor
      BY <1>1, <2>0, <2>2
    <3>2. part[i - cursor] = input_line_[i + 1]
      BY <1>1, <1>5, <3>1
    <3>3. At(new, i) = input_line_[i + 1]
      BY <1>1, <1>4, <2>0, <2>2 DEF At
    <3>4. i \in cursor + 1..cursor + Len(part)
      BY <1>1, <2>0, <2>2
    <3>5. QED BY <3>2, <3>3, <3>4
  <2>3. CASE i = length
    <3>1. At(new, i) = Blank
      BY <1>1, <1>4, <2>0, <2>3 DEF At
    <3>2. part[i - cursor] = Blank /\ i \in cursor + 1..length
      BY <1>1, <1>5, <2>3
    <3>3. QED BY <2>0, <3>1, <3>2
  <2>4. CASE i > length
    BY <1>1, <1>4, <2>0, <2>4 DEF At, length
  <2>5. i <= cursor \/ (i > cursor /\ i < length) \/ i = length \/ i > length
    BY <1>1, <2>0
  <2>6. QED BY <2>1, <2>2, <2>3, <2>4, <2>5, Zenon
<1>11. ASSUME Shows(row, input_line_, cursor_position_)
       PROVE  Shows(row', input_line_', cursor_position_')
  <2>1. Shows(row, input_line_, cursor)
    BY <1>11 DEF cursor
  <2>2. length - cursor \in 0..cursor + Len(part)
        /\ cursor + Len(part) - (length - cursor) = cursor
    BY <1>1, <1>5
  <2>3. Shows(Backspaces(Write(row, part), length - cursor), new,
              cursor + Len(part) - (length - cursor))
    BY <1>1, <1>5, <1>10, <2>1, <2>2, PrintsTheDifference
  <2>4. QED BY <1>1, <1>2, <2>2, <2>3
<1>12. QED BY <1>9, <1>11 DEF Keeps

\* Two texts, one after the other.
LEMMA ConcatFacts ==
    ASSUME NEW a \in Text, NEW b \in Text
    PROVE  /\ a \o b \in Text /\ Len(a \o b) = Len(a) + Len(b)
           /\ \A k \in 1..Len(a) + Len(b) :
                (a \o b)[k] = IF k <= Len(a) THEN a[k] ELSE b[k - Len(a)]
BY DEF Text

\* A single character is a text.
LEMMA OneCharacter ==
    ASSUME NEW ch \in Character
    PROVE  <<ch>> \in Text /\ Len(<<ch>>) = 1 /\ <<ch>>[1] = ch
BY DEF Text

\* A character is printed with the rest of the line behind it.
LEMMA CharKeeps ==
    ASSUME NEW ch \in Typed, LineOK, handle_char(ch)
    PROVE  Keeps
<1> DEFINE length == Len(input_line_)
           cursor == cursor_position_
           left == BeforeCursor \o <<ch>>
           new == left \o AfterCursor
           part == <<ch>> \o AfterCursor
<1>1. /\ length \in Nat /\ cursor \in Nat /\ cursor <= length
      /\ row \in Row /\ input_line_ \in Text
      /\ AfterCursor \in Text /\ Len(AfterCursor) = length - cursor
      /\ \A k \in 1..Len(AfterCursor) : AfterCursor[k] = input_line_[cursor + k]
      /\ BeforeCursor \in Text /\ Len(BeforeCursor) = cursor
      /\ \A k \in 1..cursor : BeforeCursor[k] = input_line_[k]
  BY LineFacts DEF LineOK
<1>2. /\ input_line_' = new /\ cursor_position_' = cursor + 1
      /\ row' = Backspaces(Write(row, part), Len(AfterCursor))
  BY DEF handle_char
<1>3. <<ch>> \in Text /\ Len(<<ch>>) = 1 /\ <<ch>>[1] = ch
  BY OneCharacter DEF Character
<1>4. /\ left \in Text /\ Len(left) = cursor + 1 /\ left[cursor + 1] = ch
      /\ \A k \in 1..cursor : left[k] = input_line_[k]
  <2>1. /\ left \in Text /\ Len(left) = Len(BeforeCursor) + Len(<<ch>>)
        /\ \A k \in 1..Len(BeforeCursor) + Len(<<ch>>) :
              left[k] = IF k <= Len(BeforeCursor) THEN BeforeCursor[k] ELSE <<ch>>[k - Len(BeforeCursor)]
    BY <1>1, <1>3, ConcatFacts
  <2> HIDE DEF left
  <2>2. Len(left) = cursor + 1
        /\ \A k \in 1..cursor + 1 : left[k] = IF k <= cursor THEN BeforeCursor[k] ELSE <<ch>>[k - cursor]
    BY <1>1, <1>3, <2>1
  <2>3. left[cursor + 1] = ch
    <3>1. left[cursor + 1] = <<ch>>[cursor + 1 - cursor] /\ cursor + 1 - cursor = 1
      BY <1>1, <2>2
    <3>2. QED BY <1>3, <3>1
  <2>4. QED BY <1>1, <2>1, <2>2, <2>3
<1> HIDE DEF left
<1>5. /\ new \in Text /\ Len(new) = length + 1
      /\ \A k \in 1..length + 1 : new[k] = IF k <= cursor THEN input_line_[k]
                                           ELSE IF k = cursor + 1 THEN ch ELSE input_line_[k - 1]
  <2>1. /\ new \in Text /\ Len(new) = Len(left) + Len(AfterCursor)
        /\ \A k \in 1..Len(left) + Len(AfterCursor) :
              new[k] = IF k <= Len(left) THEN left[k] ELSE AfterCursor[k - Len(left)]
    BY <1>1, <1>4, ConcatFacts
  <2> HIDE DEF new
  <2>2. Len(left) + Len(AfterCursor) = length + 1
    BY <1>1, <1>4
  <2>3. ASSUME NEW k \in 1..length + 1
        PROVE  new[k] = IF k <= cursor THEN input_line_[k]
                        ELSE IF k = cursor + 1 THEN ch ELSE input_line_[k - 1]
    <3>1. CASE k <= cursor + 1
      BY <1>1, <1>4, <2>1, <2>2, <3>1
    <3>2. CASE k > cursor + 1
      <4>1. k - (cursor + 1) \in 1..Len(AfterCursor) /\ cursor + (k - (cursor + 1)) = k - 1
        BY <1>1, <3>2
      <4>2. AfterCursor[k - (cursor + 1)] = input_line_[k - 1]
        BY <1>1, <4>1
      <4>3. QED BY <1>1, <1>4, <2>1, <2>2, <3>2, <4>2
    <3>3. QED BY <1>1, <3>1, <3>2
  <2>4. QED BY <2>1, <2>2, <2>3
<1>6. /\ part \in Text /\ Len(part) = length - cursor + 1 /\ part[1] = ch
      /\ \A k \in 2..length - cursor + 1 : part[k] = input_line_[cursor + k - 1]
  <2>1. /\ part \in Text /\ Len(part) = Len(<<ch>>) + Len(AfterCursor)
        /\ \A k \in 1..Len(<<ch>>) + Len(AfterCursor) :
              part[k] = IF k <= Len(<<ch>>) THEN <<ch>>[k] ELSE AfterCursor[k - Len(<<ch>>)]
    BY <1>1, <1>3, ConcatFacts
  <2> HIDE DEF part
  <2>2. Len(<<ch>>) + Len(AfterCursor) = length - cursor + 1
    BY <1>1, <1>3
  <2>3. part[1] = ch
    BY <1>1, <1>3, <2>1, <2>2
  <2>4. ASSUME NEW k \in 2..length - cursor + 1 PROVE part[k] = input_line_[cursor + k - 1]
    <3>1. k - 1 \in 1..Len(AfterCursor) /\ cursor + (k - 1) = cursor + k - 1 /\ ~(k <= 1)
          /\ k \in 1..length - cursor + 1
      BY <1>1
    <3>2. part[k] = AfterCursor[k - 1]
      BY <1>3, <2>1, <2>2, <3>1
    <3>3. QED BY <1>1, <3>1, <3>2
  <2>5. QED BY <2>1, <2>2, <2>3, <2>4
<1>7. Len(AfterCursor) \in Nat
  BY <1>1
<1> HIDE DEF length, cursor, new, part
<1>8. row' \in Row
  <2>1. Write(row, part) \in Row
    BY <1>1, <1>6, WriteFacts
  <2>2. QED BY <1>2, <1>7, <2>1, BackspacesFacts
<1>9. LineOK'
  <2>1. cursor + 1 \in 0..length + 1
    BY <1>1
  <2>2. QED BY <1>2, <1>5, <1>8, <2>1 DEF LineOK
<1>10. \A i \in Column :
          At(new, i) = IF i \in cursor + 1..cursor + Len(part)
                       THEN part[i - cursor] ELSE At(input_line_, i)
  <2> SUFFICES ASSUME NEW i \in Column
               PROVE  At(new, i) = IF i \in cursor + 1..cursor + Len(part)
                                   THEN part[i - cursor] ELSE At(input_line_, i)
    OBVIOUS
  <2>0. i \in Nat /\ i >= 1 /\ cursor + Len(part) = length + 1
    BY <1>1, <1>6 DEF Column
  <2>1. CASE i <= cursor
    BY <1>1, <1>5, <2>0, <2>1 DEF At, length
  <2>2. CASE i = cursor + 1
    <3>1. i - cursor = 1 /\ i \in cursor + 1..length + 1 /\ i \in 1..length + 1 /\ ~(i <= cursor)
      BY <1>1, <2>0, <2>2
    <3>2. At(new, i) = ch /\ part[i - cursor] = ch
      BY <1>5, <1>6, <2>2, <3>1 DEF At
    <3>3. QED BY <2>0, <3>1, <3>2
  <2>3. CASE i > cursor + 1 /\ i <= length + 1
    <3>1. /\ i - cursor \in 2..length - cursor + 1 /\ cursor + (i - cursor) - 1 = i - 1
          /\ i \in cursor + 1..length + 1 /\ i \in 1..length + 1 /\ ~(i <= cursor) /\ i # cursor + 1
      BY <1>1, <2>0, <2>3
    <3>2. part[i - cursor] = input_line_[i - 1]
      BY <1>6, <3>1
    <3>3. At(new, i) = input_line_[i - 1]
      BY <1>5, <3>1 DEF At
    <3>4. QED BY <2>0, <3>1, <3>2, <3>3
  <2>4. CASE i > length + 1
    BY <1>1, <1>5, <2>0, <2>4 DEF At, length
  <2>5. i <= cursor \/ i = cursor + 1 \/ (i > cursor + 1 /\ i <= length + 1) \/ i > length + 1
    BY <1>1, <2>0
  <2>6. QED BY <2>1, <2>2, <2>3, <2>4, <2>5, Zenon
<1>11. ASSUME Shows(row, input_line_, cursor_position_)
       PROVE  Shows(row', input_line_', cursor_position_')
  <2>1. Shows(row, input_line_, cursor)
    BY <1>11 DEF cursor
  <2>2. length - cursor \in 0..cursor + Len(part)
        /\ cursor + Len(part) - (length - cursor) = cursor + 1
    BY <1>1, <1>6
  <2>3. Shows(Backspaces(Write(row, part), length - cursor), new,
              cursor + Len(part) - (length - cursor))
    <3>1. row \in Row /\ cursor \in Nat /\ part \in Text
      BY <1>1, <1>6
    <3>2. QED BY <1>10, <2>1, <2>2, <3>1, PrintsTheDifference
  <2>4. QED BY <1>1, <1>2, <2>2, <2>3
<1>12. QED BY <1>9, <1>11 DEF Keeps

\* A text printed on a row that shows nothing.
LEMMA PrintsOnBlank ==
    ASSUME NEW r \in Row, Shows(r, <<>>, 0), NEW text \in Text
    PROVE  Write(r, text) \in Row /\ Shows(Write(r, text), text, Len(text))
<1>1. \A i \in Column :
          At(text, i) = IF i \in 0 + 1..0 + Len(text) THEN text[i - 0] ELSE At(<<>>, i)
  <2> SUFFICES ASSUME NEW i \in Column
               PROVE  At(text, i) = IF i \in 0 + 1..0 + Len(text) THEN text[i - 0] ELSE At(<<>>, i)
    OBVIOUS
  <2>1. i \in Nat /\ i - 0 = i /\ Len(text) \in Nat /\ 0 + 1 = 1 /\ 0 + Len(text) = Len(text)
    BY DEF Column, Text
  <2>2. i \notin 1..Len(<<>>)
    BY DEF Column
  <2>3. QED BY <2>1, <2>2 DEF At
<1>2. 0 + Len(text) = Len(text)
  BY DEF Text
<1>3. QED BY <1>1, <1>2, PrintsOver

\* A blank row shows the empty line.
LEMMA BlankShows == BlankRow \in Row /\ Shows(BlankRow, <<>>, 0) /\ <<>> \in Text
<1>1. <<>> \in Text
  BY DEF Text
<1>2. BlankRow \in Row
  BY <1>1 DEF BlankRow, Row
<1>3. BlankRow.cells = <<>> /\ BlankRow.column = 0
  BY DEF BlankRow
<1>4. \A i \in Column : Cell(BlankRow, i) = At(<<>>, i)
  BY <1>2, <1>3, CellIsAt
<1>5. QED BY <1>1, <1>2, <1>3, <1>4 DEF Shows

\* clear_input leaves nothing of the line.
LEMMA ClearedRowBlank ==
    ASSUME LineOK
    PROVE  /\ ClearedRow \in Row
           /\ Shows(row, input_line_, cursor_position_) => Shows(ClearedRow, <<>>, 0)
<1> DEFINE w == Write(row, AfterCursor)
           length == Len(input_line_)
<1>1. /\ length \in Nat /\ cursor_position_ \in Nat /\ cursor_position_ <= length
      /\ row \in Row /\ input_line_ \in Text /\ AfterCursor \in Text
  BY LineFacts DEF LineOK
<1>2. w \in Row
  BY <1>1, WriteFacts
<1>3. ClearedRow = Erase(w, length)
  BY DEF ClearedRow
<1>4. ASSUME Shows(row, input_line_, cursor_position_) PROVE Shows(w, input_line_, length)
  <2>1. /\ length - cursor_position_ \in 0..length - cursor_position_
        /\ cursor_position_ + (length - cursor_position_) = length
        /\ cursor_position_ \in 0..length
    BY <1>1
  <2>2. QED BY <1>1, <1>4, <2>1, PrintsAgain DEF AfterCursor
<1> HIDE DEF w
<1>5. /\ Erase(w, length) \in Row
      /\ length = w.column =>
            /\ Erase(w, length).column = 0
            /\ \A i \in Column : Cell(Erase(w, length), i) = IF i <= length THEN Blank ELSE Cell(w, i)
  BY <1>1, <1>2, EraseFacts
<1>6. ASSUME Shows(row, input_line_, cursor_position_) PROVE Shows(ClearedRow, <<>>, 0)
  <2>1. w.column = length /\ \A i \in Column : Cell(w, i) = At(input_line_, i)
    BY <1>4, <1>6 DEF Shows
  <2>2. ASSUME NEW i \in Column PROVE Cell(Erase(w, length), i) = At(<<>>, i)
    <3>1. ~(i <= length) => At(input_line_, i) = Blank
      BY <1>1 DEF At, Column
    <3>2. At(<<>>, i) = Blank
      BY DEF At, Column
    <3>3. QED BY <1>5, <2>1, <3>1, <3>2
  <2>3. QED BY <1>3, <1>5, <2>1, <2>2 DEF Shows
<1>7. QED BY <1>3, <1>5, <1>6

\* The line is replaced by another one.
LEMMA ReplacingKeeps ==
    ASSUME LineOK, NEW text \in Text, row' = Write(ClearedRow, text), LineBecomes(text)
    PROVE  Keeps
<1>1. input_line_' = text /\ cursor_position_' = Len(text)
  BY DEF LineBecomes
<1>2. ClearedRow \in Row
  BY ClearedRowBlank
<1>3. Len(text) \in 0..Len(text)
  BY DEF Text
<1>4. LineOK'
  BY <1>1, <1>2, <1>3, WriteFacts DEF LineOK
<1>5. ASSUME Shows(row, input_line_, cursor_position_)
      PROVE  Shows(row', input_line_', cursor_position_')
  BY <1>1, <1>2, <1>5, ClearedRowBlank, PrintsOnBlank
<1>6. QED BY <1>4, <1>5 DEF Keeps

\* Enter begins a blank row and an empty line.
LEMMA NewlineKeeps == LineOK /\ handle_newline => Keeps
<1> SUFFICES ASSUME LineOK, handle_newline PROVE Keeps
  OBVIOUS
<1>1. input_line_' = <<>> /\ cursor_position_' = 0 /\ row' = BlankRow
  <2>1. input_line_' = <<>> /\ cursor_position_' = Len(<<>>) /\ row' = BlankRow
    BY DEF handle_newline, LineBecomes
  <2>2. QED BY <2>1
<1>2. 0 \in 0..Len(<<>>)
  OBVIOUS
<1>3. QED BY <1>1, <1>2, BlankShows DEF Keeps, LineOK

\* A Tab that lists its matches puts the prefix on a new row.
LEMMA ListingKeeps ==
    ASSUME LineOK, NEW prefix \in Text, row' = Write(BlankRow, prefix), LineBecomes(prefix)
    PROVE  Keeps
<1>1. input_line_' = prefix /\ cursor_position_' = Len(prefix) /\ Len(prefix) \in 0..Len(prefix)
  BY DEF LineBecomes, Text
<1>2. row' \in Row /\ Shows(row', prefix, Len(prefix))
  BY BlankShows, PrintsOnBlank
<1>3. QED BY <1>1, <1>2 DEF Keeps, LineOK

\* A Tab that completes prints what it appends, wherever the column is: the row
\* stays right when it was at the end of the line.
LEMMA CompletingKeeps ==
    ASSUME LineOK, NEW part \in Text, row' = Write(row, part), LineBecomes(input_line_ \o part)
    PROVE  LineOK' /\ (cursor_position_ = Len(input_line_) => Keeps)
<1> DEFINE length == Len(input_line_)
           new == input_line_ \o part
<1>1. /\ length \in Nat /\ row \in Row /\ input_line_ \in Text
  BY LineFacts DEF LineOK
<1>2. /\ new \in Text /\ Len(new) = length + Len(part)
      /\ \A k \in 1..length + Len(part) : new[k] = IF k <= length THEN input_line_[k] ELSE part[k - length]
  BY <1>1, ConcatFacts
<1>3. input_line_' = new /\ cursor_position_' = Len(new)
  BY DEF LineBecomes
<1> HIDE DEF length, new
<1>4. LineOK'
  <2>1. Len(new) \in 0..Len(new)
    BY <1>2 DEF Text
  <2>2. QED BY <1>1, <1>2, <1>3, <2>1, WriteFacts DEF LineOK
<1>5. \A i \in Column :
          At(new, i) = IF i \in length + 1..length + Len(part) THEN part[i - length] ELSE At(input_line_, i)
  <2> SUFFICES ASSUME NEW i \in Column
               PROVE  At(new, i) = IF i \in length + 1..length + Len(part)
                                   THEN part[i - length] ELSE At(input_line_, i)
    OBVIOUS
  <2>0. i \in Nat /\ i >= 1 /\ Len(part) \in Nat
    BY DEF Column, Text
  <2>1. CASE i <= length
    <3>1. i \in 1..length + Len(part) /\ i \in 1..length /\ i \notin length + 1..length + Len(part)
      BY <1>1, <2>0, <2>1
    <3>2. At(new, i) = input_line_[i] /\ At(input_line_, i) = input_line_[i]
      BY <1>2, <2>1, <3>1 DEF At, length
    <3>3. QED BY <3>1, <3>2
  <2>2. CASE i > length /\ i <= length + Len(part)
    <3>1. i \in 1..length + Len(part) /\ ~(i <= length) /\ i \in length + 1..length + Len(part)
      BY <1>1, <2>0, <2>2
    <3>2. At(new, i) = part[i - length]
      BY <1>2, <3>1 DEF At
    <3>3. QED BY <3>1, <3>2
  <2>3. CASE i > length + Len(part)
    <3>1. /\ i \notin 1..length + Len(part) /\ i \notin 1..length
          /\ i \notin length + 1..length + Len(part)
      BY <1>1, <2>0, <2>3
    <3>2. At(new, i) = Blank /\ At(input_line_, i) = Blank
      BY <1>2, <3>1 DEF At, length
    <3>3. QED BY <3>1, <3>2
  <2>4. i <= length \/ (i > length /\ i <= length + Len(part)) \/ i > length + Len(part)
    BY <1>1, <2>0
  <2>5. QED BY <2>1, <2>2, <2>3, <2>4, Zenon
<1>6. ASSUME cursor_position_ = length, Shows(row, input_line_, cursor_position_)
      PROVE  Shows(row', input_line_', cursor_position_')
  <2>1. Shows(row, input_line_, length)
    BY <1>6
  <2>2. Shows(Write(row, part), new, length + Len(part))
    BY <1>1, <1>5, <2>1, PrintsOver
  <2>3. QED BY <1>2, <1>3, <2>2
<1>7. QED BY <1>4, <1>6 DEF Keeps, length

-----------------------------------------------------------------------------
(* The order of the matches.                                               *)

\* A set of naturals that is not empty has a least one.
LEMMA LeastNatural ==
    ASSUME NEW S \in SUBSET Nat, S # {}
    PROVE  \E m \in S : \A k \in S : m <= k
<1> DEFINE R == OpToRel(<, Nat)
<1>1. IsWellFoundedOn(R, Nat)
  BY NatLessThanWellFounded
<1>2. \A x, y \in Nat : x < y => <<x, y>> \in R
  BY DEF OpToRel
<1> HIDE DEF R
<1>3. \E m \in S : \A k \in S : ~(<<k, m>> \in R)
  BY <1>1, WFMin
<1>4. PICK m \in S : \A k \in S : ~(<<k, m>> \in R)
  BY <1>3
<1>5. \A k \in S : m <= k
  <2> SUFFICES ASSUME NEW k \in S PROVE m <= k
    OBVIOUS
  <2>1. k \in Nat /\ m \in Nat
    OBVIOUS
  <2>2. ~(k < m)
    BY <1>2, <1>4, <2>1, Zenon
  <2>3. QED BY <2>1, <2>2
<1>6. QED BY <1>5

\* Characters are compared by their codes.
LEMMA Codes ==
    ASSUME NEW text \in Text
    PROVE  Len(text) \in Nat /\ \A j \in 1..Len(text) : text[j] \in Int
<1>1. Len(text) \in Nat /\ \A j \in 1..Len(text) : text[j] \in Character
  BY DEF Text
<1>2. QED BY <1>1, CommandsAssumption

\* A prefix, character by character.
LEMMA PrefixFacts ==
    ASSUME NEW a \in Text, NEW b \in Text
    PROVE  IsPrefix(a, b) <=> Len(a) <= Len(b) /\ \A k \in 1..Len(a) : a[k] = b[k]
<1>1. a \in Seq(Character) /\ b \in Seq(Character) /\ Len(a) \in Nat /\ Len(b) \in Nat
  BY DEF Text
<1> DEFINE x == SubSeq(a, 1, Len(a))
           y == SubSeq(b, 1, Len(a))
<1>2. x \in Seq(Character) /\ Len(x) = Len(a) /\ \A k \in 1..Len(a) : x[k] = a[k]
  BY <1>1
<1>3. ASSUME Len(a) <= Len(b)
      PROVE  y \in Seq(Character) /\ Len(y) = Len(a) /\ \A k \in 1..Len(a) : y[k] = b[k]
  BY <1>1, <1>3
<1>4. IsPrefix(a, b) <=> Len(a) <= Len(b) /\ x = y
  BY DEF IsPrefix
<1> HIDE DEF x, y
<1>5. ASSUME Len(a) <= Len(b), \A k \in 1..Len(a) : a[k] = b[k] PROVE x = y
  <2>1. x \in Seq(Character) /\ y \in Seq(Character) /\ Len(x) = Len(y)
    BY <1>2, <1>3, <1>5
  <2>2. \A k \in 1..Len(x) : x[k] = y[k]
    BY <1>2, <1>3, <1>5
  <2>3. QED BY <2>1, <2>2, SameText
<1>6. ASSUME Len(a) <= Len(b), x = y PROVE \A k \in 1..Len(a) : a[k] = b[k]
  BY <1>2, <1>3, <1>6
<1>7. QED BY <1>4, <1>5, <1>6

\* Two texts compared at the first place where they differ: the one that ends
\* there, or has the smaller character, comes first.
BeforeAt(a, b, i) ==
    /\ i \in 1..Len(b) /\ i <= Len(a) + 1
    /\ \A j \in 1..i-1 : a[j] = b[j]
    /\ i <= Len(a) => a[i] < b[i]

\* Before, by the first place in which the two texts differ.
LEMMA BeforeFacts ==
    ASSUME NEW a \in Text, NEW b \in Text
    PROVE  Before(a, b) <=> \E i \in Column : BeforeAt(a, b, i)
<1>1. /\ Len(a) \in Nat /\ Len(b) \in Nat
      /\ DOMAIN a = 1..Len(a) /\ DOMAIN b = 1..Len(b)
      /\ a \in Seq(Character) /\ b \in Seq(Character)
  BY DEF Text
<1>2. ASSUME IsStrictPrefix(a, b) PROVE BeforeAt(a, b, Len(a) + 1) /\ Len(a) + 1 \in Column
  <2>1. Len(a) <= Len(b) /\ (\A k \in 1..Len(a) : a[k] = b[k]) /\ a # b
    BY <1>2, PrefixFacts DEF IsStrictPrefix
  <2>2. Len(a) # Len(b)
    BY <1>1, <2>1, SameText
  <2>3. /\ Len(a) + 1 \in 1..Len(b) /\ Len(a) + 1 <= Len(a) + 1 /\ ~(Len(a) + 1 <= Len(a))
        /\ Len(a) + 1 - 1 = Len(a) /\ Len(a) + 1 \in Column
    <3>1. Len(a) \in Nat /\ Len(b) \in Nat /\ Len(a) <= Len(b) /\ Len(a) # Len(b)
      BY <1>1, <2>1, <2>2
    <3>2. QED BY <3>1 DEF Column
  <2>4. QED BY <2>1, <2>3 DEF BeforeAt
<1>3. ASSUME NEW i \in DOMAIN a \intersect DOMAIN b, a[i] < b[i], \A j \in 1..i-1 : a[j] = b[j]
      PROVE  BeforeAt(a, b, i) /\ i \in Column
  <2>1. i \in 1..Len(a) /\ i \in 1..Len(b)
    BY <1>1
  <2>2. QED BY <1>1, <1>3, <2>1 DEF BeforeAt, Column
<1>4. ASSUME NEW i \in Column, BeforeAt(a, b, i) PROVE Before(a, b)
  <2>1. /\ i \in 1..Len(b) /\ i <= Len(a) + 1 /\ i \in Nat
        /\ \A j \in 1..i-1 : a[j] = b[j]
        /\ i <= Len(a) => a[i] < b[i]
    BY <1>4 DEF BeforeAt, Column
  <2>2. CASE i <= Len(a)
    <3>1. i \in DOMAIN a \intersect DOMAIN b /\ a[i] < b[i]
      BY <1>1, <2>1, <2>2
    <3>2. QED BY <2>1, <3>1 DEF Before
  <2>3. CASE i = Len(a) + 1
    <3>0. Len(a) \in Nat /\ Len(b) \in Nat /\ i \in 1..Len(b)
      BY <1>1, <2>1
    <3>1. i - 1 = Len(a) /\ Len(a) <= Len(b) /\ Len(a) # Len(b)
      BY <3>0, <2>3
    <3>2. \A k \in 1..Len(a) : a[k] = b[k]
      BY <2>1, <3>1
    <3>3. QED BY <3>1, <3>2, PrefixFacts DEF Before, IsStrictPrefix
  <2>4. QED BY <1>1, <2>1, <2>2, <2>3
<1>5. QED BY <1>2, <1>3, <1>4 DEF Before

\* No text is before itself.
LEMMA BeforeIrreflexive == ASSUME NEW a \in Text PROVE ~Before(a, a)
<1> SUFFICES ASSUME NEW i \in Column, BeforeAt(a, a, i) PROVE FALSE
  BY BeforeFacts
<1>1. i \in 1..Len(a) /\ a[i] < a[i] /\ Len(a) \in Nat
  BY DEF BeforeAt, Text
<1>2. a[i] \in Int
  BY <1>1, Codes
<1>3. QED BY <1>1, <1>2

\* Being before is transitive: the earlier of the two differences decides.
LEMMA BeforeTransitive ==
    ASSUME NEW a \in Text, NEW b \in Text, NEW c \in Text, Before(a, b), Before(b, c)
    PROVE  Before(a, c)
<1>1. PICK i \in Column : BeforeAt(a, b, i)
  BY BeforeFacts
<1>2. PICK k \in Column : BeforeAt(b, c, k)
  BY BeforeFacts
<1>3. /\ Len(a) \in Nat /\ Len(b) \in Nat /\ Len(c) \in Nat /\ i \in Nat /\ k \in Nat
      /\ \A j \in 1..Len(a) : a[j] \in Int
      /\ \A j \in 1..Len(b) : b[j] \in Int
      /\ \A j \in 1..Len(c) : c[j] \in Int
  BY Codes DEF Column
<1>4. /\ i >= 1 /\ i <= Len(b) /\ i <= Len(a) + 1
      /\ \A j \in 1..i-1 : a[j] = b[j]
      /\ i <= Len(a) => a[i] < b[i]
  BY <1>1, <1>3 DEF BeforeAt
<1>5. /\ k >= 1 /\ k <= Len(c) /\ k <= Len(b) + 1
      /\ \A j \in 1..k-1 : b[j] = c[j]
      /\ k <= Len(b) => b[k] < c[k]
  BY <1>2, <1>3 DEF BeforeAt
<1>6. CASE i < k
  <2>1. i \in 1..Len(c) /\ i \in 1..k-1 /\ b[i] = c[i]
    BY <1>3, <1>4, <1>5, <1>6
  <2>2. \A j \in 1..i-1 : a[j] = c[j]
    BY <1>3, <1>4, <1>5, <1>6
  <2>3. BeforeAt(a, c, i)
    BY <1>3, <1>4, <2>1, <2>2 DEF BeforeAt
  <2>4. QED BY <2>3, BeforeFacts
<1>7. CASE i = k
  <2>1. i \in 1..Len(c) /\ i \in 1..Len(b) /\ b[i] < c[i]
    BY <1>3, <1>4, <1>5, <1>7
  <2>2. \A j \in 1..i-1 : a[j] = c[j]
    BY <1>3, <1>4, <1>5, <1>7
  <2>3. ASSUME i <= Len(a) PROVE a[i] < c[i]
    <3>1. a[i] \in Int /\ b[i] \in Int /\ c[i] \in Int
      <4>1. i \in 1..Len(a)
        BY <1>3, <1>4, <2>3
      <4>2. QED BY <1>3, <2>1, <4>1
    <3>2. a[i] < b[i]
      BY <1>4, <2>3
    <3>3. QED BY <2>1, <3>1, <3>2
  <2>4. BeforeAt(a, c, i)
    BY <1>4, <2>1, <2>2, <2>3 DEF BeforeAt
  <2>5. QED BY <2>4, BeforeFacts
<1>8. CASE i > k
  <2>1. k \in 1..Len(c) /\ k \in 1..i-1 /\ k <= Len(b) /\ k <= Len(a) + 1 /\ a[k] = b[k] /\ b[k] < c[k]
    BY <1>3, <1>4, <1>5, <1>8
  <2>2. \A j \in 1..k-1 : a[j] = c[j]
    BY <1>3, <1>4, <1>5, <1>8
  <2>3. BeforeAt(a, c, k)
    BY <2>1, <2>2 DEF BeforeAt
  <2>4. QED BY <2>3, BeforeFacts
<1>9. QED BY <1>3, <1>6, <1>7, <1>8

\* What is not after the first text and not before the last one has every prefix
\* that these two share.
LEMMA BetweenSharesPrefix ==
    ASSUME NEW first \in Text, NEW last \in Text, NEW middle \in Text, NEW prefix \in Text,
           ~Before(middle, first), ~Before(last, middle),
           IsPrefix(prefix, first), IsPrefix(prefix, last)
    PROVE  IsPrefix(prefix, middle)
<1> DEFINE Differ == {d \in 1..Len(prefix) : d > Len(middle) \/ middle[d] # prefix[d]}
<1>1. /\ Len(prefix) \in Nat /\ Len(first) \in Nat /\ Len(last) \in Nat /\ Len(middle) \in Nat
      /\ \A j \in 1..Len(prefix) : prefix[j] \in Int
      /\ \A j \in 1..Len(middle) : middle[j] \in Int
  BY Codes
<1>2. /\ Len(prefix) <= Len(first) /\ \A k \in 1..Len(prefix) : prefix[k] = first[k]
      /\ Len(prefix) <= Len(last) /\ \A k \in 1..Len(prefix) : prefix[k] = last[k]
  BY PrefixFacts
<1>3. CASE Differ = {}
  <2>1. \A k \in 1..Len(prefix) : k <= Len(middle) /\ prefix[k] = middle[k]
    BY <1>1, <1>3
  <2>2. Len(prefix) <= Len(middle)
    <3>1. CASE Len(prefix) = 0
      BY <1>1, <3>1
    <3>2. CASE Len(prefix) # 0
      BY <1>1, <2>1, <3>2
    <3>3. QED BY <3>1, <3>2
  <2>3. QED BY <2>1, <2>2, PrefixFacts
<1>4. CASE Differ # {}
  <2>1. Differ \in SUBSET Nat
    BY <1>1
  <2>2. PICK d \in Differ : \A k \in Differ : d <= k
    BY <1>4, <2>1, LeastNatural
  <2>3. /\ d \in 1..Len(prefix) /\ d \in Nat /\ d >= 1 /\ d <= Len(prefix) /\ d \in Column
        /\ d > Len(middle) \/ middle[d] # prefix[d]
    BY <1>1 DEF Column
  <2>4. ASSUME NEW j \in 1..d-1 PROVE j <= Len(middle) /\ middle[j] = prefix[j]
    <3>1. j \in 1..Len(prefix) /\ ~(d <= j)
      BY <1>1, <2>3
    <3>2. j \notin Differ
      BY <2>2, <3>1
    <3>3. QED BY <1>1, <3>1, <3>2
  <2>5. d <= Len(middle) + 1
    <3>1. CASE d = 1
      BY <1>1, <3>1
    <3>2. CASE d > 1
      <4>1. d - 1 \in 1..d-1
        BY <2>3, <3>2
      <4>2. d - 1 <= Len(middle)
        BY <2>4, <4>1
      <4>3. QED BY <1>1, <2>3, <4>2
    <3>3. QED BY <2>3, <3>1, <3>2
  <2>6. CASE d > Len(middle)
    <3>1. \A j \in 1..d-1 : middle[j] = first[j]
      BY <1>1, <1>2, <2>3, <2>4
    <3>2. d \in 1..Len(first) /\ ~(d <= Len(middle))
      BY <1>1, <1>2, <2>3, <2>6
    <3>3. BeforeAt(middle, first, d)
      BY <2>5, <3>1, <3>2 DEF BeforeAt
    <3>4. QED BY <2>3, <3>3, BeforeFacts
  <2>7. CASE d <= Len(middle)
    <3>1. d \in 1..Len(middle) /\ middle[d] \in Int /\ prefix[d] \in Int /\ middle[d] # prefix[d]
      BY <1>1, <2>3, <2>7
    <3>2. /\ d \in 1..Len(first) /\ d \in 1..Len(last) /\ d <= Len(last) + 1 /\ d <= Len(last)
          /\ first[d] = prefix[d] /\ last[d] = prefix[d]
      BY <1>1, <1>2, <2>3
    <3>3. CASE middle[d] < prefix[d]
      <4>1. \A j \in 1..d-1 : middle[j] = first[j]
        BY <1>1, <1>2, <2>3, <2>4
      <4>2. BeforeAt(middle, first, d)
        BY <2>5, <3>2, <3>3, <4>1 DEF BeforeAt
      <4>3. QED BY <2>3, <4>2, BeforeFacts
    <3>4. CASE prefix[d] < middle[d]
      <4>1. \A j \in 1..d-1 : last[j] = middle[j]
        BY <1>1, <1>2, <2>3, <2>4
      <4>2. BeforeAt(last, middle, d)
        BY <3>1, <3>2, <3>4, <4>1 DEF BeforeAt
      <4>3. QED BY <2>3, <4>2, BeforeFacts
    <3>5. QED BY <3>1, <3>3, <3>4
  <2>8. QED BY <1>1, <2>3, <2>6, <2>7
<1>5. QED BY <1>3, <1>4

\* order rearranges the numbers up to n.
Rearranges(n, order) ==
    /\ order \in [1..n -> 1..n]
    /\ \A x, y \in 1..n : order[x] = order[y] => x = y
    /\ \A b \in 1..n : \E a \in 1..n : order[a] = b

\* What a rearrangement of places is.
LEMMA BijectionFacts ==
    ASSUME NEW n, NEW order
    PROVE  order \in Bijection(1..n, 1..n) <=> Rearranges(n, order)
<1>1. order \in Injection(1..n, 1..n) <=>
          order \in [1..n -> 1..n] /\ \A x, y \in 1..n : order[x] = order[y] => x = y
  BY DEF Injection, IsInjective
<1>2. order \in Surjection(1..n, 1..n) <=>
          order \in [1..n -> 1..n] /\ \A b \in 1..n : \E a \in 1..n : order[a] = b
  BY DEF Surjection
<1>3. QED BY <1>1, <1>2 DEF Bijection, Rearranges

\* order sorts the first n texts.
Sorts(n, texts, order) ==
    /\ order \in Bijection(1..n, 1..n)
    /\ \A i, j \in 1..n : i < j => ~Before(texts[order[j]], texts[order[i]])

Sortable(n) == \A texts \in [1..n -> Text] : \E order : Sorts(n, texts, order)

\* One more text is put before the first one that comes after it.
LEMMA Insertion ==
    ASSUME NEW n \in Nat, Sortable(n)
    PROVE  Sortable(n + 1)
<1> SUFFICES ASSUME NEW texts \in [1..n+1 -> Text] PROVE \E order : Sorts(n + 1, texts, order)
  BY DEF Sortable
<1> DEFINE some == [i \in 1..n |-> texts[i]]
           x == texts[n + 1]
<1>1. some \in [1..n -> Text] /\ x \in Text
  OBVIOUS
<1>2. PICK order : Sorts(n, some, order)
  BY <1>1 DEF Sortable
<1>3. /\ order \in [1..n -> 1..n]
      /\ \A i, j \in 1..n : order[i] = order[j] => i = j
      /\ \A b \in 1..n : \E a \in 1..n : order[a] = b
      /\ \A i, j \in 1..n : i < j => ~Before(some[order[j]], some[order[i]])
  <2>1. order \in Bijection(1..n, 1..n)
        /\ \A i, j \in 1..n : i < j => ~Before(some[order[j]], some[order[i]])
    BY <1>2 DEF Sorts
  <2>2. Rearranges(n, order)
    BY <2>1, BijectionFacts
  <2>3. QED BY <2>1, <2>2 DEF Rearranges
<1> DEFINE t == [i \in 1..n |-> texts[order[i]]]
<1>4. /\ t \in [1..n -> Text]
      /\ \A i, j \in 1..n : i < j => ~Before(t[j], t[i])
  <2>1. \A i \in 1..n : order[i] \in 1..n /\ order[i] \in 1..n+1
    BY <1>3
  <2>2. \A i \in 1..n : t[i] = some[order[i]] /\ t[i] \in Text
    BY <2>1
  <2>3. QED BY <1>3, <2>2
<1> DEFINE Later == {k \in 1..n+1 : k = n + 1 \/ Before(x, t[k])}
<1>5. PICK p \in Later : \A k \in Later : p <= k
  <2>1. Later \in SUBSET Nat /\ n + 1 \in Later
    OBVIOUS
  <2>2. QED BY <2>1, LeastNatural
<1>6. p \in Nat /\ p >= 1 /\ p <= n + 1 /\ (p = n + 1 \/ Before(x, t[p]))
  OBVIOUS
<1>7. \A k \in 1..n : k < p => ~Before(x, t[k])
  <2> SUFFICES ASSUME NEW k \in 1..n, k < p, Before(x, t[k]) PROVE FALSE
    OBVIOUS
  <2>1. k \in Later
    OBVIOUS
  <2>2. p <= k
    BY <1>5, <2>1
  <2>3. QED BY <1>6, <2>2
<1> DEFINE new == [i \in 1..n+1 |-> IF i < p THEN order[i] ELSE IF i = p THEN n + 1 ELSE order[i - 1]]
<1>8. new \in Bijection(1..n+1, 1..n+1)
  <2>1. ASSUME NEW i \in 1..n+1, i < p
        PROVE  i \in 1..n /\ new[i] = order[i] /\ new[i] \in 1..n
    <3>1. i \in 1..n
      BY <1>6, <2>1
    <3>2. QED BY <1>3, <2>1, <3>1
  <2>2. p \in 1..n+1 /\ new[p] = n + 1
    BY <1>6
  <2>3. ASSUME NEW i \in 1..n+1, i > p
        PROVE  i - 1 \in 1..n /\ new[i] = order[i - 1] /\ new[i] \in 1..n
    <3>1. i - 1 \in 1..n /\ ~(i < p) /\ i # p
      BY <1>6, <2>3
    <3>2. QED BY <1>3, <3>1
  <2>4. new \in [1..n+1 -> 1..n+1]
    <3>1. ASSUME NEW i \in 1..n+1 PROVE new[i] \in 1..n+1
      <4>1. i < p \/ i = p \/ i > p
        BY <1>6
      <4>2. 1..n \subseteq 1..n+1 /\ n + 1 \in 1..n+1
        OBVIOUS
      <4> HIDE DEF new
      <4>3. QED BY <2>1, <2>2, <2>3, <4>1, <4>2, Zenon
    <3>2. QED BY <3>1
  <2> HIDE DEF new
  <2>5. ASSUME NEW i \in 1..n+1, NEW j \in 1..n+1, i < j, new[i] = new[j] PROVE FALSE
    <3>1. n + 1 \notin 1..n /\ i \in Nat /\ j \in Nat
      OBVIOUS
    <3>2. CASE j < p
      <4>1. i < p
        BY <1>6, <2>5, <3>1, <3>2
      <4>2. i = j
        BY <1>3, <2>1, <2>5, <3>2, <4>1
      <4>3. QED BY <2>5, <3>1, <4>2
    <3>3. CASE j = p
      <4>1. new[i] \in 1..n
        BY <2>1, <2>5, <3>3
      <4>2. QED BY <2>2, <2>5, <3>1, <3>3, <4>1
    <3>4. CASE j > p
      <4>1. j - 1 \in 1..n /\ new[j] = order[j - 1] /\ new[j] \in 1..n
        BY <2>3, <3>4
      <4>2. CASE i < p
        <5>1. i = j - 1
          BY <1>3, <2>1, <2>5, <4>1, <4>2
        <5>2. QED BY <1>6, <3>1, <3>4, <4>2, <5>1
      <4>3. CASE i = p
        BY <2>2, <2>5, <3>1, <4>1, <4>3
      <4>4. CASE i > p
        <5>1. i - 1 \in 1..n /\ new[i] = order[i - 1]
          BY <2>3, <4>4
        <5>2. i - 1 = j - 1
          BY <1>3, <2>5, <4>1, <5>1
        <5>3. QED BY <2>5, <3>1, <5>2
      <4>5. QED BY <1>6, <3>1, <4>2, <4>3, <4>4
    <3>5. QED BY <1>6, <3>1, <3>2, <3>3, <3>4
  <2>6. ASSUME NEW i \in 1..n+1, NEW j \in 1..n+1, new[i] = new[j] PROVE i = j
    <3>1. i < j \/ j < i \/ i = j
      OBVIOUS
    <3>2. QED BY <2>5, <2>6, <3>1
  <2>7. ASSUME NEW b \in 1..n+1 PROVE \E a \in 1..n+1 : new[a] = b
    <3>1. CASE b = n + 1
      BY <2>2, <3>1
    <3>2. CASE b # n + 1
      <4>1. b \in 1..n
        BY <3>2
      <4>2. PICK a \in 1..n : order[a] = b
        BY <1>3, <4>1
      <4>3. CASE a < p
        <5>1. a \in 1..n+1
          OBVIOUS
        <5>2. QED BY <2>1, <4>2, <4>3, <5>1
      <4>4. CASE a >= p
        <5>1. a + 1 \in 1..n+1 /\ a + 1 > p /\ a + 1 - 1 = a
          BY <1>6, <4>4
        <5>2. new[a + 1] = order[a + 1 - 1]
          BY <2>3, <5>1
        <5>3. QED BY <4>2, <5>1, <5>2
      <4>5. QED BY <1>6, <4>3, <4>4
    <3>3. QED BY <3>1, <3>2
  <2>8. Rearranges(n + 1, new)
    BY <2>4, <2>6, <2>7 DEF Rearranges
  <2>9. QED BY <2>8, BijectionFacts
<1>9. \A i \in 1..n+1 : texts[new[i]] = IF i < p THEN t[i] ELSE IF i = p THEN x ELSE t[i - 1]
  <2> SUFFICES ASSUME NEW i \in 1..n+1
               PROVE  texts[new[i]] = IF i < p THEN t[i] ELSE IF i = p THEN x ELSE t[i - 1]
    OBVIOUS
  <2>1. i < p => i \in 1..n
    BY <1>6
  <2>2. i > p => i - 1 \in 1..n
    BY <1>6
  <2>3. QED BY <1>6, <2>1, <2>2
<1> HIDE DEF new, t, x, some, Later
<1>10. ASSUME NEW i \in 1..n+1, NEW j \in 1..n+1, i < j
       PROVE  ~Before(texts[new[j]], texts[new[i]])
  <2>1. CASE j < p
    <3>1. i \in 1..n /\ j \in 1..n /\ i < p
      BY <1>6, <1>10, <2>1
    <3>2. QED BY <1>4, <1>9, <1>10, <2>1, <3>1
  <2>2. CASE j = p
    <3>1. i \in 1..n /\ i < p /\ ~(p < p)
      BY <1>6, <1>10, <2>2
    <3>2. QED BY <1>7, <1>9, <2>2, <3>1
  <2>3. CASE j > p
    <3>1. j - 1 \in 1..n /\ ~(j < p) /\ j # p /\ texts[new[j]] = t[j - 1] /\ t[j - 1] \in Text
      <4>1. j - 1 \in 1..n /\ ~(j < p) /\ j # p
        BY <1>6, <2>3
      <4>2. QED BY <1>4, <1>9, <4>1
    <3>2. CASE i < p
      <4>1. i \in 1..n /\ i < j - 1
        BY <1>6, <2>3, <3>2
      <4>2. QED BY <1>4, <1>9, <3>1, <3>2, <4>1
    <3>3. CASE i = p
      <4>1. texts[new[i]] = x /\ p \in 1..n /\ Before(x, t[p]) /\ t[p] \in Text
        <5>1. p \in 1..n /\ p # n + 1 /\ ~(p < p)
          BY <1>6, <2>3
        <5>2. QED BY <1>4, <1>6, <1>9, <3>3, <5>1
      <4>2. SUFFICES ASSUME Before(t[j - 1], x) PROVE FALSE
        BY <3>1, <4>1
      <4>3. Before(t[j - 1], t[p])
        BY <1>1, <3>1, <4>1, <4>2, BeforeTransitive
      <4>4. CASE j - 1 = p
        BY <4>1, <4>3, <4>4, BeforeIrreflexive
      <4>5. CASE p < j - 1
        BY <1>4, <3>1, <4>1, <4>3, <4>5
      <4>6. QED BY <1>6, <2>3, <4>4, <4>5
    <3>4. CASE i > p
      <4>1. i - 1 \in 1..n /\ ~(i < p) /\ i # p /\ i - 1 < j - 1
        BY <1>6, <1>10, <3>4
      <4>2. QED BY <1>4, <1>9, <3>1, <4>1
    <3>5. QED BY <1>6, <3>2, <3>3, <3>4
  <2>4. QED BY <1>6, <2>1, <2>2, <2>3
<1>11. Sorts(n + 1, texts, new)
  BY <1>8, <1>10 DEF Sorts
<1>12. QED BY <1>11

\* So any number of texts can be sorted.
LEMMA AllSortable == ASSUME NEW n \in Nat PROVE Sortable(n)
<1> DEFINE Bad == {m \in Nat : ~Sortable(m)}
<1>1. Sortable(0)
  <2> SUFFICES ASSUME NEW texts \in [1..0 -> Text] PROVE \E order : Sorts(0, texts, order)
    BY DEF Sortable
  <2> DEFINE none == [i \in 1..0 |-> i]
  <2>1. 1..0 = {}
    OBVIOUS
  <2>2. none \in Bijection(1..0, 1..0)
    <3>1. Rearranges(0, none)
      BY <2>1 DEF Rearranges
    <3>2. QED BY <3>1, BijectionFacts
  <2>3. Sorts(0, texts, none)
    BY <2>1, <2>2 DEF Sorts
  <2>4. QED BY <2>3
<1>2. Bad = {}
  <2> SUFFICES ASSUME Bad # {} PROVE FALSE
    OBVIOUS
  <2>1. PICK m \in Bad : \A k \in Bad : m <= k
    BY LeastNatural
  <2>2. m \in Nat /\ ~Sortable(m)
    OBVIOUS
  <2>3. m # 0
    BY <1>1, <2>2
  <2>4. m - 1 \in Nat /\ m - 1 + 1 = m /\ ~(m <= m - 1)
    BY <2>2, <2>3
  <2>5. Sortable(m - 1)
    BY <2>1, <2>4
  <2>6. Sortable(m - 1 + 1)
    BY <2>4, <2>5, Insertion
  <2>7. QED BY <2>2, <2>4, <2>6
<1>3. QED BY <1>2

\* What Sorted returns.
LEMMA SortedFacts ==
    ASSUME NEW texts \in Seq(Text)
    PROVE  /\ Sorted(texts) \in Seq(Text) /\ Len(Sorted(texts)) = Len(texts)
           /\ \A i, j \in 1..Len(texts) : i < j => ~Before(Sorted(texts)[j], Sorted(texts)[i])
<1> DEFINE n == Len(texts)
           Rearranged == {[i \in 1..n |-> texts[order[i]]] : order \in Bijection(1..n, 1..n)}
<1>1. n \in Nat /\ DOMAIN texts = 1..n /\ texts \in [1..n -> Text]
  OBVIOUS
<1>2. Sorted(texts) = CHOOSE text \in Rearranged :
                          \A i, j \in 1..n : i < j => ~Before(text[j], text[i])
  BY <1>1 DEF Sorted
<1> HIDE DEF n
<1>3. PICK order : Sorts(n, texts, order)
  BY <1>1, AllSortable DEF Sortable
<1>4. Rearranges(n, order) /\ order \in Bijection(1..n, 1..n)
  BY <1>3, BijectionFacts DEF Sorts
<1> DEFINE found == [i \in 1..n |-> texts[order[i]]]
<1>5. found \in Rearranged
  BY <1>4
<1>6. \A i, j \in 1..n : i < j => ~Before(found[j], found[i])
  BY <1>3 DEF Sorts
<1> HIDE DEF found
<1>7. /\ Sorted(texts) \in Rearranged
      /\ \A i, j \in 1..n : i < j => ~Before(Sorted(texts)[j], Sorted(texts)[i])
  BY <1>2, <1>5, <1>6
<1>8. PICK other \in Bijection(1..n, 1..n) : Sorted(texts) = [i \in 1..n |-> texts[other[i]]]
  BY <1>7
<1>9. Rearranges(n, other)
  BY BijectionFacts
<1>10. \A i \in 1..n : texts[other[i]] \in Text
  BY <1>1, <1>9 DEF Rearranges
<1>11. Sorted(texts) \in Seq(Text) /\ Len(Sorted(texts)) = n
  BY <1>1, <1>8, <1>10
<1>12. QED BY <1>7, <1>11 DEF n

\* A function defined along the numbers up to n exists.
IsAlong(n, S, base, step, f) ==
    f \in [0..n -> S] /\ f[0] = base /\ \A i \in 1..n : f[i] = step[<<i, f[i - 1]>>]

\* A recursion along the naturals up to a bound defines a function.
LEMMA FunctionAlong ==
    ASSUME NEW n \in Nat, NEW S, NEW base \in S, NEW step \in [(1..n) \X S -> S]
    PROVE  \E f : IsAlong(n, S, base, step, f)
<1> DEFINE Along(m) == \E f \in [0..m -> S] :
                           f[0] = base /\ \A i \in 1..m : f[i] = step[<<i, f[i - 1]>>]
           Bad == {m \in 0..n : ~Along(m)}
<1>1. Along(0)
  <2> DEFINE f == [i \in 0..0 |-> base]
  <2>1. f \in [0..0 -> S] /\ f[0] = base /\ \A i \in 1..0 : f[i] = step[<<i, f[i - 1]>>]
    OBVIOUS
  <2>2. QED BY <2>1
<1>2. ASSUME NEW m \in Nat, m < n, Along(m) PROVE Along(m + 1)
  <2>1. PICK f \in [0..m -> S] : f[0] = base /\ \A i \in 1..m : f[i] = step[<<i, f[i - 1]>>]
    BY <1>2
  <2> DEFINE next == step[<<m + 1, f[m]>>]
             g == [i \in 0..m+1 |-> IF i <= m THEN f[i] ELSE next]
  <2>2. next \in S
    <3>1. m + 1 \in 1..n /\ f[m] \in S
      BY <1>2
    <3>2. QED BY <3>1
  <2>3. \A i \in 0..m : g[i] = f[i]
    OBVIOUS
  <2>4. g[m + 1] = next
    OBVIOUS
  <2>5. g \in [0..m+1 -> S]
    BY <2>2
  <2> HIDE DEF g
  <2>6. g[0] = base
    BY <2>1, <2>3
  <2>7. ASSUME NEW i \in 1..m+1 PROVE g[i] = step[<<i, g[i - 1]>>]
    <3>1. CASE i \in 1..m
      <4>1. i \in 0..m /\ i - 1 \in 0..m
        BY <3>1
      <4>2. QED BY <2>1, <2>3, <3>1, <4>1
    <3>2. CASE i = m + 1
      <4>1. i - 1 = m /\ m \in 0..m
        BY <3>2
      <4>2. QED BY <2>3, <2>4, <3>2, <4>1
    <3>3. QED BY <3>1, <3>2
  <2>8. QED BY <2>5, <2>6, <2>7
<1> HIDE DEF Along
<1>3. Bad = {}
  <2> SUFFICES ASSUME Bad # {} PROVE FALSE
    OBVIOUS
  <2>1. Bad \in SUBSET Nat
    OBVIOUS
  <2>2. PICK m \in Bad : \A k \in Bad : m <= k
    BY <2>1, LeastNatural
  <2>3. m \in Nat /\ m <= n /\ ~Along(m)
    OBVIOUS
  <2>4. m # 0
    BY <1>1, <2>3
  <2>5. m - 1 \in Nat /\ m - 1 < n /\ m - 1 \in 0..n /\ m - 1 + 1 = m /\ ~(m <= m - 1)
    BY <2>3, <2>4
  <2>6. Along(m - 1)
    BY <2>2, <2>5
  <2>7. Along(m - 1 + 1)
    BY <1>2, <2>5, <2>6
  <2>8. QED BY <2>3, <2>5, <2>7
<1>4. Along(n)
  BY <1>3
<1>5. QED BY <1>4 DEF Along, IsAlong

\* What the engine lists are names.
LEMMA MatchesTyped ==
    ASSUME NEW command
    PROVE  get_command_matches(command) \in Seq(Seq(DOMAIN Lower))
<1> DEFINE n == Len(Commands)
           S == Seq(Seq(DOMAIN Lower))
           Begins(i) == IsPrefix(LowerText(command), LowerText(Commands[i]))
           step == [p \in (1..n) \X S |-> IF Begins(p[1]) THEN Append(p[2], Commands[p[1]]) ELSE p[2]]
           F(f) == [i \in 0..n |-> IF i = 0 THEN <<>>
                                   ELSE IF Begins(i) THEN Append(f[i - 1], Commands[i]) ELSE f[i - 1]]
<1>1. n \in Nat /\ <<>> \in S /\ \A i \in 1..n : Commands[i] \in Seq(DOMAIN Lower)
  BY CommandsAssumption
<1>2. \A i \in 1..n : \A s \in S : Append(s, Commands[i]) \in S
  BY <1>1
<1>3. get_command_matches(command) = LET f == CHOOSE f : f = F(f) IN f[n]
  BY DEF get_command_matches
<1> HIDE DEF S, Begins, n
<1>4. step \in [(1..n) \X S -> S]
  BY <1>2
<1>5. \A i \in 1..n : \A s \in S : step[<<i, s>>] = IF Begins(i) THEN Append(s, Commands[i]) ELSE s
  OBVIOUS
<1> HIDE DEF step
<1>6. PICK g \in [0..n -> S] : g[0] = <<>> /\ \A i \in 1..n : g[i] = step[<<i, g[i - 1]>>]
  <2>1. n \in Nat /\ <<>> \in S
    BY <1>1
  <2>2. PICK g : IsAlong(n, S, <<>>, step, g)
    BY <1>4, <2>1, FunctionAlong
  <2>3. QED BY <2>2 DEF IsAlong
<1>7. g = F(g)
  <2>1. ASSUME NEW i \in 1..n
        PROVE  g[i] = IF Begins(i) THEN Append(g[i - 1], Commands[i]) ELSE g[i - 1]
    <3>1. g[i - 1] \in S
      <4>1. i - 1 \in 0..n
        BY <1>1
      <4>2. QED BY <4>1
    <3>2. QED BY <1>5, <1>6, <3>1
  <2>2. \A i \in 0..n : g[i] = F(g)[i]
    <3>1. \A i \in 0..n : i = 0 \/ i \in 1..n
      BY <1>1
    <3>2. QED BY <1>6, <2>1, <3>1
  <2>3. QED BY <2>2
<1> DEFINE f == CHOOSE f : f = F(f)
<1>8. f = F(f)
  BY <1>7
<1> HIDE DEF f
<1>9. f[n] \in S
  <2> DEFINE Bad == {i \in 0..n : f[i] \notin S}
  <2>1. f[0] = <<>> /\ \A i \in 1..n : f[i] = IF Begins(i) THEN Append(f[i - 1], Commands[i]) ELSE f[i - 1]
    <3>1. \A i \in 0..n : f[i] = IF i = 0 THEN <<>>
                                 ELSE IF Begins(i) THEN Append(f[i - 1], Commands[i]) ELSE f[i - 1]
      BY <1>8
    <3>2. 0 \in 0..n /\ \A i \in 1..n : i \in 0..n /\ i # 0
      BY <1>1
    <3>3. QED BY <3>1, <3>2
  <2>2. Bad = {}
    <3> SUFFICES ASSUME Bad # {} PROVE FALSE
      OBVIOUS
    <3>1. Bad \in SUBSET Nat
      BY <1>1
    <3>2. PICK m \in Bad : \A k \in Bad : m <= k
      BY <3>1, LeastNatural
    <3>3. m \in Nat /\ m <= n /\ f[m] \notin S
      BY <1>1
    <3>4. m # 0
      BY <1>1, <2>1, <3>3
    <3>5. m \in 1..n /\ m - 1 \in 0..n /\ ~(m <= m - 1)
      BY <1>1, <3>3, <3>4
    <3>6. f[m - 1] \in S
      BY <3>2, <3>5
    <3>7. QED BY <1>2, <2>1, <3>3, <3>5, <3>6
  <2>3. n \in 0..n
    BY <1>1
  <2>4. QED BY <2>2, <2>3
<1>10. QED BY <1>3, <1>9 DEF f, S

-----------------------------------------------------------------------------
(* Tab.                                                                    *)

\* The matches are texts in ascending order.
LEMMA CommandsFacts ==
    ASSUME NEW command
    PROVE  LET commands == find_command_matches(command)
           IN  /\ commands \in Seq(Text)
               /\ \A i, j \in 1..Len(commands) : i < j => ~Before(commands[j], commands[i])
<1> DEFINE matches == get_command_matches(command)
           lowered == [i \in DOMAIN matches |-> LowerText(matches[i])]
<1>1. CASE command = <<>>
  <2>1. find_command_matches(command) = <<>>
    BY <1>1 DEF find_command_matches
  <2>2. <<>> \in Seq(Text) /\ Len(<<>>) = 0
    OBVIOUS
  <2>3. QED BY <2>1, <2>2
<1>2. CASE command # <<>>
  <2>1. matches \in Seq(Seq(DOMAIN Lower))
    BY MatchesTyped
  <2>2. find_command_matches(command) = Sorted(lowered)
    BY <1>2 DEF find_command_matches
  <2> HIDE DEF matches
  <2>3. ASSUME NEW i \in DOMAIN matches PROVE LowerText(matches[i]) \in Text
    <3>1. matches[i] \in Seq(DOMAIN Lower)
      BY <2>1
    <3>2. PICK name : name = matches[i]
      OBVIOUS
    <3>3. name \in Seq(DOMAIN Lower) /\ DOMAIN name = 1..Len(name) /\ Len(name) \in Nat
          /\ \A k \in 1..Len(name) : name[k] \in DOMAIN Lower
      BY <3>1, <3>2
    <3>4. \A k \in 1..Len(name) : Lower[name[k]] \in Character
      BY <3>3 DEF Character
    <3>5. [k \in 1..Len(name) |-> Lower[name[k]]] \in Seq(Character)
      BY <3>3, <3>4
    <3>6. QED BY <3>2, <3>3, <3>5 DEF LowerText, Text
  <2>4. DOMAIN matches = 1..Len(matches) /\ Len(matches) \in Nat
    BY <2>1
  <2>5. lowered \in Seq(Text)
    BY <2>3, <2>4
  <2> HIDE DEF lowered
  <2>6. QED BY <2>2, <2>5, SortedFacts
<1>3. QED BY <1>1, <1>2

\* The first n characters of a text.
LEMMA StartFacts ==
    ASSUME NEW text \in Text, NEW n \in 0..Len(text)
    PROVE  /\ SubSeq(text, 1, n) \in Text /\ Len(SubSeq(text, 1, n)) = n
           /\ IsPrefix(SubSeq(text, 1, n), text)
<1>1. text \in Seq(Character) /\ Len(text) \in Nat /\ n \in Nat /\ n <= Len(text)
  BY DEF Text
<1> DEFINE start == SubSeq(text, 1, n)
<1>2. /\ start \in Seq(Character) /\ Len(start) = n
      /\ \A k \in 1..n : start[k] = text[k]
  BY <1>1
<1> HIDE DEF start
<1>3. start \in Text /\ Len(start) <= Len(text) /\ \A k \in 1..Len(start) : start[k] = text[k]
  BY <1>1, <1>2 DEF Text
<1>4. IsPrefix(start, text)
  BY <1>3, PrefixFacts
<1>5. QED BY <1>2, <1>3, <1>4 DEF start

\* What the code calls the common prefix is the longest text that begins both the
\* first and the last of the commands.
LEMMA CommonPrefixFacts ==
    ASSUME NEW commands \in Seq(Text), commands # <<>>
    PROVE  LET prefix == find_common_command_prefix(commands)
               first == commands[1]
               last == commands[Len(commands)]
           IN  /\ first \in Text /\ last \in Text /\ prefix \in Text
               /\ IsPrefix(prefix, first) /\ IsPrefix(prefix, last)
               /\ \A text \in Prefixes(first) : IsPrefix(text, last) => Len(text) <= Len(prefix)
<1> DEFINE first == commands[1]
           last == commands[Len(commands)]
           common == {n \in 0..Len(first) : IsPrefix(SubSeq(first, 1, n), last)}
<1>1. first \in Text /\ last \in Text /\ Head(commands) = first
  OBVIOUS
<1>2. find_common_command_prefix(commands) = SubSeq(first, 1, Max(common))
  BY <1>1 DEF find_common_command_prefix, Last
<1> HIDE DEF first, last
<1>3. Len(first) \in Nat /\ Len(last) \in Nat
  BY <1>1 DEF Text
<1>4. 0 \in common
  <2>1. 0 \in 0..Len(first)
    BY <1>3
  <2>2. SubSeq(first, 1, 0) \in Text /\ Len(SubSeq(first, 1, 0)) = 0
    BY <1>1, <2>1, StartFacts
  <2>3. IsPrefix(SubSeq(first, 1, 0), last)
    <3>1. PICK none \in Text : none = SubSeq(first, 1, 0) /\ Len(none) = 0
      BY <2>2
    <3>2. Len(none) <= Len(last) /\ \A k \in 1..Len(none) : none[k] = last[k]
      BY <1>3, <3>1
    <3>3. IsPrefix(none, last)
      BY <1>1, <3>2, PrefixFacts
    <3>4. QED BY <3>1, <3>3
  <2>4. QED BY <2>1, <2>3
<1>5. \A n \in common : n \in 0..Len(first) /\ IsPrefix(SubSeq(first, 1, n), last)
  OBVIOUS
<1>6. \A n \in 0..Len(first) : IsPrefix(SubSeq(first, 1, n), last) => n \in common
  OBVIOUS
<1> HIDE DEF common
<1>7. \E m \in common : \A n \in common : m >= n
  <2> DEFINE rest == {Len(first) - n : n \in common}
  <2>1. rest \in SUBSET Nat /\ rest # {}
    BY <1>3, <1>4, <1>5
  <2>2. PICK r \in rest : \A q \in rest : r <= q
    BY <2>1, LeastNatural
  <2>3. PICK m \in common : r = Len(first) - m
    OBVIOUS
  <2>4. ASSUME NEW n \in common PROVE m >= n
    <3>1. Len(first) - n \in rest
      OBVIOUS
    <3>2. Len(first) - m <= Len(first) - n
      BY <2>2, <2>3, <3>1
    <3>3. m \in Nat /\ n \in Nat
      BY <1>3, <1>5
    <3>4. QED BY <1>3, <3>2, <3>3
  <2>5. QED BY <2>4
<1>8. Max(common) \in common /\ \A n \in common : Max(common) >= n
  BY <1>7 DEF Max
<1> DEFINE m == Max(common)
           prefix == SubSeq(first, 1, m)
<1>9. m \in common /\ m \in 0..Len(first) /\ (\A n \in common : m >= n) /\ IsPrefix(prefix, last)
  BY <1>5, <1>8
<1> HIDE DEF m
<1>10. prefix \in Text /\ Len(prefix) = m /\ IsPrefix(prefix, first)
  BY <1>1, <1>9, StartFacts
<1> HIDE DEF prefix
<1>11. ASSUME NEW text \in Prefixes(first), IsPrefix(text, last) PROVE Len(text) <= Len(prefix)
  <2>1. PICK n \in 0..Len(first) : text = SubSeq(first, 1, n)
    BY DEF Prefixes
  <2>2. n \in common
    BY <1>6, <1>11, <2>1
  <2>3. Len(text) = n
    BY <1>1, <2>1, StartFacts
  <2>4. m >= n /\ m \in Nat /\ n \in Nat
    BY <1>3, <1>9, <2>2
  <2>5. QED BY <1>10, <2>3, <2>4
<1>12. find_common_command_prefix(commands) = prefix
  BY <1>2 DEF prefix, m
<1>13. QED BY <1>1, <1>9, <1>10, <1>11, <1>12 DEF first, last

\* Tab leaves the cursor in the line, and the row in step unless it completes inside it.
LEMMA TabKeeps ==
    ASSUME LineOK, handle_tab
    PROVE  LineOK' /\ (~CompletesInside => Keeps)
<1> DEFINE commands == find_command_matches(input_line_)
<1>1. /\ commands # <<>>
      /\ IF Len(commands) = 1 THEN TabCompletes(commands) ELSE TabLists(commands)
  BY DEF handle_tab
<1>2. commands \in Seq(Text)
  BY CommandsFacts
<1>3. CASE Len(commands) = 1
  <2> DEFINE rest == SubSeq(Head(commands), Len(input_line_) + 1, Len(Head(commands)))
             completion == Append(rest, Blank)
  <2>1. LineBecomes(input_line_ \o completion) /\ row' = Write(row, completion)
    BY <1>1, <1>3 DEF TabCompletes
  <2>2. completion \in Text
    <3>1. Head(commands) \in Text
      BY <1>1, <1>2
    <3>2. PICK name \in Text : name = Head(commands)
      BY <3>1
    <3>3. name \in Seq(Character) /\ Len(name) \in Nat /\ Len(input_line_) \in Nat
      BY LineFacts DEF Text
    <3>4. SubSeq(name, Len(input_line_) + 1, Len(name)) \in Seq(Character)
      BY <3>3
    <3>5. rest \in Text
      BY <3>2, <3>4 DEF Text
    <3> HIDE DEF rest
    <3>6. Blank \in Character
      BY DEF Character
    <3>7. QED BY <3>5, <3>6, AppendFacts
  <2> HIDE DEF completion
  <2>3. LineOK' /\ (cursor_position_ = Len(input_line_) => Keeps)
    BY <2>1, <2>2, CompletingKeeps
  <2>4. ~CompletesInside => cursor_position_ = Len(input_line_)
    <3>1. Len(input_line_) \in Nat /\ cursor_position_ \in Nat /\ cursor_position_ <= Len(input_line_)
      BY LineFacts
    <3>2. QED BY <1>3, <3>1 DEF CompletesInside
  <2>5. QED BY <2>3, <2>4
<1>4. CASE Len(commands) # 1
  <2> DEFINE prefix == find_common_command_prefix(commands)
  <2>1. LineBecomes(prefix) /\ row' = Write(BlankRow, prefix)
    BY <1>1, <1>4 DEF TabLists
  <2>2. prefix \in Text
    BY <1>1, <1>2, CommonPrefixFacts
  <2> HIDE DEF prefix
  <2>3. Keeps
    BY <2>1, <2>2, ListingKeeps
  <2>4. QED BY <2>3 DEF Keeps
<1>5. QED BY <1>3, <1>4

-----------------------------------------------------------------------------
(* The history behind the arrow keys.                                      *)

NoEntries == CHOOSE entries : entries \notin Seq(T)

\* The history is one of those its theorems are about.  Its file is of no account
\* to the keys.
LEMMA RingAssumptions ==
    /\ N \in Nat \ {0} /\ <<>> \in T
    /\ Valid \subseteq T /\ <<>> \notin Valid
    /\ {} \subseteq Seq(T) \union {NoEntries}
    /\ NoEntries \notin Seq(T) /\ NoInput \notin T
<1>1. Len(<<>>) = 0 /\ <<>> \notin Valid
  BY DEF Valid
<1>2. NoEntries \notin Seq(T)
  BY NoSetContainsEverything DEF NoEntries
<1>3. QED BY <1>1, <1>2, NAssumption, LinesAssumption, NoInputAssumption DEF Valid

Ring == INSTANCE UserInputHistory_proofs WITH
    ValueInit <- <<>>, mode <- "idle", lines <- <<>>, pristine <- BOOLEAN = {},
    NoFile <- NoEntries, InitialFiles <- {}, file <- {}, saved <- {}, intact <- {},
    ring <- history_, ret <- shown

\* The invariant: the line and the row, the ring, the position in it, and a draft
\* as long as the position is on an entry.
IInv ==
    /\ LineOK
    /\ saved_input_ \in Text \union {NoInput}
    /\ shown \in Text \union {NoInput}
    /\ Ring!Coherent(history_)
    /\ position_ \in 0..History!Size(history_)
    /\ DraftHeldDuringWalk

\* What the keys need to know of the ring.
LEMMA RingFacts ==
    ASSUME NEW r, Ring!Coherent(r)
    PROVE  /\ History!Size(r) \in 0..N
           /\ \A index \in 0..History!Size(r)-1 : History!At(r, index) \in Text
           /\ \A input \in T : Ring!Coherent(History!Remember(r, input))
           /\ r \in History!Ring
<1>1. History!Size(r) \in 0..N
  <2>1. Ring!Size(r) \in 0..N
    BY RingAssumptions, Ring!SizeFacts
  <2>2. QED BY <2>1 DEF Ring!Size, History!Size
<1>2. r \in Ring!Ring
  BY DEF Ring!Coherent
<1>3. \A index \in 0..N-1 : Ring!At(r, index) \in T
  BY <1>2, RingAssumptions, Ring!ReadsTyped
<1>4. ASSUME NEW index \in 0..History!Size(r)-1 PROVE History!At(r, index) \in Text
  <2>1. index \in 0..N-1
    BY <1>1, NAssumption
  <2>2. Ring!At(r, index) \in T
    BY <1>3, <2>1
  <2>3. QED BY <2>2, LinesAssumption DEF Ring!At, History!At
<1>5. ASSUME NEW input \in T PROVE Ring!Coherent(History!Remember(r, input))
  <2>1. Ring!Coherent(Ring!PushBack(r, input))
    BY RingAssumptions, Ring!WritesKeepCoherent
  <2>2. History!PushBack(r, input) = Ring!PushBack(r, input)
    BY DEF Ring!PushBack, History!PushBack, Ring!Inc, History!Inc
  <2>3. History!Remember(r, input) = IF History!Remembers(r, input)
                                     THEN History!PushBack(r, input) ELSE r
    BY DEF History!Remember
  <2>4. QED BY <2>1, <2>2, <2>3
<1>6. r \in History!Ring
  BY <1>2 DEF Ring!Ring, History!Ring
<1>7. QED BY <1>1, <1>4, <1>5, <1>6

\* The console starts with an empty line and no walk.
LEMMA IInvInit == Init => IInv
<1> SUFFICES ASSUME Init PROVE IInv
  OBVIOUS
<1>1. Ring!Coherent(history_) /\ History!Size(history_) = 0
  <2>1. Ring!Coherent(Ring!EmptyRing)
    BY RingAssumptions, Ring!EmptyRingCoherent
  <2>2. History!EmptyRing = Ring!EmptyRing
    BY DEF Ring!EmptyRing, History!EmptyRing
  <2>3. History!Size(History!EmptyRing) = 0
    BY DEF History!Size, History!EmptyRing
  <2>4. QED BY <2>1, <2>2, <2>3 DEF Init
<1>2. LineOK
  <2>1. input_line_ = <<>> /\ cursor_position_ = 0 /\ row = BlankRow /\ 0 \in 0..Len(<<>>)
    BY DEF Init
  <2>2. QED BY <2>1, BlankShows DEF LineOK
<1>3. QED BY <1>1, <1>2 DEF IInv, Init, DraftHeldDuringWalk

\* A key that leaves the history and the draft alone.
LEMMA UntouchedKeeps ==
    ASSUME IInv, LineOK', Untouched
    PROVE  IInv'
<1>1. /\ UNCHANGED <<saved_input_, history_, position_>> /\ shown' = NoInput
  BY DEF Untouched, history
<1>2. QED BY <1>1 DEF IInv, DraftHeldDuringWalk, Ring!Coherent, Ring!Ring, History!Size

\* Up sets a draft aside before it leaves the line.
LEMMA UpKeeps == IInv /\ handle_up_arrow => IInv' /\ Keeps
<1> SUFFICES ASSUME IInv, handle_up_arrow PROVE IInv' /\ Keeps
  OBVIOUS
<1> DEFINE size == History!Size(history_)
<1>1. /\ LineOK /\ saved_input_ \in Text \union {NoInput} /\ Ring!Coherent(history_)
      /\ position_ \in 0..size /\ input_line_ \in Text
  BY DEF IInv, LineOK
<1>2. /\ size \in Nat /\ \A index \in 0..size-1 : History!At(history_, index) \in Text
  BY <1>1, RingFacts
<1>3. /\ position_' = IF position_ > 0 THEN position_ - 1 ELSE position_
      /\ shown' = IF position_ > 0 THEN History!At(history_, position_') ELSE NoInput
      /\ history_' = history_
  BY DEF handle_up_arrow, History!previous
<1>4. Ring!Coherent(history_)' /\ History!Size(history_)' = size
  BY <1>1, <1>3 DEF Ring!Coherent, Ring!Ring, History!Size
<1> HIDE DEF size
<1>5. CASE position_ = 0
  <2>1. shown' = NoInput /\ position_' = position_
    BY <1>3, <1>5
  <2>2. UNCHANGED <<line, saved_input_, row>>
    BY <2>1 DEF handle_up_arrow
  <2>3. UNCHANGED <<input_line_, cursor_position_, saved_input_, row>>
    BY <2>2 DEF line
  <2>4. LineOK' /\ Keeps
    BY <1>1, <2>3 DEF LineOK, Keeps
  <2>5. DraftHeldDuringWalk'
    BY <1>4, <2>1, <2>3 DEF IInv, DraftHeldDuringWalk, size
  <2>6. QED BY <1>1, <1>4, <2>1, <2>3, <2>4, <2>5 DEF IInv
<1>6. CASE position_ # 0
  <2>1. position_' = position_ - 1 /\ position_' \in 0..size-1 /\ position_' \in 0..size
    BY <1>1, <1>2, <1>3, <1>6
  <2>2. shown' = History!At(history_, position_')
    BY <1>1, <1>2, <1>3, <1>6
  <2>3. PICK text \in Text : text = shown'
    BY <1>2, <2>1, <2>2
  <2>4. shown' # NoInput
    BY <2>3, NoInputAssumption
  <2>5. /\ saved_input_' = IF saved_input_ = NoInput THEN input_line_ ELSE saved_input_
        /\ row' = Write(ClearedRow, text) /\ LineBecomes(text)
    BY <2>3, <2>4 DEF handle_up_arrow
  <2>6. Keeps
    BY <1>1, <2>5, ReplacingKeeps
  <2>7. saved_input_' \in Text /\ saved_input_' # NoInput
    BY <1>1, <2>5, NoInputAssumption
  <2>8. DraftHeldDuringWalk'
    BY <2>7 DEF DraftHeldDuringWalk
  <2>9. LineOK'
    BY <2>6 DEF Keeps
  <2>10. QED BY <1>4, <2>1, <2>3, <2>6, <2>7, <2>8, <2>9 DEF IInv
<1>7. QED BY <1>5, <1>6

\* Down takes the draft back only when it leaves the history.
LEMMA DownKeeps == IInv /\ handle_down_arrow => IInv' /\ Keeps
<1> SUFFICES ASSUME IInv, handle_down_arrow PROVE IInv' /\ Keeps
  OBVIOUS
<1> DEFINE size == History!Size(history_)
<1>1. /\ LineOK /\ saved_input_ \in Text \union {NoInput} /\ Ring!Coherent(history_)
      /\ position_ \in 0..size /\ (position_ < size => saved_input_ # NoInput)
  BY DEF IInv, DraftHeldDuringWalk
<1>2. /\ size \in Nat /\ \A index \in 0..size-1 : History!At(history_, index) \in Text
  BY <1>1, RingFacts
<1>3. /\ position_' = IF position_ < size THEN position_ + 1 ELSE position_
      /\ shown' = IF position_' < size THEN History!At(history_, position_') ELSE NoInput
      /\ history_' = history_
  BY DEF handle_down_arrow, History!next
<1>4. Ring!Coherent(history_)' /\ History!Size(history_)' = size
  BY <1>1, <1>3 DEF Ring!Coherent, Ring!Ring, History!Size
<1> HIDE DEF size
<1>5. position_' \in 0..size
  BY <1>1, <1>2, <1>3
<1>6. CASE position_' < size
  <2>1. position_' \in 0..size-1 /\ position_ < size
    BY <1>1, <1>2, <1>3, <1>5, <1>6
  <2>2. PICK text \in Text : text = shown'
    BY <1>2, <1>3, <1>6, <2>1
  <2>3. shown' # NoInput
    BY <2>2, NoInputAssumption
  <2>4. /\ saved_input_' = saved_input_
        /\ row' = Write(ClearedRow, text) /\ LineBecomes(text)
    BY <2>2, <2>3 DEF handle_down_arrow
  <2>5. Keeps
    BY <1>1, <2>4, ReplacingKeeps
  <2>6. DraftHeldDuringWalk'
    BY <1>1, <2>1, <2>4 DEF DraftHeldDuringWalk
  <2>7. LineOK'
    BY <2>5 DEF Keeps
  <2>8. QED BY <1>1, <1>4, <1>5, <2>2, <2>4, <2>5, <2>6, <2>7 DEF IInv
<1>7. CASE ~(position_' < size)
  <2>1. shown' = NoInput
    BY <1>3, <1>7
  <2>2. DraftHeldDuringWalk'
    BY <1>4, <1>7 DEF DraftHeldDuringWalk
  <2>3. CASE saved_input_ = NoInput
    <3>1. UNCHANGED <<line, saved_input_, row>>
      BY <2>1, <2>3 DEF handle_down_arrow
    <3>2. UNCHANGED <<input_line_, cursor_position_, saved_input_, row>>
      BY <3>1 DEF line
    <3>3. LineOK' /\ Keeps
      BY <1>1, <3>2 DEF LineOK, Keeps
    <3>4. QED BY <1>1, <1>4, <1>5, <2>1, <2>2, <3>2, <3>3 DEF IInv
  <2>4. CASE saved_input_ # NoInput
    <3>1. saved_input_ \in Text
      BY <1>1, <2>4
    <3>2. /\ saved_input_' = NoInput
          /\ row' = Write(ClearedRow, saved_input_) /\ LineBecomes(saved_input_)
      BY <2>1, <2>4 DEF handle_down_arrow
    <3>3. Keeps
      BY <1>1, <3>1, <3>2, ReplacingKeeps
    <3>4. LineOK'
      BY <3>3 DEF Keeps
    <3>5. QED BY <1>4, <1>5, <2>1, <2>2, <3>2, <3>3, <3>4 DEF IInv
  <2>5. QED BY <2>3, <2>4
<1>8. QED BY <1>6, <1>7

\* Enter ends the walk, also when the history evicts an entry.
LEMMA EnterKeeps == IInv /\ handle_newline => IInv' /\ Keeps
<1> SUFFICES ASSUME IInv, handle_newline PROVE IInv' /\ Keeps
  OBVIOUS
<1>1. LineOK /\ Ring!Coherent(history_) /\ saved_input_ \in Text \union {NoInput}
  BY DEF IInv
<1>2. Keeps /\ LineOK'
  BY <1>1, NewlineKeeps DEF Keeps
<1>3. /\ input_line_ \in T /\ saved_input_' = saved_input_ /\ shown' = NoInput
      /\ history_' = History!Remember(history_, input_line_)
      /\ position_' = History!Size(history_')
  BY LinesAssumption DEF handle_newline, History!append
<1>4. PICK after : after = history_'
  OBVIOUS
<1>5. Ring!Coherent(after) /\ History!Size(after) \in Nat
  <2>1. Ring!Coherent(after)
    BY <1>1, <1>3, <1>4, RingFacts
  <2>2. QED BY <2>1, RingFacts
<1>6. Ring!Coherent(history_)' /\ History!Size(history_)' = History!Size(after)
  BY <1>4, <1>5 DEF Ring!Coherent, Ring!Ring, History!Size
<1>7. position_' = History!Size(after)
  BY <1>3, <1>4
<1>8. DraftHeldDuringWalk'
  BY <1>5, <1>6, <1>7 DEF DraftHeldDuringWalk
<1>9. position_' \in 0..History!Size(history_)'
  BY <1>5, <1>6, <1>7
<1>10. QED BY <1>1, <1>2, <1>3, <1>6, <1>8, <1>9 DEF IInv

\* Every key keeps the invariant, and the row with the line, but for a completion
\* inside the line, which keeps only the invariant.
LEMMA KeyKeeps ==
    ASSUME IInv, Next
    PROVE  IInv' /\ (~CompletesInside => Keeps)
<1>1. LineOK
  BY DEF IInv
<1>2. CASE handle_up_arrow
  BY <1>2, UpKeeps
<1>3. CASE handle_down_arrow
  BY <1>3, DownKeeps
<1>4. CASE handle_left_arrow
  BY <1>1, <1>4, LeftKeeps, UntouchedKeeps DEF handle_left_arrow, Keeps
<1>5. CASE handle_right_arrow
  BY <1>1, <1>5, RightKeeps, UntouchedKeeps DEF handle_right_arrow, Keeps
<1>6. CASE handle_home
  BY <1>1, <1>6, HomeKeeps, UntouchedKeeps DEF handle_home, Keeps
<1>7. CASE handle_end
  BY <1>1, <1>7, EndKeeps, UntouchedKeeps DEF handle_end, Keeps
<1>8. CASE handle_backspace
  BY <1>1, <1>8, BackspaceKeeps, UntouchedKeeps DEF handle_backspace, Keeps
<1>9. CASE handle_delete
  BY <1>1, <1>9, DeleteKeeps, UntouchedKeeps DEF handle_delete, Keeps
<1>10. CASE handle_tab
  <2>1. Untouched
    BY <1>10 DEF handle_tab
  <2>2. LineOK' /\ (~CompletesInside => Keeps)
    BY <1>1, <1>10, TabKeeps
  <2>3. QED BY <2>1, <2>2, UntouchedKeeps
<1>11. CASE handle_newline
  BY <1>11, EnterKeeps
<1>12. ASSUME NEW ch \in Typed, handle_char(ch) PROVE IInv' /\ Keeps
  <2>1. Untouched
    BY <1>12 DEF handle_char
  <2>2. Keeps
    BY <1>1, <1>12, CharKeeps
  <2>3. QED BY <2>1, <2>2, UntouchedKeeps DEF Keeps
<1>13. QED BY <1>2, <1>3, <1>4, <1>5, <1>6, <1>7, <1>8, <1>9, <1>10, <1>11, <1>12 DEF Next

\* Every reachable state of the editor satisfies the invariant.
LEMMA SpecIInv == Spec => []IInv
<1>1. IInv /\ [Next]_vars => IInv'
  <2> SUFFICES ASSUME IInv, [Next]_vars PROVE IInv'
    OBVIOUS
  <2>1. CASE Next
    BY <2>1, KeyKeeps
  <2>2. CASE UNCHANGED vars
    BY <2>2 DEF vars, IInv, LineOK, DraftHeldDuringWalk, Ring!Coherent, Ring!Ring, History!Size
  <2>3. QED BY <2>1, <2>2
<1>2. QED BY IInvInit, <1>1, PTL DEF Spec

\* Whatever keys are pressed, the cursor is inside the line or at its end, where
\* every handler indexes and cuts the string.
THEOREM CursorStaysInLine == Spec => []TypeOK
<1>1. IInv => TypeOK
  <2> SUFFICES ASSUME IInv PROVE TypeOK
    OBVIOUS
  <2>1. LineOK /\ history_ \in History!Ring /\ History!Size(history_) \in 0..N
    BY RingFacts DEF IInv
  <2>2. position_ \in Nat
    BY <2>1, NAssumption DEF IInv
  <2>3. QED BY <2>1, <2>2 DEF IInv, TypeOK, LineOK, Row
<1>2. QED BY SpecIInv, <1>1, PTL

\* As long as a walk over the history is on, a draft is set aside, whatever other
\* keys are pressed on the way.
THEOREM WalksHaveADraft == Spec => []DraftHeldDuringWalk
<1>1. IInv => DraftHeldDuringWalk
  BY DEF IInv
<1>2. QED BY SpecIInv, <1>1, PTL

\* For every text that can be typed, recalled or completed: what each key prints
\* leaves the row showing the line with the column at the cursor, but for a
\* completion inside the line.
THEOREM KeysPrintWhatTheyChange == Spec => KeysKeepRowInSync
<1>1. IInv /\ [Next]_vars => (InSync /\ ~CompletesInside => InSync') \/ UNCHANGED vars
  <2> SUFFICES ASSUME IInv, Next, InSync, ~CompletesInside PROVE InSync'
    OBVIOUS
  <2>1. LineOK /\ LineOK' /\ Keeps
    BY KeyKeeps DEF IInv, Keeps
  <2>2. Shows(row, input_line_, cursor_position_)
    BY <2>1, InSyncShows
  <2>3. Shows(row', input_line_', cursor_position_')
    BY <2>1, <2>2 DEF Keeps
  <2>4. row' \in Row /\ input_line_' \in Text
    BY <2>1 DEF LineOK
  <2>5. Reads(row', input_line_')
    BY <2>3, <2>4, ReadsEverywhere DEF Shows
  <2>6. QED BY <2>3, <2>5 DEF InSync, Shows
<1>2. QED BY SpecIInv, <1>1, PTL DEF Spec, KeysKeepRowInSync

\* Whatever commands the engine knows: when several match, the line becomes the
\* longest prefix that all of them share, though the code compares only the first
\* and the last one; the order they are sorted into is what makes that right.
THEOREM TabsFindTheCommonPrefix == Spec => TabFindsCommonPrefix
<1> DEFINE commands == find_command_matches(input_line_)
           shared(text) == \A i \in DOMAIN commands : IsPrefix(text, commands[i])
           Finds == handle_tab /\ Len(commands) > 1 =>
                        /\ shared(input_line_')
                        /\ \A text \in Prefixes(Head(commands)) :
                            Len(text) > Len(input_line_') => ~shared(text)
<1>1. Finds
  <2> SUFFICES ASSUME handle_tab, Len(commands) > 1
               PROVE  /\ shared(input_line_')
                      /\ \A text \in Prefixes(Head(commands)) :
                            Len(text) > Len(input_line_') => ~shared(text)
    OBVIOUS
  <2> DEFINE prefix == find_common_command_prefix(commands)
             n == Len(commands)
             first == commands[1]
             last == commands[n]
  <2>1. /\ commands \in Seq(Text) /\ n \in Nat /\ n > 1 /\ commands # <<>>
        /\ \A i, j \in 1..n : i < j => ~Before(commands[j], commands[i])
    BY CommandsFacts DEF handle_tab
  <2>2. input_line_' = prefix
    <3>1. TabLists(commands)
      BY <2>1 DEF handle_tab
    <3>2. QED BY <3>1 DEF TabLists, LineBecomes
  <2>3. DOMAIN commands = 1..n /\ Head(commands) = first
        /\ \A i \in 1..n : commands[i] \in Text
    BY <2>1
  <2> HIDE DEF commands
  <2>4. /\ first \in Text /\ last \in Text /\ prefix \in Text
        /\ IsPrefix(prefix, first) /\ IsPrefix(prefix, last)
        /\ \A text \in Prefixes(first) : IsPrefix(text, last) => Len(text) <= Len(prefix)
    BY <2>1, CommonPrefixFacts
  <2> HIDE DEF prefix, first, last
  <2>5. ASSUME NEW i \in 1..n PROVE IsPrefix(prefix, commands[i])
    <3>1. CASE i = 1
      BY <2>4, <3>1 DEF first
    <3>2. CASE i = n
      BY <2>4, <3>2 DEF last
    <3>3. CASE i # 1 /\ i # n
      <4>1. 1 \in 1..n /\ n \in 1..n /\ 1 < i /\ i < n
        BY <2>1, <3>3
      <4>2. ~Before(commands[i], first) /\ ~Before(last, commands[i])
        BY <2>1, <4>1 DEF first, last
      <4>3. commands[i] \in Text
        BY <2>3
      <4>4. QED BY <2>4, <4>2, <4>3, BetweenSharesPrefix
    <3>4. QED BY <3>1, <3>2, <3>3
  <2>6. ASSUME NEW text \in Prefixes(first), Len(text) > Len(prefix), shared(text) PROVE FALSE
    <3>1. n \in DOMAIN commands
      BY <2>1, <2>3
    <3>2. IsPrefix(text, last)
      BY <2>6, <3>1 DEF last
    <3>3. Len(text) <= Len(prefix) /\ Len(prefix) \in Nat
      BY <2>4, <3>2 DEF Text
    <3>4. Len(text) \in Nat
      <4>1. PICK k \in 0..Len(first) : text = SubSeq(first, 1, k)
        BY DEF Prefixes
      <4>2. Len(text) = k /\ Len(first) \in Nat
        BY <2>4, <4>1, StartFacts DEF Text
      <4>3. QED BY <4>2
    <3>5. QED BY <2>6, <3>3, <3>4
  <2>7. QED BY <2>2, <2>3, <2>5, <2>6
<1>2. QED BY <1>1, PTL DEF Spec, TabFindsCommonPrefix
=============================================================================
