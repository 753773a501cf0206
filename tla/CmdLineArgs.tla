----------------------------- MODULE CmdLineArgs -----------------------------
(***************************************************************************)
(* Core::CmdLineArgs: the command line as one text, in which arguments are *)
(* found by searching for their names.  A text is a sequence of            *)
(* characters, a word one without blanks, and a name one without a sign;   *)
(* positions are counted from 1, and 0 is std::string::npos.  The letters  *)
(* of the names are abridged: what matters is which name occurs in which   *)
(* word.                                                                   *)
(***************************************************************************)
EXTENDS Naturals, SequencesExt

CONSTANTS
    Char,       \* the characters
    NoOption,   \* std::nullopt
    FileWords,  \* the words of each readable file, by its name
    Nesting     \* how deep files name files; the code has no such limit

Text == Seq(Char)

ASSUME CharAssumption == {" ", "-", "+", "@"} \subseteq Char
ASSUME NoOptionAssumption == NoOption \notin Text
ASSUME FileWordsAssumption == \A name \in DOMAIN FileWords : FileWords[name] \in Seq(Text)
ASSUME NestingAssumption == Nesting \in Nat

Blank == " "
Minus == <<"-">>
Plus == <<"+">>
At == <<"@">>

is_prefix_char(ch) == ch \in {"-", "+", "@"}

is_valid_argument(arg) == Len(arg) > 1 /\ is_prefix_char(arg[1])

remove_argument_prefix(arg) == IF is_prefix_char(arg[1]) THEN Tail(arg) ELSE arg

trim(text) ==
    LET kept == {i \in DOMAIN text : text[i] # Blank}
    IN IF kept = {} THEN <<>> ELSE SubSeq(text, Min(kept), Max(kept))

-----------------------------------------------------------------------------
(* Searching                                                               *)

OccursAt(text, pos, word) ==
    pos + Len(word) <= Len(text) + 1 /\ SubSeq(text, pos, pos + Len(word) - 1) = word

rfind(text, word) == Max({pos \in 1..Len(text) : OccursAt(text, pos, word)} \union {0})

\* Mutant of find_argument_pos: the first occurrence.
FindFirst(text, arg) ==
    LET name == remove_argument_prefix(arg)
        found == {pos \in 1..Len(text) : \E sign \in {Plus, Minus} : OccursAt(text, pos, sign \o name)}
    IN IF found = {} THEN 0 ELSE Min(found)

find_argument_pos(text, arg) ==
    LET name == remove_argument_prefix(arg)
    IN Max({rfind(text, Plus \o name), rfind(text, Minus \o name)})

contains(text, arg) == find_argument_pos(text, arg) # 0

\* The first word that begins at pos + |arg| + 1 or later, unless it is signed.
\* Callers that leave the sign on arg begin one character later.
OptionAt(text, arg, pos) ==
    LET after == {i \in pos+Len(arg)+1..Len(text) : text[i] # Blank}
        begin == Min(after)
        end == Min({i \in begin..Len(text) : text[i] = Blank} \union {Len(text) + 1})
    IN IF pos = 0 \/ after = {} THEN NoOption
       ELSE IF text[begin] \in {"+", "-"} THEN NoOption
       ELSE SubSeq(text, begin, end - 1)

get_argument_option(text, arg) == OptionAt(text, arg, find_argument_pos(text, arg))

-----------------------------------------------------------------------------
(* Changing                                                                *)

Erase(text, pos, count) == SubSeq(text, 1, pos - 1) \o SubSeq(text, pos + count, Len(text))

\* One turn of the loop in remove(): the last occurrence, with the blank before
\* or after it and the option that follows.
RemoveLast(text, name) ==
    LET pos == find_argument_pos(text, name)
        option == OptionAt(text, name, pos)
        count == 1 + Len(name) + 1 + (IF option = NoOption THEN 0 ELSE Len(option) + 1)
    IN IF pos = 0 THEN text ELSE Erase(text, Max({pos - 1, 1}), count)

\* Mutant of remove: only one argument of that name.
RemoveOne(text, arg) == RemoveLast(text, remove_argument_prefix(arg))

\* The loop ends: each turn erases a character at least.
remove(text, arg) ==
    LET name == remove_argument_prefix(arg)
        after[turn \in 0..Len(text)] ==
            IF turn = 0 THEN text ELSE RemoveLast(after[turn - 1], name)
    IN after[Len(text)]

WithOption(arg, option) == IF option = <<>> THEN arg ELSE arg \o <<Blank>> \o option

push_front(text, arg, option) ==
    LET argument == trim(arg)
        rest == remove(text, argument)
    IN IF is_valid_argument(argument)
       THEN trim(WithOption(argument, trim(option)) \o <<Blank>> \o rest)
       ELSE text

push_back(text, arg, option) ==
    LET argument == trim(arg)
        rest == remove(text, argument)
    IN IF is_valid_argument(argument)
       THEN trim(rest \o <<Blank>> \o WithOption(argument, trim(option)))
       ELSE text

-----------------------------------------------------------------------------
(* Building                                                                *)

\* Each word with a blank after it; a word @file stands for the words of the
\* file, and for none, without a blank, if the file cannot be read, or is named
\* deeper than Nesting.  An empty file leaves its blank.
build_arguments_string(argv) ==
    LET built[depth \in 0..Nesting] ==
          [words \in Seq(Text) |->
            LET Piece(word) ==
                  IF word = <<>> \/ (Len(word) = 1 /\ is_prefix_char(word[1])) THEN <<>>
                  ELSE IF word[1] # "@" THEN word \o <<Blank>>
                  ELSE IF depth = 0 \/ Tail(word) \notin DOMAIN FileWords THEN <<>>
                  ELSE built[depth - 1][FileWords[Tail(word)]] \o <<Blank>>
            IN trim(FlattenSeq([i \in DOMAIN words |-> Piece(words[i])]))]
    IN built[Nesting][argv]

from_command_line(argv) == build_arguments_string(argv)
=============================================================================
