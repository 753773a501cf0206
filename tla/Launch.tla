-------------------------------- MODULE Launch --------------------------------
(***************************************************************************)
(* The command line on its way through main(): read from argv, looked at   *)
(* by the logger, changed by the handlers of CmdLineProcessor one after    *)
(* the other, handed to the engine, and read once more for the server      *)
(* loop.                                                                   *)
(***************************************************************************)
EXTENDS CmdLineArgs, Integers

CONSTANTS
    CommandLine,  \* the command lines, each a sequence of words
    Number        \* the number each word that begins with one begins with

ASSUME CommandLineAssumption == CommandLine \subseteq Seq(Text)
ASSUME LetterAssumption ==
    {"s", "t", "c", "o", "f", "p", "b", "y", "d", "l", "i", "g", "n", "m", "q", "0", "/"} \subseteq Char
ASSUME NumberAssumption == DOMAIN Number \subseteq Text /\ \A word \in DOMAIN Number : Number[word] \in Int

VARIABLES
    windows,       \* the platform
    argv,          \* the words main() was started with
    pc,            \* what main() does next
    arguments_,    \* the command line, a text
    logfile,       \* the log's file, empty when it has none
    cleared,       \* whether the log's file was to be truncated, and was
    pidfile,       \* the file the process identifier was written to
    ignored,       \* SIGINT is ignored
    dumps,         \* the crash dumper is on
    engine,        \* the text the engine was given
    pingboost,     \* the loop's pingboost level
    target_fps     \* the loop's target

settings == <<logfile, cleared, pidfile, ignored, dumps>>
loop == <<pingboost, target_fps>>
vars == <<windows, argv, pc, arguments_, settings, engine, loop>>

steam == <<"s", "t">>
console == <<"c", "o">>
targetfps == <<"f", "p">>
pingboostArg == <<"p", "b">>
sys_ticrate == <<"s", "y">>
condebug == <<"d", "b">>
conclearlog == <<"c", "l">>
pidfileArg == <<"p", "i">>
ignoresigint == <<"i", "g">>
nominidumps == <<"n", "m">>
game == <<"g", "m">>
qconsole == <<"q">> \* qconsole.log
Zero == <<"0">>
Slash == <<"/">>

level5 == 5
TargetFps == 6 \* PingBoostLevel::target_fps

Steps == {"logger", "steam", "console", "targetfps", "condebug", "conclearlog", "pidfile",
          "ignoresigint", "nominidumps", "engine", "loop", "run"}

\* The types; the logger's file, the loop's level and its target go together.
TypeOK ==
    /\ pc \in Steps
    /\ arguments_ \in Text /\ engine \in Text
    /\ logfile \in Text /\ pidfile \in Text
    /\ windows \in BOOLEAN /\ ignored \in BOOLEAN /\ dumps \in BOOLEAN
    /\ cleared \in {"no", "failed", "done"}
    /\ pingboost \in 0..TargetFps /\ target_fps \in Nat
    /\ pingboost = TargetFps <=> target_fps > 0

Init ==
    /\ windows \in BOOLEAN
    /\ argv \in CommandLine
    /\ arguments_ = from_command_line(argv)
    /\ pc = "logger"
    /\ logfile = <<>> /\ cleared = "no" /\ pidfile = <<>>
    /\ ignored = FALSE /\ dumps = FALSE
    /\ engine = <<>> /\ pingboost = 0 /\ target_fps = 0

Goes(from, to) == pc = from /\ pc' = to /\ UNCHANGED <<windows, argv>>

\* A handler that only changes the command line.
Rewrites(from, to, text) ==
    /\ Goes(from, to)
    /\ arguments_' = text
    /\ UNCHANGED <<settings, engine, loop>>

\* A handler that only reads the command line, and changes one setting.
Reads(from, to) == Goes(from, to) /\ UNCHANGED <<arguments_, engine, loop>>

-----------------------------------------------------------------------------

\* On Linux the log is in the directory of the game.
init_logger ==
    LET gameName == get_argument_option(arguments_, Minus \o game)
        path == IF windows \/ gameName = NoOption THEN qconsole ELSE gameName \o Slash \o qconsole
    IN /\ Reads("logger", "steam")
       /\ logfile' = IF contains(arguments_, Minus \o condebug) THEN path ELSE <<>>
       /\ UNCHANGED <<cleared, pidfile, ignored, dumps>>

SteamHandler ==
    Rewrites("steam", "console", push_front(arguments_, Minus \o steam, <<>>))

ConsoleHandler ==
    Rewrites("console", "targetfps",
             IF windows THEN push_front(arguments_, Minus \o console, <<>>) ELSE arguments_)

\* Mutant of TargetFpsHandler: the operator's sys_ticrate is not replaced.
TargetFpsAppends ==
    Rewrites("targetfps", "condebug",
             IF contains(arguments_, targetfps)
             THEN remove(arguments_, pingboostArg) \o <<Blank>> \o Plus \o sys_ticrate \o <<Blank>> \o Zero
             ELSE arguments_)

TargetFpsHandler ==
    Rewrites("targetfps", "condebug",
             IF contains(arguments_, targetfps)
             THEN push_back(remove(arguments_, pingboostArg), Plus \o sys_ticrate, Zero)
             ELSE arguments_)

ConDebugHandler ==
    Rewrites("condebug", "conclearlog", remove(arguments_, condebug))

\* Mutant of ConClearLogHandler: a log with a file is cleared at every start.
ClearsUnasked ==
    /\ Reads("conclearlog", "pidfile")
    /\ IF logfile # <<>> THEN cleared' \in {"failed", "done"} ELSE UNCHANGED cleared
    /\ UNCHANGED <<logfile, pidfile, ignored, dumps>>

\* Without a log file the argument is not looked for; a write that fails is
\* logged and changes nothing.
ConClearLogHandler ==
    /\ Reads("conclearlog", "pidfile")
    /\ IF logfile # <<>> /\ contains(arguments_, conclearlog)
       THEN cleared' \in {"failed", "done"}
       ELSE UNCHANGED cleared
    /\ UNCHANGED <<logfile, pidfile, ignored, dumps>>

PidFileHandler ==
    LET name == get_argument_option(arguments_, pidfileArg) IN
    /\ Reads("pidfile", "ignoresigint")
    /\ IF name \in {NoOption, <<>>}
       THEN UNCHANGED pidfile
       ELSE pidfile' \in {pidfile, name}
    /\ UNCHANGED <<logfile, cleared, ignored, dumps>>

IgnoreSigIntHandler ==
    /\ Reads("ignoresigint", "nominidumps")
    /\ IF contains(arguments_, ignoresigint) THEN ignored' \in BOOLEAN ELSE UNCHANGED ignored
    /\ UNCHANGED <<logfile, cleared, pidfile, dumps>>

NoMiniDumpsHandler ==
    /\ Reads("nominidumps", "engine")
    /\ dumps' = (windows /\ ~contains(arguments_, nominidumps))
    /\ UNCHANGED <<logfile, cleared, pidfile, ignored>>

init_engine ==
    /\ Goes("engine", "loop")
    /\ engine' = arguments_
    /\ UNCHANGED <<arguments_, settings, loop>>

\* get_argument_option_as<int>(arg).value_or(0)
IntOption(text, arg) ==
    LET option == get_argument_option(text, arg)
    IN IF option \in DOMAIN Number THEN Number[option] ELSE 0

init_server_loop ==
    LET fps == IntOption(arguments_, Minus \o targetfps)
        level == IntOption(arguments_, Minus \o pingboostArg)
    IN /\ Goes("loop", "run")
       /\ target_fps' = IF fps > 0 THEN fps ELSE target_fps
       /\ pingboost' = IF fps > 0 THEN TargetFps ELSE Min({Max({level, 0}), level5})
       /\ UNCHANGED <<arguments_, settings, engine>>

Next ==
    \/ init_logger
    \/ SteamHandler \/ ConsoleHandler \/ TargetFpsHandler \/ ConDebugHandler
    \/ ConClearLogHandler \/ PidFileHandler \/ IgnoreSigIntHandler \/ NoMiniDumpsHandler
    \/ init_engine \/ init_server_loop

Spec == Init /\ [][Next]_vars

-----------------------------------------------------------------------------
(* The same command line as a sequence of words.                           *)

\* The words with one more character, which goes on with the last of them or
\* begins another.
Extended(words, goesOn, ch) ==
    IF ch = Blank THEN words
    ELSE IF goesOn THEN [words EXCEPT ![Len(words)] = Append(@, ch)]
    ELSE Append(words, <<ch>>)

Words(text) ==
    LET words[k \in 0..Len(text)] ==
          IF k = 0 THEN <<>>
          ELSE Extended(words[k - 1], k > 1 /\ text[k - 1] # Blank, text[k])
    IN words[Len(text)]

IsArg(word, name) == word \in {Plus \o name, Minus \o name}
Signed(word) == word[1] \in {"+", "-"}
BeginsWithOption(words) == words # <<>> /\ ~Signed(Head(words))

\* The words without the arguments of that name, each of which takes the option
\* after it along; the last argument goes first.
Without(words, name) ==
    LET left[k \in 0..Len(words)] == \* of the last k words
          LET word == words[Len(words) - k + 1] IN
          IF k = 0 THEN <<>>
          ELSE IF ~IsArg(word, name) THEN <<word>> \o left[k - 1]
          ELSE IF BeginsWithOption(left[k - 1]) THEN Tail(left[k - 1])
          ELSE left[k - 1]
    IN left[Len(words)]

Has(words, name) == \E i \in DOMAIN words : IsArg(words[i], name)

\* The option of the last argument of that name, or NoOption.
OptionOf(words, name) ==
    LET args == {i \in DOMAIN words : IsArg(words[i], name)}
        after == SubSeq(words, Max(args) + 1, Len(words))
    IN IF args # {} /\ BeginsWithOption(after) THEN Head(after) ELSE NoOption

NumberOf(words, name) ==
    LET option == OptionOf(words, name)
    IN IF option \in DOMAIN Number THEN Number[option] ELSE 0

Names == {steam, console, targetfps, pingboostArg, sys_ticrate, condebug, conclearlog,
          pidfileArg, ignoresigint, nominidumps, game}

\* The launcher can tell its arguments apart in a text: wherever a name occurs
\* after a sign it is a whole word, and words are one blank apart.
TellsApart(text) ==
    /\ \A name \in Names, pos \in DOMAIN text :
        (\E sign \in {Plus, Minus} : OccursAt(text, pos, sign \o name)) =>
            /\ pos = 1 \/ text[pos - 1] = Blank
            /\ pos + 1 + Len(name) \in DOMAIN text => text[pos + 1 + Len(name)] = Blank
    /\ \A pos \in 2..Len(text) : ~(text[pos] = Blank /\ text[pos - 1] = Blank)

\* No launcher argument has two words after it that could be its option: the
\* second would become one of another argument when the first is removed.
OneOptionEach(words) ==
    \A i \in 1..Len(words) - 2 :
        (\E name \in Names : IsArg(words[i], name)) => Signed(words[i + 1]) \/ Signed(words[i + 2])

\* The words the handlers make of those the operator gave: the launcher's own are
\* added and those meant for itself are taken.
Steamed(given) == <<Minus \o steam>> \o Without(given, steam)

Consoled(given) ==
    IF windows THEN <<Minus \o console>> \o Without(Steamed(given), console) ELSE Steamed(given)

Paced(given) ==
    IF Has(given, targetfps)
    THEN Without(Without(Consoled(given), pingboostArg), sys_ticrate) \o <<Plus \o sys_ticrate, Zero>>
    ELSE Consoled(given)

ForEngine(given) == Without(Paced(given), condebug)

\* The words the operator gave, those of the files included.
Given == Words(from_command_line(argv))

\* The process is launched, from a command line in which the launcher can tell
\* its arguments apart.
Launched == pc = "run" /\ TellsApart(from_command_line(argv))

\* Of everything the operator gave, the engine gets the words that are not the
\* launcher's own, whole and in their order, and the launcher's additions where
\* they belong, provided the launcher's names occur in no other word.
EngineGetsTheRest == Launched => Words(engine) = ForEngine(Given)

\* When the loop paces itself the engine is told to run free, and nothing else:
\* no sys_ticrate or pingboost of the operator's is left.
EngineRunsFreeWhenPaced ==
    Launched /\ pingboost = TargetFps =>
        LET words == Words(engine)
            ticrates == {i \in DOMAIN words : IsArg(words[i], sys_ticrate)}
        IN /\ Cardinality(ticrates) = 1
           /\ OptionOf(words, sys_ticrate) = Zero
           /\ ~contains(engine, pingboostArg)

\* The loop is set up as the operator's own words say, though the handlers have
\* changed the text in between, unless a removed option leaves another behind.
LoopFollowsOperator ==
    Launched /\ OneOptionEach(Given) =>
        LET fps == NumberOf(Given, targetfps)
            level == IF Has(Given, targetfps) THEN 0 ELSE NumberOf(Given, pingboostArg)
        IN /\ target_fps = Max({fps, 0})
           /\ pingboost = IF fps > 0 THEN TargetFps ELSE Min({Max({level, 0}), level5})

\* The log has a file exactly when the operator asked for one, though the engine
\* is never told; such a log is to be cleared exactly when the operator asked for
\* that too, and the process identifier goes nowhere but to the file named for
\* it, with the same exception.  -conclearlog without -condebug is left open: it
\* clears nothing, though src/README.md:75 says "If present, this parameter will
\* clear the contents of the `qconsole.log` file every time the server starts".
FilesFollowOperator ==
    Launched =>
        /\ logfile # <<>> <=> Has(Given, condebug)
        /\ Has(Given, condebug) => (cleared # "no" <=> Has(Given, conclearlog))
        /\ OneOptionEach(Given) => pidfile \in {<<>>, OptionOf(Given, pidfileArg)}
=============================================================================
