--------------------------------- MODULE Log --------------------------------
(***************************************************************************)
(* The log of the launcher: messages of the main thread and of the console *)
(* thread go to a view and, with -condebug, to a file.  The logger sends a *)
(* message to one sink after the other, each under its own mutex, so two   *)
(* threads are in different sinks at a time.  What a sink writes to depends*)
(* on objects the C library destroys in exit(), in the reverse order of    *)
(* their first use.                                                        *)
(***************************************************************************)
EXTENDS Sequences

Writer == {"main", "console"}

VARIABLES
    sinks,       \* of the default logger
    writing,     \* where each thread is with its message, if it has one
    critical,    \* the threads whose message is why they abort
    braces,      \* those of them whose message has braces in its text
    written,     \* what became of these messages
    destructors, \* what exit() is to run, the latest registered first
    destroyed,   \* the objects of the log it has destroyed
    late,        \* which thread has used which destroyed object (history)
    tableLate    \* the table of prefixes was made after a callback (history)

messageVars == <<sinks, writing, critical, braces, written>>
exitVars == <<destructors, destroyed, late, tableLate>>
logVars == <<messageVars, exitVars>>

\* "registry" is spdlog's, "prefixes" the table of the formatter.
LogObject == {"registry", "prefixes"}

\* The types of the messages under way and of what exit() is to run.
LogTypeOK ==
    /\ sinks \subseteq {"default", "view", "file"}
    /\ writing \in [Writer -> {"no", "view", "file", "flush"}]
    /\ critical \subseteq Writer /\ braces \subseteq Writer
    /\ written \subseteq Writer \X {"shown", "buffered", "filed"}
    /\ destructors \in Seq(LogObject \union {"run_callbacks"})
    /\ destroyed \subseteq LogObject
    /\ late \subseteq Writer \X LogObject
    /\ tableLate \in BOOLEAN

\* spdlog's own logger writes to stdout until log_init.
LogInit ==
    /\ sinks = {"default"}
    /\ writing = [t \in Writer |-> "no"]
    /\ critical = {} /\ braces = {} /\ written = {}
    /\ destructors = <<>> /\ destroyed = {} /\ late = {} /\ tableLate = FALSE

\* An object is made when it is first used, and destroyed in exit() from then
\* on; one that was destroyed is not made again.
Used(object, t) ==
    /\ destructors' = IF object \in destroyed \union {destructors[i] : i \in DOMAIN destructors}
                      THEN destructors ELSE <<object>> \o destructors
    /\ late' = IF object \in destroyed THEN late \union {<<t, object>>} ELSE late
    /\ UNCHANGED destroyed

\* LogSettings: the view unless told otherwise, the file too with -condebug.
Outputs(con_debug) == IF con_debug THEN {"view", "file"} ELSE {"view"}

log_init(con_debug) ==
    /\ sinks' = Outputs(con_debug)
    /\ Used("registry", "main")
    /\ UNCHANGED <<writing, critical, braces, written, tableLate>>

\* log_info and the other levels from there up, the only ones the code uses:
\* none is filtered.  After the reason of an abort, critical or an error, a
\* thread writes nothing.
log(t, isReason, hasBraces) ==
    /\ writing[t] = "no" /\ t \notin critical
    /\ writing' = [writing EXCEPT ![t] = "view"]
    /\ critical' = IF isReason THEN critical \union {t} ELSE critical
    /\ braces' = IF isReason /\ hasBraces THEN braces \union {t} ELSE braces
    /\ Used("registry", t)
    /\ UNCHANGED <<sinks, written, tableLate>>

\* The formatter of both sinks; the default logger has its own.
Formats(t) ==
    IF "default" \in sinks
    THEN UNCHANGED exitVars
    ELSE /\ Used("prefixes", t)
         /\ tableLate' = (tableLate \/ (destructors' # destructors
                /\ \E i \in DOMAIN destructors : destructors[i] = "run_callbacks"))

\* The reason of an abort reaches a place.
Arrives(t, place) ==
    written' = IF t \in critical THEN written \union {<<t, place>>} ELSE written

\* The view takes the text for a format string: braces in it make it throw, the
\* logger catches that, and nothing is shown.
sink_it_(t) ==
    /\ writing[t] = "view"
    /\ writing' = [writing EXCEPT ![t] = IF "file" \in sinks THEN "file" ELSE "flush"]
    /\ IF "default" \in sinks \/ t \notin braces
       THEN Arrives(t, "shown") ELSE UNCHANGED written
    /\ Formats(t)
    /\ UNCHANGED <<sinks, critical, braces>>

WriteFile(t) ==
    /\ writing[t] = "file"
    /\ writing' = [writing EXCEPT ![t] = "flush"]
    /\ Arrives(t, "buffered")
    /\ Formats(t)
    /\ UNCHANGED <<sinks, critical, braces>>

\* Mutant of Flush: the logger does not flush on every level.
FlushNothing(t) ==
    /\ writing[t] = "flush"
    /\ writing' = [writing EXCEPT ![t] = "no"]
    /\ UNCHANGED <<sinks, critical, braces, written, exitVars>>

\* flush_on is the lowest level: every message is followed by a flush, which
\* takes along what the other thread has put into the file's buffer.
Flush(t) ==
    /\ writing[t] = "flush"
    /\ writing' = [writing EXCEPT ![t] = "no"]
    /\ written' = written \union {u \in Writer : <<u, "buffered">> \in written} \X {"filed"}
    /\ UNCHANGED <<sinks, critical, braces, exitVars>>

Writes(t) == sink_it_(t) \/ WriteFile(t) \/ Flush(t)

\* exit() destroys the latest made first.
DestroyLatest ==
    /\ destructors # <<>>
    /\ destructors' = Tail(destructors)
    /\ destroyed' = destroyed \union (LogObject \cap {Head(destructors)})
    /\ UNCHANGED <<messageVars, late, tableLate>>

Registered == destructors' = <<"run_callbacks">> \o destructors
=============================================================================
