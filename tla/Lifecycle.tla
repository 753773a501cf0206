------------------------------ MODULE Lifecycle ------------------------------
(***************************************************************************)
(* The launcher from main() to the end of the process: the singletons that *)
(* hold a loaded module (the crash dumper's on Windows, the filesystem's,  *)
(* the engine's) and cache its interfaces, what main() sets up on them,    *)
(* and the stack of callbacks that Util::at_exit has the C library run.    *)
(* A step may fail, at_exit may be refused, and the engine may end the     *)
(* process from inside its own code.                                       *)
(***************************************************************************)
EXTENDS Naturals, Sequences

CONSTANT Null \* no stack: at_exit was not called, or was refused, or all is over

Module == {"dbghelp", "filesystem", "engine"}

\* The interfaces the launcher asks each wrapped module for, by name.
EngineInterface == {"VENGINE_HLDS_API_VERSION002", "basesystem002"}
FileSystemModuleInterface == {"VFileSystem009"}
Interface == EngineInterface \union FileSystemModuleInterface
InterfacesOf(module) ==
    CASE module = "engine" -> EngineInterface
      [] module = "filesystem" -> FileSystemModuleInterface
      [] OTHER -> {}

\* Each singleton registers its destruction under the name of its module.
Callback == Module \union {"unmount", "WSACleanup"}
Ending == {"exit", "quick_exit"}

ASSUME NullAssumption == Null \notin Seq(Callback) /\ Null \notin Ending

VARIABLES
    windows,    \* the platform
    minidumps,  \* it is Windows, and -nominidumps was not given
    pc,         \* where the main thread is
    callbacks,  \* the stack of lifecycle.cpp, the top first
    hooks,      \* which ends of the process the C library runs run_callbacks at
    instance,   \* the modules whose wrapper exists
    loaded,     \* the modules that are loaded
    interfaces_, \* the interfaces the wrappers have cached
    mounted,    \* the filesystem is mounted
    sockets,    \* WSAStartup was called and WSACleanup not
    engineUp,   \* the engine was initialized
    ending,     \* how the process ends, once it does
    refused     \* history: the callbacks at_exit refused

wrappers == <<instance, loaded, interfaces_>>
things == <<wrappers, mounted, sockets, engineUp>>
build == <<windows, minidumps>>
exits == <<callbacks, hooks, refused>>
vars == <<build, pc, ending, exits, things>>

Points ==
    {"view", "logger", "processor", "dbghelp.get", "locale", "socket",
     "filesystem.get", "filesystem.load", "filesystem.interface", "filesystem.mount",
     "filesystem.unmount", "engine.get", "engine.load", "engine.interface", "engine.init",
     "server.system", "server.api", "sleep", "loop", "ending", "run", "pop", "statics", "ended", "aborted"}

\* The callbacks on the stack are distinct, as each is registered once.
TypeOK ==
    /\ windows \in BOOLEAN /\ minidumps \in BOOLEAN
    /\ pc \in Points
    /\ interfaces_ \subseteq Interface
    /\ callbacks \in Seq(Callback) \union {Null}
    /\ callbacks # Null => \A i, j \in DOMAIN callbacks : callbacks[i] = callbacks[j] => i = j
    /\ hooks \subseteq Ending
    /\ instance \subseteq Module
    /\ loaded \subseteq Module
    /\ mounted \in BOOLEAN /\ sockets \in BOOLEAN /\ engineUp \in BOOLEAN
    /\ ending \in Ending \union {Null}
    /\ refused \subseteq Callback

Init ==
    /\ windows \in BOOLEAN
    /\ minidumps \in IF windows THEN BOOLEAN ELSE {FALSE}
    /\ pc = "view" /\ ending = Null
    /\ callbacks = Null /\ hooks = {} /\ refused = {}
    /\ instance = {} /\ loaded = {} /\ interfaces_ = {}
    /\ mounted = FALSE /\ sockets = FALSE /\ engineUp = FALSE

-----------------------------------------------------------------------------
(* lifecycle.cpp                                                           *)

\* Mutant of Push: the oldest callback is run first.
PushBelow(callback, stack) == Append(stack, callback)

Push(callback, stack) == <<callback>> \o stack

\* The first call has the C library run the callbacks at both ends of a
\* process; when it refuses either there is no stack, and the next call asks
\* again.  No caller looks at the result.
Registers(callback) ==
    /\ callbacks # Null
    /\ callbacks' = Push(callback, callbacks)
    /\ UNCHANGED <<hooks, refused>>

FirstRegisters(callback) ==
    /\ callbacks = Null
    /\ callbacks' = Push(callback, <<>>)
    /\ hooks' = Ending
    /\ UNCHANGED refused

IsRefused(callback) ==
    /\ callbacks = Null
    /\ hooks' \in {hooks, hooks \union {"exit"}}
    /\ refused' = refused \union {callback}
    /\ UNCHANGED callbacks

at_exit(callback) == Registers(callback) \/ FirstRegisters(callback) \/ IsRefused(callback)

\* The end of a singleton: its wrapper is destroyed, with the interfaces it has
\* cached, and unloads the module.  dlclose may fail and leave it loaded.
Destroyed(module) ==
    /\ instance' = instance \ {module}
    /\ loaded' \in {loaded, loaded \ {module}}
    /\ interfaces_' = interfaces_ \ InterfacesOf(module)
    /\ UNCHANGED <<mounted, sockets, engineUp>>

Called(callback) ==
    \/ callback \in Module /\ Destroyed(callback)
    \/ callback = "unmount" /\ mounted' = FALSE /\ UNCHANGED <<wrappers, sockets, engineUp>>
    \/ callback = "WSACleanup" /\ sockets' = FALSE /\ UNCHANGED <<wrappers, mounted, engineUp>>

\* After quick_exit the process is gone, after exit static objects follow.
AfterCallbacks == IF ending = "exit" THEN "statics" ELSE "ended"

\* The C library starts run_callbacks, once for each time it was asked to; a
\* second time finds no stack.
run_callbacks ==
    /\ pc = "ending"
    /\ pc' = IF ending \in hooks /\ callbacks # Null THEN "run" ELSE AfterCallbacks
    /\ UNCHANGED <<build, ending, exits, things>>

CallTop ==
    /\ pc = "run" /\ callbacks # <<>>
    /\ Called(Head(callbacks))
    /\ pc' = "pop"
    /\ UNCHANGED <<build, ending, exits>>

\* Mutant of PopTop: the callback stays on the stack.
PopNothing ==
    /\ pc = "pop"
    /\ pc' = "run"
    /\ UNCHANGED <<build, ending, exits, things>>

\* Mutant of PopTop: what is left is forgotten.
PopAll ==
    /\ pc = "pop"
    /\ callbacks' = <<>>
    /\ pc' = "run"
    /\ UNCHANGED <<build, ending, hooks, refused, things>>

PopTop ==
    /\ pc = "pop"
    /\ callbacks' = Tail(callbacks)
    /\ pc' = "run"
    /\ UNCHANGED <<build, ending, hooks, refused, things>>

ResetStack ==
    /\ pc = "run" /\ callbacks = <<>>
    /\ callbacks' = Null
    /\ pc' = AfterCallbacks
    /\ UNCHANGED <<build, ending, hooks, refused, things>>

\* The static pointers of the singletons destroy what no callback did, in an
\* order the language leaves open.
DestroyStatic(module) ==
    /\ pc = "statics" /\ module \in instance
    /\ Destroyed(module)
    /\ UNCHANGED <<build, pc, ending, exits>>

EndStatics ==
    /\ pc = "statics" /\ instance = {}
    /\ pc' = "ended"
    /\ UNCHANGED <<build, ending, exits, things>>

-----------------------------------------------------------------------------
(* main()                                                                  *)

Goes(from, to) == pc = from /\ pc' = to /\ UNCHANGED <<build, ending>>

Ends(from, how) ==
    /\ pc = from /\ pc' = "ending"
    /\ ending' = how
    /\ UNCHANGED build

Aborts(from) == Goes(from, "aborted") /\ UNCHANGED <<exits, things>>

\* ConsoleView and init_logger: nothing here that others depend on.
ConsoleView == Goes("view", "logger") /\ UNCHANGED <<exits, things>>

init_logger == Goes("logger", "processor") /\ UNCHANGED <<exits, things>>

\* The handlers of the command line: the last one starts the crash dumper.
process ==
    /\ Goes("processor", IF minidumps THEN "dbghelp.get" ELSE "locale")
    /\ UNCHANGED <<exits, things>>

\* CrashDumper's constructor loads dbghelp.dll and installs its filter, before
\* the singleton's destruction is scheduled.
CrashDumper ==
    /\ Goes("dbghelp.get", "locale")
    /\ instance' = instance \union {"dbghelp"}
    /\ loaded' = loaded \union {"dbghelp"}
    /\ at_exit("dbghelp")
    /\ UNCHANGED <<interfaces_, mounted, sockets, engineUp>>

init_locale == Goes("locale", "socket") /\ UNCHANGED <<exits, things>>

init_socket ==
    /\ Goes("socket", "filesystem.get")
    /\ IF windows
       THEN sockets' = TRUE /\ at_exit("WSACleanup")
       ELSE UNCHANGED <<sockets, exits>>
    /\ UNCHANGED <<wrappers, mounted, engineUp>>

\* get_instance: creates the wrapper and schedules its destruction.
get_instance(module, from, to) ==
    /\ Goes(from, to)
    /\ instance' = instance \union {module}
    /\ at_exit(module)
    /\ UNCHANGED <<loaded, interfaces_, mounted, sockets, engineUp>>

\* What was cached of an earlier load is forgotten.
load_or_abort(module, from, to) ==
    /\ Goes(from, to)
    /\ loaded' = loaded \union {module}
    /\ interfaces_' = interfaces_ \ InterfacesOf(module)
    /\ UNCHANGED <<exits, instance, mounted, sockets, engineUp>>

\* From the cache, or from the module's CreateInterface; one it returns without
\* calling it a success is not cached.
get_interface(interface, from, to) ==
    /\ Goes(from, to)
    /\ interfaces_' \in {interfaces_, interfaces_ \union {interface}}
    /\ UNCHANGED <<exits, instance, loaded, mounted, sockets, engineUp>>

mount ==
    /\ Goes("filesystem.mount", "filesystem.unmount")
    /\ mounted' = TRUE
    /\ UNCHANGED <<exits, wrappers, sockets, engineUp>>

ScheduleUnmount ==
    /\ Goes("filesystem.unmount", "engine.get")
    /\ at_exit("unmount")
    /\ UNCHANGED things

\* The engine is handed the filesystem and uses it from here on.
EngineInit ==
    /\ Goes("engine.init", "server.system")
    /\ engineUp' = TRUE
    /\ UNCHANGED <<exits, wrappers, mounted, sockets>>

\* run_server_loop shuts the engine down before main() returns.
ServerLoopEnds ==
    /\ Ends("loop", "exit")
    /\ engineUp' = FALSE
    /\ UNCHANGED <<exits, wrappers, mounted, sockets>>

\* Code of the engine calls exit or quick_exit.
EngineExits(how) ==
    /\ \/ Ends("engine.init", how) /\ engineUp' \in BOOLEAN
       \/ Ends("loop", how) /\ UNCHANGED engineUp
    /\ UNCHANGED <<exits, wrappers, mounted, sockets>>

init_filesystem ==
    \/ get_instance("filesystem", "filesystem.get", "filesystem.load")
    \/ load_or_abort("filesystem", "filesystem.load", "filesystem.interface")
    \/ get_interface("VFileSystem009", "filesystem.interface", "filesystem.mount")
    \/ mount \/ ScheduleUnmount

init_engine ==
    \/ get_instance("engine", "engine.get", "engine.load")
    \/ load_or_abort("engine", "engine.load", "engine.interface")
    \/ get_interface("VENGINE_HLDS_API_VERSION002", "engine.interface", "engine.init")
    \/ EngineInit

\* What run_server_loop asks of the engine: a system interface it can do
\* without, and the interface main() has asked for before.  The console is made
\* next, and its thread runs before the loop does.
ServerInterfaces ==
    \/ get_interface("basesystem002", "server.system", "server.api")
    \/ get_interface("VENGINE_HLDS_API_VERSION002", "server.api", "sleep")

\* ServerLoop::run sees to the way it will sleep before the first frame.
ServerLoopStarts == Goes("sleep", "loop") /\ UNCHANGED <<exits, things>>

\* The console's handles, dbghelp.dll or WSAStartup on Windows, a load, an
\* interface that is not cached, the engine's init, or what a way to sleep needs
\* (a timer resolution on Windows, SIGALRM's handler elsewhere) may fail.
MayAbort ==
    \/ windows /\ pc \in {"view", "dbghelp.get", "socket"}
    \/ pc \in {"filesystem.load", "filesystem.interface", "engine.load",
               "engine.interface", "engine.init", "sleep"}
    \/ pc = "server.api" /\ "VENGINE_HLDS_API_VERSION002" \notin interfaces_

Abort == MayAbort /\ Aborts(pc)

\* The console's thread or the handler of SIGALRM aborts, wherever the main
\* thread is by then.
AbortElsewhere ==
    pc \in {"sleep", "loop", "ending", "run", "pop", "statics"} /\ Aborts(pc)

Next ==
    \/ ConsoleView \/ init_logger \/ process \/ CrashDumper \/ init_locale
    \/ init_socket \/ init_filesystem \/ init_engine
    \/ ServerInterfaces \/ ServerLoopStarts \/ ServerLoopEnds
    \/ Abort \/ AbortElsewhere
    \/ \E how \in Ending : EngineExits(how)
    \/ run_callbacks \/ CallTop \/ PopTop \/ ResetStack
    \/ \E module \in Module : DestroyStatic(module)
    \/ EndStatics

Spec == Init /\ [][Next]_vars

-----------------------------------------------------------------------------

\* While the engine is up and its wrapper not yet destroyed, everything it was
\* handed is still there: the filesystem module loaded and mounted, and the
\* sockets; and a crash of it is still dumped.  This holds however the process
\* ends and whichever registrations were refused, but for the engine's own:
\* then static objects decide.
EngineIsOutlived ==
    engineUp /\ "engine" \in instance /\ "engine" \notin refused =>
        /\ "filesystem" \in loaded /\ mounted
        /\ windows => sockets
        /\ minidumps => "dbghelp" \in instance

\* A callback finds what it takes down: unmount() is called through a pointer
\* into the filesystem module, so the module must be loaded, and a singleton is
\* destroyed only once, as destroy_singleton asserts.
CallbacksFindTheirThings ==
    pc = "run" /\ callbacks # <<>> =>
        LET callback == Head(callbacks) IN
        /\ callback = "unmount" => "filesystem" \in loaded /\ mounted
        /\ callback \in Module => callback \in instance

\* A process that ends by exit or quick_exit, wherever the engine was, leaves
\* undone only what at_exit refused to register.
NothingLeftBehind ==
    pc = "ended" =>
        /\ mounted => "unmount" \in refused
        /\ sockets => "WSACleanup" \in refused
        /\ instance \subseteq (IF ending = "quick_exit" THEN refused ELSE {})
=============================================================================
