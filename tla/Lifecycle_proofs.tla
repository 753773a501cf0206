-------------------------- MODULE Lifecycle_proofs --------------------------
(***************************************************************************)
(* However the process ends and whatever fails or is refused on the way:   *)
(* what the engine was handed outlives it, each callback finds what it     *)
(* takes down, nothing registered is left behind, an abort has said why,   *)
(* and only the cases named use the log after its end.                     *)
(***************************************************************************)
EXTENDS Process, TLAPS

-----------------------------------------------------------------------------
(* The invariant of Lifecycle.                                             *)

\* How far main() has come, as the points before each registration.
BeforeDump == {"view", "logger", "processor", "dbghelp.get"}
BeforeSocket == BeforeDump \union {"locale", "socket"}
BeforeFileSystem == BeforeSocket \union {"filesystem.get"}
BeforeMount == BeforeFileSystem \union {"filesystem.load", "filesystem.interface", "filesystem.mount"}
BeforeUnmount == BeforeMount \union {"filesystem.unmount"}
BeforeEngine == BeforeUnmount \union {"engine.get"}
EngineStarts == {"engine.load", "engine.interface", "engine.init"}
EngineRuns == {"server.system", "server.api", "sleep", "loop"}
Starting == BeforeEngine \union EngineStarts \union EngineRuns \union {"ending"}
Finishing == {"run", "pop", "statics", "ended"}

\* What main() has called at_exit for.
Scheduled(callback) ==
    \/ callback = "dbghelp" /\ minidumps /\ pc \notin BeforeDump
    \/ callback = "WSACleanup" /\ windows /\ pc \notin BeforeSocket
    \/ callback = "filesystem" /\ pc \notin BeforeFileSystem
    \/ callback = "unmount" /\ pc \notin BeforeUnmount
    \/ callback = "engine" /\ pc \notin BeforeEngine

\* The order of the registrations.
Rank(callback) ==
    CASE callback = "dbghelp" -> 1
      [] callback = "WSACleanup" -> 2
      [] callback = "filesystem" -> 3
      [] callback = "unmount" -> 4
      [] OTHER -> 5

\* On the stack, and on it but not called yet.
OnStack(callback) == callbacks # Null /\ \E i \in DOMAIN callbacks : callbacks[i] = callback
Waiting(callback) ==
    /\ OnStack(callback)
    /\ pc = "pop" => callback # Head(callbacks)

\* What the callback is to take down still stands.
Stands(callback) ==
    \/ callback \in Module /\ callback \in instance
    \/ callback = "unmount" /\ mounted
    \/ callback = "WSACleanup" /\ sockets

\* Everything the engine was handed is there.
Complete ==
    /\ "filesystem" \in loaded /\ mounted
    /\ windows => sockets
    /\ minidumps => "dbghelp" \in instance

\* The latest registered is on top.
LatestOnTop ==
    callbacks # Null =>
        \A i, j \in DOMAIN callbacks : i < j => Rank(callbacks[i]) > Rank(callbacks[j])

\* A stack means that the C library took both hooks.
StackIsHooked == callbacks # Null => hooks = Ending

\* Until callbacks run, what was scheduled is on the stack or was refused, and
\* stands.
StartedInOrder ==
    pc \in Starting =>
        /\ \A c \in Callback : Scheduled(c) <=> OnStack(c) \/ c \in refused
        /\ \A c \in Callback : ~(OnStack(c) /\ c \in refused)
        /\ \A c \in Callback \ {"unmount"} : Stands(c) <=> Scheduled(c)
        /\ mounted <=> pc \notin BeforeMount
        /\ pc \notin BeforeFileSystem \union {"filesystem.load"} => "filesystem" \in loaded

\* While they run, what waits stands and what was called does not.
TakenDownInOrder ==
    pc \in Finishing =>
        /\ \A c \in Callback : Waiting(c) => Stands(c)
        /\ \A c \in Callback : Stands(c) => Waiting(c) \/ c \in refused
        /\ Waiting("unmount") => "filesystem" \in loaded
        /\ Waiting("engine") => Complete
        /\ ending \in Ending

\* Where the stack is, and what the two ways to end do.
StackFollowsPc ==
    /\ pc = "dbghelp.get" => minidumps
    /\ minidumps => windows
    /\ pc \in {"run", "pop"} => callbacks # Null
    /\ pc = "pop" => callbacks # <<>>
    /\ pc \in {"statics", "ended"} => callbacks = Null
    /\ pc = "ending" => ending \in Ending
    /\ pc = "statics" => ending = "exit"
    /\ pc = "ended" /\ ending = "exit" => instance = {}

\* The engine is up only behind its init, and then has everything.
UpIsComplete ==
    /\ engineUp => pc \notin BeforeEngine \union EngineStarts
    /\ pc \in EngineRuns => engineUp
    /\ engineUp /\ pc = "aborted" /\ "engine" \in instance /\ "engine" \notin refused => Complete

IInv ==
    /\ TypeOK
    /\ LatestOnTop /\ StackIsHooked
    /\ StartedInOrder /\ TakenDownInOrder
    /\ StackFollowsPc /\ UpIsComplete

-----------------------------------------------------------------------------
(* The invariant of the log.                                               *)

\* An object is registered below run_callbacks, so destroyed after it.
Below(object) ==
    \E i, j \in DOMAIN destructors :
        i < j /\ destructors[i] = "run_callbacks" /\ destructors[j] = object

Made(object) == \E i \in DOMAIN destructors : destructors[i] = object

\* exit() has each object once, until it has destroyed it.
MadeOnce ==
    \A i, j \in DOMAIN destructors :
        i # j /\ destructors[i] = destructors[j] => destructors[i] = "run_callbacks"

DestroyedOnce ==
    /\ MadeOnce
    /\ \A object \in destroyed : ~Made(object)
    /\ \A use \in late : use[2] \in destroyed
    /\ destroyed # {} => pc \in Finishing \union {"ending", "aborted"}

\* What was made before the stack is destroyed after it.
MadeBelowStack ==
    /\ pc \notin {"view", "logger", "aborted"} => Made("registry") \/ "registry" \in destroyed
    /\ callbacks # Null => Below("registry")
    /\ callbacks # Null /\ ~tableLate /\ (Made("prefixes") \/ "prefixes" \in destroyed)
        => Below("prefixes")

\* Who writes, and when.
WritersFollowPc ==
    /\ console \in {"starting", "running"} => engineUp
    /\ writing["console"] # "no" => console \in {"starting", "running"}
    /\ "console" \in critical => console = "starting"
    /\ pc \in {"ending", "pop", "ended"} => writing["main"] = "no"
    /\ pc = "statics" /\ writing["main"] # "no" => refused # {}
    /\ pc = "aborted" /\ aborter # "handler" => aborter \in critical /\ writing[aborter] = "no"

\* How far the reason of an abort has come.
ReasonGetsOut ==
    /\ "default" \in sinks \/ "view" \in sinks
    /\ \A t \in critical :
        /\ writing[t] # "view" => <<t, "shown">> \in written \/ (t \in braces /\ "view" \in sinks)
        /\ writing[t] = "flush" /\ "file" \in sinks => <<t, "buffered">> \in written
        /\ writing[t] = "no" /\ "file" \in sinks => <<t, "filed">> \in written

LogInv ==
    /\ LogTypeOK
    /\ DestroyedOnce /\ MadeBelowStack
    /\ WritersFollowPc /\ ReasonGetsOut
    /\ LateMessages

-----------------------------------------------------------------------------
(* The stack.                                                              *)

\* What is pushed is on top of the rest.
LEMMA PushFacts ==
    ASSUME NEW s \in Seq(Callback), NEW callback \in Callback
    PROVE  /\ Push(callback, s) \in Seq(Callback)
           /\ Push(callback, s) # <<>>
           /\ DOMAIN Push(callback, s) = 1..Len(s) + 1
           /\ 1 \in DOMAIN Push(callback, s)
           /\ Push(callback, s)[1] = callback
           /\ \A i \in DOMAIN s : i + 1 \in DOMAIN Push(callback, s) /\ Push(callback, s)[i + 1] = s[i]
           /\ \A i \in DOMAIN Push(callback, s) :
                i # 1 => i - 1 \in DOMAIN s /\ Push(callback, s)[i] = s[i - 1]
BY DEF Push

\* What is left when the top is taken away.
LEMMA TailFacts ==
    ASSUME NEW s \in Seq(Callback), s # <<>>
    PROVE  /\ Tail(s) \in Seq(Callback)
           /\ 1 \in DOMAIN s /\ Head(s) = s[1] /\ Head(s) \in Callback
           /\ \A i \in DOMAIN s : i # 1 => i - 1 \in DOMAIN Tail(s) /\ Tail(s)[i - 1] = s[i]
           /\ \A i \in DOMAIN Tail(s) : i + 1 \in DOMAIN s /\ i + 1 # 1 /\ Tail(s)[i] = s[i + 1]
OBVIOUS

\* at_exit with a callback registered after all on the stack: it is on the stack
\* or refused, and nothing else changes.
LEMMA AtExit ==
    ASSUME TypeOK, LatestOnTop, StackIsHooked, NEW callback \in Callback, at_exit(callback),
           \A c \in Callback : OnStack(c) => Rank(c) < Rank(callback)
    PROVE  /\ callbacks' \in Seq(Callback) \union {Null} /\ callbacks' # <<>>
           /\ hooks' \subseteq Ending /\ refused' \subseteq Callback
           /\ LatestOnTop' /\ StackIsHooked'
           /\ OnStack(callback)' \/ callback \in refused'
           /\ ~OnStack(callback) /\ callback \notin refused =>
                ~(OnStack(callback)' /\ callback \in refused')
           /\ \A c \in Callback : c # callback =>
                /\ OnStack(c)' <=> OnStack(c)
                /\ c \in refused' <=> c \in refused
<1>1. CASE Registers(callback)
  <2>1. callbacks \in Seq(Callback) /\ callbacks' = Push(callback, callbacks)
    BY <1>1 DEF Registers, TypeOK
  <2>2. callbacks' \in Seq(Callback) /\ callbacks' # <<>> /\ callbacks' # Null
    BY <2>1, PushFacts, NullAssumption
  <2>3. \A c : OnStack(c)' <=> OnStack(c) \/ c = callback
    <3>1. callbacks # Null
      BY <2>1, NullAssumption
    <3>2. 1 \in DOMAIN callbacks' /\ callbacks'[1] = callback
      BY <2>1, PushFacts
    <3>3. \A i \in DOMAIN callbacks : i + 1 \in DOMAIN callbacks' /\ callbacks'[i + 1] = callbacks[i]
      BY <2>1, PushFacts
    <3>4. \A i \in DOMAIN callbacks' :
            i # 1 => i - 1 \in DOMAIN callbacks /\ callbacks'[i] = callbacks[i - 1]
      BY <2>1, PushFacts
    <3>5. QED BY <2>2, <3>1, <3>2, <3>3, <3>4 DEF OnStack
  <2>4. LatestOnTop'
    <3>1. \A i \in DOMAIN callbacks : Rank(callbacks[i]) < Rank(callback)
      BY <2>1, NullAssumption DEF OnStack
    <3>2. SUFFICES ASSUME NEW i \in DOMAIN callbacks', NEW j \in DOMAIN callbacks', i < j
                   PROVE  Rank(callbacks'[i]) > Rank(callbacks'[j])
      BY DEF LatestOnTop
    <3>3. j # 1 /\ j - 1 \in DOMAIN callbacks /\ callbacks'[j] = callbacks[j - 1]
      <4>1. DOMAIN callbacks' = 1..Len(callbacks) + 1 /\ Len(callbacks) \in Nat
        BY <2>1, PushFacts
      <4>2. j # 1
        BY <3>2, <4>1
      <4>3. QED BY <2>1, <4>2, PushFacts
    <3>4. CASE i = 1
      BY <2>1, <3>1, <3>3, <3>4, PushFacts DEF Rank
    <3>5. CASE i # 1
      <4>1. i - 1 \in DOMAIN callbacks /\ callbacks'[i] = callbacks[i - 1] /\ i - 1 < j - 1
        BY <2>1, <3>2, <3>3, <3>5, PushFacts
      <4>2. QED BY <1>1, <3>3, <4>1 DEF LatestOnTop, Registers
    <3>6. QED BY <3>4, <3>5
  <2>5. QED BY <1>1, <2>2, <2>3, <2>4 DEF Registers, StackIsHooked, TypeOK
<1>2. CASE FirstRegisters(callback)
  <2>1. callbacks = Null /\ <<>> \in Seq(Callback) /\ callbacks' = Push(callback, <<>>)
    BY <1>2 DEF FirstRegisters
  <2>2. callbacks' \in Seq(Callback) /\ callbacks' # <<>> /\ callbacks' # Null
    BY <2>1, PushFacts, NullAssumption
  <2>3. DOMAIN callbacks' = {1} /\ callbacks'[1] = callback
    <3>1. callbacks' = <<callback>>
      BY <2>1 DEF Push
    <3>2. QED BY <3>1
  <2>4. \A c : (OnStack(c)' <=> c = callback) /\ ~OnStack(c)
    BY <2>1, <2>2, <2>3 DEF OnStack
  <2>5. LatestOnTop'
    BY <2>3 DEF LatestOnTop
  <2>6. QED BY <1>2, <2>2, <2>4, <2>5 DEF FirstRegisters, StackIsHooked, TypeOK
<1>3. CASE IsRefused(callback)
  <2>1. callbacks = Null /\ callbacks' = Null /\ <<>> \in Seq(Callback)
    BY <1>3 DEF IsRefused
  <2>2. callbacks' # <<>>
    BY <2>1, NullAssumption
  <2>3. hooks' \subseteq Ending
    BY <1>3 DEF IsRefused, TypeOK, Ending
  <2>4. QED BY <1>3, <2>1, <2>2, <2>3 DEF IsRefused, TypeOK, OnStack, LatestOnTop, StackIsHooked
<1>4. QED BY <1>1, <1>2, <1>3 DEF at_exit

\* Where callbacks, hooks and refused are left alone, so is what is said of them.
LEMMA StackKept ==
    ASSUME UNCHANGED exits
    PROVE  /\ \A c : OnStack(c)' <=> OnStack(c)
           /\ LatestOnTop' <=> LatestOnTop
           /\ StackIsHooked' <=> StackIsHooked
           /\ callbacks' = callbacks /\ hooks' = hooks /\ refused' = refused
BY DEF exits, OnStack, LatestOnTop, StackIsHooked

\* Callbacks in the order of their registration are distinct.
LEMMA Distinct ==
    ASSUME callbacks' \in Seq(Callback), LatestOnTop', callbacks' # Null
    PROVE  \A i, j \in DOMAIN callbacks' : callbacks'[i] = callbacks'[j] => i = j
<1>1. DOMAIN callbacks' \subseteq Nat /\ \A i \in DOMAIN callbacks' : Rank(callbacks'[i]) \in Nat
  BY DEF Rank
<1>2. SUFFICES ASSUME NEW i \in DOMAIN callbacks', NEW j \in DOMAIN callbacks', i < j
               PROVE  callbacks'[i] # callbacks'[j]
  BY <1>1
<1>3. QED BY <1>1, <1>2 DEF LatestOnTop

-----------------------------------------------------------------------------
(* The invariant of Lifecycle is inductive.                                *)

\* It holds of a new process.
LEMMA InitIInv == Init => IInv
<1> SUFFICES ASSUME Init PROVE IInv
  OBVIOUS
<1>1. TypeOK
  BY DEF Init, TypeOK, Points
<1>2. \A c : ~OnStack(c)
  BY DEF Init, OnStack
<1>3. QED
  BY <1>1, <1>2 DEF Init, IInv, LatestOnTop, StackIsHooked, StartedInOrder, TakenDownInOrder,
     StackFollowsPc, UpIsComplete, Scheduled, Stands, Callback, Module, Starting, BeforeEngine,
     BeforeUnmount, BeforeMount, BeforeFileSystem, BeforeSocket, BeforeDump, EngineStarts,
     EngineRuns, Finishing

\* A step of main() that registers nothing and sets nothing up.
LEMMA Advances ==
    ASSUME IInv, UNCHANGED <<exits, build, ending, instance, loaded, mounted, sockets, engineUp>>,
           interfaces_' \subseteq Interface,
           \/ pc = "view" /\ pc' = "logger"
           \/ pc = "logger" /\ pc' = "processor"
           \/ pc = "processor" /\ pc' = IF minidumps THEN "dbghelp.get" ELSE "locale"
           \/ pc = "locale" /\ pc' = "socket"
           \/ pc = "socket" /\ ~windows /\ pc' = "filesystem.get"
           \/ pc = "filesystem.interface" /\ pc' = "filesystem.mount"
           \/ pc = "engine.interface" /\ pc' = "engine.init"
           \/ pc = "server.system" /\ pc' = "server.api"
           \/ pc = "server.api" /\ pc' = "sleep"
           \/ pc = "sleep" /\ pc' = "loop"
    PROVE  IInv'
<1> USE DEF IInv, Complete, Scheduled, Stands, Starting, BeforeEngine, BeforeUnmount, BeforeMount,
      BeforeFileSystem, BeforeSocket, BeforeDump, EngineStarts, EngineRuns, Finishing, Callback,
      Module, Ending, build
<1>1. /\ \A c : OnStack(c)' <=> OnStack(c)
      /\ LatestOnTop' /\ StackIsHooked'
      /\ callbacks' = callbacks /\ hooks' = hooks /\ refused' = refused
  BY StackKept
<1>2. TypeOK'
  BY <1>1 DEF TypeOK, Points
<1>3. StartedInOrder'
  BY <1>1 DEF StartedInOrder
<1>4. TakenDownInOrder'
  BY DEF TakenDownInOrder
<1>5. StackFollowsPc'
  BY <1>1 DEF StackFollowsPc
<1>6. UpIsComplete'
  BY DEF UpIsComplete
<1>7. QED BY <1>1, <1>2, <1>3, <1>4, <1>5, <1>6

\* A step of main() that loads, mounts or starts something.
LEMMA SetsUp ==
    ASSUME IInv, UNCHANGED <<exits, build, ending, instance, sockets>>,
           interfaces_' \subseteq Interface,
           \/ pc = "filesystem.load" /\ pc' = "filesystem.interface"
              /\ loaded' = loaded \union {"filesystem"} /\ UNCHANGED <<mounted, engineUp>>
           \/ pc = "engine.load" /\ pc' = "engine.interface"
              /\ loaded' = loaded \union {"engine"} /\ UNCHANGED <<mounted, engineUp>>
           \/ pc = "filesystem.mount" /\ pc' = "filesystem.unmount"
              /\ mounted' = TRUE /\ UNCHANGED <<loaded, engineUp>>
           \/ pc = "engine.init" /\ pc' = "server.system"
              /\ engineUp' = TRUE /\ UNCHANGED <<loaded, mounted>>
    PROVE  IInv'
<1> USE DEF IInv, Complete, Scheduled, Stands, Starting, BeforeEngine, BeforeUnmount, BeforeMount,
      BeforeFileSystem, BeforeSocket, BeforeDump, EngineStarts, EngineRuns, Finishing, Callback,
      Module, Ending, build
<1>1. /\ \A c : OnStack(c)' <=> OnStack(c)
      /\ LatestOnTop' /\ StackIsHooked'
      /\ callbacks' = callbacks /\ hooks' = hooks /\ refused' = refused
  BY StackKept
<1>2. TypeOK'
  BY <1>1 DEF TypeOK, Points
<1>3. StartedInOrder'
  BY <1>1 DEF StartedInOrder
<1>4. TakenDownInOrder'
  BY DEF TakenDownInOrder
<1>5. StackFollowsPc'
  BY <1>1 DEF StackFollowsPc
<1>6. UpIsComplete'
  BY DEF UpIsComplete
<1>7. QED BY <1>1, <1>2, <1>3, <1>4, <1>5, <1>6

\* Whatever point the process is at, an engine that is up and registered has all
\* it was handed.
LEMMA UpHasEverything ==
    ASSUME IInv, engineUp, "engine" \in instance, "engine" \notin refused
    PROVE  Complete
<1> USE DEF IInv, Stands, Callback, Module
<1>1. pc \in EngineRuns \union {"ending"} \union Finishing \union {"aborted"}
  BY DEF TypeOK, Points, UpIsComplete, BeforeEngine, BeforeUnmount, BeforeMount,
         BeforeFileSystem, BeforeSocket, BeforeDump, EngineStarts, EngineRuns, Finishing
<1>2. CASE pc \in EngineRuns \union {"ending"}
  BY <1>2 DEF StartedInOrder, Scheduled, Complete, Starting, BeforeEngine, BeforeUnmount,
     BeforeMount, BeforeFileSystem, BeforeSocket, BeforeDump, EngineStarts, EngineRuns
<1>3. CASE pc \in Finishing
  BY <1>3 DEF TakenDownInOrder
<1>4. CASE pc = "aborted"
  BY <1>4 DEF UpIsComplete
<1>5. QED BY <1>1, <1>2, <1>3, <1>4

\* The process ends, by main() or by the engine, or aborts, for the main thread or
\* behind its back.
LEMMA EndsOrAborts ==
    ASSUME IInv, UNCHANGED <<exits, build, wrappers, mounted, sockets>>,
           \/ pc = "loop" /\ pc' = "ending" /\ ending' \in Ending /\ engineUp' \in BOOLEAN
           \/ pc = "engine.init" /\ pc' = "ending" /\ ending' \in Ending /\ engineUp' \in BOOLEAN
           \/ pc' = "aborted" /\ UNCHANGED <<ending, engineUp>>
    PROVE  IInv'
<1> USE DEF IInv, Complete, Scheduled, Stands, Starting, BeforeEngine, BeforeUnmount, BeforeMount,
      BeforeFileSystem, BeforeSocket, BeforeDump, EngineStarts, EngineRuns, Finishing, Callback,
      Module, Ending, build, wrappers
<1>1. /\ \A c : OnStack(c)' <=> OnStack(c)
      /\ LatestOnTop' /\ StackIsHooked'
      /\ callbacks' = callbacks /\ hooks' = hooks /\ refused' = refused
  BY StackKept
<1>2. TypeOK'
  BY <1>1 DEF TypeOK, Points
<1>3. StartedInOrder'
  BY <1>1 DEF StartedInOrder
<1>4. TakenDownInOrder'
  BY DEF TakenDownInOrder
<1>5. StackFollowsPc'
  BY <1>1 DEF StackFollowsPc
<1>6. UpIsComplete'
  <2>1. engineUp' /\ pc' = "aborted" /\ "engine" \in instance' /\ "engine" \notin refused' => Complete'
    <3>1. engineUp /\ "engine" \in instance /\ "engine" \notin refused => Complete
      BY UpHasEverything
    <3>2. QED BY <1>1, <3>1
  <2>2. QED BY <2>1 DEF UpIsComplete
<1>7. QED BY <1>1, <1>2, <1>3, <1>4, <1>5, <1>6

\* A step of main() that registers what it has set up, but for the unmount, which
\* was set up before.
LEMMA Schedulings ==
    ASSUME IInv, UNCHANGED <<build, ending, interfaces_, engineUp>>, NEW callback \in Callback,
           at_exit(callback),
           \/ /\ callback = "dbghelp" /\ pc = "dbghelp.get" /\ pc' = "locale"
              /\ instance' = instance \union {"dbghelp"} /\ loaded' = loaded \union {"dbghelp"}
              /\ UNCHANGED <<sockets, mounted>>
           \/ /\ callback = "WSACleanup" /\ windows /\ pc = "socket" /\ pc' = "filesystem.get"
              /\ sockets' = TRUE /\ UNCHANGED <<instance, loaded, mounted>>
           \/ /\ callback = "filesystem" /\ pc = "filesystem.get" /\ pc' = "filesystem.load"
              /\ instance' = instance \union {"filesystem"} /\ UNCHANGED <<loaded, sockets, mounted>>
           \/ /\ callback = "unmount" /\ pc = "filesystem.unmount" /\ pc' = "engine.get"
              /\ UNCHANGED <<instance, loaded, sockets, mounted>>
           \/ /\ callback = "engine" /\ pc = "engine.get" /\ pc' = "engine.load"
              /\ instance' = instance \union {"engine"} /\ UNCHANGED <<loaded, sockets, mounted>>
    PROVE  IInv'
<1> USE DEF IInv, Complete, Scheduled, Stands, Starting, BeforeEngine, BeforeUnmount, BeforeMount,
      BeforeFileSystem, BeforeSocket, BeforeDump, EngineStarts, EngineRuns, Finishing, Callback,
      Module, Ending, build
<1>1. pc \in Starting /\ ~Scheduled(callback)
  OBVIOUS
<1>2. ~OnStack(callback) /\ callback \notin refused
  BY <1>1 DEF StartedInOrder
<1>3. \A c \in Callback : OnStack(c) => Rank(c) < Rank(callback)
  <2>1. \A c \in Callback : Scheduled(c) => Rank(c) < Rank(callback)
    BY DEF Rank
  <2>2. QED BY <1>1, <2>1 DEF StartedInOrder
<1>4. /\ callbacks' \in Seq(Callback) \union {Null} /\ callbacks' # <<>>
      /\ hooks' \subseteq Ending /\ refused' \subseteq Callback
      /\ LatestOnTop' /\ StackIsHooked'
      /\ OnStack(callback)' \/ callback \in refused'
      /\ ~(OnStack(callback)' /\ callback \in refused')
      /\ \A c \in Callback : c # callback =>
            (OnStack(c)' <=> OnStack(c)) /\ (c \in refused' <=> c \in refused)
  BY <1>2, <1>3, AtExit
<1>5. TypeOK'
  <2>1. callbacks' # Null =>
            \A i, j \in DOMAIN callbacks' : callbacks'[i] = callbacks'[j] => i = j
    BY <1>4, Distinct
  <2>2. QED BY <1>4, <2>1 DEF TypeOK, Points
<1>6. StartedInOrder'
  <2>1. \A c \in Callback : Scheduled(c)' <=> Scheduled(c) \/ c = callback
    BY DEF StackFollowsPc
  <2>2. \A c \in Callback \ {"unmount"} : Stands(c)' <=> Stands(c) \/ c = callback
    OBVIOUS
  <2>3. \A c \in Callback : Scheduled(c)' <=> OnStack(c)' \/ c \in refused'
    BY <1>1, <1>4, <2>1 DEF StartedInOrder
  <2>4. \A c \in Callback : ~(OnStack(c)' /\ c \in refused')
    BY <1>1, <1>4 DEF StartedInOrder
  <2>5. \A c \in Callback \ {"unmount"} : Stands(c)' <=> Scheduled(c)'
    BY <1>1, <2>1, <2>2 DEF StartedInOrder
  <2>6. /\ mounted' <=> pc' \notin BeforeMount
        /\ pc' \notin BeforeFileSystem \union {"filesystem.load"} => "filesystem" \in loaded'
    BY <1>1 DEF StartedInOrder
  <2>7. QED BY <2>3, <2>4, <2>5, <2>6 DEF StartedInOrder
<1>7. TakenDownInOrder'
  BY DEF TakenDownInOrder
<1>8. StackFollowsPc'
  BY <1>1 DEF StackFollowsPc
<1>9. UpIsComplete'
  BY DEF UpIsComplete
<1>10. QED BY <1>4, <1>5, <1>6, <1>7, <1>8, <1>9

\* The process turns to its callbacks, or goes past them where there is no stack.
LEMMA TurnsToCallbacks == IInv /\ run_callbacks => IInv'
<1> SUFFICES ASSUME IInv, run_callbacks PROVE IInv'
  OBVIOUS
<1> USE DEF IInv, run_callbacks, Starting, Finishing, build, things, wrappers
<1>1. /\ \A c : OnStack(c)' <=> OnStack(c)
      /\ LatestOnTop' /\ StackIsHooked'
      /\ callbacks' = callbacks /\ hooks' = hooks /\ refused' = refused
  BY StackKept
<1>2. ending \in Ending /\ pc \in Starting /\ (callbacks # Null => ending \in hooks)
  BY DEF StackFollowsPc, StackIsHooked
<1>3. pc' \in {"run", "statics", "ended"} /\ (pc' = "run" <=> callbacks # Null)
  BY <1>2 DEF AfterCallbacks
<1>4. TypeOK'
  BY <1>1, <1>3 DEF TypeOK, Points
<1>5. \A c \in Callback : Scheduled(c) <=> OnStack(c) \/ c \in refused
  BY <1>2 DEF StartedInOrder
<1>6. \A c : Waiting(c)' <=> OnStack(c)
  BY <1>1, <1>3 DEF Waiting
<1>7. \A c \in Callback : Stands(c) <=> Scheduled(c)
  BY <1>2 DEF StartedInOrder, Stands, Scheduled, Callback, Module, BeforeEngine, BeforeUnmount,
              BeforeMount, BeforeFileSystem, BeforeSocket, BeforeDump
<1>8. \A c : Stands(c)' <=> Stands(c)
  BY DEF Stands
<1>9. Complete'
  BY <1>2 DEF StartedInOrder, Complete, Stands, Scheduled, Callback, Module, BeforeEngine,
              BeforeUnmount, BeforeMount, BeforeFileSystem, BeforeSocket, BeforeDump
<1>10. TakenDownInOrder'
  BY <1>1, <1>2, <1>5, <1>6, <1>7, <1>8, <1>9 DEF TakenDownInOrder, Complete
<1>11. StartedInOrder'
  BY <1>3 DEF StartedInOrder, BeforeEngine, BeforeUnmount, BeforeMount, BeforeFileSystem,
              BeforeSocket, BeforeDump, EngineStarts, EngineRuns
<1>12. StackFollowsPc'
  <2>1. pc' = "statics" => ending = "exit"
    BY <1>3 DEF AfterCallbacks
  <2>2. pc' # "ended" \/ ending = "quick_exit"
    BY <1>2, <1>3 DEF AfterCallbacks, Ending
  <2>3. QED BY <1>1, <1>3, <2>1, <2>2 DEF StackFollowsPc
<1>13. UpIsComplete'
  BY <1>3 DEF UpIsComplete, BeforeEngine, BeforeUnmount, BeforeMount, BeforeFileSystem,
              BeforeSocket, BeforeDump, EngineStarts, EngineRuns
<1>14. QED BY <1>1, <1>4, <1>10, <1>11, <1>12, <1>13

\* While callbacks run no point of main() is reached again.
LEMMA PastMain ==
    ASSUME pc' \in Finishing
    PROVE  StartedInOrder' /\ UpIsComplete'
BY DEF StartedInOrder, UpIsComplete, Starting, Finishing, BeforeEngine, BeforeUnmount, BeforeMount,
       BeforeFileSystem, BeforeSocket, BeforeDump, EngineStarts, EngineRuns

\* The callback on top is called: all that wait are below it.
LEMMA CallsTop == IInv /\ CallTop => IInv'
<1> SUFFICES ASSUME IInv, CallTop PROVE IInv'
  OBVIOUS
<1> DEFINE top == Head(callbacks)
<1> USE DEF IInv, CallTop, build
<1>1. /\ \A c : OnStack(c)' <=> OnStack(c)
      /\ LatestOnTop' /\ StackIsHooked'
      /\ callbacks' = callbacks /\ hooks' = hooks /\ refused' = refused
  BY StackKept
<1>2. pc = "run" /\ pc' = "pop" /\ callbacks \in Seq(Callback) /\ callbacks # <<>> /\ callbacks # Null
  BY DEF TypeOK, StackFollowsPc
<1>3. top \in Callback /\ OnStack(top) /\ 1 \in DOMAIN callbacks /\ callbacks[1] = top
  BY <1>2, TailFacts DEF OnStack
<1>4. \A c \in Callback : OnStack(c) /\ c # top => Rank(c) < Rank(top)
  <2>1. \A i \in DOMAIN callbacks : i # 1 => 1 < i
    BY <1>2
  <2>2. QED BY <1>2, <1>3, <2>1 DEF OnStack, LatestOnTop
<1>5. \A c : Waiting(c)' <=> OnStack(c) /\ c # top
  BY <1>1, <1>2 DEF Waiting
<1>6. \A c : Waiting(c) <=> OnStack(c)
  BY <1>2 DEF Waiting
<1>7. TypeOK'
  BY <1>1, <1>2 DEF TypeOK, Points, Called, Destroyed, wrappers, Module, Interface, InterfacesOf
<1>8. \A c \in Callback : Stands(c)' <=> Stands(c) /\ c # top
  BY <1>3 DEF Called, Destroyed, wrappers, Stands, Callback, Module
<1>9. Waiting("unmount")' => "filesystem" \in loaded'
  <2>1. SUFFICES ASSUME Waiting("unmount")' PROVE "filesystem" \in loaded'
    OBVIOUS
  <2>2. top # "unmount" /\ Waiting("unmount") /\ Rank("unmount") < Rank(top)
    BY <1>4, <1>5, <1>6, <2>1 DEF Callback
  <2>3. top = "engine"
    BY <1>3, <2>2 DEF Rank, Callback, Module
  <2>4. "filesystem" \in loaded
    BY <1>2, <2>2 DEF TakenDownInOrder, Finishing
  <2>5. QED BY <2>3, <2>4 DEF Called, Destroyed, wrappers, Module
<1>10. ~Waiting("engine")'
  <2>1. SUFFICES ASSUME Waiting("engine")' PROVE FALSE
    OBVIOUS
  <2>2. Rank("engine") < Rank(top)
    BY <1>4, <1>5, <2>1 DEF Callback, Module
  <2>3. QED BY <1>3, <2>2 DEF Rank, Callback, Module
<1>11. TakenDownInOrder'
  BY <1>1, <1>2, <1>5, <1>6, <1>8, <1>9, <1>10 DEF TakenDownInOrder, Finishing
<1>12. StackFollowsPc'
  BY <1>1, <1>2 DEF StackFollowsPc
<1>13. QED BY <1>1, <1>2, <1>7, <1>11, <1>12, PastMain DEF Finishing

\* It is popped: the same wait as before.
LEMMA PopsTop == IInv /\ PopTop => IInv'
<1> SUFFICES ASSUME IInv, PopTop PROVE IInv'
  OBVIOUS
<1> USE DEF IInv, PopTop, build, things, wrappers
<1>1. /\ pc = "pop" /\ pc' = "run" /\ callbacks' = Tail(callbacks)
      /\ callbacks \in Seq(Callback) /\ callbacks # <<>> /\ callbacks # Null
  BY DEF TypeOK, StackFollowsPc
<1>2. callbacks' \in Seq(Callback) /\ callbacks' # Null
  BY <1>1, TailFacts, NullAssumption
<1>3. LatestOnTop'
  <2>1. SUFFICES ASSUME NEW i \in DOMAIN callbacks', NEW j \in DOMAIN callbacks', i < j
                 PROVE  Rank(callbacks'[i]) > Rank(callbacks'[j])
    BY DEF LatestOnTop
  <2>2. /\ i + 1 \in DOMAIN callbacks /\ callbacks'[i] = callbacks[i + 1]
        /\ j + 1 \in DOMAIN callbacks /\ callbacks'[j] = callbacks[j + 1]
    BY <1>1, TailFacts
  <2>3. i + 1 < j + 1
    BY <1>1, <2>1
  <2>4. QED BY <1>1, <2>2, <2>3 DEF LatestOnTop
<1>4. \A i, j \in DOMAIN callbacks : callbacks[i] = callbacks[j] => i = j
  BY <1>1 DEF TypeOK
<1>5. \A c : OnStack(c)' <=> OnStack(c) /\ c # Head(callbacks)
  <2>1. 1 \in DOMAIN callbacks /\ Head(callbacks) = callbacks[1]
    BY <1>1, TailFacts
  <2>2. \A i \in DOMAIN callbacks' : i + 1 \in DOMAIN callbacks /\ i + 1 # 1
                                     /\ callbacks'[i] = callbacks[i + 1]
    BY <1>1, TailFacts
  <2>3. \A i \in DOMAIN callbacks : i # 1 => i - 1 \in DOMAIN callbacks'
                                             /\ callbacks'[i - 1] = callbacks[i]
    BY <1>1, TailFacts
  <2>4. ASSUME NEW c, OnStack(c)' PROVE OnStack(c) /\ c # Head(callbacks)
    BY <1>1, <1>4, <2>1, <2>2, <2>4 DEF OnStack
  <2>5. ASSUME NEW c, OnStack(c), c # Head(callbacks) PROVE OnStack(c)'
    BY <1>1, <1>2, <2>1, <2>3, <2>5 DEF OnStack
  <2>6. QED BY <2>4, <2>5
<1>6. \A c : Waiting(c)' <=> Waiting(c)
  BY <1>1, <1>5 DEF Waiting
<1>7. TypeOK'
  BY <1>1, <1>2, <1>3, Distinct DEF TypeOK, Points
<1>8. \A c : Stands(c)' <=> Stands(c)
  BY DEF Stands
<1>9. TakenDownInOrder'
  BY <1>1, <1>6, <1>8 DEF TakenDownInOrder, Finishing, Complete
<1>10. StackFollowsPc'
  BY <1>1, <1>2 DEF StackFollowsPc
<1>11. StackIsHooked'
  BY <1>1 DEF StackIsHooked
<1>12. QED BY <1>1, <1>3, <1>7, <1>9, <1>10, <1>11, PastMain DEF Finishing

\* The last of the stack and what static objects then do.
LEMMA Concludes ==
    IInv /\ (ResetStack \/ (\E module \in Module : DestroyStatic(module)) \/ EndStatics) => IInv'
<1> USE DEF IInv, build, things, wrappers
<1>1. ASSUME IInv, ResetStack PROVE IInv'
  <2> USE <1>1 DEF ResetStack
  <2>1. pc = "run" /\ callbacks = <<>> /\ callbacks' = Null /\ pc' \in {"statics", "ended"}
    BY DEF AfterCallbacks
  <2>2. \A c : ~OnStack(c) /\ ~Waiting(c) /\ ~OnStack(c)' /\ ~Waiting(c)'
    BY <2>1 DEF OnStack, Waiting
  <2>3. TypeOK'
    BY <2>1 DEF TypeOK, Points
  <2>4. \A c : Stands(c)' <=> Stands(c)
    BY DEF Stands
  <2>5. TakenDownInOrder'
    BY <2>1, <2>2, <2>4 DEF TakenDownInOrder, Finishing, Callback, Module
  <2>6. StackFollowsPc'
    <3>1. ending \in Ending
      BY <2>1 DEF TakenDownInOrder, Finishing
    <3>2. (pc' = "statics" => ending = "exit") /\ (pc' = "ended" => ending # "exit")
      BY DEF AfterCallbacks
    <3>3. QED BY <2>1, <3>2 DEF StackFollowsPc
  <2>7. QED BY <2>1, <2>3, <2>5, <2>6, PastMain DEF Finishing, LatestOnTop, StackIsHooked
<1>2. ASSUME IInv, NEW module \in Module, DestroyStatic(module) PROVE IInv'
  <2> USE <1>2 DEF DestroyStatic, Destroyed
  <2>1. /\ \A c : OnStack(c)' <=> OnStack(c)
        /\ LatestOnTop' /\ StackIsHooked'
        /\ callbacks' = callbacks /\ hooks' = hooks /\ refused' = refused
    BY StackKept
  <2>2. pc = "statics" /\ pc' = "statics" /\ callbacks = Null
    BY DEF StackFollowsPc
  <2>3. \A c : ~Waiting(c) /\ ~Waiting(c)'
    BY <2>1, <2>2 DEF OnStack, Waiting
  <2>4. TypeOK'
    BY <2>1, <2>2 DEF TypeOK, Points, Module, Interface, InterfacesOf
  <2>5. \A c \in Callback : Stands(c)' => Stands(c)
    BY DEF Stands
  <2>6. TakenDownInOrder'
    BY <2>1, <2>2, <2>3, <2>5 DEF TakenDownInOrder, Finishing, Callback, Module
  <2>7. StackFollowsPc'
    BY <2>1, <2>2 DEF StackFollowsPc
  <2>8. QED BY <2>1, <2>2, <2>4, <2>6, <2>7, PastMain DEF Finishing
<1>3. ASSUME IInv, EndStatics PROVE IInv'
  <2> USE <1>3 DEF EndStatics
  <2>1. /\ \A c : OnStack(c)' <=> OnStack(c)
        /\ LatestOnTop' /\ StackIsHooked'
        /\ callbacks' = callbacks /\ hooks' = hooks /\ refused' = refused
    BY StackKept
  <2>2. pc = "statics" /\ pc' = "ended" /\ callbacks = Null
    BY DEF StackFollowsPc
  <2>3. \A c : ~Waiting(c) /\ ~Waiting(c)'
    BY <2>1, <2>2 DEF OnStack, Waiting
  <2>4. TypeOK'
    BY <2>1, <2>2 DEF TypeOK, Points
  <2>5. \A c : Stands(c)' <=> Stands(c)
    BY DEF Stands
  <2>6. TakenDownInOrder'
    BY <2>1, <2>2, <2>3, <2>5 DEF TakenDownInOrder, Finishing, Callback, Module
  <2>7. StackFollowsPc'
    BY <2>1, <2>2 DEF StackFollowsPc
  <2>8. QED BY <2>1, <2>2, <2>4, <2>6, <2>7, PastMain DEF Finishing
<1>4. QED BY <1>1, <1>2, <1>3

\* Every step keeps the invariant.
LEMMA IInvStep == IInv /\ [Next]_vars => IInv'
<1> SUFFICES ASSUME IInv, [Next]_vars PROVE IInv'
  OBVIOUS
<1>1. CASE UNCHANGED vars
  <2>1. UNCHANGED exits
    BY <1>1 DEF vars
  <2>2. \A c : (Waiting(c)' <=> Waiting(c)) /\ (Stands(c)' <=> Stands(c)) /\ (Scheduled(c)' <=> Scheduled(c))
    BY <1>1 DEF vars, build, exits, things, wrappers, Waiting, OnStack, Stands, Scheduled
  <2>3. QED
    BY <1>1, <2>1, <2>2, StackKept DEF vars, build, exits, things, wrappers, IInv, TypeOK,
       StartedInOrder, TakenDownInOrder, StackFollowsPc, UpIsComplete, Complete
<1>2. interfaces_ \subseteq Interface
  BY DEF IInv, TypeOK
<1> USE DEF Goes, Ends, build, things, wrappers
<1>3. CASE ConsoleView \/ init_logger \/ process \/ init_locale \/ ServerInterfaces \/ ServerLoopStarts
  BY <1>2, <1>3, Advances DEF ConsoleView, init_logger, process, init_locale, ServerInterfaces,
     ServerLoopStarts, get_interface, Interface, EngineInterface
<1>4. CASE CrashDumper
  BY <1>4, Schedulings DEF CrashDumper, Callback, Module
<1>5. CASE init_socket
  BY <1>2, <1>5, Advances, Schedulings DEF init_socket, Callback
<1>6. CASE init_filesystem
  <2>1. CASE get_instance("filesystem", "filesystem.get", "filesystem.load")
    BY <2>1, Schedulings DEF get_instance, Callback, Module
  <2>2. CASE load_or_abort("filesystem", "filesystem.load", "filesystem.interface") \/ mount
    BY <1>2, <2>2, SetsUp DEF load_or_abort, mount
  <2>3. CASE get_interface("VFileSystem009", "filesystem.interface", "filesystem.mount")
    BY <1>2, <2>3, Advances DEF get_interface, Interface, FileSystemModuleInterface
  <2>4. CASE ScheduleUnmount
    BY <2>4, Schedulings DEF ScheduleUnmount, Callback
  <2>5. QED BY <1>6, <2>1, <2>2, <2>3, <2>4 DEF init_filesystem
<1>7. CASE init_engine
  <2>1. CASE get_instance("engine", "engine.get", "engine.load")
    BY <2>1, Schedulings DEF get_instance, Callback, Module
  <2>2. CASE load_or_abort("engine", "engine.load", "engine.interface") \/ EngineInit
    BY <1>2, <2>2, SetsUp DEF load_or_abort, EngineInit
  <2>3. CASE get_interface("VENGINE_HLDS_API_VERSION002", "engine.interface", "engine.init")
    BY <1>2, <2>3, Advances DEF get_interface, Interface, EngineInterface
  <2>4. QED BY <1>7, <2>1, <2>2, <2>3 DEF init_engine
<1>8. CASE ServerLoopEnds \/ (\E how \in Ending : EngineExits(how)) \/ Abort \/ AbortElsewhere
  BY <1>8, EndsOrAborts DEF ServerLoopEnds, EngineExits, Abort, AbortElsewhere, Aborts, Ending,
     IInv, TypeOK
<1>9. QED
  BY <1>1, <1>3, <1>4, <1>5, <1>6, <1>7, <1>8, TurnsToCallbacks, CallsTop, PopsTop, Concludes DEF Next

-----------------------------------------------------------------------------
(* What exit() is to run.                                                  *)

\* What is registered is on top: the objects made earlier stay made, and are
\* below run_callbacks if that is what was registered.
LEMMA RegisterFacts ==
    ASSUME NEW entry \in LogObject \union {"run_callbacks"},
           destructors \in Seq(LogObject \union {"run_callbacks"}),
           destructors' = <<entry>> \o destructors
    PROVE  /\ destructors' \in Seq(LogObject \union {"run_callbacks"})
           /\ \A object : Made(object)' <=> Made(object) \/ object = entry
           /\ \A object : Below(object) => Below(object)'
           /\ entry = "run_callbacks" => \A object : Made(object) => Below(object)'
           /\ MadeOnce /\ (Made(entry) => entry = "run_callbacks") => MadeOnce'
<1> DEFINE Entry == LogObject \union {"run_callbacks"}
<1>1. destructors' \in Seq(Entry)
  OBVIOUS
<1>2. 1 \in DOMAIN destructors' /\ destructors'[1] = entry
  OBVIOUS
<1>3. \A i \in DOMAIN destructors : i \in Nat /\ 1 < i + 1 /\ i + 1 \in DOMAIN destructors'
                                    /\ destructors'[i + 1] = destructors[i]
  OBVIOUS
<1>4. \A i \in DOMAIN destructors' : i \in Nat /\ (i # 1 =>
        i - 1 \in DOMAIN destructors /\ destructors'[i] = destructors[i - 1])
  OBVIOUS
<1> HIDE DEF Entry
<1>5. \A object : Made(object)' <=> Made(object) \/ object = entry
  <2>1. ASSUME NEW object, Made(object)' PROVE Made(object) \/ object = entry
    BY <1>2, <1>4, <2>1 DEF Made
  <2>2. ASSUME NEW object, Made(object) PROVE Made(object)'
    BY <1>3, <2>2 DEF Made
  <2>3. Made(entry)'
    BY <1>2 DEF Made
  <2>4. QED BY <2>1, <2>2, <2>3
<1>6. ASSUME NEW object, Below(object) PROVE Below(object)'
  <2>1. PICK i, j \in DOMAIN destructors :
            i < j /\ destructors[i] = "run_callbacks" /\ destructors[j] = object
    BY <1>6 DEF Below
  <2>2. i + 1 < j + 1
    BY <1>3, <2>1
  <2>3. QED BY <1>3, <2>1, <2>2 DEF Below
<1>7. ASSUME entry = "run_callbacks", NEW object, Made(object) PROVE Below(object)'
  BY <1>2, <1>3, <1>7 DEF Below, Made
<1>8. ASSUME MadeOnce, Made(entry) => entry = "run_callbacks" PROVE MadeOnce'
  <2>1. SUFFICES ASSUME NEW i \in DOMAIN destructors', NEW j \in DOMAIN destructors',
                        i # j, destructors'[i] = destructors'[j],
                        destructors'[i] # "run_callbacks"
                 PROVE  FALSE
    BY DEF MadeOnce
  <2>2. i # 1 /\ j # 1
    BY <1>2, <1>4, <1>8, <2>1 DEF Made
  <2>3. i - 1 # j - 1
    BY <1>4, <2>1
  <2>4. QED BY <1>4, <1>8, <2>1, <2>2, <2>3 DEF MadeOnce
<1>9. QED BY <1>1, <1>5, <1>6, <1>7, <1>8 DEF Entry

\* What is destroyed is gone, and an object stays below run_callbacks until that
\* is next.
LEMMA DestroyFacts ==
    ASSUME destructors \in Seq(LogObject \union {"run_callbacks"}), destructors # <<>>,
           NEW top, top = Head(destructors), destructors' = Tail(destructors)
    PROVE  /\ destructors' \in Seq(LogObject \union {"run_callbacks"})
           /\ Made(top)
           /\ \A object : Made(object)' => Made(object)
           /\ \A object : Made(object) /\ object # top => Made(object)'
           /\ top # "run_callbacks" => \A object : Below(object) => Below(object)'
           /\ MadeOnce => MadeOnce'
           /\ MadeOnce /\ top # "run_callbacks" => ~Made(top)'
<1> DEFINE Entry == LogObject \union {"run_callbacks"}
<1>1. destructors' \in Seq(Entry)
  OBVIOUS
<1>2. 1 \in DOMAIN destructors /\ top = destructors[1]
  OBVIOUS
<1>3. \A i \in DOMAIN destructors : i \in Nat /\ i >= 1 /\ (i # 1 =>
        i - 1 \in DOMAIN destructors' /\ destructors'[i - 1] = destructors[i])
  OBVIOUS
<1>4. \A i \in DOMAIN destructors' : i \in Nat /\ i + 1 \in DOMAIN destructors /\ i + 1 # 1
                                     /\ destructors'[i] = destructors[i + 1]
  OBVIOUS
<1> HIDE DEF Entry
<1>5. Made(top)
  BY <1>2 DEF Made
<1>6. \A object : Made(object)' => Made(object)
  BY <1>4 DEF Made
<1>7. \A object : Made(object) /\ object # top => Made(object)'
  BY <1>2, <1>3 DEF Made
<1>8. ASSUME top # "run_callbacks", NEW object, Below(object) PROVE Below(object)'
  <2>1. PICK i, j \in DOMAIN destructors :
            i < j /\ destructors[i] = "run_callbacks" /\ destructors[j] = object
    BY <1>8 DEF Below
  <2>2. i # 1 /\ j # 1 /\ i - 1 < j - 1
    BY <1>2, <1>3, <1>8, <2>1
  <2>3. QED BY <1>3, <2>1, <2>2 DEF Below
<1>9. ASSUME MadeOnce PROVE MadeOnce'
  <2>1. \A i, j \in DOMAIN destructors' : i # j => i + 1 # j + 1
    BY <1>4
  <2>2. QED BY <1>4, <1>9, <2>1 DEF MadeOnce
<1>10. ASSUME MadeOnce, top # "run_callbacks" PROVE ~Made(top)'
  BY <1>2, <1>4, <1>10 DEF MadeOnce, Made
<1>11. QED BY <1>1, <1>5, <1>6, <1>7, <1>8, <1>9, <1>10 DEF Entry

\* An object is used: it is made unless it was destroyed, and the use is late if
\* it was.
LEMMA UseFacts ==
    ASSUME LogTypeOK, DestroyedOnce, NEW object \in LogObject, NEW t \in Writer, Used(object, t)
    PROVE  /\ destructors' \in Seq(LogObject \union {"run_callbacks"})
           /\ late' \subseteq Writer \X LogObject /\ destroyed' = destroyed
           /\ MadeOnce'
           /\ \A o : Made(o)' <=> Made(o) \/ (o = object /\ object \notin destroyed)
           /\ \A o : Below(o) => Below(o)'
           /\ Made(object) => destructors' = destructors
           /\ object \notin destroyed => late' = late
           /\ object \in destroyed => late' = late \union {<<t, object>>} /\ destructors' = destructors
<1>1. late' \subseteq Writer \X LogObject /\ destroyed' = destroyed
  BY DEF Used, LogTypeOK
<1>2. Made(object) <=> object \in {destructors[i] : i \in DOMAIN destructors}
  BY DEF Made
<1>3. CASE object \in destroyed \/ Made(object)
  <2>1. destructors' = destructors
    BY <1>2, <1>3 DEF Used
  <2>2. QED BY <1>1, <1>2, <1>3, <2>1 DEF Used, LogTypeOK, DestroyedOnce, MadeOnce, Made, Below
<1>4. CASE object \notin destroyed /\ ~Made(object)
  <2>1. destructors' = <<object>> \o destructors
    BY <1>2, <1>4 DEF Used
  <2>2. object # "run_callbacks"
    BY DEF LogObject
  <2>3. QED BY <1>1, <1>4, <2>1, <2>2, RegisterFacts DEF Used, LogTypeOK, DestroyedOnce
<1>5. QED BY <1>3, <1>4

-----------------------------------------------------------------------------
(* The invariant of the log is inductive, given that of Lifecycle.         *)

\* Nothing of main() comes after the callbacks have begun.
LEMMA EndsAreLate ==
    /\ Starting \subseteq Points /\ Finishing \intersect Starting = {}
    /\ Finishing \union {"ending"} = {"ending", "run", "pop", "statics", "ended"}
BY DEF Starting, Finishing, Points, BeforeEngine, BeforeUnmount, BeforeMount, BeforeFileSystem,
       BeforeSocket, BeforeDump, EngineStarts, EngineRuns

\* What a step of Lifecycle tells the log.
LEMMA StepFacts ==
    ASSUME IInv, Next
    PROVE  /\ refused \subseteq refused'
           /\ engineUp /\ ~engineUp' => pc = "loop"
           /\ pc' = "sleep" => engineUp'
           /\ pc \in Finishing \union {"ending"} => pc' \in Finishing \union {"ending", "aborted"}
           /\ pc \notin {"ended", "aborted"}
           /\ pc = "view" => pc' \in {"logger", "aborted"}
           /\ pc = "logger" => UNCHANGED <<callbacks, hooks, refused>> /\ ~engineUp /\ pc' = "processor"
           /\ pc' = "logger" => pc = "view" /\ callbacks' = callbacks
           /\ callbacks = Null /\ callbacks' # Null =>
                /\ hooks' = Ending
                /\ pc \notin Finishing \union {"ending", "view", "logger", "aborted"}
<1> USE DEF Goes, build, things, wrappers, exits
<1>1. ASSUME NEW callback, at_exit(callback)
      PROVE  refused \subseteq refused' /\ (callbacks = Null /\ callbacks' # Null => hooks' = Ending)
  BY <1>1 DEF at_exit, Registers, FirstRegisters, IsRefused
<1>2. Finishing \union {"ending"} = {"ending", "run", "pop", "statics", "ended"}
  BY EndsAreLate
<1>3. CASE ConsoleView \/ init_logger \/ process \/ init_locale
  <2>1. pc = "logger" => ~engineUp
    BY DEF IInv, UpIsComplete, BeforeEngine, BeforeUnmount, BeforeMount, BeforeFileSystem,
           BeforeSocket, BeforeDump
  <2>2. QED BY <1>2, <1>3, <2>1 DEF ConsoleView, init_logger, process, init_locale
<1>4. CASE CrashDumper \/ init_socket
  BY <1>1, <1>2, <1>4 DEF CrashDumper, init_socket
<1>5. CASE init_filesystem \/ init_engine
  BY <1>1, <1>2, <1>5 DEF init_filesystem, init_engine, get_instance, load_or_abort, get_interface,
     mount, ScheduleUnmount, EngineInit
<1>6. CASE ServerInterfaces \/ ServerLoopStarts
  BY <1>2, <1>6 DEF ServerInterfaces, ServerLoopStarts, get_interface, IInv, UpIsComplete, EngineRuns
<1>7. CASE ServerLoopEnds \/ \E how \in Ending : EngineExits(how)
  BY <1>2, <1>7 DEF ServerLoopEnds, EngineExits, Ends, IInv, UpIsComplete, EngineStarts
<1>8. CASE Abort \/ AbortElsewhere
  BY <1>2, <1>8 DEF Abort, AbortElsewhere, MayAbort, Aborts
<1>9. CASE run_callbacks \/ PopTop \/ ResetStack \/ EndStatics
  BY <1>2, <1>9 DEF run_callbacks, PopTop, ResetStack, EndStatics, AfterCallbacks, IInv, StackFollowsPc
<1>10. CASE CallTop
  BY <1>2, <1>10 DEF CallTop, Called, Destroyed
<1>11. CASE \E module \in Module : DestroyStatic(module)
  BY <1>2, <1>11 DEF DestroyStatic, Destroyed
<1>12. QED
  BY <1>3, <1>4, <1>5, <1>6, <1>7, <1>8, <1>9, <1>10, <1>11 DEF Next

\* A new process has logged nothing.
LEMMA InitLogInv == ProcessInit => LogInv
<1> SUFFICES ASSUME ProcessInit PROVE LogInv
  OBVIOUS
<1>1. <<>> \in Seq(LogObject \union {"run_callbacks"})
  OBVIOUS
<1>2. LogTypeOK
  BY <1>1 DEF ProcessInit, LogInit, LogTypeOK
<1>3. DestroyedOnce
  BY DEF ProcessInit, LogInit, DestroyedOnce, MadeOnce
<1>4. MadeBelowStack
  BY DEF ProcessInit, Init, LogInit, MadeBelowStack
<1>5. WritersFollowPc /\ ReasonGetsOut
  BY DEF ProcessInit, Init, LogInit, WritersFollowPc, ReasonGetsOut, Writer
<1>6. LateMessages
  BY DEF ProcessInit, Init, LogInit, LateMessages
<1>7. QED BY <1>2, <1>3, <1>4, <1>5, <1>6 DEF LogInv

\* Lifecycle moves, and its main thread is not writing.
LEMMA MovesKeepLog == IInv /\ LogInv /\ LifecycleStep => LogInv'
<1> SUFFICES ASSUME IInv, LogInv, LifecycleStep PROVE LogInv'
  OBVIOUS
<1>1. Next /\ MainMoves /\ Console
  BY DEF LifecycleStep
<1>2. writing' = writing /\ critical' = critical /\ LogTypeOK /\ DestroyedOnce
  BY DEF LifecycleStep, log_init, messageVars, LogInv
<1>3. /\ destructors' \in Seq(LogObject \union {"run_callbacks"})
      /\ destroyed' = destroyed /\ late' = late /\ tableLate' = tableLate
      /\ MadeOnce'
      /\ \A object \in LogObject : Made(object) => Made(object)'
      /\ \A object : Below(object) => Below(object)'
      /\ Made("prefixes")' => Made("prefixes")
      /\ pc = "logger" => Made("registry")'
      /\ \A object \in destroyed : ~Made(object)'
      /\ callbacks = Null /\ callbacks' # Null => \A object : Made(object) => Below(object)'
  <2>1. CASE pc = "logger"
    <3>1. UNCHANGED callbacks /\ destroyed = {}
      BY <1>1, <1>2, <2>1, StepFacts, EndsAreLate DEF DestroyedOnce
    <3>2. Used("registry", "main") /\ tableLate' = tableLate
      BY <2>1 DEF LifecycleStep, log_init
    <3>3. QED BY <1>2, <2>1, <3>1, <3>2, UseFacts DEF LogObject, Writer
  <2> DEFINE Asked == callbacks = Null /\ "exit" \in hooks' /\ (hooks' # hooks \/ callbacks' # Null)
  <2>2. CASE pc # "logger" /\ ~Asked /\ UNCHANGED exitVars
    <3>1. ~(callbacks = Null /\ callbacks' # Null)
      BY <1>1, <2>2, StepFacts DEF Ending
    <3>2. \A object : (Made(object)' <=> Made(object)) /\ (Below(object)' <=> Below(object))
      BY <2>2 DEF exitVars, Made, Below
    <3>3. MadeOnce'
      BY <1>2, <2>2 DEF exitVars, DestroyedOnce, MadeOnce
    <3>4. QED BY <1>2, <2>2, <3>1, <3>2, <3>3 DEF exitVars, DestroyedOnce, LogTypeOK
  <2>3. CASE pc # "logger" /\ Registered /\ UNCHANGED <<destroyed, late, tableLate>>
    <3>1. destructors' = <<"run_callbacks">> \o destructors
      BY <2>3 DEF Registered
    <3>2. "run_callbacks" \notin LogObject /\ destroyed \subseteq LogObject
      BY <1>2 DEF LogObject, LogTypeOK
    <3>3. QED BY <1>2, <2>3, <3>1, <3>2, RegisterFacts DEF DestroyedOnce, LogTypeOK, LogObject
  <2>4. QED BY <2>1, <2>2, <2>3 DEF LifecycleStep, Schedules
<1>4. LogTypeOK'
  BY <1>2, <1>3 DEF LifecycleStep, log_init, Outputs, messageVars, LogTypeOK
<1>5. DestroyedOnce'
  BY <1>1, <1>2, <1>3, StepFacts DEF DestroyedOnce
<1>6. MadeBelowStack'
  <2>1. /\ pc \notin {"view", "logger", "aborted"} => Made("registry") \/ "registry" \in destroyed
        /\ callbacks # Null => Below("registry")
        /\ callbacks # Null /\ ~tableLate /\ (Made("prefixes") \/ "prefixes" \in destroyed)
            => Below("prefixes")
    BY DEF LogInv, MadeBelowStack
  <2>2. pc' \notin {"view", "logger", "aborted"} => Made("registry")' \/ "registry" \in destroyed'
    BY <1>1, <1>3, <2>1, StepFacts DEF LogObject
  <2>3. ASSUME callbacks' # Null
        PROVE  /\ Below("registry")'
               /\ ~tableLate' /\ (Made("prefixes")' \/ "prefixes" \in destroyed') => Below("prefixes")'
    <3>1. CASE callbacks # Null
      BY <1>3, <2>1, <3>1
    <3>2. CASE callbacks = Null
      <4>1. destroyed = {} /\ Made("registry")
        BY <1>1, <1>2, <2>1, <2>3, <3>2, StepFacts DEF DestroyedOnce
      <4>2. QED BY <1>3, <2>3, <3>2, <4>1
    <3>3. QED BY <3>1, <3>2
  <2>4. QED BY <2>2, <2>3 DEF MadeBelowStack
<1>7. WritersFollowPc'
  <2>1. WritersFollowPc
    BY DEF LogInv
  <2>2. /\ console' \in {"starting", "running"} => engineUp'
        /\ writing["console"] # "no" => console' \in {"starting", "running"}
        /\ "console" \in critical => console' = "starting"
    BY <1>1, <2>1, StepFacts DEF Console, WritersFollowPc
  <2>3. /\ writing["main"] = "no" /\ ("main" \in critical <=> pc' = "aborted")
        /\ pc' = "aborted" => aborter' = "main"
    BY <1>1 DEF MainMoves
  <2>4. QED BY <1>2, <2>2, <2>3 DEF WritersFollowPc
<1>8. ReasonGetsOut'
  <2>1. CASE pc = "logger"
    <3>1. pc' = "processor"
      BY <1>1, <2>1, StepFacts
    <3>2. critical = {}
      <4>1. "main" \notin critical
        BY <1>1, <3>1 DEF MainMoves
      <4>2. "console" \notin critical
        BY <1>1, <2>1, StepFacts DEF LogInv, WritersFollowPc
      <4>3. QED BY <1>2, <4>1, <4>2 DEF LogTypeOK, Writer
    <3>3. "view" \in sinks'
      BY <2>1 DEF LifecycleStep, log_init, Outputs
    <3>4. QED BY <1>2, <3>2, <3>3 DEF ReasonGetsOut
  <2>2. CASE pc # "logger"
    BY <2>2 DEF LifecycleStep, messageVars, LogInv, ReasonGetsOut
  <2>3. QED BY <2>1, <2>2
<1>9. LateMessages'
  <2>1. CASE pc = "loop"
    <3>1. late = {}
      BY <1>2, <2>1, EndsAreLate DEF DestroyedOnce
    <3>2. QED BY <1>3, <3>1 DEF LateMessages
  <2>2. CASE pc # "loop"
    BY <1>1, <1>3, <2>2, StepFacts DEF LateMessages, LogInv
  <2>3. QED BY <2>1, <2>2
<1>10. QED BY <1>4, <1>5, <1>6, <1>7, <1>8, <1>9 DEF LogInv

\* Who may use an object of the log, and what it does to what exit() is to run.
LEMMA UseKeepsExits ==
    ASSUME LogInv, NEW object \in LogObject, NEW t \in Writer, Used(object, t),
           UNCHANGED <<pc, callbacks, refused, engineUp>>,
           tableLate' \in BOOLEAN, tableLate => tableLate',
           object = "prefixes" /\ destructors' # destructors /\ Made("run_callbacks") => tableLate',
           t = "console" => engineUp,
           t = "main" /\ object \in destroyed => refused # {} \/ (pc = "run" /\ callbacks # Null)
    PROVE  /\ destructors' \in Seq(LogObject \union {"run_callbacks"})
           /\ destroyed' \subseteq LogObject /\ late' \subseteq Writer \X LogObject
           /\ DestroyedOnce' /\ MadeBelowStack' /\ LateMessages'
<1>1. LogTypeOK /\ DestroyedOnce /\ MadeBelowStack /\ LateMessages
  BY DEF LogInv
<1>2. /\ destructors' \in Seq(LogObject \union {"run_callbacks"})
      /\ late' \subseteq Writer \X LogObject /\ destroyed' = destroyed
      /\ MadeOnce'
      /\ \A o : Made(o)' <=> Made(o) \/ (o = object /\ object \notin destroyed)
      /\ \A o : Below(o) => Below(o)'
      /\ Made(object) => destructors' = destructors
      /\ object \notin destroyed => late' = late
      /\ object \in destroyed => late' = late \union {<<t, object>>} /\ destructors' = destructors
  BY <1>1, UseFacts
<1>3. Below("registry") => Made("registry") /\ Made("run_callbacks")
  BY DEF Below, Made
<1>4. Below("prefixes") => Made("prefixes")
  BY DEF Below, Made
<1>5. destroyed \subseteq LogObject /\ \A o \in destroyed : ~Made(o)
  BY <1>1 DEF LogTypeOK, DestroyedOnce
<1>6. DestroyedOnce'
  <2>1. \A use \in late' : use[2] \in destroyed
    BY <1>1, <1>2 DEF DestroyedOnce
  <2>2. QED BY <1>1, <1>2, <1>5, <2>1 DEF DestroyedOnce
<1>7. MadeBelowStack'
  <2>1. pc' \notin {"view", "logger", "aborted"} => Made("registry")' \/ "registry" \in destroyed'
    BY <1>1, <1>2 DEF MadeBelowStack
  <2>2. callbacks' # Null => Below("registry")'
    BY <1>1, <1>2 DEF MadeBelowStack
  <2>3. ASSUME callbacks' # Null, ~tableLate', Made("prefixes")' \/ "prefixes" \in destroyed'
        PROVE  Below("prefixes")'
    <3>1. callbacks # Null /\ ~tableLate /\ Made("run_callbacks")
      BY <1>1, <1>3, <2>3 DEF MadeBelowStack
    <3>2. Made("prefixes") \/ "prefixes" \in destroyed
      <4>1. CASE object = "prefixes"
        <5>1. destructors' = destructors
          BY <2>3, <3>1, <4>1
        <5>2. QED BY <1>2, <2>3, <5>1 DEF Made
      <4>2. CASE object # "prefixes"
        BY <1>2, <2>3, <4>2
      <4>3. QED BY <4>1, <4>2
    <3>3. QED BY <1>1, <1>2, <3>1, <3>2 DEF MadeBelowStack
  <2>4. QED BY <2>1, <2>2, <2>3 DEF MadeBelowStack
<1>8. LateMessages'
  <2>1. CASE object \notin destroyed
    BY <1>1, <1>2, <2>1 DEF LateMessages
  <2>2. CASE object \in destroyed /\ t = "console"
    BY <1>1, <1>2, <2>2 DEF LateMessages
  <2>3. CASE object \in destroyed /\ t = "main" /\ refused # {}
    BY <1>1, <1>2, <2>3 DEF LateMessages
  <2>4. CASE object \in destroyed /\ t = "main" /\ pc = "run" /\ callbacks # Null
    <3>1. object = "prefixes" /\ tableLate
      BY <1>1, <1>3, <1>4, <1>5, <2>4 DEF MadeBelowStack, LogObject
    <3>2. QED BY <1>1, <1>2, <2>4, <3>1 DEF LateMessages
  <2>5. QED BY <2>1, <2>2, <2>3, <2>4 DEF Writer
<1>9. QED BY <1>2, <1>5, <1>6, <1>7, <1>8

\* A message begins: main's own after the callbacks only through a module
\* at_exit has refused.
LEMMA BeginsKeepLog ==
    IInv /\ LogInv /\ (print \/ Complain \/ ConsoleLogs \/ ConsoleComplains) => LogInv'
<1> SUFFICES ASSUME IInv, LogInv, print \/ Complain \/ ConsoleLogs \/ ConsoleComplains PROVE LogInv'
  OBVIOUS
<1>1. LogTypeOK /\ DestroyedOnce /\ WritersFollowPc /\ ReasonGetsOut
  BY DEF LogInv
<1>2. /\ pc' = pc /\ callbacks' = callbacks /\ refused' = refused
      /\ engineUp' = engineUp /\ console' = console /\ aborter' = aborter
  BY DEF print, Complain, ConsoleLogs, ConsoleComplains, vars, exits, things
<1>3. PICK t \in Writer, isReason \in BOOLEAN, text \in BOOLEAN :
        /\ log(t, isReason, text)
        /\ t = "main" => print \/ MayAbort
        /\ t = "console" =>
            /\ console \in {"starting", "running"} /\ pc \notin {"ended", "aborted"}
            /\ isReason => console = "starting"
  <2>1. CASE print
    BY <2>1 DEF print, Writer
  <2>2. CASE Complain
    BY <2>2 DEF Complain, Writer
  <2>3. CASE ConsoleLogs
    BY <2>3 DEF ConsoleLogs, Over, Writer
  <2>4. CASE ConsoleComplains
    BY <2>4 DEF ConsoleComplains, Over, Writer
  <2>5. QED BY <2>1, <2>2, <2>3, <2>4
<1>4. /\ writing[t] = "no" /\ writing' = [writing EXCEPT ![t] = "view"]
      /\ Used("registry", t) /\ tableLate' = tableLate /\ sinks' = sinks /\ written' = written
      /\ critical' = critical \/ (isReason /\ critical' = critical \union {t})
      /\ braces \subseteq braces' /\ braces' \subseteq Writer
  BY <1>1, <1>3 DEF log, LogTypeOK
<1>5. ASSUME t = "main"
      PROVE  /\ pc \notin {"ending", "pop", "ended", "aborted"}
             /\ pc = "statics" => refused # {}
             /\ pc = "run" => callbacks # Null
  <2>1. CASE MayAbort
    BY <2>1 DEF MayAbort
  <2>2. CASE print
    <3>1. pc = "statics" => refused # {}
      BY <2>2 DEF print, IInv, TypeOK, StackFollowsPc, TakenDownInOrder, Finishing, Callback,
                  Stands, Waiting, OnStack
    <3>2. QED BY <2>2, <3>1 DEF print, IInv, StackFollowsPc
  <2>3. QED BY <1>3, <1>5, <2>1, <2>2
<1>6. t = "main" /\ "registry" \in destroyed => refused # {} \/ (pc = "run" /\ callbacks # Null)
  <2>1. t = "main" /\ "registry" \in destroyed => pc \in {"run", "statics"}
    <3>1. t = "main" => print \/ MayAbort
      BY <1>3
    <3>2. destroyed # {} => pc \in {"ending", "run", "pop", "statics", "ended", "aborted"}
      BY <1>1, EndsAreLate DEF DestroyedOnce
    <3>3. QED BY <1>5, <3>2
  <2>2. QED BY <1>5, <2>1
<1>7. /\ destructors' \in Seq(LogObject \union {"run_callbacks"})
      /\ destroyed' \subseteq LogObject /\ late' \subseteq Writer \X LogObject
      /\ DestroyedOnce' /\ MadeBelowStack' /\ LateMessages'
  <2>1. t = "console" => engineUp
    BY <1>1, <1>3 DEF WritersFollowPc
  <2>2. QED BY <1>1, <1>2, <1>4, <1>6, <2>1, UseKeepsExits DEF LogObject, LogTypeOK
<1>8. /\ writing' \in [Writer -> {"no", "view", "file", "flush"}]
      /\ writing'[t] = "view" /\ \A u \in Writer : u # t => writing'[u] = writing[u]
  BY <1>1, <1>4 DEF LogTypeOK
<1>9. LogTypeOK'
  BY <1>1, <1>3, <1>4, <1>7, <1>8 DEF LogTypeOK
<1>10. WritersFollowPc'
  <2>1. pc # "aborted"
    BY <1>3, <1>5 DEF Writer
  <2>2. CASE t = "main"
    BY <1>1, <1>2, <1>4, <1>5, <1>8, <2>1, <2>2 DEF WritersFollowPc, Writer
  <2>3. CASE t = "console"
    BY <1>1, <1>2, <1>3, <1>4, <1>8, <2>1, <2>3 DEF WritersFollowPc, Writer
  <2>4. QED BY <2>2, <2>3 DEF Writer
<1>11. ReasonGetsOut'
  <2>1. SUFFICES ASSUME NEW u \in critical'
                 PROVE  /\ writing'[u] # "view" =>
                            <<u, "shown">> \in written \/ (u \in braces' /\ "view" \in sinks)
                        /\ writing'[u] = "flush" /\ "file" \in sinks => <<u, "buffered">> \in written
                        /\ writing'[u] = "no" /\ "file" \in sinks => <<u, "filed">> \in written
    BY <1>1, <1>4 DEF ReasonGetsOut
  <2>2. CASE u = t
    BY <1>8, <2>2
  <2>3. CASE u # t
    <3>1. u \in critical /\ writing'[u] = writing[u]
      BY <1>1, <1>4, <1>8, <2>3 DEF LogTypeOK
    <3>2. QED BY <1>1, <1>4, <3>1 DEF ReasonGetsOut
  <2>4. QED BY <2>2, <2>3
<1>12. QED BY <1>7, <1>9, <1>10, <1>11 DEF LogInv

\* A message gets on.
LEMMA WritesKeepLog == IInv /\ LogInv /\ LogStep => LogInv'
<1> SUFFICES ASSUME IInv, LogInv, LogStep PROVE LogInv'
  OBVIOUS
<1>1. LogTypeOK /\ DestroyedOnce /\ MadeBelowStack /\ WritersFollowPc /\ ReasonGetsOut /\ LateMessages
  BY DEF LogInv
<1>2. /\ pc' = pc /\ callbacks' = callbacks /\ refused' = refused
      /\ engineUp' = engineUp /\ console' = console /\ aborter' = aborter
  BY DEF LogStep, vars, exits, things
<1>3. PICK t \in Writer : Writes(t)
  BY DEF LogStep
<1>4. pc \notin {"ended", "aborted"} /\ writing[t] # "no"
  BY <1>3 DEF LogStep, Over, Writes, sink_it_, WriteFile, Flush
<1>5. sinks' = sinks /\ critical' = critical /\ braces' = braces
  BY <1>3 DEF Writes, sink_it_, WriteFile, Flush
<1>6. \E place \in {"no", "file", "flush"} : writing' = [writing EXCEPT ![t] = place]
  BY <1>3 DEF Writes, sink_it_, WriteFile, Flush
<1>7. /\ writing' \in [Writer -> {"no", "view", "file", "flush"}]
      /\ \A u \in Writer : u # t => writing'[u] = writing[u]
  BY <1>1, <1>6 DEF LogTypeOK
<1>8. /\ destructors' \in Seq(LogObject \union {"run_callbacks"})
      /\ destroyed' \subseteq LogObject /\ late' \subseteq Writer \X LogObject
      /\ DestroyedOnce' /\ MadeBelowStack' /\ LateMessages' /\ tableLate' \in BOOLEAN
  <2>1. CASE Flush(t) \/ UNCHANGED exitVars
    <3>1. UNCHANGED exitVars
      BY <2>1 DEF Flush
    <3>2. /\ \A object : (Made(object)' <=> Made(object)) /\ (Below(object)' <=> Below(object))
          /\ MadeOnce' <=> MadeOnce
      BY <3>1 DEF exitVars, Made, Below, MadeOnce
    <3>3. QED BY <1>1, <1>2, <3>1, <3>2 DEF exitVars, LogTypeOK, DestroyedOnce, MadeBelowStack,
                 LateMessages
  <2>2. CASE /\ Used("prefixes", t)
             /\ tableLate' = (tableLate \/ (destructors' # destructors
                    /\ \E i \in DOMAIN destructors : destructors[i] = "run_callbacks"))
    <3>1. /\ tableLate' \in BOOLEAN /\ (tableLate => tableLate')
          /\ destructors' # destructors /\ Made("run_callbacks") => tableLate'
      BY <1>1, <2>2 DEF Made, LogTypeOK
    <3>2. t = "console" => engineUp
      BY <1>1, <1>4 DEF WritersFollowPc
    <3>3. t = "main" /\ "prefixes" \in destroyed => refused # {} \/ (pc = "run" /\ callbacks # Null)
      <4>1. t = "main" /\ destroyed # {} => pc \in {"run", "statics"}
        BY <1>1, <1>4, EndsAreLate DEF DestroyedOnce, WritersFollowPc
      <4>2. pc = "run" => callbacks # Null
        BY DEF IInv, StackFollowsPc
      <4>3. QED BY <1>1, <1>4, <4>1, <4>2 DEF WritersFollowPc
    <3>4. QED BY <1>2, <2>2, <3>1, <3>2, <3>3, UseKeepsExits DEF LogObject
  <2>3. QED BY <1>3, <2>1, <2>2 DEF Writes, sink_it_, WriteFile, Formats
<1>9. LogTypeOK'
  <2>1. written' \subseteq Writer \X {"shown", "buffered", "filed"}
    <3>1. ASSUME NEW place \in {"shown", "buffered"}, Arrives(t, place)
          PROVE  written' \subseteq Writer \X {"shown", "buffered", "filed"}
      BY <1>1, <3>1 DEF LogTypeOK, Arrives
    <3>2. CASE sink_it_(t)
      BY <1>1, <3>1, <3>2 DEF LogTypeOK, sink_it_
    <3>3. CASE WriteFile(t)
      BY <3>1, <3>3 DEF WriteFile
    <3>4. CASE Flush(t)
      BY <1>1, <3>4 DEF LogTypeOK, Flush
    <3>5. QED BY <1>3, <3>2, <3>3, <3>4 DEF Writes
  <2>2. QED BY <1>1, <1>5, <1>7, <1>8, <2>1 DEF LogTypeOK
<1>10. WritersFollowPc'
  <2>1. \A u \in Writer : writing'[u] # "no" => writing[u] # "no"
    BY <1>4, <1>7
  <2>2. QED BY <1>1, <1>2, <1>4, <1>5, <2>1 DEF WritersFollowPc, Writer
<1>11. ReasonGetsOut'
  <2>1. written \subseteq written'
    BY <1>3 DEF Writes, sink_it_, WriteFile, Flush, Arrives
  <2>2. SUFFICES ASSUME NEW u \in critical
                 PROVE  /\ writing'[u] # "view" =>
                            <<u, "shown">> \in written' \/ (u \in braces /\ "view" \in sinks)
                        /\ writing'[u] = "flush" /\ "file" \in sinks => <<u, "buffered">> \in written'
                        /\ writing'[u] = "no" /\ "file" \in sinks => <<u, "filed">> \in written'
    BY <1>1, <1>5 DEF ReasonGetsOut
  <2>3. u \in Writer
    BY <1>1 DEF LogTypeOK
  <2>4. CASE u # t
    <3>1. writing'[u] = writing[u]
      BY <1>7, <2>3, <2>4
    <3>2. QED BY <1>1, <2>1, <3>1 DEF ReasonGetsOut
  <2>5. CASE u = t /\ sink_it_(t)
    <3>1. writing'[u] = IF "file" \in sinks THEN "file" ELSE "flush"
      BY <1>1, <2>5 DEF sink_it_, LogTypeOK
    <3>2. "default" \in sinks \/ u \notin braces => <<u, "shown">> \in written'
      BY <2>5 DEF sink_it_, Arrives
    <3>3. QED BY <1>1, <3>1, <3>2 DEF ReasonGetsOut, LogTypeOK
  <2>6. CASE u = t /\ WriteFile(t)
    <3>1. writing[u] = "file" /\ writing'[u] = "flush"
      BY <1>1, <2>6 DEF WriteFile, LogTypeOK
    <3>2. <<u, "buffered">> \in written'
      BY <2>6 DEF WriteFile, Arrives
    <3>3. QED BY <1>1, <2>1, <3>1, <3>2 DEF ReasonGetsOut
  <2>7. CASE u = t /\ Flush(t)
    <3>1. writing[u] = "flush" /\ writing'[u] = "no"
      BY <1>1, <2>7 DEF Flush, LogTypeOK
    <3>2. <<u, "buffered">> \in written => <<u, "filed">> \in written'
      BY <2>3, <2>7 DEF Flush
    <3>3. QED BY <1>1, <2>1, <3>1, <3>2 DEF ReasonGetsOut
  <2>8. QED BY <1>3, <2>4, <2>5, <2>6, <2>7 DEF Writes
<1>12. QED BY <1>8, <1>9, <1>10, <1>11 DEF LogInv

-----------------------------------------------------------------------------
(* What follows for the process.                                           *)

\* A step of the process is one of Lifecycle or leaves it alone.
LEMMA ProcessStutters == [ProcessNext]_allVars => [Next]_vars
BY DEF ProcessNext, allVars, LifecycleStep, print, Complain, LogStep, ExitDestroys, ConsoleReads,
       ConsoleLogs, ConsoleComplains, ConsoleAborts, AlarmAborts, Next

\* The invariant of Lifecycle holds in the composed process.
LEMMA ProcessIInv == ProcessSpec => []IInv
<1>1. ProcessInit => IInv
  BY InitIInv DEF ProcessInit
<1>2. QED BY <1>1, IInvStep, ProcessStutters, PTL DEF ProcessSpec

\* However the process ends, and whatever fails or is refused but the engine's own
\* registration, what the engine was handed outlives it.
THEOREM EngineIsAlwaysOutlived == ProcessSpec => []EngineIsOutlived
<1>1. IInv /\ engineUp /\ "engine" \in instance /\ "engine" \notin refused => Complete
  BY UpHasEverything
<1>2. IInv => EngineIsOutlived
  BY <1>1 DEF EngineIsOutlived, Complete
<1>3. QED BY <1>2, ProcessIInv, PTL

\* A callback is never run without what it takes down.
THEOREM CallbacksAlwaysFind == ProcessSpec => []CallbacksFindTheirThings
<1>1. ASSUME IInv, pc = "run", callbacks # <<>>, NEW top, top = Head(callbacks)
      PROVE  /\ top = "unmount" => "filesystem" \in loaded /\ mounted
             /\ top \in Module => top \in instance
  <2>1. callbacks \in Seq(Callback) /\ callbacks # Null
    BY <1>1 DEF IInv, TypeOK, StackFollowsPc
  <2>2. top \in Callback /\ Waiting(top)
    BY <1>1, <2>1, TailFacts DEF OnStack, Waiting
  <2>3. QED BY <1>1, <2>2 DEF IInv, TakenDownInOrder, Finishing, Stands, Callback, Module
<1>2. IInv => CallbacksFindTheirThings
  BY <1>1 DEF CallbacksFindTheirThings
<1>3. QED BY <1>2, ProcessIInv, PTL

\* A process that exits leaves standing only what at_exit refused.
THEOREM NothingIsLeftBehind == ProcessSpec => []NothingLeftBehind
<1>1. ASSUME IInv, pc = "ended" PROVE \A c \in Callback : Stands(c) => c \in refused
  BY <1>1 DEF IInv, StackFollowsPc, TakenDownInOrder, Finishing, Waiting, OnStack
<1>2. ASSUME IInv, pc = "ended" PROVE ending \in Ending /\ instance \subseteq Module
  BY <1>2 DEF IInv, TypeOK, TakenDownInOrder, Finishing
<1>3. IInv => NothingLeftBehind
  BY <1>1, <1>2 DEF NothingLeftBehind, Stands, Callback, Module, Ending, IInv, StackFollowsPc
<1>4. QED BY <1>3, ProcessIInv, PTL

\* exit() destroys the object made last.
LEMMA ExitKeepsLog == IInv /\ LogInv /\ ExitDestroys => LogInv'
<1> SUFFICES ASSUME IInv, LogInv, ExitDestroys PROVE LogInv'
  OBVIOUS
<1>1. LogTypeOK /\ DestroyedOnce /\ MadeBelowStack /\ WritersFollowPc /\ ReasonGetsOut /\ LateMessages
  BY DEF LogInv
<1>2. /\ pc' = pc /\ callbacks' = callbacks /\ refused' = refused
      /\ engineUp' = engineUp /\ console' = console /\ aborter' = aborter
      /\ sinks' = sinks /\ writing' = writing /\ critical' = critical /\ braces' = braces
      /\ written' = written /\ late' = late /\ tableLate' = tableLate
  BY DEF ExitDestroys, DestroyLatest, vars, exits, things, messageVars
<1>3. PICK top : top = Head(destructors)
  OBVIOUS
<1>4. /\ destructors # <<>> /\ destructors' = Tail(destructors)
      /\ destroyed' = destroyed \union (LogObject \intersect {top})
      /\ pc = "statics" \/ (pc = "ending" /\ top # "run_callbacks")
  BY <1>3 DEF ExitDestroys, DestroyLatest, Due
<1>5. /\ destructors' \in Seq(LogObject \union {"run_callbacks"})
      /\ Made(top) /\ MadeOnce'
      /\ \A object : Made(object)' => Made(object)
      /\ \A object : Made(object) /\ object # top => Made(object)'
      /\ top # "run_callbacks" => \A object : Below(object) => Below(object)'
      /\ top # "run_callbacks" => ~Made(top)'
  BY <1>1, <1>3, <1>4, DestroyFacts DEF LogTypeOK, DestroyedOnce
<1>6. top \in LogObject <=> top # "run_callbacks"
  <2>1. top \in LogObject \union {"run_callbacks"}
    BY <1>1, <1>3, <1>4 DEF LogTypeOK
  <2>2. QED BY <2>1 DEF LogObject
<1>7. LogTypeOK'
  BY <1>1, <1>2, <1>4, <1>5 DEF LogTypeOK
<1>8. DestroyedOnce'
  <2>1. \A object \in destroyed' : ~Made(object)'
    BY <1>1, <1>4, <1>5, <1>6 DEF DestroyedOnce
  <2>2. destroyed' # {} => pc' \in Finishing \union {"ending"}
    BY <1>2, <1>4, EndsAreLate
  <2>3. \A use \in late' : use[2] \in destroyed'
    BY <1>1, <1>2, <1>4 DEF DestroyedOnce
  <2>4. QED BY <1>5, <2>1, <2>2, <2>3 DEF DestroyedOnce
<1>9. MadeBelowStack'
  <2>1. pc = "statics" => callbacks = Null
    BY DEF IInv, StackFollowsPc
  <2>2. Made("registry") \/ "registry" \in destroyed
    BY <1>1, <1>4 DEF MadeBelowStack
  <2>3. Made("registry")' \/ "registry" \in destroyed'
    BY <1>4, <1>5, <2>2 DEF LogObject
  <2>4. "prefixes" \in destroyed' => Made("prefixes") \/ "prefixes" \in destroyed
    BY <1>4, <1>5
  <2>5. ASSUME callbacks' # Null
        PROVE  /\ Below("registry")'
               /\ ~tableLate' /\ (Made("prefixes")' \/ "prefixes" \in destroyed') => Below("prefixes")'
    BY <1>1, <1>2, <1>4, <1>5, <2>1, <2>4, <2>5 DEF MadeBelowStack
  <2>6. QED BY <2>3, <2>5 DEF MadeBelowStack
<1>10. WritersFollowPc' /\ ReasonGetsOut' /\ LateMessages'
  BY <1>1, <1>2 DEF WritersFollowPc, ReasonGetsOut, LateMessages
<1>11. QED BY <1>7, <1>8, <1>9, <1>10 DEF LogInv

\* The console's thread begins to read, or the process aborts without its main
\* thread: nothing of the log changes.
LEMMA OthersKeepLog == LogInv /\ (ConsoleReads \/ ConsoleAborts \/ AlarmAborts) => LogInv'
<1> SUFFICES ASSUME LogInv, ConsoleReads \/ ConsoleAborts \/ AlarmAborts PROVE LogInv'
  OBVIOUS
<1>1. LogTypeOK /\ DestroyedOnce /\ MadeBelowStack /\ WritersFollowPc /\ ReasonGetsOut /\ LateMessages
  BY DEF LogInv
<1>2. /\ callbacks' = callbacks /\ refused' = refused /\ engineUp' = engineUp
      /\ sinks' = sinks /\ writing' = writing /\ critical' = critical /\ braces' = braces
      /\ written' = written /\ late' = late /\ tableLate' = tableLate
      /\ destructors' = destructors /\ destroyed' = destroyed
  BY DEF ConsoleReads, ConsoleAborts, AlarmAborts, AbortElsewhere, Aborts, vars, logVars, exits,
         things, messageVars, exitVars
<1>3. \/ /\ pc' = pc /\ pc # "aborted" /\ aborter' = aborter
         /\ console = "starting" /\ console' = "running" /\ "console" \notin critical
      \/ /\ pc' = "aborted" /\ console' = console
         /\ aborter' = "handler" \/ (aborter' \in critical /\ writing[aborter'] = "no")
  BY DEF ConsoleReads, ConsoleAborts, AlarmAborts, AbortElsewhere, Aborts, Goes, Over, vars
<1>4. /\ \A object : (Made(object)' <=> Made(object)) /\ (Below(object)' <=> Below(object))
      /\ MadeOnce' <=> MadeOnce
  BY <1>2 DEF Made, Below, MadeOnce
<1>5. LogTypeOK' /\ ReasonGetsOut' /\ LateMessages'
  BY <1>1, <1>2 DEF LogTypeOK, ReasonGetsOut, LateMessages
<1>6. DestroyedOnce' /\ MadeBelowStack'
  BY <1>1, <1>2, <1>3, <1>4 DEF DestroyedOnce, MadeBelowStack
<1>7. WritersFollowPc'
  BY <1>1, <1>2, <1>3 DEF WritersFollowPc
<1>8. QED BY <1>5, <1>6, <1>7 DEF LogInv

\* Every step of the process keeps the invariant of the log.
LEMMA LogInvStep == IInv /\ LogInv /\ [ProcessNext]_allVars => LogInv'
<1>1. ASSUME LogInv, UNCHANGED allVars PROVE LogInv'
  <2>1. /\ pc' = pc /\ callbacks' = callbacks /\ refused' = refused
        /\ engineUp' = engineUp /\ console' = console /\ aborter' = aborter
        /\ sinks' = sinks /\ writing' = writing /\ critical' = critical /\ braces' = braces
        /\ written' = written /\ late' = late /\ tableLate' = tableLate
        /\ destructors' = destructors /\ destroyed' = destroyed
    BY <1>1 DEF allVars, vars, logVars, exits, things, messageVars, exitVars
  <2>2. /\ \A object : (Made(object)' <=> Made(object)) /\ (Below(object)' <=> Below(object))
        /\ MadeOnce' <=> MadeOnce
    BY <2>1 DEF Made, Below, MadeOnce
  <2>3. QED BY <1>1, <2>1, <2>2 DEF LogInv, LogTypeOK, DestroyedOnce, MadeBelowStack,
               WritersFollowPc, ReasonGetsOut, LateMessages
<1>2. QED
  BY <1>1, MovesKeepLog, BeginsKeepLog, WritesKeepLog, ExitKeepsLog, OthersKeepLog DEF ProcessNext

\* The invariant of the log holds in the composed process.
LEMMA ProcessLogInv == ProcessSpec => []LogInv
<1>1. ProcessInit => LogInv
  BY InitLogInv
<1>2. QED BY <1>1, ProcessIInv, LogInvStep, PTL DEF ProcessSpec

\* A thread that aborts the process has said why, in the file and on the view,
\* whatever the other thread was writing at the time.
THEOREM AbortIsAlwaysWritten == ProcessSpec => []AbortIsWritten
<1>1. LogInv => AbortIsWritten
  BY DEF LogInv, AbortIsWritten, WritersFollowPc, ReasonGetsOut
<1>2. QED BY <1>1, ProcessLogInv, PTL

\* Nothing uses the log after exit() has destroyed it, but the cases the
\* property names.
THEOREM OnlyKnownMessagesAreLate == ProcessSpec => []LateMessages
<1>1. LogInv => LateMessages
  BY DEF LogInv
<1>2. QED BY <1>1, ProcessLogInv, PTL
=============================================================================
