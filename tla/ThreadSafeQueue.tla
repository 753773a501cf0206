--------------------------- MODULE ThreadSafeQueue --------------------------
(***************************************************************************)
(* Util::ThreadSafeQueue<T> under any number of threads, at the grain of   *)
(* its mutex: a call takes the mutex, works on the underlying queue, and   *)
(* releases it.  pop(), front() and back() wait on cond_var_ while the     *)
(* queue is empty; no method ever notifies it, so a waiter wakes only      *)
(* spuriously.  The references front(), back() and emplace() return, which *)
(* their callers use without the mutex, are not followed.  Elements are    *)
(* numbered in the order they are pushed.                                  *)
(***************************************************************************)
EXTENDS Naturals, Sequences, FiniteSets

CONSTANTS
    Thread,     \* the threads that share the queue
    Free,       \* the owner of the mutex when there is none
    MaxPushes   \* bound on the elements pushed

ASSUME ThreadAssumption == IsFiniteSet(Thread)
ASSUME FreeAssumption == Free \notin Thread
ASSUME MaxPushesAssumption == MaxPushes \in Nat

VARIABLES
    queue_,     \* the underlying queue
    mutex_,     \* the thread that holds the mutex, or Free
    cond_var_,  \* the threads waiting on the condition variable
    pc,         \* the call each thread is in, or what it does outside of one
    element,    \* pop's local: the copy of the front
    pushed,     \* how many elements were pushed so far
    taken       \* history: the elements pop returned, in order of removal

vars == <<queue_, mutex_, cond_var_, pc, element, pushed, taken>>

Calls == {"push", "emplace", "pop", "front", "back", "clear", "empty", "copy", "move"}
Adding == {"push", "emplace"}
Waiting == {"pop", "front", "back"}
Element == 1..MaxPushes

\* The types of the queue, its mutex, its waiters and each thread's call.
TypeOK ==
    /\ queue_ \in Seq(Element)
    /\ mutex_ \in Thread \union {Free}
    /\ cond_var_ \subseteq Thread
    /\ pc \in [Thread -> Calls \union {"idle", "pop.remove"}]
    /\ element \in [Thread -> 0..MaxPushes]
    /\ pushed \in 0..MaxPushes
    /\ taken \in Seq(Element)

Init ==
    /\ queue_ = <<>>
    /\ mutex_ = Free
    /\ cond_var_ = {}
    /\ pc = [t \in Thread |-> "idle"]
    /\ element = [t \in Thread |-> 0]
    /\ pushed = 0
    /\ taken = <<>>

-----------------------------------------------------------------------------

\* Any thread may call any method; the bound counts the pushes under way too.
Call(t, call) ==
    /\ pc[t] = "idle"
    /\ call \in Adding => pushed + Cardinality({u \in Thread : pc[u] \in Adding}) < MaxPushes
    /\ pc' = [pc EXCEPT ![t] = call]
    /\ UNCHANGED <<queue_, mutex_, cond_var_, element, pushed, taken>>

\* The lock at the start of a call, and again after a wait.
Lock(t) ==
    /\ mutex_ = Free
    /\ pc[t] \in Calls
    /\ t \notin cond_var_
    /\ mutex_' = t
    /\ UNCHANGED <<queue_, cond_var_, pc, element, pushed, taken>>

\* Mutant of Inside: the call works on the queue without the mutex.
InsideUnlocked(t, call) == pc[t] = call

\* In the critical section of a call, which ends with it.
Inside(t, call) == mutex_ = t /\ pc[t] = call
Return(t, next) == mutex_' = Free /\ pc' = [pc EXCEPT ![t] = next]

PushElement ==
    /\ pushed' = pushed + 1
    /\ queue_' = Append(queue_, pushed')

push(t) ==
    /\ Inside(t, "push")
    /\ PushElement
    /\ Return(t, "idle")
    /\ UNCHANGED <<cond_var_, element, taken>>

emplace(t) ==
    /\ Inside(t, "emplace")
    /\ PushElement
    /\ Return(t, "idle")
    /\ UNCHANGED <<cond_var_, element, taken>>

clear(t) ==
    /\ Inside(t, "clear")
    /\ queue_' = <<>>
    /\ Return(t, "idle")
    /\ UNCHANGED <<cond_var_, element, pushed, taken>>

\* empty() and size(), and the constructors that copy this queue into another
\* one: what the new queue holds is its own.
empty(t) ==
    /\ \E call \in {"empty", "copy"} : Inside(t, call)
    /\ Return(t, "idle")
    /\ UNCHANGED <<queue_, cond_var_, element, pushed, taken>>

\* The constructors that move it: they lock this queue, whose elements leave it.
move(t) ==
    /\ Inside(t, "move")
    /\ queue_' = <<>>
    /\ Return(t, "idle")
    /\ UNCHANGED <<cond_var_, element, pushed, taken>>

\* Mutant of Wait: the mutex stays locked during the wait.
WaitLocked(t) ==
    /\ mutex_ = t
    /\ pc[t] \in Waiting
    /\ queue_ = <<>>
    /\ cond_var_' = cond_var_ \union {t}
    /\ UNCHANGED <<queue_, mutex_, pc, element, pushed, taken>>

\* cond_var_.wait: releases the mutex while the predicate is false.
Wait(t) ==
    /\ mutex_ = t
    /\ pc[t] \in Waiting
    /\ queue_ = <<>>
    /\ mutex_' = Free
    /\ cond_var_' = cond_var_ \union {t}
    /\ UNCHANGED <<queue_, pc, element, pushed, taken>>

\* The standard allows a wait to return without a notification.
SpuriousWake(t) ==
    /\ t \in cond_var_
    /\ cond_var_' = cond_var_ \ {t}
    /\ UNCHANGED <<queue_, mutex_, pc, element, pushed, taken>>

\* pop copies the front and then removes it, under one lock.
PopFront(t) ==
    /\ Inside(t, "pop")
    /\ queue_ # <<>>
    /\ element' = [element EXCEPT ![t] = Head(queue_)]
    /\ pc' = [pc EXCEPT ![t] = "pop.remove"]
    /\ UNCHANGED <<queue_, mutex_, cond_var_, pushed, taken>>

PopRemove(t) ==
    /\ Inside(t, "pop.remove")
    /\ queue_' = SubSeq(queue_, 2, Len(queue_))
    /\ taken' = Append(taken, element[t])
    /\ element' = [element EXCEPT ![t] = 0]
    /\ Return(t, "idle")
    /\ UNCHANGED <<cond_var_, pushed>>

front(t) ==
    /\ Inside(t, "front")
    /\ queue_ # <<>>
    /\ Return(t, "idle")
    /\ UNCHANGED <<queue_, cond_var_, element, pushed, taken>>

back(t) ==
    /\ Inside(t, "back")
    /\ queue_ # <<>>
    /\ Return(t, "idle")
    /\ UNCHANGED <<queue_, cond_var_, element, pushed, taken>>

Body(t) ==
    \/ push(t) \/ emplace(t) \/ clear(t) \/ empty(t) \/ move(t)
    \/ Wait(t) \/ PopFront(t) \/ PopRemove(t)
    \/ front(t) \/ back(t)

Next ==
    \E t \in Thread :
        \/ \E call \in Calls : Call(t, call)
        \/ Lock(t) \/ Body(t) \/ SpuriousWake(t)

\* A thread inside a call runs, and gets the mutex if it is free again and
\* again.  Nothing obliges a thread to call, or a waiter to wake spuriously.
Fairness == \A t \in Thread : WF_vars(Body(t)) /\ SF_vars(Lock(t))

Spec == Init /\ [][Next]_vars /\ Fairness

-----------------------------------------------------------------------------

Fifo == INSTANCE FifoQueue WITH queue <- queue_

\* Whatever calls the threads interleave, elements leave the queue in the order
\* they entered it, each to one caller of pop().
ImplementsFifo == Fifo!Spec

\* A call that has nothing to wait for returns, also while other threads wait
\* in pop(): a waiter does not keep the mutex.
CallersReturn ==
    \A t \in Thread : pc[t] \in Calls \ Waiting ~> pc[t] \notin Calls \ Waiting

\* libs/util/include/util/threadsafe_queue.hpp, of pop(): "If the queue is empty,
\* this method blocks until an element becomes available."
BlockedPopReturns ==
    \A t \in Thread :
        (pc[t] = "pop" /\ queue_ # <<>>) ~> (pc[t] # "pop" \/ queue_ = <<>>)
=============================================================================
