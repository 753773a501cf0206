----------------------- MODULE ThreadSafeQueue_proofs -----------------------
(***************************************************************************)
(* For any number of threads and of elements: whatever calls they          *)
(* interleave, the elements leave the queue in order, each to one caller.  *)
(***************************************************************************)
EXTENDS ThreadSafeQueue, FiniteSetTheorems, SequenceTheorems, TLAPS

\* The threads inside push() or emplace().
Adders == {t \in Thread : pc[t] \in Adding}

\* The bound on the elements counts those on their way.
PushesBounded == pushed + Cardinality(Adders) <= MaxPushes

\* Between the copy of the front and its removal the caller of pop() holds the
\* mutex, and the front is still the element it has copied.
CopyIsFront ==
    \A t \in Thread :
        pc[t] = "pop.remove" => mutex_ = t /\ queue_ # <<>> /\ element[t] = Head(queue_)

IInv == TypeOK /\ PushesBounded /\ CopyIsFront

-----------------------------------------------------------------------------

\* The initial states satisfy the inductive invariant.
LEMMA InitIInv == Init => IInv
<1> SUFFICES ASSUME Init PROVE IInv
  OBVIOUS
<1> USE ThreadAssumption, FreeAssumption, MaxPushesAssumption DEF Init
<1>1. Adders = {}
  BY DEF Adders, Adding
<1>2. Cardinality({}) = 0
  BY FS_EmptySet
<1>3. PushesBounded
  BY <1>1, <1>2 DEF PushesBounded
<1>4. TypeOK
  BY DEF TypeOK, Element
<1>5. CopyIsFront
  BY DEF CopyIsFront
<1>6. QED BY <1>3, <1>4, <1>5 DEF IInv

\* How many threads add is a number, for every assignment of calls to threads.
LEMMA AddersCounted ==
    IsFiniteSet(Adders) /\ Cardinality(Adders) \in Nat
BY ThreadAssumption, FS_Subset, FS_CardinalityType DEF Adders

\* A thread that leaves push() or emplace() is one less that adds.
LEMMA AdderLeaves ==
    ASSUME TypeOK, NEW t \in Thread, pc[t] \in Adding, pc' = [pc EXCEPT ![t] = "idle"]
    PROVE  Cardinality(Adders') = Cardinality(Adders) - 1
<1>1. Adders' = Adders \ {t} /\ t \in Adders
  BY DEF Adders, Adding, TypeOK
<1>2. QED BY <1>1, AddersCounted, FS_RemoveElement

\* No step but the call of an adding method makes more threads add.
LEMMA NoMoreAdders ==
    ASSUME TypeOK, NEW t \in Thread, NEW next, next \notin Adding,
           pc' = [pc EXCEPT ![t] = next]
    PROVE  Cardinality(Adders') <= Cardinality(Adders)
<1>1. Adders' \subseteq Adders
  BY DEF Adders, Adding, TypeOK
<1>2. QED BY <1>1, AddersCounted, FS_Subset

\* What is left of a queue when its front is removed.
LEMMA Removed ==
    ASSUME NEW S, NEW q \in Seq(S), q # <<>>
    PROVE  /\ Head(q) \in S
           /\ SubSeq(q, 2, Len(q)) = Tail(q)
           /\ Tail(q) \in Seq(S)
BY HeadTailProperties, TailIsSubSeq

\* A call that is made leaves all but the caller's place alone.
LEMMA CallKeepsIInv ==
    ASSUME IInv, NEW t \in Thread, NEW call \in Calls, Call(t, call)
    PROVE  IInv'
<1> USE MaxPushesAssumption DEF IInv, TypeOK, Call
<1>1. TypeOK'
  OBVIOUS
<1>2. CopyIsFront'
  BY DEF CopyIsFront, Calls
<1>3. PushesBounded'
  <2>1. CASE call \in Adding
    <3>1. Adders' = Adders \union {t} /\ t \notin Adders
      BY <2>1 DEF Adders, Adding, Calls
    <3>2. Cardinality(Adders') = Cardinality(Adders) + 1
      BY <3>1, AddersCounted, FS_AddElement
    <3>3. pushed + Cardinality(Adders) < MaxPushes
      BY <2>1 DEF Adders
    <3>4. QED BY <3>2, <3>3, AddersCounted DEF PushesBounded
  <2>2. CASE call \notin Adding
    <3>1. Adders' \subseteq Adders
      BY <2>2 DEF Adders, Adding, Calls
    <3>2. Cardinality(Adders') <= Cardinality(Adders) /\ Cardinality(Adders') \in Nat
      BY <3>1, AddersCounted, FS_Subset, FS_CardinalityType
    <3>3. QED BY <3>2, AddersCounted DEF PushesBounded
  <2>3. QED BY <2>1, <2>2
<1>4. QED BY <1>1, <1>2, <1>3

\* The lock, the waits and their ends leave the elements and the calls alone.
LEMMA WaitsKeepIInv ==
    ASSUME IInv, NEW t \in Thread, Lock(t) \/ Wait(t) \/ SpuriousWake(t)
    PROVE  IInv'
<1> USE FreeAssumption DEF IInv, TypeOK, Calls
<1>1. UNCHANGED <<queue_, pc, element, pushed, taken>>
  BY DEF Lock, Wait, SpuriousWake
<1>2. TypeOK'
  BY <1>1 DEF Lock, Wait, SpuriousWake
<1>3. PushesBounded'
  BY <1>1 DEF PushesBounded, Adders
<1>4. CopyIsFront'
  BY <1>1 DEF CopyIsFront, Lock, Wait, SpuriousWake, Waiting
<1>5. QED BY <1>2, <1>3, <1>4

\* While a call is inside its critical section no other thread has copied the
\* front, so what becomes of the queue disturbs no copy.
LEMMA NobodyElseCopied ==
    ASSUME IInv, NEW t \in Thread, mutex_ = t, NEW u \in Thread, u # t
    PROVE  pc[u] # "pop.remove"
BY DEF IInv, CopyIsFront

\* push() and emplace() add an element of the bounded set, at the end.
LEMMA AddsElement ==
    ASSUME IInv, NEW t \in Thread, push(t) \/ emplace(t)
    PROVE  /\ pushed' \in Element
           /\ queue_' = Append(queue_, pushed')
           /\ pushed' = pushed + 1
           /\ pc[t] \in Adding /\ pc' = [pc EXCEPT ![t] = "idle"] /\ mutex_ = t /\ mutex_' = Free
           /\ UNCHANGED <<cond_var_, element, taken>>
<1>1. /\ pc[t] \in Adding /\ pc' = [pc EXCEPT ![t] = "idle"] /\ mutex_ = t /\ mutex_' = Free
      /\ queue_' = Append(queue_, pushed') /\ pushed' = pushed + 1
      /\ UNCHANGED <<cond_var_, element, taken>>
  BY DEF push, emplace, PushElement, Inside, Return, Adding
<1>2. t \in Adders
  BY <1>1 DEF Adders
<1>3. Cardinality(Adders) # 0
  BY <1>2, AddersCounted, FS_EmptySet
<1>4. pushed' \in Element
  BY <1>1, <1>3, AddersCounted, MaxPushesAssumption DEF IInv, TypeOK, PushesBounded, Element
<1>5. QED BY <1>1, <1>4

\* The calls that add preserve the invariant.
LEMMA AddsKeepIInv ==
    ASSUME IInv, NEW t \in Thread, push(t) \/ emplace(t)
    PROVE  IInv'
<1>0. TypeOK
  BY DEF IInv
<1>1. TypeOK'
  <2>1. queue_ \in Seq(Element) /\ pushed' \in Element /\ queue_' = Append(queue_, pushed')
    BY AddsElement, <1>0 DEF TypeOK
  <2>2. queue_' \in Seq(Element)
    BY <2>1
  <2>3. pc' \in [Thread -> Calls \union {"idle", "pop.remove"}]
    BY AddsElement, <1>0 DEF TypeOK
  <2>4. QED BY AddsElement, <1>0, <2>1, <2>2, <2>3 DEF TypeOK, Element
<1>2. PushesBounded'
  <2>1. Cardinality(Adders') = Cardinality(Adders) - 1
    BY <1>0, AddsElement, AdderLeaves
  <2>2. QED BY <1>0, <2>1, AddsElement, AddersCounted DEF IInv, PushesBounded, TypeOK
<1>3. CopyIsFront'
  <2>1. \A u \in Thread : pc'[u] # "pop.remove"
    BY <1>0, AddsElement, NobodyElseCopied DEF TypeOK
  <2>2. QED BY <2>1 DEF CopyIsFront
<1>4. QED BY <1>1, <1>2, <1>3 DEF IInv

\* So do the calls that empty the queue, look at it or remove its front.
LEMMA BodiesKeepIInv ==
    ASSUME IInv, NEW t \in Thread,
           clear(t) \/ move(t) \/ empty(t) \/ front(t) \/ back(t) \/ PopRemove(t)
    PROVE  IInv'
<1>0. TypeOK
  BY DEF IInv
<1>1. /\ mutex_ = t /\ mutex_' = Free /\ pc' = [pc EXCEPT ![t] = "idle"]
      /\ UNCHANGED <<cond_var_, pushed>>
  BY DEF clear, move, empty, front, back, PopRemove, Inside, Return
<1>2. queue_' \in Seq(Element) /\ taken' \in Seq(Element) /\ element' \in [Thread -> 0..MaxPushes]
  <2>1. CASE PopRemove(t)
    <3>1. queue_ # <<>> /\ element[t] = Head(queue_)
      BY <2>1 DEF PopRemove, Inside, IInv, CopyIsFront
    <3>2. Head(queue_) \in Element /\ queue_' \in Seq(Element)
      BY <1>0, <2>1, <3>1, Removed DEF PopRemove, TypeOK
    <3>3. QED BY <1>0, <2>1, <3>1, <3>2, MaxPushesAssumption DEF PopRemove, TypeOK
  <2>2. CASE ~PopRemove(t)
    <3>1. (queue_' = <<>> \/ queue_' = queue_) /\ UNCHANGED <<taken, element>>
      BY <2>2 DEF clear, move, empty, front, back
    <3>2. <<>> \in Seq(Element)
      OBVIOUS
    <3>3. QED BY <1>0, <3>1, <3>2 DEF TypeOK
  <2>3. QED BY <2>1, <2>2
<1>3. TypeOK'
  BY <1>0, <1>1, <1>2 DEF TypeOK
<1>4. PushesBounded'
  <2>1. Cardinality(Adders') <= Cardinality(Adders)
    BY <1>0, <1>1, NoMoreAdders DEF Adding
  <2>2. IsFiniteSet(Adders') /\ Cardinality(Adders') \in Nat
    BY ThreadAssumption, FS_Subset, FS_CardinalityType DEF Adders
  <2>3. QED
    BY <1>0, <1>1, <2>1, <2>2, AddersCounted, MaxPushesAssumption DEF IInv, PushesBounded, TypeOK
<1>5. CopyIsFront'
  <2>1. \A u \in Thread : pc'[u] # "pop.remove"
    BY <1>0, <1>1, NobodyElseCopied DEF TypeOK
  <2>2. QED BY <2>1 DEF CopyIsFront
<1>6. QED BY <1>3, <1>4, <1>5 DEF IInv

\* And the copy of the front.
LEMMA CopyKeepsIInv ==
    ASSUME IInv, NEW t \in Thread, PopFront(t)
    PROVE  IInv'
<1>0. TypeOK
  BY DEF IInv
<1> USE DEF PopFront, Inside
<1>1. Head(queue_) \in Element
  BY <1>0, Removed DEF TypeOK
<1>2. TypeOK'
  BY <1>0, <1>1, MaxPushesAssumption DEF TypeOK, Element
<1>3. PushesBounded'
  <2>1. Cardinality(Adders') <= Cardinality(Adders)
    BY <1>0, NoMoreAdders DEF Adding
  <2>2. IsFiniteSet(Adders') /\ Cardinality(Adders') \in Nat
    BY ThreadAssumption, FS_Subset, FS_CardinalityType DEF Adders
  <2>3. QED BY <1>0, <2>1, <2>2, AddersCounted, MaxPushesAssumption DEF IInv, PushesBounded, TypeOK
<1>4. CopyIsFront'
  BY <1>0, NobodyElseCopied DEF CopyIsFront, TypeOK
<1>5. QED BY <1>2, <1>3, <1>4 DEF IInv

\* Every reachable state satisfies the inductive invariant.
LEMMA SpecIInv == Spec => []IInv
<1>1. IInv /\ [Next]_vars => IInv'
  <2> SUFFICES ASSUME IInv, [Next]_vars PROVE IInv'
    OBVIOUS
  <2>1. CASE UNCHANGED vars
    BY <2>1 DEF vars, IInv, TypeOK, PushesBounded, Adders, CopyIsFront
  <2>2. ASSUME NEW t \in Thread, Body(t) PROVE IInv'
    BY <2>2, AddsKeepIInv, BodiesKeepIInv, CopyKeepsIInv, WaitsKeepIInv DEF Body
  <2>3. QED BY <2>1, <2>2, CallKeepsIInv, WaitsKeepIInv DEF Next
<1>2. QED BY InitIInv, <1>1, PTL DEF Spec

-----------------------------------------------------------------------------

\* For any number of threads, elements leave the queue in the order they were
\* pushed and each to one caller of pop(), whatever the threads call meanwhile.
THEOREM QueueImplementsFifo == Spec => ImplementsFifo
<1>1. Init => Fifo!Init
  BY DEF Init, Fifo!Init
<1>2. IInv /\ [Next]_vars => [Fifo!Next]_(Fifo!vars)
  <2> SUFFICES ASSUME IInv, [Next]_vars PROVE [Fifo!Next]_(Fifo!vars)
    OBVIOUS
  <2>1. ASSUME UNCHANGED <<queue_, taken>> PROVE UNCHANGED Fifo!vars
    BY <2>1 DEF Fifo!vars
  <2>2. ASSUME NEW t \in Thread, push(t) \/ emplace(t) PROVE Fifo!Next
    BY <2>2, AddsElement DEF Fifo!Next, Fifo!Put
  <2>3. ASSUME NEW t \in Thread, clear(t) \/ move(t) PROVE Fifo!Next
    BY <2>3 DEF clear, move, Fifo!Next, Fifo!Clear
  <2>4. ASSUME NEW t \in Thread, PopRemove(t) PROVE Fifo!Next
    <3>1. queue_ # <<>> /\ element[t] = Head(queue_)
      BY <2>4 DEF PopRemove, Inside, IInv, CopyIsFront
    <3>2. queue_' = Tail(queue_)
      BY <2>4, <3>1, Removed DEF PopRemove, IInv, TypeOK
    <3>3. QED BY <2>4, <3>1, <3>2 DEF PopRemove, Fifo!Next, Fifo!Take
  <2>5. ASSUME NEW t \in Thread,
               empty(t) \/ Wait(t) \/ PopFront(t) \/ front(t) \/ back(t) \/ Lock(t) \/ SpuriousWake(t)
        PROVE  UNCHANGED <<queue_, taken>>
    BY <2>5 DEF empty, Wait, PopFront, front, back, Lock, SpuriousWake
  <2>6. ASSUME NEW t \in Thread, NEW call \in Calls, Call(t, call) PROVE UNCHANGED <<queue_, taken>>
    BY <2>6 DEF Call
  <2>7. CASE UNCHANGED vars
    BY <2>1, <2>7 DEF vars
  <2>8. QED BY <2>1, <2>2, <2>3, <2>4, <2>5, <2>6, <2>7 DEF Next, Body
<1>3. QED BY SpecIInv, <1>1, <1>2, PTL DEF Spec, ImplementsFifo, Fifo!Spec
=============================================================================
