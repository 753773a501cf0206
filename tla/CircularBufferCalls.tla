------------------------ MODULE CircularBufferCalls -------------------------
(***************************************************************************)
(* One Util::CircularBuffer object under every sequence of method calls,   *)
(* and the claim that it implements BoundedDeque.                          *)
(***************************************************************************)
EXTENDS CircularBuffer, Sequences

VARIABLES
    ring, \* the object
    ret   \* the element the last call returned

callVars == <<ring, ret>>

\* The types of the object and of what its readers return.
CallsTypeOK ==
    /\ ring \in Ring
    /\ ret \in T

CallsInit ==
    /\ ring = EmptyRing
    /\ ret = ValueInit

CallPushFront(v) ==
    /\ ring' = PushFront(ring, v)
    /\ ret' = Front(ring')

CallPushBack(v) ==
    /\ ring' = PushBack(ring, v)
    /\ ret' = Back(ring')

CallPopFront ==
    /\ ring' = PopFront(ring)
    /\ UNCHANGED ret

CallPopBack ==
    /\ ring' = PopBack(ring)
    /\ UNCHANGED ret

CallClear ==
    /\ ring' = Clear(ring)
    /\ UNCHANGED ret

CallFront ==
    /\ ret' = Front(ring)
    /\ UNCHANGED ring

CallBack ==
    /\ ret' = Back(ring)
    /\ UNCHANGED ring

CallAt(index) ==
    /\ ret' = At(ring, index)
    /\ UNCHANGED ring

CallsNext ==
    \/ \E v \in T : CallPushFront(v) \/ CallPushBack(v)
    \/ CallPopFront \/ CallPopBack \/ CallClear
    \/ CallFront \/ CallBack
    \/ \E index \in 0..N-1 : CallAt(index)

CallsSpec == CallsInit /\ [][CallsNext]_callVars

-----------------------------------------------------------------------------

Deque == INSTANCE BoundedDeque WITH Capacity <- N, Value <- T, items <- Items(ring)

\* full_ is raised only when the two indices meet, so that equal indices and
\* a lowered flag always mean an empty buffer: size() and empty() rely on it
\* after any mix of insertions and removals at both ends.
FullMeansIndicesMeet == ring.full => ring.head = ring.tail

\* Every call, at either end and across every wrap of the indices, does to
\* the reachable elements and returns to the caller what the bounded deque
\* promises: nothing is lost, duplicated or reordered except the one element
\* evicted from the other end of a full buffer.
ImplementsDeque == Deque!Spec
=============================================================================
