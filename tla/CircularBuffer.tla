--------------------------- MODULE CircularBuffer ---------------------------
(***************************************************************************)
(* Util::CircularBuffer<T, N> (libs/util/include/util/circular_buffer.hpp) *)
(* as pure operators on the value of one buffer object: its array, its two *)
(* indices and the flag that tells a full buffer from an empty one.  A     *)
(* method that mutates the object is an operator from a ring to a ring; a  *)
(* method that reads it is an operator from a ring to what it returns.     *)
(***************************************************************************)
EXTENDS Integers

CONSTANTS
    N,        \* the template argument N: the capacity
    T,        \* the values an element can have
    ValueInit \* T{}: what the array holds before anything is stored

ASSUME NAssumption == N \in Nat \ {0}
ASSUME TAssumption == ValueInit \in T

Ring == [buffer : [0..N-1 -> T], head : 0..N-1, tail : 0..N-1, full : BOOLEAN]

\* head_ is one past the newest element, tail_ is the oldest one.
EmptyRing == [buffer |-> [i \in 0..N-1 |-> ValueInit], head |-> 0, tail |-> 0, full |-> FALSE]

\* Mutant of Inc: the index is not wrapped at the end of the array.
IncUnwrapped(i) == i + 1

Inc(i) == (i + 1) % N
Dec(i) == ((i + N) - 1) % N

-----------------------------------------------------------------------------
(* Reading.                                                                *)

Front(r) == r.buffer[r.tail]
Back(r) == r.buffer[Dec(r.head)]
At(r, index) == r.buffer[(r.tail + index) % N]

Empty(r) == ~r.full /\ r.head = r.tail

Size(r) ==
    IF r.full THEN N
    ELSE IF r.head >= r.tail THEN r.head - r.tail
    ELSE (N + r.head) - r.tail

\* The elements a caller can reach through operator[], oldest first.
Items(r) == [k \in 1..Size(r) |-> At(r, k - 1)]

-----------------------------------------------------------------------------
(* Writing.  push_ and emplace_ do the same to the buffer; the emplace_    *)
(* overloads also return a reference to the element they stored.           *)

PushFront(r, item) ==
    LET tail == Dec(r.tail)
        head == IF r.full THEN Dec(r.head) ELSE r.head
    IN [buffer |-> [r.buffer EXCEPT ![tail] = item],
        head |-> head, tail |-> tail, full |-> head = tail]

\* Mutant of PushBack: a full buffer keeps its oldest index.
PushBackKeepsTail(r, item) ==
    LET head == Inc(r.head)
    IN [buffer |-> [r.buffer EXCEPT ![r.head] = item],
        head |-> head, tail |-> r.tail, full |-> r.full \/ head = r.tail]

PushBack(r, item) ==
    LET head == Inc(r.head)
        tail == IF r.full THEN Inc(r.tail) ELSE r.tail
    IN [buffer |-> [r.buffer EXCEPT ![r.head] = item],
        head |-> head, tail |-> tail, full |-> head = tail]

\* Mutant of PopFront: the flag of a full buffer is left up.
PopFrontKeepsFull(r) == IF Empty(r) THEN r ELSE [r EXCEPT !.tail = Inc(r.tail)]

PopFront(r) == IF Empty(r) THEN r ELSE [r EXCEPT !.full = FALSE, !.tail = Inc(r.tail)]

PopBack(r) == IF Empty(r) THEN r ELSE [r EXCEPT !.full = FALSE, !.head = Dec(r.head)]

\* clear() only moves the index: the elements stay in the array.
Clear(r) == [r EXCEPT !.head = r.tail, !.full = FALSE]
=============================================================================
