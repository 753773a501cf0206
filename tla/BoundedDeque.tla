---------------------------- MODULE BoundedDeque ----------------------------
(***************************************************************************)
(* What a caller of Util::CircularBuffer relies on: a double-ended queue   *)
(* of at most Capacity elements in which an insertion at one end of a full *)
(* queue evicts the element at the other end.  ret is what the last call   *)
(* returned; a read of an element that does not exist may return any value.*)
(***************************************************************************)
EXTENDS Naturals, Sequences

CONSTANTS Capacity, Value

VARIABLES items, ret

vars == <<items, ret>>

Init ==
    /\ items = <<>>
    /\ ret \in Value

DropFirst == IF Len(items) = Capacity THEN Tail(items) ELSE items
DropLast == IF Len(items) = Capacity THEN SubSeq(items, 1, Capacity - 1) ELSE items

PushFront(v) ==
    /\ items' = <<v>> \o DropLast
    /\ ret' = v

PushBack(v) ==
    /\ items' = Append(DropFirst, v)
    /\ ret' = v

PopFront ==
    /\ items' = IF items = <<>> THEN items ELSE Tail(items)
    /\ UNCHANGED ret

PopBack ==
    /\ items' = IF items = <<>> THEN items ELSE SubSeq(items, 1, Len(items) - 1)
    /\ UNCHANGED ret

Clear ==
    /\ items' = <<>>
    /\ UNCHANGED ret

\* A read returns the element asked for, whenever there is one.
ReadAt(k) ==
    /\ UNCHANGED items
    /\ ret' \in Value
    /\ k \in DOMAIN items => ret' = items[k]

Next ==
    \/ \E v \in Value : PushFront(v) \/ PushBack(v)
    \/ PopFront \/ PopBack \/ Clear
    \/ \E k \in 1..Capacity : ReadAt(k)
    \/ ReadAt(Len(items))

Spec == Init /\ [][Next]_vars
=============================================================================
