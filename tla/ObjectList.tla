----------------------------- MODULE ObjectList ------------------------------
(***************************************************************************)
(* Common::ObjectList, the list of pointers shared with the engine, which  *)
(* carries its own cursor: first() and next() walk it while other calls    *)
(* add and remove around the cursor, or move it.  Every slot is marked     *)
(* with what the walk since the last first() has done with it, whatever    *)
(* has become of the cursor, so that the walk can be judged.               *)
(***************************************************************************)
EXTENDS Integers, SequencesExt

CONSTANTS
    Object,  \* the objects, numbers so that they can be sorted
    MaxSize, \* bound on the number of elements
    MaxCurrent \* bound on the cursor, which can run away from the list

ASSUME ObjectAssumption == Object \subseteq Nat

VARIABLES
    container_,
    current_,  \* the slot next() returns is the one after it
    marks      \* history: for each slot, see Marks

vars == <<container_, current_, marks>>

\* Not yet returned; returned by first() or next(); added after the walk began,
\* which the walk may return or not.
Marks == {"waiting", "returned", "new"}

\* The types of the list, its cursor and the marks of the walk.
TypeOK ==
    /\ container_ \in Seq(Object)
    /\ current_ \in Nat
    /\ marks \in [DOMAIN container_ -> Marks]

Init == container_ = <<>> /\ current_ = 0 /\ marks = <<>>

-----------------------------------------------------------------------------

size == Len(container_)

\* Where std::find finds an object.
Found(object) == {i \in DOMAIN container_ :
    container_[i] = object /\ \A j \in 1..i-1 : container_[j] # object}

\* init, and clear with or without freeing the objects.
clear ==
    /\ container_' = <<>> /\ marks' = <<>>
    /\ current_' = 0

\* Begins a walk, and returns its first element.
first ==
    /\ current_' = (IF container_ = <<>> THEN 0 ELSE 1)
    /\ UNCHANGED container_
    /\ marks' = [i \in DOMAIN container_ |-> IF i = 1 THEN "returned" ELSE "waiting"]

\* Returns the slot after the cursor, if there is one.
next ==
    /\ current_ < size
    /\ current_' = current_ + 1
    /\ marks' = [marks EXCEPT ![current_ + 1] = "returned"]
    /\ UNCHANGED container_

\* Moves the cursor to the object, which next() will return.
contains(object) ==
    \E i \in Found(object) :
        /\ current_' = i - 1
        /\ UNCHANGED <<container_, marks>>

\* Mutant of remove: the cursor does not follow.
remove_keeps_cursor(object) ==
    \E i \in Found(object) :
        /\ container_' = RemoveAt(container_, i)
        /\ marks' = RemoveAt(marks, i)
        /\ UNCHANGED current_

remove(object) ==
    \E i \in Found(object) :
        /\ current_' = IF i <= current_ THEN current_ - 1 ELSE current_
        /\ container_' = RemoveAt(container_, i)
        /\ marks' = RemoveAt(marks, i)

add_head(object) ==
    /\ size < MaxSize /\ current_ < MaxCurrent
    /\ container_' = <<object>> \o container_
    /\ marks' = <<"new">> \o marks
    /\ current_' = IF current_ # 0 THEN current_ + 1 ELSE 0

\* Also add.
add_tail(object) ==
    /\ size < MaxSize
    /\ container_' = Append(container_, object)
    /\ marks' = Append(marks, "new")
    /\ UNCHANGED current_

remove_head ==
    /\ container_ # <<>>
    /\ container_' = Tail(container_)
    /\ marks' = Tail(marks)
    /\ current_' = IF current_ > 0 THEN current_ - 1 ELSE 0

remove_tail ==
    /\ container_ # <<>>
    /\ container_' = Front(container_)
    /\ marks' = Front(marks)
    /\ current_' = IF current_ > 0 /\ size - 1 = current_ THEN current_ - 1 ELSE current_

\* operator[], assigned to.
Assign(i, object) ==
    /\ container_' = [container_ EXCEPT ![i] = object]
    /\ marks' = [marks EXCEPT ![i] = "new"]
    /\ UNCHANGED current_

\* A sequence without the elements from one index to another.
Without(slots, from, to) == SubSeq(slots, 1, from - 1) \o SubSeq(slots, to + 1, Len(slots))

\* One element or a range of them.
erase(from, to) ==
    /\ container_' = Without(container_, from, to)
    /\ marks' = Without(marks, from, to)
    /\ current_' = 0

\* The same objects in ascending order.
sort ==
    /\ \E order \in Bijection(DOMAIN container_, DOMAIN container_) :
        /\ container_' = [i \in DOMAIN container_ |-> container_[order[i]]]
        /\ marks' = [i \in DOMAIN container_ |-> marks[order[i]]]
        /\ \A i, j \in DOMAIN container_ : i < j => container_[order[i]] <= container_[order[j]]
    /\ current_' = 0

Next ==
    \/ clear \/ first \/ next \/ sort
    \/ remove_head \/ remove_tail
    \/ \E object \in Object :
        \/ contains(object) \/ remove(object)
        \/ add_head(object) \/ add_tail(object)
        \/ \E i \in DOMAIN container_ : Assign(i, object)
    \/ \E from, to \in DOMAIN container_ : from <= to /\ erase(from, to)

Spec == Init /\ [][Next]_vars

-----------------------------------------------------------------------------

\* What is behind the cursor has been returned, or came later; what is ahead
\* has not been returned; and the cursor is not beyond the end.  next() then
\* returns each element that stays in the list exactly once.
WalkAgrees ==
    /\ current_ <= size
    /\ \A i \in DOMAIN container_ :
        /\ i <= current_ => marks[i] # "waiting"
        /\ i > current_ => marks[i] # "returned"

\* remove_tail() compares the cursor with size() - 1: when one element is ahead
\* it steps back onto one already returned, and when none is it leaves the
\* cursor beyond the end, where it hides what is added next.
TailMisjudged == remove_tail /\ current_ > 0 /\ current_ \in {size - 1, size}

\* contains() leaves the cursor before the object it finds, sort() and erase()
\* leave it at the start: in the middle of a walk next() then returns again what
\* it has returned, or skips what it has not.  The header says of contains() only
\* that it "checks if the container contains the specified object"
\* (object_list.hpp:102).
CursorMoved ==
    \/ (\E object \in Object : contains(object)) /\ current_' # current_
    \/ current_ > 0 /\ (sort \/ \E from, to \in DOMAIN container_ : erase(from, to))

\* A walk with first() and next() returns no element twice and misses none that
\* stays, whatever is added, removed, replaced or found at the cursor on the way,
\* but for the two cases of remove_tail, a lookup that moves the cursor, and a
\* sort or an erasure in the middle of it.
CallsKeepWalk == [][WalkAgrees /\ ~TailMisjudged /\ ~CursorMoved => WalkAgrees']_vars
=============================================================================
