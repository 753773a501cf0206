------------------------- MODULE ObjectList_proofs --------------------------
(***************************************************************************)
(* For every set of objects and every length: a walk over an ObjectList    *)
(* returns what stays in the list once, whatever the other calls do, but   *)
(* for the cases of remove_tail and the moves of the cursor that           *)
(* ObjectList names.                                                       *)
(***************************************************************************)
EXTENDS ObjectList, TLAPS

\* A sequence without one of its elements, as remove() and the calls at the two
\* ends leave the list and its marks.
LEMMA RemoveAtFacts ==
    ASSUME NEW S, NEW s \in Seq(S), NEW i \in 1..Len(s)
    PROVE  /\ RemoveAt(s, i) \in Seq(S)
           /\ Len(RemoveAt(s, i)) = Len(s) - 1
           /\ \A k \in 1..Len(s) - 1 : RemoveAt(s, i)[k] = IF k < i THEN s[k] ELSE s[k + 1]
<1> DEFINE a == SubSeq(s, 1, i - 1)
           b == SubSeq(s, i + 1, Len(s))
<1>1. /\ a \in Seq(S) /\ Len(a) = i - 1
      /\ \A k \in 1..i - 1 : a[k] = s[k]
  OBVIOUS
<1>2. /\ b \in Seq(S) /\ Len(b) = Len(s) - i
      /\ \A k \in 1..Len(s) - i : b[k] = s[k + i]
  OBVIOUS
<1>3. Len(s) \in Nat /\ i \in Nat /\ i >= 1 /\ i <= Len(s)
  OBVIOUS
<1> HIDE DEF a, b
<1>4. a \o b \in Seq(S) /\ Len(a \o b) = Len(s) - 1
  <2>1. a \o b \in Seq(S) /\ Len(a \o b) = Len(a) + Len(b)
    <3>1. a \in Seq(S) /\ b \in Seq(S)
      BY <1>1, <1>2
    <3>2. QED BY <3>1
  <2>2. Len(a) + Len(b) = Len(s) - 1
    BY <1>1, <1>2, <1>3
  <2>3. QED BY <2>1, <2>2
<1>5. ASSUME NEW k \in 1..Len(s) - 1 PROVE (a \o b)[k] = IF k < i THEN s[k] ELSE s[k + 1]
  <2>1. CASE k < i
    BY <1>1, <1>2, <1>3, <2>1
  <2>2. CASE ~(k < i)
    <3>1. k - (i - 1) \in 1..Len(s) - i /\ (k - (i - 1)) + i = k + 1 /\ k \in Len(a) + 1..Len(a) + Len(b)
      BY <1>1, <1>2, <1>3, <2>2
    <3>2. (a \o b)[k] = b[k - (i - 1)]
      BY <1>1, <1>2, <3>1
    <3>3. QED BY <1>2, <2>2, <3>1, <3>2
  <2>3. QED BY <2>1, <2>2
<1>6. QED BY <1>4, <1>5 DEF RemoveAt, a, b

\* And without the last one.
LEMMA FrontFacts ==
    ASSUME NEW S, NEW s \in Seq(S), s # <<>>
    PROVE  /\ Front(s) \in Seq(S) /\ Len(Front(s)) = Len(s) - 1
           /\ \A k \in 1..Len(s) - 1 : Front(s)[k] = s[k]
<1>1. Len(s) \in Nat /\ Len(s) >= 1
  OBVIOUS
<1> DEFINE n == Len(s) - 1
<1>2. n \in 0..Len(s)
  BY <1>1
<1> HIDE DEF n
<1>3. SubSeq(s, 1, n) \in Seq(S) /\ Len(SubSeq(s, 1, n)) = n /\ \A k \in 1..n : SubSeq(s, 1, n)[k] = s[k]
  BY <1>1, <1>2
<1>4. QED BY <1>3 DEF n, Front

\* The types, with the marks as the sequence they are.
Typed ==
    /\ container_ \in Seq(Object) /\ current_ \in Nat
    /\ marks \in Seq(Marks) /\ Len(marks) = Len(container_)

\* The marks are as many as the elements.
LEMMA TypedIsTypeOK == Typed <=> TypeOK
BY DEF Typed, TypeOK

\* Without a range of elements, as erase() leaves them: nothing is added.
LEMMA WithoutFacts ==
    ASSUME NEW S, NEW s \in Seq(S), NEW from \in 1..Len(s), NEW to \in 1..Len(s), from <= to
    PROVE  /\ Without(s, from, to) \in Seq(S)
           /\ Len(Without(s, from, to)) = Len(s) - (to - from + 1)
<1> DEFINE a == SubSeq(s, 1, from - 1)
           b == SubSeq(s, to + 1, Len(s))
<1>1. /\ a \in Seq(S) /\ Len(a) = from - 1
      /\ \A k \in 1..from - 1 : a[k] = s[k]
  OBVIOUS
<1>2. /\ b \in Seq(S) /\ Len(b) = Len(s) - to
      /\ \A k \in 1..Len(s) - to : b[k] = s[k + to]
  OBVIOUS
<1>3. Len(s) \in Nat /\ from \in Nat /\ to \in Nat /\ from >= 1 /\ to <= Len(s)
  OBVIOUS
<1> HIDE DEF a, b
<1>4. a \o b \in Seq(S) /\ Len(a \o b) = Len(a) + Len(b)
  <2>1. a \in Seq(S) /\ b \in Seq(S)
    BY <1>1, <1>2
  <2>2. QED BY <2>1
<1>5. Len(a \o b) = Len(s) - (to - from + 1)
  BY <1>1, <1>2, <1>3, <1>4
<1>6. QED BY <1>4, <1>5 DEF Without, a, b

\* Each slot that is left was there before.
LEMMA WithoutFrom ==
    ASSUME NEW S, NEW s \in Seq(S), NEW from \in 1..Len(s), NEW to \in 1..Len(s), from <= to,
           NEW k \in 1..Len(Without(s, from, to))
    PROVE  /\ k < from => k \in 1..Len(s) /\ Without(s, from, to)[k] = s[k]
           /\ k >= from => /\ k + (to - from + 1) \in 1..Len(s)
                           /\ Without(s, from, to)[k] = s[k + (to - from + 1)]
<1> DEFINE a == SubSeq(s, 1, from - 1)
           b == SubSeq(s, to + 1, Len(s))
<1>1. /\ a \in Seq(S) /\ Len(a) = from - 1
      /\ \A i \in 1..from - 1 : a[i] = s[i]
  OBVIOUS
<1>2. /\ b \in Seq(S) /\ Len(b) = Len(s) - to
      /\ \A i \in 1..Len(s) - to : b[i] = s[i + to]
  OBVIOUS
<1>3. Len(s) \in Nat /\ from \in Nat /\ to \in Nat /\ from >= 1 /\ to <= Len(s)
  OBVIOUS
<1>4. k \in 1..Len(s) - (to - from + 1)
  BY WithoutFacts
<1>5. Without(s, from, to) = a \o b
  BY DEF Without
<1> HIDE DEF a, b
<1>6. CASE k < from
  <2>1. (a \o b)[k] = a[k] /\ k \in 1..from - 1
    BY <1>1, <1>2, <1>3, <1>4, <1>6
  <2>2. QED BY <1>1, <1>3, <1>4, <1>5, <1>6, <2>1
<1>7. CASE k >= from
  <2>1. k - (from - 1) \in 1..Len(s) - to /\ k \in Len(a) + 1..Len(a) + Len(b)
    BY <1>1, <1>2, <1>3, <1>4, <1>7
  <2>2. (a \o b)[k] = b[k - (from - 1)]
    <3>1. a \in Seq(S) /\ b \in Seq(S) /\ Len(a) = from - 1
      BY <1>1, <1>2
    <3>2. (a \o b)[k] = b[k - Len(a)]
      BY <2>1, <3>1
    <3>3. QED BY <3>1, <3>2
  <2>3. b[k - (from - 1)] = s[k - (from - 1) + to]
    BY <1>2, <2>1
  <2>4. k - (from - 1) + to = k + (to - from + 1) /\ k + (to - from + 1) \in 1..Len(s)
    BY <1>3, <1>4, <1>7
  <2>5. QED BY <1>3, <1>4, <1>5, <1>7, <2>2, <2>3, <2>4
<1>8. QED BY <1>3, <1>4, <1>6, <1>7

\* With the cursor at the start, as it is left by a call that was made there, a
\* walk agrees with any slots none of which has been returned.
LEMMA WalkAtStart ==
    ASSUME container_' \in Seq(Object), current_' = 0,
           \A i \in 1..Len(container_') : marks'[i] # "returned"
    PROVE  WalkAgrees'
<1>1. Len(container_') \in Nat /\ DOMAIN container_' = 1..Len(container_')
  OBVIOUS
<1>2. QED BY <1>1 DEF WalkAgrees, size

\* Every call keeps the types, and the walk but for those cases.
LEMMA CallKeepsWalk ==
    ASSUME Typed, Next
    PROVE  Typed' /\ (WalkAgrees /\ ~TailMisjudged /\ ~CursorMoved => WalkAgrees')
<1>1. /\ Len(container_) \in Nat /\ DOMAIN container_ = 1..Len(container_)
      /\ container_ \in Seq(Object) /\ marks \in Seq(Marks) /\ Len(marks) = Len(container_)
      /\ current_ \in Nat /\ DOMAIN marks = DOMAIN container_
  BY DEF Typed
<1>2. CASE clear
  <2>1. container_' = <<>> /\ marks' = <<>> /\ current_' = 0
    BY <1>2 DEF clear
  <2>2. Typed'
    BY <2>1 DEF Typed
  <2>3. WalkAgrees'
    BY <2>1 DEF WalkAgrees, size
  <2>4. QED BY <2>2, <2>3
<1>3. CASE first
  <2>1. /\ container_' = container_
        /\ marks' = [i \in 1..Len(container_) |-> IF i = 1 THEN "returned" ELSE "waiting"]
        /\ current_' = IF container_ = <<>> THEN 0 ELSE 1
    BY <1>1, <1>3 DEF first
  <2>2. /\ marks' \in Seq(Marks) /\ Len(marks') = Len(container_)
        /\ \A i \in 1..Len(container_) : marks'[i] = IF i = 1 THEN "returned" ELSE "waiting"
    BY <1>1, <2>1 DEF Marks
  <2>3. Typed'
    BY <1>1, <2>1, <2>2 DEF Typed
  <2>4. container_ # <<>> => Len(container_) >= 1
    BY <1>1
  <2>5. container_ = <<>> => Len(container_) = 0
    OBVIOUS
  <2>6. WalkAgrees'
    BY <1>1, <2>1, <2>2, <2>4, <2>5 DEF WalkAgrees, size
  <2>7. QED BY <2>3, <2>6
<1>4. CASE next
  <2>1. /\ current_ < Len(container_) /\ current_' = current_ + 1 /\ container_' = container_
        /\ marks' = [marks EXCEPT ![current_ + 1] = "returned"]
    BY <1>4 DEF next, size
  <2>2. current_ + 1 \in 1..Len(container_)
    BY <1>1, <2>1
  <2>3. /\ marks' \in Seq(Marks) /\ Len(marks') = Len(container_)
        /\ \A i \in 1..Len(container_) :
             marks'[i] = IF i = current_ + 1 THEN "returned" ELSE marks[i]
    BY <1>1, <2>1, <2>2 DEF Marks
  <2>4. Typed'
    BY <1>1, <2>1, <2>3 DEF Typed
  <2>5. WalkAgrees => WalkAgrees'
    BY <1>1, <2>1, <2>3 DEF WalkAgrees, size
  <2>6. QED BY <2>4, <2>5
<1>5. CASE sort
  <2>1. PICK order \in [DOMAIN container_ -> DOMAIN container_] :
            /\ container_' = [i \in DOMAIN container_ |-> container_[order[i]]]
            /\ marks' = [i \in DOMAIN container_ |-> marks[order[i]]]
    BY <1>5 DEF sort, Bijection, Injection
  <2>2. /\ container_' \in Seq(Object) /\ Len(container_') = Len(container_)
        /\ marks' \in Seq(Marks) /\ Len(marks') = Len(container_)
        /\ \A i \in 1..Len(container_) : order[i] \in DOMAIN container_ /\ marks'[i] = marks[order[i]]
    <3>1. PICK n \in Nat : n = Len(container_)
      BY <1>1
    <3>2. /\ order \in [1..n -> 1..n]
          /\ container_' = [i \in 1..n |-> container_[order[i]]]
          /\ marks' = [i \in 1..n |-> marks[order[i]]]
      BY <1>1, <2>1, <3>1
    <3>3. /\ \A i \in 1..n : container_[i] \in Object
          /\ \A i \in 1..n : marks[i] \in Marks
      BY <1>1, <3>1
    <3>4. container_' \in Seq(Object) /\ Len(container_') = n
      BY <3>2, <3>3
    <3>5. marks' \in Seq(Marks) /\ Len(marks') = n
      BY <3>2, <3>3
    <3>6. \A i \in 1..n : order[i] \in 1..n /\ marks'[i] = marks[order[i]]
      BY <3>2
    <3>7. QED BY <1>1, <3>1, <3>4, <3>5, <3>6
  <2>3. current_' = 0
    BY <1>5 DEF sort
  <2>4. Typed'
    BY <1>1, <2>2, <2>3 DEF Typed
  <2>5. WalkAgrees /\ ~CursorMoved => WalkAgrees'
    <3>1. SUFFICES ASSUME WalkAgrees, ~CursorMoved PROVE WalkAgrees'
      OBVIOUS
    <3>2. current_ = 0
      BY <1>1, <1>5, <3>1 DEF CursorMoved
    <3>3. \A i \in 1..Len(container_') : marks'[i] # "returned"
      BY <1>1, <2>2, <3>1, <3>2 DEF WalkAgrees
    <3>4. QED BY <2>2, <2>3, <3>3, WalkAtStart
  <2>6. QED BY <2>4, <2>5
<1>6. CASE remove_head
  <2>1. /\ Len(container_) >= 1 /\ container_' = Tail(container_) /\ marks' = Tail(marks)
        /\ current_' = IF current_ > 0 THEN current_ - 1 ELSE 0
    BY <1>1, <1>6 DEF remove_head
  <2>2. /\ container_' \in Seq(Object) /\ Len(container_') = Len(container_) - 1
        /\ marks' \in Seq(Marks) /\ Len(marks') = Len(container_) - 1
        /\ \A i \in 1..Len(container_) - 1 : marks'[i] = marks[i + 1]
    BY <1>1, <2>1
  <2>3. Typed'
    BY <1>1, <2>1, <2>2 DEF Typed
  <2>4. WalkAgrees => WalkAgrees'
    BY <1>1, <2>1, <2>2 DEF WalkAgrees, size
  <2>5. QED BY <2>3, <2>4
<1>7. CASE remove_tail
  <2>1. /\ Len(container_) >= 1 /\ marks # <<>> /\ container_ # <<>>
        /\ container_' = Front(container_) /\ marks' = Front(marks)
    BY <1>1, <1>7 DEF remove_tail
  <2>2. /\ container_' \in Seq(Object) /\ Len(container_') = Len(container_) - 1
        /\ marks' \in Seq(Marks) /\ Len(marks') = Len(container_) - 1
        /\ \A i \in 1..Len(container_) - 1 : marks'[i] = marks[i]
    BY <1>1, <2>1, FrontFacts
  <2>3. current_' = IF current_ > 0 /\ Len(container_) - 1 = current_ THEN current_ - 1 ELSE current_
    BY <1>7 DEF remove_tail, size
  <2>4. Typed'
    <3>1. CASE current_ > 0 /\ Len(container_) - 1 = current_
      BY <1>1, <2>2, <2>3, <3>1 DEF Typed
    <3>2. CASE ~(current_ > 0 /\ Len(container_) - 1 = current_)
      BY <1>1, <2>2, <2>3, <3>2 DEF Typed
    <3>3. QED BY <3>1, <3>2
  <2>5. WalkAgrees /\ ~TailMisjudged => WalkAgrees'
    <3>1. SUFFICES ASSUME WalkAgrees, ~TailMisjudged PROVE WalkAgrees'
      OBVIOUS
    <3>2. current_' = current_ /\ current_ <= Len(container_) - 1
      <4>1. ~(current_ > 0 /\ (current_ = Len(container_) - 1 \/ current_ = Len(container_)))
        BY <1>7, <3>1 DEF TailMisjudged, size
      <4>2. current_' = current_
        BY <2>3, <4>1
      <4>3. current_ <= Len(container_) /\ Len(container_) >= 1
        BY <2>1, <3>1 DEF WalkAgrees, size
      <4>4. current_ \in Nat /\ Len(container_) \in Nat
        BY <1>1
      <4>5. current_ # Len(container_)
        BY <4>1, <4>3, <4>4
      <4>6. QED BY <4>2, <4>3, <4>4, <4>5
    <3>3. DOMAIN container_' = 1..Len(container_) - 1
      BY <2>2
    <3>4. \A i \in 1..Len(container_) - 1 : i \in DOMAIN container_
      BY <1>1
    <3>5. QED BY <2>2, <3>1, <3>2, <3>3, <3>4 DEF WalkAgrees, size
  <2>6. QED BY <2>4, <2>5
<1>8. ASSUME NEW object \in Object, contains(object)
      PROVE  Typed' /\ (WalkAgrees /\ ~CursorMoved => WalkAgrees')
  <2>1. PICK i \in DOMAIN container_ :
            current_' = i - 1 /\ container_' = container_ /\ marks' = marks
    BY <1>8 DEF contains, Found
  <2>2. Typed'
    BY <1>1, <2>1 DEF Typed
  <2>3. ~CursorMoved => current_' = current_
    BY <1>8 DEF CursorMoved
  <2>4. WalkAgrees /\ ~CursorMoved => WalkAgrees'
    BY <2>1, <2>3 DEF WalkAgrees, size
  <2>5. QED BY <2>2, <2>4
<1>9. ASSUME NEW object \in Object, remove(object)
      PROVE  Typed' /\ (WalkAgrees => WalkAgrees')
  <2>1. PICK i \in DOMAIN container_ :
            /\ current_' = IF i <= current_ THEN current_ - 1 ELSE current_
            /\ container_' = RemoveAt(container_, i) /\ marks' = RemoveAt(marks, i)
    BY <1>9 DEF remove, Found
  <2>2. /\ container_' \in Seq(Object) /\ Len(container_') = Len(container_) - 1
        /\ marks' \in Seq(Marks) /\ Len(marks') = Len(container_) - 1
        /\ \A k \in 1..Len(container_) - 1 : marks'[k] = IF k < i THEN marks[k] ELSE marks[k + 1]
    BY <1>1, <2>1, RemoveAtFacts
  <2>3. i \in 1..Len(container_)
    BY <1>1
  <2>4. Typed'
    BY <1>1, <2>1, <2>2, <2>3 DEF Typed
  <2>5. WalkAgrees => WalkAgrees'
    <3>1. SUFFICES ASSUME WalkAgrees PROVE WalkAgrees'
      OBVIOUS
    <3>2. /\ current_ <= Len(container_) /\ current_' <= Len(container_) - 1
          /\ DOMAIN container_' = 1..Len(container_) - 1
      BY <1>1, <2>1, <2>2, <2>3, <3>1 DEF WalkAgrees, size
    <3>3. ASSUME NEW k \in 1..Len(container_) - 1
          PROVE  /\ k <= current_' => marks'[k] # "waiting"
                 /\ k > current_' => marks'[k] # "returned"
      <4>1. CASE k < i
        <5>1. marks'[k] = marks[k] /\ k \in DOMAIN container_ /\ (k <= current_' <=> k <= current_)
          BY <1>1, <2>1, <2>2, <2>3, <4>1
        <5>2. QED BY <1>1, <2>1, <3>1, <5>1 DEF WalkAgrees
      <4>2. CASE ~(k < i)
        <5>1. /\ marks'[k] = marks[k + 1] /\ k + 1 \in DOMAIN container_
              /\ k <= current_' <=> k + 1 <= current_
          BY <1>1, <2>1, <2>2, <2>3, <4>2
        <5>2. QED BY <1>1, <2>1, <3>1, <5>1 DEF WalkAgrees
      <4>3. QED BY <4>1, <4>2
    <3>4. QED BY <2>2, <3>2, <3>3 DEF WalkAgrees, size
  <2>6. QED BY <2>4, <2>5
<1>10. ASSUME NEW object \in Object, add_head(object)
      PROVE  Typed' /\ (WalkAgrees => WalkAgrees')
  <2>1. /\ container_' = <<object>> \o container_ /\ marks' = <<"new">> \o marks
        /\ current_' = IF current_ # 0 THEN current_ + 1 ELSE 0
    BY <1>10 DEF add_head
  <2>2. /\ container_' \in Seq(Object) /\ Len(container_') = Len(container_) + 1
        /\ marks' \in Seq(Marks) /\ Len(marks') = Len(container_) + 1
        /\ \A i \in 1..Len(container_) + 1 : marks'[i] = IF i = 1 THEN "new" ELSE marks[i - 1]
    BY <1>1, <2>1 DEF Marks
  <2>3. Typed'
    BY <1>1, <2>1, <2>2 DEF Typed
  <2>4. WalkAgrees => WalkAgrees'
    BY <1>1, <2>1, <2>2 DEF WalkAgrees, size
  <2>5. QED BY <2>3, <2>4
<1>11. ASSUME NEW object \in Object, add_tail(object)
      PROVE  Typed' /\ (WalkAgrees => WalkAgrees')
  <2>1. /\ container_' = Append(container_, object) /\ marks' = Append(marks, "new")
        /\ current_' = current_
    BY <1>11 DEF add_tail
  <2>2. /\ container_' \in Seq(Object) /\ Len(container_') = Len(container_) + 1
        /\ marks' \in Seq(Marks) /\ Len(marks') = Len(container_) + 1
        /\ \A i \in 1..Len(container_) + 1 :
             marks'[i] = IF i = Len(container_) + 1 THEN "new" ELSE marks[i]
    BY <1>1, <2>1 DEF Marks
  <2>3. Typed'
    BY <1>1, <2>1, <2>2 DEF Typed
  <2>4. WalkAgrees => WalkAgrees'
    BY <1>1, <2>1, <2>2 DEF WalkAgrees, size
  <2>5. QED BY <2>3, <2>4
<1>12. ASSUME NEW object \in Object, NEW i \in DOMAIN container_, Assign(i, object)
      PROVE  Typed' /\ (WalkAgrees => WalkAgrees')
  <2>1. /\ container_' = [container_ EXCEPT ![i] = object] /\ current_' = current_
        /\ marks' = [marks EXCEPT ![i] = "new"]
    BY <1>12 DEF Assign
  <2>2. /\ container_' \in Seq(Object) /\ Len(container_') = Len(container_)
        /\ marks' \in Seq(Marks) /\ Len(marks') = Len(container_)
        /\ \A k \in 1..Len(container_) :
             marks'[k] = IF k = i THEN "new" ELSE marks[k]
    BY <1>1, <2>1 DEF Marks
  <2>3. Typed'
    BY <1>1, <2>1, <2>2 DEF Typed
  <2>4. WalkAgrees => WalkAgrees'
    BY <1>1, <2>1, <2>2 DEF WalkAgrees, size
  <2>5. QED BY <2>3, <2>4
<1>13. ASSUME NEW from \in DOMAIN container_, NEW to \in DOMAIN container_, from <= to, erase(from, to)
      PROVE  Typed' /\ (WalkAgrees /\ ~CursorMoved => WalkAgrees')
  <2>1. /\ container_' = Without(container_, from, to) /\ marks' = Without(marks, from, to)
        /\ current_' = 0
    BY <1>13 DEF erase
  <2>2. /\ container_' \in Seq(Object)
        /\ Len(container_') = Len(container_) - (to - from + 1)
    BY <1>1, <1>13, <2>1, WithoutFacts
  <2>3. /\ marks' \in Seq(Marks)
        /\ Len(marks') = Len(marks) - (to - from + 1)
        /\ \A k \in 1..Len(marks') : \E j \in 1..Len(marks) : marks'[k] = marks[j]
    <3>1. from \in 1..Len(marks) /\ to \in 1..Len(marks)
      BY <1>1
    <3>2. marks \in Seq(Marks) /\ from <= to
      BY <1>1, <1>13
    <3>3. marks' \in Seq(Marks) /\ Len(marks') = Len(marks) - (to - from + 1)
      BY <2>1, <3>1, <3>2, WithoutFacts
    <3>4. ASSUME NEW k \in 1..Len(marks')
          PROVE  \E j \in 1..Len(marks) : marks'[k] = marks[j]
      <4>1. k \in 1..Len(Without(marks, from, to)) /\ k \in Nat
        BY <2>1, <3>4
      <4>2. /\ k < from => k \in 1..Len(marks) /\ Without(marks, from, to)[k] = marks[k]
            /\ k >= from => /\ k + (to - from + 1) \in 1..Len(marks)
                            /\ Without(marks, from, to)[k] = marks[k + (to - from + 1)]
        BY <3>1, <3>2, <4>1, WithoutFrom
      <4>3. from \in Nat
        BY <3>1
      <4>4. QED BY <2>1, <4>1, <4>2, <4>3
    <3>5. QED BY <3>3, <3>4
  <2>4. Typed'
    BY <1>1, <2>1, <2>2, <2>3 DEF Typed
  <2>5. WalkAgrees /\ ~CursorMoved => WalkAgrees'
    <3>1. SUFFICES ASSUME WalkAgrees, ~CursorMoved PROVE WalkAgrees'
      OBVIOUS
    <3>2. ~(current_ > 0)
      BY <1>13, <3>1 DEF CursorMoved
    <3>3. \A j \in 1..Len(marks) : marks[j] # "returned"
      BY <1>1, <3>1, <3>2 DEF WalkAgrees
    <3>4. \A i \in 1..Len(container_') : marks'[i] # "returned"
      BY <1>1, <2>2, <2>3, <3>3
    <3>5. QED BY <2>1, <2>2, <3>4, WalkAtStart
  <2>6. QED BY <2>4, <2>5
<1>14. QED
  BY <1>2, <1>3, <1>4, <1>5, <1>6, <1>7, <1>8, <1>9, <1>10, <1>11, <1>12, <1>13 DEF Next

\* Every reachable list is typed.
LEMMA SpecTyped == Spec => []Typed
<1>1. Init => Typed
  BY DEF Init, Typed
<1>2. Typed /\ [Next]_vars => Typed'
  BY CallKeepsWalk DEF Typed, vars
<1>3. QED BY <1>1, <1>2, PTL DEF Spec

\* For every list: the cursor never runs below the first slot, and every slot
\* that is left has its mark.
THEOREM ListIsTyped == Spec => []TypeOK
BY SpecTyped, TypedIsTypeOK, PTL

\* For every list: a walk with first() and next() returns no element twice and
\* misses none that stays, but for the two cases of remove_tail, a lookup that
\* moves the cursor, and a sort or an erasure in the middle of it.
THEOREM WalksAreKept == Spec => CallsKeepWalk
<1>1. Typed /\ [Next]_vars => [WalkAgrees /\ ~TailMisjudged /\ ~CursorMoved => WalkAgrees']_vars
  BY CallKeepsWalk
<1>2. QED BY SpecTyped, <1>1, PTL DEF Spec, CallsKeepWalk
=============================================================================
