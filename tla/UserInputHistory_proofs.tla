---------------------- MODULE UserInputHistory_proofs -----------------------
(***************************************************************************)
(* For every capacity and every set of values, the indices of a ring stay  *)
(* coherent and it implements BoundedDeque.  For every input and file of   *)
(* the history on top of it, the arrow keys stay on entries that exist,    *)
(* nothing is repeated or lost, and a load brings back what was saved.     *)
(***************************************************************************)
EXTENDS UserInputHistory, CircularBufferCalls, TLAPS

-----------------------------------------------------------------------------
(* Arithmetic of the wrap-around.                                          *)

\* Below the capacity the remainder is the number itself.
LEMMA ModBelow ==
    ASSUME NEW x \in 0..N-1
    PROVE  x % N = x
BY NAssumption

\* One lap above it, the remainder is the number less the capacity.
LEMMA ModAbove ==
    ASSUME NEW x \in N..2*N-1
    PROVE  x % N = x - N
BY NAssumption

\* Inc and Dec without the remainder: they wrap at the two ends of the array.
LEMMA IncDec ==
    ASSUME NEW i \in 0..N-1
    PROVE  /\ Inc(i) = IF i = N - 1 THEN 0 ELSE i + 1
           /\ Dec(i) = IF i = 0 THEN N - 1 ELSE i - 1
<1>1. Inc(i) = IF i = N - 1 THEN 0 ELSE i + 1
  <2>1. CASE i = N - 1
    BY <2>1, ModAbove, NAssumption DEF Inc
  <2>2. CASE i # N - 1
    BY <2>2, ModBelow, NAssumption DEF Inc
  <2>3. QED BY <2>1, <2>2
<1>2. Dec(i) = IF i = 0 THEN N - 1 ELSE i - 1
  <2>1. CASE i = 0
    BY <2>1, ModBelow, NAssumption DEF Dec
  <2>2. CASE i # 0
    <3>1. (i + N) - 1 \in N..2*N-1
      BY <2>2, NAssumption
    <3>2. ((i + N) - 1) % N = ((i + N) - 1) - N
      BY <3>1, ModAbove
    <3>3. QED BY <2>2, <3>2, NAssumption DEF Dec
  <2>3. QED BY <2>1, <2>2
<1>3. QED BY <1>1, <1>2

\* The array slot of the k-th element counted from the oldest.
Slot(tail, k) == IF tail + k < N THEN tail + k ELSE (tail + k) - N

\* operator[] reads the slot that many places past the oldest element, and what
\* it returns is a value of the element type.
LEMMA AtSlot ==
    ASSUME NEW r \in Ring, NEW k \in 0..N-1
    PROVE  /\ At(r, k) = r.buffer[Slot(r.tail, k)]
           /\ Slot(r.tail, k) \in 0..N-1
           /\ At(r, k) \in T
<1>1. r.tail \in 0..N-1 /\ r.buffer \in [0..N-1 -> T]
  BY DEF Ring
<1>2. Slot(r.tail, k) \in 0..N-1
  BY <1>1, NAssumption DEF Slot
<1>3. (r.tail + k) % N = Slot(r.tail, k)
  <2>1. CASE r.tail + k < N
    <3>1. r.tail + k \in 0..N-1
      BY <1>1, <2>1, NAssumption
    <3>2. QED BY <2>1, <3>1, ModBelow DEF Slot
  <2>2. CASE ~(r.tail + k < N)
    <3>1. r.tail + k \in N..2*N-1
      BY <1>1, <2>2, NAssumption
    <3>2. QED BY <2>2, <3>1, ModAbove DEF Slot
  <2>3. QED BY <2>1, <2>2
<1>4. QED BY <1>1, <1>2, <1>3 DEF At

-----------------------------------------------------------------------------
(* The invariant.                                                          *)

\* A ring a caller can hold: well typed, with its flag raised only when the
\* two indices meet.
Coherent(r) == r \in Ring /\ (r.full => r.head = r.tail)

\* A buffer just constructed is coherent.
LEMMA EmptyRingCoherent == Coherent(EmptyRing)
BY NAssumption, TAssumption DEF Coherent, EmptyRing, Ring

\* Every mutating method keeps a coherent ring coherent.
LEMMA WritesKeepCoherent ==
    ASSUME NEW r, Coherent(r), NEW v \in T
    PROVE  /\ Coherent(PushFront(r, v))
           /\ Coherent(PushBack(r, v))
           /\ Coherent(PopFront(r))
           /\ Coherent(PopBack(r))
           /\ Coherent(Clear(r))
<1>1. \A i \in 0..N-1 : Inc(i) \in 0..N-1 /\ Dec(i) \in 0..N-1
  BY IncDec, NAssumption
<1>2. Coherent(PushFront(r, v))
  BY <1>1 DEF Coherent, Ring, PushFront
<1>3. Coherent(PushBack(r, v))
  BY <1>1 DEF Coherent, Ring, PushBack
<1>4. Coherent(PopFront(r))
  BY <1>1 DEF Coherent, Ring, PopFront
<1>5. Coherent(PopBack(r))
  BY <1>1 DEF Coherent, Ring, PopBack
<1>6. Coherent(Clear(r))
  BY DEF Coherent, Ring, Clear
<1>7. QED BY <1>2, <1>3, <1>4, <1>5, <1>6

\* What the readers return is a value of the element type.
LEMMA ReadsTyped ==
    ASSUME NEW r \in Ring
    PROVE  /\ Front(r) \in T
           /\ Back(r) \in T
           /\ \A index \in 0..N-1 : At(r, index) \in T
<1>1. Dec(r.head) \in 0..N-1
  BY IncDec, NAssumption DEF Ring
<1>2. QED BY <1>1, AtSlot DEF Ring, Front, Back

-----------------------------------------------------------------------------
(* The refinement: what each method does to the reachable elements.        *)

\* size() counts up to the capacity, reaches it exactly when the buffer is full
\* and is zero exactly when it is empty; the newest end is that many slots past
\* the oldest.
LEMMA SizeFacts ==
    ASSUME NEW r, Coherent(r)
    PROVE  /\ Size(r) \in 0..N
           /\ Size(r) = N <=> r.full
           /\ Size(r) = 0 <=> Empty(r)
           /\ ~r.full => r.head = Slot(r.tail, Size(r))
BY NAssumption DEF Coherent, Ring, Size, Empty, Slot

\* The reachable elements, slot by slot.
LEMMA ItemsFacts ==
    ASSUME NEW r, Coherent(r)
    PROVE  /\ Items(r) \in Seq(T)
           /\ Len(Items(r)) = Size(r)
           /\ DOMAIN Items(r) = 1..Size(r)
           /\ \A k \in 1..Size(r) : Items(r)[k] = r.buffer[Slot(r.tail, k - 1)]
<1>1. Size(r) \in 0..N /\ r \in Ring
  BY SizeFacts DEF Coherent
<1>2. \A k \in 1..Size(r) : k - 1 \in 0..N-1
  BY <1>1, NAssumption
<1>3. \A k \in 1..Size(r) : At(r, k - 1) = r.buffer[Slot(r.tail, k - 1)] /\ At(r, k - 1) \in T
  BY <1>1, <1>2, AtSlot
<1>4. QED BY <1>1, <1>3 DEF Items

\* Two sequences are the same when they have the same length and elements.
LEMMA SameElements ==
    ASSUME NEW S, NEW s \in Seq(S), NEW t \in Seq(S), Len(s) = Len(t),
           \A k \in 1..Len(s) : s[k] = t[k]
    PROVE  s = t
OBVIOUS

\* push_back() appends to the reachable elements, and drops the oldest of them
\* when the buffer is full.
LEMMA PushBackItems ==
    ASSUME NEW r, Coherent(r), NEW v \in T
    PROVE  Items(PushBack(r, v)) =
             Append(IF Len(Items(r)) = N THEN Tail(Items(r)) ELSE Items(r), v)
<1> DEFINE q == PushBack(r, v)
           kept == IF Len(Items(r)) = N THEN Tail(Items(r)) ELSE Items(r)
<1>1. Coherent(q)
  BY WritesKeepCoherent
<1>2. /\ r \in Ring
      /\ r.head \in 0..N-1 /\ r.tail \in 0..N-1 /\ r.full \in BOOLEAN
      /\ r.full => r.head = r.tail
  BY DEF Coherent, Ring
<1>3. /\ q.head = IF r.head = N - 1 THEN 0 ELSE r.head + 1
      /\ q.tail = IF r.full THEN (IF r.tail = N - 1 THEN 0 ELSE r.tail + 1) ELSE r.tail
      /\ q.full = (q.head = q.tail)
      /\ q.buffer = [r.buffer EXCEPT ![r.head] = v]
  BY <1>2, IncDec DEF PushBack
<1>4. Size(q) = IF r.full THEN N ELSE Size(r) + 1
  <2>1. CASE r.full
    <3>1. q.full
      BY <1>2, <1>3, <2>1
    <3>2. QED BY <2>1, <3>1 DEF Size
  <2>2. CASE ~r.full
    <3>1. CASE q.head = q.tail
      <4>1. q.full
        BY <1>3, <3>1
      <4>2. Size(r) + 1 = N
        BY <1>2, <1>3, <2>2, <3>1, NAssumption DEF Size
      <4>3. QED BY <2>2, <4>1, <4>2 DEF Size
    <3>2. CASE q.head # q.tail
      <4>1. ~q.full
        BY <1>3, <3>2
      <4>2. QED BY <1>2, <1>3, <2>2, <3>2, <4>1, NAssumption DEF Size
    <3>3. QED BY <3>1, <3>2
  <2>3. QED BY <2>1, <2>2
<1>5. \A i \in 0..N-1 : q.buffer[i] = IF i = r.head THEN v ELSE r.buffer[i]
  BY <1>2, <1>3 DEF Ring
<1>6. kept \in Seq(T) /\ Len(kept) = Size(q) - 1
  BY <1>4, SizeFacts, ItemsFacts, NAssumption
<1>7. \A k \in 1..Size(q)-1 : kept[k] = q.buffer[Slot(q.tail, k - 1)]
  <2> SUFFICES ASSUME NEW k \in 1..Size(q)-1
               PROVE  kept[k] = q.buffer[Slot(q.tail, k - 1)]
    OBVIOUS
  <2>1. CASE r.full
    <3>1. kept[k] = r.buffer[Slot(r.tail, k)]
      BY <1>4, <2>1, SizeFacts, ItemsFacts, NAssumption
    <3>2. Slot(q.tail, k - 1) = Slot(r.tail, k) /\ Slot(r.tail, k) # r.head
          /\ Slot(r.tail, k) \in 0..N-1
      BY <1>2, <1>3, <1>4, <2>1, NAssumption DEF Slot
    <3>3. QED BY <1>5, <3>1, <3>2
  <2>2. CASE ~r.full
    <3>1. kept[k] = r.buffer[Slot(r.tail, k - 1)]
      BY <1>4, <2>2, SizeFacts, ItemsFacts, NAssumption
    <3>2. Slot(r.tail, k - 1) # r.head /\ Slot(r.tail, k - 1) \in 0..N-1
      BY <1>2, <1>4, <2>2, SizeFacts, NAssumption DEF Slot
    <3>3. QED BY <1>3, <1>5, <2>2, <3>1, <3>2
  <2>3. QED BY <1>2, <2>1, <2>2
<1>8. q.buffer[Slot(q.tail, Size(q) - 1)] = v
  <2>1. Slot(q.tail, Size(q) - 1) = r.head
    BY <1>2, <1>3, <1>4, SizeFacts, NAssumption DEF Slot
  <2>2. QED BY <1>2, <1>5, <2>1
<1>9. QED
  <2>1. Append(kept, v) \in Seq(T) /\ Len(Append(kept, v)) = Size(q)
    BY <1>1, <1>6, SizeFacts, NAssumption
  <2>2. Items(q) \in Seq(T) /\ Len(Items(q)) = Size(q) /\ Size(q) \in Nat
    BY <1>1, ItemsFacts, SizeFacts
  <2>3. \A k \in 1..Size(q) : Items(q)[k] = Append(kept, v)[k]
    <3> SUFFICES ASSUME NEW k \in 1..Size(q) PROVE Items(q)[k] = Append(kept, v)[k]
      OBVIOUS
    <3>1. Items(q)[k] = q.buffer[Slot(q.tail, k - 1)]
      BY <1>1, ItemsFacts
    <3>2. CASE k = Size(q)
      BY <1>6, <1>8, <2>2, <3>1, <3>2
    <3>3. CASE k # Size(q)
      BY <1>6, <1>7, <2>2, <3>1, <3>3
    <3>4. QED BY <3>2, <3>3
  <2>4. QED BY <2>1, <2>2, <2>3, SameElements

\* push_front() prepends to the reachable elements, and drops the newest of them
\* when the buffer is full.
LEMMA PushFrontItems ==
    ASSUME NEW r, Coherent(r), NEW v \in T
    PROVE  Items(PushFront(r, v)) =
             <<v>> \o (IF Len(Items(r)) = N THEN SubSeq(Items(r), 1, N - 1) ELSE Items(r))
<1> DEFINE q == PushFront(r, v)
           kept == IF Len(Items(r)) = N THEN SubSeq(Items(r), 1, N - 1) ELSE Items(r)
<1>1. Coherent(q)
  BY WritesKeepCoherent
<1>2. /\ r \in Ring
      /\ r.head \in 0..N-1 /\ r.tail \in 0..N-1 /\ r.full \in BOOLEAN
      /\ r.full => r.head = r.tail
  BY DEF Coherent, Ring
<1>3. /\ q.tail = IF r.tail = 0 THEN N - 1 ELSE r.tail - 1
      /\ q.head = IF r.full THEN (IF r.head = 0 THEN N - 1 ELSE r.head - 1) ELSE r.head
      /\ q.full = (q.head = q.tail)
      /\ q.buffer = [r.buffer EXCEPT ![q.tail] = v]
      /\ q.tail \in 0..N-1
  BY <1>2, IncDec, NAssumption DEF PushFront
<1>4. Size(q) = IF r.full THEN N ELSE Size(r) + 1
  <2>1. CASE r.full
    <3>1. q.full
      BY <1>2, <1>3, <2>1
    <3>2. QED BY <2>1, <3>1 DEF Size
  <2>2. CASE ~r.full
    <3>1. CASE q.head = q.tail
      <4>1. q.full
        BY <1>3, <3>1
      <4>2. Size(r) + 1 = N
        BY <1>2, <1>3, <2>2, <3>1, NAssumption DEF Size
      <4>3. QED BY <2>2, <4>1, <4>2 DEF Size
    <3>2. CASE q.head # q.tail
      <4>1. ~q.full
        BY <1>3, <3>2
      <4>2. QED BY <1>2, <1>3, <2>2, <3>2, <4>1, NAssumption DEF Size
    <3>3. QED BY <3>1, <3>2
  <2>3. QED BY <2>1, <2>2
<1>5. \A i \in 0..N-1 : q.buffer[i] = IF i = q.tail THEN v ELSE r.buffer[i]
  BY <1>2, <1>3 DEF Ring
<1>6. /\ kept \in Seq(T)
      /\ Len(kept) = Size(q) - 1
      /\ \A k \in 1..Size(q)-1 : kept[k] = r.buffer[Slot(r.tail, k - 1)]
  <2>1. /\ Size(r) \in 0..N /\ (Size(r) = N <=> r.full) /\ N \in Nat \ {0}
        /\ Items(r) \in Seq(T) /\ Len(Items(r)) = Size(r)
        /\ \A k \in 1..Size(r) : Items(r)[k] = r.buffer[Slot(r.tail, k - 1)]
    BY SizeFacts, ItemsFacts, NAssumption
  <2>2. CASE Size(r) = N
    <3>1. kept = SubSeq(Items(r), 1, N - 1) /\ Size(q) = N
      BY <1>4, <2>1, <2>2
    <3>2. /\ SubSeq(Items(r), 1, N - 1) \in Seq(T) /\ Len(SubSeq(Items(r), 1, N - 1)) = N - 1
          /\ \A k \in 1..N-1 : SubSeq(Items(r), 1, N - 1)[k] = Items(r)[k]
      BY <2>1, <2>2
    <3>3. QED BY <2>1, <2>2, <3>1, <3>2
  <2>3. CASE Size(r) # N
    <3>1. kept = Items(r) /\ Size(q) = Size(r) + 1
      BY <1>4, <2>1, <2>3
    <3>2. QED BY <2>1, <3>1
  <2>4. QED BY <2>2, <2>3
<1>7. \A k \in 2..Size(q) : q.buffer[Slot(q.tail, k - 1)] = r.buffer[Slot(r.tail, k - 2)]
  <2> SUFFICES ASSUME NEW k \in 2..Size(q)
               PROVE  q.buffer[Slot(q.tail, k - 1)] = r.buffer[Slot(r.tail, k - 2)]
    OBVIOUS
  <2>1. k \in 2..N
    BY <1>1, SizeFacts, NAssumption
  <2>2. /\ Slot(q.tail, k - 1) = Slot(r.tail, k - 2)
        /\ Slot(q.tail, k - 1) # q.tail
        /\ Slot(q.tail, k - 1) \in 0..N-1
    BY <1>2, <1>3, <2>1, NAssumption DEF Slot
  <2>3. QED BY <1>5, <2>2
<1>8. q.buffer[Slot(q.tail, 0)] = v
  BY <1>3, <1>5, NAssumption DEF Slot
<1>9. QED
  <2>1. Size(q) \in 1..N
    BY <1>4, SizeFacts, NAssumption
  <2>2. /\ <<v>> \o kept \in Seq(T)
        /\ Len(<<v>> \o kept) = Size(q)
    BY <1>6, <2>1
  <2>3. Items(q) \in Seq(T) /\ Len(Items(q)) = Size(q)
    BY <1>1, ItemsFacts
  <2>4. \A k \in 1..Size(q) : Items(q)[k] = (<<v>> \o kept)[k]
    <3> SUFFICES ASSUME NEW k \in 1..Size(q) PROVE Items(q)[k] = (<<v>> \o kept)[k]
      OBVIOUS
    <3>1. Items(q)[k] = q.buffer[Slot(q.tail, k - 1)]
      BY <1>1, ItemsFacts
    <3>2. CASE k = 1
      BY <1>6, <1>8, <2>1, <3>1, <3>2
    <3>3. CASE k # 1
      <4>1. k \in 2..Size(q) /\ k - 1 \in 1..Size(q)-1 /\ (k - 1) - 1 = k - 2
        BY <2>1, <3>3
      <4>2. (<<v>> \o kept)[k] = kept[k - 1]
        BY <1>6, <2>1, <4>1
      <4>3. QED BY <1>6, <1>7, <3>1, <4>1, <4>2
    <3>4. QED BY <3>2, <3>3
  <2>5. QED BY <2>1, <2>2, <2>3, <2>4, SameElements

\* pop_front() removes the oldest reachable element, and does nothing to an
\* empty buffer.
LEMMA PopFrontItems ==
    ASSUME NEW r, Coherent(r)
    PROVE  Items(PopFront(r)) = IF Items(r) = <<>> THEN Items(r) ELSE Tail(Items(r))
<1> DEFINE q == PopFront(r)
<1>1. Coherent(q)
  BY WritesKeepCoherent, TAssumption
<1>2. Items(r) = <<>> <=> Empty(r)
  BY SizeFacts, ItemsFacts
<1>3. CASE Empty(r)
  BY <1>2, <1>3 DEF PopFront
<1>4. CASE ~Empty(r)
  <2>1. /\ r \in Ring /\ r.full \in BOOLEAN
        /\ r.head \in 0..N-1 /\ r.tail \in 0..N-1
        /\ r.full => r.head = r.tail
        /\ ~r.full => r.head # r.tail
    BY <1>4 DEF Coherent, Ring, Empty
  <2>2. /\ q.tail = IF r.tail = N - 1 THEN 0 ELSE r.tail + 1
        /\ q.head = r.head
        /\ q.full = FALSE
        /\ q.buffer = r.buffer
    BY <1>4, <2>1, IncDec DEF PopFront, Ring
  <2>3. Size(q) = Size(r) - 1
    BY <2>1, <2>2, NAssumption DEF Size
  <2>4. Size(r) \in 1..N
    BY <1>4, SizeFacts, NAssumption
  <2>5. /\ Tail(Items(r)) \in Seq(T)
        /\ Len(Tail(Items(r))) = Size(q)
        /\ \A k \in 1..Size(q) : Tail(Items(r))[k] = r.buffer[Slot(r.tail, k)]
    BY <2>3, <2>4, ItemsFacts
  <2>6. \A k \in 1..Size(q) : Slot(q.tail, k - 1) = Slot(r.tail, k)
    BY <2>1, <2>2, <2>3, <2>4, NAssumption DEF Slot
  <2>7. Items(q) = Tail(Items(r))
    BY <1>1, <2>2, <2>5, <2>6, ItemsFacts, SameElements
  <2>8. QED BY <1>2, <1>4, <2>7
<1>5. QED BY <1>3, <1>4

\* pop_back() removes the newest reachable element, and does nothing to an empty
\* buffer.
LEMMA PopBackItems ==
    ASSUME NEW r, Coherent(r)
    PROVE  Items(PopBack(r)) =
             IF Items(r) = <<>> THEN Items(r) ELSE SubSeq(Items(r), 1, Len(Items(r)) - 1)
<1> DEFINE q == PopBack(r)
           kept == SubSeq(Items(r), 1, Len(Items(r)) - 1)
<1>1. Coherent(q)
  BY WritesKeepCoherent, TAssumption
<1>2. Items(r) = <<>> <=> Empty(r)
  BY SizeFacts, ItemsFacts
<1>3. CASE Empty(r)
  BY <1>2, <1>3 DEF PopBack
<1>4. CASE ~Empty(r)
  <2>1. /\ r \in Ring /\ r.full \in BOOLEAN
        /\ r.head \in 0..N-1 /\ r.tail \in 0..N-1
        /\ r.full => r.head = r.tail
        /\ ~r.full => r.head # r.tail
    BY <1>4 DEF Coherent, Ring, Empty
  <2>2. /\ q.head = IF r.head = 0 THEN N - 1 ELSE r.head - 1
        /\ q.tail = r.tail
        /\ q.full = FALSE
        /\ q.buffer = r.buffer
    BY <1>4, <2>1, IncDec DEF PopBack, Ring
  <2>3. Size(q) = Size(r) - 1
    BY <2>1, <2>2, NAssumption DEF Size
  <2>4. Size(r) \in 1..N
    BY <1>4, SizeFacts, NAssumption
  <2>5. /\ kept \in Seq(T)
        /\ Len(kept) = Size(q)
        /\ \A k \in 1..Size(q) : kept[k] = r.buffer[Slot(r.tail, k - 1)]
    <3>1. Items(r) \in Seq(T) /\ Len(Items(r)) = Size(r) /\ Size(q) \in 0..N /\ Size(q) < Size(r)
      BY <2>3, <2>4, ItemsFacts, NAssumption
    <3>2. kept = SubSeq(Items(r), 1, Size(q))
      BY <2>3, <3>1
    <3>3. kept \in Seq(T) /\ Len(kept) = Size(q)
      BY <2>4, <3>1, <3>2, NAssumption
    <3>4. \A k \in 1..Size(q) : kept[k] = Items(r)[k] /\ k \in 1..Size(r)
      BY <2>4, <3>1, <3>2, NAssumption
    <3>5. QED BY <3>3, <3>4, ItemsFacts
  <2>6. Items(q) = kept
    BY <1>1, <2>2, <2>5, ItemsFacts, SameElements
  <2>7. QED BY <1>2, <1>4, <2>6
<1>5. QED BY <1>3, <1>4

\* clear() leaves no element within reach, whatever stays in the array.
LEMMA ClearItems ==
    ASSUME NEW r, Coherent(r)
    PROVE  Items(Clear(r)) = <<>>
<1>1. Coherent(Clear(r))
  BY WritesKeepCoherent, TAssumption
<1>2. Empty(Clear(r))
  BY DEF Clear, Empty, Coherent, Ring
<1>3. QED BY <1>1, <1>2, SizeFacts, ItemsFacts

\* A read returns the element the deque holds at that place.
LEMMA ReadsRefine ==
    ASSUME NEW r, Coherent(r)
    PROVE  /\ Items(r) # <<>> => Front(r) = Items(r)[1]
           /\ Items(r) # <<>> => Back(r) = Items(r)[Len(Items(r))]
           /\ \A index \in 0..N-1 :
                 index + 1 \in DOMAIN Items(r) => At(r, index) = Items(r)[index + 1]
<1>1. /\ r \in Ring /\ r.full \in BOOLEAN
      /\ r.head \in 0..N-1 /\ r.tail \in 0..N-1
      /\ r.full => r.head = r.tail
  BY DEF Coherent, Ring
<1>2. Items(r) # <<>> => Size(r) \in 1..N
  BY SizeFacts, ItemsFacts, NAssumption
<1>3. Items(r) # <<>> => Front(r) = Items(r)[1]
  <2>1. Slot(r.tail, 0) = r.tail
    BY <1>1, NAssumption DEF Slot
  <2>2. QED BY <1>2, <2>1, ItemsFacts, NAssumption DEF Front
<1>4. Items(r) # <<>> => Back(r) = Items(r)[Len(Items(r))]
  <2> SUFFICES ASSUME Items(r) # <<>> PROVE Back(r) = Items(r)[Len(Items(r))]
    OBVIOUS
  <2>1. Dec(r.head) = IF r.head = 0 THEN N - 1 ELSE r.head - 1
    BY <1>1, IncDec
  <2>2. Dec(r.head) = Slot(r.tail, Size(r) - 1)
    <3>1. CASE r.full
      BY <1>1, <2>1, <3>1, SizeFacts, NAssumption DEF Slot
    <3>2. CASE ~r.full
      BY <1>1, <1>2, <2>1, <3>2, SizeFacts, NAssumption DEF Slot
    <3>3. QED BY <3>1, <3>2
  <2>3. QED BY <1>2, <2>2, ItemsFacts, NAssumption DEF Back
<1>5. \A index \in 0..N-1 :
        index + 1 \in DOMAIN Items(r) => At(r, index) = Items(r)[index + 1]
  BY NAssumption DEF Items
<1>6. QED BY <1>3, <1>4, <1>5

-----------------------------------------------------------------------------
(* The object under every sequence of calls.                               *)

RingInv == CallsTypeOK /\ FullMeansIndicesMeet

\* RingInv holds of a new buffer and is preserved by every call.
LEMMA RingInvInductive ==
    /\ CallsInit => RingInv
    /\ RingInv /\ [CallsNext]_callVars => RingInv'
<1>1. CallsInit => RingInv
  BY EmptyRingCoherent, TAssumption
     DEF CallsInit, RingInv, CallsTypeOK, FullMeansIndicesMeet, Coherent
<1>2. RingInv /\ [CallsNext]_callVars => RingInv'
  <2> SUFFICES ASSUME RingInv, [CallsNext]_callVars PROVE RingInv'
    OBVIOUS
  <2>1. Coherent(ring) /\ ret \in T
    BY DEF RingInv, CallsTypeOK, FullMeansIndicesMeet, Coherent
  <2>2. SUFFICES Coherent(ring') /\ ret' \in T
    BY DEF RingInv, CallsTypeOK, FullMeansIndicesMeet, Coherent
  <2>3. \A r : Coherent(r) => Front(r) \in T /\ Back(r) \in T
    BY ReadsTyped DEF Coherent
  <2>4. ASSUME NEW v \in T, CallPushFront(v) PROVE Coherent(ring') /\ ret' \in T
    BY <2>1, <2>3, <2>4, WritesKeepCoherent DEF CallPushFront
  <2>5. ASSUME NEW v \in T, CallPushBack(v) PROVE Coherent(ring') /\ ret' \in T
    BY <2>1, <2>3, <2>5, WritesKeepCoherent DEF CallPushBack
  <2>6. CASE CallPopFront
    BY <2>1, <2>6, WritesKeepCoherent DEF CallPopFront
  <2>7. CASE CallPopBack
    BY <2>1, <2>7, WritesKeepCoherent DEF CallPopBack
  <2>8. CASE CallClear
    BY <2>1, <2>8, WritesKeepCoherent DEF CallClear
  <2>9. CASE CallFront
    BY <2>1, <2>3, <2>9 DEF CallFront
  <2>10. CASE CallBack
    BY <2>1, <2>3, <2>10 DEF CallBack
  <2>11. ASSUME NEW index \in 0..N-1, CallAt(index) PROVE Coherent(ring') /\ ret' \in T
    BY <2>1, <2>11, ReadsTyped DEF CallAt, Coherent
  <2>12. CASE UNCHANGED callVars
    BY <2>1, <2>12 DEF callVars
  <2>13. QED
    BY <2>4, <2>5, <2>6, <2>7, <2>8, <2>9, <2>10, <2>11, <2>12 DEF CallsNext
<1>3. QED BY <1>1, <1>2

\* For every capacity and element type, no sequence of calls leaves an index
\* outside the array, or returns what is not an element.
THEOREM RingIsTyped == CallsSpec => []CallsTypeOK
<1>1. CallsSpec => []RingInv
  BY RingInvInductive, PTL DEF CallsSpec
<1>2. RingInv => CallsTypeOK
  BY DEF RingInv
<1>3. QED BY <1>1, <1>2, PTL

\* And the flag full_ is never raised while the two indices differ.
THEOREM RingFlagIsRight == CallsSpec => []FullMeansIndicesMeet
<1>1. CallsSpec => []RingInv
  BY RingInvInductive, PTL DEF CallsSpec
<1>2. RingInv => FullMeansIndicesMeet
  BY DEF RingInv
<1>3. QED BY <1>1, <1>2, PTL

-----------------------------------------------------------------------------

\* The invariant of the detailed specification, in the terms of the lemmas.
LEMMA RingInvCoherent == RingInv => Coherent(ring) /\ ret \in T
BY DEF RingInv, CallsTypeOK, FullMeansIndicesMeet, Coherent

\* An initial buffer is an initial deque.
LEMMA DequeInit == CallsInit => Deque!Init
<1> SUFFICES ASSUME CallsInit PROVE Deque!Init
  OBVIOUS
<1>1. Coherent(ring) /\ Empty(ring)
  BY EmptyRingCoherent DEF CallsInit, EmptyRing, Empty
<1>2. Items(ring) = <<>>
  BY <1>1, SizeFacts, ItemsFacts
<1>3. QED BY <1>2, TAssumption DEF CallsInit, Deque!Init

\* Every call does to the deque what the corresponding operation does.
LEMMA DequeNext ==
    ASSUME RingInv, [CallsNext]_callVars
    PROVE  [Deque!Next]_(Deque!vars)
<1>1. Coherent(ring) /\ ret \in T
  BY RingInvCoherent
<1>2. ASSUME NEW v \in T, CallPushFront(v) PROVE Deque!PushFront(v)
  <2>1. Items(ring') = <<v>> \o Deque!DropLast
    BY <1>1, <1>2, PushFrontItems DEF CallPushFront, Deque!DropLast
  <2>2. ret' = v
    <3>1. PushFront(ring, v).buffer[PushFront(ring, v).tail] = v
      BY <1>1, IncDec, NAssumption DEF PushFront, Coherent, Ring
    <3>2. QED BY <1>2, <3>1 DEF CallPushFront, Front
  <2>3. QED BY <2>1, <2>2 DEF Deque!PushFront
<1>3. ASSUME NEW v \in T, CallPushBack(v) PROVE Deque!PushBack(v)
  <2>1. Items(ring') = Append(Deque!DropFirst, v)
    BY <1>1, <1>3, PushBackItems DEF CallPushBack, Deque!DropFirst
  <2>2. ret' = v
    <3>1. ring.head \in 0..N-1 /\ ring.buffer \in [0..N-1 -> T]
      BY <1>1 DEF Coherent, Ring
    <3>2. Dec(Inc(ring.head)) = ring.head
      <4>1. Inc(ring.head) \in 0..N-1
        BY <3>1, IncDec, NAssumption
      <4>2. QED BY <3>1, <4>1, IncDec, NAssumption
    <3>3. PushBack(ring, v).buffer[Dec(PushBack(ring, v).head)] = v
      BY <3>1, <3>2 DEF PushBack
    <3>4. QED BY <1>3, <3>3 DEF CallPushBack, Back
  <2>3. QED BY <2>1, <2>2 DEF Deque!PushBack
<1>4. CASE CallPopFront
  BY <1>1, <1>4, PopFrontItems DEF CallPopFront, Deque!PopFront, Deque!Next
<1>5. CASE CallPopBack
  BY <1>1, <1>5, PopBackItems DEF CallPopBack, Deque!PopBack, Deque!Next
<1>6. CASE CallClear
  BY <1>1, <1>6, ClearItems DEF CallClear, Deque!Clear, Deque!Next
<1>7. Len(Items(ring)) \in 0..N /\ DOMAIN Items(ring) = 1..Len(Items(ring))
  BY <1>1, SizeFacts, ItemsFacts
<1>8. CASE CallFront
  <2>1. Deque!ReadAt(1)
    BY <1>1, <1>7, <1>8, ReadsTyped, ReadsRefine DEF CallFront, Deque!ReadAt, Coherent
  <2>2. 1 \in 1..N
    BY NAssumption
  <2>3. QED BY <2>1, <2>2 DEF Deque!Next
<1>9. CASE CallBack
  <2>1. Deque!ReadAt(Len(Items(ring)))
    BY <1>1, <1>7, <1>9, ReadsTyped, ReadsRefine DEF CallBack, Deque!ReadAt, Coherent
  <2>2. QED BY <2>1 DEF Deque!Next
<1>10. ASSUME NEW index \in 0..N-1, CallAt(index) PROVE Deque!Next
  <2>1. Deque!ReadAt(index + 1)
    BY <1>1, <1>10, ReadsTyped, ReadsRefine DEF CallAt, Deque!ReadAt, Coherent
  <2>2. index + 1 \in 1..N
    BY NAssumption
  <2>3. QED BY <2>1, <2>2 DEF Deque!Next
<1>11. CASE UNCHANGED callVars
  BY <1>11 DEF callVars, Deque!vars
<1>12. QED
  BY <1>2, <1>3, <1>4, <1>5, <1>6, <1>8, <1>9, <1>10, <1>11 DEF CallsNext, Deque!Next

\* For every capacity and element type, CircularBuffer implements the bounded
\* deque: each call changes the reachable elements, and returns, what the
\* deque's operation does.
THEOREM RingImplementsDeque == CallsSpec => ImplementsDeque
<1>1. CallsSpec => []RingInv
  BY RingInvInductive, PTL DEF CallsSpec
<1>2. RingInv /\ [CallsNext]_callVars => [Deque!Next]_(Deque!vars)
  BY DequeNext
<1>3. QED
  BY <1>1, <1>2, DequeInit, PTL DEF CallsSpec, ImplementsDeque, Deque!Spec
-----------------------------------------------------------------------------
(* The arrow keys.                                                         *)

\* While a loop runs no key has been answered since it began, and a file is there
\* for save() to write to.
LoopFacts ==
    /\ mode # "idle" => shown = NoInput
    /\ mode = "saving" => file # NoFile

\* The strengthening: the ring is coherent, which TypeOK does not say, and the
\* loops are where they can be.
IInv ==
    /\ TypeOK
    /\ LoopFacts
    /\ Coherent(history_)
    /\ PositionInRange
    /\ ShownIsReachable

\* Remembering an input keeps the ring coherent.
LEMMA RememberCoherent ==
    ASSUME NEW r, Coherent(r), NEW input \in T
    PROVE  Coherent(Remember(r, input))
BY WritesKeepCoherent DEF Remember

\* The entry at an index below size() is the element operator[] returns.
LEMMA EntryAt ==
    ASSUME NEW r, Coherent(r), NEW i \in 0..Size(r)-1
    PROVE  /\ i + 1 \in DOMAIN Items(r)
           /\ Items(r)[i + 1] = At(r, i)
           /\ At(r, i) \in T
<1>1. Size(r) \in 0..N /\ r \in Ring
  BY SizeFacts DEF Coherent
<1>2. i \in 0..N-1 /\ i + 1 \in 1..Size(r)
  BY <1>1, NAssumption
<1>3. At(r, i) \in T
  BY <1>1, <1>2, AtSlot
<1>4. QED BY <1>2, <1>3 DEF Items

\* The initial states satisfy the inductive invariant.
LEMMA IInvInit == Init => IInv
<1> SUFFICES ASSUME Init PROVE IInv
  OBVIOUS
<1>1. Coherent(history_)
  BY EmptyRingCoherent DEF Init
<1>2. TypeOK
  <2>1. history_ \in Ring
    BY <1>1 DEF Coherent
  <2>2. <<>> \in Seq(T)
    OBVIOUS
  <2>3. file \in Seq(T) \union {NoFile}
    BY FilesAssumption DEF Init
  <2>4. QED BY <2>1, <2>2, <2>3 DEF Init, TypeOK, Modes
<1>3. PositionInRange /\ ShownIsReachable /\ LoopFacts
  BY <1>1, SizeFacts DEF Init, PositionInRange, ShownIsReachable, LoopFacts
<1>4. QED BY <1>1, <1>2, <1>3 DEF IInv

\* Every call, and every step of load() and save(), preserves it.
LEMMA IInvStep == IInv /\ [Next]_vars => IInv'
<1> SUFFICES ASSUME IInv, [Next]_vars PROVE IInv'
  OBVIOUS
<1> USE DEF IInv, TypeOK, Modes, PositionInRange, ShownIsReachable, LoopFacts
<1>1. Size(history_) \in 0..N /\ Items(history_) \in Seq(T)
  BY SizeFacts, ItemsFacts
<1>2. ASSUME NEW input \in T, append(input) PROVE IInv'
  <2>1. Coherent(history_')
    BY <1>2, RememberCoherent DEF append
  <2>2. Size(history_') \in 0..N /\ history_' \in Ring
    BY <2>1, SizeFacts DEF Coherent
  <2>3. position_' \in Nat /\ position_' <= Size(history_')
    BY <1>2, <2>2, NAssumption DEF append
  <2>4. QED BY <1>2, <2>1, <2>2, <2>3 DEF append
<1>3. CASE next
  <2>1. position_' \in Nat /\ position_' <= Size(history_)
    BY <1>1, <1>3, NAssumption DEF next
  <2>2. CASE position_' < Size(history_)
    <3>1. position_' \in 0..Size(history_)-1
      BY <1>1, <2>1, <2>2, NAssumption
    <3>2. QED BY <1>3, <2>1, <2>2, <3>1, EntryAt DEF next
  <2>3. CASE ~(position_' < Size(history_))
    BY <1>3, <2>1, <2>3 DEF next
  <2>4. QED BY <2>2, <2>3
<1>4. CASE previous
  <2>1. CASE position_ > 0
    <3>1. position_' \in 0..Size(history_)-1
      BY <1>1, <1>4, <2>1, NAssumption DEF previous
    <3>2. position_' \in Nat /\ position_' <= Size(history_)
      BY <1>1, <3>1, NAssumption
    <3>3. QED BY <1>4, <2>1, <3>1, <3>2, EntryAt DEF previous
  <2>2. CASE ~(position_ > 0)
    BY <1>4, <2>2 DEF previous
  <2>3. QED BY <2>1, <2>2
<1>5. CASE clear
  <2>0. <<>> \in Seq(T)
    OBVIOUS
  <2>1. Coherent(history_')
    BY <1>5, WritesKeepCoherent, TAssumption DEF clear
  <2>2. Size(history_') \in 0..N /\ history_' \in Ring
    BY <2>1, SizeFacts DEF Coherent
  <2>3. position_' \in Nat /\ position_' <= Size(history_')
    BY <1>5, <2>2, NAssumption DEF clear
  <2>4. file' \in Seq(T) \union {NoFile} /\ saved' \in Seq(T) /\ intact' \in BOOLEAN
    <3>1. CASE file' = NoFile /\ saved' = <<>> /\ intact' = FALSE
      BY <2>0, <3>1
    <3>2. CASE UNCHANGED <<file, saved, intact>>
      BY <3>2
    <3>3. QED BY <1>5, <3>1, <3>2 DEF clear
  <2>5. QED BY <1>5, <2>1, <2>2, <2>3, <2>4 DEF clear
<1>6. CASE LoadBegin
  <2>1. Coherent(history_')
    BY <1>6, WritesKeepCoherent, TAssumption DEF LoadBegin
  <2>2. QED BY <1>6, <2>1 DEF LoadBegin, Coherent
<1>7. CASE LoadLine
  <2>1. Head(lines) \in T /\ Tail(lines) \in Seq(T)
    BY <1>7 DEF LoadLine
  <2>2. Coherent(history_')
    BY <1>7, <2>1, RememberCoherent DEF LoadLine
  <2>3. QED BY <1>7, <2>1, <2>2 DEF LoadLine, Coherent
<1>8. CASE LoadEnd
  <2>1. position_' \in Nat /\ position_' <= Size(history_')
    BY <1>1, <1>8, NAssumption DEF LoadEnd
  <2>2. QED BY <1>8, <2>1 DEF LoadEnd
<1>9. CASE SaveBegin
  <2>1. file' \in Seq(T) /\ file' # NoFile /\ lines' \in Seq(T)
    <3>1. <<>> \in Seq(T)
      OBVIOUS
    <3>2. file' # NoFile
      BY <1>9, <3>1, MarkersAssumption, Zenon DEF SaveBegin
    <3>3. QED BY <1>1, <1>9, <3>1, <3>2 DEF SaveBegin
  <2>2. QED BY <1>9, <2>1 DEF SaveBegin, object
<1>10. CASE SaveLine
  <2>1. /\ file \in Seq(T) /\ file # NoFile
        /\ Head(lines) \in T /\ Tail(lines) \in Seq(T)
    BY <1>10 DEF SaveLine
  <2>2. Append(file, Head(lines)) \in Seq(T) /\ Append(file, Head(lines)) # NoFile
    BY <2>1, MarkersAssumption
  <2>3. QED BY <1>10, <2>1, <2>2 DEF SaveLine, object
<1>11. CASE SaveEnd
  BY <1>1, <1>11 DEF SaveEnd, object
<1>12. CASE SaveFail
  BY <1>12 DEF SaveFail, object
<1>13. CASE Restart
  <2>1. Coherent(history_')
    BY <1>13, EmptyRingCoherent DEF Restart
  <2>2. Size(history_') \in 0..N /\ history_' \in Ring
    BY <2>1, SizeFacts DEF Coherent
  <2>3. QED BY <1>13, <2>1, <2>2 DEF Restart
<1>14. CASE UNCHANGED vars
  BY <1>14 DEF vars
<1>15. QED
  BY <1>2, <1>3, <1>4, <1>5, <1>6, <1>7, <1>8, <1>9, <1>10, <1>11, <1>12, <1>13, <1>14
     DEF Next

\* Every reachable state satisfies it.
LEMMA SpecIInv == Spec => []IInv
BY IInvInit, IInvStep, PTL DEF Spec

\* Whatever the capacity, the inputs and the file, the position the arrow keys
\* move is inside the history or just past it.
THEOREM ArrowKeysStayInHistory == Spec => []PositionInRange
<1>1. IInv => PositionInRange
  BY DEF IInv
<1>2. QED BY SpecIInv, <1>1, PTL

\* And what next() and previous() show is the entry at that position.
THEOREM ArrowKeysShowEntries == Spec => []ShownIsReachable
<1>1. IInv => ShownIsReachable
  BY DEF IInv
<1>2. QED BY SpecIInv, <1>1, PTL

-----------------------------------------------------------------------------
(* What append() and load() remember.                                      *)

\* The history that NoRepeatedNeighbours asks for, as a property of its entries.
Clean(items) ==
    /\ \A k \in DOMAIN items : items[k] \in Valid
    /\ \A k \in DOMAIN items : k + 1 \in DOMAIN items => items[k] # items[k + 1]

\* An entry that differs from the newest one keeps the history clean.
LEMMA AppendClean ==
    ASSUME NEW items \in Seq(T), Clean(items), NEW v \in Valid,
           items # <<>> => items[Len(items)] # v
    PROVE  Clean(Append(items, v))
<1>1. Len(items) \in Nat /\ DOMAIN items = 1..Len(items) /\ v \in T
  BY ValidAssumption
<1>2. /\ DOMAIN Append(items, v) = 1..Len(items) + 1
      /\ Append(items, v)[Len(items) + 1] = v
      /\ \A k \in 1..Len(items) : Append(items, v)[k] = items[k]
  BY <1>1
<1>3. items = <<>> <=> Len(items) = 0
  OBVIOUS
<1>4. ASSUME NEW k \in 1..Len(items) + 1 PROVE Append(items, v)[k] \in Valid
  <2>1. CASE k = Len(items) + 1
    BY <1>2, <2>1
  <2>2. CASE k # Len(items) + 1
    <3>1. k \in 1..Len(items)
      BY <1>1, <2>2
    <3>2. Append(items, v)[k] = items[k] /\ k \in DOMAIN items
      BY <1>1, <1>2, <3>1
    <3>3. QED BY <3>2 DEF Clean
  <2>3. QED BY <2>1, <2>2
<1>5. ASSUME NEW k \in 1..Len(items) + 1, k + 1 \in 1..Len(items) + 1
      PROVE  Append(items, v)[k] # Append(items, v)[k + 1]
  <2>1. k \in 1..Len(items)
    BY <1>1, <1>5
  <2>2. CASE k = Len(items)
    <3>1. items # <<>> /\ Append(items, v)[k] = items[k]
      BY <1>2, <2>1, <2>2
    <3>2. Append(items, v)[k + 1] = v
      BY <1>2, <2>2
    <3>3. items[Len(items)] # v
      BY <3>1
    <3>4. QED BY <2>2, <3>1, <3>2, <3>3
  <2>3. CASE k # Len(items)
    <3>0. Len(items) \in Nat
      OBVIOUS
    <3>1. k + 1 \in 1..Len(items)
      BY <2>1, <2>3, <3>0
    <3>2. Append(items, v)[k] = items[k] /\ Append(items, v)[k + 1] = items[k + 1]
      BY <1>2, <2>1, <3>1
    <3>3. items[k] # items[k + 1]
      BY <1>1, <2>1, <3>1 DEF Clean
    <3>4. QED BY <3>2, <3>3
  <2>4. QED BY <2>2, <2>3
<1>6. QED BY <1>2, <1>4, <1>5 DEF Clean

\* The history stays clean when its oldest entry is evicted, and the newest one
\* is the same if any is left.
LEMMA TailClean ==
    ASSUME NEW items \in Seq(T), items # <<>>, Clean(items)
    PROVE  /\ Tail(items) \in Seq(T)
           /\ Clean(Tail(items))
           /\ Tail(items) # <<>> => Tail(items)[Len(Tail(items))] = items[Len(items)]
<1>1. /\ Len(items) \in Nat /\ Len(items) >= 1 /\ DOMAIN items = 1..Len(items)
      /\ Tail(items) \in Seq(T) /\ Len(Tail(items)) = Len(items) - 1
      /\ DOMAIN Tail(items) = 1..Len(items) - 1
  OBVIOUS
<1>2. \A k \in 1..Len(items) - 1 : Tail(items)[k] = items[k + 1]
  BY <1>1
<1>3. Tail(items) # <<>> => Len(items) - 1 >= 1
  BY <1>1
<1>4. Clean(Tail(items))
  <2>1. ASSUME NEW k \in 1..Len(items) - 1
        PROVE  k + 1 \in 1..Len(items) /\ Tail(items)[k] = items[k + 1]
    BY <1>1, <1>2
  <2>2. ASSUME NEW k \in 1..Len(items) - 1, k + 1 \in 1..Len(items) - 1
        PROVE  Tail(items)[k] # Tail(items)[k + 1]
    <3>1. k + 1 \in 1..Len(items) /\ (k + 1) + 1 \in 1..Len(items)
      BY <1>1, <2>2
    <3>2. items[k + 1] # items[(k + 1) + 1]
      BY <1>1, <3>1 DEF Clean
    <3>3. QED BY <2>1, <2>2, <3>2
  <2>3. QED BY <1>1, <2>1, <2>2 DEF Clean
<1>5. QED BY <1>1, <1>2, <1>3, <1>4

\* What Remember does to the entries.
LEMMA RememberItems ==
    ASSUME NEW r, Coherent(r), NEW input \in T
    PROVE  LET kept == IF Len(Items(r)) = N THEN Tail(Items(r)) ELSE Items(r)
           IN  Items(Remember(r, input)) =
                   IF Remembers(r, input) THEN Append(kept, input) ELSE Items(r)
BY PushBackItems DEF Remember

\* Remembering an input keeps the history clean.
LEMMA RememberClean ==
    ASSUME NEW r, Coherent(r), Clean(Items(r)), NEW input \in T
    PROVE  Clean(Items(Remember(r, input)))
<1>1. CASE ~Remembers(r, input)
  BY <1>1, RememberItems
<1>2. CASE Remembers(r, input)
  <2> DEFINE items == Items(r)
             kept == IF Len(items) = N THEN Tail(items) ELSE items
  <2>1. items \in Seq(T) /\ input \in Valid
    BY <1>2, ItemsFacts DEF Remembers
  <2>2. items # <<>> => items[Len(items)] # input
    BY <1>2, ReadsRefine DEF Remembers
  <2>3. Len(items) = N => items # <<>>
    BY NAssumption
  <2>4. Items(Remember(r, input)) = Append(kept, input)
    BY <1>2, RememberItems
  <2> HIDE DEF items
  <2>5. Clean(items)
    BY DEF items
  <2>6. kept \in Seq(T) /\ Clean(kept) /\ (kept # <<>> => kept[Len(kept)] # input)
    BY <2>1, <2>2, <2>3, <2>5, TailClean
  <2> HIDE DEF kept
  <2>7. Clean(Append(kept, input))
    BY <2>1, <2>6, AppendClean
  <2>8. QED BY <2>4, <2>7
<1>3. QED BY <1>1, <1>2

\* For every capacity, the history never holds an input that is not valid or
\* the same input twice in a row.
THEOREM HistoryHasNoRepeats == Spec => []NoRepeatedNeighbours
<1>1. NoRepeatedNeighbours <=> Clean(Items(history_))
  BY DEF NoRepeatedNeighbours, Clean
<1>2. Items(EmptyRing) = <<>>
  BY EmptyRingCoherent, SizeFacts, ItemsFacts DEF EmptyRing, Empty
<1>3. Clean(<<>>)
  BY DEF Clean
<1>4. Init => NoRepeatedNeighbours
  BY <1>2, <1>3, <1>1 DEF Init
<1>5. IInv /\ NoRepeatedNeighbours /\ [Next]_vars => NoRepeatedNeighbours'
  <2> SUFFICES ASSUME IInv, Clean(Items(history_)), [Next]_vars PROVE Clean(Items(history_'))
    BY DEF NoRepeatedNeighbours, Clean
  <2>0. Coherent(history_) /\ lines \in Seq(T)
    BY DEF IInv, TypeOK
  <2>1. ASSUME NEW input \in T, append(input) PROVE Clean(Items(history_'))
    BY <2>0, <2>1, RememberClean DEF append
  <2>2. CASE LoadLine
    <3>1. Head(lines) \in T
      BY <2>0, <2>2 DEF LoadLine
    <3>2. QED BY <2>0, <2>2, <3>1, RememberClean DEF LoadLine
  <2>3. CASE clear \/ LoadBegin
    BY <1>3, <2>0, <2>3, ClearItems DEF clear, LoadBegin
  <2>4. CASE Restart
    BY <1>2, <1>3, <2>4 DEF Restart
  <2>5. CASE UNCHANGED history_
    BY <2>5
  <2>6. QED
    BY <2>1, <2>2, <2>3, <2>4, <2>5
       DEF Next, next, previous, LoadEnd, SaveBegin, SaveLine, SaveEnd, SaveFail, object, vars
<1>6. QED BY SpecIInv, <1>4, <1>5, PTL DEF Spec

\* Until something is stored back() is no valid input; while the first file is
\* loaded that is so until a line is remembered.
PristineRing ==
    pristine =>
        IF Items(history_) = <<>> THEN Back(history_) \notin Valid ELSE mode = "loading"

\* clear() leaves the back() of an empty ring as it is.
LEMMA ClearKeepsBack ==
    ASSUME NEW r, Coherent(r), Items(r) = <<>>
    PROVE  Back(Clear(r)) = Back(r)
<1>1. r \in Ring /\ r.head = r.tail
  <2>1. Len(Items(r)) = 0
    OBVIOUS
  <2>2. QED BY <2>1, SizeFacts, ItemsFacts DEF Coherent, Empty
<1>2. Clear(r).buffer = r.buffer /\ Clear(r).head = r.tail
  BY <1>1 DEF Clear, Ring
<1>3. QED BY <1>1, <1>2 DEF Back

\* The back() of a ring as constructed is no valid input.
LEMMA ConstructedBack == Items(EmptyRing) = <<>> /\ Back(EmptyRing) \notin Valid
<1>1. Items(EmptyRing) = <<>>
  BY EmptyRingCoherent, SizeFacts, ItemsFacts DEF EmptyRing, Empty
<1>2. Back(EmptyRing) = ValueInit
  BY IncDec, NAssumption DEF Back, EmptyRing
<1>3. QED BY <1>1, <1>2, ValidAssumption

\* An input that is remembered is the newest entry.
LEMMA RememberedIsNewest ==
    ASSUME NEW r, Coherent(r), NEW input \in T, Remembers(r, input)
    PROVE  LET after == Items(Remember(r, input))
           IN  after # <<>> /\ after[Len(after)] = input
<1> DEFINE kept == IF Len(Items(r)) = N THEN Tail(Items(r)) ELSE Items(r)
<1>1. Items(Remember(r, input)) = Append(kept, input)
  BY RememberItems
<1>2. kept \in Seq(T)
  <2>1. Items(r) \in Seq(T) /\ (Len(Items(r)) = N => Items(r) # <<>>)
    BY ItemsFacts, NAssumption
  <2>2. QED BY <2>1
<1> HIDE DEF kept
<1>3. Append(kept, input) # <<>> /\ Append(kept, input)[Len(Append(kept, input))] = input
  BY <1>2
<1>4. QED BY <1>1, <1>3

\* Every reachable state is such.
LEMMA SpecPristineRing == Spec => []PristineRing
<1>1. Init => PristineRing
  BY ConstructedBack DEF Init, PristineRing
<1>2. IInv /\ PristineRing /\ [Next]_vars => PristineRing'
  <2> SUFFICES ASSUME IInv, PristineRing, [Next]_vars PROVE PristineRing'
    OBVIOUS
  <2> USE DEF PristineRing
  <2>0. Coherent(history_) /\ lines \in Seq(T)
    BY DEF IInv, TypeOK
  <2>1. CASE (\E input \in T : append(input)) \/ clear \/ LoadEnd \/ Restart
    BY <2>1, ConstructedBack DEF append, clear, LoadEnd, Restart
  <2>2. CASE LoadBegin
    <3>1. pristine => Items(history_) = <<>> /\ Back(history_) \notin Valid
      BY <2>2 DEF LoadBegin
    <3>2. pristine => Back(history_') \notin Valid
      BY <2>0, <2>2, <3>1, ClearKeepsBack DEF LoadBegin
    <3>3. QED BY <2>0, <2>2, <3>2, ClearItems DEF LoadBegin
  <2>3. CASE LoadLine
    <3>1. Head(lines) \in T
      BY <2>0, <2>3 DEF LoadLine
    <3>2. CASE Remembers(history_, Head(lines))
      BY <2>0, <2>3, <3>1, <3>2, RememberedIsNewest DEF LoadLine
    <3>3. CASE ~Remembers(history_, Head(lines))
      BY <2>3, <3>3 DEF LoadLine, Remember
    <3>4. QED BY <3>2, <3>3
  <2>4. CASE SaveBegin
    <3>1. ~pristine
      <4>1. Len(Items(history_)) # 0
        BY <2>0, <2>4, SizeFacts, ItemsFacts DEF SaveBegin
      <4>2. QED BY <2>4, <4>1 DEF SaveBegin
    <3>2. QED BY <2>4, <3>1 DEF SaveBegin, object
  <2>5. CASE SaveEnd \/ SaveFail
    BY <2>5 DEF SaveEnd, SaveFail, object
  <2>6. CASE next \/ previous \/ SaveLine \/ UNCHANGED vars
    BY <2>6 DEF next, previous, SaveLine, object, vars
  <2>7. QED BY <2>1, <2>2, <2>3, <2>4, <2>5, <2>6 DEF Next
<1>3. QED BY SpecIInv, <1>1, <1>2, PTL DEF Spec

\* For every capacity, a valid input other than the newest entry becomes the
\* newest entry, also in a new history and in a full one; only on a history
\* that was cleared is this not promised.
THEOREM AppendsAreRemembered == Spec => []AppendRemembers
<1>1. IInv /\ PristineRing => AppendRemembers
  <2> SUFFICES ASSUME IInv, PristineRing, NEW input \in Valid,
                      IF Items(history_) = <<>> THEN pristine
                      ELSE Items(history_)[Len(Items(history_))] # input
               PROVE  LET after == Items(Remember(history_, input))
                      IN  after # <<>> /\ after[Len(after)] = input
    BY DEF AppendRemembers
  <2>0. Coherent(history_) /\ input \in T
    BY ValidAssumption DEF IInv
  <2>1. Back(history_) # input
    <3>1. CASE Items(history_) = <<>>
      BY <3>1 DEF PristineRing
    <3>2. CASE Items(history_) # <<>>
      <4>1. Back(history_) = Items(history_)[Len(Items(history_))]
        BY <2>0, <3>2, ReadsRefine
      <4>2. Items(history_)[Len(Items(history_))] # input
        BY <3>2
      <4>3. QED BY <4>1, <4>2
    <3>3. QED BY <3>1, <3>2
  <2>2. QED BY <2>0, <2>1, RememberedIsNewest DEF Remembers
<1>2. QED BY SpecIInv, SpecPristineRing, <1>1, PTL

-----------------------------------------------------------------------------
(* What a save wrote and a load brings back.                               *)

\* A file a save completed is the history saved, which load() can take whole.
SavedIsLoadable ==
    /\ Clean(saved) /\ Len(saved) <= N
    /\ intact => file = saved

\* What save() has written and has still to write is the history; what load() of
\* a new process has remembered and has still to read is the one saved last.
LoopsAreHalfway ==
    /\ mode = "saving" => ~intact /\ file \o lines = Items(history_)
    /\ mode = "loading" /\ pristine /\ intact => Items(history_) \o lines = saved

SaveInv == SavedIsLoadable /\ LoopsAreHalfway

\* A concatenation, element by element.
LEMMA ConcatFacts ==
    ASSUME NEW a \in Seq(T), NEW b \in Seq(T)
    PROVE  /\ a \o b \in Seq(T) /\ Len(a \o b) = Len(a) + Len(b)
           /\ \A k \in 1..Len(a) + Len(b) :
                (a \o b)[k] = IF k <= Len(a) THEN a[k] ELSE b[k - Len(a)]
OBVIOUS

\* The first of what is left is the one after those that are done.
LEMMA MoveOver ==
    ASSUME NEW s \in Seq(T), NEW rest \in Seq(T), rest # <<>>
    PROVE  /\ Head(rest) \in T /\ Tail(rest) \in Seq(T)
           /\ Append(s, Head(rest)) \o Tail(rest) = s \o rest
           /\ Len(s) + 1 \in DOMAIN (s \o rest) /\ Len(s) < Len(s \o rest)
           /\ (s \o rest)[Len(s) + 1] = Head(rest)
           /\ s # <<>> => Len(s) \in DOMAIN (s \o rest) /\ (s \o rest)[Len(s)] = s[Len(s)]
<1>1. /\ Head(rest) \in T /\ Tail(rest) \in Seq(T) /\ Head(rest) = rest[1]
      /\ Len(rest) >= 1 /\ Len(Tail(rest)) = Len(rest) - 1
      /\ \A k \in 1..Len(rest) - 1 : Tail(rest)[k] = rest[k + 1]
      /\ Len(rest) \in Nat /\ Len(s) \in Nat
  OBVIOUS
<1>2. /\ Append(s, Head(rest)) \in Seq(T) /\ Len(Append(s, Head(rest))) = Len(s) + 1
      /\ \A k \in 1..Len(s) : Append(s, Head(rest))[k] = s[k]
      /\ Append(s, Head(rest))[Len(s) + 1] = Head(rest)
  BY <1>1
<1>3. Len(s \o rest) = Len(s) + Len(rest) /\ s \o rest \in Seq(T)
  OBVIOUS
<1>4. \A k \in 1..Len(s) + Len(rest) :
        (s \o rest)[k] = IF k <= Len(s) THEN s[k] ELSE rest[k - Len(s)]
  OBVIOUS
<1>5. Append(s, Head(rest)) \o Tail(rest) = s \o rest
  <2> DEFINE a == Append(s, Head(rest))
             b == Tail(rest)
  <2> HIDE DEF a, b
  <2>1. a \in Seq(T) /\ b \in Seq(T) /\ Len(a) = Len(s) + 1 /\ Len(b) = Len(rest) - 1
    BY <1>1, <1>2 DEF a, b
  <2>2. a \o b \in Seq(T) /\ Len(a \o b) = Len(s) + Len(rest)
    <3>1. a \o b \in Seq(T) /\ Len(a \o b) = Len(a) + Len(b)
      BY <2>1, ConcatFacts
    <3>2. Len(a) + Len(b) = Len(s) + Len(rest)
      BY <1>1, <2>1
    <3>3. QED BY <3>1, <3>2
  <2>3. \A k \in 1..Len(s) + Len(rest) :
          (a \o b)[k] = IF k <= Len(a) THEN a[k] ELSE b[k - Len(a)]
    BY <1>1, <2>1, ConcatFacts
  <2>4. \A k \in 1..Len(s) + Len(rest) : (a \o b)[k] = (s \o rest)[k]
    <3> SUFFICES ASSUME NEW k \in 1..Len(s) + Len(rest) PROVE (a \o b)[k] = (s \o rest)[k]
      OBVIOUS
    <3>1. CASE k <= Len(s)
      <4>1. k \in 1..Len(s) /\ k <= Len(a)
        BY <1>1, <2>1, <3>1
      <4>2. (a \o b)[k] = s[k]
        BY <1>2, <2>3, <4>1 DEF a
      <4>3. QED BY <1>4, <3>1, <4>2
    <3>2. CASE k = Len(s) + 1
      <4>1. (a \o b)[k] = Head(rest)
        BY <1>1, <1>2, <2>1, <2>3, <3>2 DEF a
      <4>2. (s \o rest)[k] = rest[1]
        BY <1>1, <1>4, <3>2
      <4>3. QED BY <1>1, <4>1, <4>2
    <3>3. CASE k > Len(s) + 1
      <4>1. /\ (a \o b)[k] = b[k - (Len(s) + 1)]
            /\ (s \o rest)[k] = rest[k - Len(s)]
            /\ k - (Len(s) + 1) \in 1..Len(rest) - 1
            /\ (k - (Len(s) + 1)) + 1 = k - Len(s)
        BY <1>1, <1>4, <2>1, <2>3, <3>3
      <4>2. QED BY <1>1, <4>1 DEF b
    <3>4. k \in Int /\ Len(s) \in Int
      BY <1>1
    <3>5. k <= Len(s) \/ k = Len(s) + 1 \/ k > Len(s) + 1
      BY <3>4
    <3>6. QED BY <3>1, <3>2, <3>3, <3>5, Zenon
  <2>5. QED BY <1>3, <2>2, <2>4, SameElements DEF a, b
<1>6. QED BY <1>1, <1>3, <1>4, <1>5

\* A line of a saved history is remembered: load() merges nothing and evicts
\* nothing.
LEMMA SavedLineIsRemembered ==
    ASSUME IInv, PristineRing, SaveInv, mode = "loading", pristine, intact, lines # <<>>
    PROVE  Items(Remember(history_, Head(lines))) = Append(Items(history_), Head(lines))
<1> DEFINE items == Items(history_)
<1>1. Coherent(history_) /\ items \in Seq(T) /\ lines \in Seq(T) /\ saved \in Seq(T)
  BY ItemsFacts DEF IInv, TypeOK
<1>2. items \o lines = saved /\ Clean(saved) /\ Len(saved) <= N
  BY DEF SaveInv, SavedIsLoadable, LoopsAreHalfway
<1>3. items # <<>> => Back(history_) = items[Len(items)]
  BY <1>1, ReadsRefine
<1>4. items = <<>> => Back(history_) \notin Valid
  BY DEF PristineRing
<1>5. Len(items) \in Nat /\ Len(items) + 0 = Len(items)
  BY <1>1
<1> HIDE DEF items
<1>6. /\ Head(lines) \in T /\ Len(items) + 1 \in DOMAIN saved /\ Len(items) < Len(saved)
      /\ saved[Len(items) + 1] = Head(lines)
      /\ items # <<>> => Len(items) \in DOMAIN saved /\ saved[Len(items)] = items[Len(items)]
  BY <1>1, <1>2, MoveOver
<1>7. Head(lines) \in Valid /\ (items # <<>> => items[Len(items)] # Head(lines))
  BY <1>2, <1>6 DEF Clean
<1>8. Remembers(history_, Head(lines))
  BY <1>3, <1>4, <1>7 DEF Remembers
<1>9. Len(items) # N
  <2>1. Len(saved) \in Nat /\ Len(items) < Len(saved) /\ Len(saved) <= N /\ Len(items) \in Nat
    BY <1>1, <1>2, <1>5, <1>6
  <2>2. QED BY <2>1, NAssumption
<1>10. QED BY <1>1, <1>6, <1>8, <1>9, RememberItems DEF items

\* For every capacity and every file: a process that loads the file of a
\* completed save has the history that was saved, entry for entry.
THEOREM LoadsBringSavesBack == Spec => LoadRestoresSave
<1>1. Init => SaveInv
  BY NAssumption DEF Init, SaveInv, SavedIsLoadable, LoopsAreHalfway, Clean
<1>2. ASSUME IInv, PristineRing, NoRepeatedNeighbours, SaveInv, [Next]_vars PROVE SaveInv'
  <2> USE <1>2 DEF SaveInv, SavedIsLoadable, LoopsAreHalfway
  <2>1. /\ Coherent(history_) /\ Items(history_) \in Seq(T) /\ lines \in Seq(T)
        /\ saved \in Seq(T) /\ Len(Items(history_)) <= N /\ Len(Items(history_)) \in Nat
    BY SizeFacts, ItemsFacts, NAssumption DEF IInv, TypeOK
  <2>2. Clean(Items(history_))
    BY DEF NoRepeatedNeighbours, Clean
  <2>3. CASE (\E input \in T : append(input)) \/ next \/ previous
    BY <2>3 DEF append, next, previous
  <2>4. CASE clear
    <3>1. Len(<<>>) <= N /\ Clean(<<>>)
      BY NAssumption DEF Clean
    <3>2. QED BY <2>4, <3>1 DEF clear
  <2>5. CASE LoadBegin
    <3>1. Items(history_') = <<>>
      BY <2>1, <2>5, ClearItems DEF LoadBegin
    <3>2. <<>> \o saved = saved
      BY <2>1
    <3>3. QED BY <2>5, <3>1, <3>2 DEF LoadBegin
  <2>6. CASE LoadLine
    <3>1. pristine /\ intact => Items(history_') \o lines' = saved
      <4>1. SUFFICES ASSUME pristine, intact PROVE Items(history_') \o lines' = saved
        OBVIOUS
      <4>2. Items(history_') = Append(Items(history_), Head(lines)) /\ lines' = Tail(lines)
        BY <2>6, <4>1, SavedLineIsRemembered DEF LoadLine
      <4>3. Items(history_) \o lines = saved /\ lines # <<>>
        BY <2>6, <4>1 DEF LoadLine
      <4>4. Append(Items(history_), Head(lines)) \o Tail(lines) = Items(history_) \o lines
        BY <2>1, <4>3, MoveOver
      <4>5. QED BY <4>2, <4>3, <4>4
    <3>2. QED BY <2>6, <3>1 DEF LoadLine
  <2>7. CASE LoadEnd \/ SaveFail \/ Restart
    BY <2>7 DEF LoadEnd, SaveFail, Restart, object
  <2>8. CASE SaveBegin
    <3>1. <<>> \o Items(history_) = Items(history_)
      BY <2>1
    <3>2. QED BY <2>8, <3>1 DEF SaveBegin, object
  <2>9. CASE SaveLine
    <3>1. file \in Seq(T) /\ lines # <<>> /\ file \o lines = Items(history_) /\ ~intact
      BY <2>9 DEF SaveLine, IInv, TypeOK, LoopFacts
    <3>2. file' \o lines' = Items(history_)
      BY <2>1, <2>9, <3>1, MoveOver DEF SaveLine
    <3>3. QED BY <2>9, <3>1, <3>2 DEF SaveLine, object
  <2>10. CASE SaveEnd
    <3>1. file \in Seq(T) /\ file \o <<>> = Items(history_)
      BY <2>10 DEF SaveEnd, IInv, TypeOK, LoopFacts
    <3>2. file = Items(history_)
      BY <3>1
    <3>3. QED BY <2>1, <2>2, <2>10, <3>2 DEF SaveEnd, object
  <2>11. CASE UNCHANGED vars
    BY <2>11 DEF vars
  <2>12. QED
    BY <2>3, <2>4, <2>5, <2>6, <2>7, <2>8, <2>9, <2>10, <2>11 DEF Next
<1>3. ASSUME IInv, SaveInv, LoadEnd, pristine, intact PROVE Items(history_') = saved
  <2>1. Items(history_) \o <<>> = saved /\ Items(history_) \in Seq(T)
    BY <1>3, ItemsFacts DEF LoadEnd, SaveInv, LoopsAreHalfway, IInv
  <2>2. Items(history_) = saved
    BY <2>1
  <2>3. QED BY <1>3, <2>2 DEF LoadEnd
<1>4. IInv /\ SaveInv => [(LoadEnd /\ pristine /\ intact) => Items(history_') = saved]_vars
  BY <1>3
<1>5. IInv /\ PristineRing /\ NoRepeatedNeighbours /\ SaveInv /\ [Next]_vars => SaveInv'
  BY <1>2
<1>6. Spec => []SaveInv
  BY SpecIInv, SpecPristineRing, HistoryHasNoRepeats, <1>1, <1>5, PTL DEF Spec
<1>7. QED BY SpecIInv, <1>4, <1>6, PTL DEF LoadRestoresSave
=============================================================================
