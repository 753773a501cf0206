---------------------------- MODULE Launch_proofs ----------------------------
(***************************************************************************)
(* For every command line: remove() leaves no argument of its name, the    *)
(* engine is given the words that are not the launcher's own, and the log, *)
(* the files and the loop are set up as the operator's words say.          *)
(***************************************************************************)
EXTENDS Launch, FiniteSetTheorems, WellFoundedInduction, TLAPS

-----------------------------------------------------------------------------
(* Naturals and recursion.                                                 *)

\* A set of naturals that is not empty has a least one.
LEMMA LeastNatural ==
    ASSUME NEW S \in SUBSET Nat, S # {}
    PROVE  \E m \in S : \A k \in S : m <= k
<1> DEFINE R == OpToRel(<, Nat)
<1>1. IsWellFoundedOn(R, Nat)
  BY NatLessThanWellFounded
<1>2. \A x, y \in Nat : x < y => <<x, y>> \in R
  BY DEF OpToRel
<1> HIDE DEF R
<1>3. \E m \in S : \A k \in S : ~(<<k, m>> \in R)
  BY <1>1, WFMin
<1>4. PICK m \in S : \A k \in S : ~(<<k, m>> \in R)
  BY <1>3
<1>5. \A k \in S : m <= k
  <2> SUFFICES ASSUME NEW k \in S PROVE m <= k
    OBVIOUS
  <2>1. k \in Nat /\ m \in Nat
    OBVIOUS
  <2>2. ~(k < m)
    BY <1>2, <1>4, <2>1, Zenon
  <2>3. QED BY <2>1, <2>2
<1>6. QED BY <1>5

\* The least and the greatest of a set, where there are.
LEMMA MinFacts ==
    ASSUME NEW S \in SUBSET Nat, S # {}
    PROVE  Min(S) \in S /\ \A k \in S : Min(S) <= k
<1>1. PICK m \in S : \A k \in S : m <= k
  BY LeastNatural
<1>2. QED BY <1>1 DEF Min

\* A set of naturals up to n has a greatest one, which Max chooses.
LEMMA MaxFacts ==
    ASSUME NEW n \in Nat, NEW S \in SUBSET (0..n), S # {}
    PROVE  Max(S) \in S /\ \A k \in S : k <= Max(S)
<1> DEFINE Above == {n - k : k \in S}
<1>1. PICK m \in Above : \A k \in Above : m <= k
  <2>1. Above \in SUBSET Nat /\ Above # {}
    OBVIOUS
  <2>2. QED BY <2>1, LeastNatural
<1>2. PICK most \in S : m = n - most
  BY <1>1
<1>3. \A k \in S : k <= most
  <2> SUFFICES ASSUME NEW k \in S PROVE k <= most
    OBVIOUS
  <2>1. n - most <= n - k /\ k \in 0..n /\ most \in 0..n
    BY <1>1, <1>2
  <2>2. QED BY <2>1
<1>4. \E most2 \in S : \A k \in S : most2 >= k
  BY <1>3
<1>5. Max(S) \in S /\ \A k \in S : Max(S) >= k
  BY <1>4 DEF Max
<1>6. QED BY <1>5

\* A function defined along the numbers up to n exists.
IsAlong(n, S, base, step, f) ==
    f \in [0..n -> S] /\ f[0] = base /\ \A i \in 1..n : f[i] = step[<<i, f[i - 1]>>]

\* A recursion along the naturals up to a bound defines a function.
LEMMA FunctionAlong ==
    ASSUME NEW n \in Nat, NEW S, NEW base \in S, NEW step \in [(1..n) \X S -> S]
    PROVE  \E f : IsAlong(n, S, base, step, f)
<1> DEFINE Along(m) == \E f \in [0..m -> S] :
                           f[0] = base /\ \A i \in 1..m : f[i] = step[<<i, f[i - 1]>>]
           Bad == {m \in 0..n : ~Along(m)}
<1>1. Along(0)
  <2> DEFINE f == [i \in 0..0 |-> base]
  <2>1. f \in [0..0 -> S] /\ f[0] = base /\ \A i \in 1..0 : f[i] = step[<<i, f[i - 1]>>]
    OBVIOUS
  <2>2. QED BY <2>1
<1>2. ASSUME NEW m \in Nat, m < n, Along(m) PROVE Along(m + 1)
  <2>1. PICK f \in [0..m -> S] : f[0] = base /\ \A i \in 1..m : f[i] = step[<<i, f[i - 1]>>]
    BY <1>2
  <2> DEFINE next == step[<<m + 1, f[m]>>]
             g == [i \in 0..m+1 |-> IF i <= m THEN f[i] ELSE next]
  <2>2. next \in S
    <3>1. m + 1 \in 1..n /\ f[m] \in S
      BY <1>2
    <3>2. QED BY <3>1
  <2>3. \A i \in 0..m : g[i] = f[i]
    OBVIOUS
  <2>4. g[m + 1] = next
    OBVIOUS
  <2>5. g \in [0..m+1 -> S]
    BY <2>2
  <2> HIDE DEF g
  <2>6. g[0] = base
    BY <2>1, <2>3
  <2>7. ASSUME NEW i \in 1..m+1 PROVE g[i] = step[<<i, g[i - 1]>>]
    <3>1. CASE i \in 1..m
      <4>1. i \in 0..m /\ i - 1 \in 0..m
        BY <3>1
      <4>2. QED BY <2>1, <2>3, <3>1, <4>1
    <3>2. CASE i = m + 1
      <4>1. i - 1 = m /\ m \in 0..m
        BY <3>2
      <4>2. QED BY <2>3, <2>4, <3>2, <4>1
    <3>3. QED BY <3>1, <3>2
  <2>8. QED BY <2>5, <2>6, <2>7
<1> HIDE DEF Along
<1>3. Bad = {}
  <2> SUFFICES ASSUME Bad # {} PROVE FALSE
    OBVIOUS
  <2>1. Bad \in SUBSET Nat
    OBVIOUS
  <2>2. PICK m \in Bad : \A k \in Bad : m <= k
    BY <2>1, LeastNatural
  <2>3. m \in Nat /\ m <= n /\ ~Along(m)
    OBVIOUS
  <2>4. m # 0
    BY <1>1, <2>3
  <2>5. m - 1 \in Nat /\ m - 1 < n /\ m - 1 \in 0..n /\ m - 1 + 1 = m /\ ~(m <= m - 1)
    BY <2>3, <2>4
  <2>6. Along(m - 1)
    BY <2>2, <2>5
  <2>7. Along(m - 1 + 1)
    BY <1>2, <2>5, <2>6
  <2>8. QED BY <2>3, <2>5, <2>7
<1>4. Along(n)
  BY <1>3
<1>5. QED BY <1>4 DEF Along, IsAlong


-----------------------------------------------------------------------------
(* Searching.                                                              *)

\* A text, its characters and its positions.
LEMMA TextFacts ==
    ASSUME NEW text \in Text
    PROVE  /\ Len(text) \in Nat /\ DOMAIN text = 1..Len(text)
           /\ text = <<>> <=> Len(text) = 0
           /\ \A i \in 1..Len(text) : text[i] \in Char
BY DEF Text

\* Texts are equal that have the same characters.
LEMMA SameText ==
    ASSUME NEW a \in Text, NEW b \in Text, Len(a) = Len(b), \A i \in 1..Len(a) : a[i] = b[i]
    PROVE  a = b
BY DEF Text

\* A part of a text, character by character; it may be empty.
LEMMA PartFacts ==
    ASSUME NEW text \in Text, NEW i \in Nat \ {0}, NEW j \in Nat, j <= Len(text)
    PROVE  /\ SubSeq(text, i, j) \in Text
           /\ Len(SubSeq(text, i, j)) = IF i <= j THEN j - i + 1 ELSE 0
           /\ \A k \in 1..j-i+1 : SubSeq(text, i, j)[k] = text[i + k - 1]
BY DEF Text

\* A concatenation, character by character.
LEMMA ConcatFacts ==
    ASSUME NEW a \in Text, NEW b \in Text
    PROVE  /\ a \o b \in Text /\ Len(a \o b) = Len(a) + Len(b)
           /\ \A k \in 1..Len(a) : (a \o b)[k] = a[k]
           /\ \A k \in 1..Len(b) : (a \o b)[Len(a) + k] = b[k]
BY DEF Text

\* A word occurs where each of its characters does.
LEMMA OccursFacts ==
    ASSUME NEW text \in Text, NEW word \in Text, NEW pos \in Nat \ {0}
    PROVE  OccursAt(text, pos, word) <=>
               /\ pos + Len(word) <= Len(text) + 1
               /\ \A k \in 1..Len(word) : text[pos + k - 1] = word[k]
<1> DEFINE part == SubSeq(text, pos, pos + Len(word) - 1)
<1> SUFFICES ASSUME pos + Len(word) <= Len(text) + 1
             PROVE  part = word <=> \A k \in 1..Len(word) : text[pos + k - 1] = word[k]
  BY DEF OccursAt
<1>1. Len(text) \in Nat /\ Len(word) \in Nat
  BY TextFacts
<1>2. /\ part \in Text /\ Len(part) = Len(word)
      /\ \A k \in 1..Len(word) : part[k] = text[pos + k - 1]
  <2>1. pos + Len(word) - 1 \in Nat /\ pos + Len(word) - 1 <= Len(text)
    BY <1>1
  <2>2. /\ (pos + Len(word) - 1) - pos + 1 = Len(word)
        /\ ~(pos <= pos + Len(word) - 1) => Len(word) = 0
    BY <1>1
  <2>3. QED BY <2>1, <2>2, PartFacts
<1> HIDE DEF part
<1>3. QED BY <1>2, SameText

\* A name of an argument, as the launcher writes it: no sign in front and no blank.
Name == {name \in Text : name # <<>> /\ ~is_prefix_char(name[1]) /\ \A i \in 1..Len(name) : name[i] # Blank}

\* An argument of that name begins at a position.
Found(text, pos, name) == \E sign \in {Plus, Minus} : OccursAt(text, pos, sign \o name)

\* A sign in front of a name.
LEMMA SignedName ==
    ASSUME NEW name \in Text, NEW sign \in {Plus, Minus}
    PROVE  /\ sign \o name \in Text /\ Len(sign \o name) = 1 + Len(name)
           /\ (sign \o name)[1] = sign[1] /\ sign[1] \in {"+", "-"}
           /\ \A k \in 1..Len(name) : (sign \o name)[k + 1] = name[k]
<1>1. sign \in Text /\ Len(sign) = 1 /\ sign[1] \in {"+", "-"}
  <2>1. "+" \in Char /\ "-" \in Char
    BY CharAssumption
  <2>2. CASE sign = Plus
    BY <2>1, <2>2 DEF Plus, Text
  <2>3. CASE sign = Minus
    BY <2>1, <2>3 DEF Minus, Text
  <2>4. QED BY <2>2, <2>3
<1>2. Len(name) \in Nat
  BY TextFacts
<1>3. /\ sign \o name \in Text /\ Len(sign \o name) = Len(sign) + Len(name)
      /\ \A k \in 1..Len(sign) : (sign \o name)[k] = sign[k]
      /\ \A k \in 1..Len(name) : (sign \o name)[Len(sign) + k] = name[k]
  BY <1>1, ConcatFacts
<1>4. 1 \in 1..Len(sign) /\ \A k \in 1..Len(name) : Len(sign) + k = k + 1
  BY <1>1, <1>2
<1>5. QED BY <1>1, <1>2, <1>3, <1>4

\* Where an argument begins, and that it has room there.
LEMMA FoundFacts ==
    ASSUME NEW text \in Text, NEW name \in Text, NEW pos \in Nat \ {0}
    PROVE  Found(text, pos, name) <=>
               /\ pos + Len(name) <= Len(text)
               /\ text[pos] \in {"+", "-"}
               /\ \A k \in 1..Len(name) : text[pos + k] = name[k]
<1>1. Len(name) \in Nat /\ Len(text) \in Nat
  BY TextFacts
<1>2. ASSUME NEW sign \in {Plus, Minus}
      PROVE  OccursAt(text, pos, sign \o name) <=>
                 /\ pos + Len(name) <= Len(text)
                 /\ text[pos] = sign[1]
                 /\ \A k \in 1..Len(name) : text[pos + k] = name[k]
  <2> DEFINE word == sign \o name
  <2>1. /\ word \in Text /\ Len(word) = 1 + Len(name) /\ word[1] = sign[1]
        /\ \A k \in 1..Len(name) : word[k + 1] = name[k]
    BY SignedName
  <2> HIDE DEF word
  <2>2. OccursAt(text, pos, word) <=>
            /\ pos + Len(name) <= Len(text)
            /\ \A k \in 1..1 + Len(name) : text[pos + k - 1] = word[k]
    <3>1. OccursAt(text, pos, word) <=>
              /\ pos + Len(word) <= Len(text) + 1
              /\ \A k \in 1..Len(word) : text[pos + k - 1] = word[k]
      BY <2>1, OccursFacts
    <3>2. pos + Len(word) <= Len(text) + 1 <=> pos + Len(name) <= Len(text)
      BY <1>1, <2>1
    <3>3. QED BY <2>1, <3>1, <3>2, Zenon
  <2>3. (\A k \in 1..1 + Len(name) : text[pos + k - 1] = word[k]) <=>
            text[pos] = word[1] /\ \A k \in 1..Len(name) : text[pos + k] = word[k + 1]
    <3>1. ASSUME \A k \in 1..1 + Len(name) : text[pos + k - 1] = word[k]
          PROVE  text[pos] = word[1] /\ \A k \in 1..Len(name) : text[pos + k] = word[k + 1]
      <4>1. 1 \in 1..1 + Len(name) /\ pos + 1 - 1 = pos
        BY <1>1
      <4>2. \A k \in 1..Len(name) : k + 1 \in 1..1 + Len(name) /\ pos + (k + 1) - 1 = pos + k
        BY <1>1
      <4>3. QED BY <3>1, <4>1, <4>2
    <3>2. ASSUME text[pos] = word[1], \A k \in 1..Len(name) : text[pos + k] = word[k + 1]
          PROVE  \A k \in 1..1 + Len(name) : text[pos + k - 1] = word[k]
      <4> SUFFICES ASSUME NEW k \in 1..1 + Len(name) PROVE text[pos + k - 1] = word[k]
        OBVIOUS
      <4>1. CASE k = 1
        BY <3>2, <4>1
      <4>2. CASE k # 1
        <5>1. k - 1 \in 1..Len(name) /\ pos + (k - 1) = pos + k - 1 /\ (k - 1) + 1 = k
          BY <1>1, <4>2
        <5>2. QED BY <3>2, <5>1
      <4>3. QED BY <4>1, <4>2
    <3>3. QED BY <3>1, <3>2
  <2>4. QED BY <2>1, <2>2, <2>3 DEF word
<1>3. Plus[1] = "+" /\ Minus[1] = "-"
  BY DEF Plus, Minus
<1>4. QED BY <1>2, <1>3 DEF Found

\* rfind returns the last occurrence, or 0.
LEMMA RfindFacts ==
    ASSUME NEW text \in Text, NEW word
    PROVE  /\ rfind(text, word) \in 0..Len(text)
           /\ rfind(text, word) # 0 => OccursAt(text, rfind(text, word), word)
           /\ \A pos \in 1..Len(text) : OccursAt(text, pos, word) => pos <= rfind(text, word)
<1> DEFINE S == {pos \in 1..Len(text) : OccursAt(text, pos, word)} \union {0}
<1>1. Len(text) \in Nat
  BY TextFacts
<1>2. S \in SUBSET (0..Len(text)) /\ S # {}
  BY <1>1
<1>3. Max(S) \in S /\ \A k \in S : k <= Max(S)
  BY <1>1, <1>2, MaxFacts
<1>4. rfind(text, word) = Max(S)
  BY DEF rfind
<1>5. QED BY <1>2, <1>3, <1>4

\* The last argument of a name, or 0.
LEMMA FindFacts ==
    ASSUME NEW text \in Text, NEW arg
    PROVE  LET pos == find_argument_pos(text, arg)
               name == remove_argument_prefix(arg)
           IN  /\ pos \in 0..Len(text)
               /\ pos # 0 => Found(text, pos, name)
               /\ \A other \in 1..Len(text) : Found(text, other, name) => other <= pos
<1> DEFINE name == remove_argument_prefix(arg)
           plus == rfind(text, Plus \o name)
           minus == rfind(text, Minus \o name)
           pos == find_argument_pos(text, arg)
<1>1. Len(text) \in Nat
  BY TextFacts
<1>2. /\ plus \in 0..Len(text) /\ (plus # 0 => OccursAt(text, plus, Plus \o name))
      /\ \A other \in 1..Len(text) : OccursAt(text, other, Plus \o name) => other <= plus
  BY RfindFacts
<1>3. /\ minus \in 0..Len(text) /\ (minus # 0 => OccursAt(text, minus, Minus \o name))
      /\ \A other \in 1..Len(text) : OccursAt(text, other, Minus \o name) => other <= minus
  BY RfindFacts
<1>4. pos = Max({plus, minus})
  BY DEF find_argument_pos
<1> HIDE DEF plus, minus, pos
<1>5. pos \in {plus, minus} /\ plus <= pos /\ minus <= pos
  <2>1. {plus, minus} \in SUBSET (0..Len(text)) /\ {plus, minus} # {}
    BY <1>2, <1>3
  <2>2. QED BY <1>1, <1>4, <2>1, MaxFacts
<1>6. pos # 0 => Found(text, pos, name)
  BY <1>2, <1>3, <1>5 DEF Found
<1>7. \A other \in 1..Len(text) : Found(text, other, name) => other <= pos
  BY <1>1, <1>2, <1>3, <1>5 DEF Found
<1>8. QED BY <1>2, <1>3, <1>5, <1>6, <1>7 DEF pos

-----------------------------------------------------------------------------
(* Induction, on the naturals and on sequences, for a set of them.         *)

\* A set with 0 and with the successor of each of its naturals has them all.
LEMMA Induction ==
    ASSUME NEW S, 0 \in S, \A n \in Nat : n \in S => n + 1 \in S
    PROVE  \A n \in Nat : n \in S
<1> DEFINE Bad == {n \in Nat : n \notin S}
<1> SUFFICES ASSUME Bad # {} PROVE FALSE
  OBVIOUS
<1>1. PICK m \in Bad : \A k \in Bad : m <= k
  BY LeastNatural
<1>2. m \in Nat /\ m # 0 /\ m \notin S
  OBVIOUS
<1>3. m - 1 \in Nat /\ ~(m <= m - 1) /\ (m - 1) + 1 = m
  BY <1>2
<1>4. m - 1 \in S
  BY <1>1, <1>3
<1>5. QED BY <1>2, <1>3, <1>4

\* A set of sequences with the empty one, closed under an element at the end.
LEMMA AppendInduction ==
    ASSUME NEW C, NEW P, <<>> \in P,
           \A s \in Seq(C), c \in C : s \in P => Append(s, c) \in P
    PROVE  \A s \in Seq(C) : s \in P
<1> DEFINE S == {n \in Nat : \A s \in Seq(C) : Len(s) = n => s \in P}
<1>1. 0 \in S
  OBVIOUS
<1>2. ASSUME NEW n \in Nat, n \in S PROVE n + 1 \in S
  <2> SUFFICES ASSUME NEW s \in Seq(C), Len(s) = n + 1 PROVE s \in P
    OBVIOUS
  <2> DEFINE most == SubSeq(s, 1, n)
  <2>1. most \in Seq(C) /\ Len(most) = n /\ s[n + 1] \in C /\ s = Append(most, s[n + 1])
    OBVIOUS
  <2>2. most \in P
    BY <1>2, <2>1
  <2> HIDE DEF most
  <2>3. QED BY <2>1, <2>2
<1> HIDE DEF S
<1>3. \A n \in Nat : n \in S
  BY <1>1, <1>2, Induction
<1>4. QED BY <1>3 DEF S

\* The same with an element in front.
LEMMA ConsInduction ==
    ASSUME NEW C, NEW P, <<>> \in P,
           \A s \in Seq(C), c \in C : s \in P => <<c>> \o s \in P
    PROVE  \A s \in Seq(C) : s \in P
<1> DEFINE S == {n \in Nat : \A s \in Seq(C) : Len(s) = n => s \in P}
<1>1. 0 \in S
  OBVIOUS
<1>2. ASSUME NEW n \in Nat, n \in S PROVE n + 1 \in S
  <2> SUFFICES ASSUME NEW s \in Seq(C), Len(s) = n + 1 PROVE s \in P
    OBVIOUS
  <2> DEFINE most == Tail(s)
  <2>1. most \in Seq(C) /\ Len(most) = n /\ s[1] \in C /\ s = <<s[1]>> \o most
    OBVIOUS
  <2>2. most \in P
    BY <1>2, <2>1
  <2> HIDE DEF most
  <2>3. QED BY <2>1, <2>2
<1> HIDE DEF S
<1>3. \A n \in Nat : n \in S
  BY <1>1, <1>2, Induction
<1>4. QED BY <1>3 DEF S

-----------------------------------------------------------------------------
(* A text and its words.                                                   *)

\* A function updated outside of its domain keeps its type.
LEMMA ExceptOutside ==
    ASSUME NEW S, NEW D, NEW f \in [D -> S], NEW e, NEW i, i \notin D
    PROVE  [f EXCEPT ![i] = e] \in [D -> S]
OBVIOUS

\* One more character makes words of words.
LEMMA ExtendedType ==
    ASSUME NEW words \in Seq(Text), NEW goesOn, NEW ch \in Char
    PROVE  Extended(words, goesOn, ch) \in Seq(Text)
<1>1. <<ch>> \in Text /\ Append(words, <<ch>>) \in Seq(Text)
  BY DEF Text
<1>2. ASSUME words # <<>>
      PROVE  [words EXCEPT ![Len(words)] = Append(@, ch)] \in Seq(Text)
  <2>1. Len(words) \in 1..Len(words) /\ words[Len(words)] \in Text
    BY <1>2
  <2>2. Append(words[Len(words)], ch) \in Text
    BY <2>1 DEF Text
  <2>3. QED BY <2>1, <2>2
<1>3. ASSUME words = <<>>
      PROVE  [words EXCEPT ![Len(words)] = Append(@, ch)] \in Seq(Text)
  <2> DEFINE same == [words EXCEPT ![Len(words)] = Append(@, ch)]
  <2>1. Len(words) = 0 /\ words \in [1..0 -> Text]
    BY <1>3
  <2>2. same \in [1..0 -> Text]
    <3>1. 0 \notin 1..0
      OBVIOUS
    <3>2. \A e : [words EXCEPT ![0] = e] \in [1..0 -> Text]
      BY <2>1, <3>1, ExceptOutside, Zenon
    <3>3. QED BY <2>1, <3>2, Zenon
  <2>3. same = words
    BY <2>1, <2>2
  <2>4. QED BY <2>3
<1>4. QED BY <1>1, <1>2, <1>3 DEF Extended

\* The words of each beginning of a text.
LEMMA WordsAlong ==
    ASSUME NEW text \in Text
    PROVE  \E f \in [0..Len(text) -> Seq(Text)] :
              /\ f[0] = <<>> /\ Words(text) = f[Len(text)]
              /\ \A k \in 1..Len(text) :
                    f[k] = Extended(f[k - 1], k > 1 /\ text[k - 1] # Blank, text[k])
<1> DEFINE n == Len(text)
           step == [x \in (1..n) \X Seq(Text) |->
                      Extended(x[2], x[1] > 1 /\ text[x[1] - 1] # Blank, text[x[1]])]
           W(w) == [k \in 0..n |->
                      IF k = 0 THEN <<>>
                      ELSE Extended(w[k - 1], k > 1 /\ text[k - 1] # Blank, text[k])]
<1>1. n \in Nat /\ \A i \in 1..n : text[i] \in Char
  BY TextFacts
<1>2. step \in [(1..n) \X Seq(Text) -> Seq(Text)]
  <2>1. ASSUME NEW x \in (1..n) \X Seq(Text)
        PROVE  Extended(x[2], x[1] > 1 /\ text[x[1] - 1] # Blank, text[x[1]]) \in Seq(Text)
    <3>1. x[2] \in Seq(Text) /\ text[x[1]] \in Char
      BY <1>1
    <3>2. QED BY <3>1, ExtendedType
  <2>2. QED BY <2>1
<1>3. \A k \in 1..n, w \in Seq(Text) :
        step[<<k, w>>] = Extended(w, k > 1 /\ text[k - 1] # Blank, text[k])
  OBVIOUS
<1> HIDE DEF n, step
<1>4. <<>> \in Seq(Text)
  OBVIOUS
<1>5. PICK f : IsAlong(n, Seq(Text), <<>>, step, f)
  BY <1>1, <1>2, <1>4, FunctionAlong
<1>6. /\ f \in [0..n -> Seq(Text)] /\ f[0] = <<>>
      /\ \A k \in 1..n : f[k] = Extended(f[k - 1], k > 1 /\ text[k - 1] # Blank, text[k])
  <2>1. f \in [0..n -> Seq(Text)] /\ f[0] = <<>> /\ \A k \in 1..n : f[k] = step[<<k, f[k - 1]>>]
    BY <1>5 DEF IsAlong
  <2>2. \A k \in 1..n : k - 1 \in 0..n
    BY <1>1
  <2>3. \A k \in 1..n : f[k - 1] \in Seq(Text)
    BY <2>1, <2>2
  <2>4. QED BY <1>3, <2>1, <2>3
<1>7. f = W(f)
  <2>1. \A k \in 0..n : k # 0 => k \in 1..n
    BY <1>1
  <2>2. \A k \in 0..n : f[k] = W(f)[k]
    BY <1>6, <2>1
  <2>3. DOMAIN f = 0..n /\ f = [k \in 0..n |-> f[k]]
    BY <1>6
  <2>4. QED BY <2>2, <2>3
<1> DEFINE g == CHOOSE w : w = W(w)
<1>8. g = W(g)
  BY <1>7
<1>9. Words(text) = g[n]
  BY DEF Words, n
<1> HIDE DEF g
<1>10. g[0] = <<>> /\ \A k \in 1..n : g[k] = Extended(g[k - 1], k > 1 /\ text[k - 1] # Blank, text[k])
  <2>1. 0 \in 0..n /\ \A k \in 1..n : k \in 0..n /\ k # 0
    BY <1>1
  <2>2. \A k \in 0..n : g[k] = W(g)[k]
    BY <1>8
  <2>3. QED BY <2>1, <2>2
<1>11. \A k \in 0..n : g[k] = f[k]
  <2> DEFINE S == {k \in Nat : k <= n => g[k] = f[k]}
  <2>1. 0 \in S
    BY <1>6, <1>10
  <2>2. ASSUME NEW k \in Nat, k \in S PROVE k + 1 \in S
    <3> SUFFICES ASSUME k + 1 <= n PROVE g[k + 1] = f[k + 1]
      OBVIOUS
    <3>1. k <= n /\ k + 1 \in 1..n /\ (k + 1) - 1 = k
      BY <1>1
    <3>2. g[k] = f[k]
      BY <2>2, <3>1
    <3>3. QED BY <1>6, <1>10, <3>1, <3>2
  <2> HIDE DEF S
  <2>3. \A k \in Nat : k \in S
    BY <2>1, <2>2, Induction
  <2>4. QED BY <1>1, <2>3 DEF S
<1>12. Words(text) = f[n]
  BY <1>1, <1>9, <1>11
<1>13. QED BY <1>6, <1>12 DEF n

\* A text and one more character.
LEMMA AppendFacts ==
    ASSUME NEW text \in Text, NEW ch \in Char
    PROVE  /\ Append(text, ch) \in Text /\ Len(Append(text, ch)) = Len(text) + 1
           /\ Append(text, ch) # <<>>
           /\ Append(text, ch)[Len(text) + 1] = ch
           /\ \A k \in 1..Len(text) : Append(text, ch)[k] = text[k]
BY DEF Text

\* The words go on at the end of the text.
EndsInWord(text) == text # <<>> /\ text[Len(text)] # Blank

\* The words of a text are texts.
LEMMA WordsType ==
    ASSUME NEW text \in Text
    PROVE  Words(text) \in Seq(Text)
<1>1. Len(text) \in 0..Len(text)
  BY TextFacts
<1>2. QED BY <1>1, WordsAlong

\* The empty text has no words.
LEMMA WordsEmpty == <<>> \in Text /\ Words(<<>>) = <<>>
<1>1. <<>> \in Text /\ Len(<<>>) = 0
  BY DEF Text
<1>2. QED BY <1>1, WordsAlong

\* The words of a text with one more character.
LEMMA WordsAppend ==
    ASSUME NEW text \in Text, NEW ch \in Char
    PROVE  Words(Append(text, ch)) = Extended(Words(text), EndsInWord(text), ch)
<1> DEFINE n == Len(text)
           more == Append(text, ch)
<1>1. n \in Nat
  BY TextFacts
<1>2. /\ more \in Text /\ Len(more) = n + 1 /\ more[n + 1] = ch
      /\ \A k \in 1..n : more[k] = text[k]
  BY AppendFacts
<1> HIDE DEF more
<1>3. PICK f \in [0..n -> Seq(Text)] :
        /\ f[0] = <<>> /\ Words(text) = f[n]
        /\ \A k \in 1..n : f[k] = Extended(f[k - 1], k > 1 /\ text[k - 1] # Blank, text[k])
  BY WordsAlong
<1>4. PICK g \in [0..n+1 -> Seq(Text)] :
        /\ g[0] = <<>> /\ Words(more) = g[n + 1]
        /\ \A k \in 1..n+1 : g[k] = Extended(g[k - 1], k > 1 /\ more[k - 1] # Blank, more[k])
  BY <1>2, WordsAlong
<1>5. \A k \in 0..n : g[k] = f[k]
  <2> DEFINE S == {k \in Nat : k <= n => g[k] = f[k]}
  <2>1. 0 \in S
    BY <1>3, <1>4
  <2>2. ASSUME NEW k \in Nat, k \in S PROVE k + 1 \in S
    <3> SUFFICES ASSUME k + 1 <= n PROVE g[k + 1] = f[k + 1]
      OBVIOUS
    <3>1. k <= n /\ k + 1 \in 1..n /\ k + 1 \in 1..n+1 /\ (k + 1) - 1 = k
      BY <1>1
    <3>2. g[k] = f[k]
      BY <2>2, <3>1
    <3>3. more[k + 1] = text[k + 1] /\ (k + 1 > 1 => more[k] = text[k])
      BY <1>1, <1>2, <3>1
    <3>4. (k + 1 > 1 /\ more[k] # Blank) = (k + 1 > 1 /\ text[k] # Blank)
      BY <3>3
    <3>5. /\ g[k + 1] = Extended(g[k], k + 1 > 1 /\ more[k] # Blank, more[k + 1])
          /\ f[k + 1] = Extended(f[k], k + 1 > 1 /\ text[k] # Blank, text[k + 1])
      BY <1>3, <1>4, <3>1
    <3>6. QED BY <3>2, <3>3, <3>4, <3>5
  <2> HIDE DEF S
  <2>3. \A k \in Nat : k \in S
    BY <2>1, <2>2, Induction
  <2>4. QED BY <1>1, <2>3 DEF S
<1>6. g[n + 1] = Extended(g[n], n + 1 > 1 /\ more[n] # Blank, ch)
  <2>1. n + 1 \in 1..n+1 /\ (n + 1) - 1 = n
    BY <1>1
  <2>2. QED BY <1>2, <1>4, <2>1
<1>7. (n + 1 > 1 /\ more[n] # Blank) = EndsInWord(text)
  <2>1. n + 1 > 1 <=> text # <<>>
    BY <1>1 DEF Text
  <2>2. n + 1 > 1 => more[n] = text[n]
    BY <1>1, <1>2
  <2>3. QED BY <2>1, <2>2 DEF EndsInWord
<1>8. n \in 0..n
  BY <1>1
<1>9. QED BY <1>3, <1>4, <1>5, <1>6, <1>7, <1>8 DEF more

\* A text that ends in a word has one.
LEMMA WordsEnd ==
    ASSUME NEW text \in Text, EndsInWord(text)
    PROVE  Words(text) # <<>>
<1> DEFINE P == {s \in Text : EndsInWord(s) => Words(s) # <<>>}
<1>1. <<>> \in P
  BY WordsEmpty DEF EndsInWord
<1>2. ASSUME NEW s \in Seq(Char), NEW c \in Char, s \in P PROVE Append(s, c) \in P
  <2>1. s \in Text /\ Words(s) \in Seq(Text)
    BY WordsType DEF Text
  <2>2. /\ Append(s, c) \in Text
        /\ EndsInWord(Append(s, c)) => c # Blank
    BY <2>1, AppendFacts DEF EndsInWord
  <2>3. Words(Append(s, c)) = Extended(Words(s), EndsInWord(s), c)
    BY <2>1, WordsAppend
  <2>4. ASSUME c # Blank PROVE Extended(Words(s), EndsInWord(s), c) # <<>>
    <3>1. CASE EndsInWord(s)
      <4>1. Words(s) # <<>>
        BY <1>2, <3>1
      <4>2. DOMAIN [Words(s) EXCEPT ![Len(Words(s))] = Append(@, c)] = DOMAIN Words(s)
        OBVIOUS
      <4>3. 1 \in DOMAIN Words(s) /\ 1 \notin DOMAIN <<>>
        <5>1. Words(s) \in Seq(Text) /\ Words(s) # <<>>
          BY <2>1, <4>1
        <5> HIDE DEF P
        <5>2. QED BY <5>1
      <4>4. QED BY <2>4, <3>1, <4>2, <4>3 DEF Extended
    <3>2. CASE ~EndsInWord(s)
      <4>1. Append(Words(s), <<c>>) # <<>>
        <5>1. Words(s) \in Seq(Text) /\ <<c>> \in Text
          BY <2>1 DEF Text
        <5>2. QED BY <5>1
      <4>2. QED BY <2>4, <3>2, <4>1 DEF Extended
    <3>3. QED BY <3>1, <3>2
  <2>5. QED BY <2>2, <2>3, <2>4
<1> HIDE DEF P
<1>3. \A s \in Seq(Char) : s \in P
  BY <1>1, <1>2, AppendInduction
<1>4. QED BY <1>3 DEF P, Text

\* A sequence that is not empty has a last element.
LEMMA LastSplit ==
    ASSUME NEW C, NEW s \in Seq(C), s # <<>>
    PROVE  \E v \in Seq(C), x \in C : s = Append(v, x)
<1>1. SubSeq(s, 1, Len(s) - 1) \in Seq(C) /\ s[Len(s)] \in C
  OBVIOUS
<1>2. s = Append(SubSeq(s, 1, Len(s) - 1), s[Len(s)])
  OBVIOUS
<1>3. QED BY <1>1, <1>2

\* The last element is replaced.
LEMMA LastReplaced ==
    ASSUME NEW C, NEW v \in Seq(C), NEW x \in C, NEW y \in C
    PROVE  [Append(v, x) EXCEPT ![Len(v) + 1] = y] = Append(v, y)
<1> DEFINE w == Append(v, x)
           left == [w EXCEPT ![Len(v) + 1] = y]
<1>1. w \in Seq(C) /\ Len(w) = Len(v) + 1 /\ \A i \in 1..Len(v) : w[i] = v[i]
  OBVIOUS
<1> HIDE DEF w
<1>2. left \in Seq(C) /\ Len(left) = Len(v) + 1 /\ left[Len(v) + 1] = y
  BY <1>1
<1>3. \A i \in 1..Len(v) : left[i] = v[i]
  BY <1>1
<1> HIDE DEF left
<1>4. left = Append(v, y)
  BY <1>2, <1>3
<1>5. QED BY <1>4 DEF left, w

\* The last word goes on.
LEMMA ExtendedLast ==
    ASSUME NEW v \in Seq(Text), NEW x \in Text, NEW ch \in Char, ch # Blank
    PROVE  Extended(Append(v, x), TRUE, ch) = Append(v, Append(x, ch))
<1>1. Append(x, ch) \in Text
  BY DEF Text
<1>2. Len(Append(v, x)) = Len(v) + 1 /\ Append(v, x)[Len(v) + 1] = x
  OBVIOUS
<1>3. \A y \in Text : [Append(v, x) EXCEPT ![Len(v) + 1] = y] = Append(v, y)
  BY LastReplaced
<1>4. [Append(v, x) EXCEPT ![Len(v) + 1] = Append(x, ch)] = Append(v, Append(x, ch))
  BY <1>1, <1>3, Zenon
<1>5. QED BY <1>2, <1>4 DEF Extended

\* What goes on with the last words goes on with all of them.
LEMMA ExtendedConcat ==
    ASSUME NEW u \in Seq(Text), NEW w \in Seq(Text), NEW goesOn \in BOOLEAN, NEW ch \in Char,
           goesOn => w # <<>>
    PROVE  Extended(u \o w, goesOn, ch) = u \o Extended(w, goesOn, ch)
<1>1. CASE ch = Blank
  BY <1>1 DEF Extended
<1>2. CASE ch # Blank /\ ~goesOn
  <2>1. <<ch>> \in Text
    BY DEF Text
  <2>2. Append(u \o w, <<ch>>) = u \o Append(w, <<ch>>)
    BY <2>1
  <2>3. QED BY <1>2, <2>2 DEF Extended
<1>3. CASE ch # Blank /\ goesOn
  <2>1. PICK v \in Seq(Text), x \in Text : w = Append(v, x)
    BY <1>3, LastSplit
  <2>2. u \o v \in Seq(Text) /\ u \o w = Append(u \o v, x) /\ Append(x, ch) \in Text
    BY <2>1 DEF Text
  <2>3. Extended(Append(u \o v, x), TRUE, ch) = Append(u \o v, Append(x, ch))
    BY <1>3, <2>2, ExtendedLast, Zenon
  <2>4. Extended(Append(v, x), TRUE, ch) = Append(v, Append(x, ch))
    BY <1>3, ExtendedLast, Zenon
  <2>5. Append(u \o v, Append(x, ch)) = u \o Append(v, Append(x, ch))
    <3>1. \A y \in Text : Append(u \o v, y) = u \o Append(v, y)
      <4> SUFFICES ASSUME NEW y \in Text PROVE Append(u \o v, y) = u \o Append(v, y)
        OBVIOUS
      <4>1. QED OBVIOUS
    <3>2. QED BY <2>2, <3>1, Zenon
  <2>6. goesOn = TRUE
    BY <1>3
  <2>7. QED BY <2>1, <2>2, <2>3, <2>4, <2>5, <2>6, Zenon
<1>4. QED BY <1>1, <1>2, <1>3

\* Two texts, one blank apart.
Joined(a, b) == a \o <<Blank>> \o b

\* The blank is a character.
LEMMA BlankIsChar == Blank \in Char /\ <<Blank>> \in Text
<1>1. Blank \in Char
  BY CharAssumption DEF Blank
<1>2. QED BY <1>1 DEF Text

\* What two texts one blank apart show at each place.
LEMMA JoinedFacts ==
    ASSUME NEW a \in Text, NEW b \in Text
    PROVE  /\ Joined(a, b) \in Text /\ Len(Joined(a, b)) = Len(a) + 1 + Len(b)
           /\ \A k \in 1..Len(a) : Joined(a, b)[k] = a[k]
           /\ Joined(a, b)[Len(a) + 1] = Blank
           /\ \A k \in 1..Len(b) : Joined(a, b)[Len(a) + 1 + k] = b[k]
<1>1. Len(a) \in Nat /\ Len(b) \in Nat
  BY TextFacts
<1> DEFINE s == a \o <<Blank>>
<1>2. /\ s \in Text /\ Len(s) = Len(a) + 1
      /\ \A k \in 1..Len(a) : s[k] = a[k]
      /\ s[Len(a) + 1] = Blank
  BY BlankIsChar DEF Text
<1> HIDE DEF s
<1>3. /\ s \o b \in Text /\ Len(s \o b) = Len(s) + Len(b)
      /\ \A k \in 1..Len(s) : (s \o b)[k] = s[k]
      /\ \A k \in 1..Len(b) : (s \o b)[Len(s) + k] = b[k]
  BY <1>2, ConcatFacts
<1>4. Joined(a, b) = s \o b
  BY DEF Joined, s
<1>5. \A k \in 1..Len(a) : k \in 1..Len(s)
  BY <1>1, <1>2
<1>6. Len(a) + 1 \in 1..Len(s)
  BY <1>1, <1>2
<1>7. QED BY <1>2, <1>3, <1>4, <1>5, <1>6, Zenon

\* The words of two texts one blank apart are those of the one and of the other.
LEMMA WordsJoined ==
    ASSUME NEW a \in Text, NEW b \in Text
    PROVE  Words(Joined(a, b)) = Words(a) \o Words(b)
<1> DEFINE P == {s \in Text : Words(Joined(a, s)) = Words(a) \o Words(s)}
<1>1. Words(a) \in Seq(Text)
  BY WordsType
<1>2. <<>> \in P
  <2>1. Joined(a, <<>>) = Append(a, Blank)
    BY BlankIsChar DEF Joined, Text
  <2>2. Words(Append(a, Blank)) = Words(a)
    BY BlankIsChar, WordsAppend DEF Extended
  <2>3. Words(a) \o <<>> = Words(a)
    BY <1>1
  <2>4. QED BY <2>1, <2>2, <2>3, WordsEmpty
<1>3. ASSUME NEW s \in Seq(Char), NEW c \in Char, s \in P PROVE Append(s, c) \in P
  <2>1. /\ s \in Text /\ Joined(a, s) \in Text /\ Append(s, c) \in Text
        /\ Words(s) \in Seq(Text) /\ Len(s) \in Nat /\ Len(a) \in Nat
    BY WordsType, JoinedFacts, AppendFacts, TextFacts DEF Text
  <2>2. Joined(a, Append(s, c)) = Append(Joined(a, s), c)
    BY <2>1, BlankIsChar DEF Joined, Text
  <2>3. EndsInWord(Joined(a, s)) = EndsInWord(s)
    <3>1. CASE s = <<>>
      <4>1. Len(s) = 0 /\ Joined(a, s)[Len(Joined(a, s))] = Blank
        <5>1. Len(s) = 0 /\ Len(Joined(a, s)) = Len(a) + 1 + Len(s)
          BY <2>1, <3>1, JoinedFacts
        <5>2. Joined(a, s)[Len(a) + 1] = Blank /\ Len(a) + 1 + 0 = Len(a) + 1
          BY <2>1, JoinedFacts
        <5>3. QED BY <5>1, <5>2
      <4>2. QED BY <3>1, <4>1 DEF EndsInWord
    <3>2. CASE s # <<>>
      <4>1. Len(s) \in 1..Len(s)
        BY <2>1, <3>2 DEF Text
      <4>2. Len(Joined(a, s)) = Len(a) + 1 + Len(s) /\ Joined(a, s)[Len(a) + 1 + Len(s)] = s[Len(s)]
        BY <2>1, <4>1, JoinedFacts
      <4>3. Joined(a, s) # <<>>
        BY <2>1, <4>2 DEF Text
      <4>4. QED BY <3>2, <4>2, <4>3 DEF EndsInWord
    <3>3. QED BY <3>1, <3>2
  <2>4. Words(Joined(a, Append(s, c))) = Extended(Words(a) \o Words(s), EndsInWord(s), c)
    <3>1. Words(Append(Joined(a, s), c)) = Extended(Words(Joined(a, s)), EndsInWord(Joined(a, s)), c)
      BY <2>1, WordsAppend
    <3>2. Words(Joined(a, s)) = Words(a) \o Words(s)
      BY <1>3
    <3>3. QED BY <2>2, <2>3, <3>1, <3>2
  <2>5. EndsInWord(s) \in BOOLEAN /\ (EndsInWord(s) => Words(s) # <<>>)
    BY <2>1, WordsEnd DEF EndsInWord
  <2>6. Extended(Words(a) \o Words(s), EndsInWord(s), c) = Words(a) \o Extended(Words(s), EndsInWord(s), c)
    BY <1>1, <2>1, <2>5, ExtendedConcat
  <2>7. Words(Append(s, c)) = Extended(Words(s), EndsInWord(s), c)
    BY <2>1, WordsAppend
  <2>8. QED BY <2>1, <2>4, <2>6, <2>7
<1> HIDE DEF P
<1>4. \A s \in Seq(Char) : s \in P
  BY <1>2, <1>3, AppendInduction
<1>5. QED BY <1>4 DEF P, Text

\* Words that are not empty have no blank in them.
Word == {word \in Text : word # <<>> /\ \A i \in 1..Len(word) : word[i] # Blank}

\* A word is a text of one word, itself.
LEMMA WordsOfWord ==
    ASSUME NEW word \in Word
    PROVE  Words(word) = <<word>>
<1> DEFINE NoBlank(s) == \A i \in 1..Len(s) : s[i] # Blank
           P == {s \in Text : NoBlank(s) => Words(s) = IF s = <<>> THEN <<>> ELSE <<s>>}
<1>1. <<>> \in P
  BY WordsEmpty
<1>2. ASSUME NEW s \in Seq(Char), NEW c \in Char, s \in P PROVE Append(s, c) \in P
  <2>1. s \in Text /\ Append(s, c) \in Text /\ Append(s, c) # <<>> /\ Len(s) \in Nat
    <3>1. s \in Text
      BY DEF Text
    <3>2. QED BY <3>1, AppendFacts, TextFacts
  <2> SUFFICES ASSUME NoBlank(Append(s, c)) PROVE Words(Append(s, c)) = <<Append(s, c)>>
    BY <2>1
  <2>2. c # Blank /\ NoBlank(s)
    <3>1. /\ Len(Append(s, c)) = Len(s) + 1 /\ Append(s, c)[Len(s) + 1] = c
          /\ \A k \in 1..Len(s) : Append(s, c)[k] = s[k]
      BY <2>1, AppendFacts
    <3>2. \A k \in 1..Len(s) + 1 : Append(s, c)[k] # Blank
      BY <3>1
    <3>3. Len(s) + 1 \in 1..Len(s) + 1 /\ \A k \in 1..Len(s) : k \in 1..Len(s) + 1
      BY <2>1
    <3>4. QED BY <3>1, <3>2, <3>3, Zenon
  <2>3. Words(Append(s, c)) = Extended(Words(s), EndsInWord(s), c)
    BY <2>1, WordsAppend
  <2>4. CASE s = <<>>
    <3>1. EndsInWord(s) = FALSE /\ Words(s) = <<>>
      BY <2>4, WordsEmpty DEF EndsInWord
    <3>2. Append(s, c) = <<c>>
      BY <2>4
    <3>3. Append(Words(s), <<c>>) = <<<<c>>>>
      BY <3>1
    <3>4. QED BY <2>2, <2>3, <3>1, <3>2, <3>3 DEF Extended
  <2>5. CASE s # <<>>
    <3>1. EndsInWord(s) = TRUE
      <4>1. Len(s) \in 1..Len(s)
        BY <2>1, <2>5 DEF Text
      <4>2. QED BY <2>2, <2>5, <4>1 DEF EndsInWord
    <3>2. Words(s) = <<s>> /\ <<s>> = Append(<<>>, s) /\ <<>> \in Seq(Text)
      BY <1>2, <2>1, <2>2, <2>5
    <3>3. Extended(Append(<<>>, s), TRUE, c) = Append(<<>>, Append(s, c))
      BY <2>1, <2>2, <3>2, ExtendedLast, Zenon
    <3>4. Append(<<>>, Append(s, c)) = <<Append(s, c)>>
      OBVIOUS
    <3>5. QED BY <2>3, <3>1, <3>2, <3>3, <3>4, Zenon
  <2>6. QED BY <2>4, <2>5
<1> HIDE DEF P
<1>3. \A s \in Seq(Char) : s \in P
  BY <1>1, <1>2, AppendInduction
<1>4. QED BY <1>3 DEF P, Text, Word

-----------------------------------------------------------------------------
(* Texts in which the launcher's arguments can be told apart.              *)

\* Where a name is found in two texts one blank apart.
LEMMA JoinedFound ==
    ASSUME NEW a \in Text, NEW b \in Text, NEW name \in Name, NEW pos \in Nat \ {0}
    PROVE  Found(Joined(a, b), pos, name) <=>
               \/ pos <= Len(a) /\ Found(a, pos, name)
               \/ pos > Len(a) + 1 /\ Found(b, pos - (Len(a) + 1), name)
<1> DEFINE n == Len(a)
           s == Joined(a, b)
<1>1. /\ n \in Nat /\ Len(b) \in Nat /\ Len(name) \in Nat /\ name \in Text
      /\ \A k \in 1..Len(name) : name[k] # Blank
  BY TextFacts DEF Name
<1>2. /\ s \in Text /\ Len(s) = n + 1 + Len(b)
      /\ \A k \in 1..n : s[k] = a[k]
      /\ s[n + 1] = Blank
      /\ \A k \in 1..Len(b) : s[n + 1 + k] = b[k]
  BY JoinedFacts
<1> HIDE DEF s
<1>3. Found(s, pos, name) <=>
        /\ pos + Len(name) <= n + 1 + Len(b)
        /\ s[pos] \in {"+", "-"}
        /\ \A k \in 1..Len(name) : s[pos + k] = name[k]
  <2>1. Found(s, pos, name) <=>
        /\ pos + Len(name) <= Len(s)
        /\ s[pos] \in {"+", "-"}
        /\ \A k \in 1..Len(name) : s[pos + k] = name[k]
    <3>1. s \in Text /\ name \in Text
      BY <1>1, <1>2
    <3>2. QED BY <3>1, FoundFacts
  <2>2. Len(s) = n + 1 + Len(b)
    BY <1>2
  <2>3. QED BY <2>1, <2>2, Zenon
<1>4. Found(a, pos, name) <=>
        /\ pos + Len(name) <= n
        /\ a[pos] \in {"+", "-"}
        /\ \A k \in 1..Len(name) : a[pos + k] = name[k]
  BY <1>1, FoundFacts
<1>5. CASE pos <= n
  <2>1. ~(pos > n + 1)
    BY <1>1, <1>5
  <2>2. pos \in 1..n /\ s[pos] = a[pos]
    BY <1>1, <1>2, <1>5
  <2>3. CASE pos + Len(name) <= n
    <3>1. \A k \in 1..Len(name) : pos + k \in 1..n
      BY <1>1, <2>3
    <3>2. \A k \in 1..Len(name) : s[pos + k] = a[pos + k]
      BY <1>2, <3>1
    <3>3. pos + Len(name) <= n + 1 + Len(b)
      BY <1>1, <2>3
    <3>4. Found(s, pos, name) <=> Found(a, pos, name)
      BY <1>3, <1>4, <2>2, <2>3, <3>2, <3>3
    <3>5. QED BY <1>5, <2>1, <3>4 DEF s
  <2>4. CASE ~(pos + Len(name) <= n)
    <3>1. (n + 1) - pos \in 1..Len(name) /\ pos + ((n + 1) - pos) = n + 1
      BY <1>1, <1>5, <2>4
    <3>2. s[pos + ((n + 1) - pos)] = Blank /\ name[(n + 1) - pos] # Blank
      BY <1>1, <1>2, <3>1
    <3>3. ~Found(s, pos, name)
      BY <1>3, <3>1, <3>2
    <3>4. ~Found(a, pos, name)
      BY <1>4, <2>4
    <3>5. QED BY <2>1, <3>3, <3>4 DEF s
  <2>5. QED BY <2>3, <2>4
<1>6. CASE pos = n + 1
  <2>1. s[pos] \notin {"+", "-"}
    BY <1>2, <1>6 DEF Blank
  <2>2. ~(pos <= n) /\ ~(pos > n + 1)
    BY <1>1, <1>6
  <2>3. QED BY <1>3, <2>1, <2>2 DEF s
<1>7. CASE pos > n + 1
  <2> DEFINE at == pos - (n + 1)
  <2>1. at \in Nat \ {0} /\ pos = n + 1 + at /\ ~(pos <= n)
    BY <1>1, <1>7
  <2> HIDE DEF at
  <2>2. Found(b, at, name) <=>
        /\ at + Len(name) <= Len(b)
        /\ b[at] \in {"+", "-"}
        /\ \A k \in 1..Len(name) : b[at + k] = name[k]
    BY <1>1, <2>1, FoundFacts
  <2>3. pos + Len(name) <= n + 1 + Len(b) <=> at + Len(name) <= Len(b)
    BY <1>1, <2>1
  <2>4. ASSUME at + Len(name) <= Len(b)
        PROVE  s[pos] = b[at] /\ \A k \in 1..Len(name) : s[pos + k] = b[at + k]
    <3>1. at \in 1..Len(b) /\ \A k \in 1..Len(name) : at + k \in 1..Len(b) /\ pos + k = n + 1 + (at + k)
      BY <1>1, <2>1, <2>4
    <3>2. s[pos] = b[at]
      BY <1>2, <2>1, <3>1
    <3>3. \A k \in 1..Len(name) : s[pos + k] = b[at + k]
      BY <1>2, <3>1
    <3>4. QED BY <3>2, <3>3
  <2>5. Found(s, pos, name) <=> Found(b, at, name)
    BY <1>3, <2>2, <2>3, <2>4
  <2>6. QED BY <1>7, <2>1, <2>5 DEF s, at
<1>8. QED BY <1>1, <1>5, <1>6, <1>7

\* A name that is found is a whole word.
Apart(text, name) ==
    \A pos \in 1..Len(text) : Found(text, pos, name) =>
        /\ pos = 1 \/ text[pos - 1] = Blank
        /\ pos + 1 + Len(name) <= Len(text) => text[pos + 1 + Len(name)] = Blank

\* No blank is at an end or beside another.
Neat(text) ==
    /\ text # <<>> => text[1] # Blank /\ text[Len(text)] # Blank
    /\ \A pos \in 2..Len(text) : ~(text[pos] = Blank /\ text[pos - 1] = Blank)

\* Texts as the handlers find them and leave them.
Tidy(text) == text \in Text /\ Neat(text) /\ \A name \in Names : Apart(text, name)

\* The launcher's names are names.
LEMMA NamesAreNames == Names \subseteq Name
<1>1. {"s", "t", "c", "o", "f", "p", "b", "y", "d", "l", "i", "g", "n", "m"} \subseteq Char
  BY LetterAssumption
<1>2. ASSUME NEW x \in {"s", "t", "c", "o", "f", "p", "b", "y", "d", "l", "i", "g", "n", "m"},
             NEW y \in {"s", "t", "c", "o", "f", "p", "b", "y", "d", "l", "i", "g", "n", "m"}
      PROVE  <<x, y>> \in Name
  <2>1. <<x, y>> \in Text /\ <<x, y>> # <<>> /\ Len(<<x, y>>) = 2
    BY <1>1 DEF Text
  <2>2. ~is_prefix_char(x) /\ x # Blank /\ y # Blank
    BY DEF is_prefix_char, Blank
  <2>3. QED BY <2>1, <2>2 DEF Name
<1>3. QED BY <1>2 DEF Names, steam, console, targetfps, pingboostArg, sys_ticrate, condebug,
                      conclearlog, pidfileArg, ignoresigint, nominidumps, game

\* A tidy text is one the launcher can tell apart, without a blank at its ends.
LEMMA TidyIsTellsApart ==
    ASSUME NEW text \in Text
    PROVE  Tidy(text) <=> TellsApart(text) /\ (text # <<>> => text[1] # Blank /\ text[Len(text)] # Blank)
<1>1. DOMAIN text = 1..Len(text) /\ Len(text) \in Nat
  BY TextFacts
<1>2. ASSUME NEW name \in Names, NEW pos \in 1..Len(text)
      PROVE  pos + 1 + Len(name) \in DOMAIN text <=> pos + 1 + Len(name) <= Len(text)
  <2>1. Len(name) \in Nat
    BY NamesAreNames, TextFacts DEF Name
  <2>2. QED BY <1>1, <2>1
<1>3. QED BY <1>1, <1>2 DEF Tidy, TellsApart, Neat, Apart, Found

\* Two tidy texts one blank apart are one, and its parts are tidy.
LEMMA JoinedNeat ==
    ASSUME NEW a \in Text, NEW b \in Text, a # <<>>, b # <<>>
    PROVE  Neat(Joined(a, b)) <=> Neat(a) /\ Neat(b)
<1> DEFINE n == Len(a)
           s == Joined(a, b)
<1>1. n \in Nat \ {0} /\ Len(b) \in Nat \ {0}
  BY TextFacts
<1>2. /\ s \in Text /\ Len(s) = n + 1 + Len(b)
      /\ \A k \in 1..n : s[k] = a[k]
      /\ s[n + 1] = Blank
      /\ \A k \in 1..Len(b) : s[n + 1 + k] = b[k]
  BY JoinedFacts
<1> HIDE DEF n, s
<1>3. s # <<>>
  BY <1>1, <1>2, TextFacts
<1>4. s[1] = a[1] /\ s[n] = a[n] /\ s[n + 2] = b[1] /\ s[Len(s)] = b[Len(b)]
  <2>1. 1 \in 1..n /\ n \in 1..n /\ 1 \in 1..Len(b) /\ Len(b) \in 1..Len(b) /\ n + 2 = n + 1 + 1
    BY <1>1
  <2>2. QED BY <1>2, <2>1
<1>5. ASSUME Neat(s) PROVE Neat(a) /\ Neat(b)
  <2>1. \A pos \in 2..n : ~(a[pos] = Blank /\ a[pos - 1] = Blank)
    <3> SUFFICES ASSUME NEW pos \in 2..n PROVE ~(a[pos] = Blank /\ a[pos - 1] = Blank)
      OBVIOUS
    <3>1. pos \in 1..n /\ pos - 1 \in 1..n /\ pos \in 2..Len(s)
      BY <1>1, <1>2
    <3>2. ~(s[pos] = Blank /\ s[pos - 1] = Blank)
      BY <1>5, <3>1 DEF Neat
    <3>3. QED BY <1>2, <3>1, <3>2
  <2>2. \A pos \in 2..Len(b) : ~(b[pos] = Blank /\ b[pos - 1] = Blank)
    <3> SUFFICES ASSUME NEW pos \in 2..Len(b) PROVE ~(b[pos] = Blank /\ b[pos - 1] = Blank)
      OBVIOUS
    <3>1. /\ pos \in 1..Len(b) /\ pos - 1 \in 1..Len(b) /\ n + 1 + pos \in 2..Len(s)
          /\ (n + 1 + pos) - 1 = n + 1 + (pos - 1)
      BY <1>1, <1>2
    <3>2. ~(s[n + 1 + pos] = Blank /\ s[n + 1 + (pos - 1)] = Blank)
      BY <1>5, <3>1 DEF Neat
    <3>3. QED BY <1>2, <3>1, <3>2
  <2>3. n \in 1..n /\ n + 1 \in 2..Len(s) /\ n + 2 \in 2..Len(s) /\ (n + 1) - 1 = n /\ (n + 2) - 1 = n + 1
    BY <1>1, <1>2
  <2>4. s[n] # Blank /\ s[n + 2] # Blank /\ s[1] # Blank /\ s[Len(s)] # Blank
    BY <1>2, <1>3, <1>5, <2>3 DEF Neat
  <2>5. QED BY <1>4, <2>1, <2>2, <2>4 DEF Neat, n
<1>6. ASSUME Neat(a), Neat(b) PROVE Neat(s)
  <2>1. a[1] # Blank /\ a[n] # Blank /\ b[1] # Blank /\ b[Len(b)] # Blank
    BY <1>6 DEF Neat, n
  <2>2. ASSUME NEW pos \in 2..Len(s) PROVE ~(s[pos] = Blank /\ s[pos - 1] = Blank)
    <3>1. CASE pos <= n
      <4>1. pos \in 2..n /\ pos \in 1..n /\ pos - 1 \in 1..n
        BY <1>1, <3>1
      <4>2. ~(a[pos] = Blank /\ a[pos - 1] = Blank)
        BY <1>6, <4>1 DEF Neat, n
      <4>3. QED BY <1>2, <4>1, <4>2
    <3>2. CASE pos = n + 1
      <4>1. pos - 1 = n
        BY <1>1, <3>2
      <4>2. QED BY <1>4, <2>1, <4>1
    <3>3. CASE pos = n + 2
      BY <1>4, <2>1, <3>3
    <3>4. CASE pos > n + 2
      <4> DEFINE at == pos - (n + 1)
      <4>1. /\ at \in 2..Len(b) /\ at \in 1..Len(b) /\ at - 1 \in 1..Len(b)
            /\ pos = n + 1 + at /\ pos - 1 = n + 1 + (at - 1)
        BY <1>1, <1>2, <3>4
      <4> HIDE DEF at
      <4>2. ~(b[at] = Blank /\ b[at - 1] = Blank)
        BY <1>6, <4>1 DEF Neat
      <4>3. s[pos] = b[at] /\ s[pos - 1] = b[at - 1]
        BY <1>2, <4>1
      <4>4. QED BY <4>2, <4>3
    <3>5. pos <= n \/ pos = n + 1 \/ pos = n + 2 \/ pos > n + 2
      BY <1>1
    <3>6. QED BY <3>1, <3>2, <3>3, <3>4, <3>5
  <2>3. QED BY <1>4, <2>1, <2>2 DEF Neat
<1>7. QED BY <1>5, <1>6 DEF s

\* A name is a whole word of two joined texts when it is one of each.
LEMMA JoinedApart ==
    ASSUME NEW a \in Text, NEW b \in Text, NEW name \in Name
    PROVE  Apart(Joined(a, b), name) <=> Apart(a, name) /\ Apart(b, name)
<1> DEFINE n == Len(a)
           s == Joined(a, b)
<1>1. n \in Nat /\ Len(b) \in Nat /\ Len(name) \in Nat /\ name \in Text
  BY TextFacts DEF Name
<1>2. /\ s \in Text /\ Len(s) = n + 1 + Len(b)
      /\ \A k \in 1..n : s[k] = a[k]
      /\ s[n + 1] = Blank
      /\ \A k \in 1..Len(b) : s[n + 1 + k] = b[k]
  BY JoinedFacts
<1>3. \A pos \in Nat \ {0} : Found(s, pos, name) <=>
        \/ pos <= n /\ Found(a, pos, name)
        \/ pos > n + 1 /\ Found(b, pos - (n + 1), name)
  BY JoinedFound
<1> HIDE DEF n, s
<1> DEFINE Free(text, pos) ==
        /\ pos = 1 \/ text[pos - 1] = Blank
        /\ pos + 1 + Len(name) <= Len(text) => text[pos + 1 + Len(name)] = Blank
<1>4. ASSUME NEW pos \in 1..n, Found(a, pos, name) PROVE Free(s, pos) <=> Free(a, pos)
  <2>1. pos + Len(name) <= n
    BY <1>1, <1>4, FoundFacts DEF n
  <2>2. CASE pos + 1 + Len(name) <= n
    <3>1. pos + 1 + Len(name) \in 1..n /\ pos + 1 + Len(name) <= Len(s) /\ (pos # 1 => pos - 1 \in 1..n)
      BY <1>1, <1>2, <2>2
    <3>2. s[pos + 1 + Len(name)] = a[pos + 1 + Len(name)] /\ (pos # 1 => s[pos - 1] = a[pos - 1])
      BY <1>2, <3>1
    <3>3. QED BY <2>2, <3>1, <3>2 DEF n
  <2>3. CASE ~(pos + 1 + Len(name) <= n)
    <3>1. pos + 1 + Len(name) = n + 1 /\ (pos # 1 => pos - 1 \in 1..n)
      BY <1>1, <2>1, <2>3
    <3>2. s[pos + 1 + Len(name)] = Blank /\ (pos # 1 => s[pos - 1] = a[pos - 1])
      BY <1>2, <3>1
    <3>3. QED BY <2>3, <3>2 DEF n
  <2>4. QED BY <2>2, <2>3
<1>5. ASSUME NEW at \in 1..Len(b), Found(b, at, name) PROVE Free(s, n + 1 + at) <=> Free(b, at)
  <2>1. at + Len(name) <= Len(b)
    BY <1>1, <1>5, FoundFacts
  <2>2. n + 1 + at + 1 + Len(name) <= Len(s) <=> at + 1 + Len(name) <= Len(b)
    BY <1>1, <1>2
  <2>3. at + 1 + Len(name) <= Len(b) => s[n + 1 + at + 1 + Len(name)] = b[at + 1 + Len(name)]
    <3>1. at + 1 + Len(name) <= Len(b) =>
            /\ at + 1 + Len(name) \in 1..Len(b)
            /\ n + 1 + at + 1 + Len(name) = n + 1 + (at + 1 + Len(name))
      BY <1>1
    <3>2. QED BY <1>2, <3>1
  <2>4. n + 1 + at # 1
    BY <1>1
  <2>5. at = 1 => s[(n + 1 + at) - 1] = Blank
    <3>1. at = 1 => (n + 1 + at) - 1 = n + 1
      BY <1>1
    <3>2. QED BY <1>2, <3>1
  <2>6. at # 1 => s[(n + 1 + at) - 1] = b[at - 1]
    <3>1. at # 1 => at - 1 \in 1..Len(b) /\ (n + 1 + at) - 1 = n + 1 + (at - 1)
      BY <1>1
    <3>2. QED BY <1>2, <3>1
  <2>7. QED BY <2>2, <2>3, <2>4, <2>5, <2>6
<1> HIDE DEF Free
<1>6. \A text : Apart(text, name) <=> \A pos \in 1..Len(text) : Found(text, pos, name) => Free(text, pos)
  BY DEF Apart, Free
<1>7. ASSUME Apart(s, name) PROVE Apart(a, name) /\ Apart(b, name)
  <2>1. ASSUME NEW pos \in 1..n, Found(a, pos, name) PROVE Free(a, pos)
    <3>1. pos \in Nat \ {0} /\ pos \in 1..Len(s) /\ pos <= n
      BY <1>1, <1>2
    <3>2. Found(s, pos, name)
      BY <1>3, <2>1, <3>1
    <3>3. QED BY <1>4, <1>6, <1>7, <2>1, <3>1, <3>2
  <2>2. ASSUME NEW at \in 1..Len(b), Found(b, at, name) PROVE Free(b, at)
    <3> DEFINE pos == n + 1 + at
    <3>1. pos \in Nat \ {0} /\ pos \in 1..Len(s) /\ pos > n + 1 /\ pos - (n + 1) = at
      BY <1>1, <1>2
    <3>2. Found(s, pos, name)
      BY <1>3, <2>2, <3>1
    <3>3. Free(s, pos)
      BY <1>6, <1>7, <3>1, <3>2
    <3>4. QED BY <1>5, <2>2, <3>3
  <2>3. QED BY <1>6, <2>1, <2>2 DEF n
<1>8. ASSUME Apart(a, name), Apart(b, name) PROVE Apart(s, name)
  <2>1. ASSUME NEW pos \in 1..Len(s), Found(s, pos, name) PROVE Free(s, pos)
    <3>1. pos \in Nat \ {0}
      BY <1>1, <1>2
    <3>2. CASE pos <= n /\ Found(a, pos, name)
      <4>1. pos \in 1..n
        BY <1>1, <3>2
      <4>2. Free(a, pos)
        BY <1>6, <1>8, <3>2, <4>1 DEF n
      <4>3. QED BY <1>4, <3>2, <4>1, <4>2
    <3>3. CASE pos > n + 1 /\ Found(b, pos - (n + 1), name)
      <4> DEFINE at == pos - (n + 1)
      <4>1. at \in 1..Len(b) /\ pos = n + 1 + at
        BY <1>1, <1>2, <3>3
      <4>2. Free(b, at)
        BY <1>6, <1>8, <3>3, <4>1
      <4> HIDE DEF at
      <4>3. Free(s, n + 1 + at)
        BY <1>5, <3>3, <4>1, <4>2 DEF at
      <4>4. QED BY <4>1, <4>3
    <3>4. QED BY <1>3, <2>1, <3>1, <3>2, <3>3
  <2>2. QED BY <1>6, <2>1
<1>9. QED BY <1>7, <1>8 DEF s

\* Two texts, one blank apart if neither is empty, and the place of the second.
Glue(a, b) == IF a = <<>> THEN b ELSE IF b = <<>> THEN a ELSE Joined(a, b)
Before(a) == IF a = <<>> THEN 0 ELSE Len(a) + 1

\* The type and the length of two glued texts, and what they show at each place.
LEMMA GlueFacts ==
    ASSUME NEW a \in Text, NEW b \in Text
    PROVE  /\ Glue(a, b) \in Text /\ Before(a) \in Nat
           /\ Glue(<<>>, b) = b /\ Glue(a, <<>>) = a
           /\ Glue(a, b) = <<>> <=> a = <<>> /\ b = <<>>
           /\ b # <<>> => Len(Glue(a, b)) = Before(a) + Len(b)
           /\ \A k \in 1..Len(a) : Glue(a, b)[k] = a[k]
           /\ a # <<>> /\ b # <<>> => Glue(a, b)[Before(a)] = Blank
           /\ \A k \in 1..Len(b) : Glue(a, b)[Before(a) + k] = b[k]
<1>1. Len(a) \in Nat /\ Len(b) \in Nat /\ (a = <<>> <=> Len(a) = 0) /\ (b = <<>> <=> Len(b) = 0)
  BY TextFacts
<1>2. /\ Joined(a, b) \in Text /\ Len(Joined(a, b)) = Len(a) + 1 + Len(b)
      /\ \A k \in 1..Len(a) : Joined(a, b)[k] = a[k]
      /\ Joined(a, b)[Len(a) + 1] = Blank
      /\ \A k \in 1..Len(b) : Joined(a, b)[Len(a) + 1 + k] = b[k]
  BY JoinedFacts
<1>3. Joined(a, b) # <<>>
  BY <1>1, <1>2, TextFacts
<1>4. Glue(<<>>, b) = b /\ Glue(a, <<>>) = a
  BY DEF Glue
<1>5. CASE a = <<>>
  <2>1. \A k \in 1..Len(b) : 0 + k = k
    BY <1>1
  <2>2. 0 + Len(b) = Len(b) /\ 1..Len(a) = {}
    BY <1>1, <1>5
  <2>3. Glue(a, b) = b /\ Before(a) = 0
    BY <1>5 DEF Glue, Before
  <2>4. QED BY <1>4, <1>5, <2>1, <2>2, <2>3
<1>6. CASE a # <<>> /\ b = <<>>
  <2>1. 1..Len(b) = {} /\ Before(a) \in Nat
    BY <1>1, <1>6 DEF Before
  <2>2. Glue(a, b) = a
    BY <1>6 DEF Glue
  <2>3. QED BY <1>4, <1>6, <2>1, <2>2
<1>7. CASE a # <<>> /\ b # <<>>
  <2>1. Glue(a, b) = Joined(a, b) /\ Before(a) = Len(a) + 1 /\ Before(a) \in Nat
    BY <1>1, <1>7 DEF Glue, Before
  <2>2. QED BY <1>2, <1>3, <1>4, <1>7, <2>1
<1>8. QED BY <1>5, <1>6, <1>7

\* It does not matter which of three texts are glued first.
LEMMA GlueAssociative ==
    ASSUME NEW a \in Text, NEW b \in Text, NEW c \in Text
    PROVE  Glue(a, Glue(b, c)) = Glue(Glue(a, b), c)
<1>1. Joined(a, b) # <<>> /\ Joined(b, c) # <<>>
  <2>1. Joined(a, b) \in Text /\ Len(Joined(a, b)) = Len(a) + 1 + Len(b)
    BY JoinedFacts
  <2>2. Joined(b, c) \in Text /\ Len(Joined(b, c)) = Len(b) + 1 + Len(c)
    BY JoinedFacts
  <2>3. Len(a) \in Nat /\ Len(b) \in Nat /\ Len(c) \in Nat
    BY TextFacts
  <2>4. QED BY <2>1, <2>2, <2>3, TextFacts
<1>2. Joined(a, Joined(b, c)) = Joined(Joined(a, b), c)
  BY BlankIsChar DEF Joined, Text
<1>3. QED BY <1>1, <1>2 DEF Glue

\* The words of two glued texts are those of the first and those of the second.
LEMMA GlueWords ==
    ASSUME NEW a \in Text, NEW b \in Text
    PROVE  Words(Glue(a, b)) = Words(a) \o Words(b)
<1>1. Words(a) \in Seq(Text) /\ Words(b) \in Seq(Text)
  BY WordsType
<1>2. Words(a) \o <<>> = Words(a) /\ <<>> \o Words(b) = Words(b)
  BY <1>1
<1>3. QED BY <1>2, WordsEmpty, WordsJoined DEF Glue

\* The empty text is tidy.
LEMMA TidyEmpty == Tidy(<<>>)
<1>1. <<>> \in Text /\ Len(<<>>) = 0
  BY WordsEmpty
<1>2. QED BY <1>1 DEF Tidy, Neat, Apart

\* Glued texts are tidy when each of them is.
LEMMA GlueTidy ==
    ASSUME NEW a \in Text, NEW b \in Text
    PROVE  Tidy(Glue(a, b)) <=> Tidy(a) /\ Tidy(b)
<1>1. CASE a = <<>> \/ b = <<>>
  BY <1>1, TidyEmpty DEF Glue
<1>2. CASE a # <<>> /\ b # <<>>
  <2>1. Joined(a, b) \in Text
    BY JoinedFacts
  <2>2. Neat(Joined(a, b)) <=> Neat(a) /\ Neat(b)
    BY <1>2, JoinedNeat
  <2>3. \A name \in Names : Apart(Joined(a, b), name) <=> Apart(a, name) /\ Apart(b, name)
    BY JoinedApart, NamesAreNames
  <2>4. QED BY <1>2, <2>1, <2>2, <2>3 DEF Glue, Tidy
<1>3. QED BY <1>1, <1>2

\* Where a name is found in two texts glued.
LEMMA GlueFound ==
    ASSUME NEW a \in Text, NEW b \in Text, NEW name \in Name, NEW pos \in Nat \ {0}
    PROVE  Found(Glue(a, b), pos, name) <=>
               \/ pos <= Len(a) /\ Found(a, pos, name)
               \/ pos > Before(a) /\ Found(b, pos - Before(a), name)
<1>1. /\ Len(a) \in Nat /\ Len(b) \in Nat /\ name \in Text /\ Len(name) \in Nat \ {0}
      /\ (a = <<>> <=> Len(a) = 0) /\ (b = <<>> <=> Len(b) = 0)
  BY TextFacts DEF Name
<1>2. CASE a = <<>>
  <2>1. Glue(a, b) = b /\ pos - Before(a) = pos /\ pos > Before(a) /\ ~(pos <= Len(a))
    BY <1>1, <1>2 DEF Glue, Before
  <2>2. QED BY <2>1
<1>3. CASE a # <<>> /\ b = <<>>
  <2>1. Glue(a, b) = a /\ Before(a) = Len(a) + 1
    BY <1>3 DEF Glue, Before
  <2>2. ASSUME pos > Before(a) PROVE ~Found(b, pos - Before(a), name)
    <3>1. pos - Before(a) \in Nat \ {0} /\ Len(b) = 0
      BY <1>1, <1>3, <2>1, <2>2
    <3>2. ~(pos - Before(a) + Len(name) <= Len(b))
      BY <1>1, <3>1
    <3>3. QED BY <1>1, <3>1, <3>2, FoundFacts
  <2>3. Found(a, pos, name) => pos <= Len(a)
    <3>1. pos + Len(name) <= Len(a) => pos <= Len(a)
      BY <1>1
    <3>2. QED BY <1>1, <3>1, FoundFacts
  <2>4. QED BY <2>1, <2>2, <2>3
<1>4. CASE a # <<>> /\ b # <<>>
  BY <1>4, JoinedFound DEF Glue, Before
<1>5. QED BY <1>2, <1>3, <1>4

-----------------------------------------------------------------------------
(* Cutting a text at its blanks.                                           *)

\* A text with a blank in it is two texts joined there.
LEMMA CutAtBlank ==
    ASSUME NEW text \in Text, NEW i \in 1..Len(text), text[i] = Blank
    PROVE  LET a == SubSeq(text, 1, i - 1)
               b == SubSeq(text, i + 1, Len(text))
           IN  /\ a \in Text /\ b \in Text /\ text = Joined(a, b)
               /\ Len(a) = i - 1 /\ Len(b) = Len(text) - i
               /\ \A k \in 1..i-1 : a[k] = text[k]
<1> DEFINE a == SubSeq(text, 1, i - 1)
           b == SubSeq(text, i + 1, Len(text))
<1>1. Len(text) \in Nat /\ i \in Nat \ {0} /\ i - 1 \in Nat /\ i - 1 <= Len(text) /\ i + 1 \in Nat \ {0}
  BY TextFacts
<1>2. /\ a \in Text /\ Len(a) = i - 1 /\ \A k \in 1..i-1 : a[k] = text[k]
  <2>1. /\ a \in Text /\ Len(a) = IF 1 <= i - 1 THEN (i - 1) - 1 + 1 ELSE 0
        /\ \A k \in 1..(i-1)-1+1 : a[k] = text[1 + k - 1]
    BY <1>1, PartFacts
  <2>2. (i - 1) - 1 + 1 = i - 1 /\ \A k \in 1..i-1 : 1 + k - 1 = k
    BY <1>1
  <2>3. ~(1 <= i - 1) => i - 1 = 0
    BY <1>1
  <2>4. QED BY <2>1, <2>2, <2>3
<1>3. /\ b \in Text /\ Len(b) = Len(text) - i /\ \A k \in 1..Len(text)-i : b[k] = text[i + k]
  <2>1. /\ b \in Text /\ Len(b) = IF i + 1 <= Len(text) THEN Len(text) - (i + 1) + 1 ELSE 0
        /\ \A k \in 1..Len(text)-(i+1)+1 : b[k] = text[(i + 1) + k - 1]
    BY <1>1, PartFacts
  <2>2. Len(text) - (i + 1) + 1 = Len(text) - i /\ \A k \in 1..Len(text)-i : (i + 1) + k - 1 = i + k
    BY <1>1
  <2>3. ~(i + 1 <= Len(text)) => Len(text) - i = 0
    BY <1>1
  <2>4. QED BY <2>1, <2>2, <2>3
<1> HIDE DEF a, b
<1>4. /\ Joined(a, b) \in Text /\ Len(Joined(a, b)) = Len(a) + 1 + Len(b)
      /\ \A k \in 1..Len(a) : Joined(a, b)[k] = a[k]
      /\ Joined(a, b)[Len(a) + 1] = Blank
      /\ \A k \in 1..Len(b) : Joined(a, b)[Len(a) + 1 + k] = b[k]
  BY <1>2, <1>3, JoinedFacts
<1>5. Len(Joined(a, b)) = Len(text)
  BY <1>1, <1>2, <1>3, <1>4
<1>6. ASSUME NEW k \in 1..Len(text) PROVE text[k] = Joined(a, b)[k]
  <2>1. CASE k <= i - 1
    <3>1. k \in 1..i-1
      BY <1>1, <2>1
    <3>2. QED BY <1>2, <1>4, <3>1
  <2>2. CASE k = i
    <3>1. Len(a) + 1 = i
      BY <1>1, <1>2
    <3>2. QED BY <1>4, <2>2, <3>1
  <2>3. CASE k > i
    <3>1. k - i \in 1..Len(text)-i /\ i + (k - i) = k /\ Len(a) + 1 + (k - i) = k
      BY <1>1, <1>2, <2>3
    <3>2. b[k - i] = text[k] /\ Joined(a, b)[Len(a) + 1 + (k - i)] = b[k - i]
      BY <1>3, <1>4, <3>1
    <3>3. QED BY <3>1, <3>2
  <2>4. QED BY <1>1, <2>1, <2>2, <2>3
<1>7. text = Joined(a, b)
  BY <1>4, <1>5, <1>6, SameText
<1>8. QED BY <1>2, <1>3, <1>7 DEF a, b

\* A neat text that is not empty is its first word and the rest.
LEMMA CutWord ==
    ASSUME NEW text \in Text, Neat(text), text # <<>>
    PROVE  \E word \in Word, rest \in Text : text = Glue(word, rest)
<1>1. Len(text) \in Nat \ {0} /\ text[1] # Blank /\ text[Len(text)] # Blank
  BY TextFacts DEF Neat
<1> DEFINE Blanks == {i \in 1..Len(text) : text[i] = Blank}
<1>2. CASE Blanks = {}
  <2>1. text \in Word
    BY <1>2 DEF Word
  <2>2. text = Glue(text, <<>>)
    BY DEF Glue
  <2>3. QED BY <2>1, <2>2, WordsEmpty
<1>3. CASE Blanks # {}
  <2>1. PICK i \in Blanks : \A k \in Blanks : i <= k
    <3>1. Blanks \in SUBSET Nat
      BY <1>1
    <3>2. QED BY <1>3, <3>1, LeastNatural
  <2>2. i \in 1..Len(text) /\ text[i] = Blank /\ i # 1 /\ i # Len(text)
    BY <1>1
  <2> DEFINE a == SubSeq(text, 1, i - 1)
             b == SubSeq(text, i + 1, Len(text))
  <2>3. /\ a \in Text /\ b \in Text /\ text = Joined(a, b)
        /\ Len(a) = i - 1 /\ Len(b) = Len(text) - i
        /\ \A k \in 1..i-1 : a[k] = text[k]
    BY <2>2, CutAtBlank
  <2> HIDE DEF a, b
  <2>4. Len(a) # 0 /\ Len(b) # 0
    BY <1>1, <2>2, <2>3
  <2>5. a # <<>> /\ b # <<>>
    BY <2>3, <2>4, TextFacts
  <2>6. ASSUME NEW k \in 1..Len(a) PROVE a[k] # Blank
    <3>1. k \in 1..i-1 /\ k \in 1..Len(text) /\ ~(i <= k)
      BY <1>1, <2>2, <2>3
    <3>2. k \notin Blanks
      BY <2>1, <3>1
    <3>3. QED BY <2>3, <3>1, <3>2
  <2>7. a \in Word
    BY <2>3, <2>5, <2>6 DEF Word
  <2>8. text = Glue(a, b)
    BY <2>3, <2>5 DEF Glue
  <2>9. QED BY <2>3, <2>7, <2>8
<1>4. QED BY <1>2, <1>3

\* A tidy text is cut at an argument it has.
LEMMA CutAtFound ==
    ASSUME NEW text, Tidy(text), NEW name \in Names, NEW pos \in 1..Len(text), Found(text, pos, name)
    PROVE  \E a \in Text, b \in Text, sign \in {Plus, Minus} :
              text = Glue(a, Glue(sign \o name, b)) /\ pos = Before(a) + 1
<1> DEFINE n == Len(text)
<1>1. /\ text \in Text /\ n \in Nat \ {0} /\ name \in Text /\ Len(name) \in Nat \ {0}
      /\ Neat(text) /\ Apart(text, name) /\ pos \in Nat \ {0}
  <2>1. text \in Text /\ Neat(text) /\ Apart(text, name)
    BY DEF Tidy
  <2>2. name \in Text /\ name # <<>>
    BY NamesAreNames DEF Name
  <2>3. QED BY <2>1, <2>2, TextFacts
<1>2. PICK sign \in {Plus, Minus} : OccursAt(text, pos, sign \o name)
  BY DEF Found
<1> DEFINE arg == sign \o name
           v == SubSeq(text, pos, n)
<1>3. arg \in Text /\ Len(arg) = 1 + Len(name) /\ arg # <<>>
  <2>1. arg \in Text /\ Len(arg) = 1 + Len(name)
    BY <1>1, SignedName
  <2>2. QED BY <1>1, <2>1, TextFacts
<1>4. pos + Len(name) <= n /\ \A k \in 1..1 + Len(name) : text[pos + k - 1] = arg[k]
  <2>1. /\ pos + Len(arg) <= n + 1
        /\ \A k \in 1..Len(arg) : text[pos + k - 1] = arg[k]
    BY <1>1, <1>2, <1>3, OccursFacts
  <2>2. QED BY <1>1, <1>3, <2>1
<1> HIDE DEF arg
<1>5. /\ pos = 1 \/ text[pos - 1] = Blank
      /\ pos + 1 + Len(name) <= n => text[pos + 1 + Len(name)] = Blank
  BY <1>1 DEF Apart
<1>6. \E a \in Text : text = Glue(a, v) /\ pos = Before(a) + 1
  <2>1. CASE pos = 1
    <3>1. v = text
      BY <1>1, <2>1 DEF Text
    <3>2. text = Glue(<<>>, v) /\ pos = Before(<<>>) + 1
      BY <2>1, <3>1 DEF Glue, Before
    <3>3. QED BY <3>2, WordsEmpty
  <2>2. CASE pos # 1
    <3>1. pos - 1 \in 1..n /\ text[pos - 1] = Blank /\ (pos - 1) + 1 = pos
      BY <1>1, <1>5, <2>2
    <3> DEFINE a == SubSeq(text, 1, (pos - 1) - 1)
    <3>2. /\ a \in Text /\ v \in Text /\ text = Joined(a, v)
          /\ Len(a) = (pos - 1) - 1 /\ Len(v) = n - (pos - 1)
      BY <1>1, <3>1, CutAtBlank
    <3> HIDE DEF a, v
    <3>3. v # <<>>
      <4>1. n - (pos - 1) # 0
        BY <1>1
      <4>2. QED BY <3>2, <4>1, TextFacts
    <3>4. a # <<>>
      <4>1. SUFFICES ASSUME pos = 2 PROVE FALSE
        BY <1>1, <2>2, <3>2, TextFacts
      <4>2. text[1] = Blank
        BY <3>1, <4>1
      <4>3. text[1] # Blank
        BY <1>1, TextFacts DEF Neat
      <4>4. QED BY <4>2, <4>3
    <3>5. text = Glue(a, v) /\ Before(a) = Len(a) + 1
      BY <3>2, <3>3, <3>4 DEF Glue, Before
    <3>6. pos = Before(a) + 1
      BY <1>1, <3>2, <3>5
    <3>7. QED BY <3>2, <3>5, <3>6
  <2>3. QED BY <2>1, <2>2
<1>7. /\ v \in Text /\ Len(v) = n - pos + 1
      /\ \A k \in 1..n-pos+1 : v[k] = text[pos + k - 1]
  <2>1. n \in Nat /\ n <= n /\ pos <= n
    BY <1>1
  <2>2. QED BY <1>1, <2>1, PartFacts
<1> HIDE DEF v
<1>8. \E b \in Text : v = Glue(arg, b)
  <2>1. CASE pos + Len(name) = n
    <3>1. Len(v) = Len(arg) /\ \A k \in 1..Len(v) : v[k] = arg[k]
      <4>1. n - pos + 1 = 1 + Len(name)
        BY <1>1, <2>1
      <4>2. QED BY <1>3, <1>4, <1>7, <4>1
    <3>2. v = arg
      BY <1>3, <1>7, <3>1, SameText
    <3>3. v = Glue(arg, <<>>)
      BY <3>2 DEF Glue
    <3>4. QED BY <3>3, WordsEmpty
  <2>2. CASE pos + Len(name) # n
    <3> DEFINE i == Len(name) + 2
    <3>1. i \in 1..Len(v) /\ pos + i - 1 = pos + 1 + Len(name) /\ pos + 1 + Len(name) <= n
          /\ i - 1 = Len(arg)
      BY <1>1, <1>3, <1>4, <1>7, <2>2
    <3>2. v[i] = Blank
      BY <1>5, <1>7, <3>1
    <3> DEFINE u == SubSeq(v, 1, i - 1)
               b == SubSeq(v, i + 1, Len(v))
    <3>3. /\ u \in Text /\ b \in Text /\ v = Joined(u, b)
          /\ Len(u) = i - 1 /\ Len(b) = Len(v) - i
          /\ \A k \in 1..i-1 : u[k] = v[k]
      BY <1>7, <3>1, <3>2, CutAtBlank
    <3> HIDE DEF u, b
    <3>4. u = arg
      <4>1. ASSUME NEW k \in 1..Len(u) PROVE u[k] = arg[k]
        <5>1. k \in 1..i-1 /\ k \in 1..1 + Len(name) /\ k \in 1..n-pos+1
          BY <1>1, <1>4, <3>1, <3>3
        <5>2. u[k] = v[k] /\ v[k] = text[pos + k - 1] /\ text[pos + k - 1] = arg[k]
          BY <1>4, <1>7, <3>3, <5>1
        <5>3. QED BY <5>2
      <4>2. QED BY <1>3, <3>1, <3>3, <4>1, SameText
    <3>5. b # <<>>
      <4>1. SUFFICES ASSUME Len(v) = i PROVE FALSE
        <5>1. Len(v) \in Nat /\ i \in Nat /\ (Len(v) - i = 0 => Len(v) = i)
          BY <1>1, <1>7
        <5>2. QED BY <3>3, <5>1, TextFacts
      <4>2. text[n] = Blank
        BY <1>1, <1>7, <3>1, <3>2, <4>1
      <4>3. QED BY <1>1, <4>2, TextFacts DEF Neat
    <3>6. v = Glue(arg, b)
      BY <1>3, <3>3, <3>4, <3>5 DEF Glue
    <3>7. QED BY <3>3, <3>6
  <2>3. QED BY <2>1, <2>2
<1>9. QED BY <1>6, <1>8 DEF arg

-----------------------------------------------------------------------------
(* Options and removals, in a text that is cut.                            *)

\* A least element is the least.
LEMMA MinIs ==
    ASSUME NEW S \in SUBSET Nat, NEW m \in S, \A k \in S : m <= k
    PROVE  Min(S) = m
<1>1. Min(S) \in S /\ Min(S) <= m
  BY MinFacts
<1>2. m <= Min(S) /\ Min(S) \in Nat /\ m \in Nat
  BY <1>1
<1>3. QED BY <1>1, <1>2

\* The greater of two integers, which Max chooses.
LEMMA MaxOfTwo ==
    ASSUME NEW i \in Int, NEW j \in Int
    PROVE  Max({i, j}) = IF i >= j THEN i ELSE j
<1> DEFINE m == IF i >= j THEN i ELSE j
<1>1. m \in {i, j} /\ \A k \in {i, j} : m >= k
  OBVIOUS
<1>2. \A x \in {i, j} : (\A k \in {i, j} : x >= k) => x = m
  OBVIOUS
<1>3. QED BY <1>1, <1>2 DEF Max

\* The first and the second of two texts that are glued.
LEMMA GlueFirst ==
    ASSUME NEW a \in Text, NEW b \in Text
    PROVE  SubSeq(Glue(a, b), 1, Len(a)) = a
<1> DEFINE part == SubSeq(Glue(a, b), 1, Len(a))
<1>1. Len(a) \in Nat /\ Len(b) \in Nat /\ Len(Glue(a, b)) \in Nat /\ Glue(a, b) \in Text
  BY GlueFacts, TextFacts
<1>2. Len(a) <= Len(Glue(a, b))
  <2>1. CASE b = <<>>
    BY <1>1, <2>1, GlueFacts
  <2>2. CASE b # <<>>
    <3>1. Before(a) >= Len(a) /\ Before(a) \in Nat
      BY <1>1, TextFacts DEF Before
    <3>2. Len(Glue(a, b)) = Before(a) + Len(b)
      BY <2>2, GlueFacts
    <3>3. QED BY <1>1, <3>1, <3>2
  <2>3. QED BY <2>1, <2>2
<1>3. /\ part \in Text /\ Len(part) = IF 1 <= Len(a) THEN Len(a) - 1 + 1 ELSE 0
      /\ \A k \in 1..Len(a)-1+1 : part[k] = Glue(a, b)[1 + k - 1]
  BY <1>1, <1>2, PartFacts
<1> HIDE DEF part
<1>4. Len(part) = Len(a)
  BY <1>1, <1>3
<1>5. ASSUME NEW k \in 1..Len(part) PROVE part[k] = a[k]
  <2>1. k \in 1..Len(a) /\ k \in 1..Len(a)-1+1 /\ 1 + k - 1 = k
    BY <1>1, <1>4
  <2>2. part[k] = Glue(a, b)[k] /\ Glue(a, b)[k] = a[k]
    BY <1>3, <2>1, GlueFacts
  <2>3. QED BY <2>2
<1>6. part = a
  BY <1>3, <1>4, <1>5, SameText
<1>7. QED BY <1>6 DEF part

\* The second of two glued texts begins where Before says.
LEMMA GlueSecond ==
    ASSUME NEW a \in Text, NEW b \in Text
    PROVE  SubSeq(Glue(a, b), Before(a) + 1, Len(Glue(a, b))) = b
<1> DEFINE n == Len(Glue(a, b))
           part == SubSeq(Glue(a, b), Before(a) + 1, n)
<1>1. /\ Len(a) \in Nat /\ Len(b) \in Nat /\ n \in Nat /\ Glue(a, b) \in Text
      /\ Before(a) \in Nat /\ Before(a) + 1 \in Nat \ {0} /\ (b = <<>> <=> Len(b) = 0)
  <2>1. Glue(a, b) \in Text /\ Before(a) \in Nat
    BY GlueFacts
  <2>2. Before(a) + 1 \in Nat \ {0}
    BY <2>1
  <2>3. QED BY <2>1, <2>2, TextFacts
<1>2. /\ part \in Text /\ Len(part) = IF Before(a) + 1 <= n THEN n - (Before(a) + 1) + 1 ELSE 0
      /\ \A k \in 1..n-(Before(a)+1)+1 : part[k] = Glue(a, b)[(Before(a) + 1) + k - 1]
  <2>1. n <= n
    BY <1>1
  <2>2. QED BY <1>1, <2>1, PartFacts
<1> HIDE DEF n, part
<1>3. CASE b = <<>>
  <2>1. n = Len(a)
    BY <1>3, GlueFacts DEF n
  <2>2. ~(Before(a) + 1 <= n)
    <3>1. Before(a) = IF a = <<>> THEN 0 ELSE Len(a) + 1
      BY DEF Before
    <3>2. a = <<>> => Len(a) = 0
      BY TextFacts
    <3>3. QED BY <1>1, <2>1, <3>1, <3>2
  <2>3. part = <<>>
    BY <1>2, <2>2, TextFacts
  <2>4. QED BY <1>3, <2>3 DEF part, n
<1>4. CASE b # <<>>
  <2>1. n = Before(a) + Len(b)
    BY <1>4, GlueFacts DEF n
  <2>2. Len(part) = Len(b) /\ n - (Before(a) + 1) + 1 = Len(b)
    BY <1>1, <1>2, <1>4, <2>1
  <2>3. ASSUME NEW k \in 1..Len(part) PROVE part[k] = b[k]
    <3>1. k \in 1..Len(b) /\ (Before(a) + 1) + k - 1 = Before(a) + k
      BY <1>1, <2>2
    <3>2. part[k] = Glue(a, b)[Before(a) + k] /\ Glue(a, b)[Before(a) + k] = b[k]
      BY <1>2, <2>2, <3>1, GlueFacts
    <3>3. QED BY <3>2
  <2>4. part = b
    BY <1>2, <2>2, <2>3, SameText
  <2>5. QED BY <2>4 DEF part, n
<1>5. QED BY <1>3, <1>4

\* What is between two texts is erased with a blank.
LEMMA EraseMiddle ==
    ASSUME NEW a \in Text, NEW m \in Text, NEW b \in Text, m # <<>>
    PROVE  Erase(Glue(a, Glue(m, b)), Max({(Before(a) + 1) - 1, 1}), Len(m) + 1) = Glue(a, b)
<1> DEFINE text == Glue(a, Glue(m, b))
<1>1. /\ Len(a) \in Nat /\ Len(m) \in Nat \ {0} /\ Len(b) \in Nat /\ Before(a) \in Nat
      /\ Glue(m, b) \in Text /\ text \in Text /\ Len(text) \in Nat
  BY GlueFacts, TextFacts
<1>2. Max({(Before(a) + 1) - 1, 1}) = IF a = <<>> THEN 1 ELSE Len(a) + 1
  <2>1. Max({(Before(a) + 1) - 1, 1}) = IF (Before(a) + 1) - 1 >= 1 THEN (Before(a) + 1) - 1 ELSE 1
    BY <1>1, MaxOfTwo
  <2>2. QED BY <1>1, <2>1 DEF Before
<1>3. CASE a = <<>>
  <2>1. text = Glue(m, b) /\ Glue(a, b) = b
    BY <1>3 DEF Glue
  <2>2. Before(m) + 1 = 1 + (Len(m) + 1)
    BY <1>1 DEF Before
  <2>3. SubSeq(text, 1 + (Len(m) + 1), Len(text)) = b
    BY <2>1, <2>2, GlueSecond
  <2>4. SubSeq(text, 1, 1 - 1) \o b = b
    BY <1>1 DEF Text
  <2>5. QED BY <1>2, <1>3, <2>1, <2>3, <2>4 DEF Erase
<1>4. CASE a # <<>>
  <2> DEFINE g == Glue(a, m)
  <2>1. g \in Text /\ Len(g) = Len(a) + 1 + Len(m) /\ g # <<>> /\ Len(g) \in Nat
    <3>1. g \in Text /\ (g = <<>> <=> a = <<>> /\ m = <<>>) /\ Len(g) = Before(a) + Len(m)
      BY GlueFacts
    <3>2. Before(a) = Len(a) + 1
      BY <1>4 DEF Before
    <3>3. QED BY <1>4, <3>1, <3>2, TextFacts
  <2>2. text = Glue(g, b)
    BY GlueAssociative
  <2>3. SubSeq(text, 1, (Len(a) + 1) - 1) = a
    <3>1. (Len(a) + 1) - 1 = Len(a)
      BY <1>1
    <3>2. QED BY <1>1, <3>1, GlueFirst
  <2>4. (Len(a) + 1) + (Len(m) + 1) = Len(g) + 1
    BY <1>1, <2>1
  <2> HIDE DEF g, text
  <2>5. SubSeq(text, Len(g) + 1, Len(text)) = IF b = <<>> THEN <<>> ELSE <<Blank>> \o b
    <3>1. CASE b = <<>>
      <4>1. text = g
        BY <2>2, <3>1 DEF Glue
      <4>2. QED BY <2>1, <3>1, <4>1 DEF Text
    <3>2. CASE b # <<>>
      <4>1. text = g \o (<<Blank>> \o b)
        BY <2>1, <2>2, <3>2, BlankIsChar DEF Glue, Joined, Text
      <4>2. <<Blank>> \o b \in Seq(Char) /\ g \in Seq(Char)
        BY <2>1, BlankIsChar DEF Text
      <4> DEFINE r == <<Blank>> \o b
      <4> HIDE DEF r
      <4>3. SubSeq(g \o r, Len(g) + 1, Len(g \o r)) = r
        BY <4>2 DEF r
      <4>4. QED BY <3>2, <4>1, <4>3 DEF r
    <3>3. QED BY <3>1, <3>2
  <2>6. Erase(text, Len(a) + 1, Len(m) + 1) = a \o (IF b = <<>> THEN <<>> ELSE <<Blank>> \o b)
    BY <2>3, <2>4, <2>5 DEF Erase
  <2>7. a \o (IF b = <<>> THEN <<>> ELSE <<Blank>> \o b) = Glue(a, b)
    <3>1. CASE b = <<>>
      BY <3>1, <1>4 DEF Glue, Text
    <3>2. CASE b # <<>>
      <4>1. a \o (<<Blank>> \o b) = a \o <<Blank>> \o b
        BY BlankIsChar DEF Text
      <4>2. QED BY <1>4, <3>2, <4>1 DEF Glue, Joined
    <3>3. QED BY <3>1, <3>2
  <2>8. QED BY <1>2, <1>4, <2>6, <2>7 DEF text
<1>5. QED BY <1>3, <1>4

\* The option after an argument, for callers that leave its sign and those that
\* do not: the first word of what follows, unless it is signed.
LEMMA OptionAtFacts ==
    ASSUME NEW a \in Text, NEW arg \in Text, NEW b \in Text, arg # <<>>, NEW x,
           NEW pos, pos + Len(x) + 1 \in {Before(a) + Len(arg) + 1, Before(a) + Len(arg) + 2}, pos # 0
    PROVE  LET option == OptionAt(Glue(a, Glue(arg, b)), x, pos)
           IN  /\ b = <<>> => option = NoOption
               /\ \A word \in Word, c \in Text : b = Glue(word, c) =>
                     option = IF Signed(word) THEN NoOption ELSE word
<1> DEFINE text == Glue(a, Glue(arg, b))
           g == Glue(a, arg)
           start == pos + Len(x) + 1
           after == {i \in start..Len(text) : text[i] # Blank}
<1>1. /\ g \in Text /\ g # <<>> /\ Before(g) = Len(g) + 1 /\ Before(g) \in Nat /\ Len(g) \in Nat
      /\ Before(g) = Before(a) + Len(arg) + 1
  <2>1. /\ g \in Text /\ (g = <<>> <=> a = <<>> /\ arg = <<>>)
        /\ Len(g) = Before(a) + Len(arg)
    BY GlueFacts
  <2>2. Before(g) = Len(g) + 1 /\ Len(g) \in Nat
    BY <2>1, TextFacts DEF Before
  <2>3. Before(a) \in Nat /\ Len(arg) \in Nat
    BY GlueFacts, TextFacts
  <2>4. QED BY <2>1, <2>2, <2>3
<1>2. text = Glue(g, b) /\ text \in Text /\ Len(text) \in Nat
  <2>1. text = Glue(g, b)
    BY GlueAssociative
  <2>2. text \in Text
    BY <1>1, <2>1, GlueFacts
  <2>3. QED BY <2>1, <2>2, TextFacts
<1>3. start \in {Before(g), Before(g) + 1}
  <2>1. Before(a) \in Nat /\ Len(arg) \in Nat
    BY GlueFacts, TextFacts
  <2>2. Before(a) + Len(arg) + 2 = Before(g) + 1
    BY <1>1, <2>1
  <2>3. QED BY <1>1, <2>2
<1>4. OptionAt(text, x, pos) =
        IF after = {} THEN NoOption
        ELSE IF text[Min(after)] \in {"+", "-"} THEN NoOption
        ELSE SubSeq(text, Min(after),
                    Min({i \in Min(after)..Len(text) : text[i] = Blank} \union {Len(text) + 1}) - 1)
  BY DEF OptionAt
<1> HIDE DEF text, g, start
<1>5. ASSUME b = <<>> PROVE OptionAt(text, x, pos) = NoOption
  <2>1. text = g
    BY <1>2, <1>5 DEF Glue
  <2>2. after = {}
    BY <1>1, <1>3, <2>1
  <2>3. QED BY <1>4, <2>2
<1>6. ASSUME NEW word \in Word, NEW c \in Text, b = Glue(word, c)
      PROVE  OptionAt(text, x, pos) = IF Signed(word) THEN NoOption ELSE word
  <2> DEFINE p == Before(g) + 1
  <2>1. word \in Text /\ Len(word) \in Nat \ {0} /\ \A k \in 1..Len(word) : word[k] # Blank
    BY TextFacts DEF Word
  <2>2. b # <<>> /\ Len(b) \in Nat /\ Len(b) >= Len(word)
        /\ \A k \in 1..Len(word) : b[k] = word[k]
    <3>1. /\ b \in Text /\ (b = <<>> <=> word = <<>> /\ c = <<>>)
          /\ \A k \in 1..Len(word) : b[k] = word[k]
      <4>1. /\ Glue(word, c) = <<>> <=> word = <<>> /\ c = <<>>
            /\ \A k \in 1..Len(word) : Glue(word, c)[k] = word[k]
        BY <2>1, GlueFacts
      <4>2. QED BY <1>6, <4>1, Zenon
    <3>2. Len(b) \in Nat /\ word # <<>>
      BY <3>1, TextFacts DEF Word
    <3>3. Len(b) >= Len(word)
      <4>1. CASE c = <<>>
        <5>1. b = word
          BY <1>6, <4>1 DEF Glue
        <5>2. QED BY <2>1, <5>1
      <4>2. CASE c # <<>>
        <5>1. Len(b) = Before(word) + Len(c)
          BY <1>6, <2>1, <4>2, GlueFacts
        <5>2. Before(word) = Len(word) + 1 /\ Len(c) \in Nat
          BY <3>2, TextFacts DEF Before
        <5>3. QED BY <2>1, <5>1, <5>2
      <4>3. QED BY <4>1, <4>2
    <3>4. QED BY <3>1, <3>2, <3>3
  <2>3. /\ Len(text) = Before(g) + Len(b)
        /\ text[Before(g)] = Blank
        /\ \A k \in 1..Len(b) : text[Before(g) + k] = b[k]
    <3>1. /\ Len(Glue(g, b)) = Before(g) + Len(b)
          /\ Glue(g, b)[Before(g)] = Blank
          /\ \A k \in 1..Len(b) : Glue(g, b)[Before(g) + k] = b[k]
      BY <1>1, <2>2, GlueFacts
    <3>2. QED BY <1>2, <3>1, Zenon
  <2>4. \A k \in 1..Len(word) : text[Before(g) + k] = word[k]
    <3>1. \A k \in 1..Len(word) : k \in 1..Len(b)
      BY <2>1, <2>2
    <3>2. QED BY <2>2, <2>3, <3>1
  <2>5. Min(after) = p
    <3>1. after \in SUBSET Nat
      BY <1>1, <1>2, <1>3
    <3>2. p \in after
      <4>1. 1 \in 1..Len(word) /\ p \in start..Len(text)
        BY <1>1, <1>3, <2>1, <2>2, <2>3
      <4>2. text[p] # Blank
        BY <2>1, <2>4, <4>1
      <4>3. QED BY <4>1, <4>2
    <3>3. \A k \in after : p <= k
      <4> SUFFICES ASSUME NEW k \in start..Len(text), text[k] # Blank PROVE p <= k
        OBVIOUS
      <4>1. k # Before(g)
        BY <2>3
      <4>2. QED BY <1>1, <1>2, <1>3, <4>1
    <3>4. QED BY <3>1, <3>2, <3>3, MinIs
  <2>6. after # {}
    <3>1. 1 \in 1..Len(word) /\ p \in start..Len(text)
      BY <1>1, <1>3, <2>1, <2>2, <2>3
    <3>2. text[p] # Blank
      BY <2>1, <2>4, <3>1
    <3>3. QED BY <3>1, <3>2
  <2>7. text[p] = word[1]
    BY <2>1, <2>4
  <2> DEFINE Ends == {i \in p..Len(text) : text[i] = Blank} \union {Len(text) + 1}
             e == p + Len(word)
  <2>8. Min(Ends) = e
    <3>1. Ends \in SUBSET Nat
      BY <1>1, <1>2
    <3>2. e \in Ends
      <4>1. CASE c = <<>>
        <5>1. b = word
          BY <1>6, <4>1 DEF Glue
        <5>2. e = Len(text) + 1
          BY <1>1, <2>1, <2>3, <5>1
        <5>3. QED BY <5>2
      <4>2. CASE c # <<>>
        <5>1. word # <<>>
          BY DEF Word
        <5>2. Len(b) = Before(word) + Len(c) /\ b[Before(word)] = Blank /\ Before(word) = Len(word) + 1
          BY <1>6, <2>1, <4>2, <5>1, GlueFacts DEF Before
        <5>3. Len(c) \in Nat \ {0}
          BY <4>2, TextFacts
        <5>4. Before(word) \in 1..Len(b) /\ Before(g) + Before(word) = e /\ e \in p..Len(text)
          BY <1>1, <2>1, <2>3, <5>2, <5>3
        <5>5. text[e] = Blank
          BY <2>3, <5>2, <5>4
        <5>6. QED BY <5>4, <5>5
      <4>3. QED BY <4>1, <4>2
    <3>3. \A k \in Ends : e <= k
      <4> SUFFICES ASSUME NEW k \in Ends, k < e PROVE FALSE
        BY <1>1, <1>2, <2>1
      <4>1. k # Len(text) + 1
        BY <1>1, <2>1, <2>2, <2>3
      <4>2. k \in p..Len(text) /\ text[k] = Blank
        BY <4>1
      <4>3. k - Before(g) \in 1..Len(word) /\ Before(g) + (k - Before(g)) = k
        BY <1>1, <1>2, <2>1, <4>2
      <4>4. text[k] = word[k - Before(g)] /\ word[k - Before(g)] # Blank
        BY <2>1, <2>4, <4>3
      <4>5. QED BY <4>2, <4>4
    <3>4. QED BY <3>1, <3>2, <3>3, MinIs
  <2>9. SubSeq(text, p, e - 1) = word
    <3>1. e - 1 \in Nat /\ e - 1 <= Len(text) /\ p \in Nat \ {0} /\ p <= e - 1 /\ (e - 1) - p + 1 = Len(word)
      BY <1>1, <1>2, <2>1, <2>2, <2>3
    <3>2. /\ SubSeq(text, p, e - 1) \in Text /\ Len(SubSeq(text, p, e - 1)) = Len(word)
          /\ \A k \in 1..Len(word) : SubSeq(text, p, e - 1)[k] = text[p + k - 1]
      <4> HIDE DEF p, e
      <4>1. /\ SubSeq(text, p, e - 1) \in Text
            /\ Len(SubSeq(text, p, e - 1)) = IF p <= e - 1 THEN (e - 1) - p + 1 ELSE 0
            /\ \A k \in 1..(e-1)-p+1 : SubSeq(text, p, e - 1)[k] = text[p + k - 1]
        BY <1>2, <3>1, PartFacts
      <4>2. QED BY <3>1, <4>1
    <3>3. \A k \in 1..Len(word) : p + k - 1 = Before(g) + k
      BY <1>1, <2>1
    <3>4. \A k \in 1..Len(word) : SubSeq(text, p, e - 1)[k] = word[k]
      BY <2>4, <3>2, <3>3
    <3>5. QED BY <2>1, <3>2, <3>4, SameText
  <2> HIDE DEF after, p, e, Ends
  <2>10. OptionAt(text, x, pos) = IF text[p] \in {"+", "-"} THEN NoOption ELSE SubSeq(text, p, Min(Ends) - 1)
    BY <1>4, <2>5, <2>6 DEF Ends
  <2>11. QED BY <2>7, <2>8, <2>9, <2>10 DEF Signed
<1>7. QED BY <1>5, <1>6 DEF text

\* An option is a text, and not an empty one.
LEMMA OptionAtType ==
    ASSUME NEW text \in Text, NEW arg \in Text, NEW pos \in Nat
    PROVE  OptionAt(text, arg, pos) \in Text \union {NoOption} /\ OptionAt(text, arg, pos) # <<>>
<1> DEFINE start == pos + Len(arg) + 1
           after == {i \in start..Len(text) : text[i] # Blank}
           begin == Min(after)
           Ends == {i \in begin..Len(text) : text[i] = Blank} \union {Len(text) + 1}
           end == Min(Ends)
<1>1. Len(text) \in Nat /\ start \in Nat \ {0}
  <2>1. Len(text) \in Nat /\ Len(arg) \in Nat
    BY TextFacts
  <2>2. QED BY <2>1
<1>2. <<>> # NoOption
  BY NoOptionAssumption, WordsEmpty
<1>3. OptionAt(text, arg, pos) =
        IF pos = 0 \/ after = {} THEN NoOption
        ELSE IF text[begin] \in {"+", "-"} THEN NoOption
        ELSE SubSeq(text, begin, end - 1)
  BY DEF OptionAt
<1> HIDE DEF start
<1>4. ASSUME after # {}
      PROVE  SubSeq(text, begin, end - 1) \in Text /\ SubSeq(text, begin, end - 1) # <<>>
  <2>1. after \in SUBSET Nat
    BY <1>1
  <2>2. begin \in after
    BY <1>4, <2>1, MinFacts
  <2>3. begin \in Nat \ {0} /\ begin <= Len(text) /\ text[begin] # Blank
    BY <1>1, <2>2
  <2> HIDE DEF begin, after
  <2>4. Ends \in SUBSET Nat /\ Ends # {}
    BY <1>1, <2>3
  <2>5. end \in Ends /\ end <= Len(text) + 1
    <3>1. end \in Ends /\ \A k \in Ends : end <= k
      BY <2>4, MinFacts
    <3>2. QED BY <3>1
  <2>6. end \in Nat /\ end > begin
    <3>1. end \in Nat /\ end >= begin
      BY <1>1, <2>3, <2>4, <2>5
    <3>2. end # begin
      BY <1>1, <2>3, <2>5
    <3>3. QED BY <2>3, <3>1, <3>2
  <2> HIDE DEF end
  <2>7. end - 1 \in Nat /\ end - 1 <= Len(text) /\ begin <= end - 1
    BY <1>1, <2>3, <2>5, <2>6
  <2>8. /\ SubSeq(text, begin, end - 1) \in Text
        /\ Len(SubSeq(text, begin, end - 1)) = IF begin <= end - 1 THEN (end - 1) - begin + 1 ELSE 0
    BY <2>3, <2>7, PartFacts
  <2>9. (end - 1) - begin + 1 # 0
    BY <2>3, <2>7
  <2>10. QED BY <2>7, <2>8, <2>9, TextFacts
<1> HIDE DEF after, begin, end
<1>5. QED BY <1>2, <1>3, <1>4

\* A turn of the loop leaves a text, and a shorter one if it found an argument.
LEMMA RemoveLastType ==
    ASSUME NEW text \in Text, NEW name \in Text
    PROVE  /\ RemoveLast(text, name) \in Text
           /\ find_argument_pos(text, name) # 0 => Len(RemoveLast(text, name)) < Len(text)
           /\ find_argument_pos(text, name) = 0 => RemoveLast(text, name) = text
<1> DEFINE n == Len(text)
           pos == find_argument_pos(text, name)
           option == OptionAt(text, name, pos)
           count == 1 + Len(name) + 1 + (IF option = NoOption THEN 0 ELSE Len(option) + 1)
           m == Max({pos - 1, 1})
<1>1. n \in Nat /\ Len(name) \in Nat /\ pos \in 0..n
  BY TextFacts, FindFacts
<1>2. count \in Nat \ {0}
  <2>1. option \in Text \union {NoOption}
    BY <1>1, OptionAtType
  <2>2. option # NoOption => Len(option) \in Nat
    BY <2>1, TextFacts
  <2> DEFINE size == IF option = NoOption THEN 0 ELSE Len(option) + 1
  <2>3. size \in Nat
    BY <2>2
  <2> HIDE DEF option, size
  <2>4. 1 + Len(name) + 1 + size \in Nat \ {0}
    BY <1>1, <2>3
  <2>5. QED BY <2>4 DEF size
<1>3. RemoveLast(text, name) = IF pos = 0 THEN text ELSE Erase(text, m, count)
  BY DEF RemoveLast
<1> HIDE DEF pos, count
<1>4. ASSUME pos # 0
      PROVE  Erase(text, m, count) \in Text /\ Len(Erase(text, m, count)) < n
  <2>1. m \in Nat \ {0} /\ m <= n
    <3>1. m = IF pos - 1 >= 1 THEN pos - 1 ELSE 1
      BY <1>1, MaxOfTwo
    <3>2. QED BY <1>1, <1>4, <3>1
  <2> HIDE DEF m
  <2>2. SubSeq(text, 1, m - 1) \in Text /\ Len(SubSeq(text, 1, m - 1)) = m - 1
    <3>1. m - 1 \in Nat /\ m - 1 <= Len(text)
      BY <1>1, <2>1
    <3>2. /\ SubSeq(text, 1, m - 1) \in Text
          /\ Len(SubSeq(text, 1, m - 1)) = IF 1 <= m - 1 THEN (m - 1) - 1 + 1 ELSE 0
      BY <3>1, PartFacts
    <3>3. QED BY <2>1, <3>2
  <2>3. /\ SubSeq(text, m + count, n) \in Text
        /\ Len(SubSeq(text, m + count, n)) = IF m + count <= n THEN n - (m + count) + 1 ELSE 0
    <3>1. m + count \in Nat \ {0} /\ n <= Len(text)
      BY <1>1, <1>2, <2>1
    <3>2. QED BY <1>1, <3>1, PartFacts
  <2>4. /\ Erase(text, m, count) \in Text
        /\ Len(Erase(text, m, count)) = Len(SubSeq(text, 1, m - 1)) + Len(SubSeq(text, m + count, n))
    BY <2>2, <2>3, ConcatFacts DEF Erase
  <2> HIDE DEF n
  <2>5. (IF m + count <= n THEN n - (m + count) + 1 ELSE 0) + (m - 1) < n
    BY <1>1, <1>2, <2>1
  <2>6. Len(Erase(text, m, count)) = (IF m + count <= n THEN n - (m + count) + 1 ELSE 0) + (m - 1)
    <3>1. (IF m + count <= n THEN n - (m + count) + 1 ELSE 0) \in Int /\ m - 1 \in Int
      BY <1>1, <1>2, <2>1
    <3>2. \A x, y \in Int : x + y = y + x
      OBVIOUS
    <3>3. QED BY <2>2, <2>3, <2>4, <3>1, <3>2, Zenon
  <2>7. QED BY <2>4, <2>5, <2>6
<1>5. QED BY <1>3, <1>4 DEF pos

\* The turns of the loop in remove().
LEMMA RemoveAlong ==
    ASSUME NEW text \in Text, NEW arg, remove_argument_prefix(arg) \in Text
    PROVE  \E f \in [0..Len(text) -> Text] :
              /\ f[0] = text /\ remove(text, arg) = f[Len(text)]
              /\ \A k \in 1..Len(text) : f[k] = RemoveLast(f[k - 1], remove_argument_prefix(arg))
<1> DEFINE n == Len(text)
           name == remove_argument_prefix(arg)
           step == [x \in (1..n) \X Text |-> RemoveLast(x[2], name)]
           R(after) == [turn \in 0..n |-> IF turn = 0 THEN text ELSE RemoveLast(after[turn - 1], name)]
<1>1. n \in Nat
  BY TextFacts
<1> HIDE DEF n, name
<1>2. step \in [(1..n) \X Text -> Text]
  <2>1. \A x \in (1..n) \X Text : RemoveLast(x[2], name) \in Text
    BY RemoveLastType DEF name
  <2>2. QED BY <2>1
<1>3. \A k \in 1..n, s \in Text : step[<<k, s>>] = RemoveLast(s, name)
  OBVIOUS
<1> HIDE DEF step
<1>4. PICK f : IsAlong(n, Text, text, step, f)
  BY <1>1, <1>2, FunctionAlong
<1>5. /\ f \in [0..n -> Text] /\ f[0] = text
      /\ \A k \in 1..n : f[k] = RemoveLast(f[k - 1], name)
  <2>1. f \in [0..n -> Text] /\ f[0] = text /\ \A k \in 1..n : f[k] = step[<<k, f[k - 1]>>]
    BY <1>4 DEF IsAlong
  <2>2. \A k \in 1..n : k - 1 \in 0..n
    BY <1>1
  <2>3. \A k \in 1..n : f[k - 1] \in Text
    BY <2>1, <2>2
  <2>4. QED BY <1>3, <2>1, <2>3
<1>6. f = R(f)
  <2>1. \A k \in 0..n : k # 0 => k \in 1..n
    BY <1>1
  <2>2. \A k \in 0..n : f[k] = R(f)[k]
    BY <1>5, <2>1
  <2>3. DOMAIN f = 0..n /\ f = [k \in 0..n |-> f[k]]
    BY <1>5
  <2>4. QED BY <2>2, <2>3
<1> DEFINE g == CHOOSE after : after = R(after)
<1>7. g = R(g)
  BY <1>6
<1>8. remove(text, arg) = g[n]
  BY DEF remove, n, name
<1> HIDE DEF g
<1>9. g[0] = text /\ \A k \in 1..n : g[k] = RemoveLast(g[k - 1], name)
  <2>1. 0 \in 0..n /\ \A k \in 1..n : k \in 0..n /\ k # 0
    BY <1>1
  <2>2. \A k \in 0..n : g[k] = R(g)[k]
    BY <1>7
  <2>3. QED BY <2>1, <2>2
<1>10. \A k \in 0..n : g[k] = f[k]
  <2> DEFINE S == {k \in Nat : k <= n => g[k] = f[k]}
  <2>1. 0 \in S
    BY <1>5, <1>9
  <2>2. ASSUME NEW k \in Nat, k \in S PROVE k + 1 \in S
    <3> SUFFICES ASSUME k + 1 <= n PROVE g[k + 1] = f[k + 1]
      OBVIOUS
    <3>1. k <= n /\ k + 1 \in 1..n /\ (k + 1) - 1 = k
      BY <1>1
    <3>2. g[k] = f[k]
      BY <2>2, <3>1
    <3>3. QED BY <1>5, <1>9, <3>1, <3>2
  <2> HIDE DEF S
  <2>3. \A k \in Nat : k \in S
    BY <2>1, <2>2, Induction
  <2>4. QED BY <1>1, <2>3 DEF S
<1>11. n \in 0..n
  BY <1>1
<1>12. remove(text, arg) = f[n]
  BY <1>8, <1>10, <1>11
<1>13. QED BY <1>5, <1>12 DEF n, name

\* What each turn keeps, remove() keeps.
LEMMA RemoveKeeps ==
    ASSUME NEW text \in Text, NEW arg, remove_argument_prefix(arg) \in Text, NEW P, text \in P,
           \A s \in Text : s \in P => RemoveLast(s, remove_argument_prefix(arg)) \in P
    PROVE  remove(text, arg) \in Text /\ remove(text, arg) \in P
<1> DEFINE n == Len(text)
           name == remove_argument_prefix(arg)
<1>1. n \in Nat
  BY TextFacts
<1>2. PICK f \in [0..n -> Text] : f[0] = text /\ remove(text, arg) = f[n]
                                  /\ \A k \in 1..n : f[k] = RemoveLast(f[k - 1], name)
  BY RemoveAlong
<1> HIDE DEF n, name
<1> DEFINE S == {k \in Nat : k <= n => f[k] \in P}
<1>3. 0 \in S
  BY <1>2
<1>4. ASSUME NEW k \in Nat, k \in S PROVE k + 1 \in S
  <2> SUFFICES ASSUME k + 1 <= n PROVE f[k + 1] \in P
    OBVIOUS
  <2>1. k <= n /\ k \in 0..n /\ k + 1 \in 1..n /\ (k + 1) - 1 = k
    BY <1>1
  <2>2. f[k] \in P /\ f[k] \in Text /\ f[k + 1] = RemoveLast(f[k], name)
    BY <1>2, <1>4, <2>1
  <2>3. QED BY <2>2 DEF name
<1> HIDE DEF S
<1>5. \A k \in Nat : k \in S
  BY <1>3, <1>4, Induction
<1>6. QED BY <1>1, <1>2, <1>5 DEF S

\* remove() ends with no argument of the name left, whatever the text: each turn
\* of its loop that finds one erases a character at least (CmdLineArgs::remove).
THEOREM RemoveLeavesNone ==
    ASSUME NEW text \in Text, NEW arg, remove_argument_prefix(arg) \in Text
    PROVE  ~contains(remove(text, arg), remove_argument_prefix(arg))
<1> DEFINE n == Len(text)
           name == remove_argument_prefix(arg)
           Done(s) == find_argument_pos(s, name) = 0
<1>1. n \in Nat
  BY TextFacts
<1>2. PICK f \in [0..n -> Text] : f[0] = text /\ remove(text, arg) = f[n]
                                  /\ \A k \in 1..n : f[k] = RemoveLast(f[k - 1], name)
  BY RemoveAlong
<1> HIDE DEF name, Done
<1> DEFINE S == {k \in Nat : k <= n => Done(f[k]) \/ Len(f[k]) <= n - k}
<1>3. 0 \in S
  BY <1>1, <1>2
<1>4. ASSUME NEW k \in Nat, k \in S PROVE k + 1 \in S
  <2> SUFFICES ASSUME k + 1 <= n PROVE Done(f[k + 1]) \/ Len(f[k + 1]) <= n - (k + 1)
    OBVIOUS
  <2>1. k <= n /\ k \in 0..n /\ k + 1 \in 1..n /\ (k + 1) - 1 = k /\ k + 1 \in 0..n
    BY <1>1
  <2>2. f[k] \in Text /\ f[k + 1] \in Text /\ f[k + 1] = RemoveLast(f[k], name)
    BY <1>2, <2>1
  <2>3. CASE Done(f[k])
    <3>1. f[k + 1] = f[k]
      BY <2>2, <2>3, RemoveLastType DEF Done, name
    <3>2. QED BY <2>3, <3>1
  <2>4. CASE ~Done(f[k])
    <3>1. Len(f[k + 1]) < Len(f[k])
      BY <2>2, <2>4, RemoveLastType DEF Done, name
    <3>2. Len(f[k]) <= n - k
      BY <1>4, <2>1, <2>4
    <3>3. Len(f[k]) \in Nat /\ Len(f[k + 1]) \in Nat
      BY <2>2, TextFacts
    <3>4. QED BY <1>1, <3>1, <3>2, <3>3
  <2>5. QED BY <2>3, <2>4
<1> HIDE DEF S
<1>5. \A k \in Nat : k \in S
  BY <1>3, <1>4, Induction
<1>6. Done(f[n]) \/ Len(f[n]) <= n - n
  BY <1>1, <1>5 DEF S
<1>7. Done(f[n])
  <2>1. n \in 0..n /\ n - n = 0
    BY <1>1
  <2>2. f[n] \in Text
    BY <1>2, <2>1
  <2>3. Len(f[n]) \in Nat /\ find_argument_pos(f[n], name) \in 0..Len(f[n])
    BY <2>2, TextFacts, FindFacts
  <2>4. Len(f[n]) <= 0 => find_argument_pos(f[n], name) = 0
    BY <2>3
  <2>5. QED BY <1>6, <2>1, <2>4 DEF Done
<1>8. QED BY <1>2, <1>7 DEF contains, Done, name

-----------------------------------------------------------------------------
(* Words without the arguments of a name.                                  *)

\* A sequence with an element in front.
LEMMA ConsFacts ==
    ASSUME NEW C, NEW c \in C, NEW s \in Seq(C)
    PROVE  /\ <<c>> \o s \in Seq(C) /\ <<c>> \o s # <<>> /\ Len(<<c>> \o s) = Len(s) + 1
           /\ Head(<<c>> \o s) = c /\ Tail(<<c>> \o s) = s /\ (<<c>> \o s)[1] = c
           /\ \A i \in 1..Len(s) : (<<c>> \o s)[i + 1] = s[i]
OBVIOUS

\* What one more word in front makes of the words left.
TakenOut(word, left, name) ==
    IF ~IsArg(word, name) THEN <<word>> \o left
    ELSE IF BeginsWithOption(left) THEN Tail(left)
    ELSE left

\* What is left of a word and the words after it are words.
LEMMA TakenOutType ==
    ASSUME NEW word \in Text, NEW left \in Seq(Text), NEW name
    PROVE  TakenOut(word, left, name) \in Seq(Text)
<1>1. <<word>> \o left \in Seq(Text)
  OBVIOUS
<1>2. BeginsWithOption(left) => Tail(left) \in Seq(Text)
  BY DEF BeginsWithOption
<1>3. QED BY <1>1, <1>2 DEF TakenOut

\* Without goes along the words from the last, one TakenOut each.
LEMMA WithoutAlong ==
    ASSUME NEW words \in Seq(Text), NEW name
    PROVE  \E f \in [0..Len(words) -> Seq(Text)] :
              /\ f[0] = <<>> /\ Without(words, name) = f[Len(words)]
              /\ \A k \in 1..Len(words) : f[k] = TakenOut(words[Len(words) - k + 1], f[k - 1], name)
<1> DEFINE n == Len(words)
           step == [x \in (1..n) \X Seq(Text) |-> TakenOut(words[n - x[1] + 1], x[2], name)]
           W(w) == [k \in 0..n |->
                      IF k = 0 THEN <<>>
                      ELSE IF ~IsArg(words[n - k + 1], name) THEN <<words[n - k + 1]>> \o w[k - 1]
                      ELSE IF BeginsWithOption(w[k - 1]) THEN Tail(w[k - 1])
                      ELSE w[k - 1]]
<1>1. n \in Nat /\ \A i \in 1..n : words[n - i + 1] \in Text
  <2>1. n \in Nat /\ \A i \in 1..n : words[i] \in Text
    OBVIOUS
  <2>2. \A i \in 1..n : n - i + 1 \in 1..n
    BY <2>1
  <2>3. QED BY <2>1, <2>2
<1>2. step \in [(1..n) \X Seq(Text) -> Seq(Text)]
  <2>1. ASSUME NEW x \in (1..n) \X Seq(Text)
        PROVE  TakenOut(words[n - x[1] + 1], x[2], name) \in Seq(Text)
    <3>1. x[2] \in Seq(Text) /\ words[n - x[1] + 1] \in Text
      BY <1>1
    <3>2. QED BY <3>1, TakenOutType
  <2>2. QED BY <2>1
<1>3. \A k \in 1..n, w \in Seq(Text) : step[<<k, w>>] = TakenOut(words[n - k + 1], w, name)
  OBVIOUS
<1> HIDE DEF n, step
<1>4. <<>> \in Seq(Text)
  OBVIOUS
<1>5. PICK f : IsAlong(n, Seq(Text), <<>>, step, f)
  BY <1>1, <1>2, <1>4, FunctionAlong
<1>6. /\ f \in [0..n -> Seq(Text)] /\ f[0] = <<>>
      /\ \A k \in 1..n : f[k] = TakenOut(words[n - k + 1], f[k - 1], name)
  <2>1. f \in [0..n -> Seq(Text)] /\ f[0] = <<>> /\ \A k \in 1..n : f[k] = step[<<k, f[k - 1]>>]
    BY <1>5 DEF IsAlong
  <2>2. \A k \in 1..n : k - 1 \in 0..n
    BY <1>1
  <2>3. \A k \in 1..n : f[k - 1] \in Seq(Text)
    BY <2>1, <2>2
  <2>4. QED BY <1>3, <2>1, <2>3
<1>7. f = W(f)
  <2>1. \A k \in 0..n : k # 0 => k \in 1..n
    BY <1>1
  <2>2. \A k \in 0..n : f[k] = W(f)[k]
    BY <1>6, <2>1 DEF TakenOut
  <2>3. DOMAIN f = 0..n /\ f = [k \in 0..n |-> f[k]]
    BY <1>6
  <2>4. QED BY <2>2, <2>3
<1> DEFINE g == CHOOSE w : w = W(w)
<1>8. g = W(g)
  BY <1>7
<1>9. Without(words, name) = g[n]
  BY DEF Without, n
<1> HIDE DEF g
<1>10. g[0] = <<>> /\ \A k \in 1..n : g[k] = TakenOut(words[n - k + 1], g[k - 1], name)
  <2>1. 0 \in 0..n /\ \A k \in 1..n : k \in 0..n /\ k # 0
    BY <1>1
  <2>2. \A k \in 0..n : g[k] = W(g)[k]
    BY <1>8
  <2>3. QED BY <2>1, <2>2 DEF TakenOut
<1>11. \A k \in 0..n : g[k] = f[k]
  <2> DEFINE S == {k \in Nat : k <= n => g[k] = f[k]}
  <2>1. 0 \in S
    BY <1>6, <1>10
  <2>2. ASSUME NEW k \in Nat, k \in S PROVE k + 1 \in S
    <3> SUFFICES ASSUME k + 1 <= n PROVE g[k + 1] = f[k + 1]
      OBVIOUS
    <3>1. k <= n /\ k + 1 \in 1..n /\ (k + 1) - 1 = k
      BY <1>1
    <3>2. g[k] = f[k]
      BY <2>2, <3>1
    <3>3. QED BY <1>6, <1>10, <3>1, <3>2
  <2> HIDE DEF S
  <2>3. \A k \in Nat : k \in S
    BY <2>1, <2>2, Induction
  <2>4. QED BY <1>1, <2>3 DEF S
<1>12. Without(words, name) = f[n]
  BY <1>1, <1>9, <1>11
<1>13. QED BY <1>6, <1>12 DEF n

\* What Without leaves are words.
LEMMA WithoutType ==
    ASSUME NEW words \in Seq(Text), NEW name
    PROVE  Without(words, name) \in Seq(Text)
<1>1. Len(words) \in 0..Len(words)
  OBVIOUS
<1>2. QED BY <1>1, WithoutAlong

\* Of no words Without leaves none.
LEMMA WithoutEmpty ==
    ASSUME NEW name
    PROVE  Without(<<>>, name) = <<>>
<1> DEFINE words == <<>>
<1>1. words \in Seq(Text) /\ Len(words) = 0
  OBVIOUS
<1> HIDE DEF words
<1>2. PICK f : f[0] = <<>> /\ Without(words, name) = f[Len(words)]
  BY <1>1, WithoutAlong
<1>3. Without(words, name) = <<>>
  BY <1>1, <1>2
<1>4. QED BY <1>3 DEF words

\* Without of a first word and the rest is one TakenOut more than of the rest.
LEMMA WithoutCons ==
    ASSUME NEW word \in Text, NEW rest \in Seq(Text), NEW name
    PROVE  Without(<<word>> \o rest, name) = TakenOut(word, Without(rest, name), name)
<1> DEFINE n == Len(rest)
           more == <<word>> \o rest
<1>1. n \in Nat
  OBVIOUS
<1>2. /\ more \in Seq(Text) /\ Len(more) = n + 1 /\ more[1] = word
      /\ \A k \in 1..n : more[k + 1] = rest[k]
  BY ConsFacts
<1> HIDE DEF more
<1>3. PICK f \in [0..n -> Seq(Text)] :
        /\ f[0] = <<>> /\ Without(rest, name) = f[n]
        /\ \A k \in 1..n : f[k] = TakenOut(rest[n - k + 1], f[k - 1], name)
  BY WithoutAlong
<1>4. PICK g \in [0..n+1 -> Seq(Text)] :
        /\ g[0] = <<>> /\ Without(more, name) = g[n + 1]
        /\ \A k \in 1..n+1 : g[k] = TakenOut(more[(n + 1) - k + 1], g[k - 1], name)
  BY <1>2, WithoutAlong
<1>5. \A k \in 0..n : g[k] = f[k]
  <2> DEFINE S == {k \in Nat : k <= n => g[k] = f[k]}
  <2>1. 0 \in S
    BY <1>3, <1>4
  <2>2. ASSUME NEW k \in Nat, k \in S PROVE k + 1 \in S
    <3> SUFFICES ASSUME k + 1 <= n PROVE g[k + 1] = f[k + 1]
      OBVIOUS
    <3>1. k <= n /\ k + 1 \in 1..n /\ k + 1 \in 1..n+1 /\ (k + 1) - 1 = k
      BY <1>1
    <3>2. g[k] = f[k]
      BY <2>2, <3>1
    <3>3. n - (k + 1) + 1 \in 1..n /\ (n + 1) - (k + 1) + 1 = (n - (k + 1) + 1) + 1
      BY <1>1, <3>1
    <3>4. more[(n + 1) - (k + 1) + 1] = rest[n - (k + 1) + 1]
      <4> DEFINE j == n - (k + 1) + 1
      <4>1. j \in 1..n /\ (n + 1) - (k + 1) + 1 = j + 1
        BY <3>3
      <4> HIDE DEF j
      <4>2. more[j + 1] = rest[j]
        BY <1>2, <4>1
      <4>3. more[(n + 1) - (k + 1) + 1] = rest[j]
        BY <4>1, <4>2, Zenon
      <4>4. QED BY <4>3 DEF j
    <3>5. /\ g[k + 1] = TakenOut(more[(n + 1) - (k + 1) + 1], g[k], name)
          /\ f[k + 1] = TakenOut(rest[n - (k + 1) + 1], f[k], name)
      BY <1>3, <1>4, <3>1
    <3>6. QED BY <3>2, <3>4, <3>5
  <2> HIDE DEF S
  <2>3. \A k \in Nat : k \in S
    BY <2>1, <2>2, Induction
  <2>4. QED BY <1>1, <2>3 DEF S
<1>6. g[n + 1] = TakenOut(more[1], g[n], name)
  <2>1. n + 1 \in 1..n+1 /\ (n + 1) - 1 = n /\ (n + 1) - (n + 1) + 1 = 1
    BY <1>1
  <2>2. QED BY <1>4, <2>1
<1>7. n \in 0..n
  BY <1>1
<1>8. QED BY <1>2, <1>3, <1>4, <1>5, <1>6, <1>7 DEF more

-----------------------------------------------------------------------------
(* Arguments and options among words.                                      *)

\* An argument is signed, and of one name only.
LEMMA ArgIsSigned ==
    ASSUME NEW name \in Text, NEW word, IsArg(word, name)
    PROVE  Signed(word)
<1>1. PICK sign \in {Plus, Minus} : word = sign \o name
  BY DEF IsArg
<1>2. QED BY <1>1, SignedName DEF Signed

\* A word is an argument of one name at most.
LEMMA ArgHasOneName ==
    ASSUME NEW name \in Text, NEW other \in Text, NEW word, IsArg(word, name), IsArg(word, other)
    PROVE  name = other
<1>1. PICK sign \in {Plus, Minus}, sign2 \in {Plus, Minus} : word = sign \o name /\ word = sign2 \o other
  BY DEF IsArg
<1>2. /\ Len(word) = 1 + Len(name) /\ Len(word) = 1 + Len(other)
      /\ \A k \in 1..Len(name) : word[k + 1] = name[k]
      /\ \A k \in 1..Len(other) : word[k + 1] = other[k]
  <2>1. /\ Len(sign \o name) = 1 + Len(name)
        /\ \A k \in 1..Len(name) : (sign \o name)[k + 1] = name[k]
    BY SignedName
  <2>2. /\ Len(sign2 \o other) = 1 + Len(other)
        /\ \A k \in 1..Len(other) : (sign2 \o other)[k + 1] = other[k]
    BY SignedName
  <2>3. QED BY <1>1, <2>1, <2>2, Zenon
<1>3. Len(name) \in Nat /\ Len(other) \in Nat
  BY TextFacts
<1>4. Len(name) = Len(other)
  BY <1>2, <1>3
<1>5. \A k \in 1..Len(name) : name[k] = other[k]
  BY <1>2, <1>4
<1>6. QED BY <1>4, <1>5, SameText

\* Words begin with an option when their first is not signed.
LEMMA BeginsCons ==
    ASSUME NEW word \in Text, NEW rest \in Seq(Text)
    PROVE  BeginsWithOption(<<word>> \o rest) <=> ~Signed(word)
BY ConsFacts DEF BeginsWithOption

\* Whether words have an argument.
LEMMA HasEmpty ==
    ASSUME NEW name
    PROVE  ~Has(<<>>, name)
BY DEF Has

\* There is an argument in two lists of words when there is one in either.
LEMMA HasConcat ==
    ASSUME NEW u \in Seq(Text), NEW v \in Seq(Text), NEW name
    PROVE  Has(u \o v, name) <=> Has(u, name) \/ Has(v, name)
<1> DEFINE s == u \o v
<1>1. /\ Len(u) \in Nat /\ Len(v) \in Nat /\ s \in Seq(Text) /\ Len(s) = Len(u) + Len(v)
      /\ DOMAIN u = 1..Len(u) /\ DOMAIN v = 1..Len(v) /\ DOMAIN s = 1..Len(u)+Len(v)
      /\ \A i \in 1..Len(u) : s[i] = u[i]
      /\ \A i \in 1..Len(v) : s[Len(u) + i] = v[i]
  OBVIOUS
<1> HIDE DEF s
<1>2. ASSUME Has(s, name) PROVE Has(u, name) \/ Has(v, name)
  <2>1. PICK i \in 1..Len(u)+Len(v) : IsArg(s[i], name)
    BY <1>1, <1>2 DEF Has
  <2>2. CASE i <= Len(u)
    <3>1. i \in 1..Len(u)
      BY <1>1, <2>2
    <3>2. QED BY <1>1, <2>1, <3>1 DEF Has
  <2>3. CASE i > Len(u)
    <3>1. i - Len(u) \in 1..Len(v) /\ Len(u) + (i - Len(u)) = i
      BY <1>1, <2>3
    <3>2. v[i - Len(u)] = s[i]
      BY <1>1, <3>1, Zenon
    <3>3. QED BY <1>1, <2>1, <3>1, <3>2 DEF Has
  <2>4. QED BY <1>1, <2>2, <2>3
<1>3. ASSUME Has(u, name) PROVE Has(s, name)
  <2>1. PICK i \in 1..Len(u) : IsArg(u[i], name)
    BY <1>1, <1>3 DEF Has
  <2>2. i \in DOMAIN s /\ s[i] = u[i]
    BY <1>1
  <2>3. QED BY <2>1, <2>2 DEF Has
<1>4. ASSUME Has(v, name) PROVE Has(s, name)
  <2>1. PICK i \in 1..Len(v) : IsArg(v[i], name)
    BY <1>1, <1>4 DEF Has
  <2>2. Len(u) + i \in DOMAIN s /\ s[Len(u) + i] = v[i]
    BY <1>1
  <2>3. QED BY <2>1, <2>2 DEF Has
<1>5. QED BY <1>2, <1>3, <1>4 DEF s

\* A list of one word has an argument when the word is it.
LEMMA HasOne ==
    ASSUME NEW word, NEW name
    PROVE  Has(<<word>>, name) <=> IsArg(word, name)
BY DEF Has

\* A first word more adds an argument only when it is one.
LEMMA HasCons ==
    ASSUME NEW word \in Text, NEW rest \in Seq(Text), NEW name
    PROVE  Has(<<word>> \o rest, name) <=> IsArg(word, name) \/ Has(rest, name)
<1>1. <<word>> \in Seq(Text)
  OBVIOUS
<1>2. QED BY <1>1, HasConcat, HasOne

\* The words after the first, when that is no argument.
LEMMA HasTail ==
    ASSUME NEW words \in Seq(Text), NEW name \in Text, BeginsWithOption(words)
    PROVE  /\ Tail(words) \in Seq(Text) /\ Head(words) \in Text
           /\ words = <<Head(words)>> \o Tail(words)
           /\ Has(words, name) <=> Has(Tail(words), name)
<1>1. words # <<>> /\ ~Signed(Head(words))
  BY DEF BeginsWithOption
<1>2. Tail(words) \in Seq(Text) /\ Head(words) \in Text /\ words = <<Head(words)>> \o Tail(words)
  BY <1>1
<1>3. ~IsArg(Head(words), name)
  BY <1>1, ArgIsSigned
<1>4. Has(<<Head(words)>> \o Tail(words), name) <=> IsArg(Head(words), name) \/ Has(Tail(words), name)
  BY <1>2, HasCons
<1>5. QED BY <1>2, <1>3, <1>4

\* Words without an argument are unchanged.
LEMMA WithoutNone ==
    ASSUME NEW words \in Seq(Text), NEW name, ~Has(words, name)
    PROVE  Without(words, name) = words
<1> DEFINE P == {ws \in Seq(Text) : ~Has(ws, name) => Without(ws, name) = ws}
<1>1. <<>> \in P
  BY WithoutEmpty
<1>2. ASSUME NEW ws \in Seq(Text), NEW w \in Text, ws \in P PROVE <<w>> \o ws \in P
  <2>1. <<w>> \o ws \in Seq(Text)
    BY ConsFacts
  <2>2. Without(<<w>> \o ws, name) = TakenOut(w, Without(ws, name), name)
    BY WithoutCons
  <2>3. Has(<<w>> \o ws, name) <=> IsArg(w, name) \/ Has(ws, name)
    BY HasCons
  <2>4. ~Has(ws, name) => Without(ws, name) = ws
    BY <1>2
  <2>5. QED BY <2>1, <2>2, <2>3, <2>4 DEF TakenOut
<1> HIDE DEF P
<1>3. \A ws \in Seq(Text) : ws \in P
  BY <1>1, <1>2, ConsInduction
<1>4. QED BY <1>3 DEF P

\* What is taken out of words in front depends only on what is left behind them.
LEMMA WithoutCongruence ==
    ASSUME NEW u \in Seq(Text), NEW v \in Seq(Text), NEW v2 \in Seq(Text), NEW name,
           Without(v, name) = Without(v2, name)
    PROVE  Without(u \o v, name) = Without(u \o v2, name)
<1> DEFINE P == {ws \in Seq(Text) : Without(ws \o v, name) = Without(ws \o v2, name)}
<1>1. <<>> \in P
  <2>1. <<>> \o v = v /\ <<>> \o v2 = v2
    OBVIOUS
  <2>2. QED BY <2>1
<1>2. ASSUME NEW ws \in Seq(Text), NEW w \in Text, ws \in P PROVE <<w>> \o ws \in P
  <2>1. /\ <<w>> \o ws \in Seq(Text) /\ ws \o v \in Seq(Text) /\ ws \o v2 \in Seq(Text)
        /\ (<<w>> \o ws) \o v = <<w>> \o (ws \o v) /\ (<<w>> \o ws) \o v2 = <<w>> \o (ws \o v2)
    OBVIOUS
  <2>2. Without(ws \o v, name) = Without(ws \o v2, name)
    BY <1>2
  <2>3. /\ Without(<<w>> \o (ws \o v), name) = TakenOut(w, Without(ws \o v, name), name)
        /\ Without(<<w>> \o (ws \o v2), name) = TakenOut(w, Without(ws \o v2, name), name)
    BY <2>1, WithoutCons
  <2>4. Without((<<w>> \o ws) \o v, name) = Without((<<w>> \o ws) \o v2, name)
    BY <2>1, <2>2, <2>3, Zenon
  <2>5. QED BY <2>1, <2>4
<1> HIDE DEF P
<1>3. \A ws \in Seq(Text) : ws \in P
  BY <1>1, <1>2, ConsInduction
<1>4. QED BY <1>3 DEF P

\* Which arguments are left.
LEMMA HasWithout ==
    ASSUME NEW words \in Seq(Text), NEW name \in Text, NEW other \in Text
    PROVE  Has(Without(words, name), other) <=> Has(words, other) /\ other # name
<1> DEFINE P == {ws \in Seq(Text) : Has(Without(ws, name), other) <=> Has(ws, other) /\ other # name}
<1>1. <<>> \in P
  BY WithoutEmpty, HasEmpty
<1>2. ASSUME NEW ws \in Seq(Text), NEW w \in Text, ws \in P PROVE <<w>> \o ws \in P
  <2> DEFINE left == Without(ws, name)
  <2>1. <<w>> \o ws \in Seq(Text) /\ left \in Seq(Text)
    BY ConsFacts, WithoutType
  <2>2. Without(<<w>> \o ws, name) = TakenOut(w, left, name)
    BY WithoutCons
  <2>3. Has(<<w>> \o ws, other) <=> IsArg(w, other) \/ Has(ws, other)
    BY HasCons
  <2>4. Has(left, other) <=> Has(ws, other) /\ other # name
    BY <1>2
  <2> HIDE DEF left
  <2>5. CASE ~IsArg(w, name)
    <3>1. TakenOut(w, left, name) = <<w>> \o left
      BY <2>5 DEF TakenOut
    <3>2. Has(<<w>> \o left, other) <=> IsArg(w, other) \/ Has(left, other)
      BY <2>1, HasCons
    <3>3. IsArg(w, other) => other # name
      BY <2>5
    <3>4. QED BY <2>1, <2>2, <2>3, <2>4, <3>1, <3>2, <3>3 DEF left
  <2>6. CASE IsArg(w, name)
    <3>1. Has(TakenOut(w, left, name), other) <=> Has(left, other)
      BY <2>1, <2>6, HasTail DEF TakenOut
    <3>2. IsArg(w, other) => other = name
      BY <2>6, ArgHasOneName
    <3>3. QED BY <2>1, <2>2, <2>3, <2>4, <3>1, <3>2 DEF left
  <2>7. QED BY <2>5, <2>6
<1> HIDE DEF P
<1>3. \A ws \in Seq(Text) : ws \in P
  BY <1>1, <1>2, ConsInduction
<1>4. QED BY <1>3 DEF P

\* A greatest element is the greatest.
LEMMA MaxIs ==
    ASSUME NEW n \in Nat, NEW S \in SUBSET (0..n), NEW m \in S, \A k \in S : k <= m
    PROVE  Max(S) = m
<1>1. Max(S) \in S /\ m <= Max(S)
  <2>1. S # {}
    OBVIOUS
  <2>2. QED BY <2>1, MaxFacts
<1> DEFINE most == Max(S)
<1> HIDE DEF most
<1>2. most <= m /\ most \in Nat /\ m \in Nat /\ m <= most
  <2>1. most \in S /\ m <= most
    BY <1>1 DEF most
  <2>2. \A k \in S : k \in Nat
    OBVIOUS
  <2>3. QED BY <2>1, <2>2
<1>3. most = m
  BY <1>2
<1>4. QED BY <1>3 DEF most

\* A part of a sequence that begins behind its first element.
LEMMA PartOfCons ==
    ASSUME NEW C, NEW c \in C, NEW s \in Seq(C), NEW i \in Nat \ {0}
    PROVE  SubSeq(<<c>> \o s, i + 1, Len(<<c>> \o s)) = SubSeq(s, i, Len(s))
<1> DEFINE more == <<c>> \o s
           n == Len(s)
<1>1. /\ n \in Nat /\ more \in Seq(C) /\ Len(more) = n + 1
      /\ \A k \in 1..n : more[k + 1] = s[k]
  BY ConsFacts
<1> HIDE DEF more, n
<1>2. ASSUME NEW k \in 1..n, i <= k PROVE more[k + 1] = s[k]
  BY <1>1
<1>3. SubSeq(more, i + 1, n + 1) = [k \in 1..n+1-(i+1)+1 |-> more[(i + 1) + k - 1]]
  BY <1>1
<1>4. SubSeq(s, i, n) = [k \in 1..n-i+1 |-> s[i + k - 1]]
  BY <1>1
<1>5. n+1-(i+1)+1 = n-i+1
  BY <1>1
<1>6. ASSUME NEW k \in 1..n-i+1 PROVE more[(i + 1) + k - 1] = s[i + k - 1]
  <2> DEFINE j == i + k - 1
  <2>1. j \in 1..n /\ (i + 1) + k - 1 = j + 1
    BY <1>1
  <2> HIDE DEF j
  <2>2. more[j + 1] = s[j]
    BY <1>1, <2>1
  <2>3. more[(i + 1) + k - 1] = s[j]
    BY <2>1, <2>2, Zenon
  <2>4. QED BY <2>3 DEF j
<1>7. SubSeq(more, i + 1, n + 1) = SubSeq(s, i, n)
  <2>1. [k \in 1..n+1-(i+1)+1 |-> more[(i + 1) + k - 1]] = [k \in 1..n-i+1 |-> more[(i + 1) + k - 1]]
    BY <1>5, Zenon
  <2>2. [k \in 1..n-i+1 |-> more[(i + 1) + k - 1]] = [k \in 1..n-i+1 |-> s[i + k - 1]]
    BY <1>6, Zenon
  <2>3. QED BY <1>3, <1>4, <2>1, <2>2, Zenon
<1>8. QED BY <1>1, <1>7 DEF more, n

\* The option of the last argument of a name.
LEMMA OptionOfCons ==
    ASSUME NEW word \in Text, NEW rest \in Seq(Text), NEW name \in Text
    PROVE  OptionOf(<<word>> \o rest, name) =
               IF Has(rest, name) THEN OptionOf(rest, name)
               ELSE IF IsArg(word, name) /\ BeginsWithOption(rest) THEN Head(rest)
               ELSE NoOption
<1> DEFINE n == Len(rest)
           more == <<word>> \o rest
           Args(words) == {i \in DOMAIN words : IsArg(words[i], name)}
<1>1. /\ n \in Nat /\ more \in Seq(Text) /\ Len(more) = n + 1 /\ more[1] = word
      /\ \A k \in 1..n : more[k + 1] = rest[k]
      /\ DOMAIN more = 1..n+1 /\ DOMAIN rest = 1..n
  BY ConsFacts
<1>2. \A i \in Nat \ {0} : SubSeq(more, i + 1, Len(more)) = SubSeq(rest, i, n)
  BY PartOfCons
<1>3. Has(rest, name) <=> Args(rest) # {}
  BY DEF Has
<1>4. \A words : OptionOf(words, name) =
        IF Args(words) # {} /\ BeginsWithOption(SubSeq(words, Max(Args(words)) + 1, Len(words)))
        THEN Head(SubSeq(words, Max(Args(words)) + 1, Len(words))) ELSE NoOption
  BY DEF OptionOf
<1>5. Args(rest) \in SUBSET (0..n) /\ Args(more) \in SUBSET (0..n+1)
  BY <1>1
<1>6. \A k \in 1..n+1 : k \in Args(more) <=> (k = 1 /\ IsArg(word, name)) \/ (k # 1 /\ k - 1 \in Args(rest))
  <2> SUFFICES ASSUME NEW k \in 1..n+1
               PROVE  k \in Args(more) <=> (k = 1 /\ IsArg(word, name)) \/ (k # 1 /\ k - 1 \in Args(rest))
    OBVIOUS
  <2>1. k \in Args(more) <=> IsArg(more[k], name)
    BY <1>1
  <2>2. CASE k = 1
    BY <1>1, <2>1, <2>2
  <2>3. CASE k # 1
    <3>1. k - 1 \in 1..n /\ (k - 1) + 1 = k
      BY <1>1, <2>3
    <3>2. more[k] = rest[k - 1]
      BY <1>1, <3>1
    <3>3. QED BY <1>1, <2>1, <2>3, <3>1, <3>2
  <2>4. QED BY <2>2, <2>3
<1> HIDE DEF more, Args, n
<1>7. CASE Has(rest, name)
  <2> DEFINE m == Max(Args(rest))
  <2>1. m \in Args(rest) /\ \A k \in Args(rest) : k <= m
    BY <1>1, <1>3, <1>5, <1>7, MaxFacts
  <2>2. m \in 1..n
    BY <1>1, <2>1 DEF Args
  <2> HIDE DEF m
  <2>3. m + 1 \in Args(more)
    BY <1>1, <1>6, <2>1, <2>2
  <2>4. \A k \in Args(more) : k <= m + 1
    <3> SUFFICES ASSUME NEW k \in Args(more) PROVE k <= m + 1
      OBVIOUS
    <3>1. k \in 1..n+1
      BY <1>1 DEF Args
    <3>2. k # 1 => k - 1 <= m
      BY <1>6, <2>1, <3>1
    <3>3. QED BY <1>1, <2>2, <3>1, <3>2
  <2>5. Max(Args(more)) = m + 1
    <3>1. n + 1 \in Nat
      BY <1>1
    <3>2. QED BY <1>5, <2>3, <2>4, <3>1, MaxIs
  <2>6. SubSeq(more, m + 1 + 1, Len(more)) = SubSeq(rest, m + 1, n)
    <3>1. m + 1 \in Nat \ {0}
      BY <2>2
    <3>2. QED BY <1>2, <3>1
  <2>7. OptionOf(more, name) = OptionOf(rest, name)
    BY <1>3, <1>4, <1>7, <2>3, <2>5, <2>6 DEF m, n
  <2>8. QED BY <1>7, <2>7 DEF more
<1>8. CASE ~Has(rest, name) /\ IsArg(word, name)
  <2>1. 1 \in Args(more) /\ \A k \in Args(more) : k <= 1
    <3>1. 1 \in 1..n+1
      BY <1>1
    <3>2. \A k \in Args(more) : k = 1
      BY <1>1, <1>3, <1>6, <1>8 DEF Args
    <3>3. QED BY <1>6, <1>8, <3>1, <3>2
  <2>2. Max(Args(more)) = 1
    <3>1. n + 1 \in Nat
      BY <1>1
    <3>2. QED BY <1>5, <2>1, <3>1, MaxIs
  <2>3. SubSeq(more, 1 + 1, Len(more)) = rest
    <3>1. SubSeq(rest, 1, n) = rest
      BY DEF n
    <3>2. 1 \in Nat \ {0}
      OBVIOUS
    <3>3. QED BY <1>2, <3>1, <3>2, Zenon
  <2>4. QED BY <1>4, <1>8, <2>1, <2>2, <2>3 DEF more
<1>9. CASE ~Has(rest, name) /\ ~IsArg(word, name)
  <2>1. Args(more) = {}
    <3>1. \A k \in Args(more) : k \in 1..n+1
      BY <1>1 DEF Args
    <3>2. QED BY <1>3, <1>6, <1>9, <3>1
  <2>2. QED BY <1>4, <1>9, <2>1 DEF more
<1>10. QED BY <1>7, <1>8, <1>9

\* An argument that is not there has no option.
LEMMA OptionOfNone ==
    ASSUME NEW words, NEW name, ~Has(words, name)
    PROVE  OptionOf(words, name) = NoOption
BY DEF Has, OptionOf

\* Words whose arguments of a name have one option at most.
OneOption(words, name) ==
    \A i \in 1..Len(words) - 2 : IsArg(words[i], name) => Signed(words[i + 1]) \/ Signed(words[i + 2])

TwoOptions(words) == BeginsWithOption(words) /\ BeginsWithOption(Tail(words))

\* Among no words there is no argument with two options.
LEMMA OneOptionEmpty ==
    ASSUME NEW name
    PROVE  OneOption(<<>>, name)
BY DEF OneOption

\* Two options begin the words when neither of the first two is signed.
LEMMA TwoOptionsFacts ==
    ASSUME NEW words \in Seq(Text)
    PROVE  TwoOptions(words) <=> Len(words) >= 2 /\ ~Signed(words[1]) /\ ~Signed(words[2])
<1>1. CASE words = <<>>
  <2>1. ~(Len(words) >= 2) /\ ~TwoOptions(words)
    BY <1>1 DEF TwoOptions, BeginsWithOption
  <2>2. QED BY <2>1
<1>2. CASE words # <<>>
  <2>1. /\ Head(words) = words[1] /\ Tail(words) \in Seq(Text) /\ Len(Tail(words)) = Len(words) - 1
        /\ Len(words) \in Nat \ {0}
    BY <1>2
  <2>2. Tail(words) # <<>> <=> Len(words) >= 2
    <3>1. \A s \in Seq(Text) : s # <<>> <=> Len(s) # 0
      OBVIOUS
    <3>2. Len(words) - 1 # 0 <=> Len(words) >= 2
      BY <2>1
    <3>3. QED BY <2>1, <3>1, <3>2, Zenon
  <2>3. Len(words) >= 2 => Head(Tail(words)) = words[2]
    BY <1>2
  <2>4. QED BY <1>2, <2>1, <2>2, <2>3 DEF TwoOptions, BeginsWithOption
<1>3. QED BY <1>1, <1>2

\* A first word more has two options only if it is an argument before two of them.
LEMMA OneOptionCons ==
    ASSUME NEW word \in Text, NEW rest \in Seq(Text), NEW name
    PROVE  OneOption(<<word>> \o rest, name) <=>
               OneOption(rest, name) /\ ~(IsArg(word, name) /\ TwoOptions(rest))
<1> DEFINE n == Len(rest)
           more == <<word>> \o rest
           Fine(words, i) == IsArg(words[i], name) => Signed(words[i + 1]) \/ Signed(words[i + 2])
<1>1. /\ n \in Nat /\ more \in Seq(Text) /\ Len(more) = n + 1 /\ more[1] = word
      /\ \A k \in 1..n : more[k + 1] = rest[k]
  BY ConsFacts
<1> HIDE DEF more, n
<1>2. \A i \in 1..n-2 : Fine(more, i + 1) <=> Fine(rest, i)
  <2> SUFFICES ASSUME NEW i \in 1..n-2 PROVE Fine(more, i + 1) <=> Fine(rest, i)
    OBVIOUS
  <2>1. /\ i \in 1..n /\ i + 1 \in 1..n /\ i + 2 \in 1..n
        /\ (i + 1) + 1 = i + 2 /\ (i + 1) + 2 = (i + 2) + 1
    BY <1>1
  <2>2. more[i + 1] = rest[i] /\ more[(i + 1) + 1] = rest[i + 1] /\ more[(i + 1) + 2] = rest[i + 2]
    <3>1. more[i + 1] = rest[i] /\ more[(i + 1) + 1] = rest[i + 1] /\ more[(i + 2) + 1] = rest[i + 2]
      BY <1>1, <2>1
    <3>2. QED BY <2>1, <3>1
  <2>3. QED BY <2>2, Zenon
<1>3. n >= 2 => (Fine(more, 1) <=> ~(IsArg(word, name) /\ ~Signed(rest[1]) /\ ~Signed(rest[2])))
  <2>1. n >= 2 => 1 \in 1..n /\ 2 \in 1..n
    BY <1>1
  <2>2. n >= 2 => more[1 + 1] = rest[1] /\ more[2 + 1] = rest[2]
    BY <1>1, <2>1
  <2>3. more[1] = word
    BY <1>1
  <2>4. QED BY <2>2, <2>3
<1>4. TwoOptions(rest) <=> n >= 2 /\ ~Signed(rest[1]) /\ ~Signed(rest[2])
  BY TwoOptionsFacts DEF n
<1>5. OneOption(rest, name) <=> \A i \in 1..n-2 : Fine(rest, i)
  BY DEF OneOption, n
<1>6. OneOption(more, name) <=> \A i \in 1..n-1 : Fine(more, i)
  <2>1. Len(more) - 2 = n - 1
    BY <1>1
  <2>2. QED BY <2>1 DEF OneOption
<1> HIDE DEF Fine
<1>7. (\A i \in 1..n-1 : Fine(more, i)) <=> (\A i \in 1..n-2 : Fine(more, i + 1)) /\ (n >= 2 => Fine(more, 1))
  <2>1. ASSUME \A i \in 1..n-1 : Fine(more, i)
        PROVE  (\A i \in 1..n-2 : Fine(more, i + 1)) /\ (n >= 2 => Fine(more, 1))
    <3>1. \A i \in 1..n-2 : i + 1 \in 1..n-1
      BY <1>1
    <3>2. n >= 2 => 1 \in 1..n-1
      BY <1>1
    <3>3. QED BY <2>1, <3>1, <3>2
  <2>2. ASSUME \A i \in 1..n-2 : Fine(more, i + 1), n >= 2 => Fine(more, 1)
        PROVE  \A i \in 1..n-1 : Fine(more, i)
    <3> SUFFICES ASSUME NEW i \in 1..n-1 PROVE Fine(more, i)
      OBVIOUS
    <3>1. CASE i = 1
      <4>1. n >= 2
        BY <1>1, <3>1
      <4>2. QED BY <2>2, <3>1, <4>1
    <3>2. CASE i # 1
      <4>1. i - 1 \in 1..n-2 /\ (i - 1) + 1 = i
        BY <1>1, <3>2
      <4>2. Fine(more, (i - 1) + 1)
        BY <2>2, <4>1, Zenon
      <4>3. QED BY <4>1, <4>2, Zenon
    <3>3. QED BY <3>1, <3>2
  <2>3. QED BY <2>1, <2>2
<1>8. QED BY <1>2, <1>3, <1>4, <1>5, <1>6, <1>7 DEF more

\* What is left begins as the words did, when no argument has two options.
LEMMA WithoutBegins ==
    ASSUME NEW words \in Seq(Text), NEW name \in Text, OneOption(words, name)
    PROVE  LET left == Without(words, name)
           IN  /\ BeginsWithOption(words) =>
                      BeginsWithOption(left) /\ Head(left) = Head(words) /\ Tail(left) = Without(Tail(words), name)
               /\ ~BeginsWithOption(words) => ~BeginsWithOption(left)
<1> DEFINE Good(ws) == LET left == Without(ws, name)
                       IN  /\ BeginsWithOption(ws) =>
                                 /\ BeginsWithOption(left) /\ Head(left) = Head(ws)
                                 /\ Tail(left) = Without(Tail(ws), name)
                           /\ ~BeginsWithOption(ws) => ~BeginsWithOption(left)
           P == {ws \in Seq(Text) : OneOption(ws, name) =>
                   Good(ws) /\ (BeginsWithOption(ws) => Good(Tail(ws)))}
<1>1. <<>> \in P
  <2>1. ~BeginsWithOption(<<>>) /\ Without(<<>>, name) = <<>>
    BY WithoutEmpty DEF BeginsWithOption
  <2>2. QED BY <2>1
<1>2. ASSUME NEW ws \in Seq(Text), NEW w \in Text, ws \in P PROVE <<w>> \o ws \in P
  <2> DEFINE left == Without(ws, name)
             more == <<w>> \o ws
  <2>1. /\ more \in Seq(Text) /\ left \in Seq(Text) /\ Head(more) = w /\ Tail(more) = ws
        /\ (BeginsWithOption(more) <=> ~Signed(w))
        /\ Without(more, name) = TakenOut(w, left, name)
    BY ConsFacts, WithoutType, WithoutCons, BeginsCons
  <2>2. OneOption(more, name) => OneOption(ws, name) /\ ~(IsArg(w, name) /\ TwoOptions(ws))
    BY OneOptionCons
  <2>3. OneOption(more, name) => Good(ws) /\ (BeginsWithOption(ws) => Good(Tail(ws)))
    BY <1>2, <2>2
  <2> SUFFICES ASSUME OneOption(more, name) PROVE Good(more)
    BY <2>1, <2>3
  <2> HIDE DEF left, more
  <2>4. CASE ~IsArg(w, name)
    <3>1. TakenOut(w, left, name) = <<w>> \o left
      BY <2>4 DEF TakenOut
    <3>2. /\ Head(<<w>> \o left) = w /\ Tail(<<w>> \o left) = left
          /\ BeginsWithOption(<<w>> \o left) <=> ~Signed(w)
      BY <2>1, ConsFacts, BeginsCons
    <3>3. QED BY <2>1, <3>1, <3>2 DEF left
  <2>5. CASE IsArg(w, name)
    <3>1. ~BeginsWithOption(more)
      BY <2>1, <2>5, ArgIsSigned
    <3>2. CASE BeginsWithOption(ws)
      <4>1. BeginsWithOption(left) /\ Tail(left) = Without(Tail(ws), name) /\ ~BeginsWithOption(Tail(ws))
        BY <2>2, <2>3, <2>5, <3>2 DEF left, TwoOptions
      <4>2. ~BeginsWithOption(Without(Tail(ws), name))
        BY <2>3, <3>2, <4>1
      <4>3. QED BY <2>1, <2>5, <3>1, <4>1, <4>2 DEF TakenOut
    <3>3. CASE ~BeginsWithOption(ws)
      BY <2>1, <2>3, <2>5, <3>1, <3>3 DEF TakenOut, left
    <3>4. QED BY <3>2, <3>3
  <2>6. QED BY <2>4, <2>5
<1> HIDE DEF P
<1>3. \A ws \in Seq(Text) : ws \in P
  BY <1>1, <1>2, ConsInduction
<1>4. QED BY <1>3 DEF P

\* A word that is an option and begins the words is the option of none of them.
LEMMA OptionOfTail ==
    ASSUME NEW words \in Seq(Text), NEW name \in Text, BeginsWithOption(words)
    PROVE  OptionOf(Tail(words), name) = OptionOf(words, name)
<1>1. Tail(words) \in Seq(Text) /\ Head(words) \in Text /\ words = <<Head(words)>> \o Tail(words)
  BY HasTail
<1>2. ~IsArg(Head(words), name)
  BY ArgIsSigned DEF BeginsWithOption
<1>3. OptionOf(<<Head(words)>> \o Tail(words), name) =
        IF Has(Tail(words), name) THEN OptionOf(Tail(words), name) ELSE NoOption
  BY <1>1, <1>2, OptionOfCons
<1>4. QED BY <1>1, <1>3, OptionOfNone

\* Without such a word no argument comes to have two options.
LEMMA OneOptionTail ==
    ASSUME NEW words \in Seq(Text), NEW name \in Text, NEW other \in Text,
           BeginsWithOption(words), OneOption(words, other)
    PROVE  OneOption(Tail(words), other)
<1>1. Tail(words) \in Seq(Text) /\ Head(words) \in Text /\ words = <<Head(words)>> \o Tail(words)
  BY HasTail
<1>2. QED BY <1>1, OneOptionCons

\* An argument that is taken out with one option at most leaves the options of
\* the others as they were.
LEMMA OptionWithout ==
    ASSUME NEW words \in Seq(Text), NEW name \in Text, NEW other \in Text, other # name,
           OneOption(words, name)
    PROVE  OptionOf(Without(words, name), other) = OptionOf(words, other)
<1> DEFINE P == {ws \in Seq(Text) : OneOption(ws, name) =>
                   OptionOf(Without(ws, name), other) = OptionOf(ws, other)}
<1>1. <<>> \in P
  BY WithoutEmpty
<1>2. ASSUME NEW ws \in Seq(Text), NEW w \in Text, ws \in P PROVE <<w>> \o ws \in P
  <2> DEFINE left == Without(ws, name)
             more == <<w>> \o ws
  <2>1. /\ more \in Seq(Text) /\ left \in Seq(Text)
        /\ Without(more, name) = TakenOut(w, left, name)
    BY ConsFacts, WithoutType, WithoutCons
  <2>2. OptionOf(more, other) =
          IF Has(ws, other) THEN OptionOf(ws, other)
          ELSE IF IsArg(w, other) /\ BeginsWithOption(ws) THEN Head(ws) ELSE NoOption
    BY OptionOfCons
  <2>3. OneOption(more, name) => OneOption(ws, name)
    BY OneOptionCons
  <2>4. OneOption(more, name) => OptionOf(left, other) = OptionOf(ws, other)
    BY <1>2, <2>3
  <2> SUFFICES ASSUME OneOption(more, name)
               PROVE  OptionOf(TakenOut(w, left, name), other) = OptionOf(more, other)
    BY <2>1
  <2>5. Has(left, other) <=> Has(ws, other)
    BY HasWithout
  <2>6. BeginsWithOption(left) <=> BeginsWithOption(ws)
    BY <2>3, WithoutBegins
  <2>7. BeginsWithOption(ws) => Head(left) = Head(ws)
    BY <2>3, WithoutBegins
  <2> HIDE DEF left, more
  <2>8. CASE ~IsArg(w, name)
    <3>1. OptionOf(<<w>> \o left, other) =
            IF Has(left, other) THEN OptionOf(left, other)
            ELSE IF IsArg(w, other) /\ BeginsWithOption(left) THEN Head(left) ELSE NoOption
      BY <2>1, OptionOfCons
    <3>2. QED BY <2>2, <2>4, <2>5, <2>6, <2>7, <2>8, <3>1 DEF TakenOut
  <2>9. CASE IsArg(w, name)
    <3>1. ~IsArg(w, other)
      BY <2>9, ArgHasOneName
    <3>2. OptionOf(more, other) = OptionOf(ws, other)
      BY <2>2, <3>1, OptionOfNone
    <3>3. OptionOf(TakenOut(w, left, name), other) = OptionOf(left, other)
      BY <2>1, <2>9, OptionOfTail DEF TakenOut
    <3>4. QED BY <2>4, <3>2, <3>3
  <2>10. QED BY <2>8, <2>9
<1> HIDE DEF P
<1>3. \A ws \in Seq(Text) : ws \in P
  BY <1>1, <1>2, ConsInduction
<1>4. QED BY <1>3 DEF P

\* It also leaves the others with one option at most.
LEMMA OneOptionWithout ==
    ASSUME NEW words \in Seq(Text), NEW name \in Text, NEW other \in Text,
           OneOption(words, name), OneOption(words, other)
    PROVE  OneOption(Without(words, name), other)
<1> DEFINE P == {ws \in Seq(Text) : OneOption(ws, name) /\ OneOption(ws, other) =>
                   OneOption(Without(ws, name), other)}
<1>1. <<>> \in P
  BY WithoutEmpty
<1>2. ASSUME NEW ws \in Seq(Text), NEW w \in Text, ws \in P PROVE <<w>> \o ws \in P
  <2> DEFINE left == Without(ws, name)
             more == <<w>> \o ws
  <2>1. /\ more \in Seq(Text) /\ left \in Seq(Text)
        /\ Without(more, name) = TakenOut(w, left, name)
    BY ConsFacts, WithoutType, WithoutCons
  <2>2. OneOption(more, name) => OneOption(ws, name)
    BY OneOptionCons
  <2>3. OneOption(more, other) => OneOption(ws, other) /\ ~(IsArg(w, other) /\ TwoOptions(ws))
    BY OneOptionCons
  <2>4. OneOption(more, name) /\ OneOption(more, other) => OneOption(left, other)
    BY <1>2, <2>2, <2>3
  <2> SUFFICES ASSUME OneOption(more, name), OneOption(more, other)
               PROVE  OneOption(TakenOut(w, left, name), other)
    BY <2>1
  <2>5. CASE ~IsArg(w, name)
    <3>1. OneOption(<<w>> \o left, other) <=>
            OneOption(left, other) /\ ~(IsArg(w, other) /\ TwoOptions(left))
      BY <2>1, OneOptionCons
    <3>2. TwoOptions(left) => TwoOptions(ws)
      <4>1. SUFFICES ASSUME BeginsWithOption(left), BeginsWithOption(Tail(left))
                     PROVE  BeginsWithOption(ws) /\ BeginsWithOption(Tail(ws))
        BY DEF TwoOptions
      <4>2. BeginsWithOption(ws)
        BY <2>2, <4>1, WithoutBegins
      <4>3. Tail(left) = Without(Tail(ws), name)
        BY <2>2, <4>2, WithoutBegins
      <4>4. Tail(ws) \in Seq(Text) /\ OneOption(Tail(ws), name)
        BY <2>2, <4>2, HasTail, OneOptionTail
      <4>5. BeginsWithOption(Tail(ws))
        <5> DEFINE tail == Tail(ws)
        <5>1. tail \in Seq(Text) /\ OneOption(tail, name) /\ BeginsWithOption(Without(tail, name))
          BY <4>1, <4>3, <4>4
        <5> HIDE DEF tail
        <5>2. BeginsWithOption(tail)
          BY <5>1, WithoutBegins
        <5>3. QED BY <5>2 DEF tail
      <4>6. QED BY <4>2, <4>5
    <3>3. QED BY <2>3, <2>4, <2>5, <3>1, <3>2 DEF TakenOut
  <2>6. CASE IsArg(w, name)
    BY <2>1, <2>4, <2>6, OneOptionTail DEF TakenOut
  <2>7. QED BY <2>5, <2>6
<1> HIDE DEF P
<1>3. \A ws \in Seq(Text) : ws \in P
  BY <1>1, <1>2, ConsInduction
<1>4. QED BY <1>3 DEF P

\* Words at the end that begin with a sign and have no argument of the name are
\* behind whatever is taken out, and give no argument an option.
LEMMA WithoutBefore ==
    ASSUME NEW u \in Seq(Text), NEW v \in Seq(Text), NEW name \in Text,
           ~Has(v, name), ~BeginsWithOption(v)
    PROVE  Without(u \o v, name) = Without(u, name) \o v
<1> DEFINE P == {ws \in Seq(Text) : Without(ws \o v, name) = Without(ws, name) \o v}
<1>1. <<>> \in P
  <2>1. <<>> \o v = v
    OBVIOUS
  <2>2. QED BY <2>1, WithoutEmpty, WithoutNone
<1>2. ASSUME NEW ws \in Seq(Text), NEW w \in Text, ws \in P PROVE <<w>> \o ws \in P
  <2> DEFINE left == Without(ws, name)
  <2>1. /\ <<w>> \o ws \in Seq(Text) /\ ws \o v \in Seq(Text) /\ left \in Seq(Text)
        /\ (<<w>> \o ws) \o v = <<w>> \o (ws \o v)
    BY WithoutType
  <2>2. /\ Without(<<w>> \o (ws \o v), name) = TakenOut(w, Without(ws \o v, name), name)
        /\ Without(<<w>> \o ws, name) = TakenOut(w, left, name)
    BY <2>1, WithoutCons
  <2>3. Without(ws \o v, name) = left \o v
    BY <1>2
  <2> HIDE DEF left
  <2>4. TakenOut(w, left \o v, name) = TakenOut(w, left, name) \o v
    <3>1. BeginsWithOption(left \o v) <=> BeginsWithOption(left)
      <4>1. CASE left = <<>>
        <5>1. left \o v = v
          BY <4>1
        <5>2. QED BY <4>1, <5>1 DEF BeginsWithOption
      <4>2. CASE left # <<>>
        <5>1. left \o v # <<>> /\ Head(left \o v) = Head(left)
          BY <2>1, <4>2
        <5>2. QED BY <4>2, <5>1 DEF BeginsWithOption
      <4>3. QED BY <4>1, <4>2
    <3>2. BeginsWithOption(left) => Tail(left \o v) = Tail(left) \o v
      <4>1. BeginsWithOption(left) => left # <<>>
        BY DEF BeginsWithOption
      <4>2. QED BY <2>1, <4>1
    <3>3. <<w>> \o (left \o v) = (<<w>> \o left) \o v
      BY <2>1
    <3>4. QED BY <3>1, <3>2, <3>3 DEF TakenOut
  <2>5. Without((<<w>> \o ws) \o v, name) = Without(<<w>> \o ws, name) \o v
    BY <2>1, <2>2, <2>3, <2>4, Zenon
  <2>6. QED BY <2>1, <2>5
<1> HIDE DEF P
<1>3. \A ws \in Seq(Text) : ws \in P
  BY <1>1, <1>2, ConsInduction
<1>4. QED BY <1>3 DEF P

\* Words that bring no argument and no option leave the options before them.
LEMMA OptionBefore ==
    ASSUME NEW u \in Seq(Text), NEW v \in Seq(Text), NEW name \in Text,
           ~Has(v, name), ~BeginsWithOption(v)
    PROVE  OptionOf(u \o v, name) = OptionOf(u, name)
<1> DEFINE P == {ws \in Seq(Text) : OptionOf(ws \o v, name) = OptionOf(ws, name)}
<1>1. <<>> \in P
  <2>1. <<>> \o v = v
    OBVIOUS
  <2>2. QED BY <2>1, HasEmpty, OptionOfNone
<1>2. ASSUME NEW ws \in Seq(Text), NEW w \in Text, ws \in P PROVE <<w>> \o ws \in P
  <2>1. /\ <<w>> \o ws \in Seq(Text) /\ ws \o v \in Seq(Text)
        /\ (<<w>> \o ws) \o v = <<w>> \o (ws \o v)
    OBVIOUS
  <2>2. OptionOf(ws \o v, name) = OptionOf(ws, name)
    BY <1>2
  <2>3. Has(ws \o v, name) <=> Has(ws, name)
    BY HasConcat
  <2>4. BeginsWithOption(ws \o v) <=> BeginsWithOption(ws)
    <3>1. CASE ws = <<>>
      <4>1. ws \o v = v
        BY <3>1
      <4>2. QED BY <3>1, <4>1 DEF BeginsWithOption
    <3>2. CASE ws # <<>>
      <4>1. ws \o v # <<>> /\ Head(ws \o v) = Head(ws)
        BY <3>2
      <4>2. QED BY <3>2, <4>1 DEF BeginsWithOption
    <3>3. QED BY <3>1, <3>2
  <2>5. BeginsWithOption(ws) => Head(ws \o v) = Head(ws)
    BY DEF BeginsWithOption
  <2>6. OptionOf(<<w>> \o (ws \o v), name) =
          IF Has(ws \o v, name) THEN OptionOf(ws \o v, name)
          ELSE IF IsArg(w, name) /\ BeginsWithOption(ws \o v) THEN Head(ws \o v) ELSE NoOption
    BY <2>1, OptionOfCons
  <2>7. OptionOf(<<w>> \o ws, name) =
          IF Has(ws, name) THEN OptionOf(ws, name)
          ELSE IF IsArg(w, name) /\ BeginsWithOption(ws) THEN Head(ws) ELSE NoOption
    BY OptionOfCons
  <2>8. OptionOf(<<w>> \o (ws \o v), name) = OptionOf(<<w>> \o ws, name)
    <3>1. CASE Has(ws, name)
      BY <2>2, <2>3, <2>6, <2>7, <3>1
    <3>2. CASE ~Has(ws, name) /\ IsArg(w, name) /\ BeginsWithOption(ws)
      BY <2>3, <2>4, <2>5, <2>6, <2>7, <3>2
    <3>3. CASE ~Has(ws, name) /\ ~(IsArg(w, name) /\ BeginsWithOption(ws))
      BY <2>3, <2>4, <2>6, <2>7, <3>3
    <3>4. QED BY <3>1, <3>2, <3>3
  <2>9. QED BY <2>1, <2>8
<1> HIDE DEF P
<1>3. \A ws \in Seq(Text) : ws \in P
  BY <1>1, <1>2, ConsInduction
<1>4. QED BY <1>3 DEF P

\* Nor do they give an argument before them a second option.
LEMMA OneOptionBefore ==
    ASSUME NEW u \in Seq(Text), NEW v \in Seq(Text), NEW name,
           ~BeginsWithOption(v), OneOption(v, name), OneOption(u, name)
    PROVE  OneOption(u \o v, name)
<1> DEFINE P == {ws \in Seq(Text) : OneOption(ws, name) => OneOption(ws \o v, name)}
<1>1. <<>> \in P
  <2>1. <<>> \o v = v
    OBVIOUS
  <2>2. QED BY <2>1
<1>2. ASSUME NEW ws \in Seq(Text), NEW w \in Text, ws \in P PROVE <<w>> \o ws \in P
  <2>1. /\ <<w>> \o ws \in Seq(Text) /\ ws \o v \in Seq(Text)
        /\ (<<w>> \o ws) \o v = <<w>> \o (ws \o v)
    OBVIOUS
  <2>2. TwoOptions(ws \o v) => TwoOptions(ws)
    <3>1. CASE ws = <<>>
      <4>1. ws \o v = v
        BY <3>1
      <4>2. QED BY <4>1 DEF TwoOptions
    <3>2. CASE ws # <<>>
      <4>1. Tail(ws) \in Seq(Text) /\ Head(ws \o v) = Head(ws) /\ Tail(ws \o v) = Tail(ws) \o v
        BY <3>2
      <4>2. BeginsWithOption(Tail(ws) \o v) => BeginsWithOption(Tail(ws))
        <5>1. CASE Tail(ws) = <<>>
          <6>1. <<>> \o v = v
            OBVIOUS
          <6>2. QED BY <5>1, <6>1, Zenon
        <5>2. CASE Tail(ws) # <<>>
          <6>1. Head(Tail(ws) \o v) = Head(Tail(ws))
            <7> DEFINE tail == Tail(ws)
            <7>1. tail \in Seq(Text) /\ tail # <<>>
              BY <4>1, <5>2
            <7> HIDE DEF tail
            <7>2. Head(tail \o v) = Head(tail)
              BY <7>1
            <7>3. QED BY <7>2 DEF tail
          <6>2. QED BY <5>2, <6>1 DEF BeginsWithOption
        <5>3. QED BY <5>1, <5>2
      <4>3. BeginsWithOption(ws \o v) => BeginsWithOption(ws)
        BY <3>2, <4>1 DEF BeginsWithOption
      <4>4. QED BY <4>1, <4>2, <4>3 DEF TwoOptions
    <3>3. QED BY <3>1, <3>2
  <2>3. OneOption(<<w>> \o ws, name) => OneOption(ws, name) /\ ~(IsArg(w, name) /\ TwoOptions(ws))
    BY OneOptionCons
  <2>4. OneOption(<<w>> \o (ws \o v), name) <=>
          OneOption(ws \o v, name) /\ ~(IsArg(w, name) /\ TwoOptions(ws \o v))
    BY <2>1, OneOptionCons
  <2>5. OneOption(ws, name) => OneOption(ws \o v, name)
    BY <1>2
  <2>6. QED BY <2>1, <2>2, <2>3, <2>4, <2>5
<1> HIDE DEF P
<1>3. \A ws \in Seq(Text) : ws \in P
  BY <1>1, <1>2, ConsInduction
<1>4. QED BY <1>3 DEF P

\* The option of an argument that none of its name follows.
LEMMA OptionOfCut ==
    ASSUME NEW u \in Seq(Text), NEW word \in Text, NEW v \in Seq(Text), NEW name \in Text,
           IsArg(word, name), ~Has(v, name)
    PROVE  OptionOf(u \o (<<word>> \o v), name) = IF BeginsWithOption(v) THEN Head(v) ELSE NoOption
<1> DEFINE s == <<word>> \o v
           option == IF BeginsWithOption(v) THEN Head(v) ELSE NoOption
           P == {ws \in Seq(Text) : OptionOf(ws \o s, name) = option}
<1>1. s \in Seq(Text) /\ Has(s, name) /\ OptionOf(s, name) = option
  BY ConsFacts, HasCons, OptionOfCons
<1> HIDE DEF s, option
<1>2. <<>> \in P
  <2>1. <<>> \o s = s
    BY <1>1
  <2>2. QED BY <1>1, <2>1
<1>3. ASSUME NEW ws \in Seq(Text), NEW w \in Text, ws \in P PROVE <<w>> \o ws \in P
  <2>1. /\ <<w>> \o ws \in Seq(Text) /\ ws \o s \in Seq(Text)
        /\ (<<w>> \o ws) \o s = <<w>> \o (ws \o s)
    BY <1>1
  <2>2. Has(ws \o s, name)
    BY <1>1, HasConcat
  <2>3. OptionOf(<<w>> \o (ws \o s), name) = OptionOf(ws \o s, name)
    BY <2>1, <2>2, OptionOfCons
  <2>4. QED BY <1>3, <2>1, <2>3
<1> HIDE DEF P
<1>4. \A ws \in Seq(Text) : ws \in P
  BY <1>2, <1>3, ConsInduction
<1>5. QED BY <1>4 DEF P, s, option

-----------------------------------------------------------------------------
(* What is found in a tidy text is found among its words.                  *)

\* Names with and without a sign.
LEMMA PrefixFacts ==
    ASSUME NEW name \in Name, NEW sign \in {Plus, Minus}
    PROVE  /\ remove_argument_prefix(name) = name /\ name \in Text /\ name # <<>>
           /\ remove_argument_prefix(sign \o name) = name
           /\ is_valid_argument(sign \o name)
           /\ sign \o name \in Word /\ Len(sign \o name) = 1 + Len(name)
           /\ IsArg(sign \o name, name) /\ Signed(sign \o name)
<1>1. name \in Text /\ name # <<>> /\ ~is_prefix_char(name[1]) /\ \A i \in 1..Len(name) : name[i] # Blank
  BY DEF Name
<1>2. Len(name) \in Nat \ {0}
  BY <1>1, TextFacts
<1> DEFINE arg == sign \o name
<1>3. /\ arg \in Text /\ Len(arg) = 1 + Len(name)
      /\ arg[1] \in {"+", "-"}
      /\ \A k \in 1..Len(name) : arg[k + 1] = name[k]
  BY <1>1, SignedName
<1>4. remove_argument_prefix(name) = name
  BY <1>1 DEF remove_argument_prefix
<1>5. Tail(arg) = name
  <2>1. sign = Plus \/ sign = Minus
    OBVIOUS
  <2>2. "+" \in Char /\ "-" \in Char
    BY CharAssumption
  <2>3. \A c \in Char : Tail(<<c>> \o name) = name
    BY <1>1, ConsFacts DEF Text
  <2>4. QED BY <2>1, <2>2, <2>3 DEF Plus, Minus
<1> HIDE DEF arg
<1>6. is_prefix_char(arg[1])
  BY <1>3 DEF is_prefix_char
<1>7. remove_argument_prefix(arg) = name
  BY <1>5, <1>6 DEF remove_argument_prefix
<1>8. is_valid_argument(arg)
  BY <1>2, <1>3, <1>6 DEF is_valid_argument
<1>9. arg \in Word
  <2>1. ASSUME NEW i \in 1..Len(arg) PROVE arg[i] # Blank
    <3>1. CASE i = 1
      BY <1>3, <3>1 DEF Blank
    <3>2. CASE i # 1
      <4>1. i - 1 \in 1..Len(name) /\ (i - 1) + 1 = i
        BY <1>2, <1>3, <3>2
      <4>2. arg[i] = name[i - 1]
        BY <1>3, <4>1
      <4>3. QED BY <1>1, <4>1, <4>2
    <3>3. QED BY <3>1, <3>2
  <2>2. Len(arg) # 0
    BY <1>2, <1>3
  <2>3. QED BY <1>3, <2>1, <2>2, TextFacts DEF Word
<1>10. IsArg(arg, name) /\ Signed(arg)
  BY <1>3 DEF IsArg, Signed, arg
<1>11. QED BY <1>1, <1>3, <1>4, <1>7, <1>8, <1>9, <1>10 DEF arg

\* Tidy texts, a word at a time.
LEMMA TidyInduction ==
    ASSUME NEW P, <<>> \in P,
           \A word \in Word, rest \in Text :
               Tidy(Glue(word, rest)) /\ Tidy(word) /\ Tidy(rest) /\ rest \in P => Glue(word, rest) \in P
    PROVE  \A text : Tidy(text) => text \in P
<1> DEFINE S == {n \in Nat : \A text \in Text : Tidy(text) /\ Len(text) <= n => text \in P}
<1>1. 0 \in S
  BY TextFacts
<1>2. ASSUME NEW n \in Nat, n \in S PROVE n + 1 \in S
  <2> SUFFICES ASSUME NEW text \in Text, Tidy(text), Len(text) <= n + 1 PROVE text \in P
    OBVIOUS
  <2>1. CASE text = <<>>
    BY <2>1
  <2>2. CASE text # <<>>
    <3>1. PICK word \in Word, rest \in Text : text = Glue(word, rest)
      BY <2>2, CutWord DEF Tidy
    <3>2. word \in Text /\ word # <<>> /\ Len(word) \in Nat \ {0} /\ Len(rest) \in Nat /\ Len(text) \in Nat
      BY TextFacts DEF Word
    <3>3. Tidy(word) /\ Tidy(rest)
      BY <3>1, <3>2, GlueTidy
    <3>4. Len(rest) <= n
      <4>1. CASE rest = <<>>
        BY <4>1, TextFacts
      <4>2. CASE rest # <<>>
        <5>1. Len(Glue(word, rest)) = Before(word) + Len(rest) /\ Before(word) = Len(word) + 1
          BY <3>2, <4>2, GlueFacts DEF Before
        <5>2. QED BY <3>1, <3>2, <5>1
      <4>3. QED BY <4>1, <4>2
    <3>5. rest \in P
      BY <1>2, <3>3, <3>4
    <3>6. QED BY <3>1, <3>3, <3>5
  <2>3. QED BY <2>1, <2>2
<1> HIDE DEF S
<1>3. \A n \in Nat : n \in S
  BY <1>1, <1>2, Induction
<1>4. ASSUME NEW text, Tidy(text) PROVE text \in P
  <2>1. text \in Text /\ Len(text) \in Nat /\ Len(text) <= Len(text)
    BY <1>4, TextFacts DEF Tidy
  <2>2. Len(text) \in S
    BY <1>3, <2>1
  <2>3. QED BY <1>4, <2>1, <2>2 DEF S
<1>5. QED BY <1>4

\* A tidy text around one argument.
LEMMA CutFacts ==
    ASSUME NEW a \in Text, NEW b \in Text, NEW name \in Names, NEW arg, IsArg(arg, name)
    PROVE  /\ arg \in Text /\ Glue(arg, b) \in Text /\ Glue(a, Glue(arg, b)) \in Text
           /\ Words(a) \in Seq(Text) /\ Words(b) \in Seq(Text)
           /\ Words(Glue(a, Glue(arg, b))) = Words(a) \o (<<arg>> \o Words(b))
           /\ Tidy(Glue(a, Glue(arg, b))) <=> Tidy(a) /\ Tidy(arg) /\ Tidy(b)
           /\ Before(a) + 1 \in 1..Len(Glue(a, Glue(arg, b)))
           /\ Found(Glue(a, Glue(arg, b)), Before(a) + 1, name)
<1> DEFINE rest == Glue(arg, b)
           text == Glue(a, rest)
<1>1. PICK sign \in {Plus, Minus} : arg = sign \o name
  BY DEF IsArg
<1>2. arg \in Word /\ arg \in Text /\ arg # <<>> /\ Len(arg) \in Nat \ {0}
  <2>1. sign \o name \in Word
    BY NamesAreNames, PrefixFacts
  <2>2. arg \in Word
    BY <1>1, <2>1, Zenon
  <2>3. QED BY <2>2, TextFacts DEF Word
<1>3. rest \in Text /\ rest # <<>>
  BY <1>2, GlueFacts
<1>4. text \in Text
  BY <1>3, GlueFacts
<1>5. Words(text) = Words(a) \o (<<arg>> \o Words(b))
  <2>1. Words(text) = Words(a) \o Words(rest)
    BY <1>3, GlueWords
  <2>2. Words(rest) = Words(arg) \o Words(b)
    BY <1>2, GlueWords
  <2>3. Words(arg) = <<arg>>
    BY <1>2, WordsOfWord
  <2>4. QED BY <2>1, <2>2, <2>3, Zenon
<1>6. Tidy(text) <=> Tidy(a) /\ Tidy(arg) /\ Tidy(b)
  <2>1. Tidy(text) <=> Tidy(a) /\ Tidy(rest)
    BY <1>3, GlueTidy
  <2>2. Tidy(rest) <=> Tidy(arg) /\ Tidy(b)
    BY <1>2, GlueTidy
  <2>3. QED BY <2>1, <2>2
<1>7. OccursAt(text, Before(a) + 1, arg) /\ Before(a) + 1 \in 1..Len(text)
  <2>1. /\ Before(a) \in Nat /\ Len(text) = Before(a) + Len(rest)
        /\ \A k \in 1..Len(rest) : text[Before(a) + k] = rest[k]
    BY <1>3, GlueFacts
  <2>2. \A k \in 1..Len(arg) : rest[k] = arg[k]
    BY <1>2, GlueFacts
  <2>3. Len(rest) >= Len(arg)
    <3>1. CASE b = <<>>
      <4>1. Glue(arg, <<>>) = arg
        BY <1>2, GlueFacts
      <4>2. rest = arg
        BY <3>1, <4>1, Zenon
      <4>3. QED BY <1>2, <4>2
    <3>2. CASE b # <<>>
      <4>1. Len(rest) = Before(arg) + Len(b) /\ Before(arg) = Len(arg) + 1 /\ Len(b) \in Nat
        BY <1>2, <3>2, GlueFacts, TextFacts DEF Before
      <4>2. QED BY <1>2, <4>1
    <3>3. QED BY <3>1, <3>2
  <2> HIDE DEF text, rest
  <2>4. Len(rest) \in Nat /\ Len(text) \in Nat
    BY <1>3, <1>4, TextFacts
  <2>5. \A k \in 1..Len(arg) : text[(Before(a) + 1) + k - 1] = arg[k]
    <3> TAKE k \in 1..Len(arg)
    <3>1. (Before(a) + 1) + k - 1 = Before(a) + k /\ k \in 1..Len(rest)
      BY <1>2, <2>1, <2>3, <2>4
    <3>2. QED BY <2>1, <2>2, <3>1
  <2>6. (Before(a) + 1) + Len(arg) <= Len(text) + 1 /\ Before(a) + 1 \in 1..Len(text) /\ Before(a) + 1 \in Nat \ {0}
    BY <1>2, <2>1, <2>3, <2>4
  <2>7. QED BY <1>2, <1>4, <2>5, <2>6, OccursFacts
<1>8. Found(text, Before(a) + 1, name)
  BY <1>1, <1>7 DEF Found
<1>9. QED BY <1>2, <1>3, <1>4, <1>5, <1>6, <1>7, <1>8, WordsType

\* An argument is found in a tidy text when it is one of its words.
LEMMA FoundWord ==
    ASSUME NEW name \in Names
    PROVE  \A text : Tidy(text) /\ Has(Words(text), name) =>
               \E pos \in 1..Len(text) : Found(text, pos, name)
<1> DEFINE P == {text \in Text : Has(Words(text), name) => \E pos \in 1..Len(text) : Found(text, pos, name)}
<1>1. name \in Name
  BY NamesAreNames
<1>2. <<>> \in P
  BY WordsEmpty, HasEmpty
<1>3. ASSUME NEW word \in Word, NEW rest \in Text, rest \in P PROVE Glue(word, rest) \in P
  <2> DEFINE text == Glue(word, rest)
  <2>1. word \in Text /\ word # <<>> /\ Len(word) \in Nat \ {0} /\ Before(word) = Len(word) + 1
    BY TextFacts DEF Word, Before
  <2>2. text \in Text /\ Words(rest) \in Seq(Text)
    BY <2>1, GlueFacts, WordsType
  <2>3. Words(text) = <<word>> \o Words(rest)
    BY <2>1, GlueWords, WordsOfWord
  <2>4. Has(Words(text), name) <=> IsArg(word, name) \/ Has(Words(rest), name)
    BY <2>1, <2>2, <2>3, HasCons
  <2>5. CASE IsArg(word, name)
    <3>2. 1 \in 1..Len(text) /\ Found(text, 1, name)
      <4>1. Glue(<<>>, text) = text /\ <<>> \in Text /\ Before(<<>>) + 1 = 1
        <5>1. <<>> \in Text
          BY WordsEmpty
        <5>2. Glue(<<>>, text) = text
          BY <2>2, <5>1, GlueFacts
        <5>3. Before(<<>>) + 1 = 1
          BY DEF Before
        <5>4. QED BY <5>1, <5>2, <5>3
      <4>2. Before(<<>>) + 1 \in 1..Len(Glue(<<>>, Glue(word, rest)))
            /\ Found(Glue(<<>>, Glue(word, rest)), Before(<<>>) + 1, name)
        BY <2>5, <4>1, CutFacts
      <4>3. QED BY <4>1, <4>2, Zenon
    <3>3. QED BY <2>2, <3>2
  <2>6. CASE Has(Words(rest), name)
    <3>1. PICK pos \in 1..Len(rest) : Found(rest, pos, name)
      BY <1>3, <2>6
    <3>2. Len(rest) \in Nat /\ rest # <<>>
      BY <3>1, TextFacts
    <3>3. Len(text) = Before(word) + Len(rest)
      BY <2>1, <3>2, GlueFacts
    <3> HIDE DEF text
    <3>4. /\ Before(word) + pos \in 1..Len(text) /\ Before(word) + pos \in Nat \ {0}
          /\ Before(word) + pos > Before(word) /\ (Before(word) + pos) - Before(word) = pos
      BY <2>1, <3>1, <3>2, <3>3
    <3>5. Found(text, Before(word) + pos, name)
      BY <1>1, <2>1, <3>1, <3>4, GlueFound DEF text
    <3>6. QED BY <2>2, <3>4, <3>5 DEF text
  <2>7. QED BY <2>2, <2>4, <2>5, <2>6
<1> HIDE DEF P
<1>4. \A text : Tidy(text) => text \in P
  BY <1>2, <1>3, TidyInduction
<1>5. QED BY <1>4 DEF P

\* What contains() says of a tidy text, and of its words.
LEMMA ContainsHas ==
    ASSUME NEW text, Tidy(text), NEW name \in Names, NEW arg, remove_argument_prefix(arg) = name
    PROVE  contains(text, arg) <=> Has(Words(text), name)
<1>1. text \in Text
  BY DEF Tidy
<1> DEFINE pos == find_argument_pos(text, arg)
<1>2. /\ pos \in 0..Len(text) /\ Len(text) \in Nat
      /\ pos # 0 => Found(text, pos, name)
      /\ \A other \in 1..Len(text) : Found(text, other, name) => other <= pos
  BY <1>1, FindFacts, TextFacts
<1>3. contains(text, arg) <=> pos # 0
  BY DEF contains
<1> HIDE DEF pos
<1>4. ASSUME pos # 0 PROVE Has(Words(text), name)
  <2>1. pos \in 1..Len(text) /\ Found(text, pos, name)
    BY <1>2, <1>4
  <2>2. PICK a \in Text, b \in Text, m \in Word : text = Glue(a, Glue(m, b)) /\ IsArg(m, name)
    <3>1. PICK a \in Text, b \in Text, sign \in {Plus, Minus} : text = Glue(a, Glue(sign \o name, b))
      BY <2>1, CutAtFound
    <3>2. sign \o name \in Word
      BY NamesAreNames, PrefixFacts
    <3>3. IsArg(sign \o name, name)
      BY DEF IsArg
    <3>4. QED BY <3>1, <3>2, <3>3
  <2>3. /\ m \in Text /\ Words(a) \in Seq(Text) /\ Words(b) \in Seq(Text)
        /\ Words(text) = Words(a) \o (<<m>> \o Words(b))
    <3>1. m \in Text /\ Glue(m, b) \in Text
      BY GlueFacts DEF Word
    <3>2. Words(a) \in Seq(Text) /\ Words(b) \in Seq(Text)
      BY WordsType
    <3>3. Words(text) = Words(a) \o Words(Glue(m, b))
      BY <2>2, <3>1, GlueWords
    <3>4. Words(Glue(m, b)) = Words(m) \o Words(b)
      BY <3>1, GlueWords
    <3>5. Words(m) = <<m>>
      BY WordsOfWord
    <3>6. QED BY <3>1, <3>2, <3>3, <3>4, <3>5, Zenon
  <2>4. Has(<<m>> \o Words(b), name) /\ <<m>> \o Words(b) \in Seq(Text)
    BY <2>2, <2>3, HasCons, ConsFacts
  <2>5. Has(Words(a) \o (<<m>> \o Words(b)), name)
    BY <2>3, <2>4, HasConcat
  <2>6. QED BY <2>3, <2>5, Zenon
<1>5. ASSUME Has(Words(text), name) PROVE pos # 0
  <2>1. PICK other \in 1..Len(text) : Found(text, other, name)
    BY <1>5, FoundWord
  <2>2. QED BY <1>2, <2>1
<1>6. QED BY <1>3, <1>4, <1>5

\* The last argument of a name, as it is found, and what is before and after it.
LEMMA LastArg ==
    ASSUME NEW text, Tidy(text), NEW name \in Names, NEW arg, remove_argument_prefix(arg) = name,
           contains(text, arg)
    PROVE  \E a \in Text, b \in Text, m \in Word :
               /\ IsArg(m, name) /\ Len(m) = Len(name) + 1
               /\ text = Glue(a, Glue(m, b))
               /\ find_argument_pos(text, arg) = Before(a) + 1
               /\ Tidy(a) /\ Tidy(m) /\ Tidy(b)
               /\ ~Has(Words(b), name)
<1>1. text \in Text /\ name \in Name
  BY NamesAreNames DEF Tidy
<1> DEFINE pos == find_argument_pos(text, arg)
<1>2. /\ pos \in 0..Len(text) /\ Len(text) \in Nat /\ pos # 0
      /\ pos # 0 => Found(text, pos, name)
      /\ \A other \in 1..Len(text) : Found(text, other, name) => other <= pos
  BY <1>1, FindFacts, TextFacts DEF contains
<1> HIDE DEF pos
<1>3. PICK a \in Text, b \in Text, sign \in {Plus, Minus} : text = Glue(a, Glue(sign \o name, b)) /\ pos = Before(a) + 1
  BY <1>2, CutAtFound
<1> DEFINE m == sign \o name
           rest == Glue(m, b)
<1>4. m \in Word /\ m \in Text /\ m # <<>> /\ Len(m) \in Nat \ {0} /\ Len(m) = Len(name) + 1 /\ IsArg(m, name)
  <2>1. m \in Word /\ Len(m) = 1 + Len(name) /\ IsArg(m, name) /\ name \in Text
    BY <1>1, PrefixFacts
  <2>2. QED BY <2>1, TextFacts DEF Word
<1>5. Tidy(a) /\ Tidy(m) /\ Tidy(b)
  <2>1. Tidy(Glue(a, rest)) <=> Tidy(a) /\ Tidy(m) /\ Tidy(b)
    BY <1>4, CutFacts
  <2>2. QED BY <1>3, <2>1, Zenon
<1> HIDE DEF m
<1>6. rest \in Text /\ rest # <<>>
  BY <1>4, GlueFacts
<1>7. ASSUME Has(Words(b), name) PROVE FALSE
  <2>1. PICK other \in 1..Len(b) : Found(b, other, name)
    BY <1>5, <1>7, FoundWord
  <2>2. Len(b) \in Nat /\ b # <<>>
    BY <2>1, TextFacts
  <2>3. Before(m) = Len(m) + 1 /\ Len(rest) = Before(m) + Len(b) /\ Before(a) \in Nat
        /\ Len(Glue(a, rest)) = Before(a) + Len(rest)
    BY <1>4, <1>6, <2>2, GlueFacts DEF Before
  <2> HIDE DEF rest
  <2> DEFINE inner == Before(m) + other
             outer == Before(a) + inner
  <2>4. /\ inner \in Nat \ {0} /\ inner > Before(m) /\ inner - Before(m) = other
        /\ outer \in 1..Len(Glue(a, rest)) /\ outer \in Nat \ {0} /\ outer > Before(a) /\ outer - Before(a) = inner
        /\ outer > Before(a) + 1
    BY <1>4, <2>1, <2>2, <2>3
  <2> HIDE DEF inner, outer
  <2>5. Found(rest, inner, name)
    BY <1>1, <1>4, <2>1, <2>4, GlueFound DEF rest
  <2>6. Found(Glue(a, rest), outer, name)
    BY <1>1, <1>6, <2>4, <2>5, GlueFound
  <2>7. Glue(a, rest) = text
    BY <1>3 DEF rest, m
  <2>8. outer <= pos
    BY <1>2, <2>4, <2>6, <2>7
  <2>9. QED BY <1>2, <1>3, <2>3, <2>4, <2>8
<1>8. QED BY <1>3, <1>4, <1>5, <1>7 DEF m, pos

\* A tidy text is empty, or begins with a word.
LEMMA TidyCut ==
    ASSUME NEW text, Tidy(text), text # <<>>
    PROVE  \E word \in Word, rest \in Text :
               /\ text = Glue(word, rest) /\ Tidy(word) /\ Tidy(rest)
               /\ Words(rest) \in Seq(Text)
               /\ Words(text) = <<word>> \o Words(rest)
<1>1. text \in Text /\ Neat(text)
  BY DEF Tidy
<1>2. PICK word \in Word, rest \in Text : text = Glue(word, rest)
  BY <1>1, CutWord
<1>3. word \in Text
  BY DEF Word
<1>4. Tidy(word) /\ Tidy(rest)
  <2>1. Tidy(Glue(word, rest)) <=> Tidy(word) /\ Tidy(rest)
    BY <1>3, GlueTidy
  <2>2. QED BY <1>2, <2>1, Zenon
<1>5. Words(text) = <<word>> \o Words(rest)
  <2>1. Words(Glue(word, rest)) = Words(word) \o Words(rest) /\ Words(word) = <<word>>
    BY <1>3, GlueWords, WordsOfWord
  <2>2. QED BY <1>2, <2>1, Zenon
<1>6. QED BY <1>2, <1>4, <1>5, WordsType

\* The text after an argument, as the search for its option sees it.
LEMMA OptionAfter ==
    ASSUME NEW a \in Text, NEW m \in Text, m # <<>>, NEW b, Tidy(b), NEW x, NEW pos,
           pos + Len(x) + 1 \in {Before(a) + Len(m) + 1, Before(a) + Len(m) + 2}, pos # 0
    PROVE  OptionAt(Glue(a, Glue(m, b)), x, pos) =
               IF BeginsWithOption(Words(b)) THEN Head(Words(b)) ELSE NoOption
<1>1. b \in Text
  BY DEF Tidy
<1> DEFINE option == OptionAt(Glue(a, Glue(m, b)), x, pos)
<1>2. /\ b = <<>> => option = NoOption
      /\ \A word \in Word, c \in Text : b = Glue(word, c) =>
             option = IF Signed(word) THEN NoOption ELSE word
  BY <1>1, OptionAtFacts
<1> HIDE DEF option
<1>3. CASE b = <<>>
  <2>1. Words(b) = <<>>
    BY <1>3, WordsEmpty
  <2>2. QED BY <1>2, <1>3, <2>1 DEF BeginsWithOption, option
<1>4. CASE b # <<>>
  <2>1. PICK word \in Word, c \in Text : b = Glue(word, c) /\ Words(c) \in Seq(Text) /\ Words(b) = <<word>> \o Words(c)
    BY <1>4, TidyCut
  <2>2. word \in Text
    BY DEF Word
  <2>3. BeginsWithOption(Words(b)) <=> ~Signed(word)
    BY <2>1, <2>2, BeginsCons
  <2>4. Head(Words(b)) = word
    BY <2>1, <2>2, ConsFacts
  <2>5. option = IF Signed(word) THEN NoOption ELSE word
    BY <1>2, <2>1
  <2>6. QED BY <2>3, <2>4, <2>5 DEF option
<1>5. QED BY <1>3, <1>4

\* get_argument_option() of a tidy text is the option among its words, whether
\* the caller leaves the sign on the name or not.
LEMMA OptionText ==
    ASSUME NEW text, Tidy(text), NEW name \in Names, NEW arg \in {name, Plus \o name, Minus \o name}
    PROVE  get_argument_option(text, arg) = OptionOf(Words(text), name)
<1>1. name \in Name /\ name \in Text
  BY NamesAreNames DEF Name
<1>2. Len(name) \in Nat /\ Len(arg) \in {Len(name), Len(name) + 1} /\ remove_argument_prefix(arg) = name
  <2>1. Len(name) \in Nat
    BY <1>1, TextFacts
  <2>2. CASE arg = name
    BY <1>1, <2>1, <2>2, PrefixFacts
  <2>3. ASSUME NEW sign \in {Plus, Minus}, arg = sign \o name PROVE Len(arg) = 1 + Len(name) /\ remove_argument_prefix(arg) = name
    <3>1. Len(sign \o name) = 1 + Len(name) /\ remove_argument_prefix(sign \o name) = name
      BY <1>1, PrefixFacts
    <3>2. QED BY <2>3, <3>1, Zenon
  <2>4. QED BY <2>1, <2>2, <2>3
<1>3. contains(text, arg) <=> Has(Words(text), name)
  BY <1>2, ContainsHas
<1>4. CASE ~contains(text, arg)
  <2>1. find_argument_pos(text, arg) = 0
    BY <1>4 DEF contains
  <2>2. get_argument_option(text, arg) = NoOption
    BY <2>1 DEF get_argument_option, OptionAt
  <2>3. QED BY <1>3, <1>4, <2>2, OptionOfNone
<1>5. CASE contains(text, arg)
  <2>1. PICK a \in Text, b \in Text, m \in Word :
               /\ IsArg(m, name) /\ Len(m) = Len(name) + 1
               /\ text = Glue(a, Glue(m, b))
               /\ find_argument_pos(text, arg) = Before(a) + 1
               /\ Tidy(b) /\ ~Has(Words(b), name)
    BY <1>2, <1>5, LastArg
  <2> DEFINE pos == Before(a) + 1
  <2>2. m \in Text /\ m # <<>> /\ Len(m) = 1 + Len(name)
    BY <1>2, <2>1 DEF Word
  <2>3. Before(a) \in Nat
    BY GlueFacts
  <2>4. pos + Len(arg) + 1 \in {Before(a) + Len(m) + 1, Before(a) + Len(m) + 2} /\ pos # 0
    BY <1>2, <2>2, <2>3
  <2> DEFINE option == IF BeginsWithOption(Words(b)) THEN Head(Words(b)) ELSE NoOption
  <2>5. OptionAt(Glue(a, Glue(m, b)), arg, pos) = option
    BY <2>1, <2>2, <2>4, OptionAfter
  <2>6. get_argument_option(text, arg) = option
    <3> HIDE DEF option, pos
    <3>1. text = Glue(a, Glue(m, b))
      BY <2>1
    <3>2. find_argument_pos(text, arg) = pos
      BY <2>1 DEF pos
    <3>3. OptionAt(text, arg, find_argument_pos(text, arg)) = option
      BY <2>5, <3>1, <3>2, Zenon
    <3>4. QED BY <3>3 DEF get_argument_option
  <2>7. Words(a) \in Seq(Text) /\ Words(b) \in Seq(Text) /\ Words(text) = Words(a) \o (<<m>> \o Words(b))
    <3>1. /\ Words(a) \in Seq(Text) /\ Words(b) \in Seq(Text)
          /\ Words(Glue(a, Glue(m, b))) = Words(a) \o (<<m>> \o Words(b))
      BY <2>1, CutFacts
    <3>2. QED BY <2>1, <3>1, Zenon
  <2>8. OptionOf(Words(a) \o (<<m>> \o Words(b)), name) = option
    BY <1>1, <2>1, <2>2, <2>7, OptionOfCut
  <2>9. QED BY <2>6, <2>7, <2>8, Zenon
<1>6. QED BY <1>4, <1>5

\* One turn of remove() leaves a tidy text tidy, and takes out what Without does.
LEMMA RemoveLastWords ==
    ASSUME NEW text, Tidy(text), NEW name \in Names
    PROVE  /\ Tidy(RemoveLast(text, name))
           /\ Without(Words(RemoveLast(text, name)), name) = Without(Words(text), name)
<1>1. name \in Name /\ name \in Text /\ remove_argument_prefix(name) = name /\ text \in Text
  BY NamesAreNames, PrefixFacts DEF Name, Tidy
<1>2. CASE ~contains(text, name)
  <2>1. RemoveLast(text, name) = text
    BY <1>2 DEF contains, RemoveLast
  <2>2. QED BY <2>1
<1>3. CASE contains(text, name)
  <2>1. PICK a \in Text, b \in Text, m \in Word :
               /\ IsArg(m, name) /\ Len(m) = Len(name) + 1
               /\ text = Glue(a, Glue(m, b))
               /\ find_argument_pos(text, name) = Before(a) + 1
               /\ Tidy(a) /\ Tidy(m) /\ Tidy(b)
               /\ ~Has(Words(b), name)
    BY <1>1, <1>3, LastArg
  <2>2. m \in Text /\ m # <<>> /\ Len(name) \in Nat /\ Before(a) \in Nat
    BY <1>1, <2>1, TextFacts, GlueFacts DEF Word
  <2>3. Words(a) \in Seq(Text) /\ Words(b) \in Seq(Text) /\ <<m>> \o Words(b) \in Seq(Text)
    BY <2>2, WordsType, ConsFacts
  <2>4. Words(text) = Words(a) \o (<<m>> \o Words(b))
    <3>1. Words(Glue(a, Glue(m, b))) = Words(a) \o (<<m>> \o Words(b))
      BY <2>1, CutFacts
    <3>2. QED BY <2>1, <3>1, Zenon
  <2> DEFINE pos == Before(a) + 1
             option == IF BeginsWithOption(Words(b)) THEN Head(Words(b)) ELSE NoOption
             count == 1 + Len(name) + 1 + (IF option = NoOption THEN 0 ELSE Len(option) + 1)
  <2>5. RemoveLast(text, name) = Erase(text, Max({pos - 1, 1}), count)
    <3>1. pos + Len(name) + 1 \in {Before(a) + Len(m) + 1, Before(a) + Len(m) + 2} /\ pos # 0
      BY <2>1, <2>2
    <3>2. OptionAt(Glue(a, Glue(m, b)), name, pos) = option
      BY <2>1, <2>2, <3>1, OptionAfter
    <3> HIDE DEF option
    <3>3. OptionAt(text, name, pos) = option
      BY <2>1, <3>2, Zenon
    <3>4. find_argument_pos(text, name) = pos
      BY <2>1
    <3>5. pos # 0
      BY <3>1
    <3> HIDE DEF pos
    <3>6. QED BY <3>3, <3>4, <3>5 DEF RemoveLast
  <2>6. Without(Words(b), name) = Words(b)
    BY <2>1, <2>3, WithoutNone
  <2>7. Without(<<m>> \o Words(b), name) = TakenOut(m, Words(b), name)
    <3>1. Without(<<m>> \o Words(b), name) = TakenOut(m, Without(Words(b), name), name)
      BY <2>2, <2>3, WithoutCons
    <3>2. QED BY <2>6, <3>1, Zenon
  <2>8. CASE ~BeginsWithOption(Words(b))
    <3>1. count = Len(m) + 1
      BY <2>1, <2>2, <2>8
    <3>2. RemoveLast(text, name) = Glue(a, b)
      <4>1. Erase(Glue(a, Glue(m, b)), Max({pos - 1, 1}), Len(m) + 1) = Glue(a, b)
        BY <2>2, EraseMiddle
      <4> HIDE DEF pos, count
      <4>2. QED BY <2>1, <2>5, <3>1, <4>1, Zenon
    <3>3. Tidy(RemoveLast(text, name))
      <4>1. Tidy(Glue(a, b))
        BY <2>1, GlueTidy
      <4>2. QED BY <3>2, <4>1, Zenon
    <3>4. Words(RemoveLast(text, name)) = Words(a) \o Words(b)
      <4>1. Words(Glue(a, b)) = Words(a) \o Words(b)
        BY GlueWords
      <4>2. QED BY <3>2, <4>1, Zenon
    <3>5. Without(<<m>> \o Words(b), name) = Without(Words(b), name)
      BY <2>1, <2>6, <2>7, <2>8 DEF TakenOut
    <3>6. Without(Words(a) \o (<<m>> \o Words(b)), name) = Without(Words(a) \o Words(b), name)
      <4> DEFINE v == <<m>> \o Words(b)
      <4>1. v \in Seq(Text) /\ Words(a) \in Seq(Text) /\ Words(b) \in Seq(Text)
        BY <2>3
      <4>2. Without(v, name) = Without(Words(b), name)
        BY <3>5
      <4> HIDE DEF v
      <4>3. Without(Words(a) \o v, name) = Without(Words(a) \o Words(b), name)
        BY <4>1, <4>2, WithoutCongruence
      <4>4. QED BY <4>3 DEF v
    <3>7. QED BY <2>4, <3>3, <3>4, <3>6, Zenon
  <2>9. CASE BeginsWithOption(Words(b))
    <3>1. b # <<>>
      BY <2>9, WordsEmpty DEF BeginsWithOption
    <3>2. PICK word \in Word, c \in Text :
               /\ b = Glue(word, c) /\ Tidy(word) /\ Tidy(c)
               /\ Words(c) \in Seq(Text)
               /\ Words(b) = <<word>> \o Words(c)
      BY <2>1, <3>1, TidyCut
    <3>3. word \in Text /\ word # <<>> /\ Len(word) \in Nat /\ word # NoOption
      BY NoOptionAssumption, TextFacts DEF Word
    <3>4. Head(Words(b)) = word /\ Tail(Words(b)) = Words(c)
      BY <3>2, <3>3, ConsFacts
    <3>5. ~Has(Words(c), name)
      BY <2>1, <3>2, <3>3, HasCons
    <3> DEFINE mw == Glue(m, word)
    <3>6. mw \in Text /\ mw # <<>> /\ Len(mw) = Len(m) + 1 + Len(word)
      BY <2>2, <3>3, GlueFacts DEF Before
    <3>7. count = Len(mw) + 1
      <4>1. option = word
        BY <2>9, <3>4
      <4>2. Len(option) = Len(word) /\ option # NoOption
        BY <3>3, <4>1
      <4> HIDE DEF option, mw
      <4>3. QED BY <2>1, <2>2, <3>3, <3>6, <4>2
    <3>8. text = Glue(a, Glue(mw, c))
      <4>1. Glue(m, Glue(word, c)) = Glue(mw, c)
        BY <2>2, <3>3, GlueAssociative
      <4> HIDE DEF mw
      <4>2. QED BY <2>1, <3>2, <4>1, Zenon
    <3>9. RemoveLast(text, name) = Glue(a, c)
      <4> HIDE DEF mw
      <4>1. Erase(Glue(a, Glue(mw, c)), Max({pos - 1, 1}), Len(mw) + 1) = Glue(a, c)
        BY <3>6, EraseMiddle
      <4> HIDE DEF pos, count
      <4>2. QED BY <2>5, <3>7, <3>8, <4>1, Zenon
    <3>10. Tidy(RemoveLast(text, name))
      <4>1. Tidy(Glue(a, c))
        BY <2>1, <3>2, GlueTidy
      <4>2. QED BY <3>9, <4>1, Zenon
    <3>11. Words(RemoveLast(text, name)) = Words(a) \o Words(c)
      <4>1. Words(Glue(a, c)) = Words(a) \o Words(c)
        BY GlueWords
      <4>2. QED BY <3>9, <4>1, Zenon
    <3>12. Without(<<m>> \o Words(b), name) = Without(Words(c), name)
      <4>1. Without(Words(c), name) = Words(c)
        BY <3>2, <3>5, WithoutNone
      <4>2. TakenOut(m, Words(b), name) = Words(c)
        BY <2>1, <2>9, <3>4 DEF TakenOut
      <4>3. QED BY <2>7, <4>1, <4>2, Zenon
    <3>13. Without(Words(a) \o (<<m>> \o Words(b)), name) = Without(Words(a) \o Words(c), name)
      <4> DEFINE v == <<m>> \o Words(b)
      <4>1. v \in Seq(Text) /\ Words(a) \in Seq(Text) /\ Words(c) \in Seq(Text)
        BY <2>3, <3>2
      <4>2. Without(v, name) = Without(Words(c), name)
        BY <3>12
      <4> HIDE DEF v
      <4>3. Without(Words(a) \o v, name) = Without(Words(a) \o Words(c), name)
        BY <4>1, <4>2, WithoutCongruence
      <4>4. QED BY <4>3 DEF v
    <3>14. QED BY <2>4, <3>10, <3>11, <3>13, Zenon
  <2>10. QED BY <2>8, <2>9
<1>4. QED BY <1>2, <1>3

\* remove() of a tidy text takes the argument and its options out of its words,
\* and leaves the others as they were.
THEOREM RemoveTakesWords ==
    ASSUME NEW text, Tidy(text), NEW name \in Names, NEW arg, remove_argument_prefix(arg) = name
    PROVE  /\ Tidy(remove(text, arg)) /\ remove(text, arg) \in Text
           /\ Words(remove(text, arg)) = Without(Words(text), name)
<1> DEFINE words == Without(Words(text), name)
           P == {s \in Text : Tidy(s) /\ Without(Words(s), name) = words}
           left == remove(text, arg)
<1>1. name \in Text /\ text \in Text /\ remove_argument_prefix(name) = name
  BY NamesAreNames, PrefixFacts DEF Name, Tidy
<1>2. text \in P
  BY <1>1
<1>3. ASSUME NEW s \in Text, s \in P PROVE RemoveLast(s, remove_argument_prefix(arg)) \in P
  <2>1. Tidy(RemoveLast(s, name)) /\ Without(Words(RemoveLast(s, name)), name) = Without(Words(s), name)
    BY <1>3, RemoveLastWords
  <2>2. RemoveLast(s, name) \in Text
    BY <2>1 DEF Tidy
  <2>3. RemoveLast(s, name) \in P
    BY <1>3, <2>1, <2>2
  <2> HIDE DEF P
  <2>4. QED BY <2>3
<1> HIDE DEF P
<1>4. left \in Text /\ left \in P
  BY <1>1, <1>2, <1>3, RemoveKeeps
<1>5. ~contains(left, name)
  <2>1. ~contains(left, remove_argument_prefix(arg))
    BY <1>1, RemoveLeavesNone
  <2>2. QED BY <2>1
<1> HIDE DEF left, words
<1>6. Tidy(left) /\ Without(Words(left), name) = words
  BY <1>4 DEF P
<1>7. ~Has(Words(left), name) /\ Words(left) \in Seq(Text)
  BY <1>1, <1>4, <1>5, <1>6, ContainsHas, WordsType
<1>8. Words(left) = words
  BY <1>6, <1>7, WithoutNone
<1>9. QED BY <1>4, <1>6, <1>8 DEF left, words

-----------------------------------------------------------------------------
(* Adding an argument at one end.                                          *)

\* A text without blanks around it.
Trimmed(text) == text # <<>> => text[1] # Blank /\ text[Len(text)] # Blank

\* trim() from the first character that is kept to the last.
LEMMA TrimIs ==
    ASSUME NEW text \in Text, NEW i \in 1..Len(text), NEW j \in 1..Len(text), text[i] # Blank, text[j] # Blank,
           \A k \in 1..Len(text) : text[k] # Blank => i <= k /\ k <= j
    PROVE  trim(text) = SubSeq(text, i, j)
<1> DEFINE kept == {k \in DOMAIN text : text[k] # Blank}
<1>1. Len(text) \in Nat /\ DOMAIN text = 1..Len(text)
  BY TextFacts
<1>2. /\ kept \in SUBSET Nat /\ kept \in SUBSET (0..Len(text)) /\ kept # {}
      /\ i \in kept /\ j \in kept /\ \A k \in kept : i <= k /\ k <= j
  BY <1>1
<1> HIDE DEF kept
<1>3. Min(kept) = i /\ Max(kept) = j
  BY <1>1, <1>2, MinIs, MaxIs
<1>4. trim(text) = IF kept = {} THEN <<>> ELSE SubSeq(text, Min(kept), Max(kept))
  BY DEF trim, kept
<1>5. QED BY <1>2, <1>3, <1>4

\* trim() of a text of blanks.
LEMMA TrimBlanks ==
    ASSUME NEW text \in Text, \A k \in 1..Len(text) : text[k] = Blank
    PROVE  trim(text) = <<>>
<1>1. {k \in DOMAIN text : text[k] # Blank} = {}
  BY TextFacts
<1>2. QED BY <1>1 DEF trim

\* trim() of any text.
LEMMA TrimType ==
    ASSUME NEW text \in Text
    PROVE  trim(text) \in Text /\ Trimmed(trim(text))
<1> DEFINE kept == {k \in DOMAIN text : text[k] # Blank}
<1>1. Len(text) \in Nat /\ DOMAIN text = 1..Len(text)
  BY TextFacts
<1>2. CASE kept = {}
  <2>1. trim(text) = <<>>
    BY <1>2 DEF trim
  <2>2. QED BY <2>1, WordsEmpty DEF Trimmed
<1>3. CASE kept # {}
  <2>1. kept \in SUBSET Nat /\ kept \in SUBSET (0..Len(text))
    BY <1>1
  <2> DEFINE i == Min(kept)
             j == Max(kept)
  <2> HIDE DEF kept
  <2>2. /\ i \in kept /\ j \in kept /\ i <= j
    BY <1>1, <1>3, <2>1, MinFacts, MaxFacts
  <2> HIDE DEF i, j
  <2>3. i \in 1..Len(text) /\ j \in 1..Len(text) /\ text[i] # Blank /\ text[j] # Blank
    BY <1>1, <2>2 DEF kept
  <2> DEFINE part == SubSeq(text, i, j)
  <2>4. /\ part \in Text /\ Len(part) = j - i + 1
        /\ \A k \in 1..j-i+1 : part[k] = text[i + k - 1]
    BY <1>1, <2>2, <2>3, PartFacts
  <2> HIDE DEF part
  <2>5. /\ 1 \in 1..j-i+1 /\ i + 1 - 1 = i
        /\ j - i + 1 \in 1..j-i+1 /\ i + (j - i + 1) - 1 = j
    BY <1>1, <2>2, <2>3
  <2>6. part[1] = text[i] /\ part[Len(part)] = text[j]
    BY <2>4, <2>5
  <2>7. trim(text) = part
    BY <1>3 DEF trim, part, i, j, kept
  <2>8. QED BY <2>3, <2>4, <2>6, <2>7 DEF Trimmed
<1>4. QED BY <1>2, <1>3

\* A text without blanks around it is left alone.
LEMMA TrimSame ==
    ASSUME NEW text \in Text, Trimmed(text)
    PROVE  trim(text) = text
<1>1. Len(text) \in Nat
  BY TextFacts
<1>2. CASE text = <<>>
  <2>1. \A k \in 1..Len(text) : text[k] = Blank
    BY <1>2
  <2>2. QED BY <1>2, <2>1, TrimBlanks
<1>3. CASE text # <<>>
  <2>1. Len(text) # 0
    BY <1>3, TextFacts
  <2>2. trim(text) = SubSeq(text, 1, Len(text))
    <3>1. /\ 1 \in 1..Len(text) /\ Len(text) \in 1..Len(text)
          /\ \A k \in 1..Len(text) : 1 <= k /\ k <= Len(text)
      BY <1>1, <2>1
    <3>2. text[1] # Blank /\ text[Len(text)] # Blank
      BY <1>3 DEF Trimmed
    <3>3. QED BY <3>1, <3>2, TrimIs
  <2>3. SubSeq(text, 1, Len(text)) = text
    BY DEF Text
  <2>4. QED BY <2>2, <2>3
<1>4. QED BY <1>2, <1>3

\* Two texts joined and trimmed: the blank is gone when one is empty.
LEMMA TrimJoined ==
    ASSUME NEW a \in Text, NEW b \in Text, Trimmed(a), Trimmed(b)
    PROVE  trim(Joined(a, b)) = Glue(a, b)
<1> DEFINE both == Joined(a, b)
<1>1. /\ both \in Text /\ Len(both) = Len(a) + 1 + Len(b)
      /\ \A k \in 1..Len(a) : both[k] = a[k]
      /\ both[Len(a) + 1] = Blank
      /\ \A k \in 1..Len(b) : both[Len(a) + 1 + k] = b[k]
  BY JoinedFacts
<1>2. Len(a) \in Nat /\ Len(b) \in Nat /\ (a = <<>> <=> Len(a) = 0) /\ (b = <<>> <=> Len(b) = 0)
  BY TextFacts
<1>3. CASE a # <<>> /\ b # <<>>
  <2>1. 1 \in 1..Len(a) /\ Len(b) \in 1..Len(b)
    BY <1>2, <1>3
  <2>2. both[1] # Blank /\ both[Len(both)] # Blank
    BY <1>1, <1>3, <2>1 DEF Trimmed
  <2>3. trim(both) = both
    BY <1>1, <2>2, TrimSame DEF Trimmed
  <2>4. QED BY <1>3, <2>3 DEF Glue
<1>4. CASE a = <<>> /\ b = <<>>
  <2>1. \A k \in 1..Len(both) : both[k] = Blank
    <3> TAKE k \in 1..Len(both)
    <3>1. k = Len(a) + 1
      BY <1>1, <1>2, <1>4
    <3>2. QED BY <1>1, <3>1
  <2>2. trim(both) = <<>>
    BY <1>1, <2>1, TrimBlanks
  <2>3. QED BY <1>4, <2>2 DEF Glue
<1>5. CASE a # <<>> /\ b = <<>>
  <2> HIDE DEF both
  <2>1. 1 \in 1..Len(a) /\ Len(a) \in 1..Len(a) /\ 1 \in 1..Len(both) /\ Len(a) \in 1..Len(both) /\ Len(both) = Len(a) + 1
    BY <1>1, <1>2, <1>5
  <2>2. both[1] # Blank /\ both[Len(a)] # Blank
    BY <1>1, <1>5, <2>1 DEF Trimmed
  <2>3. \A k \in 1..Len(both) : both[k] # Blank => 1 <= k /\ k <= Len(a)
    <3> TAKE k \in 1..Len(both)
    <3>1. k = Len(a) + 1 \/ k <= Len(a)
      BY <1>2, <2>1
    <3>2. QED BY <1>1, <1>2, <3>1
  <2>4. trim(both) = SubSeq(both, 1, Len(a))
    BY <1>1, <2>1, <2>2, <2>3, TrimIs
  <2>5. SubSeq(both, 1, Len(a)) = a
    <3> DEFINE part == SubSeq(both, 1, Len(a))
    <3>1. part \in Text /\ Len(part) = Len(a) - 1 + 1 /\ \A k \in 1..Len(a)-1+1 : part[k] = both[1 + k - 1]
      BY <1>1, <1>2, <2>1, PartFacts
    <3> HIDE DEF part
    <3>2. Len(part) = Len(a) /\ \A k \in 1..Len(part) : part[k] = a[k]
      BY <1>1, <1>2, <3>1
    <3>3. part = a
      BY <3>1, <3>2, SameText
    <3>4. QED BY <3>3 DEF part
  <2>6. QED BY <1>5, <2>4, <2>5 DEF Glue, both
<1>6. CASE a = <<>> /\ b # <<>>
  <2> HIDE DEF both
  <2>1. /\ Len(a) = 0 /\ Len(both) = Len(b) + 1 /\ 1 \in 1..Len(b) /\ Len(b) \in 1..Len(b)
        /\ 2 \in 1..Len(both) /\ Len(both) \in 1..Len(both) /\ Len(both) \in Nat
    BY <1>1, <1>2, <1>6
  <2>2. \A k \in 1..Len(b) : both[k + 1] = b[k]
    <3> TAKE k \in 1..Len(b)
    <3>1. Len(a) + 1 + k = k + 1
      BY <2>1
    <3>2. QED BY <1>1, <3>1
  <2>3. both[2] # Blank /\ both[Len(both)] # Blank
    <3>1. 1 + 1 = 2
      OBVIOUS
    <3>2. both[2] = b[1]
      BY <2>1, <2>2, <3>1
    <3>3. both[Len(both)] = b[Len(b)]
      BY <2>1, <2>2
    <3>4. QED BY <1>6, <3>2, <3>3 DEF Trimmed
  <2>4. \A k \in 1..Len(both) : both[k] # Blank => 2 <= k /\ k <= Len(both)
    <3> TAKE k \in 1..Len(both)
    <3>1. k = 1 \/ 2 <= k
      BY <2>1
    <3>2. both[1] = Blank
      BY <1>1, <2>1
    <3>3. QED BY <2>1, <3>1, <3>2
  <2>5. trim(both) = SubSeq(both, 2, Len(both))
    BY <1>1, <2>1, <2>3, <2>4, TrimIs
  <2>6. SubSeq(both, 2, Len(both)) = b
    <3> DEFINE part == SubSeq(both, 2, Len(both))
    <3>1. part \in Text /\ Len(part) = Len(both) - 2 + 1 /\ \A k \in 1..Len(both)-2+1 : part[k] = both[2 + k - 1]
      BY <1>1, <2>1, PartFacts
    <3> HIDE DEF part
    <3>2. Len(part) = Len(b) /\ Len(both) - 2 + 1 = Len(b)
      BY <1>2, <2>1, <3>1
    <3>3. ASSUME NEW k \in 1..Len(b) PROVE part[k] = b[k]
      <4>1. 2 + k - 1 = k + 1
        BY <1>2
      <4>2. QED BY <2>2, <3>1, <3>2, <4>1
    <3>4. part = b
      BY <3>1, <3>2, <3>3, SameText
    <3>5. QED BY <3>4 DEF part
  <2>7. QED BY <1>6, <2>5, <2>6 DEF Glue, both
<1>7. QED BY <1>3, <1>4, <1>5, <1>6

\* Tidy texts, and the words the launcher adds.
LEMMA TidyTrimmed ==
    ASSUME NEW text, Tidy(text)
    PROVE  Trimmed(text)
BY DEF Tidy, Neat, Trimmed

\* The names have the same length, so none occurs within another argument.
LEMMA NamesLength ==
    ASSUME NEW name \in Names
    PROVE  Len(name) = 2
BY DEF Names, steam, console, targetfps, pingboostArg, sys_ticrate, condebug, conclearlog,
       pidfileArg, ignoresigint, nominidumps, game

\* A word with no room for another argument is tidy.
LEMMA TidyWord ==
    ASSUME NEW word \in Word, Len(word) <= 3
    PROVE  Tidy(word) /\ word \in Text
<1>1. word \in Text /\ word # <<>> /\ Len(word) \in Nat \ {0} /\ \A i \in 1..Len(word) : word[i] # Blank
  BY TextFacts DEF Word
<1>2. Neat(word)
  BY <1>1 DEF Neat
<1>3. ASSUME NEW name \in Names PROVE Apart(word, name)
  <2>1. name \in Text /\ Len(name) = 2
    BY NamesAreNames, NamesLength DEF Name
  <2>2. ASSUME NEW pos \in 1..Len(word), Found(word, pos, name)
        PROVE  pos = 1 /\ ~(pos + 1 + Len(name) <= Len(word))
    <3>1. pos + Len(name) <= Len(word)
      BY <1>1, <2>1, <2>2, FoundFacts
    <3>2. QED BY <1>1, <2>1, <3>1
  <2>3. QED BY <2>2 DEF Apart
<1>4. QED BY <1>1, <1>2, <1>3 DEF Tidy

\* The launcher's arguments as words.
LEMMA ArgWord ==
    ASSUME NEW name \in Names, NEW sign \in {Plus, Minus}
    PROVE  /\ sign \o name \in Word /\ sign \o name \in Text /\ sign \o name # <<>>
           /\ Tidy(sign \o name) /\ trim(sign \o name) = sign \o name
           /\ is_valid_argument(sign \o name) /\ remove_argument_prefix(sign \o name) = name
<1>1. name \in Name
  BY NamesAreNames
<1> DEFINE arg == sign \o name
<1>2. /\ arg \in Word /\ Len(arg) = 1 + Len(name)
      /\ is_valid_argument(arg) /\ remove_argument_prefix(arg) = name
  BY <1>1, PrefixFacts
<1> HIDE DEF arg
<1>3. Len(arg) <= 3
  <2>1. Len(name) = 2
    BY NamesLength
  <2>2. QED BY <1>2, <2>1
<1>4. Tidy(arg) /\ arg \in Text /\ arg # <<>>
  BY <1>2, <1>3, TidyWord DEF Word
<1>5. trim(arg) = arg
  BY <1>4, TidyTrimmed, TrimSame
<1>6. QED BY <1>2, <1>4, <1>5 DEF arg

\* The option the launcher adds.
LEMMA ZeroFacts == Zero \in Word /\ Zero \in Text /\ Tidy(Zero) /\ trim(Zero) = Zero /\ ~Signed(Zero)
<1>1. Zero \in Text /\ Len(Zero) = 1 /\ Zero[1] = "0" /\ Zero # <<>>
  BY LetterAssumption DEF Zero, Text
<1>2. Zero \in Word /\ ~Signed(Zero)
  <2>1. \A i \in 1..Len(Zero) : Zero[i] # Blank
    <3>1. \A i \in 1..Len(Zero) : i = 1
      BY <1>1
    <3>2. Zero[1] # Blank
      BY <1>1 DEF Blank
    <3>3. QED BY <3>1, <3>2
  <2>2. ~Signed(Zero)
    BY <1>1 DEF Signed
  <2>3. QED BY <1>1, <2>1, <2>2 DEF Word
<1>3. Tidy(Zero)
  BY <1>1, <1>2, TidyWord
<1>4. trim(Zero) = Zero
  BY <1>1, <1>3, TidyTrimmed, TrimSame
<1>5. QED BY <1>1, <1>2, <1>3, <1>4

\* trim() of nothing.
LEMMA TrimEmpty == trim(<<>>) = <<>>
BY WordsEmpty, TrimBlanks

\* remove() of any text is a text.
LEMMA RemoveType ==
    ASSUME NEW text \in Text, NEW arg, remove_argument_prefix(arg) \in Text
    PROVE  remove(text, arg) \in Text
<1>1. \A s \in Text : s \in Text => RemoveLast(s, remove_argument_prefix(arg)) \in Text
  BY RemoveLastType
<1>2. QED BY <1>1, RemoveKeeps

\* push_front() of one of the launcher's arguments, as the handlers call it.
LEMMA PushFrontIs ==
    ASSUME NEW text, NEW name \in Names, NEW sign \in {Plus, Minus}
    PROVE  push_front(text, sign \o name, <<>>) = trim(Joined(sign \o name, remove(text, sign \o name)))
<1> DEFINE arg == sign \o name
<1>1. trim(arg) = arg /\ is_valid_argument(arg)
  BY ArgWord
<1> HIDE DEF arg
<1>2. WithOption(arg, trim(<<>>)) = arg
  BY TrimEmpty DEF WithOption
<1>3. push_front(text, arg, <<>>) = trim(Joined(arg, remove(text, arg)))
  <2>1. push_front(text, arg, <<>>) = trim(WithOption(arg, trim(<<>>)) \o <<Blank>> \o remove(text, arg))
    BY <1>1 DEF push_front
  <2>2. WithOption(arg, trim(<<>>)) \o <<Blank>> \o remove(text, arg) = Joined(arg, remove(text, arg))
    BY <1>2, Zenon DEF Joined
  <2>3. QED BY <2>1, <2>2, Zenon
<1>4. QED BY <1>3 DEF arg

\* An argument without an option becomes the first of the words.
LEMMA PushFrontWords ==
    ASSUME NEW text, Tidy(text), NEW name \in Names, NEW sign \in {Plus, Minus}
    PROVE  /\ Tidy(push_front(text, sign \o name, <<>>))
           /\ Words(push_front(text, sign \o name, <<>>)) = <<sign \o name>> \o Without(Words(text), name)
<1> DEFINE arg == sign \o name
           rest == remove(text, arg)
           pushed == push_front(text, arg, <<>>)
<1>1. arg \in Word /\ arg \in Text /\ Tidy(arg) /\ remove_argument_prefix(arg) = name
  BY ArgWord
<1>2. pushed = trim(Joined(arg, rest))
  BY PushFrontIs
<1> HIDE DEF arg, pushed
<1>3. Tidy(rest) /\ rest \in Text /\ Words(rest) = Without(Words(text), name)
  BY <1>1, RemoveTakesWords
<1> HIDE DEF rest
<1>4. pushed = Glue(arg, rest)
  <2>1. trim(Joined(arg, rest)) = Glue(arg, rest)
    BY <1>1, <1>3, TidyTrimmed, TrimJoined
  <2>2. QED BY <1>2, <2>1, Zenon
<1>5. Tidy(pushed)
  BY <1>1, <1>3, <1>4, GlueTidy
<1>6. Words(pushed) = <<arg>> \o Without(Words(text), name)
  <2>1. Words(Glue(arg, rest)) = Words(arg) \o Words(rest) /\ Words(arg) = <<arg>>
    BY <1>1, <1>3, GlueWords, WordsOfWord
  <2>2. QED BY <1>3, <1>4, <2>1, Zenon
<1>7. QED BY <1>5, <1>6 DEF pushed, arg

\* Two words in a row.
LEMMA PairFacts ==
    ASSUME NEW C, NEW x \in C, NEW y \in C
    PROVE  <<x>> \o <<y>> = <<x, y>>
<1> DEFINE joined == <<x>> \o <<y>>
           pair == <<x, y>>
<1>1. joined \in Seq(C) /\ Len(joined) = 2 /\ joined[1] = x /\ joined[2] = y
  OBVIOUS
<1>2. pair \in Seq(C) /\ Len(pair) = 2 /\ pair[1] = x /\ pair[2] = y
  OBVIOUS
<1> HIDE DEF joined, pair
<1>3. joined = pair
  BY <1>1, <1>2
<1>4. QED BY <1>3 DEF joined, pair

\* push_back() as the handler of -targetfps calls it.
LEMMA PushBackIs ==
    ASSUME NEW text
    PROVE  push_back(text, Plus \o sys_ticrate, Zero) =
               trim(Joined(remove(text, Plus \o sys_ticrate), Joined(Plus \o sys_ticrate, Zero)))
<1> DEFINE arg == Plus \o sys_ticrate
<1>1. trim(arg) = arg /\ is_valid_argument(arg)
  BY ArgWord DEF Names
<1> HIDE DEF arg
<1>2. WithOption(arg, trim(Zero)) = Joined(arg, Zero)
  <2>1. trim(Zero) = Zero /\ Zero # <<>>
    BY ZeroFacts DEF Word
  <2>2. WithOption(arg, Zero) = Joined(arg, Zero)
    BY <2>1, Zenon DEF WithOption, Joined
  <2>3. QED BY <2>1, <2>2, Zenon
<1>3. push_back(text, arg, Zero) = trim(remove(text, arg) \o <<Blank>> \o WithOption(arg, trim(Zero)))
  BY <1>1 DEF push_back
<1>4. remove(text, arg) \o <<Blank>> \o WithOption(arg, trim(Zero)) = Joined(remove(text, arg), Joined(arg, Zero))
  <2>1. Joined(remove(text, arg), Joined(arg, Zero)) = remove(text, arg) \o <<Blank>> \o Joined(arg, Zero)
    BY Zenon DEF Joined
  <2>2. QED BY <1>2, <2>1, Zenon
<1>5. QED BY <1>3, <1>4, Zenon DEF arg

\* An argument with its option becomes the last of the words.
LEMMA PushBackWords ==
    ASSUME NEW text, Tidy(text)
    PROVE  /\ Tidy(push_back(text, Plus \o sys_ticrate, Zero))
           /\ Words(push_back(text, Plus \o sys_ticrate, Zero)) =
                  Without(Words(text), sys_ticrate) \o <<Plus \o sys_ticrate, Zero>>
<1> DEFINE arg == Plus \o sys_ticrate
           rest == remove(text, arg)
           pushed == push_back(text, arg, Zero)
<1>1. arg \in Word /\ arg \in Text /\ arg # <<>> /\ Tidy(arg) /\ remove_argument_prefix(arg) = sys_ticrate /\ sys_ticrate \in Names
  BY ArgWord DEF Names
<1>2. pushed = trim(Joined(rest, Joined(arg, Zero)))
  BY PushBackIs
<1> HIDE DEF arg, pushed
<1>3. Tidy(rest) /\ rest \in Text /\ Words(rest) = Without(Words(text), sys_ticrate)
  BY <1>1, RemoveTakesWords
<1> HIDE DEF rest
<1> DEFINE last == Glue(arg, Zero)
<1>4. last = Joined(arg, Zero) /\ last \in Text /\ Tidy(last) /\ Words(last) = <<arg, Zero>>
  <2>1. last = Joined(arg, Zero)
    BY <1>1 DEF Glue, Zero
  <2>2. last \in Text /\ Tidy(last)
    BY <1>1, ZeroFacts, GlueFacts, GlueTidy
  <2>3. Words(last) = Words(arg) \o Words(Zero) /\ Words(arg) = <<arg>> /\ Words(Zero) = <<Zero>>
    BY <1>1, ZeroFacts, GlueWords, WordsOfWord
  <2> HIDE DEF last
  <2>4. <<arg>> \o <<Zero>> = <<arg, Zero>>
    BY <1>1, ZeroFacts, PairFacts
  <2>5. Words(last) = <<arg, Zero>>
    BY <2>3, <2>4, Zenon
  <2>6. QED BY <2>1, <2>2, <2>5
<1> HIDE DEF last
<1>5. pushed = Glue(rest, last)
  <2>1. trim(Joined(rest, last)) = Glue(rest, last)
    BY <1>3, <1>4, TidyTrimmed, TrimJoined
  <2>2. QED BY <1>2, <1>4, <2>1, Zenon
<1>6. Tidy(pushed)
  BY <1>3, <1>4, <1>5, GlueTidy
<1>7. Words(pushed) = Without(Words(text), sys_ticrate) \o <<arg, Zero>>
  <2>1. Words(Glue(rest, last)) = Words(rest) \o Words(last)
    BY <1>3, <1>4, GlueWords
  <2>2. QED BY <1>3, <1>4, <1>5, <2>1, Zenon
<1>8. QED BY <1>6, <1>7 DEF pushed, arg

\* Whatever the text, what the handlers make of it is one.
LEMMA PushTypes ==
    ASSUME NEW text \in Text
    PROVE  /\ \A name \in Names : push_front(text, Minus \o name, <<>>) \in Text
           /\ push_back(text, Plus \o sys_ticrate, Zero) \in Text
<1>1. ASSUME NEW name \in Names, NEW sign \in {Plus, Minus} PROVE remove(text, sign \o name) \in Text
  <2>1. remove_argument_prefix(sign \o name) = name /\ name \in Text
    BY ArgWord, NamesAreNames DEF Name
  <2>2. remove_argument_prefix(sign \o name) \in Text
    BY <2>1
  <2>3. QED BY <2>2, RemoveType
<1>2. ASSUME NEW name \in Names PROVE push_front(text, Minus \o name, <<>>) \in Text
  <2>1. Minus \o name \in Text
    BY ArgWord
  <2>2. Joined(Minus \o name, remove(text, Minus \o name)) \in Text
    BY <1>1, <2>1, JoinedFacts
  <2>3. QED BY <2>2, PushFrontIs, TrimType
<1>3. push_back(text, Plus \o sys_ticrate, Zero) \in Text
  <2>1. sys_ticrate \in Names
    BY DEF Names
  <2>2. Plus \o sys_ticrate \in Text
    BY <2>1, ArgWord
  <2>3. Joined(Plus \o sys_ticrate, Zero) \in Text
    BY <2>2, ZeroFacts, JoinedFacts
  <2>4. Joined(remove(text, Plus \o sys_ticrate), Joined(Plus \o sys_ticrate, Zero)) \in Text
    BY <1>1, <2>1, <2>3, JoinedFacts
  <2>5. QED BY <2>4, PushBackIs, TrimType
<1>4. QED BY <1>2, <1>3

-----------------------------------------------------------------------------
(* Reading the command line.                                               *)

\* Texts in a row are a text.
LEMMA FlattenType ==
    ASSUME NEW seqs \in Seq(Text)
    PROVE  FlattenSeq(seqs) \in Text
<1> DEFINE n == Len(seqs)
           R(flatten) == [i \in 1..n |-> IF i = 1 THEN seqs[i] ELSE flatten[i - 1] \o seqs[i]]
           g == CHOOSE flatten : flatten = R(flatten)
<1>1. n \in Nat /\ \A i \in 1..n : seqs[i] \in Text
  OBVIOUS
<1>2. CASE n = 0
  <2>1. FlattenSeq(seqs) = seqs
    BY <1>2 DEF FlattenSeq
  <2>2. seqs = <<>>
    BY <1>2
  <2>3. QED BY <2>1, <2>2, WordsEmpty
<1>3. CASE n # 0
  <2>1. FlattenSeq(seqs) = g[n]
    BY <1>3 DEF FlattenSeq
  <2> HIDE DEF n
  <2> DEFINE step == [x \in (1..n) \X Text |-> x[2] \o seqs[x[1]]]
  <2>2. step \in [(1..n) \X Text -> Text]
    <3>1. \A x \in (1..n) \X Text : x[2] \o seqs[x[1]] \in Text
      <4> TAKE x \in (1..n) \X Text
      <4>1. x[2] \in Text /\ seqs[x[1]] \in Text
        BY <1>1
      <4>2. QED BY <4>1, ConcatFacts
    <3>2. QED BY <3>1
  <2>3. \A i \in 1..n, text \in Text : step[<<i, text>>] = text \o seqs[i]
    OBVIOUS
  <2> HIDE DEF step
  <2>4. PICK f : IsAlong(n, Text, <<>>, step, f)
    BY <1>1, <2>2, WordsEmpty, FunctionAlong
  <2>5. /\ f \in [0..n -> Text] /\ f[0] = <<>>
        /\ \A i \in 1..n : f[i] = f[i - 1] \o seqs[i]
    <3>1. f \in [0..n -> Text] /\ f[0] = <<>> /\ \A i \in 1..n : f[i] = step[<<i, f[i - 1]>>]
      BY <2>4 DEF IsAlong
    <3>2. \A i \in 1..n : i - 1 \in 0..n
      BY <1>1
    <3>3. \A i \in 1..n : f[i - 1] \in Text
      BY <3>1, <3>2
    <3>4. QED BY <2>3, <3>1, <3>3
  <2> DEFINE h == [i \in 1..n |-> f[i]]
  <2>6. \A i \in 1..n : h[i] = R(h)[i]
    <3> SUFFICES ASSUME NEW i \in 1..n PROVE f[i] = IF i = 1 THEN seqs[i] ELSE h[i - 1] \o seqs[i]
      OBVIOUS
    <3>1. f[i] = f[i - 1] \o seqs[i] /\ seqs[i] \in Text
      BY <1>1, <2>5
    <3>2. CASE i = 1
      <4>1. f[i - 1] = <<>>
        BY <2>5, <3>2
      <4>2. \A s \in Text : <<>> \o s = s
        BY DEF Text
      <4>3. <<>> \o seqs[i] = seqs[i]
        BY <3>1, <4>2
      <4>4. f[i] = seqs[i]
        BY <3>1, <4>1, <4>3, Zenon
      <4>5. QED BY <3>2, <4>4
    <3>3. CASE i # 1
      <4>1. i - 1 \in 1..n
        BY <1>1, <3>3
      <4>2. h[i - 1] = f[i - 1]
        BY <4>1
      <4> HIDE DEF h
      <4>3. QED BY <3>1, <3>3, <4>2
    <3>4. QED BY <3>2, <3>3
  <2>7. h = R(h)
    BY <2>6
  <2>8. g = R(g)
    BY <2>7
  <2> HIDE DEF g, h
  <2>9. \A i \in 1..n : g[i] = IF i = 1 THEN seqs[i] ELSE g[i - 1] \o seqs[i]
    BY <2>8
  <2> HIDE DEF R
  <2> DEFINE S == {k \in Nat : k + 1 <= n => g[k + 1] \in Text}
  <2>10. 0 \in S
    BY <1>1, <2>9
  <2>11. ASSUME NEW k \in Nat, k \in S PROVE k + 1 \in S
    <3> SUFFICES ASSUME (k + 1) + 1 <= n PROVE g[(k + 1) + 1] \in Text
      OBVIOUS
    <3>1. k + 1 <= n /\ (k + 1) + 1 \in 1..n /\ ((k + 1) + 1) - 1 = k + 1 /\ (k + 1) + 1 # 1
      BY <1>1
    <3>2. g[k + 1] \in Text
      BY <2>11, <3>1
    <3>3. g[(k + 1) + 1] = g[k + 1] \o seqs[(k + 1) + 1]
      BY <2>9, <3>1
    <3>4. QED BY <1>1, <3>1, <3>2, <3>3, ConcatFacts
  <2> HIDE DEF S
  <2>12. \A k \in Nat : k \in S
    BY <2>10, <2>11, Induction
  <2>13. n - 1 \in Nat /\ (n - 1) + 1 = n
    BY <1>1, <1>3
  <2>14. g[n] \in Text
    BY <2>12, <2>13 DEF S
  <2>15. QED BY <2>1, <2>14
<1>4. QED BY <1>2, <1>3

\* What a word stands for at a depth, the files one deeper being known.
PieceOf(depth, previous, word) ==
    IF word = <<>> \/ (Len(word) = 1 /\ is_prefix_char(word[1])) THEN <<>>
    ELSE IF word[1] # "@" THEN word \o <<Blank>>
    ELSE IF depth = 0 \/ Tail(word) \notin DOMAIN FileWords THEN <<>>
    ELSE previous[FileWords[Tail(word)]] \o <<Blank>>

\* What the words stand for at a depth.
Level(depth, previous) ==
    [words \in Seq(Text) |-> trim(FlattenSeq([i \in DOMAIN words |-> PieceOf(depth, previous, words[i])]))]

TrimmedText == {text \in Text : Trimmed(text)}

\* The text of each sequence of words is trimmed.
LEMMA LevelType ==
    ASSUME NEW depth \in Nat, NEW previous, depth # 0 => previous \in [Seq(Text) -> TrimmedText]
    PROVE  Level(depth, previous) \in [Seq(Text) -> TrimmedText]
<1>1. <<Blank>> \in Text
  BY BlankIsChar
<1>2. ASSUME NEW word \in Text PROVE PieceOf(depth, previous, word) \in Text
  <2>1. <<>> \in Text
    BY WordsEmpty
  <2>2. word \o <<Blank>> \in Text
    BY <1>1, ConcatFacts
  <2>3. ASSUME depth # 0, Tail(word) \in DOMAIN FileWords
        PROVE  previous[FileWords[Tail(word)]] \o <<Blank>> \in Text
    <3>1. FileWords[Tail(word)] \in Seq(Text)
      BY <2>3, FileWordsAssumption
    <3>2. previous[FileWords[Tail(word)]] \in Text
      BY <2>3, <3>1 DEF TrimmedText
    <3>3. QED BY <1>1, <3>2, ConcatFacts
  <2>4. QED BY <2>1, <2>2, <2>3 DEF PieceOf
<1>3. ASSUME NEW words \in Seq(Text)
      PROVE  trim(FlattenSeq([i \in DOMAIN words |-> PieceOf(depth, previous, words[i])])) \in TrimmedText
  <2> DEFINE pieces == [i \in DOMAIN words |-> PieceOf(depth, previous, words[i])]
  <2>1. pieces \in Seq(Text)
    <3>1. Len(words) \in Nat /\ DOMAIN words = 1..Len(words) /\ \A i \in DOMAIN words : words[i] \in Text
      OBVIOUS
    <3>2. \A i \in DOMAIN words : PieceOf(depth, previous, words[i]) \in Text
      BY <1>2, <3>1
    <3>3. pieces \in [1..Len(words) -> Text]
      BY <3>1, <3>2
    <3>4. QED BY <3>1, <3>3
  <2> HIDE DEF pieces
  <2>2. trim(FlattenSeq(pieces)) \in Text /\ Trimmed(trim(FlattenSeq(pieces)))
    BY <2>1, FlattenType, TrimType
  <2>3. QED BY <2>2 DEF pieces, TrimmedText
<1>4. QED BY <1>3 DEF Level

\* from_command_line() of any words is a text without blanks around it.
LEMMA CommandLineType ==
    ASSUME NEW words \in Seq(Text)
    PROVE  from_command_line(words) \in Text /\ Trimmed(from_command_line(words))
<1> DEFINE S == [Seq(Text) -> TrimmedText]
           R(built) == [depth \in 0..Nesting |->
               [given \in Seq(Text) |->
                   trim(FlattenSeq([i \in DOMAIN given |-> PieceOf(depth, built[depth - 1], given[i])]))]]
           g == CHOOSE built : built = R(built)
           base == Level(0, <<>>)
           step == [x \in (1..Nesting) \X S |-> Level(x[1], x[2])]
<1>1. Nesting \in Nat
  BY NestingAssumption
<1>2. from_command_line(words) = g[Nesting][words]
  BY DEF from_command_line, build_arguments_string, PieceOf
<1>3. base \in S
  BY LevelType
<1>4. step \in [(1..Nesting) \X S -> S]
  <2>1. \A x \in (1..Nesting) \X S : Level(x[1], x[2]) \in S
    <3> TAKE x \in (1..Nesting) \X S
    <3>1. x[1] \in Nat /\ x[2] \in S
      OBVIOUS
    <3>2. QED BY <3>1, LevelType
  <2>2. QED BY <2>1
<1>5. \A i \in 1..Nesting, previous \in S : step[<<i, previous>>] = Level(i, previous)
  OBVIOUS
<1> HIDE DEF S, base, step
<1>6. PICK f : IsAlong(Nesting, S, base, step, f)
  BY <1>1, <1>3, <1>4, FunctionAlong
<1>7. /\ f \in [0..Nesting -> S] /\ f[0] = base
      /\ \A i \in 1..Nesting : f[i] = Level(i, f[i - 1])
  <2>1. f \in [0..Nesting -> S] /\ f[0] = base /\ \A i \in 1..Nesting : f[i] = step[<<i, f[i - 1]>>]
    BY <1>6 DEF IsAlong
  <2>2. \A i \in 1..Nesting : i - 1 \in 0..Nesting
    BY <1>1
  <2>3. \A i \in 1..Nesting : f[i - 1] \in S
    BY <2>1, <2>2
  <2>4. QED BY <1>5, <2>1, <2>3
<1>8. \A any : Level(0, any) = base
  BY DEF Level, PieceOf, base
<1>9. f = R(f)
  <2>1. ASSUME NEW depth \in 0..Nesting PROVE f[depth] = R(f)[depth]
    <3>1. R(f)[depth] = Level(depth, f[depth - 1])
      BY DEF Level
    <3>2. CASE depth = 0
      <4>1. f[0] = base /\ Level(0, f[0 - 1]) = base
        BY <1>7, <1>8
      <4> HIDE DEF R
      <4>2. QED BY <3>1, <3>2, <4>1, Zenon
    <3>3. CASE depth # 0
      <4>1. depth \in 1..Nesting
        BY <1>1, <3>3
      <4> HIDE DEF R
      <4>2. QED BY <1>7, <3>1, <4>1
    <3>4. QED BY <3>2, <3>3
  <2>2. DOMAIN f = 0..Nesting /\ f = [depth \in 0..Nesting |-> f[depth]]
    BY <1>7
  <2>3. QED BY <2>1, <2>2
<1>10. g = R(g)
  BY <1>9
<1> HIDE DEF g
<1>11. \A depth \in 0..Nesting : g[depth] = Level(depth, g[depth - 1])
  <2> TAKE depth \in 0..Nesting
  <2>1. g[depth] = R(g)[depth]
    BY <1>10
  <2>2. R(g)[depth] = Level(depth, g[depth - 1])
    BY DEF Level
  <2> HIDE DEF R
  <2>3. QED BY <2>1, <2>2
<1> HIDE DEF R
<1> DEFINE K == {k \in Nat : k <= Nesting => g[k] \in S}
<1>12. 0 \in K
  <2>1. 0 \in 0..Nesting
    BY <1>1
  <2>2. g[0] = Level(0, g[0 - 1])
    BY <1>11, <2>1
  <2>3. g[0] = base
    BY <1>8, <2>2, Zenon
  <2>4. QED BY <1>3, <2>3
<1>13. ASSUME NEW k \in Nat, k \in K PROVE k + 1 \in K
  <2> SUFFICES ASSUME k + 1 <= Nesting PROVE g[k + 1] \in S
    OBVIOUS
  <2>1. k <= Nesting /\ k + 1 \in 0..Nesting /\ k + 1 \in Nat /\ (k + 1) - 1 = k
    BY <1>1
  <2>2. g[k] \in S /\ g[k + 1] = Level(k + 1, g[k])
    BY <1>11, <1>13, <2>1
  <2>3. QED BY <2>1, <2>2, LevelType DEF S
<1> HIDE DEF K
<1>14. \A k \in Nat : k \in K
  BY <1>12, <1>13, Induction
<1>15. g[Nesting] \in S
  BY <1>1, <1>14 DEF K
<1>16. QED BY <1>2, <1>15 DEF S, TrimmedText

-----------------------------------------------------------------------------
(* The words the handlers make, stage by stage.                            *)

\* The names that are looked for after others were taken.
LEMMA NamesDiffer ==
    /\ {steam, console, targetfps, pingboostArg, sys_ticrate, condebug, conclearlog, pidfileArg} \subseteq Names
    /\ steam # console
    /\ \A name \in {targetfps, pingboostArg, sys_ticrate, condebug, conclearlog, pidfileArg} : name # steam /\ name # console
    /\ \A name \in {targetfps, condebug, conclearlog, pidfileArg} : name # pingboostArg /\ name # sys_ticrate
    /\ \A name \in {targetfps, pingboostArg, sys_ticrate, conclearlog, pidfileArg} : name # condebug
    /\ pingboostArg # sys_ticrate
<1>1. {steam, console, targetfps, pingboostArg, sys_ticrate, condebug, conclearlog, pidfileArg} \subseteq Names
  BY DEF Names
<1>2. /\ steam[1] = "s" /\ console[1] = "c" /\ targetfps[1] = "f" /\ pingboostArg[1] = "p" /\ sys_ticrate[1] = "s"
      /\ condebug[1] = "d" /\ conclearlog[1] = "c" /\ pidfileArg[1] = "p"
  BY DEF steam, console, targetfps, pingboostArg, sys_ticrate, condebug, conclearlog, pidfileArg
<1>3. /\ steam[2] = "t" /\ console[2] = "o" /\ pingboostArg[2] = "b" /\ sys_ticrate[2] = "y"
      /\ conclearlog[2] = "l" /\ pidfileArg[2] = "i"
  BY DEF steam, console, pingboostArg, sys_ticrate, conclearlog, pidfileArg
<1>4. QED BY <1>1, <1>2, <1>3

\* An argument put before the words, those of its name taken.
LEMMA PushedFacts ==
    ASSUME NEW words \in Seq(Text), NEW name \in Names, NEW other \in Names, other # name
    PROVE  /\ <<Minus \o name>> \o Without(words, name) \in Seq(Text)
           /\ Has(<<Minus \o name>> \o Without(words, name), other) <=> Has(words, other)
           /\ OneOption(words, name) =>
                /\ OptionOf(<<Minus \o name>> \o Without(words, name), other) = OptionOf(words, other)
                /\ OneOption(words, other) => OneOption(<<Minus \o name>> \o Without(words, name), other)
<1> DEFINE arg == Minus \o name
           left == Without(words, name)
<1>1. name \in Text /\ other \in Text
  BY NamesAreNames DEF Name
<1>2. arg \in Text /\ IsArg(arg, name)
  BY ArgWord DEF IsArg
<1>3. ~IsArg(arg, other)
  BY <1>1, <1>2, ArgHasOneName
<1>4. left \in Seq(Text) /\ (Has(left, other) <=> Has(words, other))
  BY <1>1, WithoutType, HasWithout
<1>5. OneOption(words, name) => OptionOf(left, other) = OptionOf(words, other)
  BY <1>1, OptionWithout
<1>6. OneOption(words, name) /\ OneOption(words, other) => OneOption(left, other)
  BY <1>1, OneOptionWithout
<1> HIDE DEF arg, left
<1> DEFINE pushed == <<arg>> \o left
<1>7. pushed \in Seq(Text) /\ (Has(pushed, other) <=> Has(left, other))
  BY <1>2, <1>3, <1>4, ConsFacts, HasCons
<1>8. OptionOf(pushed, other) = OptionOf(left, other)
  <2>1. OptionOf(pushed, other) =
          IF Has(left, other) THEN OptionOf(left, other)
          ELSE IF IsArg(arg, other) /\ BeginsWithOption(left) THEN Head(left) ELSE NoOption
    BY <1>1, <1>2, <1>4, OptionOfCons
  <2>2. ~Has(left, other) => OptionOf(left, other) = NoOption
    BY OptionOfNone
  <2>3. QED BY <1>3, <2>1, <2>2
<1>9. OneOption(pushed, other) <=> OneOption(left, other)
  BY <1>2, <1>3, <1>4, OneOptionCons
<1> HIDE DEF pushed
<1>10. QED BY <1>4, <1>5, <1>6, <1>7, <1>8, <1>9 DEF pushed, arg, left

\* The argument and the option put behind the words.
LEMMA EndFacts ==
    LET end == <<Plus \o sys_ticrate, Zero>> IN
    /\ end \in Seq(Text) /\ <<Zero>> \in Seq(Text)
    /\ end = <<Plus \o sys_ticrate>> \o <<Zero>>
    /\ ~BeginsWithOption(end) /\ BeginsWithOption(<<Zero>>) /\ Head(<<Zero>>) = Zero
    /\ \A name \in Names : /\ ~Has(<<Zero>>, name)
                           /\ Has(end, name) <=> name = sys_ticrate
                           /\ OneOption(end, name)
<1> DEFINE arg == Plus \o sys_ticrate
           end == <<arg, Zero>>
<1>1. arg \in Text /\ IsArg(arg, sys_ticrate) /\ sys_ticrate \in Text /\ sys_ticrate \in Names
  BY ArgWord, NamesAreNames DEF IsArg, Names, Name
<1>2. Zero \in Text /\ ~Signed(Zero)
  BY ZeroFacts
<1> HIDE DEF arg
<1>3. end \in Seq(Text) /\ <<Zero>> \in Seq(Text) /\ end = <<arg>> \o <<Zero>> /\ Len(end) = 2
  BY <1>1, <1>2, PairFacts
<1>4. BeginsWithOption(<<Zero>>) /\ Head(<<Zero>>) = Zero
  BY <1>2 DEF BeginsWithOption
<1>5. ~BeginsWithOption(end)
  <2>1. Signed(arg)
    BY <1>1, ArgIsSigned
  <2>2. Head(end) = arg
    OBVIOUS
  <2>3. QED BY <2>1, <2>2 DEF BeginsWithOption
<1>6. ASSUME NEW name \in Names
      PROVE  ~Has(<<Zero>>, name) /\ (Has(end, name) <=> name = sys_ticrate) /\ OneOption(end, name)
  <2>1. name \in Text
    BY NamesAreNames DEF Name
  <2>2. ~IsArg(Zero, name)
    BY <1>2, <2>1, ArgIsSigned
  <2>3. ~Has(<<Zero>>, name)
    BY <2>2, HasOne
  <2>4. Has(<<arg>> \o <<Zero>>, name) <=> IsArg(arg, name) \/ Has(<<Zero>>, name)
    BY <1>1, <1>3, HasCons
  <2>5. IsArg(arg, name) <=> name = sys_ticrate
    BY <1>1, <2>1, ArgHasOneName
  <2>6. OneOption(end, name)
    BY <1>3 DEF OneOption
  <2> HIDE DEF end
  <2>7. Has(end, name) <=> name = sys_ticrate
    BY <1>3, <2>3, <2>4, <2>5
  <2>8. QED BY <2>3, <2>6, <2>7
<1>7. QED BY <1>3, <1>4, <1>5, <1>6 DEF arg

\* No argument of the launcher with two options, name by name.
LEMMA OneOptionEachFacts ==
    ASSUME NEW words \in Seq(Text), OneOptionEach(words), NEW name \in Names
    PROVE  OneOption(words, name)
BY DEF OneOptionEach, OneOption

\* -steam and -console put before the words.
LEMMA ConsoledFacts ==
    ASSUME NEW given \in Seq(Text)
    PROVE  /\ Steamed(given) \in Seq(Text) /\ Consoled(given) \in Seq(Text)
           /\ \A name \in Names \ {steam, console} :
                /\ Has(Consoled(given), name) <=> Has(given, name)
                /\ OneOptionEach(given) =>
                     OptionOf(Consoled(given), name) = OptionOf(given, name) /\ OneOption(Consoled(given), name)
<1> DEFINE steamed == Steamed(given)
<1>1. steam \in Names /\ console \in Names /\ steam # console
  BY NamesDiffer
<1>2. /\ steamed \in Seq(Text)
      /\ \A name \in Names \ {steam} :
           /\ Has(steamed, name) <=> Has(given, name)
           /\ OneOptionEach(given) => OptionOf(steamed, name) = OptionOf(given, name) /\ OneOption(steamed, name)
  BY <1>1, PushedFacts, OneOptionEachFacts DEF Steamed
<1> HIDE DEF steamed
<1> DEFINE consoled == <<Minus \o console>> \o Without(steamed, console)
<1>3. /\ consoled \in Seq(Text)
      /\ \A name \in Names \ {steam, console} :
           /\ Has(consoled, name) <=> Has(given, name)
           /\ OneOptionEach(given) => OptionOf(consoled, name) = OptionOf(given, name) /\ OneOption(consoled, name)
  <2>1. console \in Names \ {steam}
    BY <1>1
  <2>2. OneOptionEach(given) => OneOption(steamed, console)
    BY <1>2, <2>1
  <2>3. consoled \in Seq(Text)
    <3>1. steam # console /\ steam \in Names
      BY <1>1
    <3>2. QED BY <1>1, <1>2, <3>1, PushedFacts
  <2>4. ASSUME NEW name \in Names \ {steam, console}
        PROVE  /\ Has(consoled, name) <=> Has(given, name)
               /\ OneOptionEach(given) => OptionOf(consoled, name) = OptionOf(given, name) /\ OneOption(consoled, name)
    <3>1. name \in Names /\ name # console /\ name \in Names \ {steam}
      OBVIOUS
    <3>2. /\ Has(consoled, name) <=> Has(steamed, name)
          /\ OneOption(steamed, console) =>
                /\ OptionOf(consoled, name) = OptionOf(steamed, name)
                /\ OneOption(steamed, name) => OneOption(consoled, name)
      BY <1>1, <1>2, <3>1, PushedFacts
    <3> HIDE DEF consoled
    <3>3. QED BY <1>2, <2>2, <3>1, <3>2
  <2>5. QED BY <2>3, <2>4
<1> HIDE DEF consoled
<1>4. Consoled(given) = IF windows THEN consoled ELSE steamed
  BY DEF Consoled, consoled, steamed
<1>5. CASE windows
  <2>1. Consoled(given) = consoled
    BY <1>4, <1>5
  <2>2. QED BY <1>2, <1>3, <2>1 DEF steamed
<1>6. CASE ~windows
  <2>1. Consoled(given) = steamed
    BY <1>4, <1>6
  <2>2. QED BY <1>2, <2>1 DEF steamed
<1>7. QED BY <1>5, <1>6

\* The launcher's pingboost and sys_ticrate replace the operator's when the loop
\* is to pace itself.
LEMMA PacedFacts ==
    ASSUME NEW given \in Seq(Text)
    PROVE  /\ Paced(given) \in Seq(Text)
           /\ \A name \in {targetfps, condebug, conclearlog, pidfileArg} :
                /\ Has(Paced(given), name) <=> Has(given, name)
                /\ OneOptionEach(given) =>
                     OptionOf(Paced(given), name) = OptionOf(given, name) /\ OneOption(Paced(given), name)
           /\ Has(Paced(given), pingboostArg) <=> Has(given, pingboostArg) /\ ~Has(given, targetfps)
           /\ OneOptionEach(given) /\ ~Has(given, targetfps) =>
                OptionOf(Paced(given), pingboostArg) = OptionOf(given, pingboostArg)
<1> DEFINE consoled == Consoled(given)
           rest == Without(Without(consoled, pingboostArg), sys_ticrate)
           end == <<Plus \o sys_ticrate, Zero>>
           Late4 == {targetfps, condebug, conclearlog, pidfileArg}
<1>1. /\ consoled \in Seq(Text)
      /\ \A name \in Names \ {steam, console} :
           /\ Has(consoled, name) <=> Has(given, name)
           /\ OneOptionEach(given) => OptionOf(consoled, name) = OptionOf(given, name) /\ OneOption(consoled, name)
  BY ConsoledFacts
<1> HIDE DEF consoled
<1>2. /\ Late4 \subseteq Names \ {steam, console} /\ pingboostArg \in Names \ {steam, console}
      /\ sys_ticrate \in Names \ {steam, console} /\ pingboostArg # sys_ticrate
      /\ \A name \in Late4 : name # pingboostArg /\ name # sys_ticrate
  BY NamesDiffer
<1>3. \A name \in Names : name \in Text
  BY NamesAreNames DEF Name
<1> HIDE DEF Late4
<1>4. CASE ~Has(given, targetfps)
  <2>1. Paced(given) = consoled
    BY <1>4 DEF Paced, consoled
  <2>2. QED BY <1>1, <1>2, <1>4, <2>1 DEF Late4
<1>5. CASE Has(given, targetfps)
  <2> DEFINE boosted == Without(consoled, pingboostArg)
  <2>1. /\ boosted \in Seq(Text) /\ \A name \in Names : Has(boosted, name) <=> Has(consoled, name) /\ name # pingboostArg
    BY <1>1, <1>2, <1>3, WithoutType, HasWithout
  <2>2. ASSUME OneOptionEach(given), NEW name \in Late4
        PROVE  OptionOf(boosted, name) = OptionOf(given, name) /\ OneOption(boosted, name) /\ OneOption(boosted, sys_ticrate)
    <3>1. OneOption(consoled, pingboostArg) /\ OneOption(consoled, sys_ticrate) /\ OneOption(consoled, name)
          /\ OptionOf(consoled, name) = OptionOf(given, name)
      BY <1>1, <1>2, <2>2
    <3>2. name \in Text /\ pingboostArg \in Text /\ sys_ticrate \in Text /\ name # pingboostArg
      BY <1>2, <1>3
    <3>3. OptionOf(boosted, name) = OptionOf(consoled, name)
      BY <1>1, <3>1, <3>2, OptionWithout
    <3>4. OneOption(boosted, name) /\ OneOption(boosted, sys_ticrate)
      BY <1>1, <3>1, <3>2, OneOptionWithout
    <3>5. QED BY <3>1, <3>3, <3>4
  <2> HIDE DEF boosted
  <2>3. rest = Without(boosted, sys_ticrate)
    BY DEF boosted
  <2> HIDE DEF rest
  <2>4. /\ rest \in Seq(Text)
        /\ \A name \in Names : Has(rest, name) <=> Has(consoled, name) /\ name # pingboostArg /\ name # sys_ticrate
    BY <1>2, <1>3, <2>1, <2>3, WithoutType, HasWithout
  <2>5. ASSUME OneOptionEach(given), NEW name \in Late4
        PROVE  OptionOf(rest, name) = OptionOf(given, name) /\ OneOption(rest, name)
    <3>1. OptionOf(boosted, name) = OptionOf(given, name) /\ OneOption(boosted, name) /\ OneOption(boosted, sys_ticrate)
      BY <2>2, <2>5
    <3>2. name \in Text /\ sys_ticrate \in Text /\ name # sys_ticrate
      BY <1>2, <1>3
    <3>3. OptionOf(rest, name) = OptionOf(boosted, name)
      BY <2>1, <2>3, <3>1, <3>2, OptionWithout
    <3>4. OneOption(rest, name)
      BY <2>1, <2>3, <3>1, <3>2, OneOptionWithout
    <3>5. QED BY <3>1, <3>3, <3>4
  <2>6. /\ end \in Seq(Text) /\ ~BeginsWithOption(end)
        /\ \A name \in Names : (Has(end, name) <=> name = sys_ticrate) /\ OneOption(end, name)
    BY EndFacts
  <2> HIDE DEF end
  <2> DEFINE paced == rest \o end
  <2>7. Paced(given) = paced
    BY <1>5 DEF Paced, consoled, rest, end
  <2>8. paced \in Seq(Text) /\ \A name \in Names : Has(paced, name) <=> Has(rest, name) \/ Has(end, name)
    BY <2>4, <2>6, HasConcat
  <2>9. ASSUME NEW name \in Late4
        PROVE  /\ Has(paced, name) <=> Has(given, name)
               /\ OneOptionEach(given) => OptionOf(paced, name) = OptionOf(given, name) /\ OneOption(paced, name)
    <3>1. name \in Names /\ name \in Text /\ name \in Names \ {steam, console} /\ name # pingboostArg /\ name # sys_ticrate
      BY <1>2, <1>3
    <3>2. Has(paced, name) <=> Has(given, name)
      <4> HIDE DEF paced
      <4>1. QED BY <1>1, <2>4, <2>6, <2>8, <3>1
    <3>3. ~Has(end, name)
      BY <2>6, <3>1
    <3>4. OptionOf(paced, name) = OptionOf(rest, name)
      BY <2>4, <2>6, <3>1, <3>3, OptionBefore
    <3>5. OneOption(rest, name) => OneOption(paced, name)
      BY <2>4, <2>6, <3>1, OneOptionBefore
    <3> HIDE DEF paced
    <3>6. QED BY <2>5, <3>2, <3>4, <3>5
  <2> HIDE DEF paced
  <2>10. ~Has(paced, pingboostArg)
    BY <1>2, <2>4, <2>6, <2>8
  <2>11. QED BY <1>5, <2>7, <2>8, <2>9, <2>10 DEF Late4
<1>6. QED BY <1>4, <1>5

\* What the engine is given still has the arguments the launcher reads later.
LEMMA ForEngineFacts ==
    ASSUME NEW given \in Seq(Text)
    PROVE  /\ ForEngine(given) \in Seq(Text)
           /\ \A name \in {targetfps, conclearlog, pidfileArg} :
                /\ Has(ForEngine(given), name) <=> Has(given, name)
                /\ OneOptionEach(given) => OptionOf(ForEngine(given), name) = OptionOf(given, name)
           /\ Has(ForEngine(given), pingboostArg) <=> Has(given, pingboostArg) /\ ~Has(given, targetfps)
           /\ OneOptionEach(given) /\ ~Has(given, targetfps) =>
                OptionOf(ForEngine(given), pingboostArg) = OptionOf(given, pingboostArg)
<1> DEFINE paced == Paced(given)
           left == ForEngine(given)
           Read == {targetfps, conclearlog, pidfileArg}
<1>1. paced \in Seq(Text)
  BY PacedFacts
<1>2. /\ Read \subseteq Names /\ pingboostArg \in Names /\ condebug \in Names
      /\ \A name \in Read : name # condebug
      /\ pingboostArg # condebug
  BY NamesDiffer
<1>3. \A name \in Names : name \in Text
  BY NamesAreNames DEF Name
<1>4. left = Without(paced, condebug)
  BY DEF ForEngine
<1>5. /\ \A name \in Read \union {condebug} :
           /\ Has(paced, name) <=> Has(given, name)
           /\ OneOptionEach(given) => OptionOf(paced, name) = OptionOf(given, name) /\ OneOption(paced, name)
      /\ Has(paced, pingboostArg) <=> Has(given, pingboostArg) /\ ~Has(given, targetfps)
      /\ OneOptionEach(given) /\ ~Has(given, targetfps) =>
            OptionOf(paced, pingboostArg) = OptionOf(given, pingboostArg)
  BY PacedFacts
<1> HIDE DEF paced, left, Read
<1>6. left \in Seq(Text)
  BY <1>1, <1>4, WithoutType
<1>7. ASSUME NEW name \in Read \union {pingboostArg}
      PROVE  /\ Has(left, name) <=> Has(paced, name)
             /\ OneOptionEach(given) => OptionOf(left, name) = OptionOf(paced, name)
  <2>1. name \in Text /\ condebug \in Text /\ name # condebug
    BY <1>2, <1>3
  <2>2. Has(left, name) <=> Has(paced, name)
    BY <1>1, <1>4, <2>1, HasWithout
  <2>3. OneOption(paced, condebug) => OptionOf(left, name) = OptionOf(paced, name)
    BY <1>1, <1>4, <2>1, OptionWithout
  <2>4. QED BY <1>5, <2>2, <2>3
<1>8. QED BY <1>5, <1>6, <1>7 DEF left, Read

\* The engine is told to run free exactly when the operator set a target.
LEMMA ForEngineEnd ==
    ASSUME NEW given \in Seq(Text), Has(given, targetfps)
    PROVE  \E rest \in Seq(Text) :
               /\ ForEngine(given) = rest \o <<Plus \o sys_ticrate, Zero>>
               /\ ~Has(rest, sys_ticrate)
<1> DEFINE consoled == Consoled(given)
           boosted == Without(consoled, pingboostArg)
           before == Without(boosted, sys_ticrate)
           end == <<Plus \o sys_ticrate, Zero>>
           rest == Without(before, condebug)
<1>1. consoled \in Seq(Text)
  BY ConsoledFacts
<1>2. /\ pingboostArg \in Names /\ sys_ticrate \in Names /\ condebug \in Names /\ sys_ticrate # condebug
      /\ sys_ticrate \in Text /\ condebug \in Text
  BY NamesDiffer, NamesAreNames DEF Name
<1>3. end \in Seq(Text) /\ ~BeginsWithOption(end) /\ ~Has(end, condebug)
  BY <1>2, EndFacts
<1>4. ForEngine(given) = Without(before \o end, condebug)
  BY DEF ForEngine, Paced
<1> HIDE DEF consoled, end
<1>5. boosted \in Seq(Text)
  BY <1>1, WithoutType
<1> HIDE DEF boosted
<1>6. before \in Seq(Text) /\ ~Has(before, sys_ticrate)
  BY <1>2, <1>5, WithoutType, HasWithout
<1> HIDE DEF before
<1>7. rest \in Seq(Text) /\ ~Has(rest, sys_ticrate)
  BY <1>2, <1>6, WithoutType, HasWithout
<1>8. Without(before \o end, condebug) = rest \o end
  BY <1>2, <1>3, <1>6, WithoutBefore
<1>9. QED BY <1>4, <1>7, <1>8 DEF end

-----------------------------------------------------------------------------
(* The inductive invariant.                                                *)

\* The steps after the last handler that changes the command line.
Late == {"conclearlog", "pidfile", "ignoresigint", "nominidumps", "engine", "loop", "run"}

\* The steps after the one that may clear the log.
LogSeen == Late \ {"conclearlog"}

\* The words of the command line as far as the handlers have come.
WordsSoFar ==
    /\ pc \in {"logger", "steam"} => Words(arguments_) = Given
    /\ pc = "console" => Words(arguments_) = Steamed(Given)
    /\ pc = "targetfps" => Words(arguments_) = Consoled(Given)
    /\ pc = "condebug" => Words(arguments_) = Paced(Given)
    /\ pc \in Late => Words(arguments_) = ForEngine(Given)

\* The files as far as the handlers have come.
FilesSoFar ==
    /\ pc # "logger" => (logfile # <<>> <=> Has(Given, condebug))
    /\ cleared # "no" => Has(Given, conclearlog)
    /\ pc \in LogSeen /\ Has(Given, condebug) /\ Has(Given, conclearlog) => cleared # "no"
    /\ pidfile # <<>> => pidfile = OptionOf(ForEngine(Given), pidfileArg)

\* What the engine was given, and the loop as the same words set it up.
LoopSoFar ==
    LET fps == NumberOf(ForEngine(Given), targetfps)
        level == NumberOf(ForEngine(Given), pingboostArg)
    IN /\ pc \in {"loop", "run"} => engine = arguments_
       /\ pc = "run" =>
              /\ target_fps = IF fps > 0 THEN fps ELSE 0
              /\ pingboost = IF fps > 0 THEN TargetFps ELSE Min({Max({level, 0}), level5})

IInv ==
    /\ TypeOK
    /\ argv \in CommandLine
    /\ pc # "run" => pingboost = 0 /\ target_fps = 0
    /\ TellsApart(from_command_line(argv)) => Tidy(arguments_) /\ WordsSoFar /\ FilesSoFar /\ LoopSoFar

\* Main() keeps the platform and the operator's words, so all that is said of them.
LEMMA SameWords ==
    ASSUME UNCHANGED <<windows, argv>>
    PROVE  /\ Given' = Given /\ Steamed(Given)' = Steamed(Given) /\ Consoled(Given)' = Consoled(Given)
           /\ Paced(Given)' = Paced(Given) /\ ForEngine(Given)' = ForEngine(Given)
           /\ from_command_line(argv)' = from_command_line(argv)
<1>1. Given' = Given
  BY DEF Given
<1>2. Steamed(Given)' = Steamed(Given)
  BY <1>1 DEF Steamed
<1>3. Consoled(Given)' = Consoled(Given)
  BY <1>1, <1>2 DEF Consoled
<1>4. Paced(Given)' = Paced(Given)
  BY <1>1, <1>3 DEF Paced
<1>5. ForEngine(Given)' = ForEngine(Given)
  BY <1>4 DEF ForEngine
<1>6. from_command_line(argv)' = from_command_line(argv)
  OBVIOUS
<1>7. QED BY <1>1, <1>2, <1>3, <1>4, <1>5, <1>6

\* No step changes the platform or the operator's words.
LEMMA NextSame ==
    ASSUME Next
    PROVE  UNCHANGED <<windows, argv>>
BY DEF Next, init_logger, SteamHandler, ConsoleHandler, TargetFpsHandler, ConDebugHandler,
       ConClearLogHandler, PidFileHandler, IgnoreSigIntHandler, NoMiniDumpsHandler, init_engine,
       init_server_loop, Rewrites, Reads, Goes

\* The option of an argument in any text, and the number it begins with.
LEMMA OptionValue ==
    ASSUME NEW text \in Text, NEW arg \in Text
    PROVE  /\ get_argument_option(text, arg) \in Text \union {NoOption}
           /\ get_argument_option(text, arg) # <<>>
           /\ IntOption(text, arg) \in Int
<1>1. find_argument_pos(text, arg) \in Nat
  BY FindFacts, TextFacts
<1>2. get_argument_option(text, arg) \in Text \union {NoOption} /\ get_argument_option(text, arg) # <<>>
  BY <1>1, OptionAtType DEF get_argument_option
<1>3. IntOption(text, arg) \in Int
  BY NumberAssumption DEF IntOption
<1>4. QED BY <1>2, <1>3

\* The pingboost level is one of those the loop knows.
LEMMA LevelBound ==
    ASSUME NEW level \in Int
    PROVE  Min({Max({level, 0}), level5}) \in 0..level5
<1> DEFINE m == Max({level, 0})
<1>1. m \in Nat
  BY MaxOfTwo
<1> HIDE DEF m
<1>2. {m, 5} \in SUBSET Nat /\ {m, 5} # {}
  BY <1>1
<1>3. Min({m, 5}) \in {m, 5} /\ Min({m, 5}) <= 5
  BY <1>2, MinFacts
<1>4. QED BY <1>1, <1>3 DEF level5, m

\* A name without its sign, as the handlers look for it.
LEMMA ArgTypes ==
    /\ \A name \in Names : name \in Text /\ Minus \o name \in Text /\ Plus \o name \in Text
    /\ \A name \in Names : remove_argument_prefix(name) = name /\ remove_argument_prefix(Minus \o name) = name
<1>1. ASSUME NEW name \in Names
      PROVE  /\ name \in Text /\ Minus \o name \in Text /\ Plus \o name \in Text
             /\ remove_argument_prefix(name) = name /\ remove_argument_prefix(Minus \o name) = name
  <2>1. name \in Name
    BY NamesAreNames
  <2>2. Minus \o name \in Text /\ Plus \o name \in Text
    BY ArgWord
  <2>3. remove_argument_prefix(name) = name /\ remove_argument_prefix(Minus \o name) = name
    BY <2>1, PrefixFacts
  <2>4. QED BY <2>1, <2>2, <2>3 DEF Name
<1>2. QED BY <1>1

\* The state main() starts in.
LEMMA InitIInv == Init => IInv
<1> SUFFICES ASSUME Init PROVE IInv
  OBVIOUS
<1>1. /\ windows \in BOOLEAN /\ argv \in CommandLine /\ pc = "logger"
      /\ arguments_ = from_command_line(argv)
      /\ logfile = <<>> /\ cleared = "no" /\ pidfile = <<>>
      /\ ignored = FALSE /\ dumps = FALSE
      /\ engine = <<>> /\ pingboost = 0 /\ target_fps = 0
  BY DEF Init
<1>2. argv \in Seq(Text)
  BY <1>1, CommandLineAssumption
<1>3. arguments_ \in Text /\ Trimmed(arguments_) /\ <<>> \in Text
  BY <1>1, <1>2, CommandLineType, WordsEmpty
<1>4. TypeOK
  <2>1. /\ windows \in BOOLEAN /\ ignored \in BOOLEAN /\ dumps \in BOOLEAN
        /\ cleared \in {"no", "failed", "done"}
    BY <1>1
  <2>2. pc \in Steps
    BY <1>1 DEF Steps
  <2>3. arguments_ \in Text /\ engine \in Text /\ logfile \in Text /\ pidfile \in Text
    BY <1>1, <1>3
  <2>4. pingboost \in 0..TargetFps /\ target_fps \in Nat /\ (pingboost = TargetFps <=> target_fps > 0)
    BY <1>1 DEF TargetFps
  <2>5. QED BY <2>1, <2>2, <2>3, <2>4 DEF TypeOK
<1>5. TellsApart(from_command_line(argv)) => Tidy(arguments_)
  BY <1>1, <1>3, TidyIsTellsApart DEF Trimmed
<1>6. WordsSoFar
  BY <1>1 DEF WordsSoFar, Given, Late
<1>7. FilesSoFar
  BY <1>1 DEF FilesSoFar, LogSeen, Late
<1>8. LoopSoFar
  BY <1>1 DEF LoopSoFar
<1>9. QED BY <1>1, <1>4, <1>5, <1>6, <1>7, <1>8 DEF IInv

\* Each step keeps the types, and the loop is set up by the last one alone.
LEMMA TypeStep ==
    ASSUME IInv, Next
    PROVE  /\ TypeOK' /\ argv' \in CommandLine
           /\ pc' # "run" => pingboost' = 0 /\ target_fps' = 0
<1>1. /\ pc \in Steps
      /\ arguments_ \in Text /\ engine \in Text /\ logfile \in Text /\ pidfile \in Text
      /\ windows \in BOOLEAN /\ ignored \in BOOLEAN /\ dumps \in BOOLEAN
      /\ cleared \in {"no", "failed", "done"}
      /\ pingboost \in 0..TargetFps /\ target_fps \in Nat
      /\ pingboost = TargetFps <=> target_fps > 0
      /\ argv \in CommandLine
      /\ pc # "run" => pingboost = 0 /\ target_fps = 0
  BY DEF IInv, TypeOK
<1>2. windows' \in BOOLEAN /\ argv' \in CommandLine
  BY <1>1, NextSame
<1>3. steam \in Names /\ console \in Names /\ sys_ticrate \in Names /\ pingboostArg \in Names
      /\ condebug \in Names /\ pidfileArg \in Names /\ game \in Names /\ targetfps \in Names
  BY DEF Names
<1>4. <<>> \in Text /\ Slash \in Text /\ qconsole \in Text
  BY WordsEmpty, LetterAssumption DEF Slash, qconsole, Text
<1> DEFINE Typed == /\ arguments_' \in Text /\ engine' \in Text /\ logfile' \in Text /\ pidfile' \in Text
                    /\ cleared' \in {"no", "failed", "done"} /\ ignored' \in BOOLEAN /\ dumps' \in BOOLEAN
           Same == pc # "run" /\ pc' \in Steps /\ pc' # "run" /\ UNCHANGED loop
<1>5. ASSUME Typed, Same PROVE TypeOK' /\ (pc' # "run" => pingboost' = 0 /\ target_fps' = 0)
  BY <1>1, <1>2, <1>5 DEF TypeOK, loop
<1>6. CASE init_logger
  <2>1. logfile' \in Text
    <3> DEFINE gameName == get_argument_option(arguments_, Minus \o game)
    <3>1. gameName \in Text \union {NoOption}
      BY <1>1, <1>3, ArgTypes, OptionValue
    <3>2. gameName # NoOption => gameName \o Slash \o qconsole \in Text
      BY <1>4, <3>1, ConcatFacts
    <3>3. QED BY <1>4, <1>6, <3>2 DEF init_logger
  <2>2. Typed /\ Same
    BY <1>1, <1>6, <2>1 DEF init_logger, Reads, Goes, Steps
  <2>3. QED BY <1>5, <2>2, <1>2
<1>7. CASE SteamHandler
  <2>1. push_front(arguments_, Minus \o steam, <<>>) \in Text
    BY <1>1, <1>3, PushTypes
  <2>2. Typed /\ Same
    BY <1>1, <1>7, <2>1 DEF SteamHandler, Rewrites, Goes, Steps, settings
  <2>3. QED BY <1>2, <1>5, <2>2
<1>8. CASE ConsoleHandler
  <2>1. push_front(arguments_, Minus \o console, <<>>) \in Text
    BY <1>1, <1>3, PushTypes
  <2>2. Typed /\ Same
    BY <1>1, <1>8, <2>1 DEF ConsoleHandler, Rewrites, Goes, Steps, settings
  <2>3. QED BY <1>2, <1>5, <2>2
<1>9. CASE TargetFpsHandler
  <2>1. remove(arguments_, pingboostArg) \in Text
    BY <1>1, <1>3, ArgTypes, RemoveType
  <2>2. push_back(remove(arguments_, pingboostArg), Plus \o sys_ticrate, Zero) \in Text
    BY <2>1, PushTypes
  <2>3. Typed /\ Same
    BY <1>1, <1>9, <2>2 DEF TargetFpsHandler, Rewrites, Goes, Steps, settings
  <2>4. QED BY <1>2, <1>5, <2>3
<1>10. CASE ConDebugHandler
  <2>1. remove(arguments_, condebug) \in Text
    BY <1>1, <1>3, ArgTypes, RemoveType
  <2>2. Typed /\ Same
    BY <1>1, <1>10, <2>1 DEF ConDebugHandler, Rewrites, Goes, Steps, settings
  <2>3. QED BY <1>2, <1>5, <2>2
<1>11. CASE ConClearLogHandler
  <2>1. Typed /\ Same
    BY <1>1, <1>11 DEF ConClearLogHandler, Reads, Goes, Steps
  <2>2. QED BY <1>2, <1>5, <2>1
<1>12. CASE PidFileHandler
  <2> DEFINE name == get_argument_option(arguments_, pidfileArg)
  <2>1. name \in Text \union {NoOption}
    BY <1>1, <1>3, ArgTypes, OptionValue
  <2>2. pidfile' \in {pidfile} \/ (name # NoOption /\ pidfile' \in {pidfile, name})
    BY <1>12 DEF PidFileHandler
  <2>3. Typed /\ Same
    BY <1>1, <1>12, <2>1, <2>2 DEF PidFileHandler, Reads, Goes, Steps
  <2>4. QED BY <1>2, <1>5, <2>3
<1>13. CASE IgnoreSigIntHandler
  <2>1. Typed /\ Same
    BY <1>1, <1>13 DEF IgnoreSigIntHandler, Reads, Goes, Steps
  <2>2. QED BY <1>2, <1>5, <2>1
<1>14. CASE NoMiniDumpsHandler
  <2>1. Typed /\ Same
    BY <1>1, <1>14 DEF NoMiniDumpsHandler, Reads, Goes, Steps
  <2>2. QED BY <1>2, <1>5, <2>1
<1>15. CASE init_engine
  <2>1. Typed /\ Same
    BY <1>1, <1>15 DEF init_engine, Goes, Steps, settings
  <2>2. QED BY <1>2, <1>5, <2>1
<1>16. CASE init_server_loop
  <2> DEFINE fps == IntOption(arguments_, Minus \o targetfps)
             level == IntOption(arguments_, Minus \o pingboostArg)
             bounded == Min({Max({level, 0}), level5})
  <2>1. fps \in Int /\ level \in Int
    BY <1>1, <1>3, ArgTypes, OptionValue
  <2>2. bounded \in 0..5
    BY <2>1, LevelBound DEF level5
  <2>3. /\ pc = "loop" /\ pc' = "run"
        /\ target_fps' = IF fps > 0 THEN fps ELSE target_fps
        /\ pingboost' = IF fps > 0 THEN TargetFps ELSE bounded
    BY <1>16 DEF init_server_loop, Goes
  <2>4. Typed
    BY <1>1, <1>16 DEF init_server_loop, Goes, settings
  <2> HIDE DEF fps, level, bounded
  <2>5. target_fps = 0
    BY <1>1, <2>3
  <2>6. /\ pingboost' \in 0..TargetFps /\ target_fps' \in Nat
        /\ pingboost' = TargetFps <=> target_fps' > 0
    <3>1. CASE fps > 0
      BY <2>1, <2>3, <3>1 DEF TargetFps
    <3>2. CASE ~(fps > 0)
      BY <2>1, <2>2, <2>3, <2>5, <3>2 DEF TargetFps
    <3>3. QED BY <3>1, <3>2
  <2>7. QED BY <1>2, <2>3, <2>4, <2>6 DEF TypeOK, Steps
<1>17. QED
  BY <1>6, <1>7, <1>8, <1>9, <1>10, <1>11, <1>12, <1>13, <1>14, <1>15, <1>16 DEF Next

\* What is known where the launcher can tell its arguments apart.
LEMMA FittingFacts ==
    ASSUME IInv, TellsApart(from_command_line(argv))
    PROVE  /\ Given \in Seq(Text) /\ arguments_ \in Text /\ Tidy(arguments_)
           /\ WordsSoFar /\ FilesSoFar /\ LoopSoFar
<1>1. argv \in Seq(Text) /\ arguments_ \in Text
  BY CommandLineAssumption DEF IInv, TypeOK
<1>2. Given \in Seq(Text)
  BY <1>1, CommandLineType, WordsType DEF Given
<1>3. QED BY <1>1, <1>2 DEF IInv

\* Each handler makes of the text what its stage makes of the words.
LEMMA WordsStep ==
    ASSUME IInv, Next, TellsApart(from_command_line(argv))
    PROVE  Tidy(arguments_') /\ WordsSoFar'
<1>1. /\ Given \in Seq(Text) /\ arguments_ \in Text /\ Tidy(arguments_)
      /\ pc \in {"logger", "steam"} => Words(arguments_) = Given
      /\ pc = "console" => Words(arguments_) = Steamed(Given)
      /\ pc = "targetfps" => Words(arguments_) = Consoled(Given)
      /\ pc = "condebug" => Words(arguments_) = Paced(Given)
      /\ pc \in Late => Words(arguments_) = ForEngine(Given)
  BY FittingFacts DEF WordsSoFar
<1>2. /\ Given' = Given /\ Steamed(Given)' = Steamed(Given) /\ Consoled(Given)' = Consoled(Given)
      /\ Paced(Given)' = Paced(Given) /\ ForEngine(Given)' = ForEngine(Given)
  BY NextSame, SameWords
<1> DEFINE Reached(step, words) == pc' = step /\ Words(arguments_') = words
<1>3. ASSUME \/ Reached("steam", Given)
             \/ Reached("console", Steamed(Given))
             \/ Reached("targetfps", Consoled(Given))
             \/ Reached("condebug", Paced(Given))
             \/ \E step \in Late : Reached(step, ForEngine(Given))
      PROVE  WordsSoFar'
  BY <1>2, <1>3 DEF WordsSoFar, Late
<1>4. steam \in Names /\ console \in Names /\ sys_ticrate \in Names /\ pingboostArg \in Names
      /\ condebug \in Names /\ targetfps \in Names
  BY NamesDiffer
<1>5. CASE init_logger
  <2>1. pc = "logger" /\ pc' = "steam" /\ arguments_' = arguments_
    BY <1>5 DEF init_logger, Reads, Goes
  <2>2. QED BY <1>1, <1>3, <2>1
<1>6. CASE SteamHandler
  <2>1. pc = "steam" /\ pc' = "console" /\ arguments_' = push_front(arguments_, Minus \o steam, <<>>)
    BY <1>6 DEF SteamHandler, Rewrites, Goes
  <2>2. Tidy(arguments_') /\ Words(arguments_') = <<Minus \o steam>> \o Without(Words(arguments_), steam)
    BY <1>1, <1>4, <2>1, PushFrontWords
  <2>3. Words(arguments_') = Steamed(Given)
    BY <1>1, <2>1, <2>2 DEF Steamed
  <2>4. QED BY <1>3, <2>1, <2>2, <2>3
<1>7. CASE ConsoleHandler
  <2>1. pc = "console" /\ pc' = "targetfps"
        /\ arguments_' = IF windows THEN push_front(arguments_, Minus \o console, <<>>) ELSE arguments_
    BY <1>7 DEF ConsoleHandler, Rewrites, Goes
  <2>2. Words(arguments_) = Steamed(Given)
    BY <1>1, <2>1
  <2>3. CASE windows
    <3>1. arguments_' = push_front(arguments_, Minus \o console, <<>>)
      BY <2>1, <2>3
    <3>2. Tidy(arguments_') /\ Words(arguments_') = <<Minus \o console>> \o Without(Words(arguments_), console)
      BY <1>1, <1>4, <3>1, PushFrontWords
    <3>3. Words(arguments_') = Consoled(Given)
      BY <2>2, <2>3, <3>2 DEF Consoled
    <3>4. QED BY <1>3, <2>1, <3>2, <3>3
  <2>4. CASE ~windows
    <3>1. arguments_' = arguments_ /\ Words(arguments_') = Consoled(Given)
      BY <2>1, <2>2, <2>4 DEF Consoled
    <3>2. QED BY <1>1, <1>3, <2>1, <3>1
  <2>5. QED BY <2>3, <2>4
<1>8. CASE TargetFpsHandler
  <2> DEFINE boosted == remove(arguments_, pingboostArg)
  <2>1. pc = "targetfps" /\ pc' = "condebug"
        /\ arguments_' = IF contains(arguments_, targetfps)
                         THEN push_back(boosted, Plus \o sys_ticrate, Zero)
                         ELSE arguments_
    BY <1>8 DEF TargetFpsHandler, Rewrites, Goes
  <2>2. Words(arguments_) = Consoled(Given)
    BY <1>1, <2>1
  <2>3. contains(arguments_, targetfps) <=> Has(Given, targetfps)
    <3>1. remove_argument_prefix(targetfps) = targetfps
      BY <1>4, ArgTypes
    <3>2. contains(arguments_, targetfps) <=> Has(Consoled(Given), targetfps)
      BY <1>1, <1>4, <2>2, <3>1, ContainsHas
    <3>3. targetfps \in Names \ {steam, console}
      BY NamesDiffer
    <3>4. QED BY <1>1, <3>2, <3>3, ConsoledFacts
  <2>4. CASE Has(Given, targetfps)
    <3>1. remove_argument_prefix(pingboostArg) = pingboostArg
      BY <1>4, ArgTypes
    <3>2. Tidy(boosted) /\ Words(boosted) = Without(Consoled(Given), pingboostArg)
      <4>1. Tidy(boosted) /\ Words(boosted) = Without(Words(arguments_), pingboostArg)
        BY <1>1, <1>4, <3>1, RemoveTakesWords
      <4>2. QED BY <2>2, <4>1
    <3>3. arguments_' = push_back(boosted, Plus \o sys_ticrate, Zero)
      BY <2>1, <2>3, <2>4
    <3> HIDE DEF boosted
    <3>4. Tidy(arguments_') /\ Words(arguments_') = Without(Words(boosted), sys_ticrate) \o <<Plus \o sys_ticrate, Zero>>
      BY <3>2, <3>3, PushBackWords
    <3>5. Words(arguments_') = Paced(Given)
      BY <2>4, <3>2, <3>4 DEF Paced
    <3>6. QED BY <1>3, <2>1, <3>4, <3>5
  <2>5. CASE ~Has(Given, targetfps)
    <3>1. arguments_' = arguments_ /\ Words(arguments_') = Paced(Given)
      BY <2>1, <2>2, <2>3, <2>5 DEF Paced
    <3>2. QED BY <1>1, <1>3, <2>1, <3>1
  <2>6. QED BY <2>4, <2>5
<1>9. CASE ConDebugHandler
  <2>1. pc = "condebug" /\ pc' = "conclearlog" /\ arguments_' = remove(arguments_, condebug)
    BY <1>9 DEF ConDebugHandler, Rewrites, Goes
  <2>2. remove_argument_prefix(condebug) = condebug
    BY <1>4, ArgTypes
  <2>3. Tidy(arguments_') /\ Words(arguments_') = Without(Words(arguments_), condebug)
    BY <1>1, <1>4, <2>1, <2>2, RemoveTakesWords
  <2>4. Words(arguments_') = ForEngine(Given)
    BY <1>1, <2>1, <2>3 DEF ForEngine
  <2>5. pc' \in Late
    BY <2>1 DEF Late
  <2>6. QED BY <1>3, <2>3, <2>4, <2>5
<1>10. CASE \/ ConClearLogHandler \/ PidFileHandler \/ IgnoreSigIntHandler \/ NoMiniDumpsHandler
            \/ init_engine \/ init_server_loop
  <2>1. pc \in Late /\ pc' \in Late /\ arguments_' = arguments_
    BY <1>10 DEF ConClearLogHandler, PidFileHandler, IgnoreSigIntHandler, NoMiniDumpsHandler,
       init_engine, init_server_loop, Reads, Goes, Late
  <2>2. QED BY <1>1, <1>3, <2>1
<1>11. QED BY <1>5, <1>6, <1>7, <1>8, <1>9, <1>10 DEF Next

\* A file is named, cleared or written as the operator's words say.
LEMMA FilesStep ==
    ASSUME IInv, Next, TellsApart(from_command_line(argv))
    PROVE  FilesSoFar'
<1>1. /\ Given \in Seq(Text) /\ arguments_ \in Text /\ Tidy(arguments_) /\ WordsSoFar
      /\ pc # "logger" => (logfile # <<>> <=> Has(Given, condebug))
      /\ cleared # "no" => Has(Given, conclearlog)
      /\ pc \in LogSeen /\ Has(Given, condebug) /\ Has(Given, conclearlog) => cleared # "no"
      /\ pidfile # <<>> => pidfile = OptionOf(ForEngine(Given), pidfileArg)
  BY FittingFacts DEF FilesSoFar
<1>2. Given' = Given /\ ForEngine(Given)' = ForEngine(Given)
  BY NextSame, SameWords
<1>3. ASSUME /\ logfile' # <<>> <=> Has(Given, condebug)
             /\ cleared' # "no" => Has(Given, conclearlog)
             /\ pc' \in LogSeen /\ Has(Given, condebug) /\ Has(Given, conclearlog) => cleared' # "no"
             /\ pidfile' # <<>> => pidfile' = OptionOf(ForEngine(Given), pidfileArg)
      PROVE  FilesSoFar'
  BY <1>2, <1>3 DEF FilesSoFar, LogSeen, Late
<1>4. condebug \in Names /\ conclearlog \in Names /\ pidfileArg \in Names /\ game \in Names
  BY DEF Names
<1>5. CASE init_logger
  <2> DEFINE gameName == get_argument_option(arguments_, Minus \o game)
             path == IF windows \/ gameName = NoOption THEN qconsole ELSE gameName \o Slash \o qconsole
  <2>1. /\ pc = "logger" /\ pc' \notin LogSeen /\ cleared' = cleared /\ pidfile' = pidfile
        /\ logfile' = IF contains(arguments_, Minus \o condebug) THEN path ELSE <<>>
    BY <1>5 DEF init_logger, Reads, Goes, LogSeen, Late
  <2>2. path # <<>>
    <3>1. Slash \in Text /\ qconsole \in Text /\ Len(qconsole) = 1
      BY LetterAssumption DEF Slash, qconsole, Text
    <3>2. gameName \in Text \union {NoOption}
      BY <1>1, <1>4, ArgTypes, OptionValue
    <3> HIDE DEF gameName
    <3>3. gameName # NoOption => gameName \o Slash \o qconsole # <<>>
      <4> SUFFICES ASSUME gameName \in Text PROVE gameName \o Slash \o qconsole # <<>>
        BY <3>2
      <4> DEFINE directory == gameName \o Slash
      <4>1. directory \in Text /\ Len(directory) \in Nat
        BY <3>1, ConcatFacts, TextFacts
      <4> HIDE DEF directory
      <4>2. directory \o qconsole \in Text /\ Len(directory \o qconsole) = Len(directory) + 1
        <5>1. directory \o qconsole \in Text /\ Len(directory \o qconsole) = Len(directory) + Len(qconsole)
          BY <3>1, <4>1, ConcatFacts, Zenon
        <5>2. QED BY <3>1, <5>1
      <4>3. directory \o qconsole # <<>>
        BY <4>1, <4>2, TextFacts
      <4>4. QED BY <4>3 DEF directory
    <3>4. qconsole # <<>>
      BY <3>1, TextFacts
    <3>5. QED BY <3>3, <3>4
  <2> HIDE DEF path
  <2>3. contains(arguments_, Minus \o condebug) <=> Has(Given, condebug)
    <3>1. remove_argument_prefix(Minus \o condebug) = condebug
      BY <1>4, ArgTypes
    <3>2. Words(arguments_) = Given
      BY <1>1, <2>1 DEF WordsSoFar
    <3>3. QED BY <1>1, <1>4, <3>1, <3>2, ContainsHas
  <2>4. QED BY <1>1, <1>3, <2>1, <2>2, <2>3
<1>6. CASE \/ SteamHandler \/ ConsoleHandler \/ TargetFpsHandler \/ ConDebugHandler
           \/ IgnoreSigIntHandler \/ NoMiniDumpsHandler \/ init_engine \/ init_server_loop
  <2>1. /\ pc # "logger" /\ UNCHANGED <<logfile, cleared, pidfile>>
        /\ pc' \in LogSeen => pc \in LogSeen
    BY <1>6 DEF SteamHandler, ConsoleHandler, TargetFpsHandler, ConDebugHandler,
       IgnoreSigIntHandler, NoMiniDumpsHandler, init_engine, init_server_loop, Rewrites, Reads, Goes, settings, LogSeen, Late
  <2>2. QED BY <1>1, <1>3, <2>1
<1>7. CASE ConClearLogHandler
  <2>1. /\ pc = "conclearlog" /\ UNCHANGED <<logfile, pidfile>>
        /\ IF logfile # <<>> /\ contains(arguments_, conclearlog)
           THEN cleared' # "no" ELSE cleared' = cleared
    BY <1>7 DEF ConClearLogHandler, Reads, Goes
  <2>2. contains(arguments_, conclearlog) <=> Has(Given, conclearlog)
    <3>1. remove_argument_prefix(conclearlog) = conclearlog
      BY <1>4, ArgTypes
    <3>2. Words(arguments_) = ForEngine(Given)
      BY <1>1, <2>1 DEF WordsSoFar, Late
    <3>3. contains(arguments_, conclearlog) <=> Has(ForEngine(Given), conclearlog)
      BY <1>1, <1>4, <3>1, <3>2, ContainsHas
    <3>4. QED BY <1>1, <3>3, ForEngineFacts
  <2>3. QED BY <1>1, <1>3, <2>1, <2>2
<1>8. CASE PidFileHandler
  <2> DEFINE name == get_argument_option(arguments_, pidfileArg)
  <2>1. pc = "pidfile" /\ pc \in LogSeen /\ UNCHANGED <<logfile, cleared>> /\ pidfile' \in {pidfile, name}
    BY <1>8 DEF PidFileHandler, Reads, Goes, LogSeen, Late
  <2>2. name = OptionOf(ForEngine(Given), pidfileArg)
    <3>1. Words(arguments_) = ForEngine(Given)
      BY <1>1, <2>1 DEF WordsSoFar, Late
    <3>2. name = OptionOf(Words(arguments_), pidfileArg)
      BY <1>1, <1>4, OptionText
    <3>3. QED BY <3>1, <3>2
  <2> HIDE DEF name
  <2>3. QED BY <1>1, <1>3, <2>1, <2>2
<1>9. QED BY <1>5, <1>6, <1>7, <1>8 DEF Next

\* The engine gets the text, and the loop its level and target, from the same words.
LEMMA LoopStep ==
    ASSUME IInv, Next, TellsApart(from_command_line(argv))
    PROVE  LoopSoFar'
<1> DEFINE words == ForEngine(Given)
           fps == NumberOf(words, targetfps)
           level == NumberOf(words, pingboostArg)
<1>1. /\ Given \in Seq(Text) /\ arguments_ \in Text /\ Tidy(arguments_) /\ WordsSoFar
      /\ pc \in {"loop", "run"} => engine = arguments_
  BY FittingFacts DEF LoopSoFar
<1>2. ForEngine(Given)' = words
  BY NextSame, SameWords
<1>3. pc # "run" => target_fps = 0
  BY DEF IInv
<1>4. CASE \/ init_logger \/ SteamHandler \/ ConsoleHandler \/ TargetFpsHandler \/ ConDebugHandler
           \/ ConClearLogHandler \/ PidFileHandler \/ IgnoreSigIntHandler \/ NoMiniDumpsHandler
  <2>1. pc' \notin {"loop", "run"}
    BY <1>4 DEF init_logger, SteamHandler, ConsoleHandler, TargetFpsHandler, ConDebugHandler,
       ConClearLogHandler, PidFileHandler, IgnoreSigIntHandler, NoMiniDumpsHandler, Rewrites, Reads, Goes
  <2>2. QED BY <2>1 DEF LoopSoFar
<1>5. CASE init_engine
  <2>1. pc' = "loop" /\ engine' = arguments_ /\ arguments_' = arguments_
    BY <1>5 DEF init_engine, Goes
  <2>2. QED BY <2>1 DEF LoopSoFar
<1>6. CASE init_server_loop
  <2> DEFINE fpsRead == IntOption(arguments_, Minus \o targetfps)
             levelRead == IntOption(arguments_, Minus \o pingboostArg)
  <2>1. /\ pc = "loop" /\ pc' = "run" /\ arguments_' = arguments_ /\ engine' = engine
        /\ target_fps' = IF fpsRead > 0 THEN fpsRead ELSE target_fps
        /\ pingboost' = IF fpsRead > 0 THEN TargetFps ELSE Min({Max({levelRead, 0}), level5})
    BY <1>6 DEF init_server_loop, Goes
  <2>2. Words(arguments_) = words
    BY <1>1, <2>1 DEF WordsSoFar, Late
  <2>3. ASSUME NEW name \in Names PROVE IntOption(arguments_, Minus \o name) = NumberOf(words, name)
    <3>1. get_argument_option(arguments_, Minus \o name) = OptionOf(words, name)
      BY <1>1, <2>2, OptionText
    <3>2. QED BY <3>1 DEF IntOption, NumberOf
  <2>4. fpsRead = fps /\ levelRead = level
    BY <2>3, NamesDiffer
  <2> HIDE DEF fpsRead, levelRead
  <2>5. engine' = arguments_'
    BY <1>1, <2>1
  <2>6. /\ target_fps' = IF fps > 0 THEN fps ELSE 0
        /\ pingboost' = IF fps > 0 THEN TargetFps ELSE Min({Max({level, 0}), level5})
    BY <1>3, <2>1, <2>4
  <2>7. QED BY <1>2, <2>1, <2>5, <2>6 DEF LoopSoFar
<1>7. QED BY <1>4, <1>5, <1>6 DEF Next

\* The invariant is kept by every step.
LEMMA StepIInv == IInv /\ [Next]_vars => IInv'
<1>1. ASSUME IInv, Next PROVE IInv'
  <2>1. TypeOK' /\ argv' \in CommandLine /\ (pc' # "run" => pingboost' = 0 /\ target_fps' = 0)
    BY <1>1, TypeStep
  <2>2. from_command_line(argv)' = from_command_line(argv)
    BY <1>1, NextSame, SameWords
  <2>3. TellsApart(from_command_line(argv)) => Tidy(arguments_') /\ WordsSoFar' /\ FilesSoFar' /\ LoopSoFar'
    BY <1>1, WordsStep, FilesStep, LoopStep
  <2>4. QED BY <2>1, <2>2, <2>3 DEF IInv
<1>2. ASSUME IInv, UNCHANGED vars PROVE IInv'
  <2>1. /\ UNCHANGED <<windows, argv, pc, arguments_, logfile, cleared, pidfile, ignored, dumps>>
        /\ UNCHANGED <<engine, pingboost, target_fps>>
    BY <1>2 DEF vars, settings, loop
  <2>2. /\ Given' = Given /\ Steamed(Given)' = Steamed(Given) /\ Consoled(Given)' = Consoled(Given)
        /\ Paced(Given)' = Paced(Given) /\ ForEngine(Given)' = ForEngine(Given)
        /\ from_command_line(argv)' = from_command_line(argv)
    BY <2>1, SameWords
  <2>3. TypeOK'
    BY <1>2, <2>1 DEF IInv, TypeOK
  <2>4. (WordsSoFar => WordsSoFar') /\ (FilesSoFar => FilesSoFar') /\ (LoopSoFar => LoopSoFar')
    BY <2>1, <2>2 DEF WordsSoFar, FilesSoFar, LoopSoFar
  <2>5. QED BY <1>2, <2>1, <2>2, <2>3, <2>4 DEF IInv
<1>3. QED BY <1>1, <1>2

\* The inductive invariant holds in every reachable state.
LEMMA AlwaysIInv == Spec => []IInv
BY InitIInv, StepIInv, PTL DEF Spec

-----------------------------------------------------------------------------
(* The theorems.                                                           *)

\* The command line stays a text, and the logger's file, the loop's level and its
\* target stay in their types and go together (Launch::TypeOK).
THEOREM LaunchIsTyped == Spec => []TypeOK
<1>1. IInv => TypeOK
  BY DEF IInv
<1>2. QED BY <1>1, AlwaysIInv, PTL

\* What is known when the loop is entered.
LEMMA LaunchedFacts ==
    ASSUME IInv, Launched
    PROVE  /\ Given \in Seq(Text) /\ arguments_ \in Text /\ Tidy(arguments_) /\ engine = arguments_
           /\ Words(engine) = ForEngine(Given) /\ ForEngine(Given) \in Seq(Text)
           /\ FilesSoFar
           /\ LET fps == NumberOf(ForEngine(Given), targetfps)
                  level == NumberOf(ForEngine(Given), pingboostArg)
              IN /\ target_fps = IF fps > 0 THEN fps ELSE 0
                 /\ pingboost = IF fps > 0 THEN TargetFps ELSE Min({Max({level, 0}), level5})
<1>1. pc = "run" /\ TellsApart(from_command_line(argv))
  BY DEF Launched
<1>2. /\ Given \in Seq(Text) /\ arguments_ \in Text /\ Tidy(arguments_)
      /\ WordsSoFar /\ FilesSoFar /\ LoopSoFar
  BY <1>1, FittingFacts
<1>3. Words(arguments_) = ForEngine(Given)
  BY <1>1, <1>2 DEF WordsSoFar, Late
<1>4. engine = arguments_
  BY <1>1, <1>2 DEF LoopSoFar
<1>5. ForEngine(Given) \in Seq(Text)
  BY <1>2, ForEngineFacts
<1>6. QED BY <1>1, <1>2, <1>3, <1>4, <1>5 DEF LoopSoFar

\* A number that is read was given as the option of its argument.
LEMMA NumberIsGiven ==
    ASSUME NEW words \in Seq(Text), NEW name \in Names
    PROVE  /\ NumberOf(words, name) \in Int
           /\ NumberOf(words, name) # 0 => Has(words, name)
<1>1. NumberOf(words, name) \in Int
  BY NumberAssumption DEF NumberOf
<1>2. ASSUME ~Has(words, name) PROVE NumberOf(words, name) = 0
  <2>1. OptionOf(words, name) = NoOption
    BY <1>2, OptionOfNone
  <2>2. NoOption \notin DOMAIN Number
    BY NoOptionAssumption, NumberAssumption
  <2>3. QED BY <2>1, <2>2 DEF NumberOf
<1>3. QED BY <1>1, <1>2

\* If the launcher's names are whole words and words are one blank apart, the
\* engine gets the operator's words without the launcher's, whole and in their
\* order, whatever the texts the handlers made in between
\* (Launch::EngineGetsTheRest, the handlers of CmdLineProcessor).
THEOREM EngineGetsWhatIsMeantForIt == Spec => []EngineGetsTheRest
<1>1. IInv => EngineGetsTheRest
  BY LaunchedFacts DEF EngineGetsTheRest
<1>2. QED BY <1>1, AlwaysIInv, PTL

\* A loop that paces itself has told the engine to run free, by one sys_ticrate
\* and no pingboost (Launch::EngineRunsFreeWhenPaced, TargetFpsHandler).
THEOREM PacedEngineRunsFree == Spec => []EngineRunsFreeWhenPaced
<1>1. ASSUME IInv PROVE EngineRunsFreeWhenPaced
  <2> DEFINE words == Words(engine)
             arg == Plus \o sys_ticrate
             ticrates == {i \in DOMAIN words : IsArg(words[i], sys_ticrate)}
  <2> SUFFICES ASSUME Launched, pingboost = TargetFps
               PROVE  /\ Cardinality(ticrates) = 1
                      /\ OptionOf(words, sys_ticrate) = Zero
                      /\ ~contains(engine, pingboostArg)
    BY DEF EngineRunsFreeWhenPaced
  <2>1. /\ Given \in Seq(Text) /\ engine \in Text /\ Tidy(engine)
        /\ words = ForEngine(Given) /\ words \in Seq(Text)
    BY <1>1, LaunchedFacts
  <2>2. Has(Given, targetfps)
    <3> DEFINE fps == NumberOf(ForEngine(Given), targetfps)
               level == NumberOf(ForEngine(Given), pingboostArg)
    <3>1. /\ ForEngine(Given) \in Seq(Text)
          /\ pingboost = IF fps > 0 THEN TargetFps ELSE Min({Max({level, 0}), level5})
      BY <1>1, LaunchedFacts
    <3>2. fps \in Int /\ level \in Int /\ (fps # 0 => Has(ForEngine(Given), targetfps))
      BY <3>1, NamesDiffer, NumberIsGiven
    <3> HIDE DEF fps, level
    <3>3. Min({Max({level, 0}), level5}) # TargetFps
      <4>1. Min({Max({level, 0}), level5}) \in 0..5
        BY <3>2, LevelBound DEF level5
      <4>2. QED BY <4>1 DEF TargetFps
    <3>4. fps > 0
      BY <3>1, <3>3
    <3>5. Has(ForEngine(Given), targetfps)
      BY <3>2, <3>4
    <3>6. QED BY <2>1, <3>5, ForEngineFacts
  <2>3. PICK rest \in Seq(Text) : ForEngine(Given) = rest \o <<arg, Zero>> /\ ~Has(rest, sys_ticrate)
    BY <2>1, <2>2, ForEngineEnd
  <2>4. arg \in Text /\ IsArg(arg, sys_ticrate) /\ sys_ticrate \in Names /\ sys_ticrate \in Text
    BY ArgWord, NamesDiffer, ArgTypes DEF IsArg
  <2>5. Zero \in Text /\ ~IsArg(Zero, sys_ticrate)
    BY <2>4, ZeroFacts, ArgIsSigned
  <2> HIDE DEF arg
  <2> DEFINE end == <<arg, Zero>>
  <2>6. end \in Seq(Text) /\ Len(end) = 2 /\ end[1] = arg /\ end[2] = Zero /\ end = <<arg>> \o <<Zero>>
    BY <2>4, <2>5, PairFacts
  <2> HIDE DEF words, end
  <2>7. words = rest \o end
    BY <2>1, <2>3 DEF end
  <2>8. ticrates = {Len(rest) + 1}
    <3>1. /\ Len(rest) \in Nat /\ DOMAIN words = 1..Len(rest) + 2
          /\ \A i \in 1..Len(rest) : words[i] = rest[i]
          /\ words[Len(rest) + 1] = arg /\ words[Len(rest) + 2] = Zero
      BY <2>6, <2>7
    <3>2. \A i \in 1..Len(rest) : ~IsArg(rest[i], sys_ticrate)
      BY <2>3 DEF Has
    <3>3. ASSUME NEW i \in DOMAIN words PROVE IsArg(words[i], sys_ticrate) <=> i = Len(rest) + 1
      <4>1. CASE i \in 1..Len(rest)
        BY <3>1, <3>2, <4>1
      <4>2. CASE i = Len(rest) + 1
        BY <2>4, <3>1, <4>2
      <4>3. CASE i = Len(rest) + 2
        BY <2>5, <3>1, <4>3
      <4>4. QED BY <3>1, <4>1, <4>2, <4>3
    <3>4. Len(rest) + 1 \in DOMAIN words
      BY <3>1
    <3>5. QED BY <3>3, <3>4
  <2>9. Cardinality(ticrates) = 1
    BY <2>8, FS_Singleton
  <2>10. OptionOf(words, sys_ticrate) = Zero
    <3>1. /\ <<Zero>> \in Seq(Text) /\ ~Has(<<Zero>>, sys_ticrate)
          /\ BeginsWithOption(<<Zero>>) /\ Head(<<Zero>>) = Zero
      BY <2>4, EndFacts
    <3>2. OptionOf(rest \o (<<arg>> \o <<Zero>>), sys_ticrate) = Zero
      BY <2>4, <3>1, OptionOfCut
    <3>3. QED BY <2>6, <2>7, <3>2, Zenon
  <2>11. ~contains(engine, pingboostArg)
    <3>1. pingboostArg \in Names /\ remove_argument_prefix(pingboostArg) = pingboostArg
      BY NamesDiffer, ArgTypes
    <3>2. ~Has(ForEngine(Given), pingboostArg)
      BY <2>1, <2>2, ForEngineFacts
    <3>3. contains(engine, pingboostArg) <=> Has(Words(engine), pingboostArg)
      BY <2>1, <3>1, ContainsHas
    <3>4. Words(engine) = ForEngine(Given)
      BY <2>1 DEF words
    <3>5. QED BY <3>2, <3>3, <3>4
  <2>12. QED BY <2>9, <2>10, <2>11
<1>2. QED BY <1>1, AlwaysIInv, PTL

\* The loop's level and target are those the operator's words name, though the
\* handlers have changed the text before it reads them
\* (Launch::LoopFollowsOperator, init_server_loop).
THEOREM LoopIsTheOperators == Spec => []LoopFollowsOperator
<1>1. ASSUME IInv PROVE LoopFollowsOperator
  <2> DEFINE fps == NumberOf(Given, targetfps)
             level == IF Has(Given, targetfps) THEN 0 ELSE NumberOf(Given, pingboostArg)
             words == ForEngine(Given)
             fpsLeft == NumberOf(words, targetfps)
             levelLeft == NumberOf(words, pingboostArg)
  <2> SUFFICES ASSUME Launched, OneOptionEach(Given)
               PROVE  /\ target_fps = Max({fps, 0})
                      /\ pingboost = IF fps > 0 THEN TargetFps ELSE Min({Max({level, 0}), level5})
    BY DEF LoopFollowsOperator
  <2>1. /\ Given \in Seq(Text) /\ words \in Seq(Text)
        /\ target_fps = IF fpsLeft > 0 THEN fpsLeft ELSE 0
        /\ pingboost = IF fpsLeft > 0 THEN TargetFps ELSE Min({Max({levelLeft, 0}), level5})
    BY <1>1, LaunchedFacts
  <2>2. targetfps \in Names /\ pingboostArg \in Names
    BY NamesDiffer
  <2>3. fpsLeft = fps
    <3>1. OptionOf(words, targetfps) = OptionOf(Given, targetfps)
      BY <2>1, ForEngineFacts
    <3>2. QED BY <3>1 DEF NumberOf
  <2>4. levelLeft = level
    <3>1. CASE Has(Given, targetfps)
      <4>1. ~Has(words, pingboostArg)
        BY <2>1, <3>1, ForEngineFacts
      <4>2. levelLeft = 0
        BY <2>1, <2>2, <4>1, NumberIsGiven
      <4>3. QED BY <3>1, <4>2
    <3>2. CASE ~Has(Given, targetfps)
      <4>1. OptionOf(words, pingboostArg) = OptionOf(Given, pingboostArg)
        BY <2>1, <3>2, ForEngineFacts
      <4>2. levelLeft = NumberOf(Given, pingboostArg)
        BY <4>1 DEF NumberOf
      <4>3. QED BY <3>2, <4>2
    <3>3. QED BY <3>1, <3>2
  <2>5. fps \in Int
    BY <2>1, <2>2, NumberIsGiven
  <2> HIDE DEF fps, level, fpsLeft, levelLeft, words
  <2>6. Max({fps, 0}) = IF fps >= 0 THEN fps ELSE 0
    BY <2>5, MaxOfTwo
  <2>7. target_fps = Max({fps, 0})
    BY <2>1, <2>3, <2>5, <2>6
  <2>8. QED BY <2>1, <2>3, <2>4, <2>7
<1>2. QED BY <1>1, AlwaysIInv, PTL

\* The log has a file exactly when the operator asked for one, such a log is to be
\* cleared exactly when the operator asked for that too, and the process
\* identifier goes to the file the operator named
\* (Launch::FilesFollowOperator, init_logger and the handlers of the files).
THEOREM FilesAreTheOperators == Spec => []FilesFollowOperator
<1>1. ASSUME IInv PROVE FilesFollowOperator
  <2> SUFFICES ASSUME Launched
               PROVE  /\ logfile # <<>> <=> Has(Given, condebug)
                      /\ Has(Given, condebug) => (cleared # "no" <=> Has(Given, conclearlog))
                      /\ OneOptionEach(Given) => pidfile \in {<<>>, OptionOf(Given, pidfileArg)}
    BY DEF FilesFollowOperator
  <2>1. Given \in Seq(Text) /\ FilesSoFar /\ pc # "logger" /\ pc \in LogSeen
    BY <1>1, LaunchedFacts DEF Launched, LogSeen, Late
  <2>2. OneOptionEach(Given) => OptionOf(ForEngine(Given), pidfileArg) = OptionOf(Given, pidfileArg)
    BY <2>1, ForEngineFacts
  <2>3. QED BY <2>1, <2>2 DEF FilesSoFar
<1>2. QED BY <1>1, AlwaysIInv, PTL
=============================================================================
