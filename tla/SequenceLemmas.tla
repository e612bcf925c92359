--------------------------- MODULE SequenceLemmas ---------------------------
(***************************************************************************)
(* Lemmas about sequences that stand for Go channels, queues and lists:    *)
(* which elements they hold, and in which order, when one is put at the    *)
(* end, taken from the head, or when two are looked at as one.             *)
(***************************************************************************)
EXTENDS Integers, Sequences, Functions, SequenceTheorems, TLAPS

\* A sent element is added to what a channel holds.
LEMMA RangeAppend ==
  ASSUME NEW S, NEW s \in Seq(S), NEW e \in S
  PROVE  Range(Append(s, e)) = Range(s) \cup {e}
<1>1. /\ Append(s, e) \in Seq(S) /\ Len(Append(s, e)) = Len(s) + 1
      /\ \A i \in 1 .. Len(s) : Append(s, e)[i] = s[i]
      /\ Append(s, e)[Len(s) + 1] = e
      /\ Len(s) \in Nat
  BY AppendProperties, LenProperties
<1>2. /\ DOMAIN Append(s, e) = 1 .. (Len(s) + 1)
      /\ DOMAIN s = 1 .. Len(s)
  BY <1>1, LenProperties
<1> HIDE DEF Range
<1>3. ASSUME NEW x \in Range(Append(s, e))
      PROVE  x \in Range(s) \cup {e}
  <2>1. PICK i \in 1 .. (Len(s) + 1) : Append(s, e)[i] = x
    BY <1>2 DEF Range
  <2>2. i \in 1 .. Len(s) \/ i = Len(s) + 1
    BY <1>1
  <2>3. QED
    BY <1>1, <1>2, <2>1, <2>2 DEF Range
<1>4. ASSUME NEW x \in Range(s)
      PROVE  x \in Range(Append(s, e))
  <2>1. PICK i \in 1 .. Len(s) : s[i] = x
    BY <1>2 DEF Range
  <2>2. i \in 1 .. (Len(s) + 1) /\ Append(s, e)[i] = x
    BY <1>1, <2>1
  <2>3. QED
    BY <1>2, <2>2 DEF Range
<1>5. e \in Range(Append(s, e))
  BY <1>1, <1>2 DEF Range
<1>6. QED
  BY <1>3, <1>4, <1>5

\* A received element is what the channel held besides the rest.
LEMMA RangeHeadTail ==
  ASSUME NEW S, NEW s \in Seq(S), s # << >>
  PROVE  Range(s) = {Head(s)} \cup Range(Tail(s))
<1>1. /\ Tail(s) \in Seq(S) /\ Len(Tail(s)) = Len(s) - 1
      /\ \A i \in 1 .. Len(Tail(s)) : Tail(s)[i] = s[i + 1]
      /\ Head(s) = s[1] /\ Len(s) \in Nat /\ Len(s) >= 1
  BY HeadTailProperties, LenProperties, EmptySeq
<1>2. DOMAIN s = 1 .. Len(s) /\ DOMAIN Tail(s) = 1 .. (Len(s) - 1)
  BY <1>1, LenProperties
<1>3. ASSUME NEW x \in Range(s)
      PROVE  x \in {Head(s)} \cup Range(Tail(s))
  <2>1. PICK i \in 1 .. Len(s) : s[i] = x
    BY <1>2 DEF Range
  <2>2. CASE i = 1
    BY <1>1, <2>1, <2>2
  <2>3. CASE i # 1
    <3>1. i - 1 \in 1 .. (Len(s) - 1) /\ Tail(s)[i - 1] = x
      BY <1>1, <2>1, <2>3
    <3>2. QED
      BY <1>2, <3>1 DEF Range
  <2>4. QED
    BY <2>2, <2>3
<1>4. ASSUME NEW x \in Range(Tail(s))
      PROVE  x \in Range(s)
  <2>1. PICK i \in 1 .. (Len(s) - 1) : Tail(s)[i] = x
    BY <1>2 DEF Range
  <2>2. i + 1 \in 1 .. Len(s) /\ s[i + 1] = x
    BY <1>1, <2>1
  <2>3. QED
    BY <1>2, <2>2 DEF Range
<1>5. Head(s) \in Range(s)
  BY <1>1, <1>2 DEF Range
<1>6. QED
  BY <1>3, <1>4, <1>5

\* What was written and what waits, together.
LEMMA RangeConcat ==
  ASSUME NEW S, NEW s \in Seq(S), NEW t \in Seq(S)
  PROVE  Range(s \o t) = Range(s) \cup Range(t)
<1>1. /\ s \o t \in Seq(S) /\ Len(s \o t) = Len(s) + Len(t)
      /\ \A i \in 1 .. Len(s) + Len(t) :
           (s \o t)[i] = IF i <= Len(s) THEN s[i] ELSE t[i - Len(s)]
      /\ Len(s) \in Nat /\ Len(t) \in Nat
  BY ConcatProperties, LenProperties
<1>2. /\ DOMAIN s = 1 .. Len(s) /\ DOMAIN t = 1 .. Len(t)
      /\ DOMAIN (s \o t) = 1 .. (Len(s) + Len(t))
  BY <1>1, LenProperties
<1>3. ASSUME NEW x \in Range(s \o t)
      PROVE  x \in Range(s) \cup Range(t)
  <2>1. PICK i \in 1 .. (Len(s) + Len(t)) : (s \o t)[i] = x
    BY <1>2 DEF Range
  <2>2. CASE i <= Len(s)
    BY <1>1, <1>2, <2>1, <2>2 DEF Range
  <2>3. CASE ~ (i <= Len(s))
    <3>1. i - Len(s) \in 1 .. Len(t) /\ t[i - Len(s)] = x
      BY <1>1, <2>1, <2>3
    <3>2. QED
      BY <1>2, <3>1 DEF Range
  <2>4. QED
    BY <2>2, <2>3
<1>4. ASSUME NEW x \in Range(s)
      PROVE  x \in Range(s \o t)
  <2>1. PICK i \in 1 .. Len(s) : s[i] = x
    BY <1>2 DEF Range
  <2>2. i \in 1 .. (Len(s) + Len(t)) /\ (s \o t)[i] = x
    BY <1>1, <2>1
  <2>3. QED
    BY <1>2, <2>2 DEF Range
<1>5. ASSUME NEW x \in Range(t)
      PROVE  x \in Range(s \o t)
  <2>1. PICK i \in 1 .. Len(t) : t[i] = x
    BY <1>2 DEF Range
  <2>2. i + Len(s) \in 1 .. (Len(s) + Len(t)) /\ (s \o t)[i + Len(s)] = x
    BY <1>1, <2>1
  <2>3. QED
    BY <1>2, <2>2 DEF Range
<1>6. QED
  BY <1>3, <1>4, <1>5

\* Every earlier element of s is in the relation R to every later one.
Sorted(s, R) == \A i, j \in DOMAIN s : i < j => <<s[i], s[j]>> \in R

\* An element that all others precede may be sent,
LEMMA SortedAppend ==
  ASSUME NEW S, NEW R, NEW s \in Seq(S), NEW e \in S, Sorted(s, R),
         \A x \in Range(s) : <<x, e>> \in R
  PROVE  Sorted(Append(s, e), R)
<1>1. /\ Append(s, e) \in Seq(S) /\ Len(Append(s, e)) = Len(s) + 1
      /\ \A i \in 1 .. Len(s) : Append(s, e)[i] = s[i]
      /\ Append(s, e)[Len(s) + 1] = e
      /\ Len(s) \in Nat
  BY AppendProperties, LenProperties
<1>2. DOMAIN Append(s, e) = 1 .. (Len(s) + 1) /\ DOMAIN s = 1 .. Len(s)
  BY <1>1, LenProperties
<1>3. \A i \in 1 .. Len(s) : <<s[i], e>> \in R
  BY <1>2 DEF Range
<1>4. ASSUME NEW i \in 1 .. (Len(s) + 1), NEW j \in 1 .. (Len(s) + 1), i < j
      PROVE  <<Append(s, e)[i], Append(s, e)[j]>> \in R
  <2>1. i \in 1 .. Len(s) /\ (j \in 1 .. Len(s) \/ j = Len(s) + 1)
    BY <1>1, <1>4
  <2>2. QED
    BY <1>1, <1>2, <1>3, <1>4, <2>1 DEF Sorted
<1>5. QED
  BY <1>2, <1>4 DEF Sorted

\* the head precedes what remains when it is received,
LEMMA SortedTail ==
  ASSUME NEW S, NEW R, NEW s \in Seq(S), s # << >>, Sorted(s, R)
  PROVE  Sorted(Tail(s), R) /\ \A y \in Range(Tail(s)) : <<Head(s), y>> \in R
<1>1. /\ Tail(s) \in Seq(S) /\ Len(Tail(s)) = Len(s) - 1
      /\ \A i \in 1 .. Len(Tail(s)) : Tail(s)[i] = s[i + 1]
      /\ Head(s) = s[1] /\ Len(s) \in Nat /\ Len(s) >= 1
  BY HeadTailProperties, LenProperties, EmptySeq
<1>2. DOMAIN s = 1 .. Len(s) /\ DOMAIN Tail(s) = 1 .. (Len(s) - 1)
  BY <1>1, LenProperties
<1>3. ASSUME NEW i \in 1 .. (Len(s) - 1), NEW j \in 1 .. (Len(s) - 1), i < j
      PROVE  <<Tail(s)[i], Tail(s)[j]>> \in R
  <2>1. i + 1 \in 1 .. Len(s) /\ j + 1 \in 1 .. Len(s) /\ i + 1 < j + 1
    BY <1>1, <1>3
  <2>2. QED
    BY <1>1, <1>2, <2>1 DEF Sorted
<1>4. ASSUME NEW i \in 1 .. (Len(s) - 1)
      PROVE  <<Head(s), Tail(s)[i]>> \in R
  <2>1. i + 1 \in 1 .. Len(s) /\ 1 < i + 1 /\ 1 \in 1 .. Len(s)
    BY <1>1
  <2>2. QED
    BY <1>1, <1>2, <2>1 DEF Sorted
<1>5. QED
  BY <1>2, <1>3, <1>4 DEF Sorted, Range

\* and two sequences are in order when all of one precedes all of the other.
LEMMA SortedConcat ==
  ASSUME NEW S, NEW R, NEW s \in Seq(S), NEW t \in Seq(S), Sorted(s, R), Sorted(t, R),
         \A x \in Range(s), y \in Range(t) : <<x, y>> \in R
  PROVE  Sorted(s \o t, R)
<1>1. /\ s \o t \in Seq(S) /\ Len(s \o t) = Len(s) + Len(t)
      /\ \A i \in 1 .. Len(s) + Len(t) :
           (s \o t)[i] = IF i <= Len(s) THEN s[i] ELSE t[i - Len(s)]
      /\ Len(s) \in Nat /\ Len(t) \in Nat
  BY ConcatProperties, LenProperties
<1>2. /\ DOMAIN s = 1 .. Len(s) /\ DOMAIN t = 1 .. Len(t)
      /\ DOMAIN (s \o t) = 1 .. (Len(s) + Len(t))
  BY <1>1, LenProperties
<1>3. \A i \in 1 .. Len(s), j \in 1 .. Len(t) : <<s[i], t[j]>> \in R
  BY <1>2 DEF Range
<1>4. ASSUME NEW i \in 1 .. (Len(s) + Len(t)), NEW j \in 1 .. (Len(s) + Len(t)), i < j
      PROVE  <<(s \o t)[i], (s \o t)[j]>> \in R
  <2>1. CASE j <= Len(s)
    <3>1. i \in 1 .. Len(s) /\ j \in 1 .. Len(s)
      BY <1>1, <1>4, <2>1
    <3>2. QED
      BY <1>1, <1>2, <1>4, <3>1 DEF Sorted
  <2>2. CASE i <= Len(s) /\ ~ (j <= Len(s))
    <3>1. i \in 1 .. Len(s) /\ j - Len(s) \in 1 .. Len(t)
      BY <1>1, <1>4, <2>2
    <3>2. QED
      BY <1>1, <1>3, <2>2, <3>1
  <2>3. CASE ~ (i <= Len(s))
    <3>1. /\ i - Len(s) \in 1 .. Len(t) /\ j - Len(s) \in 1 .. Len(t)
          /\ i - Len(s) < j - Len(s) /\ ~ (j <= Len(s))
      BY <1>1, <1>4, <2>3
    <3>2. QED
      BY <1>1, <1>2, <2>3, <3>1 DEF Sorted
  <2>4. QED
    BY <1>1, <1>4, <2>1, <2>2, <2>3
<1>5. QED
  BY <1>2, <1>4 DEF Sorted

\* A list without its element at a position.
Cut(s, p) == SubSeq(s, 1, p - 1) \o SubSeq(s, p + 1, Len(s))

\* Where the elements that stay are.
LEMMA CutProperties ==
  ASSUME NEW S, NEW s \in Seq(S), NEW p \in 1 .. Len(s)
  PROVE  /\ Cut(s, p) \in Seq(S) /\ Len(Cut(s, p)) = Len(s) - 1
         /\ \A j \in 1 .. (Len(s) - 1) :
              Cut(s, p)[j] = IF j < p THEN s[j] ELSE s[j + 1]
<1> DEFINE a == SubSeq(s, 1, p - 1)
           b == SubSeq(s, p + 1, Len(s))
<1>1. /\ Len(s) \in Nat /\ p - 1 \in Nat
      /\ 1 \in 1 .. (Len(s) + 1) /\ p - 1 \in (1 - 1) .. Len(s)
      /\ p + 1 \in 1 .. (Len(s) + 1) /\ Len(s) \in ((p + 1) - 1) .. Len(s)
  BY LenProperties
<1>2. /\ a \in Seq(S) /\ Len(a) = p - 1
      /\ \A j \in 1 .. (p - 1) : a[j] = s[j]
  BY <1>1, SubSeqProperties
<1>3. /\ b \in Seq(S) /\ Len(b) = Len(s) - p
      /\ \A j \in 1 .. (Len(s) - p) : b[j] = s[p + j]
  BY <1>1, SubSeqProperties
<1> HIDE DEF a, b
<1>4. /\ a \o b \in Seq(S) /\ Len(a \o b) = Len(s) - 1
      /\ \A j \in 1 .. (Len(s) - 1) :
           (a \o b)[j] = IF j <= p - 1 THEN a[j] ELSE b[j - (p - 1)]
  <2>1. /\ a \o b \in Seq(S) /\ Len(a \o b) = Len(a) + Len(b)
        /\ \A j \in 1 .. Len(a) + Len(b) :
             (a \o b)[j] = IF j <= Len(a) THEN a[j] ELSE b[j - Len(a)]
    BY <1>2, <1>3, ConcatProperties
  <2>2. Len(a) + Len(b) = Len(s) - 1
    BY <1>1, <1>2, <1>3
  <2>3. QED
    BY <1>2, <2>1, <2>2
<1>5. ASSUME NEW j \in 1 .. (Len(s) - 1)
      PROVE  (a \o b)[j] = IF j < p THEN s[j] ELSE s[j + 1]
  <2>1. CASE j < p
    BY <1>1, <1>2, <1>4, <2>1
  <2>2. CASE ~ (j < p)
    <3>1. j - (p - 1) \in 1 .. (Len(s) - p) /\ p + (j - (p - 1)) = j + 1
      BY <1>1, <2>2
    <3>2. QED
      BY <1>1, <1>3, <1>4, <2>2, <3>1
  <2>3. QED
    BY <2>1, <2>2
<1>6. QED
  BY <1>4, <1>5 DEF Cut, a, b

\* What stays is in the same order, and is apart from what was taken.
LEMMA SortedCut ==
  ASSUME NEW S, NEW R, NEW s \in Seq(S), NEW p \in 1 .. Len(s), Sorted(s, R)
  PROVE  /\ Sorted(Cut(s, p), R)
         /\ Range(s) = {s[p]} \cup Range(Cut(s, p))
         /\ \A x \in Range(Cut(s, p)) : <<x, s[p]>> \in R \/ <<s[p], x>> \in R
<1> DEFINE t == Cut(s, p)
<1>1. /\ t \in Seq(S) /\ Len(t) = Len(s) - 1 /\ Len(s) \in Nat
      /\ \A j \in 1 .. (Len(s) - 1) : t[j] = IF j < p THEN s[j] ELSE s[j + 1]
  BY CutProperties, LenProperties
<1> HIDE DEF t
<1>2. DOMAIN s = 1 .. Len(s) /\ DOMAIN t = 1 .. (Len(s) - 1)
  BY <1>1, LenProperties
<1>3. ASSUME NEW i \in 1 .. (Len(s) - 1), NEW j \in 1 .. (Len(s) - 1), i < j
      PROVE  <<t[i], t[j]>> \in R
  <2> DEFINE k == IF i < p THEN i ELSE i + 1
             l == IF j < p THEN j ELSE j + 1
  <2>1. k \in 1 .. Len(s) /\ l \in 1 .. Len(s) /\ k < l
    BY <1>1, <1>3
  <2>2. t[i] = s[k] /\ t[j] = s[l]
    BY <1>1
  <2> HIDE DEF k, l
  <2>3. QED
    BY <1>2, <2>1, <2>2 DEF Sorted
<1>4. ASSUME NEW x \in Range(t)
      PROVE  \E k \in 1 .. Len(s) : k # p /\ x = s[k]
  <2>1. PICK j \in 1 .. (Len(s) - 1) : x = t[j]
    BY <1>2 DEF Range
  <2>2. QED
    BY <1>1, <2>1
<1>5. ASSUME NEW k \in 1 .. Len(s), k # p
      PROVE  s[k] \in Range(t)
  <2>1. PICK j \in 1 .. (Len(s) - 1) : s[k] = t[j]
    <3>1. CASE k < p
      BY <1>1, <3>1
    <3>2. CASE k > p
      <4>1. k - 1 \in 1 .. (Len(s) - 1) /\ t[k - 1] = s[k]
        BY <1>1, <3>2
      <4>2. QED
        BY <4>1
    <3>3. QED
      BY <1>5, <3>1, <3>2
  <2>2. QED
    BY <1>2, <2>1 DEF Range
<1>6. Range(s) = {s[p]} \cup Range(t)
  BY <1>2, <1>4, <1>5 DEF Range
<1>7. ASSUME NEW x \in Range(t)
      PROVE  <<x, s[p]>> \in R \/ <<s[p], x>> \in R
  <2>1. PICK k \in 1 .. Len(s) : k # p /\ x = s[k]
    BY <1>4
  <2>2. k < p \/ p < k
    BY <2>1
  <2>3. QED
    BY <1>2, <2>1, <2>2 DEF Sorted
<1>8. QED
  BY <1>2, <1>3, <1>6, <1>7 DEF Sorted, t

\* The last element comes after all the others.
LEMMA SortedFront ==
  ASSUME NEW S, NEW R, NEW s \in Seq(S), s # << >>, Sorted(s, R)
  PROVE  /\ SubSeq(s, 1, Len(s) - 1) \in Seq(S)
         /\ Len(SubSeq(s, 1, Len(s) - 1)) = Len(s) - 1
         /\ Sorted(SubSeq(s, 1, Len(s) - 1), R)
         /\ Range(s) = {s[Len(s)]} \cup Range(SubSeq(s, 1, Len(s) - 1))
         /\ \A x \in Range(SubSeq(s, 1, Len(s) - 1)) : <<x, s[Len(s)]>> \in R
<1> DEFINE t == SubSeq(s, 1, Len(s) - 1)
<1>1. /\ Len(s) \in Nat \ {0}
      /\ 1 \in 1 .. (Len(s) + 1) /\ Len(s) - 1 \in (1 - 1) .. Len(s)
  BY LenProperties, EmptySeq
<1>2. /\ t \in Seq(S) /\ Len(t) = Len(s) - 1
      /\ \A j \in 1 .. (Len(s) - 1) : t[j] = s[j]
  <2>1. \A j \in 1 .. (Len(s) - 1) : s[j] \in S
    BY <1>1, ElementOfSeq
  <2>2. PICK n \in Nat : n = Len(s) - 1
    BY <1>1
  <2>3. /\ SubSeq(s, 1, n) \in Seq(S) /\ Len(SubSeq(s, 1, n)) = n
        /\ \A j \in 1 .. n : SubSeq(s, 1, n)[j] = s[j]
    <3>1. 1 \in Int /\ n \in Int /\ \A j \in 1 .. n : s[j] \in S
      BY <2>1, <2>2
    <3>2. /\ SubSeq(s, 1, n) \in Seq(S)
          /\ Len(SubSeq(s, 1, n)) = IF 1 <= n THEN n - 1 + 1 ELSE 0
          /\ \A j \in 1 .. n - 1 + 1 : SubSeq(s, 1, n)[j] = s[1 + j - 1]
      BY <3>1, SubSeqProperties
    <3>3. QED
      BY <3>2
  <2>4. QED
    BY <2>2, <2>3
<1> HIDE DEF t
<1>3. DOMAIN s = 1 .. Len(s) /\ DOMAIN t = 1 .. (Len(s) - 1)
  BY <1>2, LenProperties
<1>4. Sorted(t, R)
  BY <1>1, <1>2, <1>3 DEF Sorted
<1>5. Range(t) = {s[j] : j \in 1 .. (Len(s) - 1)}
  BY <1>2, <1>3 DEF Range
<1>6. Range(s) = {s[Len(s)]} \cup Range(t)
  <2>1. 1 .. Len(s) = {Len(s)} \cup 1 .. (Len(s) - 1)
    BY <1>1
  <2>2. Range(s) = {s[j] : j \in 1 .. Len(s)}
    BY <1>3 DEF Range
  <2>3. QED
    BY <1>5, <2>1, <2>2
<1>7. \A x \in Range(t) : <<x, s[Len(s)]>> \in R
  <2>1. \A j \in 1 .. (Len(s) - 1) : j \in DOMAIN s /\ Len(s) \in DOMAIN s /\ j < Len(s)
    BY <1>1, <1>3
  <2>2. QED
    BY <1>5, <2>1 DEF Sorted
<1>8. QED
  BY <1>2, <1>4, <1>6, <1>7 DEF t

\* An element that precedes all others may be put in front.
LEMMA SortedPush ==
  ASSUME NEW S, NEW R, NEW s \in Seq(S), NEW e \in S
  PROVE  /\ <<e>> \o s \in Seq(S) /\ Len(<<e>> \o s) = Len(s) + 1
         /\ Range(<<e>> \o s) = {e} \cup Range(s)
         /\ Sorted(s, R) /\ (\A x \in Range(s) : <<e, x>> \in R)
              => Sorted(<<e>> \o s, R)
<1>1. /\ <<e>> \in Seq(S) /\ Len(<<e>>) = 1 /\ Len(s) \in Nat
      /\ Range(<<e>>) = {e} /\ Sorted(<<e>>, R)
  BY LenProperties DEF Range, Sorted
<1>2. PICK u \in Seq(S) : u = <<e>>
  BY <1>1
<1>3. /\ u \o s \in Seq(S) /\ Len(u \o s) = Len(s) + 1
  BY <1>1, <1>2, ConcatProperties
<1>4. Range(u \o s) = {e} \cup Range(s)
  <2>1. Range(u \o s) = Range(u) \cup Range(s)
    BY RangeConcat
  <2>2. QED
    BY <1>1, <1>2, <2>1
<1>5. ASSUME Sorted(s, R), \A x \in Range(s) : <<e, x>> \in R
      PROVE  Sorted(u \o s, R)
  BY <1>1, <1>2, <1>5, SortedConcat
<1>6. QED
  BY <1>2, <1>3, <1>4, <1>5

(***************************************************************************)
(* A list of entries, each with a key of its own, in some order R: the     *)
(* list of an LRU cache.  Where the order is that of a history, an         *)
(* operation changes it for the key it concerns.                           *)
(***************************************************************************)
KeysOf(s) == {x.key : x \in Range(s)}
\* The order Q holds wherever R does, where the key k is not concerned.
Extends(Q, R, k, S) ==
  \A x, y \in S : <<x, y>> \in R /\ x.key # k /\ y.key # k => <<x, y>> \in Q
TellsApart(R, S) == \A x, y \in S : <<x, y>> \in R => x.key # y.key

\* An entry that is taken out is the only one of its key.
LEMMA ListDelete ==
  ASSUME NEW S, NEW R, NEW Q, NEW s \in Seq(S), NEW p \in 1 .. Len(s), NEW k,
         k = s[p].key, Sorted(s, R), TellsApart(R, S), Extends(Q, R, k, S)
  PROVE  /\ Cut(s, p) \in Seq(S) /\ Len(Cut(s, p)) = Len(s) - 1
         /\ Sorted(Cut(s, p), Q)
         /\ \A x : x \in Range(Cut(s, p)) <=> x \in Range(s) /\ x.key # k
<1>1. /\ Cut(s, p) \in Seq(S) /\ Len(Cut(s, p)) = Len(s) - 1
      /\ Sorted(Cut(s, p), R)
      /\ Range(s) = {s[p]} \cup Range(Cut(s, p))
      /\ \A x \in Range(Cut(s, p)) : <<x, s[p]>> \in R \/ <<s[p], x>> \in R
  BY CutProperties, SortedCut
<1>2. s[p] \in S
  BY ElementOfSeq
<1> DEFINE t == Cut(s, p)
<1>3. \A x \in Range(t) : x \in S
  BY <1>1, ElementOfSeq, LenProperties DEF Range
<1>4. \A x \in Range(t) : x.key # k
  BY <1>1, <1>2, <1>3 DEF TellsApart
<1>5. \A i \in DOMAIN t : t[i] \in Range(t)
  BY DEF Range
<1> HIDE DEF t
<1>6. Sorted(t, Q)
  BY <1>1, <1>3, <1>4, <1>5 DEF Sorted, Extends, t
<1>7. \A x : x \in Range(t) <=> x \in Range(s) /\ x.key # k
  BY <1>1, <1>4 DEF t
<1>8. QED
  BY <1>1, <1>6, <1>7 DEF t

\* An entry that is used comes to the front.
LEMMA ListUse ==
  ASSUME NEW S, NEW R, NEW Q, NEW s \in Seq(S), NEW p \in 1 .. Len(s), NEW e \in S, NEW k,
         e.key = k, k = s[p].key, Sorted(s, R), TellsApart(R, S), Extends(Q, R, k, S),
         \A y \in Range(s) : y.key # k => <<e, y>> \in Q
  PROVE  /\ <<e>> \o Cut(s, p) \in Seq(S) /\ Len(<<e>> \o Cut(s, p)) = Len(s)
         /\ Sorted(<<e>> \o Cut(s, p), Q)
         /\ \A x : x \in Range(<<e>> \o Cut(s, p))
                    <=> x = e \/ (x \in Range(s) /\ x.key # k)
<1>1. PICK t \in Seq(S) : t = Cut(s, p)
  BY CutProperties
<1>2. /\ Len(t) = Len(s) - 1 /\ Sorted(t, Q) /\ Len(s) \in Nat
      /\ \A x : x \in Range(t) <=> x \in Range(s) /\ x.key # k
  <2>1. /\ Len(Cut(s, p)) = Len(s) - 1 /\ Sorted(Cut(s, p), Q)
        /\ \A x : x \in Range(Cut(s, p)) <=> x \in Range(s) /\ x.key # k
    BY ListDelete
  <2>2. QED
    BY <1>1, <2>1, LenProperties
<1>3. \A x \in Range(t) : <<e, x>> \in Q
  BY <1>2
<1>4. /\ <<e>> \o t \in Seq(S) /\ Len(<<e>> \o t) = Len(t) + 1
      /\ Range(<<e>> \o t) = {e} \cup Range(t)
      /\ Sorted(<<e>> \o t, Q)
  BY <1>2, <1>3, SortedPush
<1>5. QED
  BY <1>1, <1>2, <1>4

\* A new entry in front, which takes the place of the last one when the list is
\* full.
Pushed(s, e, cap) ==
  <<e>> \o (IF Len(s) >= cap THEN SubSeq(s, 1, Len(s) - 1) ELSE s)

\* The list stays in order, within the capacity.
LEMMA ListInsert ==
  ASSUME NEW S, NEW R, NEW Q, NEW s \in Seq(S), NEW e \in S, NEW k, e.key = k,
         NEW cap \in Nat \ {0}, Len(s) <= cap, k \notin KeysOf(s),
         Sorted(s, R), TellsApart(R, S), Extends(Q, R, k, S),
         \A y \in Range(s) : <<e, y>> \in Q
  PROVE  /\ Pushed(s, e, cap) \in Seq(S) /\ Len(Pushed(s, e, cap)) <= cap
         /\ Sorted(Pushed(s, e, cap), Q)
         /\ \A x : x \in Range(Pushed(s, e, cap))
                    <=> \/ x = e
                        \/ /\ x \in Range(s)
                           /\ Len(s) >= cap => x.key # s[Len(s)].key
<1> DEFINE t == Pushed(s, e, cap)
<1>1. Len(s) \in Nat /\ (\A x \in Range(s) : x \in S /\ x.key # k)
  BY ElementOfSeq, LenProperties DEF KeysOf, Range
<1>2. Sorted(s, Q)
  <2>1. \A i \in DOMAIN s : s[i] \in Range(s)
    BY DEF Range
  <2>2. QED
    BY <1>1, <2>1 DEF Sorted, Extends
<1>3. CASE Len(s) >= cap
  <2>1. s # << >> /\ s[Len(s)] \in S
    BY <1>1, <1>3, ElementOfSeq, EmptySeq
  <2>2. PICK u \in Seq(S) : u = SubSeq(s, 1, Len(s) - 1)
    BY <1>2, <2>1, SortedFront
  <2>3. /\ Len(u) = Len(s) - 1 /\ Sorted(u, Q)
        /\ Range(s) = {s[Len(s)]} \cup Range(u)
        /\ \A x \in Range(u) : <<x, s[Len(s)]>> \in R
    BY <1>2, <2>1, <2>2, SortedFront
  <2>4. \A x \in Range(u) : x.key # s[Len(s)].key
    <3>1. \A x \in Range(u) : x \in S
      BY <1>1, <2>3
    <3>2. QED
      BY <2>1, <2>3, <3>1 DEF TellsApart
  <2>5. \A x : x \in Range(u) <=> x \in Range(s) /\ x.key # s[Len(s)].key
    BY <2>3, <2>4
  <2>6. \A x \in Range(u) : <<e, x>> \in Q
    BY <2>3
  <2>7. /\ <<e>> \o u \in Seq(S) /\ Len(<<e>> \o u) = Len(u) + 1
        /\ Range(<<e>> \o u) = {e} \cup Range(u) /\ Sorted(<<e>> \o u, Q)
    BY <2>3, <2>6, SortedPush
  <2>8. t = <<e>> \o u
    BY <1>3, <2>2 DEF Pushed
  <2>9. t \in Seq(S) /\ Len(t) = Len(s) /\ Sorted(t, Q)
    <3> HIDE DEF t
    <3>1. QED
      BY <1>1, <2>3, <2>7, <2>8
  <2>10. \A x : x \in Range(t) <=> x = e \/ (x \in Range(s) /\ x.key # s[Len(s)].key)
    BY <2>5, <2>7, <2>8
  <2>11. QED
    BY <1>3, <2>9, <2>10
<1>4. CASE ~ (Len(s) >= cap)
  <2>1. t = <<e>> \o s
    BY <1>4 DEF Pushed
  <2>2. /\ <<e>> \o s \in Seq(S) /\ Len(<<e>> \o s) = Len(s) + 1
        /\ Range(<<e>> \o s) = {e} \cup Range(s) /\ Sorted(<<e>> \o s, Q)
    BY <1>2, SortedPush
  <2>3. QED
    BY <1>1, <1>4, <2>1, <2>2
<1>5. QED
  BY <1>3, <1>4
=============================================================================
