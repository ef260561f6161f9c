----------------------------- MODULE ListLemmas -----------------------------
(* What insertion into and removal from a list without repetitions does to *)
(* its elements, remainders, and what a recursive function over numbers    *)
(* computes: the lemmas that the proofs of more than one component cite.   *)
EXTENDS Integers, SequencesExt, SequenceTheorems, NaturalsInduction, WellFoundedInduction, TLAPS

Distinct(s) == \A i, j \in DOMAIN s : s[i] = s[j] => i = j

\* A sequence over S has its elements in S, and a domain that starts at 1.
LEMMA ListType ==
  ASSUME NEW S, NEW s \in Seq(S)
  PROVE  /\ Len(s) \in Nat /\ DOMAIN s = 1 .. Len(s)
         /\ \A i \in 1 .. Len(s) : s[i] \in S
         /\ ToSet(s) = {s[i] : i \in 1 .. Len(s)}
         /\ ToSet(s) \subseteq S
<1>1. Len(s) \in Nat /\ DOMAIN s = 1 .. Len(s) /\ s \in [1 .. Len(s) -> S]
  BY LenProperties
<1> QED  BY <1>1 DEF ToSet

\* The shape of InsertAt, index by index.
LEMMA InsertAtShape ==
  ASSUME NEW S, NEW s \in Seq(S), NEW e \in S, NEW i \in 1 .. Len(s) + 1
  PROVE  /\ InsertAt(s, i, e) \in Seq(S)
         /\ Len(InsertAt(s, i, e)) = Len(s) + 1
         /\ \A j \in 1 .. Len(s) + 1 :
              InsertAt(s, i, e)[j] = IF j < i THEN s[j]
                                     ELSE IF j = i THEN e ELSE s[j - 1]
<1> DEFINE a == SubSeq(s, 1, i - 1)
           c == SubSeq(s, i, Len(s))
           ab == a \o <<e>>
<1>0. Len(s) \in Nat /\ (\A j \in 1 .. Len(s) : s[j] \in S)
  BY ListType
<1>1. /\ a \in Seq(S) /\ Len(a) = i - 1
      /\ \A j \in 1 .. i - 1 : a[j] = s[j]
  <2>1. \A j \in 1 .. i - 1 : s[j] \in S  BY <1>0
  <2>2. a \in Seq(S) /\ Len(a) = (IF 1 <= i - 1 THEN (i - 1) - 1 + 1 ELSE 0)
        /\ \A j \in 1 .. (i - 1) - 1 + 1 : a[j] = s[1 + j - 1]
    BY <1>0, <2>1, SubSeqProperties
  <2> QED  BY <1>0, <2>2
<1>2. /\ c \in Seq(S) /\ Len(c) = Len(s) - i + 1
      /\ \A j \in 1 .. Len(s) - i + 1 : c[j] = s[i + j - 1]
  <2>1. \A j \in i .. Len(s) : s[j] \in S  BY <1>0
  <2>2. c \in Seq(S) /\ Len(c) = (IF i <= Len(s) THEN Len(s) - i + 1 ELSE 0)
        /\ \A j \in 1 .. Len(s) - i + 1 : c[j] = s[i + j - 1]
    BY <1>0, <2>1, SubSeqProperties
  <2> QED  BY <1>0, <2>2
<1>3. <<e>> \in Seq(S) /\ Len(<<e>>) = 1 /\ <<e>>[1] = e
  OBVIOUS
<1>4. /\ ab \in Seq(S) /\ Len(ab) = i
      /\ \A j \in 1 .. i : ab[j] = IF j <= i - 1 THEN a[j] ELSE <<e>>[j - (i - 1)]
  <2>1. ab \in Seq(S) /\ Len(ab) = Len(a) + Len(<<e>>)
        /\ \A j \in 1 .. Len(a) + Len(<<e>>) :
             ab[j] = IF j <= Len(a) THEN a[j] ELSE <<e>>[j - Len(a)]
    BY <1>1, <1>3, ConcatProperties
  <2> QED  BY <1>0, <1>1, <1>3, <2>1
<1>5. \A j \in 1 .. i : ab[j] = IF j < i THEN s[j] ELSE e
  BY <1>0, <1>1, <1>3, <1>4
<1>6. InsertAt(s, i, e) = ab \o c
  BY DEF InsertAt
<1> HIDE DEF a, c, ab
<1>7. /\ ab \o c \in Seq(S) /\ Len(ab \o c) = Len(s) + 1
      /\ \A j \in 1 .. Len(s) + 1 : (ab \o c)[j] = IF j <= i THEN ab[j] ELSE c[j - i]
  <2>1. ab \o c \in Seq(S) /\ Len(ab \o c) = Len(ab) + Len(c)
        /\ \A j \in 1 .. Len(ab) + Len(c) :
             (ab \o c)[j] = IF j <= Len(ab) THEN ab[j] ELSE c[j - Len(ab)]
    BY <1>2, <1>4, ConcatProperties
  <2> QED  BY <1>0, <1>2, <1>4, <2>1
<1>8. ASSUME NEW j \in 1 .. Len(s) + 1
      PROVE  (ab \o c)[j] = IF j < i THEN s[j] ELSE IF j = i THEN e ELSE s[j - 1]
  <2>1. CASE j <= i
    BY <1>0, <1>5, <1>7, <2>1
  <2>2. CASE j > i
    <3>1. j - i \in 1 .. Len(s) - i + 1  BY <1>0, <2>2
    <3>2. c[j - i] = s[i + (j - i) - 1]  BY <1>2, <3>1
    <3>3. i + (j - i) - 1 = j - 1  BY <1>0
    <3>4. (ab \o c)[j] = c[j - i] /\ ~ (j < i) /\ j # i  BY <1>0, <1>7, <2>2
    <3> QED  BY <3>2, <3>3, <3>4, Zenon
  <2>3. j <= i \/ j > i  BY <1>0
  <2> QED  BY <2>1, <2>2, <2>3, Zenon
<1> QED  BY <1>6, <1>7, <1>8

\* Insertion adds one element and creates no repetition.
LEMMA InsertAtSet ==
  ASSUME NEW S, NEW s \in Seq(S), NEW e \in S, NEW i \in 1 .. Len(s) + 1
  PROVE  /\ InsertAt(s, i, e) \in Seq(S)
         /\ ToSet(InsertAt(s, i, e)) = ToSet(s) \cup {e}
         /\ Distinct(s) /\ e \notin ToSet(s) => Distinct(InsertAt(s, i, e))
<1> DEFINE r == InsertAt(s, i, e)
<1>1. /\ r \in Seq(S) /\ Len(r) = Len(s) + 1
      /\ \A j \in 1 .. Len(s) + 1 :
           r[j] = IF j < i THEN s[j] ELSE IF j = i THEN e ELSE s[j - 1]
  BY InsertAtShape
<1>2. /\ Len(s) \in Nat /\ DOMAIN s = 1 .. Len(s)
      /\ ToSet(s) = {s[j] : j \in 1 .. Len(s)}
  BY ListType
<1>3. DOMAIN r = 1 .. Len(s) + 1 /\ ToSet(r) = {r[j] : j \in 1 .. Len(s) + 1}
  BY <1>1, ListType
<1> HIDE DEF r
<1>4. ToSet(r) = ToSet(s) \cup {e}
  <2>1. ASSUME NEW j \in 1 .. Len(s) + 1  PROVE r[j] \in ToSet(s) \cup {e}
    BY <1>1, <1>2
  <2>2. ASSUME NEW j \in 1 .. Len(s)  PROVE s[j] \in ToSet(r)
    <3>1. CASE j < i  BY <1>1, <1>2, <1>3, <3>1
    <3>2. CASE j >= i
      <4>1. j + 1 \in 1 .. Len(s) + 1 /\ r[j + 1] = s[j]
        BY <1>1, <1>2, <3>2
      <4> QED  BY <1>3, <4>1
    <3> QED  BY <1>2, <3>1, <3>2
  <2>3. e \in ToSet(r)  BY <1>1, <1>2, <1>3
  <2> QED  BY <1>2, <1>3, <2>1, <2>2, <2>3
<1>5. ASSUME Distinct(s), e \notin ToSet(s)  PROVE Distinct(r)
  <2> SUFFICES ASSUME NEW j \in 1 .. Len(s) + 1, NEW k \in 1 .. Len(s) + 1, r[j] = r[k]
               PROVE  j = k
    BY <1>3 DEF Distinct
  <2>1. \A m \in 1 .. Len(s) : s[m] # e  BY <1>2, <1>5
  <2>2. \A m, n \in 1 .. Len(s) : s[m] = s[n] => m = n  BY <1>2, <1>5 DEF Distinct
  <2>3. CASE j = i  BY <1>1, <1>2, <2>1, <2>3
  <2>4. CASE k = i  BY <1>1, <1>2, <2>1, <2>4
  <2>5. CASE j # i /\ k # i
    <3> DEFINE old(m) == IF m < i THEN m ELSE m - 1
    <3>1. old(j) \in 1 .. Len(s) /\ old(k) \in 1 .. Len(s)  BY <1>2, <2>5
    <3>2. r[j] = s[old(j)] /\ r[k] = s[old(k)]  BY <1>1, <1>2, <2>5
    <3>3. old(j) = old(k)  BY <2>2, <3>1, <3>2
    <3> QED  BY <1>2, <2>5, <3>3
  <2> QED  BY <2>3, <2>4, <2>5
<1> QED  BY <1>1, <1>4, <1>5 DEF r

\* The shape of RemoveAt, index by index.
LEMMA RemoveAtShape ==
  ASSUME NEW S, NEW s \in Seq(S), NEW i \in 1 .. Len(s)
  PROVE  /\ RemoveAt(s, i) \in Seq(S)
         /\ Len(RemoveAt(s, i)) = Len(s) - 1
         /\ \A j \in 1 .. Len(s) - 1 :
              RemoveAt(s, i)[j] = IF j < i THEN s[j] ELSE s[j + 1]
<1> DEFINE a == SubSeq(s, 1, i - 1)
           c == SubSeq(s, i + 1, Len(s))
<1>0. Len(s) \in Nat /\ (\A j \in 1 .. Len(s) : s[j] \in S)
  BY ListType
<1>1. /\ a \in Seq(S) /\ Len(a) = i - 1
      /\ \A j \in 1 .. i - 1 : a[j] = s[j]
  <2>1. \A j \in 1 .. i - 1 : s[j] \in S  BY <1>0
  <2>2. a \in Seq(S) /\ Len(a) = (IF 1 <= i - 1 THEN (i - 1) - 1 + 1 ELSE 0)
        /\ \A j \in 1 .. (i - 1) - 1 + 1 : a[j] = s[1 + j - 1]
    BY <1>0, <2>1, SubSeqProperties
  <2> QED  BY <1>0, <2>2
<1>2. /\ c \in Seq(S) /\ Len(c) = Len(s) - i
      /\ \A j \in 1 .. Len(s) - i : c[j] = s[i + j]
  <2>1. \A j \in i + 1 .. Len(s) : s[j] \in S  BY <1>0
  <2>2. c \in Seq(S) /\ Len(c) = (IF i + 1 <= Len(s) THEN Len(s) - (i + 1) + 1 ELSE 0)
        /\ \A j \in 1 .. Len(s) - (i + 1) + 1 : c[j] = s[(i + 1) + j - 1]
    BY <1>0, <2>1, SubSeqProperties
  <2> QED  BY <1>0, <2>2
<1>3. RemoveAt(s, i) = a \o c
  BY DEF RemoveAt
<1> HIDE DEF a, c
<1>4. /\ a \o c \in Seq(S) /\ Len(a \o c) = Len(s) - 1
      /\ \A j \in 1 .. Len(s) - 1 : (a \o c)[j] = IF j <= i - 1 THEN a[j] ELSE c[j - (i - 1)]
  <2>1. a \o c \in Seq(S) /\ Len(a \o c) = Len(a) + Len(c)
        /\ \A j \in 1 .. Len(a) + Len(c) :
             (a \o c)[j] = IF j <= Len(a) THEN a[j] ELSE c[j - Len(a)]
    BY <1>1, <1>2, ConcatProperties
  <2> QED  BY <1>0, <1>1, <1>2, <2>1
<1>5. ASSUME NEW j \in 1 .. Len(s) - 1
      PROVE  (a \o c)[j] = IF j < i THEN s[j] ELSE s[j + 1]
  <2>1. CASE j < i
    BY <1>0, <1>1, <1>4, <2>1
  <2>2. CASE j >= i
    <3>1. j - (i - 1) \in 1 .. Len(s) - i  BY <1>0, <2>2
    <3>2. c[j - (i - 1)] = s[i + (j - (i - 1))]  BY <1>2, <3>1
    <3>3. i + (j - (i - 1)) = j + 1  BY <1>0
    <3>4. (a \o c)[j] = c[j - (i - 1)] /\ ~ (j < i)  BY <1>0, <1>4, <2>2
    <3> QED  BY <3>2, <3>3, <3>4, Zenon
  <2>3. j < i \/ j >= i  BY <1>0
  <2> QED  BY <2>1, <2>2, <2>3, Zenon
<1> QED  BY <1>3, <1>4, <1>5

\* Removal takes away exactly the element it names.
LEMMA RemoveAtSet ==
  ASSUME NEW S, NEW s \in Seq(S), NEW i \in 1 .. Len(s), Distinct(s)
  PROVE  /\ RemoveAt(s, i) \in Seq(S)
         /\ ToSet(RemoveAt(s, i)) = ToSet(s) \ {s[i]}
         /\ Distinct(RemoveAt(s, i))
<1> DEFINE r == RemoveAt(s, i)
<1>1. /\ r \in Seq(S) /\ Len(r) = Len(s) - 1
      /\ \A j \in 1 .. Len(s) - 1 : r[j] = IF j < i THEN s[j] ELSE s[j + 1]
  BY RemoveAtShape
<1>2. /\ Len(s) \in Nat /\ DOMAIN s = 1 .. Len(s)
      /\ ToSet(s) = {s[j] : j \in 1 .. Len(s)}
  BY ListType
<1>3. DOMAIN r = 1 .. Len(s) - 1 /\ ToSet(r) = {r[j] : j \in 1 .. Len(s) - 1}
  BY <1>1, ListType
<1>4. \A m, n \in 1 .. Len(s) : s[m] = s[n] => m = n
  BY <1>2 DEF Distinct
<1> HIDE DEF r
<1>5. ToSet(r) = ToSet(s) \ {s[i]}
  <2>1. ASSUME NEW j \in 1 .. Len(s) - 1  PROVE r[j] \in ToSet(s) \ {s[i]}
    BY <1>1, <1>2, <1>4
  <2>2. ASSUME NEW j \in 1 .. Len(s), s[j] # s[i]  PROVE s[j] \in ToSet(r)
    <3>1. CASE j < i
      BY <1>1, <1>2, <1>3, <3>1
    <3>2. CASE j > i
      <4>1. j - 1 \in 1 .. Len(s) - 1 /\ r[j - 1] = s[j]
        BY <1>1, <1>2, <3>2
      <4> QED  BY <1>3, <4>1
    <3> QED  BY <1>2, <2>2, <3>1, <3>2
  <2> QED  BY <1>2, <1>3, <2>1, <2>2
<1>6. Distinct(r)
  <2> SUFFICES ASSUME NEW j \in 1 .. Len(s) - 1, NEW k \in 1 .. Len(s) - 1, r[j] = r[k]
               PROVE  j = k
    BY <1>3 DEF Distinct
  <2> QED  BY <1>1, <1>2, <1>4
<1> QED  BY <1>1, <1>5, <1>6 DEF r

\* Pushing on the front.
LEMMA PushSet ==
  ASSUME NEW S, NEW s \in Seq(S), NEW e \in S
  PROVE  /\ <<e>> \o s \in Seq(S)
         /\ ToSet(<<e>> \o s) = ToSet(s) \cup {e}
         /\ Distinct(s) /\ e \notin ToSet(s) => Distinct(<<e>> \o s)
<1> DEFINE r == <<e>> \o s
<1>1. <<e>> \in Seq(S) /\ Len(<<e>>) = 1 /\ <<e>>[1] = e
  OBVIOUS
<1>2. /\ Len(s) \in Nat /\ DOMAIN s = 1 .. Len(s)
      /\ ToSet(s) = {s[j] : j \in 1 .. Len(s)}
  BY ListType
<1>3. /\ r \in Seq(S) /\ Len(r) = Len(s) + 1
      /\ \A j \in 1 .. Len(s) + 1 : r[j] = IF j <= 1 THEN <<e>>[j] ELSE s[j - 1]
  <2>1. r \in Seq(S) /\ Len(r) = Len(<<e>>) + Len(s)
        /\ \A j \in 1 .. Len(<<e>>) + Len(s) :
             r[j] = IF j <= Len(<<e>>) THEN <<e>>[j] ELSE s[j - Len(<<e>>)]
    BY <1>1, ConcatProperties
  <2> QED  BY <1>1, <1>2, <2>1
<1>4. DOMAIN r = 1 .. Len(s) + 1 /\ ToSet(r) = {r[j] : j \in 1 .. Len(s) + 1}
  BY <1>3, ListType
<1> HIDE DEF r
<1>5. r[1] = e /\ \A j \in 1 .. Len(s) : r[j + 1] = s[j]
  <2>1. r[1] = e  BY <1>1, <1>2, <1>3
  <2>2. ASSUME NEW j \in 1 .. Len(s)  PROVE r[j + 1] = s[j]
    BY <1>2, <1>3
  <2> QED  BY <2>1, <2>2
<1>6. ToSet(r) = ToSet(s) \cup {e}
  <2>1. ASSUME NEW j \in 1 .. Len(s) + 1  PROVE r[j] \in ToSet(s) \cup {e}
    <3>1. CASE j = 1  BY <1>5, <3>1
    <3>2. CASE j # 1
      <4>1. j - 1 \in 1 .. Len(s) /\ r[(j - 1) + 1] = s[j - 1]  BY <1>2, <1>5, <3>2
      <4> QED  BY <1>2, <4>1
    <3> QED  BY <3>1, <3>2
  <2>2. ASSUME NEW j \in 1 .. Len(s)  PROVE s[j] \in ToSet(r)
    BY <1>2, <1>4, <1>5
  <2>3. e \in ToSet(r)  BY <1>2, <1>4, <1>5
  <2> QED  BY <1>2, <1>4, <2>1, <2>2, <2>3
<1>7. ASSUME Distinct(s), e \notin ToSet(s)  PROVE Distinct(r)
  <2> SUFFICES ASSUME NEW j \in 1 .. Len(s) + 1, NEW k \in 1 .. Len(s) + 1, r[j] = r[k]
               PROVE  j = k
    BY <1>4 DEF Distinct
  <2>1. \A m \in 1 .. Len(s) : s[m] # e  BY <1>2, <1>7
  <2>2. \A m, n \in 1 .. Len(s) : s[m] = s[n] => m = n  BY <1>2, <1>7 DEF Distinct
  <2>3. \A m \in 1 .. Len(s) + 1 : r[m] = IF m = 1 THEN e ELSE s[m - 1]
    BY <1>1, <1>2, <1>3, <1>5
  <2> QED  BY <1>2, <2>1, <2>2, <2>3
<1> QED  BY <1>3, <1>6, <1>7 DEF r

\* Popping the front.
LEMMA PopSet ==
  ASSUME NEW S, NEW s \in Seq(S), s # << >>, Distinct(s)
  PROVE  /\ Head(s) \in S /\ Head(s) \in ToSet(s)
         /\ Tail(s) \in Seq(S)
         /\ ToSet(Tail(s)) = ToSet(s) \ {Head(s)}
         /\ Distinct(Tail(s))
<1>1. /\ Len(s) \in Nat \ {0} /\ DOMAIN s = 1 .. Len(s)
      /\ ToSet(s) = {s[j] : j \in 1 .. Len(s)}
  BY ListType, EmptySeq
<1>2. /\ Head(s) = s[1] /\ Tail(s) \in Seq(S) /\ Len(Tail(s)) = Len(s) - 1
      /\ \A j \in 1 .. Len(s) - 1 : Tail(s)[j] = s[j + 1]
  BY <1>1, HeadTailProperties
<1>3. DOMAIN Tail(s) = 1 .. Len(s) - 1 /\ ToSet(Tail(s)) = {Tail(s)[j] : j \in 1 .. Len(s) - 1}
  BY <1>2, ListType
<1>4. \A m, n \in 1 .. Len(s) : s[m] = s[n] => m = n
  BY <1>1 DEF Distinct
<1>5. ToSet(Tail(s)) = ToSet(s) \ {Head(s)}
  <2>1. ASSUME NEW j \in 1 .. Len(s) - 1  PROVE Tail(s)[j] \in ToSet(s) \ {Head(s)}
    BY <1>1, <1>2, <1>4
  <2>2. ASSUME NEW j \in 1 .. Len(s), s[j] # Head(s)  PROVE s[j] \in ToSet(Tail(s))
    <3>1. j - 1 \in 1 .. Len(s) - 1 /\ Tail(s)[j - 1] = s[j]
      BY <1>1, <1>2, <2>2
    <3> QED  BY <1>3, <3>1
  <2> QED  BY <1>1, <1>3, <2>1, <2>2
<1>6. Distinct(Tail(s))
  <2> SUFFICES ASSUME NEW j \in 1 .. Len(s) - 1, NEW k \in 1 .. Len(s) - 1,
                      Tail(s)[j] = Tail(s)[k]
               PROVE  j = k
    BY <1>3 DEF Distinct
  <2> QED  BY <1>1, <1>2, <1>4
<1> QED  BY <1>1, <1>2, <1>5, <1>6, HeadTailProperties

-----------------------------------------------------------------------------
(* Remainders, for clocks and counters that wrap.                          *)

\* Division with remainder.
LEMMA Remainder ==
  ASSUME NEW a \in Int, NEW m \in Nat \ {0}
  PROVE  /\ a \div m \in Int /\ a % m \in 0 .. m - 1
         /\ a % m = a - m * (a \div m)
<1>1. a \div m \in Int  OBVIOUS
<1>2. a % m \in 0 .. m - 1  OBVIOUS
<1>3. a % m = a - m * (a \div m)  OBVIOUS
<1> QED  BY <1>1, <1>2, <1>3

\* A multiple of m closer to 0 than m is 0.
LEMMA SmallMultiple ==
  ASSUME NEW m \in Nat \ {0}, NEW q \in Int, NEW r \in Int, -m < r, r < m, r = m * q
  PROVE  r = 0
OBVIOUS

\* The remainder is the one number below m at a distance of a multiple of m.
LEMMA RemainderIs ==
  ASSUME NEW a \in Int, NEW m \in Nat \ {0}, NEW q \in Int, NEW r \in 0 .. m - 1,
         a = r + m * q
  PROVE  a % m = r
<1> DEFINE d == a \div m
           e == a % m
<1>1. d \in Int /\ e \in 0 .. m - 1 /\ e = a - m * d  BY Remainder
<1> HIDE DEF d, e
<1>2. e - r = m * (q - d)  BY <1>1
<1>3. e - r \in Int /\ q - d \in Int /\ -m < e - r /\ e - r < m  BY <1>1
<1>4. e - r = 0  BY <1>2, <1>3, SmallMultiple
<1> QED  BY <1>1, <1>4 DEF e

\* A sum may be reduced before or after,
LEMMA ReducedSum ==
  ASSUME NEW a \in Int, NEW b \in Int, NEW m \in Nat \ {0}
  PROVE  ((a % m) + b) % m = (a + b) % m
<1> DEFINE q == a \div m
           e == a % m
           k == (e + b) \div m
           r == (e + b) % m
<1>1. q \in Int /\ e \in 0 .. m - 1 /\ e = a - m * q  BY Remainder
<1>2. e + b \in Int  BY <1>1
<1> HIDE DEF q, e
<1>3. k \in Int /\ r \in 0 .. m - 1 /\ r = (e + b) - m * k  BY <1>2, Remainder
<1> HIDE DEF k, r
<1>4. a + b \in Int /\ q + k \in Int  BY <1>1, <1>3
<1>5. a + b = r + m * (q + k)  BY <1>1, <1>3
<1>6. (a + b) % m = r  BY <1>3, <1>4, <1>5, RemainderIs
<1> QED  BY <1>6 DEF r, e

\* and a difference.
LEMMA ReducedDifference ==
  ASSUME NEW a \in Int, NEW b \in Int, NEW m \in Nat \ {0}
  PROVE  ((a % m) - (b % m)) % m = (a - b) % m
<1> DEFINE q == b \div m
           e == b % m
           d == a % m
           r == (d - e) % m
           k == (d - e) \div m
           p == a \div m
<1>1. q \in Int /\ e \in 0 .. m - 1 /\ e = b - m * q  BY Remainder
<1>2. p \in Int /\ d \in 0 .. m - 1 /\ d = a - m * p  BY Remainder
<1> HIDE DEF q, e, d, p
<1>3. d - e \in Int  BY <1>1, <1>2
<1>4. k \in Int /\ r \in 0 .. m - 1 /\ r = (d - e) - m * k  BY <1>3, Remainder
<1> HIDE DEF k, r
<1>5. a - b \in Int /\ p - q + k \in Int  BY <1>1, <1>2, <1>4
<1>6. a - b = r + m * (p - q + k)  BY <1>1, <1>2, <1>4
<1>7. (a - b) % m = r  BY <1>4, <1>5, <1>6, RemainderIs
<1> QED  BY <1>7 DEF r, d, e

-----------------------------------------------------------------------------
(* Numbers, and what a recursive function over 0 .. n computes.            *)

\* A set of numbers has a least one.
LEMMA LeastNumber ==
  ASSUME NEW S \in SUBSET Nat, S # {}
  PROVE  \E x \in S : \A y \in S : x <= y
<1> DEFINE Less == {p \in Nat \X Nat : p[1] < p[2]}
<1>1. OpToRel(<, Nat) = Less  BY Zenon DEF OpToRel
<1>2. IsWellFoundedOn(Less, Nat)  BY <1>1, NatLessThanWellFounded, Zenon
<1>3. \A x, y \in Nat : <<y, x>> \notin Less => x <= y
  <2> SUFFICES ASSUME NEW x \in Nat, NEW y \in Nat, ~ (x <= y)  PROVE <<y, x>> \in Less
    OBVIOUS
  <2>1. y < x  OBVIOUS
  <2>2. <<y, x>> \in Nat \X Nat /\ <<y, x>>[1] = y /\ <<y, x>>[2] = x  OBVIOUS
  <2> QED  BY <2>1, <2>2, Zenon
<1> HIDE DEF Less
<1>4. \E x \in S : \A y \in S : ~ (<<y, x>> \in Less)  BY <1>2, WFMin
<1> QED  BY <1>3, <1>4

\* Of some of the first n numbers one is the first.
LEMMA FirstOne ==
  ASSUME NEW n \in Nat, NEW S \in SUBSET (1 .. n), S # {}
  PROVE  \E i \in 1 .. n : i \in S /\ \A k \in 1 .. i - 1 : k \in 1 .. n /\ k \notin S
<1>1. PICK x \in S : \A y \in S : x <= y  BY LeastNumber
<1> QED  BY <1>1

\* What holds of 0, and of the next number when it holds of one, holds up to n.
LEMMA UpTo ==
  ASSUME NEW n \in Nat, NEW S, 0 \in S, \A m \in 0 .. n - 1 : m \in S => m + 1 \in S
  PROVE  0 .. n \subseteq S
<1> DEFINE Bad == {m \in 0 .. n : m \notin S}
<1>1. ASSUME Bad # {}  PROVE FALSE
  <2>1. Bad \in SUBSET Nat  OBVIOUS
  <2>2. PICK m \in Bad : \A k \in Bad : m <= k
    <3> HIDE DEF Bad
    <3> QED  BY <1>1, <2>1, LeastNumber
  <2>3. m \in 1 .. n  BY <2>2
  <2>4. m - 1 \in S  BY <2>2, <2>3
  <2>5. (m - 1) + 1 \in S  BY <2>3, <2>4
  <2> QED  BY <2>2, <2>3, <2>5
<1> QED  BY <1>1

\* A value can be taken through n steps.
StepsWithin(step, n, S) == \A k \in 1 .. n : \A y \in S : step[k][y] \in S
RunOf(g, step, n, S, x) ==
  g \in [0 .. n -> S] /\ g[0] = x /\ \A k \in 1 .. n : g[k] = step[k][g[k - 1]]
LEMMA Iteration ==
  ASSUME NEW n \in Nat, NEW S, NEW x \in S, NEW step, StepsWithin(step, n, S)
  PROVE  \E g : RunOf(g, step, n, S, x)
<1> DEFINE Run(g, m) == /\ g \in [0 .. m -> S] /\ g[0] = x
                        /\ \A k \in 1 .. m : g[k] = step[k][g[k - 1]]
           Done == {m \in 0 .. n : \E g : Run(g, m)}
<1>1. 0 \in Done
  <2>1. Run([k \in 0 .. 0 |-> x], 0)  OBVIOUS
  <2>2. \E g : Run(g, 0)
    <3> HIDE DEF Run
    <3> QED  BY <2>1
  <2> HIDE DEF Run
  <2> QED  BY <2>2
<1>2. ASSUME NEW m \in 0 .. n - 1, m \in Done  PROVE m + 1 \in Done
  <2>1. PICK g : Run(g, m)  BY <1>2
  <2> DEFINE h == [k \in 0 .. m + 1 |-> IF k <= m THEN g[k] ELSE step[m + 1][g[m]]]
  <2>2. g[m] \in S /\ step[m + 1][g[m]] \in S
    <3>1. g[m] \in S  BY <2>1
    <3> QED  BY <3>1 DEF StepsWithin
  <2>3. h \in [0 .. m + 1 -> S] /\ h[0] = x  BY <2>1, <2>2
  <2>4. \A k \in 1 .. m + 1 : h[k] = step[k][h[k - 1]]
    <3> SUFFICES ASSUME NEW k \in 1 .. m + 1  PROVE h[k] = step[k][h[k - 1]]
      OBVIOUS
    <3>1. h[k - 1] = g[k - 1]  OBVIOUS
    <3>2. CASE k <= m  BY <2>1, <3>1, <3>2
    <3>3. CASE k = m + 1  BY <3>1, <3>3
    <3> QED  BY <3>2, <3>3
  <2>5. Run(h, m + 1)  BY <2>3, <2>4
  <2> HIDE DEF Run, h
  <2> QED  BY <2>5
<1>3. 0 .. n \subseteq Done
  <2> HIDE DEF Done
  <2> QED  BY <1>1, <1>2, UpTo
<1>4. \E g : Run(g, n)
  <2> HIDE DEF Run
  <2> QED  BY <1>3
<1> QED  BY <1>4, Zenon DEF RunOf
=============================================================================
