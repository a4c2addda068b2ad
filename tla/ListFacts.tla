---------------------------- MODULE ListFacts -----------------------------
(***************************************************************************)
(* What the list operations preserve, for lists of any length.            *)
(***************************************************************************)
EXTENDS Integers, Lists, SequenceTheorems, WellFoundedInduction, TLAPS

\* Appending x adds one occurrence of x and leaves the rest alone.
LEMMA AppendFacts ==
  ASSUME NEW S, NEW s \in Seq(S), NEW x \in S
  PROVE  /\ Append(s, x) \in Seq(S)
         /\ \A y : IsIn(Append(s, x), y) <=> IsIn(s, y) \/ y = x
         /\ \A y : Once(s, y) /\ (y # x \/ ~IsIn(s, y)) => Once(Append(s, x), y)
<1> DEFINE r == Append(s, x)
<1>1. /\ r \in Seq(S) /\ Len(s) \in Nat /\ DOMAIN s = 1..Len(s)
      /\ DOMAIN r = 1..(Len(s) + 1)
      /\ \A i \in 1..Len(s) : r[i] = s[i]
      /\ r[Len(s) + 1] = x
  BY AppendProperties, LenProperties
<1> HIDE DEF r
<1>2. \A i \in DOMAIN r : i \in DOMAIN s \/ i = Len(s) + 1
  BY <1>1
<1>3. DOMAIN s \subseteq DOMAIN r /\ Len(s) + 1 \in DOMAIN r
  BY <1>1
<1>4. ASSUME NEW y PROVE IsIn(r, y) <=> IsIn(s, y) \/ y = x
  <2>1. IsIn(r, y) => IsIn(s, y) \/ y = x
    BY <1>1, <1>2 DEF IsIn
  <2>2. IsIn(s, y) => IsIn(r, y)
    BY <1>1, <1>3 DEF IsIn
  <2>3. IsIn(r, x)
    BY <1>1, <1>3 DEF IsIn
  <2> QED BY <2>1, <2>2, <2>3
<1>5. ASSUME NEW y, Once(s, y), y # x \/ ~IsIn(s, y) PROVE Once(r, y)
  BY <1>1, <1>2, <1>5 DEF IsIn, Once
<1> QED BY <1>1, <1>4, <1>5 DEF r

\* So does putting it in front.
LEMMA PrependFacts ==
  ASSUME NEW S, NEW s \in Seq(S), NEW x \in S
  PROVE  /\ <<x>> \o s \in Seq(S)
         /\ \A y : IsIn(<<x>> \o s, y) <=> IsIn(s, y) \/ y = x
         /\ \A y : y # x => (Once(s, y) => Once(<<x>> \o s, y))
         /\ ~IsIn(s, x) => Once(<<x>> \o s, x)
<1> DEFINE r == <<x>> \o s
<1>1. /\ r \in Seq(S) /\ Len(r) = Len(s) + 1 /\ Len(s) \in Nat
      /\ DOMAIN r = 1..Len(r) /\ DOMAIN s = 1..Len(s)
  OBVIOUS
<1>2. \A j \in 1..Len(r) : r[j] = IF j = 1 THEN x ELSE s[j - 1]
  OBVIOUS
<1>3. \A j \in 1..Len(s) : r[j + 1] = s[j] /\ j + 1 \in 1..Len(r)
  BY <1>1, <1>2
<1> HIDE DEF r
<1>4. \A y : IsIn(r, y) <=> IsIn(s, y) \/ y = x
  <2> TAKE y
  <2>1. IsIn(r, y) => IsIn(s, y) \/ y = x
    BY <1>1, <1>2 DEF IsIn
  <2>2. IsIn(s, y) => IsIn(r, y)
    BY <1>1, <1>3 DEF IsIn
  <2>3. IsIn(r, x)
    BY <1>1, <1>2 DEF IsIn
  <2> QED BY <2>1, <2>2, <2>3
<1>5. ASSUME NEW y, y # x, Once(s, y) PROVE Once(r, y)
  BY <1>1, <1>2, <1>5 DEF Once
<1>6. ASSUME ~IsIn(s, x) PROVE Once(r, x)
  <2>1. \A j \in DOMAIN r : r[j] = x => j = 1
    BY <1>1, <1>2, <1>6 DEF IsIn
  <2> QED BY <2>1 DEF Once
<1> QED BY <1>1, <1>4, <1>5, <1>6 DEF r

\* Taking the first element removes its only occurrence.
LEMMA TailFacts ==
  ASSUME NEW S, NEW s \in Seq(S), s # <<>>
  PROVE  /\ Head(s) \in S
         /\ Tail(s) \in Seq(S)
         /\ IsIn(s, Head(s))
         /\ \A y : Once(s, y) => Once(Tail(s), y)
         /\ \A y : Once(s, y) => (IsIn(Tail(s), y) <=> IsIn(s, y) /\ y # Head(s))
<1> DEFINE t == Tail(s)
<1>1. /\ Len(s) \in Nat \ {0} /\ DOMAIN s = 1..Len(s)
      /\ t \in Seq(S) /\ Len(t) = Len(s) - 1
      /\ Head(s) = s[1] /\ Head(s) \in S
  OBVIOUS
<1>2. \A j \in 1..Len(t) : t[j] = s[j + 1] /\ j + 1 \in DOMAIN s
  BY <1>1
<1>3. \A j \in DOMAIN s : j # 1 => j - 1 \in 1..Len(t) /\ t[j - 1] = s[j]
  BY <1>1, <1>2
<1>4. DOMAIN t = 1..Len(t)
  BY <1>1
<1> HIDE DEF t
<1>5. ASSUME NEW y, Once(s, y) PROVE Once(t, y)
  <2> SUFFICES ASSUME NEW i \in DOMAIN t, NEW j \in DOMAIN t, t[i] = y, t[j] = y
               PROVE  i = j
    BY DEF Once
  <2>1. i + 1 = j + 1
    BY <1>2, <1>4, <1>5 DEF Once
  <2> QED
    BY <1>1, <1>4, <2>1
<1>6. ASSUME NEW y, Once(s, y) PROVE IsIn(t, y) <=> IsIn(s, y) /\ y # Head(s)
  <2>1. IsIn(t, y) => IsIn(s, y)
    BY <1>2, <1>4 DEF IsIn
  <2>2. IsIn(t, y) => y # Head(s)
    <3> SUFFICES ASSUME NEW j \in DOMAIN t, t[j] = y, y = Head(s) PROVE FALSE
      BY DEF IsIn
    <3>1. j \in Nat \ {0} /\ j + 1 \in DOMAIN s /\ s[j + 1] = y
      BY <1>2, <1>4
    <3>2. 1 \in DOMAIN s /\ s[1] = y
      BY <1>1, <3>1
    <3>3. j + 1 = 1
      BY <1>6, <3>1, <3>2 DEF Once
    <3> QED BY <3>1, <3>3
  <2>3. IsIn(s, y) /\ y # Head(s) => IsIn(t, y)
    BY <1>1, <1>3, <1>4 DEF IsIn
  <2> QED BY <2>1, <2>2, <2>3
<1>7. IsIn(s, Head(s))
  BY <1>1 DEF IsIn
<1> QED BY <1>1, <1>5, <1>6, <1>7 DEF t

\* What is left of a list behind its k-th element.
LEMMA RestFacts ==
  ASSUME NEW S, NEW s \in Seq(S), NEW k \in 0..Len(s)
  PROVE  /\ SubSeq(s, k + 1, Len(s)) \in Seq(S)
         /\ Len(SubSeq(s, k + 1, Len(s))) = Len(s) - k
         /\ \A j \in 1..(Len(s) - k) : SubSeq(s, k + 1, Len(s))[j] = s[j + k]
<1> DEFINE m == k + 1
           n == Len(s)
           b == SubSeq(s, m, n)
<1>1. m \in Int /\ n \in Int /\ k \in Int /\ m <= n + 1 /\ \A i \in m..n : s[i] \in S
  BY LenProperties, ElementOfSeq
<1>2. /\ b \in Seq(S)
      /\ Len(b) = IF m <= n THEN n - m + 1 ELSE 0
      /\ \A i \in 1..(n - m + 1) : b[i] = s[m + i - 1]
  <2> HIDE DEF m, n
  <2> QED BY <1>1, SubSeqProperties
<1>3. Len(b) = Len(s) - k
  <2> HIDE DEF b
  <2> QED BY <1>1, <1>2
<1>4. ASSUME NEW j \in 1..(Len(s) - k) PROVE b[j] = s[j + k]
  <2>1. j \in 1..(n - m + 1) /\ m + j - 1 = j + k
    BY <1>1
  <2> HIDE DEF b
  <2> QED BY <2>1, <1>2
<1> QED BY <1>2, <1>3, <1>4

\* The list without the item: what was in front, then what was behind.
LEMMA RemoveShape ==
  ASSUME NEW S, NEW s \in Seq(S), NEW x, IsIn(s, x)
  PROVE  LET r == RemoveItem(s, x)
             k == Position(s, x)
         IN  /\ r \in Seq(S) /\ DOMAIN r = 1..(Len(s) - 1)
             /\ \A j \in 1..(Len(s) - 1) : r[j] = IF j < k THEN s[j] ELSE s[j + 1]
<1> DEFINE k == Position(s, x)
           r == RemoveItem(s, x)
<1>1. k \in 1..Len(s) /\ s[k] = x /\ DOMAIN s = 1..Len(s) /\ Len(s) \in Nat
  BY DEF IsIn, Position
<1>2. /\ r = SubSeq(s, 1, k - 1) \o SubSeq(s, k + 1, Len(s))
  BY DEF RemoveItem
<1> HIDE DEF k
<1>3. /\ SubSeq(s, 1, k - 1) \in Seq(S) /\ Len(SubSeq(s, 1, k - 1)) = k - 1
      /\ \A j \in 1..(k - 1) : SubSeq(s, 1, k - 1)[j] = s[j]
  BY <1>1
<1>4. /\ SubSeq(s, k + 1, Len(s)) \in Seq(S) /\ Len(SubSeq(s, k + 1, Len(s))) = Len(s) - k
      /\ \A j \in 1..(Len(s) - k) : SubSeq(s, k + 1, Len(s))[j] = s[j + k]
  <2>0. k \in 0..Len(s)
    BY <1>1
  <2> QED BY <2>0, RestFacts
<1>5. /\ r \in Seq(S) /\ Len(r) = Len(s) - 1 /\ DOMAIN r = 1..(Len(s) - 1)
      /\ \A j \in 1..(Len(s) - 1) : r[j] = IF j < k THEN s[j] ELSE s[j + 1]
  <2> DEFINE a == SubSeq(s, 1, k - 1)
             b == SubSeq(s, k + 1, Len(s))
  <2>1. a \in Seq(S) /\ b \in Seq(S) /\ r = a \o b
    BY <1>2, <1>3, <1>4
  <2>2. Len(a) = k - 1 /\ Len(b) = Len(s) - k
    BY <1>3, <1>4
  <2>3. /\ \A j \in 1..(k - 1) : a[j] = s[j]
        /\ \A j \in 1..(Len(s) - k) : b[j] = s[j + k]
    BY <1>3, <1>4
  <2> HIDE DEF a, b, r
  <2>4. /\ r \in Seq(S) /\ Len(r) = Len(a) + Len(b)
        /\ \A j \in 1..Len(a) + Len(b) : r[j] = IF j <= Len(a) THEN a[j] ELSE b[j - Len(a)]
    BY <2>1, ConcatProperties
  <2>5. Len(r) = Len(s) - 1 /\ DOMAIN r = 1..(Len(s) - 1)
    BY <2>4, <2>2, <1>1, LenProperties
  <2>6. \A j \in 1..(Len(s) - 1) : r[j] = IF j < k THEN s[j] ELSE s[j + 1]
    <3> TAKE j \in 1..(Len(s) - 1)
    <3>1. CASE j < k
      <4>1. j \in 1..(k - 1) /\ j <= Len(a) /\ j \in 1..Len(a) + Len(b)
        BY <3>1, <1>1, <2>2
      <4>2. r[j] = a[j]
        BY <4>1, <2>4
      <4> QED BY <3>1, <4>1, <4>2, <2>3
    <3>2. CASE ~(j < k)
      <4>1. j - (k - 1) \in 1..(Len(s) - k)
        BY <3>2, <1>1
      <4>2. r[j] = b[j - (k - 1)]
        BY <3>2, <1>1, <2>2, <2>4
      <4>3. b[j - (k - 1)] = s[j - (k - 1) + k]
        BY <4>1, <2>3
      <4> QED BY <3>2, <4>2, <4>3, <1>1
    <3> QED BY <3>1, <3>2
  <2> QED BY <2>4, <2>5, <2>6
<1> QED BY <1>5 DEF k

\* queue_remove_locked() removes the item and nothing else.
LEMMA RemoveFacts ==
  ASSUME NEW S, NEW s \in Seq(S), NEW x, IsIn(s, x), Once(s, x)
  PROVE  /\ RemoveItem(s, x) \in Seq(S)
         /\ ~IsIn(RemoveItem(s, x), x)
         /\ \A y : y # x => (IsIn(RemoveItem(s, x), y) <=> IsIn(s, y))
         /\ \A y : Once(s, y) => Once(RemoveItem(s, x), y)
<1> DEFINE k == Position(s, x)
           r == RemoveItem(s, x)
<1>1. k \in 1..Len(s) /\ s[k] = x /\ DOMAIN s = 1..Len(s) /\ Len(s) \in Nat
  BY DEF IsIn, Position
<1>5. /\ r \in Seq(S) /\ DOMAIN r = 1..(Len(s) - 1)
      /\ \A j \in 1..(Len(s) - 1) : r[j] = IF j < k THEN s[j] ELSE s[j + 1]
  BY RemoveShape
<1> HIDE DEF k, r
<1>6. \A j \in 1..Len(s) : /\ j < k => j \in DOMAIN r /\ r[j] = s[j]
                           /\ j > k => j - 1 \in DOMAIN r /\ r[j - 1] = s[j]
  BY <1>1, <1>5
<1>7. ~IsIn(r, x)
  BY <1>1, <1>5 DEF IsIn, Once
<1>8. ASSUME NEW y, y # x PROVE IsIn(r, y) <=> IsIn(s, y)
  <2>1. IsIn(r, y) => IsIn(s, y)
    <3> SUFFICES ASSUME NEW j \in DOMAIN r, r[j] = y PROVE IsIn(s, y)
      BY DEF IsIn
    <3>1. CASE j < k
      BY <3>1, <1>1, <1>5 DEF IsIn
    <3>2. CASE ~(j < k)
      <4>1. j + 1 \in DOMAIN s /\ s[j + 1] = y
        BY <3>2, <1>1, <1>5
      <4> QED BY <4>1 DEF IsIn
    <3> QED BY <3>1, <3>2
  <2>2. IsIn(s, y) => IsIn(r, y)
    BY <1>1, <1>6, <1>8 DEF IsIn
  <2> QED BY <2>1, <2>2
<1>9. ASSUME NEW y, Once(s, y) PROVE Once(r, y)
  <2> SUFFICES ASSUME NEW i \in DOMAIN r, NEW j \in DOMAIN r, r[i] = y, r[j] = y
               PROVE  i = j
    BY DEF Once
  <2> DEFINE up(n) == IF n < k THEN n ELSE n + 1
  <2>1. /\ up(i) \in DOMAIN s /\ s[up(i)] = y
        /\ up(j) \in DOMAIN s /\ s[up(j)] = y
    BY <1>1, <1>5
  <2>2. up(i) = up(j)
    BY <2>1, <1>9 DEF Once
  <2> QED BY <2>2, <1>1, <1>5
<1> QED BY <1>5, <1>7, <1>8, <1>9 DEF r

\* The list with n behind x: what was in front, n, what was behind.
LEMMA InsertShape ==
  ASSUME NEW S, NEW s \in Seq(S), NEW x, IsIn(s, x), NEW n \in S
  PROVE  LET r == InsertAfter(s, x, n)
             k == Position(s, x)
         IN  /\ r \in Seq(S) /\ DOMAIN r = 1..(Len(s) + 1)
             /\ \A j \in 1..(Len(s) + 1) : r[j] = IF j = k + 1 THEN n
                                                  ELSE IF j < k + 1 THEN s[j] ELSE s[j - 1]
<1> DEFINE k == Position(s, x)
           r == InsertAfter(s, x, n)
           a == SubSeq(s, 1, k)
           b == SubSeq(s, k + 1, Len(s))
<1>1. k \in 1..Len(s) /\ s[k] = x /\ DOMAIN s = 1..Len(s) /\ Len(s) \in Nat
  BY DEF IsIn, Position
<1>2. r = a \o <<n>> \o b
  BY DEF InsertAfter
<1> HIDE DEF k
<1>3. a \in Seq(S) /\ Len(a) = k /\ \A j \in 1..k : a[j] = s[j]
  BY <1>1
<1>4. /\ b \in Seq(S) /\ Len(b) = Len(s) - k
      /\ \A j \in 1..(Len(s) - k) : b[j] = s[j + k]
  <2>0. k \in 0..Len(s)
    BY <1>1
  <2> QED BY <2>0, RestFacts
<1> HIDE DEF a, b
<1>5. /\ a \o <<n>> \in Seq(S) /\ Len(a \o <<n>>) = k + 1
      /\ \A j \in 1..(k + 1) : (a \o <<n>>)[j] = IF j = k + 1 THEN n ELSE s[j]
  BY <1>1, <1>3
<1>6. /\ r \in Seq(S) /\ DOMAIN r = 1..(Len(s) + 1)
      /\ \A j \in 1..(Len(s) + 1) : r[j] = IF j = k + 1 THEN n
                                           ELSE IF j < k + 1 THEN s[j] ELSE s[j - 1]
  <2> DEFINE c == a \o <<n>>
  <2>1. c \in Seq(S) /\ Len(c) = k + 1 /\ r = c \o b
    BY <1>2, <1>5
  <2>2. \A j \in 1..(k + 1) : c[j] = IF j = k + 1 THEN n ELSE s[j]
    BY <1>5
  <2> HIDE DEF c, r
  <2>3. /\ r \in Seq(S) /\ Len(r) = Len(c) + Len(b)
        /\ \A j \in 1..Len(c) + Len(b) : r[j] = IF j <= Len(c) THEN c[j] ELSE b[j - Len(c)]
    BY <2>1, <1>4, ConcatProperties
  <2>4. Len(r) = Len(s) + 1 /\ DOMAIN r = 1..(Len(s) + 1)
    BY <2>1, <2>3, <1>1, <1>4, LenProperties
  <2>5. ASSUME NEW j \in 1..(Len(s) + 1)
        PROVE  r[j] = IF j = k + 1 THEN n ELSE IF j < k + 1 THEN s[j] ELSE s[j - 1]
    <3>1. CASE j < k + 2
      <4>1. r[j] = c[j] /\ j \in 1..(k + 1)
        BY <3>1, <2>1, <2>3, <1>1, <1>4
      <4>2. c[j] = IF j = k + 1 THEN n ELSE s[j]
        BY <4>1, <2>2
      <4> QED BY <4>1, <4>2, <1>1
    <3>2. CASE ~(j < k + 2)
      <4>1. j - (k + 1) \in 1..(Len(s) - k)
        BY <3>2, <1>1
      <4>2. r[j] = b[j - (k + 1)]
        BY <3>2, <1>1, <1>4, <2>1, <2>3
      <4>3. b[j - (k + 1)] = s[j - (k + 1) + k]
        BY <4>1, <1>4
      <4> QED BY <3>2, <4>2, <4>3, <1>1
    <3> QED BY <3>1, <3>2
  <2> QED BY <2>3, <2>4, <2>5
<1> QED BY <1>6 DEF k

\* Inserting a flusher behind an item leaves the items alone.
LEMMA InsertFacts ==
  ASSUME NEW S, NEW s \in Seq(S), NEW x, IsIn(s, x), NEW n \in S
  PROVE  /\ InsertAfter(s, x, n) \in Seq(S)
         /\ \A y : y # n => (IsIn(InsertAfter(s, x, n), y) <=> IsIn(s, y))
         /\ \A y : y # n => (Once(s, y) => Once(InsertAfter(s, x, n), y))
<1> DEFINE k == Position(s, x)
           r == InsertAfter(s, x, n)
<1>1. k \in 1..Len(s) /\ s[k] = x /\ DOMAIN s = 1..Len(s) /\ Len(s) \in Nat
  BY DEF IsIn, Position
<1>6. /\ r \in Seq(S) /\ DOMAIN r = 1..(Len(s) + 1)
      /\ \A j \in 1..(Len(s) + 1) : r[j] = IF j = k + 1 THEN n
                                           ELSE IF j < k + 1 THEN s[j] ELSE s[j - 1]
  BY InsertShape
<1> HIDE DEF k, r
<1>7. \A j \in 1..Len(s) : /\ j < k + 1 => j \in DOMAIN r /\ r[j] = s[j]
                           /\ j > k => j + 1 \in DOMAIN r /\ r[j + 1] = s[j]
  BY <1>1, <1>6
<1>8. ASSUME NEW y, y # n PROVE IsIn(r, y) <=> IsIn(s, y)
  <2>1. IsIn(r, y) => IsIn(s, y)
    <3> SUFFICES ASSUME NEW j \in DOMAIN r, r[j] = y PROVE IsIn(s, y)
      BY DEF IsIn
    <3>1. CASE j < k + 1
      BY <3>1, <1>1, <1>6 DEF IsIn
    <3>2. CASE ~(j < k + 1)
      <4>1. j # k + 1
        BY <1>6, <1>8
      <4>2. j - 1 \in DOMAIN s /\ s[j - 1] = y
        BY <3>2, <4>1, <1>1, <1>6
      <4> QED BY <4>2 DEF IsIn
    <3> QED BY <3>1, <3>2
  <2>2. IsIn(s, y) => IsIn(r, y)
    BY <1>1, <1>7 DEF IsIn
  <2> QED BY <2>1, <2>2
<1>9. ASSUME NEW y, y # n, Once(s, y) PROVE Once(r, y)
  <2> SUFFICES ASSUME NEW i \in DOMAIN r, NEW j \in DOMAIN r, r[i] = y, r[j] = y
               PROVE  i = j
    BY DEF Once
  <2> DEFINE down(m) == IF m < k + 1 THEN m ELSE m - 1
  <2>1. /\ i # k + 1 /\ j # k + 1
        /\ down(i) \in DOMAIN s /\ s[down(i)] = y
        /\ down(j) \in DOMAIN s /\ s[down(j)] = y
    BY <1>1, <1>6, <1>9
  <2>2. down(i) = down(j)
    BY <2>1, <1>9 DEF Once
  <2> QED BY <2>1, <2>2, <1>1, <1>6
<1> QED BY <1>6, <1>8, <1>9 DEF r

(***************************************************************************)
(* Order                                                                   *)
(***************************************************************************)
\* Appending puts x behind all the others and keeps their order.
LEMMA AppendBefore ==
  ASSUME NEW S, NEW s \in Seq(S), NEW x \in S
  PROVE  \A a, b : Before(Append(s, x), a, b) <=> Before(s, a, b) \/ (b = x /\ IsIn(s, a))
<1> DEFINE r == Append(s, x)
<1>1. /\ Len(s) \in Nat /\ DOMAIN s = 1..Len(s) /\ DOMAIN r = 1..(Len(s) + 1)
      /\ \A i \in 1..Len(s) : r[i] = s[i]
      /\ r[Len(s) + 1] = x
  BY AppendProperties, LenProperties
<1> HIDE DEF r
<1> SUFFICES ASSUME NEW a, NEW b
             PROVE  Before(r, a, b) <=> Before(s, a, b) \/ (b = x /\ IsIn(s, a))
  BY DEF r
<1>2. ASSUME Before(r, a, b) PROVE Before(s, a, b) \/ (b = x /\ IsIn(s, a))
  <2>1. PICK i, j \in DOMAIN r : i < j /\ r[i] = a /\ r[j] = b
    BY <1>2 DEF Before
  <2>2. i \in DOMAIN s /\ (j \in DOMAIN s \/ j = Len(s) + 1)
    BY <1>1, <2>1
  <2> QED
    BY <1>1, <2>1, <2>2 DEF Before, IsIn
<1>3. ASSUME Before(s, a, b) PROVE Before(r, a, b)
  <2>1. PICK i, j \in DOMAIN s : i < j /\ s[i] = a /\ s[j] = b
    BY <1>3 DEF Before
  <2>2. i \in DOMAIN r /\ j \in DOMAIN r /\ r[i] = a /\ r[j] = b
    BY <1>1, <2>1
  <2> QED
    BY <2>1, <2>2 DEF Before
<1>4. ASSUME b = x, IsIn(s, a) PROVE Before(r, a, b)
  <2>1. PICK i \in DOMAIN s : s[i] = a
    BY <1>4 DEF IsIn
  <2>2. i \in DOMAIN r /\ Len(s) + 1 \in DOMAIN r /\ i < Len(s) + 1 /\ r[i] = a
    BY <1>1, <2>1
  <2> QED
    BY <1>1, <1>4, <2>2 DEF Before
<1> QED
  BY <1>2, <1>3, <1>4

\* Prepending puts x in front.
LEMMA PrependBefore ==
  ASSUME NEW S, NEW s \in Seq(S), NEW x \in S
  PROVE  \A a, b : Before(<<x>> \o s, a, b) <=> Before(s, a, b) \/ (a = x /\ IsIn(s, b))
<1> DEFINE r == <<x>> \o s
<1>1. /\ r \in Seq(S) /\ Len(r) = Len(s) + 1 /\ Len(s) \in Nat
      /\ DOMAIN r = 1..Len(r) /\ DOMAIN s = 1..Len(s)
  OBVIOUS
<1>2. \A j \in 1..Len(r) : r[j] = IF j = 1 THEN x ELSE s[j - 1]
  OBVIOUS
<1>3. \A j \in DOMAIN s : j + 1 \in DOMAIN r /\ r[j + 1] = s[j]
  BY <1>1, <1>2
<1>4. 1 \in DOMAIN r /\ r[1] = x
  BY <1>1, <1>2
<1> HIDE DEF r
<1> SUFFICES ASSUME NEW a, NEW b
             PROVE  Before(r, a, b) <=> Before(s, a, b) \/ (a = x /\ IsIn(s, b))
  BY DEF r
<1>5. ASSUME Before(r, a, b) PROVE Before(s, a, b) \/ (a = x /\ IsIn(s, b))
  <2>1. PICK i, j \in DOMAIN r : i < j /\ r[i] = a /\ r[j] = b
    BY <1>5 DEF Before
  <2>2. j - 1 \in DOMAIN s /\ s[j - 1] = b
    BY <1>1, <1>2, <2>1
  <2>3. CASE i = 1
    BY <1>4, <2>1, <2>2, <2>3 DEF IsIn
  <2>4. CASE i # 1
    <3>1. i - 1 \in DOMAIN s /\ s[i - 1] = a /\ i - 1 < j - 1
      BY <1>1, <1>2, <2>1, <2>4
    <3> QED
      BY <2>2, <3>1 DEF Before
  <2> QED
    BY <2>3, <2>4
<1>6. ASSUME Before(s, a, b) PROVE Before(r, a, b)
  <2>1. PICK i, j \in DOMAIN s : i < j /\ s[i] = a /\ s[j] = b
    BY <1>6 DEF Before
  <2>2. i + 1 < j + 1
    BY <1>1, <2>1
  <2> QED
    BY <1>3, <2>1, <2>2 DEF Before
<1>7. ASSUME a = x, IsIn(s, b) PROVE Before(r, a, b)
  <2>1. PICK j \in DOMAIN s : s[j] = b
    BY <1>7 DEF IsIn
  <2>2. 1 < j + 1
    BY <1>1, <2>1
  <2> QED
    BY <1>3, <1>4, <1>7, <2>1, <2>2 DEF Before
<1> QED
  BY <1>5, <1>6, <1>7

\* Taking the first keeps the order of the rest; the first was in front of
\* them all.
LEMMA TailBefore ==
  ASSUME NEW S, NEW s \in Seq(S), s # <<>>
  PROVE  /\ \A a, b : Before(Tail(s), a, b) => Before(s, a, b)
         /\ \A a, b : Before(s, a, b) /\ a # Head(s) => Before(Tail(s), a, b)
         /\ \A b : IsIn(s, b) /\ b # Head(s) => Before(s, Head(s), b)
<1> DEFINE t == Tail(s)
<1>1. /\ Len(s) \in Nat \ {0} /\ DOMAIN s = 1..Len(s)
      /\ t \in Seq(S) /\ Len(t) = Len(s) - 1
      /\ Head(s) = s[1]
  OBVIOUS
<1>2. \A j \in 1..Len(t) : t[j] = s[j + 1] /\ j + 1 \in DOMAIN s
  BY <1>1
<1>3. \A j \in DOMAIN s : j # 1 => j - 1 \in 1..Len(t) /\ t[j - 1] = s[j]
  BY <1>1, <1>2
<1>4. DOMAIN t = 1..Len(t)
  BY <1>1
<1> HIDE DEF t
<1>5. ASSUME NEW a, NEW b, Before(t, a, b) PROVE Before(s, a, b)
  <2>1. PICK i, j \in DOMAIN t : i < j /\ t[i] = a /\ t[j] = b
    BY <1>5 DEF Before
  <2>2. i + 1 < j + 1
    BY <1>1, <1>4, <2>1
  <2> QED
    BY <1>2, <1>4, <2>1, <2>2 DEF Before
<1>6. ASSUME NEW a, NEW b, Before(s, a, b), a # Head(s) PROVE Before(t, a, b)
  <2>1. PICK i, j \in DOMAIN s : i < j /\ s[i] = a /\ s[j] = b
    BY <1>6 DEF Before
  <2>2. i # 1 /\ j # 1 /\ i - 1 < j - 1
    BY <1>1, <1>6, <2>1
  <2> QED
    BY <1>3, <1>4, <2>1, <2>2 DEF Before
<1>7. ASSUME NEW b, IsIn(s, b), b # Head(s) PROVE Before(s, Head(s), b)
  <2>1. PICK j \in DOMAIN s : s[j] = b
    BY <1>7 DEF IsIn
  <2>2. 1 \in DOMAIN s /\ 1 < j
    BY <1>1, <1>7, <2>1
  <2> QED
    BY <1>1, <2>1, <2>2 DEF Before
<1> QED
  BY <1>5, <1>6, <1>7 DEF t

\* Taking x out keeps the order of the others.
LEMMA RemoveBefore ==
  ASSUME NEW S, NEW s \in Seq(S), NEW x, IsIn(s, x), Once(s, x)
  PROVE  \A a, b : a # x /\ b # x => (Before(RemoveItem(s, x), a, b) <=> Before(s, a, b))
<1> DEFINE k == Position(s, x)
           r == RemoveItem(s, x)
<1>1. k \in 1..Len(s) /\ s[k] = x /\ DOMAIN s = 1..Len(s) /\ Len(s) \in Nat
  BY DEF IsIn, Position
<1>2. /\ r \in Seq(S) /\ DOMAIN r = 1..(Len(s) - 1)
      /\ \A j \in 1..(Len(s) - 1) : r[j] = IF j < k THEN s[j] ELSE s[j + 1]
  BY RemoveShape
<1> HIDE DEF k, r
<1> DEFINE up(j) == IF j < k THEN j ELSE j + 1
           down(j) == IF j < k THEN j ELSE j - 1
<1>3. \A j \in DOMAIN r : up(j) \in DOMAIN s /\ r[j] = s[up(j)]
  BY <1>1, <1>2
<1>4. \A i, j \in DOMAIN r : i < j => up(i) < up(j)
  BY <1>1, <1>2
<1>5. \A j \in DOMAIN s : s[j] # x => down(j) \in DOMAIN r /\ r[down(j)] = s[j]
  <2> SUFFICES ASSUME NEW j \in DOMAIN s, s[j] # x
               PROVE  down(j) \in DOMAIN r /\ r[down(j)] = s[j]
    OBVIOUS
  <2>1. j # k
    BY <1>1
  <2> QED
    BY <1>1, <1>2, <2>1
<1>6. \A i, j \in DOMAIN s : i < j /\ s[i] # x /\ s[j] # x => down(i) < down(j)
  <2> SUFFICES ASSUME NEW i \in DOMAIN s, NEW j \in DOMAIN s, i < j, s[i] # x, s[j] # x
               PROVE  down(i) < down(j)
    OBVIOUS
  <2>1. j # k /\ i # k
    BY <1>1
  <2> QED
    BY <1>1, <2>1
<1> HIDE DEF up, down
<1>7. ASSUME NEW a, NEW b, a # x, b # x PROVE Before(r, a, b) <=> Before(s, a, b)
  <2>1. Before(r, a, b) => Before(s, a, b)
    BY <1>3, <1>4 DEF Before
  <2>2. Before(s, a, b) => Before(r, a, b)
    <3> SUFFICES ASSUME NEW i \in DOMAIN s, NEW j \in DOMAIN s, i < j, s[i] = a, s[j] = b
                 PROVE  Before(r, a, b)
      BY DEF Before
    <3>1. /\ down(i) \in DOMAIN r /\ r[down(i)] = a
          /\ down(j) \in DOMAIN r /\ r[down(j)] = b /\ down(i) < down(j)
      BY <1>5, <1>6, <1>7
    <3> QED
      BY <3>1 DEF Before
  <2> QED
    BY <2>1, <2>2
<1> QED
  BY <1>7 DEF r

\* Inserting n right behind x keeps the order of the others.
LEMMA InsertBefore ==
  ASSUME NEW S, NEW s \in Seq(S), NEW x, IsIn(s, x), NEW n \in S
  PROVE  /\ Before(InsertAfter(s, x, n), x, n)
         /\ \A a, b : a # n /\ b # n => (Before(InsertAfter(s, x, n), a, b) <=> Before(s, a, b))
         /\ IsIn(InsertAfter(s, x, n), n)
         /\ ~IsIn(s, n) => Once(InsertAfter(s, x, n), n)
<1> DEFINE k == Position(s, x)
           r == InsertAfter(s, x, n)
<1>1. k \in 1..Len(s) /\ s[k] = x /\ DOMAIN s = 1..Len(s) /\ Len(s) \in Nat
  BY DEF IsIn, Position
<1>2. /\ r \in Seq(S) /\ DOMAIN r = 1..(Len(s) + 1)
      /\ \A j \in 1..(Len(s) + 1) : r[j] = IF j = k + 1 THEN n
                                           ELSE IF j < k + 1 THEN s[j] ELSE s[j - 1]
  BY InsertShape
<1> HIDE DEF k, r
<1> DEFINE up(j) == IF j < k + 1 THEN j ELSE j + 1
           down(j) == IF j < k + 1 THEN j ELSE j - 1
<1>3. \A j \in DOMAIN s : up(j) \in DOMAIN r /\ r[up(j)] = s[j]
  BY <1>1, <1>2
<1>4. \A i, j \in DOMAIN s : i < j => up(i) < up(j)
  BY <1>1
<1>5. \A j \in DOMAIN r : j # k + 1 => down(j) \in DOMAIN s /\ r[j] = s[down(j)]
  BY <1>1, <1>2
<1>6. \A i, j \in DOMAIN r : i < j /\ i # k + 1 /\ j # k + 1 => down(i) < down(j)
  BY <1>1, <1>2
<1>7. k \in DOMAIN r /\ k + 1 \in DOMAIN r /\ k < k + 1 /\ r[k] = x /\ r[k + 1] = n
  BY <1>1, <1>2
<1> HIDE DEF up, down
<1>8. ASSUME NEW a, NEW b, a # n, b # n PROVE Before(r, a, b) <=> Before(s, a, b)
  <2>1. Before(s, a, b) => Before(r, a, b)
    BY <1>3, <1>4 DEF Before
  <2>2. Before(r, a, b) => Before(s, a, b)
    <3> SUFFICES ASSUME NEW i \in DOMAIN r, NEW j \in DOMAIN r, i < j, r[i] = a, r[j] = b
                 PROVE  Before(s, a, b)
      BY DEF Before
    <3>1. i # k + 1 /\ j # k + 1
      BY <1>7, <1>8
    <3>2. /\ down(i) \in DOMAIN s /\ s[down(i)] = a
          /\ down(j) \in DOMAIN s /\ s[down(j)] = b /\ down(i) < down(j)
      BY <1>5, <1>6, <3>1
    <3> QED
      BY <3>2 DEF Before
  <2> QED
    BY <2>1, <2>2
<1>9. ASSUME ~IsIn(s, n) PROVE Once(r, n)
  <2>1. \A j \in DOMAIN r : r[j] = n => j = k + 1
    BY <1>5, <1>9 DEF IsIn
  <2> QED
    BY <2>1 DEF Once
<1>10. Before(r, x, n) /\ IsIn(r, n)
  BY <1>7 DEF Before, IsIn
<1> QED
  BY <1>8, <1>9, <1>10 DEF r

\* A non-empty set of numbers has a least element.
LEMMA LeastNat ==
  ASSUME NEW T, T \subseteq Nat, T # {}
  PROVE  \E x \in T : \A y \in T : x <= y
<1> DEFINE R == OpToRel(<, Nat)
<1>1. IsWellFoundedOn(R, Nat)
  BY NatLessThanWellFounded
<1>2. \A x, y \in Nat : <<x, y>> \in R <=> x < y
  BY DEF OpToRel
<1> HIDE DEF R
<1>3. PICK x \in T : \A y \in T : ~(<<y, x>> \in R)
  BY <1>1, WFMin
<1>4. \A y \in T : ~(y < x)
  BY <1>2, <1>3
<1>5. \A y \in T : x <= y
  BY <1>4
<1> QED BY <1>5

\* Induction over the numbers, the property as a set.
LEMMA NatInd ==
  ASSUME NEW T, 0 \in T, \A n \in Nat : n \in T => n + 1 \in T
  PROVE  Nat \subseteq T
<1> DEFINE U == Nat \ T
<1> SUFFICES ASSUME U # {} PROVE FALSE
  OBVIOUS
<1>1. PICK x \in U : \A y \in U : x <= y
  <2> U \subseteq Nat
    OBVIOUS
  <2> HIDE DEF U
  <2> QED BY LeastNat
<1>2. x - 1 \in Nat /\ x - 1 \notin U
  BY <1>1
<1> QED BY <1>1, <1>2

\* PlaceOf is where the code stops: everyone in front is as urgent at least,
\* and the thread there, if there is one, is less urgent.
LEMMA PlaceFacts ==
  ASSUME NEW S, NEW s \in Seq(S), NEW p \in [S -> Int], NEW t \in S
  PROVE  /\ PlaceOf(s, p, t) \in 1..(Len(s) + 1)
         /\ \A j \in 1..(PlaceOf(s, p, t) - 1) : p[s[j]] <= p[t]
         /\ PlaceOf(s, p, t) <= Len(s) => p[s[PlaceOf(s, p, t)]] > p[t]
<1> DEFINE After == {k \in 1..Len(s) : p[s[k]] > p[t]}
<1>1. \E k \in 1..(Len(s) + 1) :
        /\ \A j \in 1..(k - 1) : p[s[j]] <= p[t]
        /\ k <= Len(s) => p[s[k]] > p[t]
  <2>0. Len(s) \in Nat /\ \A j \in 1..Len(s) : s[j] \in S /\ p[s[j]] \in Int
    OBVIOUS
  <2>1. CASE After = {}
    <3>1. \A j \in 1..Len(s) : p[s[j]] <= p[t]
      BY <2>0, <2>1
    <3> QED
      BY <2>0, <3>1
  <2>2. CASE After # {}
    <3>1. PICK k \in After : \A j \in After : k <= j
      <4>1. After \subseteq Nat
        BY <2>0
      <4> HIDE DEF After
      <4> QED
        BY <4>1, <2>2, LeastNat
    <3>2. \A j \in 1..(k - 1) : p[s[j]] <= p[t]
      <4> SUFFICES ASSUME NEW j \in 1..(k - 1) PROVE p[s[j]] <= p[t]
        OBVIOUS
      <4>1. j \in 1..Len(s) /\ ~(k <= j) /\ k \in 1..Len(s)
        BY <2>0, <3>1
      <4> QED
        BY <4>1, <2>0, <3>1
    <3> QED
      BY <2>0, <3>1, <3>2
  <2> QED
    BY <2>1, <2>2
<1> QED
  BY <1>1 DEF PlaceOf

\* The list after the insertion: t at its place, the rest in order around it.
LEMMA InsertedShape ==
  ASSUME NEW S, NEW s \in Seq(S), NEW p \in [S -> Int], NEW t \in S
  PROVE  /\ Inserted(s, p, t) \in Seq(S) /\ DOMAIN Inserted(s, p, t) = 1..(Len(s) + 1)
         /\ Inserted(s, p, t)[PlaceOf(s, p, t)] = t
         /\ \A j \in 1..(PlaceOf(s, p, t) - 1) : Inserted(s, p, t)[j] = s[j]
         /\ \A j \in (PlaceOf(s, p, t) + 1)..(Len(s) + 1) : Inserted(s, p, t)[j] = s[j - 1]
<1> DEFINE k == PlaceOf(s, p, t)
           m == k - 1
           r == Inserted(s, p, t)
           a == SubSeq(s, 1, m)
           b == SubSeq(s, m + 1, Len(s))
<1>1. k \in 1..(Len(s) + 1) /\ Len(s) \in Nat
  BY PlaceFacts
<1> HIDE DEF k
<1>2. m \in 0..Len(s) /\ m + 1 = k
  BY <1>1
<1>3. r = a \o <<t>> \o b
  BY <1>2 DEF Inserted, k
<1> HIDE DEF m
<1>4. a \in Seq(S) /\ Len(a) = m /\ \A j \in 1..m : a[j] = s[j]
  BY <1>1, <1>2
<1>5. /\ b \in Seq(S) /\ Len(b) = Len(s) - m
      /\ \A j \in 1..(Len(s) - m) : b[j] = s[j + m]
  BY <1>2, RestFacts
<1> DEFINE c == a \o <<t>>
<1> HIDE DEF a, b
<1>6. c \in Seq(S) /\ Len(c) = k /\ \A j \in 1..k : c[j] = IF j = k THEN t ELSE s[j]
  BY <1>1, <1>2, <1>4
<1>7. r = c \o b
  BY <1>3
<1> HIDE DEF c, r
<1>8. /\ r \in Seq(S) /\ Len(r) = Len(c) + Len(b)
      /\ \A j \in 1..Len(c) + Len(b) : r[j] = IF j <= Len(c) THEN c[j] ELSE b[j - Len(c)]
  BY <1>5, <1>6, <1>7, ConcatProperties
<1>9. Len(c) = k /\ Len(c) + Len(b) = Len(s) + 1 /\ m \in Int /\ k \in Int
  <2>1. Len(c) = k /\ Len(b) = Len(s) - m
    BY <1>5, <1>6
  <2>2. m \in Int /\ k \in Int
    BY <1>1, <1>2
  <2>3. k + (Len(s) - m) = Len(s) + 1
    BY <2>2, <1>1, <1>2
  <2> QED
    BY <2>1, <2>2, <2>3
<1>10. DOMAIN r = 1..(Len(s) + 1)
  BY <1>8, <1>9, LenProperties
<1>11. \A j \in 1..k : r[j] = IF j = k THEN t ELSE s[j]
  <2> SUFFICES ASSUME NEW j \in 1..k PROVE r[j] = IF j = k THEN t ELSE s[j]
    OBVIOUS
  <2>1. j \in 1..Len(c) + Len(b) /\ j <= Len(c)
    BY <1>1, <1>9
  <2>2. r[j] = c[j]
    BY <2>1, <1>8
  <2> QED
    BY <2>2, <1>6
<1>12. r[k] = t /\ \A j \in 1..(k - 1) : r[j] = s[j]
  BY <1>1, <1>11
<1>13. ASSUME NEW j \in (k + 1)..(Len(s) + 1) PROVE r[j] = s[j - 1]
  <2>1. j \in 1..Len(c) + Len(b) /\ ~(j <= Len(c)) /\ j - Len(c) = j - k
    BY <1>1, <1>9
  <2>2. r[j] = b[j - k]
    BY <2>1, <1>8
  <2>3. j - k \in 1..(Len(s) - m) /\ (j - k) + m = j - 1
    BY <1>1, <1>2
  <2>4. b[j - k] = s[(j - k) + m]
    BY <2>3, <1>5
  <2> QED
    BY <2>2, <2>3, <2>4
<1> QED
  BY <1>8, <1>10, <1>12, <1>13 DEF r, k

\* The insertion adds t and keeps the others.
LEMMA InsertedFacts ==
  ASSUME NEW S, NEW s \in Seq(S), NEW p \in [S -> Int], NEW t \in S
  PROVE  LET r == Inserted(s, p, t)
         IN  /\ r \in Seq(S)
             /\ \A y : IsIn(r, y) <=> IsIn(s, y) \/ y = t
             /\ \A y : Once(s, y) /\ (y # t \/ ~IsIn(s, t)) => Once(r, y)
<1> DEFINE k == PlaceOf(s, p, t)
           r == Inserted(s, p, t)
<1>1. k \in 1..(Len(s) + 1) /\ Len(s) \in Nat /\ DOMAIN s = 1..Len(s)
  BY PlaceFacts
<1>2. /\ r \in Seq(S) /\ DOMAIN r = 1..(Len(s) + 1)
      /\ r[k] = t
      /\ \A j \in 1..(k - 1) : r[j] = s[j]
      /\ \A j \in (k + 1)..(Len(s) + 1) : r[j] = s[j - 1]
  <2>1. r \in Seq(S)
    BY InsertedShape
  <2>2. DOMAIN r = 1..(Len(s) + 1)
    BY InsertedShape
  <2>3. r[k] = t
    BY InsertedShape
  <2>4. \A j \in 1..(k - 1) : r[j] = s[j]
    BY InsertedShape
  <2>5. \A j \in (k + 1)..(Len(s) + 1) : r[j] = s[j - 1]
    BY InsertedShape
  <2> HIDE DEF r, k
  <2> QED
    BY <2>1, <2>2, <2>3, <2>4, <2>5
<1> HIDE DEF k, r
\* The position in s of what is at position i of r, other than t.
<1> DEFINE down(i) == IF i < k THEN i ELSE i - 1
<1>3. \A i \in DOMAIN r : i # k => down(i) \in DOMAIN s /\ s[down(i)] = r[i]
  <2> SUFFICES ASSUME NEW i \in DOMAIN r, i # k
               PROVE  down(i) \in DOMAIN s /\ s[down(i)] = r[i]
    OBVIOUS
  <2>1. CASE i < k
    <3>1. i \in 1..(k - 1) /\ i \in 1..Len(s)
      BY <1>1, <1>2, <2>1
    <3> QED
      BY <3>1, <1>1, <1>2, <2>1
  <2>2. CASE ~(i < k)
    <3>1. i \in (k + 1)..(Len(s) + 1) /\ i - 1 \in 1..Len(s)
      BY <1>1, <1>2, <2>2
    <3> QED
      BY <3>1, <1>1, <1>2, <2>2
  <2> QED
    BY <2>1, <2>2
<1>4. \A j \in DOMAIN s : \E i \in DOMAIN r : r[i] = s[j]
  <2> SUFFICES ASSUME NEW j \in DOMAIN s PROVE \E i \in DOMAIN r : r[i] = s[j]
    OBVIOUS
  <2>1. CASE j < k
    BY <1>1, <1>2, <2>1
  <2>2. CASE ~(j < k)
    <3>1. j + 1 \in (k + 1)..(Len(s) + 1) /\ (j + 1) - 1 = j
      BY <1>1, <2>2
    <3>2. r[j + 1] = s[j]
      BY <1>2, <3>1
    <3>3. j + 1 \in DOMAIN r
      BY <1>1, <1>2
    <3> QED
      BY <3>2, <3>3
  <2> QED
    BY <2>1, <2>2
<1>5. k \in DOMAIN r
  BY <1>1, <1>2
<1>6. \A y : IsIn(r, y) <=> IsIn(s, y) \/ y = t
  BY <1>2, <1>3, <1>4, <1>5 DEF IsIn
<1>7. ASSUME NEW y, Once(s, y), y # t \/ ~IsIn(s, t) PROVE Once(r, y)
  <2> SUFFICES ASSUME NEW i \in DOMAIN r, NEW j \in DOMAIN r, r[i] = y, r[j] = y
               PROVE  i = j
    BY DEF Once
  <2>1. CASE i = k \/ j = k
    BY <1>2, <1>3, <1>7, <2>1 DEF IsIn
  <2>2. CASE i # k /\ j # k
    <3>1. down(i) = down(j)
      BY <1>3, <1>7, <2>2 DEF Once
    <3>2. i \in Int /\ j \in Int /\ k \in Int
      BY <1>1, <1>2
    <3>3. \A a, b, c \in Int :
            a # c /\ b # c /\ (IF a < c THEN a ELSE a - 1) = (IF b < c THEN b ELSE b - 1) => a = b
      OBVIOUS
    <3> QED
      BY <2>2, <3>1, <3>2, <3>3
  <2> QED
    BY <2>1, <2>2
<1> QED
  BY <1>2, <1>6, <1>7 DEF r

\* In a sorted list the insertion keeps the order, and puts t in front of
\* less urgent threads only.
LEMMA InsertedSorted ==
  ASSUME NEW S, NEW s \in Seq(S), NEW p \in [S -> Int], NEW t \in S,
         Sorted(s, p)
  PROVE  /\ Sorted(Inserted(s, p, t), p)
         /\ \A u \in S : Before(Inserted(s, p, t), t, u) /\ ~IsIn(s, t) => p[t] < p[u]
<1> DEFINE k == PlaceOf(s, p, t)
           r == Inserted(s, p, t)
<1>1. k \in 1..(Len(s) + 1) /\ Len(s) \in Nat /\ DOMAIN s = 1..Len(s)
  BY PlaceFacts
<1>2. /\ r \in Seq(S) /\ DOMAIN r = 1..(Len(s) + 1)
      /\ r[k] = t
      /\ \A j \in 1..(k - 1) : r[j] = s[j]
      /\ \A j \in (k + 1)..(Len(s) + 1) : r[j] = s[j - 1]
  <2>1. r \in Seq(S)
    BY InsertedShape
  <2>2. DOMAIN r = 1..(Len(s) + 1)
    BY InsertedShape
  <2>3. r[k] = t
    BY InsertedShape
  <2>4. \A j \in 1..(k - 1) : r[j] = s[j]
    BY InsertedShape
  <2>5. \A j \in (k + 1)..(Len(s) + 1) : r[j] = s[j - 1]
    BY InsertedShape
  <2> HIDE DEF r, k
  <2> QED
    BY <2>1, <2>2, <2>3, <2>4, <2>5
<1>3. \A j \in DOMAIN s : s[j] \in S /\ p[s[j]] \in Int
  OBVIOUS
<1>4. \A j \in 1..(k - 1) : p[s[j]] <= p[t]
  BY PlaceFacts
<1>5. \A j \in k..Len(s) : p[s[j]] > p[t]
  <2> SUFFICES ASSUME NEW j \in k..Len(s) PROVE p[s[j]] > p[t]
    OBVIOUS
  <2>1. k <= Len(s) => p[s[k]] > p[t]
    BY PlaceFacts
  <2> HIDE DEF k
  <2>2. k \in DOMAIN s /\ j \in DOMAIN s /\ (k = j \/ k < j) /\ k <= Len(s)
    BY <1>1
  <2>3. p[s[k]] <= p[s[j]]
    BY <1>3, <2>2 DEF Sorted
  <2> QED
    BY <1>3, <2>1, <2>2, <2>3
<1> HIDE DEF k, r
<1>6. \A i \in DOMAIN r : r[i] \in S /\ p[r[i]] \in Int
  BY <1>2
<1>7. \A i \in DOMAIN r : i > k => p[t] < p[r[i]]
  <2> SUFFICES ASSUME NEW i \in DOMAIN r, i > k PROVE p[t] < p[r[i]]
    OBVIOUS
  <2>1. i \in (k + 1)..(Len(s) + 1) /\ i - 1 \in k..Len(s) /\ i - 1 \in DOMAIN s
    BY <1>1, <1>2
  <2>2. r[i] = s[i - 1] /\ p[s[i - 1]] > p[t]
    BY <2>1, <1>2, <1>5
  <2> QED
    BY <2>1, <2>2, <1>3
<1>8. \A i \in DOMAIN r : i < k => p[r[i]] <= p[t]
  BY <1>1, <1>2, <1>4
<1>9. Sorted(r, p)
  <2> SUFFICES ASSUME NEW i \in DOMAIN r, NEW j \in DOMAIN r, i < j
               PROVE  p[r[i]] <= p[r[j]]
    BY DEF Sorted
  <2>1. CASE i = k \/ j = k
    BY <1>1, <1>2, <1>6, <1>7, <1>8, <2>1
  <2>2. CASE i < k /\ j > k
    <3>1. p[r[i]] <= p[t] /\ p[t] < p[r[j]]
      BY <1>7, <1>8, <2>2
    <3> QED
      BY <1>6, <3>1
  <2>3. CASE i < k /\ j < k
    <3>1. r[i] = s[i] /\ r[j] = s[j] /\ i \in DOMAIN s /\ j \in DOMAIN s
      <4>1. i \in 1..(k - 1) /\ j \in 1..(k - 1) /\ i \in 1..Len(s) /\ j \in 1..Len(s)
        BY <1>1, <1>2, <2>3
      <4> QED
        BY <4>1, <1>1, <1>2
    <3> QED
      BY <3>1 DEF Sorted
  <2>4. CASE i > k
    <3>1. /\ r[i] = s[i - 1] /\ r[j] = s[j - 1] /\ i - 1 < j - 1
          /\ i - 1 \in DOMAIN s /\ j - 1 \in DOMAIN s
      <4>1. /\ i \in (k + 1)..(Len(s) + 1) /\ j \in (k + 1)..(Len(s) + 1)
            /\ i - 1 \in 1..Len(s) /\ j - 1 \in 1..Len(s) /\ i - 1 < j - 1
        <5>1. k \in Nat /\ k >= 1 /\ Len(s) \in Nat
          BY <1>1
        <5>2. i \in 1..(Len(s) + 1) /\ j \in 1..(Len(s) + 1)
          BY <1>2
        <5> QED
          BY <2>4, <5>1, <5>2
      <4> QED
        BY <4>1, <1>1, <1>2
    <3> QED
      BY <3>1 DEF Sorted
  <2> QED
    BY <1>1, <1>2, <2>1, <2>2, <2>3, <2>4
<1>10. ASSUME NEW u \in S, Before(r, t, u), ~IsIn(s, t) PROVE p[t] < p[u]
  <2>1. PICK i \in DOMAIN r, j \in DOMAIN r : i < j /\ r[i] = t /\ r[j] = u
    BY <1>10 DEF Before
  <2>2. i = k
    <3>1. CASE i < k
      BY <1>1, <1>2, <1>10, <2>1, <3>1 DEF IsIn
    <3>2. CASE i > k
      <4>1. r[i] = s[i - 1] /\ i - 1 \in DOMAIN s
        BY <1>1, <1>2, <3>2
      <4> QED
        BY <4>1, <1>10, <2>1 DEF IsIn
    <3> QED
      BY <1>1, <1>2, <3>1, <3>2
  <2> QED
    BY <1>7, <2>1, <2>2
<1> QED
  BY <1>9, <1>10 DEF r

\* Taking the first element, or any other, off a sorted list keeps it sorted.
LEMMA TailSorted ==
  ASSUME NEW S, NEW s \in Seq(S), s # <<>>, NEW p \in [S -> Int], Sorted(s, p)
  PROVE  Sorted(Tail(s), p)
<1>1. /\ DOMAIN s = 1..Len(s) /\ Len(s) \in Nat \ {0}
      /\ DOMAIN Tail(s) = 1..(Len(s) - 1)
      /\ \A j \in 1..(Len(s) - 1) : Tail(s)[j] = s[j + 1]
  BY DEF Sorted
<1> SUFFICES ASSUME NEW j \in DOMAIN Tail(s), NEW k \in DOMAIN Tail(s), j < k
             PROVE  p[Tail(s)[j]] <= p[Tail(s)[k]]
  BY DEF Sorted
<1>2. j + 1 \in DOMAIN s /\ k + 1 \in DOMAIN s /\ j + 1 < k + 1
  BY <1>1
<1>3. p[s[j + 1]] <= p[s[k + 1]]
  BY <1>2 DEF Sorted
<1> QED
  BY <1>1, <1>3

\* Taking any other thread off, as z_unpend_thread_no_timeout() does, too.
LEMMA RemoveSorted ==
  ASSUME NEW S, NEW s \in Seq(S), NEW x, IsIn(s, x), NEW p \in [S -> Int], Sorted(s, p)
  PROVE  Sorted(RemoveItem(s, x), p)
<1> DEFINE k == Position(s, x)
           r == RemoveItem(s, x)
<1>1. k \in 1..Len(s) /\ Len(s) \in Nat /\ DOMAIN s = 1..Len(s)
  BY DEF IsIn, Position
<1>2. /\ DOMAIN r = 1..(Len(s) - 1)
      /\ \A j \in 1..(Len(s) - 1) : r[j] = IF j < k THEN s[j] ELSE s[j + 1]
  BY RemoveShape
<1> HIDE DEF k, r
<1> SUFFICES ASSUME NEW i \in DOMAIN r, NEW j \in DOMAIN r, i < j
             PROVE  p[r[i]] <= p[r[j]]
  BY DEF Sorted, r
<1> DEFINE up(m) == IF m < k THEN m ELSE m + 1
<1>3. up(i) \in DOMAIN s /\ up(j) \in DOMAIN s /\ up(i) < up(j)
  BY <1>1, <1>2
<1>4. r[i] = s[up(i)] /\ r[j] = s[up(j)]
  BY <1>2
<1> HIDE DEF up
<1> QED
  BY <1>3, <1>4 DEF Sorted

(***************************************************************************)
(* Taking several elements off                                             *)
(***************************************************************************)
\* The function by which Without is defined exists.
IsRest(f, n, s, S) ==
  f = [k \in 0..n |->
         IF k = 0 THEN <<>>
         ELSE IF s[k] \in S THEN f[k - 1] ELSE Append(f[k - 1], s[k])]

LEMMA WithoutExists ==
  ASSUME NEW n \in Nat, NEW s, NEW S
  PROVE  \E f : IsRest(f, n, s, S)
<1> DEFINE G(x, k) == IF s[k] \in S THEN x ELSE Append(x, s[k])
           T == {m \in Nat : \E f : f = [k \in 0..m |-> IF k = 0 THEN <<>> ELSE G(f[k - 1], k)]}
<1> HIDE DEF G
<1>1. 0 \in T
  <2> DEFINE f == [k \in 0..0 |-> <<>>]
  <2>1. f = [k \in 0..0 |-> IF k = 0 THEN <<>> ELSE G(f[k - 1], k)]
    OBVIOUS
  <2> QED BY <2>1
<1>2. ASSUME NEW m \in Nat, m \in T PROVE m + 1 \in T
  <2>1. PICK f : f = [k \in 0..m |-> IF k = 0 THEN <<>> ELSE G(f[k - 1], k)]
    BY <1>2
  <2> DEFINE h == [k \in 0..(m + 1) |-> IF k = m + 1 THEN G(f[m], m + 1) ELSE f[k]]
  <2>2. ASSUME NEW k \in 0..(m + 1) PROVE h[k] = IF k = 0 THEN <<>> ELSE G(h[k - 1], k)
    <3>1. CASE k = m + 1
      BY <3>1
    <3>2. CASE k # m + 1
      <4>1. k \in 0..m /\ h[k] = f[k] /\ f[k] = (IF k = 0 THEN <<>> ELSE G(f[k - 1], k))
        BY <2>1, <3>2
      <4>2. k # 0 => k - 1 \in 0..m /\ h[k - 1] = f[k - 1]
        BY <4>1
      <4> QED BY <4>1, <4>2
    <3> QED BY <3>1, <3>2
  <2>3. h = [k \in 0..(m + 1) |-> IF k = 0 THEN <<>> ELSE G(h[k - 1], k)]
    <3>1. h = [k \in 0..(m + 1) |-> h[k]]
      OBVIOUS
    <3> HIDE DEF h
    <3> QED BY <2>2, <3>1
  <2> HIDE DEF h
  <2>4. \E g : g = [k \in 0..(m + 1) |-> IF k = 0 THEN <<>> ELSE G(g[k - 1], k)]
    BY <2>3
  <2> QED BY <2>4
<1>3. Nat \subseteq T
  <2> HIDE DEF T
  <2> QED BY <1>1, <1>2, NatInd
<1> QED BY <1>3 DEF G, IsRest

\* Without keeps the others, in their order.
LEMMA WithoutFacts ==
  ASSUME NEW T, NEW s \in Seq(T), NEW S, NEW p \in [T -> Int]
  PROVE  /\ Without(s, S) \in Seq(T)
         /\ \A y : IsIn(Without(s, S), y) <=> IsIn(s, y) /\ y \notin S
         /\ \A y : Once(s, y) => Once(Without(s, S), y)
         /\ Sorted(s, p) => Sorted(Without(s, S), p)
<1> DEFINE N == Len(s)
           rest == CHOOSE f : IsRest(f, N, s, S)
<1>1. Without(s, S) = rest[N]
  BY DEF Without, IsRest
<1>2. N \in Nat /\ DOMAIN s = 1..N /\ \A k \in 1..N : s[k] \in T /\ p[s[k]] \in Int
  OBVIOUS
<1> HIDE DEF N
<1>3. IsRest(rest, N, s, S)
  BY <1>2, WithoutExists
<1> HIDE DEF rest
<1>4. rest[0] = <<>>
  BY <1>2, <1>3 DEF IsRest
<1>5. \A k \in 1..N : rest[k] = IF s[k] \in S THEN rest[k - 1] ELSE Append(rest[k - 1], s[k])
  <2> TAKE k \in 1..N
  <2>1. k \in 0..N /\ k # 0
    BY <1>2
  <2> QED BY <1>3, <2>1 DEF IsRest
<1> DEFINE From(k, y) == \E j \in 1..k : s[j] = y
           Good(k) == /\ rest[k] \in Seq(T)
                      /\ \A y : IsIn(rest[k], y) <=> From(k, y) /\ y \notin S
                      /\ \A y : Once(s, y) => Once(rest[k], y)
                      /\ Sorted(s, p) => Sorted(rest[k], p)
           U == {k \in Nat : k <= N => Good(k)}
<1>6. 0 \in U
  <2>1. rest[0] \in Seq(T) /\ DOMAIN rest[0] = {}
    BY <1>4
  <2>2. \A y : ~IsIn(rest[0], y) /\ ~From(0, y)
    BY <2>1 DEF IsIn
  <2>3. (\A y : Once(rest[0], y)) /\ Sorted(rest[0], p)
    BY <2>1 DEF Once, Sorted
  <2> HIDE DEF From
  <2>4. Good(0)
    BY <2>1, <2>2, <2>3
  <2> HIDE DEF Good
  <2> QED BY <2>4
<1>7. ASSUME NEW k \in Nat, k \in U PROVE k + 1 \in U
  <2> SUFFICES ASSUME k + 1 <= N PROVE Good(k + 1)
    OBVIOUS
  <2> DEFINE x == s[k + 1]
             r == rest[k]
  <2>1. Good(k) /\ x \in T /\ p[x] \in Int /\ k + 1 \in DOMAIN s
    <3>1. k <= N /\ k + 1 \in 1..N
      BY <1>2
    <3> HIDE DEF Good
    <3> QED BY <1>2, <1>7, <3>1
  <2>2. rest[k + 1] = IF x \in S THEN r ELSE Append(r, x)
    <3>1. k + 1 \in 1..N /\ (k + 1) - 1 = k
      BY <1>2
    <3> QED BY <1>5, <3>1
  <2>3. \A y : From(k + 1, y) <=> From(k, y) \/ y = x
    OBVIOUS
  <2>4. CASE x \in S
    <3>1. rest[k + 1] = r
      BY <2>2, <2>4
    <3>2. \A y : From(k + 1, y) /\ y \notin S <=> From(k, y) /\ y \notin S
      BY <2>3, <2>4
    <3> HIDE DEF From, x
    <3> QED BY <2>1, <3>1, <3>2
  <2>5. CASE x \notin S
    <3>1. rest[k + 1] = Append(r, x) /\ r \in Seq(T) /\ x \in T
      BY <2>1, <2>2, <2>5
    <3>2. /\ Append(r, x) \in Seq(T)
          /\ \A y : IsIn(Append(r, x), y) <=> IsIn(r, y) \/ y = x
          /\ \A y : Once(r, y) /\ (y # x \/ ~IsIn(r, y)) => Once(Append(r, x), y)
      <4> HIDE DEF r, x
      <4> QED BY <3>1, AppendFacts
    <3>3. ASSUME Once(s, x) PROVE ~IsIn(r, x)
      <4> SUFFICES ASSUME From(k, x) PROVE FALSE
        BY <2>1
      <4>1. PICK j \in 1..k : s[j] = x
        OBVIOUS
      <4>2. j \in DOMAIN s /\ j # k + 1
        BY <1>2, <4>1
      <4> QED BY <2>1, <3>3, <4>1, <4>2 DEF Once
    <3>4. ASSUME Sorted(s, p) PROVE Sorted(Append(r, x), p)
      <4>1. \A i \in DOMAIN r : p[r[i]] <= p[x]
        <5> TAKE i \in DOMAIN r
        <5>1. IsIn(r, r[i])
          BY DEF IsIn
        <5>2. PICK j \in 1..k : s[j] = r[i]
          BY <2>1, <5>1
        <5>3. j \in DOMAIN s /\ j < k + 1
          BY <1>2, <5>2
        <5> HIDE DEF r
        <5> QED BY <2>1, <3>4, <5>2, <5>3 DEF Sorted
      <4>2. Sorted(r, p)
        BY <2>1, <3>4
      <4>3. /\ Len(r) \in Nat /\ DOMAIN r = 1..Len(r) /\ DOMAIN Append(r, x) = 1..(Len(r) + 1)
            /\ \A i \in 1..Len(r) : Append(r, x)[i] = r[i]
            /\ Append(r, x)[Len(r) + 1] = x
        <5> HIDE DEF r, x
        <5> QED BY <3>1, AppendProperties, LenProperties
      <4> HIDE DEF r, x
      <4> DEFINE a == Append(r, x)
      <4> HIDE DEF a
      <4>4. /\ DOMAIN a = 1..(Len(r) + 1)
            /\ \A i \in 1..Len(r) : a[i] = r[i]
            /\ a[Len(r) + 1] = x
        BY <4>3 DEF a
      <4>5. \A i, j \in DOMAIN a : i < j => p[a[i]] <= p[a[j]]
        <5> SUFFICES ASSUME NEW i \in DOMAIN a, NEW j \in DOMAIN a, i < j
                     PROVE  p[a[i]] <= p[a[j]]
          OBVIOUS
        <5>1. CASE j = Len(r) + 1
          <6>1. i \in DOMAIN r
            BY <4>3, <4>4, <5>1
          <6> QED BY <4>1, <4>3, <4>4, <5>1, <6>1
        <5>2. CASE j # Len(r) + 1
          <6>1. i \in DOMAIN r /\ j \in DOMAIN r
            BY <4>3, <4>4, <5>2
          <6> QED BY <4>2, <4>3, <4>4, <6>1 DEF Sorted
        <5> QED BY <5>1, <5>2
      <4> QED BY <4>5 DEF Sorted, a
    <3>5. \A y : IsIn(rest[k + 1], y) <=> From(k + 1, y) /\ y \notin S
      <4> HIDE DEF From, x, r
      <4> QED BY <2>1, <2>3, <2>5, <3>1, <3>2 DEF r
    <3>6. \A y : Once(s, y) => Once(rest[k + 1], y)
      <4> HIDE DEF From, x, r
      <4> QED BY <2>1, <3>1, <3>2, <3>3 DEF r
    <3> HIDE DEF From
    <3> QED BY <3>1, <3>2, <3>4, <3>5, <3>6
  <2> QED BY <2>4, <2>5
<1>8. Good(N)
  <2>1. Nat \subseteq U
    <3> HIDE DEF U
    <3> QED BY <1>6, <1>7, NatInd
  <2> HIDE DEF Good
  <2> QED BY <1>2, <2>1
<1>9. \A y : IsIn(s, y) <=> From(N, y)
  BY <1>2 DEF IsIn
<1> HIDE DEF From
<1> QED BY <1>1, <1>8, <1>9
=============================================================================
