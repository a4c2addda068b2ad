--------------------------- MODULE TimeoutQProofs ---------------------------
(***************************************************************************)
(* Proofs about the timeout queue: its invariants, that no callback runs   *)
(* early, and that it implements TimeoutPromise.                           *)
(***************************************************************************)
EXTENDS TimeoutQ, ListFacts

\* The deadline of the k-th timeout on the list, and the tick its delta
\* counts from.
Due(k) == deadline[timeout_list[k]]
From(k) == IF k = 1 THEN curr_tick ELSE Due(k - 1)

(***************************************************************************)
(* The inductive invariant                                                 *)
(***************************************************************************)
\* The histories and the interrupt handlers have their types, and the
\* driver's count is not ahead of the time.
Typed ==
  /\ isr \in [CPUs -> {Idle} \cup [t : Timeouts, dt : Nat, due : Int]]
  /\ deadline \in [Timeouts -> Int] /\ asked \in [Timeouts -> Int]
  /\ shared \in BOOLEAN
  /\ announced <= now

\* Several CPUs, and no two timeouts have been due on the same tick.
Apart == SMP /\ ~shared

\* Each timeout's delta leads from the deadline of the one in front of it,
\* or from curr_tick, to its own.  Deadlines are in order, later than
\* curr_tick where two callbacks cannot follow one another on one tick, and
\* not before what was asked.
Deltas ==
  \A k \in 1..Len(timeout_list) :
    /\ dticks[timeout_list[k]] = Due(k) - From(k)
    /\ From(k) <= Due(k) /\ (Apart => From(k) < Due(k))
    /\ Due(k) <= MaxTime
    /\ asked[timeout_list[k]] <= Due(k)

\* Between announcements all announced ticks are processed; in a callback,
\* what announce_remaining holds beyond the callback's own ticks is not.
Processed ==
  /\ ~InCallback => announce_remaining = 0 /\ curr_tick = announced
  /\ \A c \in CPUs : isr[c] # Idle =>
       /\ isr[c].dt <= announce_remaining
       /\ curr_tick + announce_remaining - isr[c].dt = announced
       /\ SMP => announce_remaining # 0

\* What holds of the loop until two timeouts are due on the same tick.
InTurn ==
  /\ announce_remaining \in Nat
  /\ Processed
  /\ AnnounceSequential
  /\ AlarmCoversFirst

IInv == TypeOK /\ Typed /\ Deltas /\ (~shared => InTurn)

(***************************************************************************)
(* The sums of the deltas                                                  *)
(***************************************************************************)
\* The function that sums the first numbers of g exists.
LEMMA SumExists ==
  ASSUME NEW n \in Nat, NEW g \in [1..n -> Int]
  PROVE  \E f : f = [k \in 0..n |-> IF k = 0 THEN 0 ELSE f[k - 1] + g[k]]
<1> DEFINE S == {m \in Nat : m <= n =>
                   \E f : f = [k \in 0..m |-> IF k = 0 THEN 0 ELSE f[k - 1] + g[k]]}
<1>1. 0 \in S
  <2> DEFINE f == [k \in 0..0 |-> 0]
  <2>1. f = [k \in 0..0 |-> IF k = 0 THEN 0 ELSE f[k - 1] + g[k]]
    OBVIOUS
  <2> QED BY <2>1
<1>2. ASSUME NEW m \in Nat, m \in S PROVE m + 1 \in S
  <2> SUFFICES ASSUME m + 1 <= n
               PROVE  \E f : f = [k \in 0..(m + 1) |-> IF k = 0 THEN 0 ELSE f[k - 1] + g[k]]
    OBVIOUS
  <2>1. PICK f : f = [k \in 0..m |-> IF k = 0 THEN 0 ELSE f[k - 1] + g[k]]
    BY <1>2
  <2> DEFINE h == [k \in 0..(m + 1) |-> IF k = m + 1 THEN f[m] + g[m + 1] ELSE f[k]]
  <2>2. ASSUME NEW k \in 0..(m + 1) PROVE h[k] = IF k = 0 THEN 0 ELSE h[k - 1] + g[k]
    <3>1. CASE k = m + 1
      BY <3>1
    <3>2. CASE k # m + 1
      <4>1. k \in 0..m /\ h[k] = f[k] /\ f[k] = (IF k = 0 THEN 0 ELSE f[k - 1] + g[k])
        BY <2>1, <3>2
      <4>2. k # 0 => k - 1 \in 0..m /\ h[k - 1] = f[k - 1]
        BY <4>1
      <4> QED BY <4>1, <4>2
    <3> QED BY <3>1, <3>2
  <2>3. h = [k \in 0..(m + 1) |-> IF k = 0 THEN 0 ELSE h[k - 1] + g[k]]
    <3>1. h = [k \in 0..(m + 1) |-> h[k]]
      OBVIOUS
    <3> HIDE DEF h
    <3> QED BY <2>2, <3>1
  <2> QED BY <2>3
<1>3. Nat \subseteq S
  <2> HIDE DEF S
  <2> QED BY <1>1, <1>2, NatInd
<1> QED BY <1>3

\* Prefix is the sum it is meant to be.
LEMMA PrefixStep ==
  ASSUME timeout_list \in Seq(Timeouts), dticks \in [Timeouts -> Int]
  PROVE  /\ Prefix(0) = 0
         /\ \A k \in 1..Len(timeout_list) :
              Prefix(k) = Prefix(k - 1) + dticks[timeout_list[k]]
<1> DEFINE N == Len(timeout_list)
           g == [k \in 1..N |-> dticks[timeout_list[k]]]
           sum == CHOOSE f : f = [k \in 0..N |->
                    IF k = 0 THEN 0 ELSE f[k - 1] + dticks[timeout_list[k]]]
<1>1. \A n : Prefix(n) = sum[n]
  BY DEF Prefix
<1>2. \E f : f = [k \in 0..N |-> IF k = 0 THEN 0 ELSE f[k - 1] + dticks[timeout_list[k]]]
  <2>1. N \in Nat /\ g \in [1..N -> Int]
    OBVIOUS
  <2>2. PICK f : f = [k \in 0..N |-> IF k = 0 THEN 0 ELSE f[k - 1] + g[k]]
    <3> HIDE DEF N, g
    <3> QED BY <2>1, SumExists
  <2>3. \A k \in 1..N : g[k] = dticks[timeout_list[k]]
    OBVIOUS
  <2> HIDE DEF N, g
  <2>4. \A k \in 0..N : f[k] = IF k = 0 THEN 0 ELSE f[k - 1] + dticks[timeout_list[k]]
    <3> TAKE k \in 0..N
    <3>1. f[k] = IF k = 0 THEN 0 ELSE f[k - 1] + g[k]
      BY <2>2
    <3> QED BY <2>1, <2>3, <3>1
  <2>5. f = [k \in 0..N |-> f[k]]
    BY <2>2
  <2>6. f = [k \in 0..N |-> IF k = 0 THEN 0 ELSE f[k - 1] + dticks[timeout_list[k]]]
    BY <2>4, <2>5
  <2> QED BY <2>6
<1>3. sum = [k \in 0..N |-> IF k = 0 THEN 0 ELSE sum[k - 1] + dticks[timeout_list[k]]]
  <2> HIDE DEF N
  <2> QED BY <1>2
<1> HIDE DEF sum
<1>4. N \in Nat
  OBVIOUS
<1> HIDE DEF N
<1>5. \A k \in 0..N : sum[k] = IF k = 0 THEN 0 ELSE sum[k - 1] + dticks[timeout_list[k]]
  BY <1>3
<1>6. sum[0] = 0
  BY <1>4, <1>5
<1>7. \A k \in 1..N : sum[k] = sum[k - 1] + dticks[timeout_list[k]]
  <2> TAKE k \in 1..N
  <2> QED BY <1>4, <1>5
<1> QED BY <1>1, <1>6, <1>7 DEF N

\* The prefix sums lead from curr_tick to the deadlines.
LEMMA PrefixIsDue ==
  ASSUME TypeOK, Typed, Deltas
  PROVE  /\ Prefix(0) = 0
         /\ \A k \in 1..Len(timeout_list) : Prefix(k) = Due(k) - curr_tick
<1> DEFINE N == Len(timeout_list)
           S == {m \in Nat : m \in 1..N => Prefix(m) = Due(m) - curr_tick}
<1>1. /\ timeout_list \in Seq(Timeouts) /\ dticks \in [Timeouts -> Int]
      /\ deadline \in [Timeouts -> Int] /\ curr_tick \in Int /\ N \in Nat
  BY DEF TypeOK, Typed, MAX_WAIT
<1>2. /\ Prefix(0) = 0
      /\ \A k \in 1..N : Prefix(k) = Prefix(k - 1) + dticks[timeout_list[k]]
  BY <1>1, PrefixStep
<1>3. \A k \in 1..N : Due(k) \in Int
  BY <1>1 DEF Due
<1>4. \A k \in 1..N : dticks[timeout_list[k]] = Due(k) - From(k)
  BY DEF Deltas
<1>5. 0 \in S
  BY <1>1
<1>6. ASSUME NEW m \in Nat, m \in S PROVE m + 1 \in S
  <2> SUFFICES ASSUME m + 1 \in 1..N PROVE Prefix(m + 1) = Due(m + 1) - curr_tick
    OBVIOUS
  <2>1. Prefix(m + 1) = Prefix(m) + dticks[timeout_list[m + 1]]
    BY <1>2
  <2>2. dticks[timeout_list[m + 1]] = Due(m + 1) - From(m + 1)
    BY <1>4
  <2>3. CASE m = 0
    BY <1>1, <1>2, <1>3, <2>1, <2>2, <2>3 DEF From
  <2>4. CASE m # 0
    <3>1. m \in 1..N
      BY <1>1, <2>4
    <3>2. Prefix(m) = Due(m) - curr_tick /\ From(m + 1) = Due(m)
      BY <1>6, <2>4, <3>1 DEF From
    <3> QED BY <1>1, <1>3, <2>1, <2>2, <3>1, <3>2
  <2> QED BY <2>3, <2>4
<1>7. Nat \subseteq S
  <2> HIDE DEF S
  <2> QED BY <1>5, <1>6, NatInd
<1> QED BY <1>1, <1>2, <1>7

(***************************************************************************)
(* Inserting into the list                                                 *)
(***************************************************************************)
\* What InsertAt() puts where.
LEMMA InsertAtShape ==
  ASSUME NEW S, NEW s \in Seq(S), NEW k \in 1..(Len(s) + 1), NEW x \in S
  PROVE  LET r == InsertAt(s, k, x)
         IN  /\ r \in Seq(S) /\ Len(r) = Len(s) + 1
             /\ \A j \in 1..(Len(s) + 1) :
                  r[j] = IF j = k THEN x ELSE IF j < k THEN s[j] ELSE s[j - 1]
<1> DEFINE n == Len(s)
           a == SubSeq(s, 1, k - 1)
           b == SubSeq(s, k, n)
           ax == a \o <<x>>
           r == ax \o b
<1>1. n \in Nat /\ k \in Nat /\ k - 1 \in 0..n
  OBVIOUS
<1>2. a \in Seq(S) /\ Len(a) = k - 1 /\ \A j \in 1..(k - 1) : a[j] = s[j]
  OBVIOUS
<1>3. b \in Seq(S) /\ Len(b) = n + 1 - k /\ \A j \in 1..(n + 1 - k) : b[j] = s[j + k - 1]
  <2>1. /\ SubSeq(s, (k - 1) + 1, n) \in Seq(S)
        /\ Len(SubSeq(s, (k - 1) + 1, n)) = n - (k - 1)
        /\ \A j \in 1..(n - (k - 1)) : SubSeq(s, (k - 1) + 1, n)[j] = s[j + (k - 1)]
    BY <1>1, RestFacts
  <2>2. (k - 1) + 1 = k
    BY <1>1
  <2>3. \A j \in 1..(n + 1 - k) : j \in 1..(n - (k - 1)) /\ j + (k - 1) = j + k - 1
    BY <1>1
  <2>4. n - (k - 1) = n + 1 - k
    BY <1>1
  <2> QED BY <2>1, <2>2, <2>3, <2>4
<1> HIDE DEF n, a, b
<1>4. ax \in Seq(S) /\ Len(ax) = k /\ ax[k] = x /\ \A j \in 1..(k - 1) : ax[j] = s[j]
  <2>1. ax \in Seq(S) /\ Len(ax) = k
    BY <1>1, <1>2
  <2>2. <<x>> \in Seq(S) /\ Len(<<x>>) = 1 /\ <<x>>[1] = x
    OBVIOUS
  <2>c. \A j \in 1..(Len(a) + Len(<<x>>)) :
          ax[j] = IF j <= Len(a) THEN a[j] ELSE <<x>>[j - Len(a)]
    BY <1>2, <2>2, ConcatProperties
  <2>3. \A j \in 1..k : ax[j] = IF j <= k - 1 THEN a[j] ELSE <<x>>[j - (k - 1)]
    <3>1. Len(a) + Len(<<x>>) = k /\ Len(a) = k - 1
      BY <1>1, <1>2, <2>2
    <3> QED BY <2>c, <3>1
  <2>4. k - (k - 1) = 1 /\ k \in 1..k /\ ~(k <= k - 1)
    BY <1>1
  <2>5. ax[k] = x
    BY <2>2, <2>3, <2>4
  <2>6. \A j \in 1..(k - 1) : j \in 1..k /\ j <= k - 1
    BY <1>1
  <2> QED BY <1>2, <2>1, <2>3, <2>5, <2>6
<1> HIDE DEF ax
<1>5. r \in Seq(S) /\ Len(r) = n + 1
  <2>1. r \in Seq(S) /\ Len(r) = Len(ax) + Len(b)
    BY <1>3, <1>4, ConcatProperties
  <2> QED BY <1>1, <1>3, <1>4, <2>1
<1>r. \A j \in 1..(n + 1) : r[j] = IF j <= k THEN ax[j] ELSE b[j - k]
  <2>1. \A j \in 1..(Len(ax) + Len(b)) : r[j] = IF j <= Len(ax) THEN ax[j] ELSE b[j - Len(ax)]
    BY <1>3, <1>4, ConcatProperties
  <2>2. Len(ax) + Len(b) = n + 1 /\ Len(ax) = k
    BY <1>1, <1>3, <1>4
  <2> QED BY <2>1, <2>2
<1> HIDE DEF r
<1>6. ASSUME NEW j \in 1..(n + 1)
      PROVE  r[j] = IF j = k THEN x ELSE IF j < k THEN s[j] ELSE s[j - 1]
  <2>0. r[j] = IF j <= k THEN ax[j] ELSE b[j - k]
    BY <1>r
  <2>1. CASE j = k
    BY <1>1, <1>4, <2>0, <2>1
  <2>2. CASE j < k
    <3>1. j \in 1..(k - 1) /\ j <= k /\ j # k
      BY <1>1, <2>2
    <3> QED BY <1>4, <2>0, <2>2, <3>1
  <2>3. CASE j > k
    <3>1. /\ j - k \in 1..(n + 1 - k) /\ (j - k) + k - 1 = j - 1
          /\ ~(j <= k) /\ j # k /\ ~(j < k)
      BY <1>1, <2>3
    <3>2. b[j - k] = s[(j - k) + k - 1]
      BY <1>3, <3>1
    <3> QED BY <2>0, <3>1, <3>2
  <2> QED BY <1>1, <2>1, <2>2, <2>3
<1> QED BY <1>5, <1>6 DEF InsertAt, n, ax, a, b, r

\* z_add_timeout()'s loop stops at the first timeout that expires after the
\* new one.
LEMMA AddPlaceFacts ==
  ASSUME TypeOK, Typed, Deltas, NEW d \in Nat
  PROVE  /\ Place(d) \in 1..(Len(timeout_list) + 1)
         /\ \A j \in 1..(Place(d) - 1) : Due(j) - curr_tick <= d
         /\ Place(d) <= Len(timeout_list) => Due(Place(d)) - curr_tick > d
         /\ Prefix(Place(d) - 1) = From(Place(d)) - curr_tick
<1> DEFINE N == Len(timeout_list)
           T == {k \in 1..(N + 1) : k <= N => Prefix(k) > d}
           p == Place(d)
<1>1. N \in Nat /\ curr_tick \in Int /\ \A k \in 1..N : Due(k) \in Int
  BY DEF TypeOK, Typed, Due
<1>2. Prefix(0) = 0 /\ \A k \in 1..N : Prefix(k) = Due(k) - curr_tick
  BY PrefixIsDue
<1> HIDE DEF N
<1>3. N + 1 \in T /\ T \subseteq Nat
  BY <1>1
<1>4. PICK k \in T : \A j \in T : k <= j
  <2>1. T # {}
    BY <1>3
  <2> HIDE DEF T
  <2> QED BY <1>3, <2>1, LeastNat
<1>5. \A j \in 1..(k - 1) : Prefix(j) <= d
  <2> TAKE j \in 1..(k - 1)
  <2>1. j \in 1..N /\ j < k
    BY <1>1, <1>4
  <2>2. j \notin T
    BY <1>1, <1>4, <2>1
  <2>3. Prefix(j) \in Int
    BY <1>1, <1>2, <2>1
  <2> QED BY <1>1, <2>1, <2>2, <2>3
<1>6. /\ p \in 1..(N + 1)
      /\ \A j \in 1..(p - 1) : Prefix(j) <= d
      /\ p <= N => Prefix(p) > d
  BY <1>4, <1>5 DEF Place, N
<1> HIDE DEF p
<1>7. \A j \in 1..(p - 1) : Due(j) - curr_tick <= d
  BY <1>1, <1>2, <1>6
<1>8. p <= N => Due(p) - curr_tick > d
  BY <1>1, <1>2, <1>6
<1>9. Prefix(p - 1) = From(p) - curr_tick
  <2>1. CASE p = 1
    BY <1>1, <1>2, <2>1 DEF From
  <2>2. CASE p # 1
    <3>1. p - 1 \in 1..N
      BY <1>1, <1>6, <2>2
    <3> QED BY <1>2, <2>2, <3>1 DEF From
  <2> QED BY <2>1, <2>2
<1> QED BY <1>6, <1>7, <1>8, <1>9 DEF p, N

\* Deadlines are in the order of the list, none before curr_tick.
LEMMA DueOrder ==
  ASSUME TypeOK, Typed, Deltas
  PROVE  \A k \in 1..Len(timeout_list) :
           curr_tick <= Due(1) /\ Due(1) <= Due(k) /\ From(k) \in Int /\ Due(k) \in Int
<1> DEFINE N == Len(timeout_list)
           S == {m \in Nat : m \in 1..N => curr_tick <= Due(1) /\ Due(1) <= Due(m)}
<1>1. N \in Nat /\ curr_tick \in Int /\ \A k \in 1..N : Due(k) \in Int
  BY DEF TypeOK, Typed, Due
<1>2. \A k \in 1..N : From(k) <= Due(k)
  BY DEF Deltas
<1> HIDE DEF N
<1>3. 0 \in S
  BY <1>1
<1>4. ASSUME NEW m \in Nat, m \in S PROVE m + 1 \in S
  <2> SUFFICES ASSUME m + 1 \in 1..N PROVE curr_tick <= Due(1) /\ Due(1) <= Due(m + 1)
    OBVIOUS
  <2>1. From(m + 1) <= Due(m + 1)
    BY <1>2
  <2>2. CASE m = 0
    BY <1>1, <2>1, <2>2 DEF From
  <2>3. CASE m # 0
    <3>1. m \in 1..N /\ 1 \in 1..N
      BY <1>1, <2>3
    <3>2. From(m + 1) = Due(m)
      BY <2>3 DEF From
    <3> QED BY <1>1, <1>4, <2>1, <3>1, <3>2
  <2> QED BY <2>2, <2>3
<1>5. Nat \subseteq S
  <2> HIDE DEF S
  <2> QED BY <1>3, <1>4, NatInd
<1>6. \A k \in 1..N : curr_tick <= Due(1) /\ Due(1) <= Due(k) /\ Due(k) \in Int
  <2> TAKE k \in 1..N
  <2>1. 1 \in 1..N /\ k \in S
    BY <1>1, <1>5
  <2> QED BY <1>1, <2>1
<1>7. \A k \in 1..N : From(k) \in Int
  <2> TAKE k \in 1..N
  <2>1. k # 1 => k - 1 \in 1..N
    BY <1>1
  <2> QED BY <1>1, <1>6, <2>1 DEF From
<1> QED BY <1>6, <1>7 DEF N

\* The position of a linked timeout.
LEMMA PositionFacts ==
  ASSUME timeout_list \in Seq(Timeouts), NEW t \in Timeouts, Linked(t)
  PROVE  /\ Position(timeout_list, t) \in 1..Len(timeout_list)
         /\ timeout_list[Position(timeout_list, t)] = t
BY DEF Linked, IsIn, Position

\* The invariant holds initially.
LEMMA InitIInv == Init => IInv
<1> SUFFICES ASSUME Init PROVE IInv
  OBVIOUS
<1> USE DEF Init, MAX_WAIT
<1>1. TypeOK
  BY TimeoutQAssumption DEF TypeOK, Once
<1>2. Typed
  <2>1. shared \in BOOLEAN
    OBVIOUS
  <2>2. isr \in [CPUs -> {Idle}] /\ announced <= now
    OBVIOUS
  <2>3. deadline \in [Timeouts -> Int] /\ asked \in [Timeouts -> Int]
    OBVIOUS
  <2>4. isr \in [CPUs -> {Idle} \cup [t : Timeouts, dt : Nat, due : Int]]
    BY <2>2
  <2> HIDE DEF Init
  <2> QED BY <2>1, <2>2, <2>3, <2>4 DEF Typed
<1>3. Len(timeout_list) = 0 /\ timeout_list = <<>>
  OBVIOUS
<1>4. Deltas /\ AlarmCoversFirst
  BY <1>3 DEF Deltas, AlarmCoversFirst
<1>5. \A c \in CPUs : isr[c] = Idle
  OBVIOUS
<1>6. Processed /\ AnnounceSequential
  BY <1>5 DEF Processed, AnnounceSequential, InCallback
<1> QED BY <1>1, <1>2, <1>4, <1>6 DEF IInv, InTurn

\* A step that leaves every variable but the time alone.
LEMMA TickStep ==
  ASSUME IInv, \/ UNCHANGED vars \/ Tick
  PROVE  IInv'
<1>1. /\ UNCHANGED <<CPUs, announced, alarm, curr_tick, timeout_list, dticks>>
      /\ UNCHANGED <<announce_remaining, isr, deadline, asked, shared>>
      /\ now' \in 0..MaxTime /\ now' >= now
  BY TimeoutQAssumption DEF IInv, TypeOK, Tick, vars, listVars, clockVars
<1>2. TypeOK'
  BY <1>1 DEF IInv, TypeOK, MAX_WAIT
<1>3. Typed'
  BY <1>1 DEF IInv, Typed, TypeOK
<1>4. Deltas'
  BY <1>1 DEF IInv, Deltas, Due, From, Apart, SMP
<1>5. ~shared => Processed' /\ AnnounceSequential'
  BY <1>1 DEF IInv, InTurn, Processed, AnnounceSequential, InCallback, SMP
<1>6. ~shared => AlarmCoversFirst'
  <2>1. alarm \in Nat /\ now \in Int /\ now' \in Int
    BY <1>1 DEF IInv, TypeOK
  <2> QED BY <1>1, <2>1 DEF IInv, InTurn, AlarmCoversFirst, InCallback
<1> QED BY <1>1, <1>2, <1>3, <1>4, <1>5, <1>6 DEF IInv, InTurn

\* The ticks that have passed since the last announcement.
LEMMA ElapsedFacts ==
  ASSUME IInv
  PROVE  /\ elapsed \in Nat
         /\ ~shared /\ ~InCallback => curr_tick + elapsed = now
BY DEF IInv, InTurn, TypeOK, Typed, Processed, elapsed, sys_clock_elapsed

\* z_add_timeout(), d ticks after curr_tick and not before a, keeps the
\* invariant.
LEMMA AddStep ==
  ASSUME IInv, NEW t \in Timeouts, NEW d \in Nat \ {0}, AddTimeout(t, d),
         NEW a \in Int, a <= curr_tick + d, asked' = [asked EXCEPT ![t] = a]
  PROVE  IInv'
<1> DEFINE N == Len(timeout_list)
           p == Place(d)
           l == timeout_list
           at == curr_tick + d
<1>0. /\ UNCHANGED <<CPUs, now, announced, curr_tick, announce_remaining, isr>>
      /\ deadline' = [deadline EXCEPT ![t] = at]
      /\ timeout_list' = InsertAt(l, p, t)
      /\ dticks' = AddedTicks(t, d)
      /\ alarm' = AddedAlarm(t, timeout_list', dticks')
      /\ ~IsIn(l, t) /\ at <= MaxTime
      /\ shared' \in BOOLEAN /\ (shared => shared')
      /\ SMP /\ ~shared' => \A u \in Timeouts : Linked(u) => deadline[u] # at
  BY DEF AddTimeout, DueAt, Linked, IInv, Typed
<1>s. (SMP' <=> SMP) /\ (Apart' <=> SMP /\ ~shared') /\ (Apart' => Apart)
  BY <1>0 DEF SMP, Apart
<1>1. /\ l \in Seq(Timeouts) /\ N \in Nat
      /\ \A k \in 1..N : l[k] \in Timeouts /\ l[k] # t /\ Linked(l[k])
      /\ \A j, k \in 1..N : l[j] = l[k] => j = k
  <2>1. l \in Seq(Timeouts) /\ N \in Nat /\ \A k \in 1..N : l[k] \in Timeouts
    BY DEF IInv, TypeOK
  <2>2. DOMAIN l = 1..N
    BY <2>1
  <2>3. \A k \in 1..N : l[k] # t /\ Linked(l[k])
    BY <1>0, <2>2 DEF IsIn, Linked
  <2>4. \A u \in Timeouts : Once(l, u)
    BY DEF IInv, TypeOK
  <2>5. ASSUME NEW j \in 1..N, NEW k \in 1..N, l[j] = l[k] PROVE j = k
    BY <2>1, <2>2, <2>4, <2>5 DEF Once
  <2> QED BY <2>1, <2>3, <2>5
<1>2. /\ p \in 1..(N + 1)
      /\ \A j \in 1..(p - 1) : Due(j) - curr_tick <= d
      /\ p <= N => Due(p) - curr_tick > d
      /\ Prefix(p - 1) = From(p) - curr_tick
  BY AddPlaceFacts DEF IInv
<1> HIDE DEF p
<1>3. /\ timeout_list' \in Seq(Timeouts) /\ Len(timeout_list') = N + 1
      /\ \A j \in 1..(N + 1) :
           timeout_list'[j] = IF j = p THEN t ELSE IF j < p THEN l[j] ELSE l[j - 1]
  <2> DEFINE r == InsertAt(l, p, t)
  <2>1. /\ r \in Seq(Timeouts) /\ Len(r) = N + 1
        /\ \A j \in 1..(N + 1) : r[j] = IF j = p THEN t ELSE IF j < p THEN l[j] ELSE l[j - 1]
    <3>1. l \in Seq(Timeouts) /\ p \in 1..(Len(l) + 1) /\ N = Len(l)
      BY <1>1, <1>2
    <3>2. r \in Seq(Timeouts) /\ Len(r) = Len(l) + 1
      BY <3>1, InsertAtShape
    <3>3. \A j \in 1..(Len(l) + 1) : r[j] = IF j = p THEN t ELSE IF j < p THEN l[j] ELSE l[j - 1]
      BY <3>1, InsertAtShape
    <3> QED BY <3>1, <3>2, <3>3
  <2>2. timeout_list' = r
    BY <1>0
  <2> QED BY <2>1, <2>2
<1>4. /\ curr_tick \in Int /\ dticks \in [Timeouts -> Nat] /\ at \in Int
      /\ deadline \in [Timeouts -> Int] /\ asked \in [Timeouts -> Int]
      /\ \A k \in 1..N : Due(k) \in Int /\ From(k) \in Int /\ From(k) <= Due(k)
      /\ \A k \in 1..N : dticks[l[k]] = Due(k) - From(k)
      /\ MaxTime \in Nat /\ MAX_WAIT = MaxTime + 1
      /\ \A k \in 1..N : Due(k) <= MaxTime
  <2>1. /\ curr_tick \in Int /\ dticks \in [Timeouts -> Nat]
        /\ deadline \in [Timeouts -> Int] /\ asked \in [Timeouts -> Int]
    BY DEF IInv, TypeOK, Typed
  <2>2. MaxTime \in Nat /\ MAX_WAIT = MaxTime + 1 /\ at \in Int
    BY <2>1, TimeoutQAssumption DEF MAX_WAIT
  <2>3. \A k \in 1..N : Due(k) \in Int /\ From(k) \in Int
    BY DueOrder DEF IInv
  <2>4. \A k \in 1..N : /\ dticks[l[k]] = Due(k) - From(k)
                        /\ From(k) <= Due(k) /\ Due(k) <= MaxTime
    BY DEF IInv, Deltas
  <2> QED BY <2>1, <2>2, <2>3, <2>4
<1>5. From(p) \in Int /\ From(p) <= at /\ (Apart' => From(p) < at)
  <2>1. CASE p = 1
    BY <1>4, <2>1 DEF From
  <2>2. CASE p # 1
    <3>1. p - 1 \in 1..N /\ p - 1 \in 1..(p - 1) /\ From(p) = Due(p - 1)
      BY <1>1, <1>2, <2>2 DEF From
    <3>2. Due(p - 1) - curr_tick <= d /\ Due(p - 1) \in Int
      BY <1>2, <1>4, <3>1
    <3>3. Apart' => Due(p - 1) # at
      BY <1>0, <1>1, <1>s, <3>1 DEF Due
    <3>4. From(p) \in Int /\ From(p) - curr_tick <= d /\ (Apart' => From(p) # at)
      BY <3>1, <3>2, <3>3
    <3>5. From(p) <= at
      BY <1>4, <3>4
    <3> HIDE DEF at
    <3> QED BY <1>4, <3>4, <3>5
  <2> QED BY <2>1, <2>2
<1>6. /\ dticks'[t] = at - From(p)
      /\ p <= N => dticks'[l[p]] = Due(p) - at
      /\ \A u \in Timeouts : u # t /\ (p <= N => u # l[p]) => dticks'[u] = dticks[u]
      /\ DOMAIN dticks' = Timeouts
  <2> DEFINE delta == d - Prefix(p - 1)
             moved == [dticks EXCEPT ![t] = delta]
  <2>1. delta = at - From(p)
    BY <1>2, <1>4, <1>5
  <2>2. dticks' = IF p > N THEN moved ELSE [moved EXCEPT ![l[p]] = @ - delta]
    BY <1>0 DEF AddedTicks, p
  <2> HIDE DEF delta, N, l, at
  <2>3. CASE p > N
    BY <1>1, <1>2, <1>4, <2>1, <2>2, <2>3
  <2>4. CASE ~(p > N)
    <3>1. p \in 1..N /\ l[p] \in Timeouts /\ l[p] # t
      BY <1>1, <1>2, <2>4
    <3>2. dticks' = [moved EXCEPT ![l[p]] = @ - delta]
      BY <2>2, <2>4
    <3>3. dticks'[l[p]] = dticks[l[p]] - delta /\ dticks'[t] = delta
      BY <1>4, <3>1, <3>2
    <3>4. dticks[l[p]] = Due(p) - From(p) /\ Due(p) \in Int
      BY <1>4, <3>1
    <3>5. dticks'[l[p]] = Due(p) - at
      BY <1>4, <1>5, <2>1, <3>3, <3>4
    <3>6. \A u \in Timeouts : u # t /\ u # l[p] => dticks'[u] = dticks[u]
      BY <1>4, <3>1, <3>2
    <3>7. DOMAIN dticks' = Timeouts
      BY <1>4, <3>2
    <3> QED BY <2>1, <3>1, <3>3, <3>5, <3>6, <3>7
  <2> QED BY <2>3, <2>4
<1>7. /\ deadline'[t] = at /\ \A k \in 1..N : deadline'[l[k]] = Due(k)
      /\ asked'[t] = a /\ \A k \in 1..N : asked'[l[k]] = asked[l[k]]
      /\ deadline' \in [Timeouts -> Int] /\ asked' \in [Timeouts -> Int]
  BY <1>0, <1>1, <1>4 DEF Due
<1>8. ASSUME NEW j \in 1..(N + 1)
      PROVE  /\ Due(j)' = IF j = p THEN at ELSE IF j < p THEN Due(j) ELSE Due(j - 1)
             /\ From(j)' = IF j = p + 1 THEN at
                           ELSE IF j <= p THEN From(j) ELSE From(j - 1)
  <2>1. \A i \in 1..(N + 1) :
          Due(i)' = IF i = p THEN at ELSE IF i < p THEN Due(i) ELSE Due(i - 1)
    <3> TAKE i \in 1..(N + 1)
    <3>1. Due(i)' = deadline'[timeout_list'[i]]
      BY DEF Due
    <3>2. CASE i = p
      BY <1>3, <1>7, <3>1, <3>2
    <3>3. CASE i < p
      <4>1. i \in 1..N /\ timeout_list'[i] = l[i]
        BY <1>1, <1>2, <1>3, <3>3
      <4> QED BY <1>2, <1>7, <3>1, <3>3, <4>1
    <3>4. CASE i > p
      <4>1. i - 1 \in 1..N /\ timeout_list'[i] = l[i - 1] /\ i # p /\ ~(i < p)
        BY <1>1, <1>2, <1>3, <3>4
      <4> QED BY <1>7, <3>1, <4>1
    <3> QED BY <1>1, <1>2, <3>2, <3>3, <3>4
  <2>2. From(j)' = IF j = 1 THEN curr_tick ELSE Due(j - 1)'
    BY <1>0 DEF From
  <2>3. CASE j = 1
    <3>1. j # p + 1 /\ j <= p
      BY <1>2, <2>3
    <3> QED BY <2>1, <2>2, <2>3, <3>1 DEF From
  <2>4. CASE j # 1
    <3>1. j - 1 \in 1..(N + 1)
      BY <1>1, <2>4
    <3>2. Due(j - 1)' = IF j - 1 = p THEN at
                        ELSE IF j - 1 < p THEN Due(j - 1) ELSE Due((j - 1) - 1)
      BY <2>1, <3>1
    <3>3. CASE j = p + 1
      BY <1>2, <2>1, <2>2, <2>4, <3>2, <3>3
    <3>4. CASE j <= p
      <4>1. j - 1 # p /\ j - 1 < p /\ j # p + 1
        BY <1>2, <3>4
      <4> QED BY <2>1, <2>2, <2>4, <3>2, <3>4, <4>1 DEF From
    <3>5. CASE j > p + 1
      <4>1. j - 1 # p /\ ~(j - 1 < p) /\ j # p + 1 /\ ~(j <= p) /\ j - 1 # 1
        BY <1>2, <3>5
      <4> QED BY <2>1, <2>2, <2>4, <3>2, <4>1 DEF From
    <3> QED BY <1>2, <3>3, <3>4, <3>5
  <2> QED BY <2>1, <2>3, <2>4
<1>9. \A k \in 1..N : /\ dticks[l[k]] = Due(k) - From(k) /\ (Apart => From(k) < Due(k))
                      /\ asked[l[k]] <= Due(k) /\ asked[l[k]] \in Int
  BY <1>1, <1>4 DEF IInv, Deltas
<1>10. ASSUME NEW j \in 1..(N + 1)
       PROVE  /\ dticks'[timeout_list'[j]] = Due(j)' - From(j)'
              /\ From(j)' <= Due(j)' /\ (Apart' => From(j)' < Due(j)')
              /\ Due(j)' <= MaxTime
              /\ asked'[timeout_list'[j]] <= Due(j)'
              /\ dticks'[timeout_list'[j]] \in Nat
  <2>1. CASE j = p
    <3>1. timeout_list'[j] = t /\ Due(j)' = at /\ From(j)' = From(p)
      BY <1>2, <1>3, <1>8, <2>1
    <3> HIDE DEF at, N, l
    <3> QED BY <1>0, <1>4, <1>5, <1>6, <1>7, <3>1 DEF at
  <2>2. CASE j < p
    <3>0. j \in 1..N /\ j # p /\ j # p + 1 /\ j <= p
      BY <1>1, <1>2, <2>2
    <3>1. j \in 1..N /\ timeout_list'[j] = l[j] /\ Due(j)' = Due(j) /\ From(j)' = From(j)
      BY <1>3, <1>8, <2>2, <3>0
    <3>2. l[j] \in Timeouts /\ l[j] # t /\ (p <= N => l[j] # l[p])
      BY <1>1, <1>2, <2>2, <3>1
    <3>3. dticks'[l[j]] = dticks[l[j]] /\ asked'[l[j]] = asked[l[j]]
      BY <1>6, <1>7, <3>1, <3>2
    <3> HIDE DEF at, N, l
    <3> QED BY <1>s, <1>4, <1>9, <3>1, <3>2, <3>3
  <2>3. CASE j = p + 1
    <3>1. p \in 1..N /\ timeout_list'[j] = l[p] /\ Due(j)' = Due(p) /\ From(j)' = at
      BY <1>1, <1>2, <1>3, <1>8, <2>3
    <3>2. p <= N /\ Due(p) \in Int
      BY <1>1, <1>4, <3>1
    <3>3. at < Due(p) /\ at \in Int
      BY <1>2, <1>4, <3>2
    <3>4. dticks'[l[p]] = Due(p) - at /\ asked'[l[p]] = asked[l[p]]
      BY <1>6, <1>7, <3>1, <3>2
    <3> HIDE DEF at, N, l
    <3> QED BY <1>s, <1>4, <1>9, <3>1, <3>2, <3>3, <3>4
  <2>4. CASE j > p + 1
    <3>1. /\ j - 1 \in 1..N /\ timeout_list'[j] = l[j - 1]
          /\ Due(j)' = Due(j - 1) /\ From(j)' = From(j - 1)
      <4>1. j - 1 \in 1..N /\ j # p /\ ~(j < p) /\ j # p + 1 /\ ~(j <= p)
        BY <1>1, <1>2, <2>4
      <4> QED BY <1>3, <1>8, <4>1
    <3>2. l[j - 1] \in Timeouts /\ l[j - 1] # t /\ (p <= N => l[j - 1] # l[p])
      BY <1>1, <1>2, <2>4, <3>1
    <3>3. dticks'[l[j - 1]] = dticks[l[j - 1]] /\ asked'[l[j - 1]] = asked[l[j - 1]]
      BY <1>6, <1>7, <3>1, <3>2
    <3> HIDE DEF at, N, l
    <3> QED BY <1>s, <1>4, <1>9, <3>1, <3>2, <3>3
  <2> QED BY <1>1, <1>2, <2>1, <2>2, <2>3, <2>4
<1>11. Deltas'
  BY <1>3, <1>10, <1>s DEF Deltas
<1>12. TypeOK'
  <2>1. \A u \in Timeouts : dticks'[u] \in Nat
    <3> TAKE u \in Timeouts
    <3>1. CASE u = t
      <4>1. p \in 1..(N + 1) /\ timeout_list'[p] = t
        BY <1>2, <1>3
      <4> QED BY <1>10, <3>1, <4>1
    <3>2. CASE p <= N /\ u = l[p]
      <4>1. p + 1 \in 1..(N + 1) /\ p + 1 # p /\ ~(p + 1 < p) /\ (p + 1) - 1 = p
        BY <1>1, <1>2, <3>2
      <4>2. timeout_list'[p + 1] = l[p]
        BY <1>3, <4>1
      <4> QED BY <1>10, <3>2, <4>1, <4>2
    <3>3. CASE u # t /\ (p <= N => u # l[p])
      BY <1>4, <1>6, <3>3
    <3> QED BY <3>1, <3>2, <3>3
  <2>2. dticks' \in [Timeouts -> Nat]
    <3>1. dticks' = [u \in Timeouts |-> dticks'[u]]
      <4> DEFINE delta == d - Prefix(p - 1)
                 moved == [dticks EXCEPT ![t] = delta]
      <4>1. dticks' = IF p > N THEN moved ELSE [moved EXCEPT ![l[p]] = @ - delta]
        BY <1>0 DEF AddedTicks, p
      <4> HIDE DEF delta, N, l
      <4> QED BY <1>4, <4>1
    <3> QED BY <2>1, <3>1
  <2>3. \A j, k \in 1..(N + 1) : timeout_list'[j] = timeout_list'[k] => j = k
    <3> SUFFICES ASSUME NEW j \in 1..(N + 1), NEW k \in 1..(N + 1),
                        timeout_list'[j] = timeout_list'[k]
                 PROVE  j = k
      OBVIOUS
    <3> DEFINE o(i) == IF i < p THEN i ELSE i - 1
    <3>1. ASSUME NEW i \in 1..(N + 1), i # p
          PROVE  o(i) \in 1..N /\ timeout_list'[i] = l[o(i)] /\ l[o(i)] # t
      <4>1. o(i) \in 1..N
        BY <1>1, <1>2, <3>1
      <4>2. timeout_list'[i] = l[o(i)]
        BY <1>3, <3>1
      <4> QED BY <1>1, <4>1, <4>2
    <3>2. timeout_list'[p] = t
      BY <1>2, <1>3
    <3>3. CASE j = p
      BY <3>1, <3>2, <3>3
    <3>4. CASE k = p
      BY <3>1, <3>2, <3>4
    <3>5. CASE j # p /\ k # p
      <4>1. o(j) = o(k)
        BY <1>1, <3>1, <3>5
      <4> QED BY <1>1, <1>2, <3>5, <4>1
    <3> QED BY <3>3, <3>4, <3>5
  <2>4. DOMAIN timeout_list' = 1..(N + 1)
    BY <1>3
  <2>5. \A u \in Timeouts : Once(timeout_list', u)
    BY <2>3, <2>4 DEF Once
  <2>6. alarm' \in Nat
    <3>1. timeout_list' # <<>> /\ Head(timeout_list') \in Timeouts
      BY <1>1, <1>3
    <3>2. dticks'[Head(timeout_list')] \in Nat
      BY <2>1, <3>1, <1>4
    <3>3. elapsed \in Nat /\ now \in Nat /\ alarm \in Nat
      BY ElapsedFacts DEF IInv, TypeOK
    <3> QED BY <1>0, <3>1, <3>2, <3>3 DEF AddedAlarm, NextAlarm
  <2> QED BY <1>0, <1>3, <2>2, <2>5, <2>6 DEF IInv, TypeOK, MAX_WAIT
<1>13. Typed'
  <2>1. isr \in [CPUs -> {Idle} \cup [t : Timeouts, dt : Nat, due : Int]]
    BY DEF IInv, Typed
  <2>2. announced <= now
    BY DEF IInv, Typed
  <2> QED BY <1>0, <1>7, <2>1, <2>2 DEF Typed
<1>i. (InCallback' <=> InCallback)
  BY <1>0 DEF InCallback
<1>14. ~shared => announce_remaining' \in Nat /\ Processed' /\ AnnounceSequential'
  BY <1>0, <1>i, <1>s DEF IInv, InTurn, Processed, AnnounceSequential
<1>15. ~shared => AlarmCoversFirst'
  <2> SUFFICES ASSUME ~shared, ~InCallback
               PROVE  alarm' <= now \/ alarm' <= deadline'[Head(timeout_list')]
    BY <1>0, <1>i DEF AlarmCoversFirst
  <2>1. timeout_list' # <<>> /\ Head(timeout_list') = timeout_list'[1] /\ 1 \in 1..(N + 1)
    BY <1>1, <1>3
  <2>2. alarm \in Nat /\ now \in Nat /\ elapsed \in Nat /\ curr_tick + elapsed = now
    BY ElapsedFacts DEF IInv, TypeOK
  <2>3. CASE p = 1
    <3>1. Head(timeout_list') = t /\ dticks'[t] = d
      BY <1>3, <1>4, <1>6, <2>1, <2>3 DEF From
    <3>2. alarm' = now + (IF d > elapsed THEN d - elapsed ELSE 0)
      BY <1>0, <2>1, <3>1 DEF AddedAlarm, NextAlarm
    <3> QED BY <1>4, <1>7, <2>2, <3>1, <3>2
  <2>4. CASE p # 1
    <3>1. 1 \in 1..N /\ timeout_list'[1] = l[1]
      BY <1>1, <1>2, <1>3, <2>4
    <3>2. l # <<>> /\ Head(l) = l[1] /\ l[1] # t
      BY <1>1, <3>1
    <3>3. alarm' = alarm
      BY <1>0, <2>1, <3>1, <3>2 DEF AddedAlarm
    <3>4. alarm <= now \/ alarm <= deadline[Head(timeout_list)]
      BY <3>2 DEF IInv, InTurn, AlarmCoversFirst
    <3>5. deadline'[timeout_list'[1]] = deadline[Head(timeout_list)]
      BY <1>7, <3>1, <3>2 DEF Due
    <3> QED BY <2>1, <3>3, <3>4, <3>5
  <2> QED BY <2>3, <2>4
<1> QED BY <1>0, <1>11, <1>12, <1>13, <1>14, <1>15 DEF IInv, InTurn

\* What the invariant says of the list, by position.
LEMMA ListShape ==
  ASSUME IInv
  PROVE  LET N == Len(timeout_list) IN
         /\ timeout_list \in Seq(Timeouts) /\ N \in Nat /\ DOMAIN timeout_list = 1..N
         /\ \A k \in 1..N : timeout_list[k] \in Timeouts
         /\ \A j, k \in 1..N : timeout_list[j] = timeout_list[k] => j = k
         /\ curr_tick \in Int /\ dticks \in [Timeouts -> Nat]
         /\ deadline \in [Timeouts -> Int] /\ asked \in [Timeouts -> Int]
         /\ MaxTime \in Nat /\ MAX_WAIT = MaxTime + 1
         /\ \A k \in 1..N : Due(k) \in Int /\ From(k) \in Int
         /\ \A k \in 1..N : /\ dticks[timeout_list[k]] = Due(k) - From(k)
                            /\ From(k) <= Due(k) /\ Due(k) <= MaxTime
                            /\ Apart => From(k) < Due(k)
                            /\ asked[timeout_list[k]] <= Due(k)
<1> DEFINE N == Len(timeout_list)
<1>1. timeout_list \in Seq(Timeouts) /\ N \in Nat /\ \A k \in 1..N : timeout_list[k] \in Timeouts
  BY DEF IInv, TypeOK
<1>2. DOMAIN timeout_list = 1..N
  BY <1>1
<1>3. \A u \in Timeouts : Once(timeout_list, u)
  BY DEF IInv, TypeOK
<1>4. ASSUME NEW j \in 1..N, NEW k \in 1..N, timeout_list[j] = timeout_list[k] PROVE j = k
  BY <1>1, <1>2, <1>3, <1>4 DEF Once
<1>5. /\ curr_tick \in Int /\ dticks \in [Timeouts -> Nat]
      /\ deadline \in [Timeouts -> Int] /\ asked \in [Timeouts -> Int]
  BY DEF IInv, TypeOK, Typed
<1>6. MaxTime \in Nat /\ MAX_WAIT = MaxTime + 1
  BY TimeoutQAssumption DEF MAX_WAIT
<1>7. \A k \in 1..N : Due(k) \in Int /\ From(k) \in Int
  BY DueOrder DEF IInv
<1>8. \A k \in 1..N : /\ dticks[timeout_list[k]] = Due(k) - From(k)
                      /\ From(k) <= Due(k) /\ Due(k) <= MaxTime
                      /\ Apart => From(k) < Due(k)
                      /\ asked[timeout_list[k]] <= Due(k)
  BY DEF IInv, Deltas
<1> HIDE DEF N
<1>9. \A j, k \in 1..N : timeout_list[j] = timeout_list[k] => j = k
  BY <1>4
<1> QED BY <1>1, <1>2, <1>5, <1>6, <1>7, <1>8, <1>9 DEF N

\* z_abort_timeout() keeps the invariant.
LEMMA AbortStep ==
  ASSUME IInv, NEW t \in Timeouts, Abort(t)
  PROVE  IInv'
<1> DEFINE N == Len(timeout_list)
           l == timeout_list
           p == Position(l, t)
<1>0. /\ UNCHANGED <<CPUs, now, announced, alarm, curr_tick, announce_remaining, isr, shared>>
      /\ deadline' = [deadline EXCEPT ![t] = 0] /\ asked' = [asked EXCEPT ![t] = 0]
      /\ timeout_list' = RemoveItem(l, t) /\ dticks' = RemovedTicks(t)
      /\ IsIn(l, t) /\ Linked(t)
  BY DEF Abort, Forget, Linked, clockVars
<1>1. /\ l \in Seq(Timeouts) /\ N \in Nat
      /\ \A k \in 1..N : l[k] \in Timeouts
      /\ \A j, k \in 1..N : l[j] = l[k] => j = k
  BY ListShape
<1>2. p \in 1..N /\ l[p] = t
  BY <1>0, <1>1, PositionFacts
<1>3. /\ timeout_list' \in Seq(Timeouts) /\ Len(timeout_list') = N - 1
      /\ DOMAIN timeout_list' = 1..(N - 1)
      /\ \A j \in 1..(N - 1) : timeout_list'[j] = IF j < p THEN l[j] ELSE l[j + 1]
  <2>1. /\ RemoveItem(l, t) \in Seq(Timeouts) /\ DOMAIN RemoveItem(l, t) = 1..(N - 1)
        /\ \A j \in 1..(N - 1) : RemoveItem(l, t)[j] = IF j < p THEN l[j] ELSE l[j + 1]
    BY <1>0, <1>1, RemoveShape
  <2>2. /\ timeout_list' \in Seq(Timeouts) /\ DOMAIN timeout_list' = 1..(N - 1)
        /\ \A j \in 1..(N - 1) : timeout_list'[j] = IF j < p THEN l[j] ELSE l[j + 1]
    BY <1>0, <2>1
  <2>3. N - 1 \in Nat
    BY <1>1, <1>2
  <2>4. Len(timeout_list') = N - 1
    BY <2>2, <2>3, LenProperties
  <2> QED BY <2>2, <2>4
<1> HIDE DEF p
<1>4. /\ curr_tick \in Int /\ dticks \in [Timeouts -> Nat]
      /\ deadline \in [Timeouts -> Int] /\ asked \in [Timeouts -> Int]
      /\ MaxTime \in Nat /\ MAX_WAIT = MaxTime + 1
      /\ \A k \in 1..N : Due(k) \in Int /\ From(k) \in Int
      /\ \A k \in 1..N : /\ dticks[l[k]] = Due(k) - From(k)
                         /\ From(k) <= Due(k) /\ Due(k) <= MaxTime
                         /\ Apart => From(k) < Due(k)
                         /\ asked[l[k]] <= Due(k)
  BY ListShape
<1>5. \A j \in 1..N : j # p => l[j] # t
  BY <1>1, <1>2
<1>6. /\ p < N => dticks'[l[p + 1]] = Due(p + 1) - From(p)
      /\ \A u \in Timeouts : (p < N => u # l[p + 1]) => dticks'[u] = dticks[u]
      /\ dticks' = [u \in Timeouts |-> dticks'[u]]
  <2>1. dticks' = IF p = N THEN dticks ELSE [dticks EXCEPT ![l[p + 1]] = @ + dticks[t]]
    BY <1>0 DEF RemovedTicks, p
  <2>2. CASE p = N
    <3>1. ~(p < N) /\ dticks' = dticks
      BY <1>1, <2>1, <2>2
    <3> QED BY <1>4, <3>1
  <2>3. CASE p # N
    <3>1. p + 1 \in 1..N /\ l[p + 1] \in Timeouts /\ p < N /\ p + 1 # 1 /\ (p + 1) - 1 = p
      BY <1>1, <1>2, <2>3
    <3>2. dticks' = [dticks EXCEPT ![l[p + 1]] = @ + dticks[t]]
      BY <2>1, <2>3
    <3>3. dticks'[l[p + 1]] = dticks[l[p + 1]] + dticks[t]
      BY <1>4, <3>1, <3>2
    <3>4. dticks[l[p + 1]] = Due(p + 1) - Due(p) /\ dticks[t] = Due(p) - From(p)
      BY <1>2, <1>4, <3>1 DEF From
    <3>5. Due(p + 1) \in Int /\ Due(p) \in Int /\ From(p) \in Int
      BY <1>2, <1>4, <3>1
    <3>6. dticks'[l[p + 1]] = Due(p + 1) - From(p)
      BY <3>3, <3>4, <3>5
    <3>7. \A u \in Timeouts : u # l[p + 1] => dticks'[u] = dticks[u]
      BY <1>4, <3>2
    <3>8. dticks' = [u \in Timeouts |-> dticks'[u]]
      BY <1>4, <3>2
    <3> QED BY <3>1, <3>6, <3>7, <3>8
  <2> QED BY <2>2, <2>3
<1>7. /\ \A k \in 1..N : k # p => deadline'[l[k]] = Due(k) /\ asked'[l[k]] = asked[l[k]]
      /\ deadline' \in [Timeouts -> Int] /\ asked' \in [Timeouts -> Int]
  <2>1. deadline' \in [Timeouts -> Int] /\ asked' \in [Timeouts -> Int]
    BY <1>0, <1>4
  <2>2. \A u \in Timeouts : u # t => deadline'[u] = deadline[u] /\ asked'[u] = asked[u]
    BY <1>0, <1>4
  <2>3. \A k \in 1..N : k # p => l[k] \in Timeouts /\ l[k] # t
    BY <1>1, <1>5
  <2> QED BY <2>1, <2>2, <2>3 DEF Due
<1>8. \A i \in 1..(N - 1) : Due(i)' = IF i < p THEN Due(i) ELSE Due(i + 1)
  <2> TAKE i \in 1..(N - 1)
  <2>1. Due(i)' = deadline'[timeout_list'[i]]
    BY DEF Due
  <2>2. CASE i < p
    <3>1. i \in 1..N /\ i # p /\ timeout_list'[i] = l[i]
      BY <1>1, <1>2, <1>3, <2>2
    <3> QED BY <1>7, <2>1, <2>2, <3>1
  <2>3. CASE ~(i < p)
    <3>1. i + 1 \in 1..N /\ i + 1 # p /\ timeout_list'[i] = l[i + 1]
      BY <1>1, <1>2, <1>3, <2>3
    <3> QED BY <1>7, <2>1, <2>3, <3>1
  <2> QED BY <2>2, <2>3
<1>9. \A i \in 1..(N - 1) : From(i)' = IF i <= p THEN From(i) ELSE From(i + 1)
  <2> TAKE i \in 1..(N - 1)
  <2>1. From(i)' = IF i = 1 THEN curr_tick ELSE Due(i - 1)'
    BY <1>0 DEF From
  <2>2. CASE i = 1
    <3>1. i <= p
      BY <1>2, <2>2
    <3> QED BY <2>1, <2>2, <3>1 DEF From
  <2>3. CASE i # 1
    <3>1. i - 1 \in 1..(N - 1) /\ i + 1 # 1 /\ (i - 1) + 1 = i /\ (i + 1) - 1 = i
      BY <1>1, <2>3
    <3>2. Due(i - 1)' = IF i - 1 < p THEN Due(i - 1) ELSE Due(i)
      BY <1>8, <3>1
    <3>3. i - 1 < p <=> i <= p
      BY <1>2
    <3> QED BY <2>1, <2>3, <3>1, <3>2, <3>3 DEF From
  <2> QED BY <2>2, <2>3
<1>s. (Apart' <=> Apart) /\ (InCallback' <=> InCallback)
  BY <1>0 DEF Apart, SMP, InCallback
<1>10. ASSUME NEW j \in 1..(N - 1)
       PROVE  /\ dticks'[timeout_list'[j]] = Due(j)' - From(j)'
              /\ From(j)' <= Due(j)' /\ (Apart => From(j)' < Due(j)')
              /\ Due(j)' <= MaxTime
              /\ asked'[timeout_list'[j]] <= Due(j)'
              /\ dticks'[timeout_list'[j]] \in Nat
  <2>1. CASE j < p
    <3>1. /\ j \in 1..N /\ timeout_list'[j] = l[j] /\ j # p /\ j <= p
          /\ Due(j)' = Due(j) /\ From(j)' = From(j)
      BY <1>1, <1>2, <1>3, <1>8, <1>9, <2>1
    <3>2. l[j] \in Timeouts /\ (p < N => l[j] # l[p + 1])
      <4>1. p < N => p + 1 \in 1..N /\ j # p + 1
        BY <1>1, <1>2, <2>1
      <4> QED BY <1>1, <3>1, <4>1
    <3>3. dticks'[l[j]] = dticks[l[j]] /\ asked'[l[j]] = asked[l[j]]
      BY <1>6, <1>7, <3>1, <3>2
    <3> HIDE DEF N, l
    <3> QED BY <1>4, <3>1, <3>2, <3>3
  <2>2. CASE j = p
    <3>1. /\ p + 1 \in 1..N /\ timeout_list'[j] = l[p + 1] /\ p < N /\ p + 1 # p
          /\ Due(j)' = Due(p + 1) /\ From(j)' = From(p) /\ p + 1 # 1 /\ (p + 1) - 1 = p
      <4>1. p + 1 \in 1..N /\ p < N /\ p + 1 # p /\ p + 1 # 1 /\ (p + 1) - 1 = p
        BY <1>1, <1>2, <2>2
      <4>2. ~(j < p) /\ j <= p
        BY <1>2, <2>2
      <4> QED BY <1>3, <1>8, <1>9, <2>2, <4>1, <4>2
    <3>2. dticks'[l[p + 1]] = Due(p + 1) - From(p) /\ asked'[l[p + 1]] = asked[l[p + 1]]
      BY <1>6, <1>7, <3>1
    <3>3. From(p + 1) = Due(p)
      BY <3>1 DEF From
    <3>4. /\ From(p) <= Due(p) /\ Due(p) <= Due(p + 1) /\ Due(p + 1) <= MaxTime
          /\ Apart => Due(p) < Due(p + 1)
          /\ From(p) \in Int /\ Due(p) \in Int /\ Due(p + 1) \in Int
          /\ asked[l[p + 1]] <= Due(p + 1)
      BY <1>2, <1>4, <3>1, <3>3
    <3> HIDE DEF N, l
    <3> QED BY <1>4, <3>1, <3>2, <3>4
  <2>3. CASE j > p
    <3>1. /\ j + 1 \in 1..N /\ timeout_list'[j] = l[j + 1] /\ j + 1 # p
          /\ Due(j)' = Due(j + 1) /\ From(j)' = From(j + 1)
      <4>1. j + 1 \in 1..N /\ j + 1 # p /\ ~(j < p) /\ ~(j <= p)
        BY <1>1, <1>2, <2>3
      <4> QED BY <1>3, <1>8, <1>9, <4>1
    <3>2. l[j + 1] \in Timeouts /\ (p < N => l[j + 1] # l[p + 1])
      <4>1. p < N => p + 1 \in 1..N /\ j + 1 # p + 1
        BY <1>1, <1>2, <2>3
      <4> QED BY <1>1, <3>1, <4>1
    <3>3. dticks'[l[j + 1]] = dticks[l[j + 1]] /\ asked'[l[j + 1]] = asked[l[j + 1]]
      BY <1>6, <1>7, <3>1, <3>2
    <3> HIDE DEF N, l
    <3> QED BY <1>4, <3>1, <3>2, <3>3
  <2> QED BY <1>1, <1>2, <2>1, <2>2, <2>3
<1>11. Deltas'
  BY <1>3, <1>10, <1>s DEF Deltas
<1>12. TypeOK'
  <2>1. \A u \in Timeouts : dticks'[u] \in Nat
    <3> TAKE u \in Timeouts
    <3>1. CASE p < N /\ u = l[p + 1]
      <4>1. p \in 1..(N - 1) /\ ~(p < p)
        BY <1>1, <1>2, <3>1
      <4>2. timeout_list'[p] = l[p + 1]
        BY <1>3, <4>1
      <4> QED BY <1>10, <3>1, <4>1, <4>2
    <3>2. CASE p < N => u # l[p + 1]
      BY <1>4, <1>6, <3>2
    <3> QED BY <3>1, <3>2
  <2>2. dticks' \in [Timeouts -> Nat]
    BY <1>6, <2>1
  <2>3. \A u \in Timeouts : Once(timeout_list', u)
    <3> TAKE u \in Timeouts
    <3> DEFINE o(i) == IF i < p THEN i ELSE i + 1
    <3>1. \A i \in 1..(N - 1) : o(i) \in 1..N /\ timeout_list'[i] = l[o(i)]
      BY <1>1, <1>2, <1>3
    <3>2. \A i, j \in 1..(N - 1) : o(i) = o(j) => i = j
      BY <1>1, <1>2
    <3> HIDE DEF o
    <3> QED BY <1>1, <1>3, <3>1, <3>2 DEF Once
  <2> QED BY <1>0, <1>3, <2>2, <2>3 DEF IInv, TypeOK, MAX_WAIT
<1>13. Typed'
  <2>1. isr \in [CPUs -> {Idle} \cup [t : Timeouts, dt : Nat, due : Int]]
    BY DEF IInv, Typed
  <2>2. announced <= now /\ shared \in BOOLEAN
    BY DEF IInv, Typed
  <2> QED BY <1>0, <1>7, <2>1, <2>2 DEF Typed
<1>14. ~shared => announce_remaining' \in Nat /\ Processed' /\ AnnounceSequential'
  <2>1. (SMP' <=> SMP)
    BY <1>0 DEF SMP
  <2> QED BY <1>0, <1>s, <2>1 DEF IInv, InTurn, Processed, AnnounceSequential
<1>15. ~shared => AlarmCoversFirst'
  <2> SUFFICES ASSUME ~shared, ~InCallback, timeout_list' # <<>>
               PROVE  alarm <= now \/ alarm <= deadline'[Head(timeout_list')]
    BY <1>0, <1>s DEF AlarmCoversFirst
  <2>1. Head(timeout_list') = timeout_list'[1] /\ 1 \in 1..(N - 1) /\ N - 1 >= 1
    BY <1>1, <1>3
  <2>2. l # <<>> /\ Head(l) = l[1] /\ 1 \in 1..N
    BY <1>1, <2>1
  <2>3. alarm <= now \/ alarm <= Due(1)
    BY <2>2 DEF IInv, InTurn, AlarmCoversFirst, Due
  <2>4. deadline'[Head(timeout_list')] = Due(1)'
    BY <2>1 DEF Due
  <2>5. Due(1)' = IF 1 < p THEN Due(1) ELSE Due(1 + 1)
    BY <1>8, <2>1
  <2>6. 2 \in 1..N /\ 1 + 1 = 2
    BY <1>1, <2>1
  <2>7. Due(1) <= Due(2) /\ Due(1) \in Int /\ Due(2) \in Int
    BY <2>6, DueOrder DEF IInv
  <2>8. alarm \in Nat
    BY DEF IInv, TypeOK
  <2> QED BY <2>3, <2>4, <2>5, <2>6, <2>7, <2>8
<1> QED BY <1>0, <1>11, <1>12, <1>13, <1>14, <1>15 DEF IInv, InTurn

(***************************************************************************)
(* The loop of sys_clock_announce(): its two ways on, and when it is run   *)
(***************************************************************************)
Expires(c, rem) ==
  LET t == Head(timeout_list) IN
  /\ timeout_list # <<>>
  /\ dticks[t] <= rem
  /\ curr_tick' = curr_tick + dticks[t]
  /\ timeout_list' = Tail(timeout_list)
  /\ dticks' = [dticks EXCEPT ![t] = 0]
  /\ announce_remaining' = rem
  /\ isr' = [isr EXCEPT ![c] = [t |-> t, dt |-> dticks[t], due |-> deadline[t]]]
  /\ Forget(t)
  /\ UNCHANGED alarm

Finishes(c, rem) ==
  LET t == Head(timeout_list) IN
  /\ timeout_list # <<>> => dticks[t] > rem
  /\ dticks' = IF timeout_list = <<>> THEN dticks ELSE [dticks EXCEPT ![t] = @ - rem]
  /\ curr_tick' = curr_tick + rem
  /\ announce_remaining' = 0
  /\ isr' = [isr EXCEPT ![c] = Idle]
  /\ alarm' = NextAlarm(timeout_list, dticks', now - announced')
  /\ UNCHANGED <<timeout_list, deadline, asked>>

\* CPU c is at the head of the loop with rem ticks left; it is alone there,
\* and those ticks lead to the driver's count, until two timeouts are due on
\* the same tick.
AtHead(c, rem) ==
  /\ c \in CPUs /\ rem \in Int
  /\ CPUs' = CPUs /\ now' = now /\ shared' = shared
  /\ announced' \in 0..MaxTime /\ announced' <= now
  /\ ~shared => /\ rem \in Nat
                /\ \A e \in CPUs : isr[e] # Idle => e = c
                /\ curr_tick + rem = announced'

\* Expiring the first timeout keeps the invariant.
LEMMA ExpiresStep ==
  ASSUME IInv, NEW c, NEW rem, AtHead(c, rem), Expires(c, rem)
  PROVE  IInv'
<1> DEFINE N == Len(timeout_list)
           l == timeout_list
           t == Head(timeout_list)
           r == [t |-> t, dt |-> dticks[t], due |-> deadline[t]]
<1>1. /\ l \in Seq(Timeouts) /\ N \in Nat
      /\ \A k \in 1..N : l[k] \in Timeouts
      /\ \A j, k \in 1..N : l[j] = l[k] => j = k
  BY ListShape
<1>2. l # <<>> /\ t = l[1] /\ 1 \in 1..N /\ t \in Timeouts
  BY <1>1 DEF Expires
<1>3. /\ dticks[t] <= rem
      /\ curr_tick' = curr_tick + dticks[t] /\ dticks' = [dticks EXCEPT ![t] = 0]
      /\ announce_remaining' = rem /\ alarm' = alarm
      /\ isr' = [isr EXCEPT ![c] = r]
      /\ deadline' = [deadline EXCEPT ![t] = 0] /\ asked' = [asked EXCEPT ![t] = 0]
  BY DEF Expires, Forget
<1>4. /\ timeout_list' \in Seq(Timeouts) /\ Len(timeout_list') = N - 1
      /\ DOMAIN timeout_list' = 1..(N - 1)
      /\ \A j \in 1..(N - 1) : timeout_list'[j] = l[j + 1]
  <2>1. timeout_list' = Tail(l)
    BY DEF Expires
  <2> QED BY <1>1, <1>2, <2>1
<1>5. /\ curr_tick \in Int /\ dticks \in [Timeouts -> Nat]
      /\ deadline \in [Timeouts -> Int] /\ asked \in [Timeouts -> Int]
      /\ MaxTime \in Nat /\ MAX_WAIT = MaxTime + 1
      /\ \A k \in 1..N : Due(k) \in Int /\ From(k) \in Int
      /\ \A k \in 1..N : /\ dticks[l[k]] = Due(k) - From(k)
                         /\ From(k) <= Due(k) /\ Due(k) <= MaxTime
                         /\ Apart => From(k) < Due(k)
                         /\ asked[l[k]] <= Due(k)
  BY ListShape
<1>6. /\ c \in CPUs /\ rem \in Int /\ CPUs' = CPUs /\ now' = now /\ shared' = shared
      /\ announced' \in 0..MaxTime /\ announced' <= now
      /\ ~shared => /\ rem \in Nat /\ curr_tick + rem = announced'
                    /\ \A e \in CPUs : isr[e] # Idle => e = c
  BY DEF AtHead
<1>7. /\ dticks[t] = Due(1) - curr_tick /\ Due(1) \in Int /\ dticks[t] \in Nat
      /\ Apart => dticks[t] # 0
      /\ curr_tick' = Due(1)
  <2>1. From(1) = curr_tick
    BY DEF From
  <2>2. dticks[t] = Due(1) - curr_tick /\ Due(1) \in Int /\ curr_tick <= Due(1)
    BY <1>2, <1>5, <2>1
  <2>3. Apart => curr_tick < Due(1)
    BY <1>2, <1>5, <2>1
  <2> QED BY <1>3, <1>5, <2>2, <2>3
<1>s. (Apart' <=> Apart)
  BY <1>6 DEF Apart, SMP
<1>8. \A k \in 2..N : /\ l[k] \in Timeouts /\ l[k] # t
                      /\ deadline'[l[k]] = Due(k) /\ asked'[l[k]] = asked[l[k]]
                      /\ dticks'[l[k]] = dticks[l[k]]
  <2> TAKE k \in 2..N
  <2>1. k \in 1..N /\ k # 1
    BY <1>1
  <2>2. l[k] \in Timeouts /\ l[k] # t
    BY <1>1, <1>2, <2>1
  <2> QED BY <1>3, <1>5, <2>2 DEF Due
<1>9. \A j \in 1..(N - 1) : j + 1 \in 2..N /\ Due(j)' = Due(j + 1) /\ From(j)' = From(j + 1)
  <2>1. \A j \in 1..(N - 1) : j + 1 \in 2..N /\ Due(j)' = Due(j + 1)
    <3> TAKE j \in 1..(N - 1)
    <3>1. j + 1 \in 2..N
      BY <1>1
    <3>2. Due(j)' = deadline'[timeout_list'[j]]
      BY DEF Due
    <3> QED BY <1>4, <1>8, <3>1, <3>2
  <2> TAKE j \in 1..(N - 1)
  <2>2. From(j)' = (IF j = 1 THEN curr_tick' ELSE Due(j - 1)') /\ From(j + 1) = Due(j)
    BY DEF From
  <2>3. j # 1 => j - 1 \in 1..(N - 1) /\ (j - 1) + 1 = j
    BY <1>1
  <2> QED BY <1>7, <2>1, <2>2, <2>3
<1>10. Deltas'
  <2> SUFFICES ASSUME NEW j \in 1..(N - 1)
               PROVE  /\ dticks'[timeout_list'[j]] = Due(j)' - From(j)'
                      /\ From(j)' <= Due(j)' /\ (Apart => From(j)' < Due(j)')
                      /\ Due(j)' <= MaxTime
                      /\ asked'[timeout_list'[j]] <= Due(j)'
    BY <1>4, <1>s DEF Deltas
  <2>1. j + 1 \in 1..N /\ j + 1 \in 2..N /\ timeout_list'[j] = l[j + 1]
    BY <1>1, <1>4, <1>9
  <2> HIDE DEF N, l, t
  <2> QED BY <1>5, <1>8, <1>9, <2>1
<1>11. TypeOK'
  <2>1. curr_tick' \in Int /\ announce_remaining' \in Int
    BY <1>3, <1>6, <1>7
  <2>2. dticks' \in [Timeouts -> Nat]
    BY <1>2, <1>3, <1>5
  <2>3. \A u \in Timeouts : Once(timeout_list', u)
    <3>1. \A j \in 1..(N - 1) : j + 1 \in 1..N
      BY <1>1
    <3> QED BY <1>1, <1>4, <3>1 DEF Once
  <2> QED BY <1>3, <1>4, <1>6, <2>1, <2>2, <2>3 DEF IInv, TypeOK, MAX_WAIT
<1>12. isr' \in [CPUs -> {Idle} \cup [t : Timeouts, dt : Nat, due : Int]]
  <2>1. isr \in [CPUs -> {Idle} \cup [t : Timeouts, dt : Nat, due : Int]]
    BY DEF IInv, Typed
  <2>2. r \in [t : Timeouts, dt : Nat, due : Int]
    BY <1>2, <1>5, <1>7
  <2> HIDE DEF r
  <2> QED BY <1>3, <2>1, <2>2
<1>13. Typed'
  <2>1. deadline' \in [Timeouts -> Int] /\ asked' \in [Timeouts -> Int]
    BY <1>2, <1>3, <1>5
  <2>2. shared' \in BOOLEAN
    BY <1>6 DEF IInv, Typed
  <2> QED BY <1>6, <1>12, <2>1, <2>2 DEF Typed
<1>14. /\ isr'[c] = r /\ isr'[c] # Idle /\ isr'[c].dt = dticks[t]
       /\ ~shared => \A e \in CPUs : e # c => isr'[e] = Idle
  <2>1. isr'[c] = r /\ \A e \in CPUs : e # c => isr'[e] = isr[e]
    <3> HIDE DEF r
    <3>1. isr \in [CPUs -> {Idle} \cup [t : Timeouts, dt : Nat, due : Int]]
      BY DEF IInv, Typed
    <3> QED BY <1>3, <1>6, <3>1
  <2>2. r # Idle /\ r.dt = dticks[t]
    BY <1>2, TimeoutQAssumption DEF Idle
  <2> QED BY <1>6, <2>1, <2>2
<1>15. InCallback' /\ AlarmCoversFirst' /\ (~shared => AnnounceSequential')
  BY <1>6, <1>14 DEF InCallback, AnnounceSequential, AlarmCoversFirst
<1>16. ~shared => announce_remaining' \in Nat /\ Processed'
  <2> SUFFICES ASSUME ~shared PROVE announce_remaining' \in Nat /\ Processed'
    OBVIOUS
  <2>1. /\ isr'[c].dt <= announce_remaining'
        /\ curr_tick' + announce_remaining' - isr'[c].dt = announced'
        /\ SMP => announce_remaining' # 0
    <3>1. isr'[c].dt = dticks[t] /\ announce_remaining' = rem /\ curr_tick' = curr_tick + dticks[t]
      BY <1>3, <1>14
    <3>2. /\ dticks[t] <= rem /\ dticks[t] \in Nat /\ (SMP => dticks[t] # 0)
          /\ curr_tick + rem = announced' /\ rem \in Nat /\ curr_tick \in Int
      BY <1>3, <1>5, <1>6, <1>7 DEF Apart
    <3> HIDE DEF t
    <3> QED BY <3>1, <3>2
  <2>2. \A e \in CPUs' : isr'[e] # Idle => e = c
    BY <1>6, <1>14
  <2>3. (SMP' <=> SMP)
    BY <1>6 DEF SMP
  <2> QED BY <1>3, <1>6, <1>15, <2>1, <2>2, <2>3 DEF Processed
<1> QED BY <1>6, <1>10, <1>11, <1>13, <1>15, <1>16 DEF IInv, InTurn

\* Finishing the announcement keeps the invariant.
LEMMA FinishesStep ==
  ASSUME IInv, NEW c, NEW rem, AtHead(c, rem), Finishes(c, rem)
  PROVE  IInv'
<1> DEFINE N == Len(timeout_list)
           l == timeout_list
           t == Head(timeout_list)
<1>1. /\ l \in Seq(Timeouts) /\ N \in Nat
      /\ \A k \in 1..N : l[k] \in Timeouts
      /\ \A j, k \in 1..N : l[j] = l[k] => j = k
  BY ListShape
<1>2. /\ l # <<>> => dticks[t] > rem
      /\ dticks' = IF l = <<>> THEN dticks ELSE [dticks EXCEPT ![t] = @ - rem]
      /\ curr_tick' = curr_tick + rem /\ announce_remaining' = 0
      /\ isr' = [isr EXCEPT ![c] = Idle]
      /\ alarm' = NextAlarm(timeout_list, dticks', now - announced')
      /\ UNCHANGED <<timeout_list, deadline, asked>>
  BY DEF Finishes
<1>3. /\ c \in CPUs /\ rem \in Int /\ CPUs' = CPUs /\ now' = now /\ shared' = shared
      /\ announced' \in 0..MaxTime /\ announced' <= now
      /\ ~shared => /\ rem \in Nat /\ curr_tick + rem = announced'
                    /\ \A e \in CPUs : isr[e] # Idle => e = c
  BY DEF AtHead
<1>4. /\ curr_tick \in Int /\ dticks \in [Timeouts -> Nat]
      /\ deadline \in [Timeouts -> Int] /\ asked \in [Timeouts -> Int]
      /\ MaxTime \in Nat /\ MAX_WAIT = MaxTime + 1
      /\ \A k \in 1..N : Due(k) \in Int /\ From(k) \in Int
      /\ \A k \in 1..N : /\ dticks[l[k]] = Due(k) - From(k)
                         /\ From(k) <= Due(k) /\ Due(k) <= MaxTime
                         /\ Apart => From(k) < Due(k)
                         /\ asked[l[k]] <= Due(k)
  BY ListShape
<1>5. N # 0 => /\ l # <<>> /\ t = l[1] /\ 1 \in 1..N /\ t \in Timeouts
               /\ dticks[t] = Due(1) - curr_tick /\ Due(1) \in Int
               /\ curr_tick + rem < Due(1)
               /\ dticks'[t] = Due(1) - curr_tick'
               /\ dticks'[t] \in Nat
  <2> SUFFICES ASSUME N # 0
               PROVE  /\ l # <<>> /\ t = l[1] /\ 1 \in 1..N /\ t \in Timeouts
                      /\ dticks[t] = Due(1) - curr_tick /\ Due(1) \in Int
                      /\ curr_tick + rem < Due(1)
                      /\ dticks'[t] = Due(1) - curr_tick'
                      /\ dticks'[t] \in Nat
    OBVIOUS
  <2>1. l # <<>> /\ t = l[1] /\ 1 \in 1..N /\ t \in Timeouts
    BY <1>1
  <2>2. dticks[t] = Due(1) - curr_tick /\ Due(1) \in Int /\ Due(1) <= MaxTime
    BY <1>4, <2>1 DEF From
  <2>3. dticks'[t] = dticks[t] - rem
    BY <1>2, <1>4, <2>1
  <2> HIDE DEF N, l, t
  <2>4. dticks[t] > rem /\ curr_tick' = curr_tick + rem
    BY <1>2, <2>1
  <2>5. /\ dticks[t] \in Int /\ rem \in Int /\ curr_tick \in Int /\ MaxTime \in Nat
        /\ MAX_WAIT = MaxTime + 1
    BY <1>3, <1>4, <2>1, <2>2
  <2>6. /\ curr_tick + rem < Due(1) /\ dticks'[t] = Due(1) - curr_tick'
        /\ dticks'[t] \in Nat
    BY <2>2, <2>3, <2>4, <2>5
  <2> QED BY <2>1, <2>2, <2>6
<1>6. N = 0 => l = <<>>
  BY <1>1
<1>7. \A k \in 2..N : k \in 1..N /\ dticks'[l[k]] = dticks[l[k]]
  <2> TAKE k \in 2..N
  <2>1. k \in 1..N /\ k # 1 /\ N # 0
    BY <1>1
  <2>2. l[k] # t /\ l[k] \in Timeouts
    BY <1>1, <1>5, <2>1
  <2> QED BY <1>2, <1>4, <1>5, <2>1, <2>2
<1>8. \A k \in 1..N : Due(k)' = Due(k) /\ From(k)' = IF k = 1 THEN curr_tick' ELSE From(k)
  BY <1>2 DEF Due, From
<1>s. (Apart' <=> Apart)
  BY <1>3 DEF Apart, SMP
<1>9. Deltas'
  <2> SUFFICES ASSUME NEW k \in 1..N
               PROVE  /\ dticks'[l[k]] = Due(k)' - From(k)'
                      /\ From(k)' <= Due(k)' /\ (Apart => From(k)' < Due(k)')
                      /\ Due(k)' <= MaxTime
                      /\ asked[l[k]] <= Due(k)'
    BY <1>2, <1>s DEF Deltas
  <2>0. N # 0
    BY <1>1
  <2>1. CASE k = 1
    <3>1. Due(k)' = Due(1) /\ From(k)' = curr_tick' /\ l[k] = t
      BY <1>5, <1>8, <2>0, <2>1
    <3>2. Due(1) <= MaxTime /\ asked[l[k]] <= Due(1)
      BY <1>4, <2>1
    <3> HIDE DEF N, l, t
    <3> QED BY <1>2, <1>3, <1>4, <1>5, <2>0, <3>1, <3>2
  <2>2. CASE k # 1
    <3>1. k \in 2..N
      BY <1>1, <2>2
    <3> HIDE DEF N, l, t
    <3> QED BY <1>4, <1>7, <1>8, <2>2, <3>1
  <2> QED BY <2>1, <2>2
<1>10. dticks' \in [Timeouts -> Nat]
  <2>1. CASE N = 0
    BY <1>2, <1>4, <1>6, <2>1
  <2>2. CASE N # 0
    <3>1. dticks' = [dticks EXCEPT ![t] = dticks'[t]]
      BY <1>2, <1>4, <1>5, <2>2
    <3> QED BY <1>4, <1>5, <2>2, <3>1
  <2> QED BY <2>1, <2>2
<1>11. /\ alarm' = IF l = <<>> THEN MAX_WAIT
                   ELSE now + (IF dticks'[t] > now - announced'
                               THEN dticks'[t] - (now - announced') ELSE 0)
       /\ now \in Nat /\ now - announced' \in Nat /\ announced' \in Nat
  <2>1. now \in Nat /\ now - announced' \in Nat /\ announced' \in Nat
    <3>1. now \in 0..MaxTime
      BY DEF IInv, TypeOK
    <3>2. announced' \in 0..MaxTime /\ announced' <= now /\ MaxTime \in Nat
      BY <1>3, <1>4
    <3>3. announced' \in Int /\ now \in Int /\ announced' >= 0 /\ now >= 0
      BY <3>1, <3>2
    <3>4. now \in Nat /\ announced' \in Nat
      BY <3>3
    <3>5. \A m, n \in Nat : n <= m => m - n \in Nat
      OBVIOUS
    <3>6. now - announced' \in Nat
      BY <3>2, <3>4, <3>5
    <3> QED BY <3>4, <3>6
  <2>2. alarm' = IF l = <<>> THEN MAX_WAIT
                 ELSE now + (IF dticks'[t] > now - announced'
                             THEN dticks'[t] - (now - announced') ELSE 0)
    <3>1. alarm' = NextAlarm(timeout_list, dticks', now - announced')
      BY <1>2
    <3> QED BY <3>1 DEF NextAlarm
  <2> QED BY <2>1, <2>2
<1>12. TypeOK'
  <2>1. alarm' \in Nat
    <3>1. CASE N = 0
      BY <1>4, <1>6, <1>11, <3>1
    <3>2. CASE N # 0
      <4>1. dticks'[t] \in Nat
        BY <1>4, <1>5, <3>2
      <4> QED BY <1>5, <1>11, <3>2, <4>1
    <3> QED BY <3>1, <3>2
  <2>2. curr_tick' \in Int /\ announce_remaining' \in Int
    BY <1>2, <1>3, <1>4
  <2> QED BY <1>2, <1>3, <1>10, <2>1, <2>2 DEF IInv, TypeOK, MAX_WAIT
<1>13. isr \in [CPUs -> {Idle} \cup [t : Timeouts, dt : Nat, due : Int]]
  BY DEF IInv, Typed
<1>14. isr' \in [CPUs -> {Idle} \cup [t : Timeouts, dt : Nat, due : Int]]
  BY <1>2, <1>13
<1>15. ~shared => \A e \in CPUs : isr'[e] = Idle
  BY <1>2, <1>3, <1>13
<1>16. Typed'
  <2>1. shared' \in BOOLEAN
    BY <1>3 DEF IInv, Typed
  <2> QED BY <1>2, <1>3, <1>4, <1>14, <2>1 DEF Typed
<1>17. ~shared => announce_remaining' \in Nat /\ AnnounceSequential' /\ Processed'
  BY <1>2, <1>3, <1>15 DEF AnnounceSequential, Processed, InCallback
<1>18. ~shared => AlarmCoversFirst'
  <2> SUFFICES ASSUME ~shared, l # <<>> PROVE alarm' <= now \/ alarm' <= deadline[t]
    BY <1>2, <1>3 DEF AlarmCoversFirst
  <2>1. N # 0
    BY <1>1
  <2>2. deadline[t] = Due(1)
    BY <1>5, <2>1 DEF Due
  <2>3. dticks'[t] = Due(1) - announced' /\ Due(1) \in Int
    BY <1>2, <1>3, <1>5, <2>1
  <2> QED BY <1>11, <2>2, <2>3
<1> QED BY <1>3, <1>9, <1>12, <1>16, <1>17, <1>18 DEF IInv, InTurn

\* When the interrupt of CPU c, or the callback on it, goes to the head of
\* the loop, it is alone there.
LEMMA AnnounceAtHead ==
  ASSUME IInv, NEW c \in CPUs, Announce(c), ~LeavesToOther
  PROVE  /\ AtHead(c, sys_clock_elapsed)
         /\ Expires(c, sys_clock_elapsed) \/ Finishes(c, sys_clock_elapsed)
<1>1. /\ CPUs' = CPUs /\ now' = now /\ shared' = shared /\ announced' = now /\ isr[c] = Idle
      /\ Loop(c, sys_clock_elapsed)
  BY DEF Announce
<1>2. Expires(c, sys_clock_elapsed) \/ Finishes(c, sys_clock_elapsed)
  BY <1>1 DEF Loop, Expires, Finishes, FinalTick
<1>3. ~shared => \A e \in CPUs : isr[e] = Idle
  <2> SUFFICES ASSUME ~shared, NEW e \in CPUs, isr[e] # Idle PROVE FALSE
    OBVIOUS
  <2>1. e # c
    BY <1>1
  <2>2. SMP
    BY <2>1 DEF SMP
  <2>3. announce_remaining # 0
    BY <2>2 DEF IInv, InTurn, Processed
  <2> QED BY <2>2, <2>3 DEF LeavesToOther
<1>4. curr_tick \in Int /\ (~shared => curr_tick = announced)
  BY <1>3 DEF IInv, InTurn, TypeOK, Processed, InCallback
<1>5. now \in 0..MaxTime /\ announced \in 0..MaxTime /\ announced <= now
  BY DEF IInv, TypeOK, Typed
<1>6. /\ sys_clock_elapsed \in Nat /\ announced' \in 0..MaxTime /\ announced' <= now
      /\ ~shared => curr_tick + sys_clock_elapsed = announced'
  BY <1>1, <1>4, <1>5, TimeoutQAssumption DEF sys_clock_elapsed
<1>7. AtHead(c, sys_clock_elapsed)
  BY <1>1, <1>3, <1>6 DEF AtHead
<1> QED BY <1>2, <1>7

\* After a callback the announcement goes on at the head of the list.
LEMMA ReturnAtHead ==
  ASSUME IInv, NEW c \in CPUs, Return(c)
  PROVE  LET rem == announce_remaining - isr[c].dt
         IN  AtHead(c, rem) /\ (Expires(c, rem) \/ Finishes(c, rem))
<1> DEFINE rem == announce_remaining - isr[c].dt
<1>1. CPUs' = CPUs /\ now' = now /\ shared' = shared /\ announced' = announced /\ isr[c] # Idle /\ Loop(c, rem)
  BY DEF Return
<1>2. Expires(c, rem) \/ Finishes(c, rem)
  BY <1>1 DEF Loop, Expires, Finishes, FinalTick
<1>3. ~shared => \A e \in CPUs : isr[e] # Idle => e = c
  BY <1>1 DEF IInv, InTurn, AnnounceSequential
<1>4. ~shared => /\ isr[c].dt <= announce_remaining /\ announce_remaining \in Nat
                 /\ curr_tick + announce_remaining - isr[c].dt = announced
  BY <1>1 DEF IInv, InTurn, Processed
<1>5. isr[c].dt \in Nat
  <2>1. isr[c] \in [t : Timeouts, dt : Nat, due : Int]
    BY <1>1 DEF IInv, Typed
  <2> QED BY <2>1
<1>6. /\ announced \in 0..MaxTime /\ announced <= now
      /\ announce_remaining \in Int /\ curr_tick \in Int /\ MaxTime \in Nat
  BY TimeoutQAssumption DEF IInv, TypeOK, Typed
<1>7. rem \in Int /\ (~shared => rem \in Nat /\ curr_tick + rem = announced)
  BY <1>4, <1>5, <1>6
<1> HIDE DEF rem
<1>8. AtHead(c, rem)
  BY <1>1, <1>3, <1>6, <1>7 DEF AtHead
<1> QED BY <1>2, <1>8 DEF rem

\* The ticks that are left to the CPU in the loop.
LEMMA LeaveStep ==
  ASSUME IInv, NEW c \in CPUs, Announce(c), LeavesToOther
  PROVE  IInv' /\ UNCHANGED <<curr_tick, timeout_list, deadline, isr>>
<1>1. /\ UNCHANGED <<CPUs, now, alarm, curr_tick, timeout_list, dticks, isr, deadline, asked, shared>>
      /\ announced' = now /\ SMP /\ announce_remaining # 0
      /\ announce_remaining' = announce_remaining + (now - announced)
  BY DEF Announce, LeavesToOther, sys_clock_elapsed
<1>2. /\ now \in 0..MaxTime /\ announced \in 0..MaxTime /\ announced <= now
      /\ announce_remaining \in Int /\ curr_tick \in Int /\ MaxTime \in Nat
  BY TimeoutQAssumption DEF IInv, TypeOK, Typed
<1>3. /\ announce_remaining' \in Int /\ announce_remaining' >= announce_remaining
      /\ ~shared => announce_remaining \in Nat /\ announce_remaining' \in Nat
  BY <1>1, <1>2 DEF IInv, InTurn
<1>4. TypeOK'
  BY <1>1, <1>2, <1>3 DEF IInv, TypeOK, MAX_WAIT
<1>5. Typed'
  BY <1>1, <1>2, <1>3 DEF IInv, Typed
<1>6. Deltas'
  BY <1>1 DEF IInv, Deltas, Due, From, Apart, SMP
<1>7. ~shared => InCallback
  BY <1>1 DEF IInv, InTurn, Processed
<1>8. ~shared => InCallback' /\ AnnounceSequential' /\ AlarmCoversFirst'
  BY <1>1, <1>7 DEF InCallback, IInv, InTurn, AnnounceSequential, AlarmCoversFirst
<1>9. ~shared => Processed'
  <2> SUFFICES ASSUME ~shared, NEW e \in CPUs, isr[e] # Idle
               PROVE  /\ isr[e].dt <= announce_remaining'
                      /\ curr_tick + announce_remaining' - isr[e].dt = now
                      /\ announce_remaining' # 0
    BY <1>1, <1>8 DEF Processed
  <2>1. /\ isr[e].dt <= announce_remaining
        /\ curr_tick + announce_remaining - isr[e].dt = announced
    BY DEF IInv, InTurn, Processed
  <2>2. isr[e].dt \in Nat
    <3>1. isr[e] \in [t : Timeouts, dt : Nat, due : Int]
      BY DEF IInv, Typed
    <3> QED BY <3>1
  <2> QED BY <1>1, <1>2, <1>3, <2>1, <2>2
<1> QED BY <1>1, <1>3, <1>4, <1>5, <1>6, <1>8, <1>9 DEF IInv, InTurn

\* What Add() and AddAbsolute() hand to z_add_timeout().
LEMMA AddFacts ==
  ASSUME IInv, NEW t \in Timeouts, NEW n \in Nat
  PROVE  /\ RelativeTicks(n) \in Nat \ {0} /\ AbsoluteTicks(n) \in Nat \ {0}
         /\ Add(t, n) => \E a \in Int : /\ a <= curr_tick + RelativeTicks(n)
                                        /\ asked' = [asked EXCEPT ![t] = a]
         /\ AddAbsolute(t, n) => \E a \in Int : /\ a <= curr_tick + AbsoluteTicks(n)
                                                /\ asked' = [asked EXCEPT ![t] = a]
<1>1. elapsed \in Nat /\ curr_tick \in Int
  BY ElapsedFacts DEF IInv, TypeOK, Typed
<1>2. RelativeTicks(n) \in Nat \ {0} /\ AbsoluteTicks(n) \in Nat \ {0}
  BY <1>1 DEF RelativeTicks, AbsoluteTicks
<1>3. ASSUME Add(t, n)
      PROVE  \E a \in Int : a <= curr_tick + RelativeTicks(n) /\ asked' = [asked EXCEPT ![t] = a]
  <2> DEFINE a == curr_tick + elapsed + n + 1
  <2>1. asked' = [asked EXCEPT ![t] = a]
    BY <1>3 DEF Add, uptime
  <2>2. a \in Int /\ a <= curr_tick + RelativeTicks(n)
    BY <1>1, <1>2 DEF RelativeTicks
  <2> QED BY <2>1, <2>2
<1>4. ASSUME AddAbsolute(t, n)
      PROVE  \E a \in Int : a <= curr_tick + AbsoluteTicks(n) /\ asked' = [asked EXCEPT ![t] = a]
  <2>1. asked' = [asked EXCEPT ![t] = n]
    BY <1>4 DEF AddAbsolute
  <2>2. n \in Int /\ n <= curr_tick + AbsoluteTicks(n)
    BY <1>1, <1>2 DEF AbsoluteTicks
  <2> QED BY <2>1, <2>2
<1> QED BY <1>2, <1>3, <1>4

\* Every step keeps the invariant.
LEMMA NextIInv ==
  ASSUME IInv, [Next]_vars
  PROVE  IInv'
<1>0. Ticks \subseteq Nat /\ AbsTicks \subseteq Nat
  BY TimeoutQAssumption
<1>1. CASE UNCHANGED vars \/ Tick
  BY <1>1, TickStep
<1>2. ASSUME NEW t \in Timeouts, NEW n \in Ticks, Add(t, n) PROVE IInv'
  <2>1. PICK a \in Int : a <= curr_tick + RelativeTicks(n) /\ asked' = [asked EXCEPT ![t] = a]
    BY <1>0, <1>2, AddFacts
  <2>2. RelativeTicks(n) \in Nat \ {0} /\ AddTimeout(t, RelativeTicks(n))
    BY <1>0, <1>2, AddFacts DEF Add
  <2> QED BY <2>1, <2>2, AddStep
<1>3. ASSUME NEW t \in Timeouts, NEW n \in AbsTicks, AddAbsolute(t, n) PROVE IInv'
  <2>1. PICK a \in Int : a <= curr_tick + AbsoluteTicks(n) /\ asked' = [asked EXCEPT ![t] = a]
    BY <1>0, <1>3, AddFacts
  <2>2. AbsoluteTicks(n) \in Nat \ {0} /\ AddTimeout(t, AbsoluteTicks(n))
    BY <1>0, <1>3, AddFacts DEF AddAbsolute
  <2> QED BY <2>1, <2>2, AddStep
<1>4. ASSUME NEW t \in Timeouts, Abort(t) PROVE IInv'
  BY <1>4, AbortStep
<1>5. ASSUME NEW c \in CPUs, Announce(c) PROVE IInv'
  <2>1. CASE LeavesToOther
    BY <1>5, <2>1, LeaveStep
  <2>2. CASE ~LeavesToOther
    BY <1>5, <2>2, AnnounceAtHead, ExpiresStep, FinishesStep
  <2> QED BY <2>1, <2>2
<1>6. ASSUME NEW c \in CPUs, Return(c) PROVE IInv'
  BY <1>6, ReturnAtHead, ExpiresStep, FinishesStep
<1> QED BY <1>1, <1>2, <1>3, <1>4, <1>5, <1>6 DEF Next

\* What the invariant says of the queue's own properties.
LEMMA IInvImplies ==
  ASSUME IInv
  PROVE  TimeoutInv /\ (~shared => ClockInv)
<1>1. /\ Prefix(0) = 0
      /\ \A k \in 1..Len(timeout_list) : Prefix(k) = Due(k) - curr_tick
  BY PrefixIsDue DEF IInv
<1>2. curr_tick \in Int /\ elapsed \in Nat /\ timeout_list \in Seq(Timeouts)
  BY ElapsedFacts DEF IInv, TypeOK
<1>3. \A k \in 1..Len(timeout_list) : Due(k) \in Int
  BY <1>2 DEF IInv, Typed, Due
<1>4. DeadlineKept
  BY <1>1, <1>2, <1>3 DEF DeadlineKept, Due
<1>5. RemainingLeadsToDeadline
  <2> SUFFICES ASSUME NEW t \in Timeouts, Linked(t)
               PROVE  curr_tick + elapsed + timeout_rem(t) = deadline[t]
    BY DEF RemainingLeadsToDeadline, uptime
  <2> DEFINE p == Position(timeout_list, t)
  <2>1. p \in 1..Len(timeout_list) /\ Due(p) = deadline[t]
    BY <1>2, PositionFacts DEF Due
  <2>2. timeout_rem(t) = Prefix(p) - elapsed
    BY DEF timeout_rem
  <2> HIDE DEF p
  <2> QED BY <1>1, <1>2, <1>3, <2>1, <2>2
<1>6. ASSUME ~shared PROVE ClockInv
  <2>1. UptimeIsTime
    BY <1>6, ElapsedFacts DEF UptimeIsTime, uptime
  <2>2. uptime <= now
    <3>1. /\ now \in Int /\ announced \in Int /\ announced <= now /\ announce_remaining \in Nat
      BY <1>6, TimeoutQAssumption DEF IInv, InTurn, TypeOK, Typed
    <3>2. CASE ~InCallback
      BY <2>1, <3>1, <3>2 DEF UptimeIsTime
    <3>3. ASSUME NEW c \in CPUs, isr[c] # Idle PROVE uptime <= now
      <4>1. isr[c] \in [t : Timeouts, dt : Nat, due : Int]
        BY <3>3 DEF IInv, Typed
      <4>2. isr[c].dt \in Nat
        BY <4>1
      <4>3. /\ isr[c].dt <= announce_remaining
            /\ curr_tick + announce_remaining - isr[c].dt = announced
        BY <1>6, <3>3 DEF IInv, InTurn, Processed
      <4>4. curr_tick <= announced /\ (announce_remaining = 0 => curr_tick = announced)
        BY <1>2, <3>1, <4>2, <4>3
      <4> QED BY <1>2, <3>1, <4>4 DEF uptime, elapsed, sys_clock_elapsed
    <3> QED BY <3>2, <3>3 DEF InCallback
  <2> QED BY <1>6, <2>1, <2>2 DEF IInv, InTurn, ClockInv
<1> QED BY <1>4, <1>5, <1>6 DEF IInv, TimeoutInv

(***************************************************************************)
(* The theorems                                                            *)
(***************************************************************************)
LEMMA InvariantHolds == Spec => []IInv
<1>1. IInv /\ [Next]_vars => IInv'
  BY NextIInv
<1> QED BY <1>1, InitIInv, PTL DEF Spec

\* Whatever was added, aborted and announced before, on any number of CPUs:
\* the deltas add up to the deadlines, and the time z_timeout_remaining()
\* reports leads to them.
THEOREM QueueInvariant == Spec => []TimeoutInv
<1>1. IInv => TimeoutInv
  BY IInvImplies
<1> QED BY <1>1, InvariantHolds, PTL

\* On one CPU, and on several as long as no two timeouts have been due on the
\* same tick: sys_clock_announce() processes every tick once, on one CPU at a
\* time, the uptime is never ahead of the time and is the time between
\* announcements, and the driver's alarm covers the first timeout.
THEOREM ClockInvariant == Spec => [](~shared => ClockInv)
<1>1. IInv => (~shared => ClockInv)
  BY IInvImplies
<1> QED BY <1>1, InvariantHolds, PTL

\* The timeout whose callback starts is due, and its time has come.
LEMMA ExpiresInTime ==
  ASSUME IInv, ~shared, NEW c, NEW rem, AtHead(c, rem), Expires(c, rem), NEW e \in CPUs,
         isr'[e] # isr[e]
  PROVE  now >= asked[isr'[e].t]
<1> DEFINE t == Head(timeout_list)
           r == [t |-> t, dt |-> dticks[t], due |-> deadline[t]]
<1>1. /\ timeout_list # <<>> /\ dticks[t] <= rem /\ isr' = [isr EXCEPT ![c] = r]
  BY DEF Expires
<1>2. isr \in [CPUs -> {Idle} \cup [t : Timeouts, dt : Nat, due : Int]]
  BY DEF IInv, Typed
<1>3. isr'[e].t = t
  <2>1. isr'[e] = r
    <3> HIDE DEF r
    <3> QED BY <1>1, <1>2
  <2> QED BY <2>1
<1>4. 1 \in 1..Len(timeout_list) /\ t = timeout_list[1] /\ t \in Timeouts
  BY <1>1, ListShape
<1>5. /\ dticks[t] = Due(1) - From(1) /\ asked[t] <= Due(1)
      /\ Due(1) \in Int /\ From(1) = curr_tick /\ asked \in [Timeouts -> Int]
      /\ curr_tick \in Int
  BY <1>4, ListShape DEF From
<1>6. rem \in Nat /\ curr_tick + rem = announced' /\ announced' \in 0..MaxTime /\ announced' <= now
  BY DEF AtHead
<1>7. now \in 0..MaxTime /\ MaxTime \in Nat
  BY TimeoutQAssumption DEF IInv, TypeOK
<1>8. asked[t] \in Int
  BY <1>4, <1>5
<1> HIDE DEF t
<1> QED BY <1>1, <1>3, <1>5, <1>6, <1>7, <1>8

\* No callback runs before the time its timeout was asked for, one added
\* while an announcement is being processed included; on several CPUs as long
\* as no two timeouts have been due on the same tick.
THEOREM NeverEarly == Spec => NotEarly
<1> DEFINE Step == \A c \in CPUs :
                     ~shared /\ isr'[c] # Idle /\ isr'[c] # isr[c] => now >= asked[isr'[c].t]
<1>1. ASSUME IInv, [Next]_vars PROVE [Step]_vars
  <2> SUFFICES ASSUME NEW e \in CPUs, ~shared, isr'[e] # Idle, isr'[e] # isr[e]
               PROVE  now >= asked[isr'[e].t]
    OBVIOUS
  <2>1. ASSUME NEW c \in CPUs, NEW rem, AtHead(c, rem), Expires(c, rem) \/ Finishes(c, rem)
        PROVE  now >= asked[isr'[e].t]
    <3>1. CASE Expires(c, rem)
      BY <1>1, <2>1, <3>1, ExpiresInTime
    <3>2. CASE Finishes(c, rem)
      <4>1. isr' = [isr EXCEPT ![c] = Idle]
        BY <3>2 DEF Finishes
      <4>2. isr \in [CPUs -> {Idle} \cup [t : Timeouts, dt : Nat, due : Int]]
        BY <1>1 DEF IInv, Typed
      <4> QED BY <4>1, <4>2
    <3> QED BY <2>1, <3>1, <3>2
  <2>2. ASSUME NEW c \in CPUs, Announce(c) PROVE now >= asked[isr'[e].t]
    <3>1. CASE LeavesToOther
      BY <1>1, <2>2, <3>1, LeaveStep
    <3>2. CASE ~LeavesToOther
      BY <1>1, <2>1, <2>2, <3>2, AnnounceAtHead
    <3> QED BY <3>1, <3>2
  <2>3. ASSUME NEW c \in CPUs, Return(c) PROVE now >= asked[isr'[e].t]
    BY <1>1, <2>1, <2>3, ReturnAtHead
  <2>4. PICK c \in CPUs : Announce(c) \/ Return(c)
    BY <1>1 DEF Next, vars, Tick, Add, AddAbsolute, AddTimeout, Abort
  <2> QED BY <2>2, <2>3, <2>4
<1> QED BY <1>1, InvariantHolds, PTL DEF Spec, NotEarly

(***************************************************************************)
(* The queue implements TimeoutPromise                                     *)
(***************************************************************************)
\* What the invariant says of the abstract deadlines: an active timeout is one on the list,
\* and the first on the list is due first.
LEMMA DueOfFacts ==
  ASSUME IInv
  PROVE  /\ \A t \in Timeouts : (DueOf[t] # NONE <=> Linked(t)) /\ (Linked(t) => DueOf[t] = deadline[t])
         /\ \A t \in Timeouts : Linked(t) => deadline[t] \in Int
         /\ timeout_list # <<>> =>
              LET t == Head(timeout_list) IN
              /\ t \in Timeouts /\ Linked(t)
              /\ deadline[t] = curr_tick + dticks[t] /\ dticks[t] \in Nat
              /\ \A u \in Timeouts : Linked(u) => deadline[t] <= deadline[u]
<1>1. /\ timeout_list \in Seq(Timeouts) /\ DOMAIN timeout_list = 1..Len(timeout_list)
      /\ deadline \in [Timeouts -> Int] /\ dticks \in [Timeouts -> Nat]
      /\ MAX_WAIT \in Nat /\ curr_tick \in Int
      /\ \A k \in 1..Len(timeout_list) : /\ timeout_list[k] \in Timeouts
                                         /\ dticks[timeout_list[k]] = Due(k) - From(k)
                                         /\ Due(k) \in Int
  BY ListShape
<1>2. \A k \in 1..Len(timeout_list) : Due(1) <= Due(k)
  BY DueOrder DEF IInv
<1>3. ASSUME NEW t \in Timeouts
      PROVE  (DueOf[t] # NONE <=> Linked(t)) /\ (Linked(t) => DueOf[t] = deadline[t])
  <2>1. deadline[t] \in Int /\ NONE \notin Int
    BY <1>1, TimeoutQAssumption
  <2> QED BY <2>1 DEF DueOf
<1>4. ASSUME NEW t \in Timeouts, Linked(t)
      PROVE  \E k \in 1..Len(timeout_list) : timeout_list[k] = t /\ deadline[t] = Due(k)
  BY <1>1, <1>4, PositionFacts DEF Due
<1>5. ASSUME timeout_list # <<>>
      PROVE  LET t == Head(timeout_list) IN
             /\ t \in Timeouts /\ Linked(t)
             /\ deadline[t] = curr_tick + dticks[t] /\ dticks[t] \in Nat
             /\ \A u \in Timeouts : Linked(u) => deadline[t] <= deadline[u]
  <2> DEFINE t == Head(timeout_list)
  <2>1. t = timeout_list[1] /\ 1 \in 1..Len(timeout_list)
    BY <1>1, <1>5
  <2>2. t \in Timeouts /\ Linked(t) /\ deadline[t] = Due(1)
    BY <1>1, <2>1 DEF Linked, IsIn, Due
  <2>3. dticks[t] = Due(1) - curr_tick /\ Due(1) \in Int /\ dticks[t] \in Nat
    BY <1>1, <2>1, <2>2 DEF From
  <2>4. deadline[t] = curr_tick + dticks[t]
    BY <1>1, <2>2, <2>3
  <2>5. \A u \in Timeouts : Linked(u) => deadline[t] <= deadline[u]
    BY <1>2, <1>4, <2>2
  <2> QED BY <2>2, <2>3, <2>4, <2>5
<1>6. \A t \in Timeouts : Linked(t) => deadline[t] \in Int
  BY <1>1, <1>4
<1> QED BY <1>3, <1>5, <1>6

\* A step that changes neither the list nor the deadlines.
LEMMA SameDue ==
  ASSUME timeout_list' = timeout_list, deadline' = deadline
  PROVE  DueOf' = DueOf
<1>1. \A t : Linked(t)' <=> Linked(t)
  BY DEF Linked
<1> QED BY <1>1 DEF DueOf

\* A step that takes t off the list.
LEMMA LessDue ==
  ASSUME NEW t \in Timeouts, ~Linked(t)', deadline' = [deadline EXCEPT ![t] = 0],
         deadline \in [Timeouts -> Int],
         \A u \in Timeouts : u # t => (Linked(u)' <=> Linked(u))
  PROVE  DueOf' = [DueOf EXCEPT ![t] = NONE]
<1>1. \A u \in Timeouts : u # t => deadline'[u] = deadline[u]
  OBVIOUS
<1>2. \A u \in Timeouts : DueOf'[u] = IF u = t THEN NONE ELSE DueOf[u]
  BY <1>1 DEF DueOf
<1>3. DueOf' = [u \in Timeouts |-> DueOf'[u]] /\ DueOf = [u \in Timeouts |-> DueOf[u]]
  BY DEF DueOf
<1> QED BY <1>2, <1>3

\* z_add_timeout() is Promise!Add.
LEMMA AddMaps ==
  ASSUME IInv, IInv', NEW t \in Timeouts, NEW d \in Nat \ {0}, AddTimeout(t, d)
  PROVE  Promise!Add(t)
<1> DEFINE p == Place(d)
           l == timeout_list
           N == Len(timeout_list)
<1>1. /\ ~Linked(t) /\ timeout_list' = InsertAt(l, p, t)
      /\ deadline' = [deadline EXCEPT ![t] = curr_tick + d] /\ curr_tick' = curr_tick
  BY DEF AddTimeout
<1>2. /\ l \in Seq(Timeouts) /\ N \in Nat /\ DOMAIN l = 1..N /\ curr_tick \in Int
      /\ deadline \in [Timeouts -> Int]
  BY ListShape
<1>3. p \in 1..(N + 1)
  BY AddPlaceFacts DEF IInv
<1> HIDE DEF p
<1>4. /\ timeout_list' \in Seq(Timeouts) /\ Len(timeout_list') = N + 1
      /\ \A j \in 1..(N + 1) :
           timeout_list'[j] = IF j = p THEN t ELSE IF j < p THEN l[j] ELSE l[j - 1]
  <2> DEFINE r == InsertAt(l, p, t)
  <2>1. /\ r \in Seq(Timeouts) /\ Len(r) = N + 1
        /\ \A j \in 1..(N + 1) : r[j] = IF j = p THEN t ELSE IF j < p THEN l[j] ELSE l[j - 1]
    <3>1. timeout_list \in Seq(Timeouts)
      BY <1>2
    <3> HIDE DEF r
    <3>2. \A k \in 1..(N + 1) :
            LET q == InsertAt(l, k, t) IN
            /\ q \in Seq(Timeouts) /\ Len(q) = N + 1
            /\ \A j \in 1..(N + 1) : q[j] = IF j = k THEN t ELSE IF j < k THEN l[j] ELSE l[j - 1]
      BY <3>1, InsertAtShape
    <3> QED BY <1>3, <3>2 DEF r
  <2>2. timeout_list' = r
    BY <1>1
  <2> QED BY <2>1, <2>2
<1>5. DOMAIN timeout_list' = 1..(N + 1)
  BY <1>4
<1>6. IsIn(timeout_list', t)
  BY <1>3, <1>4, <1>5 DEF IsIn
<1>7. ASSUME NEW u \in Timeouts, u # t PROVE (IsIn(timeout_list', u) <=> IsIn(l, u))
  <2>1. ASSUME IsIn(timeout_list', u) PROVE IsIn(l, u)
    <3>1. PICK j \in 1..(N + 1) : timeout_list'[j] = u
      BY <1>5, <2>1 DEF IsIn
    <3>2. CASE j < p
      <4>1. j \in 1..N /\ l[j] = u
        BY <1>2, <1>3, <1>4, <3>1, <3>2
      <4> QED BY <1>2, <4>1 DEF IsIn
    <3>3. CASE j > p
      <4>1. j - 1 \in 1..N /\ j # p /\ ~(j < p)
        BY <1>2, <1>3, <3>3
      <4>2. l[j - 1] = u
        BY <1>4, <3>1, <4>1
      <4> QED BY <1>2, <4>1, <4>2 DEF IsIn
    <3>4. CASE j = p
      BY <1>4, <1>7, <3>1, <3>4
    <3> QED BY <1>2, <1>3, <3>2, <3>3, <3>4
  <2>2. ASSUME IsIn(l, u) PROVE IsIn(timeout_list', u)
    <3>1. PICK j \in 1..N : l[j] = u
      BY <1>2, <2>2 DEF IsIn
    <3>2. CASE j < p
      <4>1. j \in 1..(N + 1) /\ j # p
        BY <1>2, <1>3, <3>2
      <4>2. timeout_list'[j] = u
        BY <1>4, <3>1, <3>2, <4>1
      <4> QED BY <1>5, <4>1, <4>2 DEF IsIn
    <3>3. CASE ~(j < p)
      <4>1. j + 1 \in 1..(N + 1) /\ j + 1 # p /\ ~(j + 1 < p) /\ (j + 1) - 1 = j
        BY <1>2, <1>3, <3>3
      <4>2. timeout_list'[j + 1] = u
        BY <1>4, <3>1, <4>1
      <4> QED BY <1>5, <4>1, <4>2 DEF IsIn
    <3> QED BY <3>2, <3>3
  <2> QED BY <2>1, <2>2
<1>8. Linked(t)' /\ \A u \in Timeouts : u # t => (Linked(u)' <=> Linked(u))
  BY <1>6, <1>7 DEF Linked
<1>9. /\ DueOf[t] = NONE /\ DueOf'[t] = curr_tick + d
      /\ DueOf'[t] # NONE /\ DueOf'[t] > curr_tick
  <2>1. DueOf[t] = NONE
    BY <1>1 DEF DueOf
  <2>2. DueOf'[t] = deadline'[t]
    BY <1>8 DEF DueOf
  <2>3. deadline'[t] = curr_tick + d /\ curr_tick + d \in Int /\ curr_tick + d > curr_tick
    BY <1>1, <1>2
  <2> QED BY <2>1, <2>2, <2>3, TimeoutQAssumption
<1>10. DueOf' = [DueOf EXCEPT ![t] = DueOf'[t]]
  <2>1. \A u \in Timeouts : u # t => deadline'[u] = deadline[u]
    BY <1>1, <1>2
  <2>2. \A u \in Timeouts : u # t => DueOf'[u] = DueOf[u]
    BY <1>8, <2>1 DEF DueOf
  <2>3. DueOf' = [u \in Timeouts |-> DueOf'[u]] /\ DueOf = [u \in Timeouts |-> DueOf[u]]
    BY DEF DueOf
  <2> QED BY <2>2, <2>3
<1> QED BY <1>1, <1>9, <1>10 DEF Promise!Add

\* z_abort_timeout() is Promise!Abort.
LEMMA AbortMaps ==
  ASSUME IInv, NEW t \in Timeouts, Abort(t)
  PROVE  Promise!Abort(t)
<1>1. /\ Linked(t) /\ timeout_list' = RemoveItem(timeout_list, t)
      /\ deadline' = [deadline EXCEPT ![t] = 0] /\ curr_tick' = curr_tick
  BY DEF Abort, Forget
<1>2. timeout_list \in Seq(Timeouts) /\ Once(timeout_list, t) /\ deadline \in [Timeouts -> Int]
  BY DEF IInv, TypeOK, Typed
<1>3. ~Linked(t)' /\ \A u \in Timeouts : u # t => (Linked(u)' <=> Linked(u))
  BY <1>1, <1>2, RemoveFacts DEF Linked
<1>4. DueOf' = [DueOf EXCEPT ![t] = NONE]
  BY <1>1, <1>2, <1>3, LessDue
<1>5. DueOf[t] # NONE
  BY <1>1, DueOfFacts
<1> QED BY <1>1, <1>4, <1>5 DEF Promise!Abort

\* A callback of the loop is Promise!Expire of the first timeout.
LEMMA ExpiresMaps ==
  ASSUME IInv, NEW c, NEW rem, AtHead(c, rem), Expires(c, rem)
  PROVE  Promise!Next
<1>0. PICK t : t = Head(timeout_list)
  OBVIOUS
<1>1. /\ timeout_list # <<>> /\ timeout_list' = Tail(timeout_list)
      /\ deadline' = [deadline EXCEPT ![t] = 0] /\ curr_tick' = curr_tick + dticks[t]
  BY <1>0 DEF Expires, Forget
<1>2. /\ t \in Timeouts /\ Linked(t)
      /\ deadline[t] = curr_tick + dticks[t] /\ dticks[t] \in Nat
      /\ \A u \in Timeouts : Linked(u) => deadline[t] <= deadline[u]
  BY <1>0, <1>1, DueOfFacts
<1>3. /\ timeout_list \in Seq(Timeouts) /\ deadline \in [Timeouts -> Int] /\ curr_tick \in Int
      /\ \A u \in Timeouts : Once(timeout_list, u)
  BY DEF IInv, TypeOK, Typed
<1>4. ~Linked(t)' /\ \A u \in Timeouts : u # t => (Linked(u)' <=> Linked(u))
  <2>1. \A y : Once(timeout_list, y) =>
          (IsIn(Tail(timeout_list), y) <=> IsIn(timeout_list, y) /\ y # t)
    BY <1>0, <1>1, <1>3, TailFacts
  <2> QED BY <1>1, <1>2, <1>3, <2>1 DEF Linked
<1>5. DueOf' = [DueOf EXCEPT ![t] = NONE]
  BY <1>1, <1>2, <1>3, <1>4, LessDue
<1>6. /\ DueOf[t] # NONE /\ DueOf[t] = deadline[t]
      /\ \A u \in Timeouts : DueOf[u] # NONE => DueOf[t] <= DueOf[u]
  BY <1>2, DueOfFacts
<1>7. curr_tick' = DueOf[t] /\ curr_tick' >= curr_tick
  BY <1>1, <1>2, <1>3, <1>6
<1>8. Promise!Expire(t)
  BY <1>5, <1>6, <1>7 DEF Promise!Expire, Promise!Active
<1> QED BY <1>2, <1>8 DEF Promise!Next

\* The end of an announcement is Promise!Advance, or nothing if no tick was
\* left.
LEMMA FinishesMaps ==
  ASSUME IInv, ~shared, NEW c, NEW rem, AtHead(c, rem), Finishes(c, rem)
  PROVE  Promise!Next \/ UNCHANGED <<curr_tick, DueOf>>
<1> DEFINE t == Head(timeout_list)
<1>1. /\ timeout_list' = timeout_list /\ deadline' = deadline /\ curr_tick' = curr_tick + rem
      /\ timeout_list # <<>> => dticks[t] > rem
  BY DEF Finishes
<1>2. DueOf' = DueOf
  BY <1>1, SameDue
<1>3. rem \in Nat /\ curr_tick \in Int
  BY DEF AtHead, IInv, TypeOK
<1>4. CASE rem = 0
  BY <1>1, <1>2, <1>3, <1>4
<1>5. CASE rem # 0
  <2>1. curr_tick' > curr_tick /\ curr_tick' \in Int
    BY <1>1, <1>3, <1>5
  <2>2. ASSUME NEW u \in Timeouts, DueOf[u] # NONE PROVE curr_tick' < DueOf[u]
    <3>1. Linked(u) /\ DueOf[u] = deadline[u] /\ deadline[u] \in Int
      BY <2>2, DueOfFacts
    <3>2. timeout_list # <<>>
      BY <3>1 DEF Linked, IsIn
    <3>3. /\ deadline[t] = curr_tick + dticks[t] /\ dticks[t] \in Nat
          /\ deadline[t] <= deadline[u]
      BY <3>1, <3>2, DueOfFacts
    <3> HIDE DEF t
    <3> QED BY <1>1, <1>3, <3>1, <3>2, <3>3
  <2>3. Promise!Advance
    BY <1>2, <2>1, <2>2 DEF Promise!Advance, Promise!Active
  <2> QED BY <2>3 DEF Promise!Next
<1> QED BY <1>4, <1>5

\* The queue implements TimeoutPromise: timeouts expire in the order of
\* their deadlines, each when the clock reads its deadline, and the clock
\* never runs backwards or past a timeout that has not expired.  On several
\* CPUs this holds up to the moment when two timeouts are due on the same
\* tick.
THEOREM PromiseKept == Spec => ImplementsPromise
<1>1. Init => Promise!Init
  <2> SUFFICES ASSUME Init PROVE Promise!Init
    OBVIOUS
  <2>1. \A t : ~Linked(t)
    BY DEF Init, Linked, IsIn
  <2>2. DueOf = [t \in Timeouts |-> NONE]
    BY <2>1 DEF DueOf
  <2> QED BY <2>2 DEF Init, Promise!Init
<1>2. ASSUME IInv, IInv', [Next]_vars
      PROVE  [shared \/ Promise!Next]_<<curr_tick, DueOf>>
  <2> SUFFICES ASSUME ~shared PROVE [Promise!Next]_<<curr_tick, DueOf>>
    OBVIOUS
  <2>0. Ticks \subseteq Nat /\ AbsTicks \subseteq Nat
    BY TimeoutQAssumption
  <2>1. CASE UNCHANGED vars \/ Tick
    <3>1. timeout_list' = timeout_list /\ deadline' = deadline /\ curr_tick' = curr_tick
      BY <2>1 DEF vars, listVars, Tick
    <3> QED BY <3>1, SameDue
  <2>2. ASSUME NEW t \in Timeouts, NEW n \in Ticks, Add(t, n) PROVE Promise!Next
    <3>1. Promise!Add(t)
      BY <1>2, <2>0, <2>2, AddFacts, AddMaps DEF Add
    <3> QED BY <3>1 DEF Promise!Next
  <2>3. ASSUME NEW t \in Timeouts, NEW n \in AbsTicks, AddAbsolute(t, n) PROVE Promise!Next
    <3>1. Promise!Add(t)
      BY <1>2, <2>0, <2>3, AddFacts, AddMaps DEF AddAbsolute
    <3> QED BY <3>1 DEF Promise!Next
  <2>4. ASSUME NEW t \in Timeouts, Abort(t) PROVE Promise!Next
    <3>1. Promise!Abort(t)
      BY <1>2, <2>4, AbortMaps
    <3> QED BY <3>1 DEF Promise!Next
  <2>5. ASSUME NEW c \in CPUs, Announce(c)
        PROVE  Promise!Next \/ UNCHANGED <<curr_tick, DueOf>>
    <3>1. CASE LeavesToOther
      BY <1>2, <2>5, <3>1, LeaveStep, SameDue
    <3>2. CASE ~LeavesToOther
      BY <1>2, <2>5, <3>2, AnnounceAtHead, ExpiresMaps, FinishesMaps
    <3> QED BY <3>1, <3>2
  <2>6. ASSUME NEW c \in CPUs, Return(c)
        PROVE  Promise!Next \/ UNCHANGED <<curr_tick, DueOf>>
    BY <1>2, <2>6, ReturnAtHead, ExpiresMaps, FinishesMaps
  <2> QED BY <1>2, <2>1, <2>2, <2>3, <2>4, <2>5, <2>6 DEF Next
<1> QED BY <1>1, <1>2, InvariantHolds, PTL DEF Spec, ImplementsPromise
=============================================================================
