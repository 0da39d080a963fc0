-------------------------- MODULE ThreadQueueProofs --------------------------
(***************************************************************************)
(* Theorems about the queue of a thread, for lines and buffers of any      *)
(* length: the ring that wraps around and moves is a queue.                *)
(***************************************************************************)
EXTENDS ThreadQueue, FiniteSetTheorems, SequenceTheorems, WellFoundedInduction, TLAPS

(***************************************************************************)
(* Sums                                                                    *)
(***************************************************************************)
\* Induction, for a set of numbers.
LEMMA Induction ==
  ASSUME NEW S, 0 \in S, \A n \in Nat : n \in S => n + 1 \in S
  PROVE  Nat \subseteq S
<1> DEFINE R == {p \in Nat \X Nat : p[1] < p[2]}
           rest == Nat \ S
<1> SUFFICES ASSUME rest # {} PROVE FALSE
  OBVIOUS
<1>1. PICK n \in rest : \A m \in rest : <<m, n>> \notin R
  <2>1. IsWellFoundedOn(R, Nat)
    BY NatLessThanWellFounded DEF OpToRel, IsWellFoundedOn
  <2>2. rest \subseteq Nat
    OBVIOUS
  <2> HIDE DEF R, rest
  <2> QED BY <2>1, <2>2, WFMin
<1>2. n \in Nat /\ n \notin S /\ n # 0
  BY <1>1
<1>3. n - 1 \in Nat /\ n - 1 < n
  BY <1>2
<1>4. n - 1 \in S
  BY <1>1, <1>2, <1>3
<1>5. (n - 1) + 1 = n
  BY <1>2
<1> QED BY <1>2, <1>3, <1>4, <1>5

\* The function by which FoldLeft adds up the first n elements of s: over the
\* sets of their positions, the last one first.
IsSum(f, s, n) ==
  f = [x \in SUBSET (1 .. n) |-> IF x = {} THEN 0 ELSE f[x \ {Max(x)}] + s[Max(x)]]

LEMMA MaxIs ==
  ASSUME NEW n \in Nat, NEW S, S \subseteq 1 .. n, n \in S
  PROVE  Max(S) = n
<1>1. \A x \in S : n >= x
  OBVIOUS
<1>2. Max(S) \in S /\ \A x \in S : Max(S) >= x
  <2>1. \E m \in S : \A x \in S : m >= x
    BY <1>1
  <2> QED BY <2>1 DEF Max
<1> DEFINE m == Max(S)
<1>3. m \in S /\ m >= n
  BY <1>2
<1> HIDE DEF m
<1>4. m \in Nat /\ n >= m
  BY <1>1, <1>3
<1>5. m = n
  BY <1>3, <1>4
<1> QED BY <1>5 DEF m

LEMMA SumExists ==
  ASSUME NEW s
  PROVE  \A n \in Nat : \E f : IsSum(f, s, n)
<1> DEFINE S == {n \in Nat : \E f : IsSum(f, s, n)}
<1>1. 0 \in S
  <2> DEFINE f == [x \in SUBSET (1 .. 0) |-> 0]
  <2>1. \A x \in SUBSET (1 .. 0) : x = {}
    OBVIOUS
  <2>2. IsSum(f, s, 0)
    BY <2>1 DEF IsSum
  <2> QED BY <2>2
<1>2. ASSUME NEW n \in Nat, n \in S PROVE n + 1 \in S
  <2>1. PICK f : IsSum(f, s, n)
    BY <1>2
  <2> DEFINE m == n + 1
             g == [x \in SUBSET (1 .. m) |-> IF m \in x THEN f[x \ {m}] + s[m] ELSE f[x]]
  <2>2. ASSUME NEW x \in SUBSET (1 .. m)
        PROVE  g[x] = IF x = {} THEN 0 ELSE g[x \ {Max(x)}] + s[Max(x)]
    <3>1. CASE m \in x
      <4>1. Max(x) = m
        <5>1. m \in Nat /\ x \subseteq 1 .. m
          OBVIOUS
        <5> HIDE DEF m
        <5> QED BY <3>1, <5>1, MaxIs
      <4>2. x \ {m} \in SUBSET (1 .. m) /\ m \notin x \ {m}
        OBVIOUS
      <4>3. g[x \ {m}] = f[x \ {m}] /\ g[x] = f[x \ {m}] + s[m]
        BY <3>1, <4>2
      <4> QED BY <3>1, <4>1, <4>3
    <3>2. CASE m \notin x
      <4>1. x \in SUBSET (1 .. n)
        BY <3>2
      <4>2. g[x] = f[x] /\ f[x] = IF x = {} THEN 0 ELSE f[x \ {Max(x)}] + s[Max(x)]
        BY <2>1, <3>2, <4>1 DEF IsSum
      <4>3. x \ {Max(x)} \in SUBSET (1 .. m) /\ m \notin x \ {Max(x)}
        BY <3>2
      <4>4. g[x \ {Max(x)}] = f[x \ {Max(x)}]
        BY <4>3
      <4> QED BY <4>2, <4>4
    <3> QED BY <3>1, <3>2
  <2>3. g = [x \in SUBSET (1 .. m) |-> g[x]]
    OBVIOUS
  <2> HIDE DEF g
  <2>4. IsSum(g, s, m)
    BY <2>2, <2>3 DEF IsSum
  <2> QED BY <2>4
<1> HIDE DEF S
<1>3. Nat \subseteq S
  BY <1>1, <1>2, Induction
<1> QED BY <1>3 DEF S

\* Two such functions agree where the sequences do.
LEMMA SumsAgree ==
  ASSUME NEW s, NEW t, NEW n \in Nat, NEW m \in Nat, NEW f, NEW g,
         IsSum(f, s, n), IsSum(g, t, m),
         n <= m, \A i \in 1 .. n : s[i] = t[i]
  PROVE  \A x \in SUBSET (1 .. n) : f[x] = g[x]
<1> DEFINE S == {k \in Nat : k <= n => \A x \in SUBSET (1 .. k) : f[x] = g[x]}
<1>1. \A x \in SUBSET (1 .. n) :
        /\ x \in SUBSET (1 .. m)
        /\ f[x] = IF x = {} THEN 0 ELSE f[x \ {Max(x)}] + s[Max(x)]
        /\ g[x] = IF x = {} THEN 0 ELSE g[x \ {Max(x)}] + t[Max(x)]
  <2>1. \A x \in SUBSET (1 .. n) : x \in SUBSET (1 .. m)
    OBVIOUS
  <2> QED BY <2>1 DEF IsSum
<1>2. 0 \in S
  <2>1. \A x \in SUBSET (1 .. 0) : x = {} /\ x \in SUBSET (1 .. n)
    OBVIOUS
  <2> QED BY <1>1, <2>1
<1>3. ASSUME NEW k \in Nat, k \in S PROVE k + 1 \in S
  <2> SUFFICES ASSUME k + 1 <= n, NEW x \in SUBSET (1 .. k + 1) PROVE f[x] = g[x]
    BY <1>3
  <2>1. \A y \in SUBSET (1 .. k) : f[y] = g[y]
    BY <1>3
  <2>2. x \in SUBSET (1 .. n)
    OBVIOUS
  <2>3. CASE k + 1 \notin x
    <3>1. x \in SUBSET (1 .. k)
      BY <2>3
    <3> QED BY <2>1, <3>1
  <2>4. CASE k + 1 \in x
    <3>1. Max(x) = k + 1 /\ x # {}
      <4>1. k + 1 \in Nat /\ x \subseteq 1 .. k + 1
        OBVIOUS
      <4> QED BY <2>4, <4>1, MaxIs
    <3>2. x \ {k + 1} \in SUBSET (1 .. k) /\ k + 1 \in 1 .. n
      OBVIOUS
    <3>3. f[x \ {k + 1}] = g[x \ {k + 1}] /\ s[k + 1] = t[k + 1]
      BY <2>1, <3>2
    <3> QED BY <1>1, <2>2, <3>1, <3>3
  <2> QED BY <2>3, <2>4
<1> HIDE DEF S
<1>4. n \in S
  BY <1>2, <1>3, Induction
<1> QED BY <1>4 DEF S

LEMMA SumIs ==
  ASSUME NEW s, NEW n \in Nat, DOMAIN s = 1 .. n
  PROVE  \E f : IsSum(f, s, n) /\ SumOf(s) = f[1 .. n]
<1> DEFINE iter == CHOOSE f : f = [x \in SUBSET DOMAIN s |->
                               IF x = {} THEN 0 ELSE f[x \ {Max(x)}] + s[Max(x)]]
<1>1. SumOf(s) = iter[DOMAIN s]
  BY DEF SumOf, FoldLeft, MapThenFoldSet
<1>2. \E f : f = [x \in SUBSET DOMAIN s |->
                    IF x = {} THEN 0 ELSE f[x \ {Max(x)}] + s[Max(x)]]
  <2>1. PICK f : IsSum(f, s, n)
    BY SumExists
  <2>2. f = [x \in SUBSET DOMAIN s |-> IF x = {} THEN 0 ELSE f[x \ {Max(x)}] + s[Max(x)]]
    BY <2>1 DEF IsSum
  <2> QED BY <2>2
<1>3. IsSum(iter, s, n)
  BY <1>2 DEF IsSum
<1> QED BY <1>1, <1>3

LEMMA SumOfNone == SumOf(<<>>) = 0
<1>1. PICK f : IsSum(f, <<>>, 0) /\ SumOf(<<>>) = f[1 .. 0]
  <2>1. DOMAIN <<>> = 1 .. 0
    OBVIOUS
  <2> QED BY <2>1, SumIs
<1>2. 1 .. 0 = {}
  OBVIOUS
<1> QED BY <1>1, <1>2 DEF IsSum

LEMMA SumOfAppend ==
  ASSUME NEW T, NEW s \in Seq(T), NEW x \in T
  PROVE  SumOf(Append(s, x)) = SumOf(s) + x
<1> DEFINE n == Len(s)
           t == Append(s, x)
<1>1. /\ n \in Nat /\ DOMAIN s = 1 .. n /\ DOMAIN t = 1 .. n + 1
      /\ \A i \in 1 .. n : s[i] = t[i]
      /\ t[n + 1] = x
  OBVIOUS
<1> HIDE DEF n, t
<1>2. PICK f : IsSum(f, s, n) /\ SumOf(s) = f[1 .. n]
  BY <1>1, SumIs
<1>3. PICK g : IsSum(g, t, n + 1) /\ SumOf(t) = g[1 .. n + 1]
  BY <1>1, SumIs
<1>4. f[1 .. n] = g[1 .. n]
  <2>1. 1 .. n \in SUBSET (1 .. n) /\ n <= n + 1 /\ n + 1 \in Nat
    BY <1>1
  <2> QED BY <1>1, <1>2, <1>3, <2>1, SumsAgree, SMTT(60)
<1>5. Max(1 .. n + 1) = n + 1
  BY <1>1, MaxIs
<1>6. (1 .. n + 1) \ {n + 1} = 1 .. n /\ 1 .. n + 1 # {}
  <2>1. \A i : i \in (1 .. n + 1) \ {n + 1} <=> i \in 1 .. n
    BY <1>1
  <2>2. n + 1 \in 1 .. n + 1
    BY <1>1
  <2> QED BY <2>1, <2>2
<1>7. g[1 .. n + 1] = g[1 .. n] + t[n + 1]
  BY <1>3, <1>5, <1>6 DEF IsSum
<1> QED BY <1>1, <1>2, <1>3, <1>4, <1>7 DEF t

\* The sum of the first k elements.
SumUpTo(s, k) == SumOf(SubSeq(s, 1, k))

LEMMA NextSum ==
  ASSUME NEW s \in Seq(Nat), NEW k \in Nat, k + 1 \in 1 .. Len(s)
  PROVE  SumUpTo(s, k + 1) = SumUpTo(s, k) + s[k + 1]
<1>1. /\ SubSeq(s, 1, k) \in Seq(Nat) /\ s[k + 1] \in Nat
      /\ SubSeq(s, 1, k + 1) = Append(SubSeq(s, 1, k), s[k + 1])
  OBVIOUS
<1> QED BY <1>1, SumOfAppend DEF SumUpTo

LEMMA SumOfPrefixes ==
  ASSUME NEW s \in Seq(Nat)
  PROVE  /\ SumUpTo(s, 0) = 0 /\ SumUpTo(s, Len(s)) = SumOf(s)
         /\ \A k \in 0 .. Len(s) : SumUpTo(s, k) \in Nat
<1>1. SumUpTo(s, 0) = 0
  <2>1. SubSeq(s, 1, 0) = <<>>
    OBVIOUS
  <2> QED BY <2>1, SumOfNone DEF SumUpTo
<1>2. SumUpTo(s, Len(s)) = SumOf(s)
  <2>1. SubSeq(s, 1, Len(s)) = s
    OBVIOUS
  <2> QED BY <2>1 DEF SumUpTo
<1>3. \A k \in 0 .. Len(s) : SumUpTo(s, k) \in Nat
  <2> DEFINE S == {k \in Nat : k <= Len(s) => SumUpTo(s, k) \in Nat}
  <2>1. Len(s) \in Nat /\ \A k \in 1 .. Len(s) : s[k] \in Nat
    OBVIOUS
  <2>2. 0 \in S
    BY <1>1
  <2>3. ASSUME NEW k \in Nat, k \in S PROVE k + 1 \in S
    <3> SUFFICES ASSUME k + 1 <= Len(s) PROVE SumUpTo(s, k + 1) \in Nat
      OBVIOUS
    <3>1. SumUpTo(s, k) \in Nat /\ k + 1 \in 1 .. Len(s)
      BY <2>1, <2>3
    <3> QED BY <2>1, <3>1, NextSum
  <2> HIDE DEF S
  <2>4. Nat \subseteq S
    BY <2>2, <2>3, Induction
  <2> QED BY <2>1, <2>4 DEF S
<1> QED BY <1>1, <1>2, <1>3

LEMMA SumsGrow ==
  ASSUME NEW s \in Seq(Nat), NEW k \in 0 .. Len(s)
  PROVE  SumUpTo(s, k) <= SumOf(s)
<1> DEFINE S == {j \in Nat : k + j <= Len(s) => SumUpTo(s, k) <= SumUpTo(s, k + j)}
<1>1. /\ Len(s) \in Nat /\ k \in Nat /\ k <= Len(s)
      /\ \A i \in 0 .. Len(s) : SumUpTo(s, i) \in Nat
      /\ \A i \in 1 .. Len(s) : s[i] \in Nat
  BY SumOfPrefixes
<1>2. 0 \in S
  BY <1>1
<1>3. ASSUME NEW j \in Nat, j \in S PROVE j + 1 \in S
  <2> SUFFICES ASSUME k + (j + 1) <= Len(s) PROVE SumUpTo(s, k) <= SumUpTo(s, k + (j + 1))
    OBVIOUS
  <2>1. /\ SumUpTo(s, k) <= SumUpTo(s, k + j)
        /\ k + j \in Nat /\ (k + j) + 1 \in 1 .. Len(s) /\ (k + j) + 1 = k + (j + 1)
        /\ k + j \in 0 .. Len(s)
    BY <1>1, <1>3
  <2>2. SumUpTo(s, k + (j + 1)) = SumUpTo(s, k + j) + s[k + (j + 1)]
    BY <2>1, NextSum
  <2>3. /\ SumUpTo(s, k) \in Nat /\ SumUpTo(s, k + j) \in Nat /\ s[k + (j + 1)] \in Nat
    BY <1>1, <2>1
  <2> QED BY <2>1, <2>2, <2>3
<1> HIDE DEF S
<1>4. Nat \subseteq S
  BY <1>2, <1>3, Induction
<1>5. Len(s) - k \in Nat /\ k + (Len(s) - k) = Len(s)
  BY <1>1
<1>6. SumUpTo(s, k) <= SumUpTo(s, Len(s))
  <2> DEFINE j == Len(s) - k
  <2>1. j \in Nat /\ k + j = Len(s)
    BY <1>5
  <2> HIDE DEF j
  <2>2. k + j <= Len(s) => SumUpTo(s, k) <= SumUpTo(s, k + j)
    BY <1>4, <2>1 DEF S
  <2> QED BY <1>1, <2>1, <2>2
<1> QED BY <1>6, SumOfPrefixes

\* The sums of the tail lack the head.
LEMMA SumOfTail ==
  ASSUME NEW s \in Seq(Nat), s # <<>>
  PROVE  \A k \in 0 .. Len(s) - 1 : SumUpTo(s, k + 1) = Head(s) + SumUpTo(Tail(s), k)
<1> DEFINE S == {k \in Nat : k <= Len(s) - 1 =>
                               SumUpTo(s, k + 1) = Head(s) + SumUpTo(Tail(s), k)}
<1>1. /\ Len(s) \in Nat /\ Len(s) >= 1 /\ Tail(s) \in Seq(Nat) /\ Len(Tail(s)) = Len(s) - 1
      /\ Head(s) = s[1] /\ s[1] \in Nat
      /\ \A i \in 1 .. Len(s) - 1 : Tail(s)[i] = s[i + 1] /\ s[i + 1] \in Nat
  OBVIOUS
<1>2. /\ \A i \in 0 .. Len(s) - 1 : SumUpTo(Tail(s), i) \in Nat
      /\ SumUpTo(Tail(s), 0) = 0 /\ SumUpTo(s, 0) = 0
  BY <1>1, SumOfPrefixes
<1>3. 0 \in S
  <2>1. SumUpTo(s, 0 + 1) = SumUpTo(s, 0) + s[0 + 1]
    BY <1>1, NextSum
  <2>2. SumUpTo(s, 0 + 1) = s[1]
    BY <1>1, <1>2, <2>1
  <2>3. Head(s) + SumUpTo(Tail(s), 0) = s[1]
    BY <1>1, <1>2
  <2> QED BY <2>2, <2>3
<1>4. ASSUME NEW k \in Nat, k \in S PROVE k + 1 \in S
  <2> SUFFICES ASSUME k + 1 <= Len(s) - 1
               PROVE  SumUpTo(s, (k + 1) + 1) = Head(s) + SumUpTo(Tail(s), k + 1)
    OBVIOUS
  <2>1. SumUpTo(s, k + 1) = Head(s) + SumUpTo(Tail(s), k)
    BY <1>1, <1>4
  <2>2. SumUpTo(s, (k + 1) + 1) = SumUpTo(s, k + 1) + s[(k + 1) + 1]
    <3>1. k + 1 \in Nat /\ (k + 1) + 1 \in 1 .. Len(s)
      BY <1>1
    <3> QED BY <3>1, NextSum
  <2>3. SumUpTo(Tail(s), k + 1) = SumUpTo(Tail(s), k) + Tail(s)[k + 1]
    <3> DEFINE t == Tail(s)
    <3>1. t \in Seq(Nat) /\ k + 1 \in 1 .. Len(t)
      BY <1>1
    <3> HIDE DEF t
    <3>2. SumUpTo(t, k + 1) = SumUpTo(t, k) + t[k + 1]
      BY <3>1, NextSum
    <3> QED BY <3>2 DEF t
  <2>4. /\ Tail(s)[k + 1] = s[(k + 1) + 1] /\ s[(k + 1) + 1] \in Nat
        /\ SumUpTo(Tail(s), k) \in Nat
    BY <1>1, <1>2
  <2> QED BY <1>1, <2>1, <2>2, <2>3, <2>4
<1> HIDE DEF S
<1>5. Nat \subseteq S
  BY <1>3, <1>4, Induction
<1>6. \A k \in 0 .. Len(s) - 1 : k \in S /\ k \in Nat /\ k <= Len(s) - 1
  BY <1>1, <1>5
<1> QED BY <1>6 DEF S

(***************************************************************************)
(* The ring                                                                *)
(***************************************************************************)
\* Position a of a ring of c bytes, counted from its front.
Wrap(a, c) == IF a < c THEN a ELSE a - c

IsRing(buf, c) == c \in Nat \ {0} /\ DOMAIN buf = 0 .. c - 1

LEMMA WrapIsMod ==
  ASSUME NEW c \in Nat \ {0}, NEW a \in Nat, a < 2 * c
  PROVE  a % c = Wrap(a, c) /\ Wrap(a, c) \in 0 .. c - 1
<1>1. a % c = IF a < c THEN a ELSE a - c
  OBVIOUS
<1> QED BY <1>1 DEF Wrap

LEMMA RingCapacity ==
  ASSUME NEW c, NEW buf, IsRing(buf, c)
  PROVE  Capacity(buf) = c
<1>1. \A a, b \in Int : Cardinality(a .. b) = IF a > b THEN 0 ELSE b - a + 1
  BY FS_Interval, Zenon
<1> QED BY <1>1 DEF Capacity, IsRing

\* Going round in two steps is going round in one.
LEMMA WrapTwice ==
  ASSUME NEW c \in Nat, NEW a \in Nat, NEW b \in Nat, a < 2 * c, a + b < 2 * c
  PROVE  Wrap(Wrap(a, c) + b, c) = Wrap(a + b, c)
  BY DEF Wrap

\* The positions behind "at" up to the end of the ring, and from its front on.
LEMMA WrapsTo ==
  ASSUME NEW c \in Nat, NEW at \in Nat, NEW x \in Nat, at < c, x < c
  PROVE  /\ Wrap(at + ((c - at) + (x + 1) - 1), c) = x
         /\ Wrap(at + (x - at + 1 - 1), c) = x
<1>1. at + ((c - at) + (x + 1) - 1) = c + x /\ at + (x - at + 1 - 1) = x
  OBVIOUS
<1> QED BY <1>1 DEF Wrap

\* The two copies of CopyOut follow the ring.
LEMMA CopyOutBytes ==
  ASSUME NEW c, NEW buf, IsRing(buf, c), NEW at \in 0 .. c - 1, NEW n \in 0 .. c
  PROVE  CopyOut(buf, at, n) = [i \in 1 .. n |-> buf[Wrap(at + (i - 1), c)]]
<1>1. c \in Nat /\ n \in Nat /\ at \in Nat /\ at < c /\ n <= c
  BY DEF IsRing
<1> DEFINE copy1_len == Smaller(n, c - at)
<1>2. copy1_len \in Nat /\ (copy1_len = n \/ copy1_len = c - at) /\ copy1_len <= c - at
  BY <1>1 DEF Smaller
<1>3. CopyOut(buf, at, n) =
        [i \in 1 .. n |-> IF i <= copy1_len THEN buf[at + i - 1] ELSE buf[i - 1 - copy1_len]]
  BY RingCapacity DEF CopyOut
<1> HIDE DEF copy1_len
<1>4. ASSUME NEW i \in 1 .. n
      PROVE  (IF i <= copy1_len THEN buf[at + i - 1] ELSE buf[i - 1 - copy1_len]) =
               buf[Wrap(at + (i - 1), c)]
  <2>1. CASE i <= copy1_len
    <3>1. at + i - 1 = Wrap(at + (i - 1), c)
      BY <1>1, <1>2, <2>1 DEF Wrap
    <3> QED BY <2>1, <3>1
  <2>2. CASE ~(i <= copy1_len)
    <3>1. i - 1 - copy1_len = Wrap(at + (i - 1), c)
      BY <1>1, <1>2, <2>2 DEF Wrap
    <3> QED BY <2>2, <3>1
  <2> QED BY <2>1, <2>2
<1> QED BY <1>3, <1>4

\* The two copies of Enqueue.
CopyInLine(buf, at, line, copy1_len) ==
  CopyIn(CopyIn(buf, at, SubSeq(line, 1, copy1_len)),
         0, SubSeq(line, copy1_len + 1, Len(line)))

\* From position "at" on, the ring holds the line ...
HoldsLine(new, c, at, line) ==
  \A i \in 1 .. Len(line) : new[Wrap(at + (i - 1), c)] = line[i]

\* ... and elsewhere what it held before.
KeepsOthers(new, buf, c, at, line) ==
  \A x \in 0 .. c - 1 :
    (\A i \in 1 .. Len(line) : x # Wrap(at + (i - 1), c)) => new[x] = buf[x]

\* The first n bytes of the ring are those of the old one.
KeepsFirst(new, d, newpop, buf, c, pop, n) ==
  \A q \in 0 .. n - 1 : new[Wrap(newpop + q, d)] = buf[Wrap(pop + q, c)]

\* Behind n bytes, the ring holds the line.
HoldsBehind(new, d, pop, n, line) ==
  \A i \in 1 .. Len(line) : new[Wrap(pop + (n + (i - 1)), d)] = line[i]

\* The two copies of Enqueue put the bytes of a line one after the other, and
\* leave all others as they are.
LEMMA CopyInBytes ==
  ASSUME NEW c, NEW buf, IsRing(buf, c), NEW at \in 0 .. c - 1,
         NEW line \in Seq(Nat), Len(line) <= c, NEW copy1_len,
         copy1_len = Smaller(c - at, Len(line)),
         NEW new, new = CopyInLine(buf, at, line, copy1_len)
  PROVE  IsRing(new, c) /\ HoldsLine(new, c, at, line) /\ KeepsOthers(new, buf, c, at, line)
<1> DEFINE n == Len(line)
           front == SubSeq(line, 1, copy1_len)
           back == SubSeq(line, copy1_len + 1, Len(line))
<1>1. c \in Nat /\ n \in Nat /\ at \in Nat /\ at < c /\ n <= c /\ DOMAIN buf = 0 .. c - 1
  BY DEF IsRing
<1>2. /\ copy1_len \in Nat /\ (copy1_len = n \/ copy1_len = c - at)
      /\ copy1_len <= c - at /\ copy1_len <= n
  BY <1>1 DEF Smaller
<1>3. /\ DOMAIN front = 1 .. copy1_len /\ \A i \in 1 .. copy1_len : front[i] = line[i]
      /\ DOMAIN back = 1 .. n - copy1_len
      /\ \A i \in 1 .. n - copy1_len : back[i] = line[copy1_len + i]
  BY <1>2
<1> HIDE DEF n, front, back
<1>4. /\ DOMAIN new = 0 .. c - 1
      /\ \A x \in 0 .. c - 1 :
           new[x] = IF x + 1 \in 1 .. n - copy1_len THEN line[copy1_len + (x + 1)]
                    ELSE IF x - at + 1 \in 1 .. copy1_len THEN line[x - at + 1]
                    ELSE buf[x]
  <2> DEFINE first == CopyIn(buf, at, front)
  <2>1. /\ DOMAIN first = 0 .. c - 1
        /\ \A x \in 0 .. c - 1 :
             first[x] = IF x - at + 1 \in 1 .. copy1_len THEN line[x - at + 1] ELSE buf[x]
    BY <1>1, <1>3 DEF CopyIn
  <2> HIDE DEF first
  <2>2. new = CopyIn(first, 0, back)
    BY DEF first, front, back, CopyInLine
  <2>3. /\ DOMAIN new = 0 .. c - 1
        /\ \A x \in 0 .. c - 1 :
             new[x] = IF x - 0 + 1 \in 1 .. n - copy1_len THEN back[x - 0 + 1] ELSE first[x]
    BY <1>3, <2>1, <2>2 DEF CopyIn
  <2>4. \A x \in 0 .. c - 1 : x - 0 + 1 = x + 1
    OBVIOUS
  <2>5. \A x \in 0 .. c - 1 : x + 1 \in 1 .. n - copy1_len => back[x + 1] = line[copy1_len + (x + 1)]
    BY <1>3
  <2> QED BY <2>1, <2>3, <2>4, <2>5
<1>5. ASSUME NEW i \in 1 .. n PROVE new[Wrap(at + (i - 1), c)] = line[i]
  <2>1. CASE i <= copy1_len
    <3>1. /\ Wrap(at + (i - 1), c) = at + (i - 1) /\ at + (i - 1) \in 0 .. c - 1
          /\ ~((at + (i - 1)) + 1 \in 1 .. n - copy1_len)
          /\ (at + (i - 1)) - at + 1 = i /\ i \in 1 .. copy1_len
      BY <1>1, <1>2, <2>1 DEF Wrap
    <3> QED BY <1>4, <3>1
  <2>2. CASE ~(i <= copy1_len)
    <3>1. /\ Wrap(at + (i - 1), c) = i - 1 - copy1_len /\ i - 1 - copy1_len \in 0 .. c - 1
          /\ (i - 1 - copy1_len) + 1 \in 1 .. n - copy1_len
          /\ copy1_len + ((i - 1 - copy1_len) + 1) = i
      <4>1. copy1_len = c - at /\ i \in Nat /\ i <= n
        BY <1>1, <1>2, <2>2
      <4>2. Wrap(at + (i - 1), c) = i - 1 - copy1_len
        BY <1>1, <1>2, <2>2, <4>1 DEF Wrap
      <4>3. i - 1 - copy1_len \in 0 .. c - 1
        BY <1>1, <1>2, <2>2, <4>1
      <4>4. (i - 1 - copy1_len) + 1 \in 1 .. n - copy1_len
        BY <1>1, <1>2, <2>2, <4>1
      <4>5. copy1_len + ((i - 1 - copy1_len) + 1) = i
        BY <1>2, <4>1
      <4> QED BY <4>2, <4>3, <4>4, <4>5
    <3> QED BY <1>4, <3>1
  <2> QED BY <2>1, <2>2
<1>6. ASSUME NEW x \in 0 .. c - 1, \A i \in 1 .. n : x # Wrap(at + (i - 1), c)
      PROVE  new[x] = buf[x]
  <2>1. ~(x + 1 \in 1 .. n - copy1_len)
    <3> SUFFICES ASSUME x + 1 \in 1 .. n - copy1_len PROVE FALSE
      OBVIOUS
    <3>1. /\ copy1_len + (x + 1) \in 1 .. n
          /\ x = Wrap(at + (copy1_len + (x + 1) - 1), c)
      <4>1. copy1_len = c - at /\ x \in Nat /\ x < c /\ x < n - copy1_len
        BY <1>1, <1>2
      <4>2. x = Wrap(at + (copy1_len + (x + 1) - 1), c)
        BY <1>1, <4>1, WrapsTo
      <4> QED BY <1>1, <1>2, <4>1, <4>2
    <3> DEFINE i == copy1_len + (x + 1)
    <3>2. at + (i - 1) = at + (copy1_len + (x + 1) - 1)
      BY <1>1, <1>2
    <3>3. i \in 1 .. n /\ x = Wrap(at + (i - 1), c)
      BY <3>1, <3>2
    <3> HIDE DEF i
    <3> QED BY <1>6, <3>3
  <2>2. ~(x - at + 1 \in 1 .. copy1_len)
    <3> SUFFICES ASSUME x - at + 1 \in 1 .. copy1_len PROVE FALSE
      OBVIOUS
    <3>1. x - at + 1 \in 1 .. n /\ x = Wrap(at + (x - at + 1 - 1), c)
      BY <1>1, <1>2 DEF Wrap
    <3> QED BY <1>6, <3>1
  <2> QED BY <1>4, <2>1, <2>2
<1> QED BY <1>1, <1>4, <1>5, <1>6 DEF n, IsRing, HoldsLine, KeepsOthers

\* Two positions of a ring are apart.
LEMMA WrapApart ==
  ASSUME NEW c \in Nat, NEW pop \in 0 .. c - 1, NEW p \in 0 .. c - 1, NEW q \in 0 .. c - 1, p # q
  PROVE  Wrap(pop + p, c) # Wrap(pop + q, c)
  BY DEF Wrap

(***************************************************************************)
(* The lines in a ring                                                     *)
(***************************************************************************)
\* LinesInRing, for any ring.
LinesOf(buf, pop, s) ==
  [k \in DOMAIN s |-> CopyOut(buf, (pop + SumUpTo(s, k - 1)) % Capacity(buf), s[k])]

\* Byte i of line k: it follows the lines before it.
ByteOf(buf, c, pop, s, k, i) == buf[Wrap(pop + (SumUpTo(s, k - 1) + (i - 1)), c)]

\* The bytes of a line are among those in use.
LEMMA LineWithin ==
  ASSUME NEW s \in Seq(Nat), NEW k \in 1 .. Len(s)
  PROVE  /\ SumUpTo(s, k - 1) \in Nat /\ s[k] \in Nat /\ SumOf(s) \in Nat
         /\ SumUpTo(s, k - 1) + s[k] <= SumOf(s)
<1>1. /\ k - 1 \in Nat /\ (k - 1) + 1 \in 1 .. Len(s) /\ (k - 1) + 1 = k
      /\ k - 1 \in 0 .. Len(s) /\ k \in 0 .. Len(s) /\ Len(s) \in 0 .. Len(s) /\ s[k] \in Nat
  BY LenProperties
<1>2. SumUpTo(s, k - 1) \in Nat /\ SumUpTo(s, k) \in Nat /\ SumOf(s) \in Nat
  BY <1>1, SumOfPrefixes
<1>3. SumUpTo(s, k) = SumUpTo(s, k - 1) + s[k]
  BY <1>1, NextSum
<1>4. SumUpTo(s, k) <= SumOf(s)
  BY <1>1, SumsGrow
<1> QED BY <1>1, <1>2, <1>3, <1>4

LEMMA LineBytes ==
  ASSUME NEW c, NEW buf, IsRing(buf, c), NEW pop \in 0 .. c - 1,
         NEW s \in Seq(Nat), SumOf(s) <= c, NEW k \in 1 .. Len(s)
  PROVE  CopyOut(buf, (pop + SumUpTo(s, k - 1)) % Capacity(buf), s[k]) =
           [i \in 1 .. s[k] |-> ByteOf(buf, c, pop, s, k, i)]
<1> DEFINE before == SumUpTo(s, k - 1)
           n == s[k]
           total == SumOf(s)
<1>1. /\ c \in Nat \ {0} /\ pop \in Nat /\ pop < c /\ Capacity(buf) = c
  BY RingCapacity DEF IsRing
<1>2. /\ before \in Nat /\ n \in Nat /\ total \in Nat /\ before + n <= total /\ total <= c
  BY LineWithin
<1>3. CopyOut(buf, (pop + before) % Capacity(buf), n) =
        [i \in 1 .. n |-> buf[Wrap(pop + (before + (i - 1)), c)]]
  <2> HIDE DEF before, n, total
  <2>1. before + n <= c
    BY <1>1, <1>2
  <2>2. n \in 0 .. c
    BY <1>1, <1>2, <2>1
  <2> DEFINE from == Wrap(pop + before, c)
  <2>3. (pop + before) % Capacity(buf) = from /\ from \in 0 .. c - 1
    <3>1. pop + before \in Nat /\ pop + before < 2 * c
      BY <1>1, <1>2, <2>1
    <3> QED BY <1>1, <3>1, WrapIsMod
  <2>4. ASSUME NEW i \in 1 .. n
        PROVE  Wrap(from + (i - 1), c) = Wrap(pop + (before + (i - 1)), c)
    <3>1. /\ pop + before \in Nat /\ i - 1 \in Nat /\ pop + before < 2 * c
          /\ (pop + before) + (i - 1) < 2 * c
          /\ (pop + before) + (i - 1) = pop + (before + (i - 1))
      BY <1>1, <1>2, <2>1
    <3>2. Wrap(from + (i - 1), c) = Wrap((pop + before) + (i - 1), c)
      BY <1>1, <3>1, WrapTwice
    <3> QED BY <3>1, <3>2
  <2> HIDE DEF from
  <2>5. CopyOut(buf, from, n) = [i \in 1 .. n |-> buf[Wrap(from + (i - 1), c)]]
    BY <2>2, <2>3, CopyOutBytes
  <2> QED BY <2>3, <2>4, <2>5
<1> QED BY <1>3 DEF before, n, ByteOf

LEMMA LinesAre ==
  ASSUME NEW c, NEW buf, IsRing(buf, c), NEW pop \in 0 .. c - 1,
         NEW s \in Seq(Nat), SumOf(s) <= c
  PROVE  LinesOf(buf, pop, s) =
           [k \in 1 .. Len(s) |-> [i \in 1 .. s[k] |-> ByteOf(buf, c, pop, s, k, i)]]
<1>1. DOMAIN s = 1 .. Len(s)
  OBVIOUS
<1>2. \A k \in 1 .. Len(s) : CopyOut(buf, (pop + SumUpTo(s, k - 1)) % Capacity(buf), s[k]) =
                               [i \in 1 .. s[k] |-> ByteOf(buf, c, pop, s, k, i)]
  BY LineBytes
<1> QED BY <1>1, <1>2, Zenon DEF LinesOf

\* The line comes behind those of the old ring.
LastLineIn(new, newpop, buf, pop, s, line) ==
  LinesOf(new, newpop, Append(s, Len(line))) = Append(LinesOf(buf, pop, s), line)

\* A line written behind those of a ring is the last one, and the others stay.
LEMMA LinesAppended ==
  ASSUME NEW c, NEW buf, IsRing(buf, c), NEW pop \in 0 .. c - 1,
         NEW d, NEW new, IsRing(new, d), NEW newpop \in 0 .. d - 1,
         NEW s \in Seq(Nat), SumOf(s) <= c,
         NEW line \in Seq(Nat), SumOf(s) + Len(line) <= d,
         KeepsFirst(new, d, newpop, buf, c, pop, SumOf(s)),
         HoldsBehind(new, d, newpop, SumOf(s), line)
  PROVE  LastLineIn(new, newpop, buf, pop, s, line)
<1> DEFINE m == Len(s)
           n == Len(line)
           t == Append(s, n)
           L == LinesOf(buf, pop, s)
           L2 == LinesOf(new, newpop, t)
<1>1. /\ m \in Nat /\ n \in Nat
      /\ t \in Seq(Nat) /\ Len(t) = m + 1
      /\ \A k \in 1 .. m : t[k] = s[k] /\ s[k] \in Nat
      /\ t[m + 1] = n
  OBVIOUS
<1>2. /\ \A k \in 1 .. m : SumUpTo(t, k - 1) = SumUpTo(s, k - 1)
      /\ SumUpTo(t, m) = SumOf(s)
  <2>1. \A k \in 1 .. m : SubSeq(t, 1, k - 1) = SubSeq(s, 1, k - 1)
    OBVIOUS
  <2>2. SubSeq(t, 1, m) = s
    OBVIOUS
  <2> QED BY <2>1, <2>2 DEF SumUpTo
<1>3. SumOf(t) = SumOf(s) + n
  BY <1>1, SumOfAppend
<1> HIDE DEF m, n, t
<1>4. L = [k \in 1 .. m |-> [i \in 1 .. s[k] |-> ByteOf(buf, c, pop, s, k, i)]]
  BY LinesAre DEF m
<1>5. L2 = [k \in 1 .. m + 1 |-> [i \in 1 .. t[k] |-> ByteOf(new, d, newpop, t, k, i)]]
  <2>1. SumOf(t) <= d
    BY <1>3 DEF n
  <2>2. t \in Seq(Nat)
    BY <1>1
  <2>3. L2 = [k \in 1 .. Len(t) |-> [i \in 1 .. t[k] |-> ByteOf(new, d, newpop, t, k, i)]]
    BY <2>1, <2>2, LinesAre
  <2> QED BY <1>1, <2>3
<1>6. ASSUME NEW k \in 1 .. m PROVE L2[k] = L[k]
  <2>1. /\ SumUpTo(s, k - 1) \in Nat /\ s[k] \in Nat /\ SumOf(s) \in Nat
        /\ SumUpTo(s, k - 1) + s[k] <= SumOf(s)
    BY LineWithin DEF m
  <2>2. ASSUME NEW i \in 1 .. s[k]
        PROVE  ByteOf(new, d, newpop, t, k, i) = ByteOf(buf, c, pop, s, k, i)
    <3> DEFINE q == SumUpTo(s, k - 1) + (i - 1)
    <3>1. q \in 0 .. SumOf(s) - 1
      <4> DEFINE before == SumUpTo(s, k - 1)
                 size == s[k]
                 total == SumOf(s)
      <4>1. before \in Nat /\ size \in Nat /\ total \in Nat /\ before + size <= total /\ i \in 1 .. size
        BY <2>1
      <4> HIDE DEF before, size, total
      <4>2. before + (i - 1) \in 0 .. total - 1
        BY <4>1
      <4> QED BY <4>2 DEF before, total
    <3>2. SumUpTo(t, k - 1) = SumUpTo(s, k - 1)
      BY <1>2
    <3>3. ByteOf(new, d, newpop, t, k, i) = new[Wrap(newpop + q, d)]
      BY <3>2 DEF ByteOf
    <3>4. ByteOf(buf, c, pop, s, k, i) = buf[Wrap(pop + q, c)]
      BY DEF ByteOf
    <3> HIDE DEF q
    <3> QED BY <3>1, <3>3, <3>4 DEF KeepsFirst
  <2>3. k \in 1 .. m + 1 /\ t[k] = s[k]
    BY <1>1
  <2>4. L2[k] = [i \in 1 .. s[k] |-> ByteOf(new, d, newpop, t, k, i)]
    BY <1>5, <2>3
  <2>5. L[k] = [i \in 1 .. s[k] |-> ByteOf(buf, c, pop, s, k, i)]
    BY <1>4
  <2> HIDE DEF L, L2
  <2> QED BY <2>2, <2>4, <2>5
<1>7. L2[m + 1] = line
  <2>1. m + 1 \in 1 .. m + 1 /\ (m + 1) - 1 = m
    BY <1>1
  <2>2. L2[m + 1] = [i \in 1 .. n |-> ByteOf(new, d, newpop, t, m + 1, i)]
    BY <1>1, <1>5, <2>1
  <2>3. ASSUME NEW i \in 1 .. n PROVE ByteOf(new, d, newpop, t, m + 1, i) = line[i]
    <3>1. ByteOf(new, d, newpop, t, m + 1, i) = new[Wrap(newpop + (SumOf(s) + (i - 1)), d)]
      BY <1>2, <2>1 DEF ByteOf
    <3> QED BY <3>1 DEF n, HoldsBehind
  <2>4. line = [i \in 1 .. n |-> line[i]]
    BY DEF n
  <2> HIDE DEF L2
  <2> QED BY <2>2, <2>3, <2>4
<1>8. L = [k \in 1 .. m |-> L[k]]
  BY <1>4
<1>9. L2 = [k \in 1 .. m + 1 |-> L2[k]]
  BY <1>5
<1> HIDE DEF L, L2
<1>10. Append(L, line) = [k \in 1 .. m + 1 |-> IF k \in 1 .. m THEN L[k] ELSE line]
  <2> DEFINE R == {L[k] : k \in 1 .. m} \cup {line}
             A == Append(L, line)
  <2>1. L \in [1 .. m -> R] /\ line \in R
    BY <1>8
  <2> HIDE DEF R
  <2>2. L \in Seq(R) /\ Len(L) = m
    BY <1>1, <2>1
  <2>3. /\ A \in Seq(R) /\ Len(A) = m + 1 /\ DOMAIN A = 1 .. m + 1
        /\ \A k \in 1 .. m : A[k] = L[k]
        /\ A[m + 1] = line
    BY <1>1, <2>1, <2>2, AppendProperties
  <2> HIDE DEF A
  <2>4. A = [k \in 1 .. m + 1 |-> A[k]]
    <3>1. A \in [1 .. Len(A) -> R]
      BY <2>3
    <3> QED BY <2>3, <3>1
  <2>5. \A k \in 1 .. m + 1 : A[k] = IF k \in 1 .. m THEN L[k] ELSE line
    <3>1. \A k \in 1 .. m + 1 : k \in 1 .. m \/ k = m + 1
      BY <1>1
    <3> QED BY <1>1, <2>3, <3>1
  <2>6. A = [k \in 1 .. m + 1 |-> IF k \in 1 .. m THEN L[k] ELSE line]
    BY <2>4, <2>5
  <2> QED BY <2>6 DEF A
<1>11. \A k \in 1 .. m + 1 : L2[k] = IF k \in 1 .. m THEN L[k] ELSE line
  <2>1. \A k \in 1 .. m + 1 : k \in 1 .. m \/ k = m + 1
    BY <1>1
  <2>2. m + 1 \notin 1 .. m
    BY <1>1
  <2> QED BY <1>6, <1>7, <2>1, <2>2
<1>12. L2 = Append(L, line)
  BY <1>9, <1>10, <1>11
<1> QED BY <1>12 DEF L, L2, t, n, LastLineIn

\* The first line can be copied out, and behind it are the others.
FirstLineOut(buf, pop, newpop, s) ==
  /\ LinesOf(buf, pop, s) # <<>>
  /\ CopyOut(buf, pop, Head(s)) = Head(LinesOf(buf, pop, s))
  /\ LinesOf(buf, newpop, Tail(s)) = Tail(LinesOf(buf, pop, s))
  /\ SumOf(Tail(s)) = SumOf(s) - Head(s) /\ Head(s) <= SumOf(s)

LEMMA LinesTail ==
  ASSUME NEW c, NEW buf, IsRing(buf, c), NEW pop \in 0 .. c - 1,
         NEW s \in Seq(Nat), SumOf(s) <= c, s # <<>>,
         NEW newpop \in 0 .. c - 1, newpop = Wrap(pop + Head(s), c)
  PROVE  FirstLineOut(buf, pop, newpop, s)
<1> DEFINE m == Len(s) - 1
           n == Head(s)
           t == Tail(s)
           L == LinesOf(buf, pop, s)
           L2 == LinesOf(buf, newpop, t)
<1>1. /\ m \in Nat /\ n \in Nat /\ n = s[1] /\ 1 \in 1 .. Len(s) /\ Len(s) = m + 1
      /\ t \in Seq(Nat) /\ Len(t) = m
      /\ \A k \in 1 .. m : t[k] = s[k + 1]
  OBVIOUS
<1>2. \A k \in 0 .. m : SumUpTo(s, k + 1) = n + SumUpTo(t, k)
  BY SumOfTail
<1>3. SumOf(t) \in Nat /\ SumOf(s) \in Nat /\ SumOf(s) = n + SumOf(t)
  <2> HIDE DEF m, n, t
  <2>1. m \in 0 .. m /\ m \in 0 .. Len(t) /\ m + 1 \in 0 .. Len(s)
    BY <1>1
  <2>2. SumUpTo(s, m + 1) = SumOf(s) /\ SumOf(s) \in Nat
    BY <1>1, <2>1, SumOfPrefixes
  <2>3. SumUpTo(t, m) = SumOf(t) /\ SumOf(t) \in Nat
    BY <1>1, <2>1, SumOfPrefixes
  <2> QED BY <1>2, <2>1, <2>2, <2>3
<1>4. c \in Nat \ {0} /\ pop \in Nat /\ pop < c /\ Capacity(buf) = c
  <2>1. c \in Nat \ {0}
    BY DEF IsRing
  <2>2. Capacity(buf) = c
    BY RingCapacity
  <2> QED BY <2>1, <2>2
<1> HIDE DEF m, n, t
<1>5. n <= SumOf(s) /\ SumOf(t) = SumOf(s) - n /\ SumOf(t) <= c /\ n <= c
  BY <1>1, <1>3, <1>4
<1>6. L = [k \in 1 .. m + 1 |-> [i \in 1 .. s[k] |-> ByteOf(buf, c, pop, s, k, i)]]
  <2>1. L = [k \in 1 .. Len(s) |-> [i \in 1 .. s[k] |-> ByteOf(buf, c, pop, s, k, i)]]
    BY LinesAre
  <2> QED BY <1>1, <2>1
<1>7. L2 = [k \in 1 .. m |-> [i \in 1 .. t[k] |-> ByteOf(buf, c, newpop, t, k, i)]]
  <2>1. t \in Seq(Nat)
    BY <1>1
  <2>2. L2 = [k \in 1 .. Len(t) |-> [i \in 1 .. t[k] |-> ByteOf(buf, c, newpop, t, k, i)]]
    <3>1. SumOf(t) <= c
      BY <1>5
    <3>2. \A p \in 0 .. c - 1 : \A x \in Seq(Nat) : SumOf(x) <= c =>
            LinesOf(buf, p, x) =
              [k \in 1 .. Len(x) |-> [i \in 1 .. x[k] |-> ByteOf(buf, c, p, x, k, i)]]
      BY LinesAre
    <3>3. newpop \in 0 .. c - 1
      OBVIOUS
    <3> QED BY <2>1, <3>1, <3>2, <3>3, Zenon
  <2> QED BY <1>1, <2>2
<1>8. L = [k \in 1 .. m + 1 |-> L[k]] /\ L2 = [k \in 1 .. m |-> L2[k]]
  BY <1>6, <1>7
<1>9. CopyOut(buf, pop, n) = L[1]
  <2>1. L[1] = CopyOut(buf, (pop + SumUpTo(s, 1 - 1)) % Capacity(buf), s[1])
    <3>1. 1 \in DOMAIN s
      BY <1>1
    <3> QED BY <3>1 DEF LinesOf
  <2>2. SumUpTo(s, 1 - 1) = 0
    BY SumOfPrefixes
  <2>3. (pop + 0) % c = pop
    <3>1. pop + 0 = pop /\ pop < 2 * c
      BY <1>4
    <3>2. pop % c = Wrap(pop, c)
      BY <1>4, <3>1, WrapIsMod
    <3> QED BY <1>4, <3>1, <3>2 DEF Wrap
  <2> HIDE DEF L
  <2> QED BY <1>1, <1>4, <2>1, <2>2, <2>3
<1>10. ASSUME NEW k \in 1 .. m PROVE L2[k] = L[k + 1]
  <2>1. /\ SumUpTo(t, k - 1) \in Nat /\ t[k] \in Nat /\ SumOf(t) \in Nat
        /\ SumUpTo(t, k - 1) + t[k] <= SumOf(t)
    BY <1>1, LineWithin
  <2>2. /\ k + 1 \in 1 .. m + 1 /\ t[k] = s[k + 1] /\ k - 1 \in 0 .. m
        /\ (k - 1) + 1 = (k + 1) - 1
    BY <1>1
  <2>3. SumUpTo(s, (k + 1) - 1) = n + SumUpTo(t, k - 1)
    <3>1. SumUpTo(s, (k - 1) + 1) = n + SumUpTo(t, k - 1)
      BY <1>2, <2>2
    <3> QED BY <2>2, <3>1
  <2> DEFINE before == SumUpTo(t, k - 1)
  <2>4. ASSUME NEW i \in 1 .. t[k]
        PROVE  ByteOf(buf, c, newpop, t, k, i) = ByteOf(buf, c, pop, s, k + 1, i)
    <3> DEFINE b == before + (i - 1)
    <3>1. ByteOf(buf, c, newpop, t, k, i) = buf[Wrap(newpop + b, c)]
      BY DEF ByteOf
    <3>2. ByteOf(buf, c, pop, s, k + 1, i) = buf[Wrap(pop + ((n + before) + (i - 1)), c)]
      BY <2>3 DEF ByteOf
    <3> DEFINE size == t[k]
               total == SumOf(s)
               rest == SumOf(t)
    <3>3. /\ before \in Nat /\ size \in Nat /\ rest \in Nat /\ before + size <= rest
          /\ total \in Nat /\ total = n + rest /\ total <= c /\ i \in 1 .. size
      BY <1>3, <2>1
    <3> HIDE DEF before, size, total, rest
    <3>4. /\ i - 1 \in Nat /\ b \in Nat /\ (n + before) + (i - 1) = n + b
          /\ pop + n \in Nat /\ n + b < c
      <4>1. n \in Nat /\ c \in Nat /\ pop \in Nat
        BY <1>1, <1>4
      <4>2. i - 1 \in Nat /\ i - 1 < size
        BY <3>3
      <4> QED BY <3>3, <4>1, <4>2
    <3> HIDE DEF b
    <3>5. /\ pop + n < 2 * c /\ (pop + n) + b < 2 * c
          /\ (pop + n) + b = pop + (n + b)
      <4>1. n \in Nat /\ c \in Nat /\ pop \in Nat /\ pop < c /\ n <= c
        BY <1>1, <1>4, <1>5
      <4> QED BY <3>4, <4>1
    <3>6. Wrap(newpop + b, c) = Wrap((pop + n) + b, c)
      <4>1. newpop = Wrap(pop + n, c)
        BY DEF n
      <4> QED BY <1>4, <3>4, <3>5, <4>1, WrapTwice
    <3> QED BY <3>1, <3>2, <3>4, <3>5, <3>6
  <2>5. L2[k] = [i \in 1 .. t[k] |-> ByteOf(buf, c, newpop, t, k, i)]
    BY <1>7
  <2>6. L[k + 1] = [i \in 1 .. t[k] |-> ByteOf(buf, c, pop, s, k + 1, i)]
    BY <1>6, <2>2
  <2> HIDE DEF L, L2
  <2> QED BY <2>4, <2>5, <2>6
<1> HIDE DEF L, L2
<1>11. Len(L) = m + 1 /\ L # <<>> /\ Head(L) = L[1] /\ Tail(L) = [k \in 1 .. m |-> L[k + 1]]
  <2> DEFINE R == {L[k] : k \in 1 .. m + 1}
  <2>1. L \in [1 .. m + 1 -> R]
    BY <1>8
  <2> HIDE DEF R
  <2>2. L \in Seq(R) /\ Len(L) = m + 1
    BY <1>1, <2>1
  <2>3. (m + 1) - 1 = m
    BY <1>1
  <2>4. L # <<>> /\ Head(L) = L[1]
    BY <1>1, <2>2
  <2> DEFINE A == Tail(L)
  <2>5. A \in Seq(R) /\ Len(A) = Len(L) - 1 /\ \A k \in 1 .. Len(A) : A[k] = L[k + 1]
    BY <2>2, <2>4, HeadTailProperties
  <2> HIDE DEF A
  <2>6. A = [k \in 1 .. m |-> L[k + 1]]
    <3>1. A \in [1 .. m -> R]
      BY <2>2, <2>3, <2>5
    <3> QED BY <2>2, <2>3, <2>5, <3>1
  <2> QED BY <2>2, <2>4, <2>6 DEF A
<1>12. L2 = Tail(L)
  BY <1>8, <1>10, <1>11
<1> QED BY <1>5, <1>9, <1>11, <1>12 DEF L, L2, n, t, FirstLineOut

(***************************************************************************)
(* The inductive invariant                                                 *)
(***************************************************************************)
\* What holds of the ring when it has c bytes.
RingOf(c) ==
  /\ IsRing(buffer, c) /\ c >= InitialCapacity
  /\ sizes \in Seq(Nat) /\ buffer_size = SumOf(sizes) /\ buffer_size <= c
  /\ next_pop \in 0 .. c - 1
  /\ next_insert = Wrap(next_pop + buffer_size, c)

RingInv == \E c \in Nat : RingOf(c)

LEMMA InRing ==
  ASSUME NEW c \in Nat, RingOf(c)
  PROVE  /\ c \in Nat \ {0} /\ buffer_size \in Nat /\ Capacity(buffer) = c
         /\ buffer_size \in 0 .. c /\ next_pop + buffer_size \in Nat
         /\ next_pop + buffer_size < 2 * c
         /\ next_insert = (next_pop + buffer_size) % c /\ next_insert \in 0 .. c - 1
         /\ LinesInRing = LinesOf(buffer, next_pop, sizes)
<1>1. c \in Nat \ {0} /\ Capacity(buffer) = c
  BY RingCapacity DEF RingOf, IsRing
<1>2. buffer_size \in Nat
  <2>1. sizes \in Seq(Nat)
    BY DEF RingOf
  <2>2. Len(sizes) \in 0 .. Len(sizes)
    BY <2>1, LenProperties
  <2>3. SumOf(sizes) \in Nat
    BY <2>1, <2>2, SumOfPrefixes
  <2> QED BY <2>3 DEF RingOf
<1>3. next_pop \in Nat /\ next_pop < c /\ buffer_size <= c
  BY <1>1 DEF RingOf
<1>4. /\ buffer_size \in 0 .. c /\ next_pop + buffer_size \in Nat
      /\ next_pop + buffer_size < 2 * c
  BY <1>1, <1>2, <1>3
<1>5. next_insert = (next_pop + buffer_size) % c /\ next_insert \in 0 .. c - 1
  <2>1. next_insert = Wrap(next_pop + buffer_size, c)
    BY DEF RingOf
  <2> QED BY <1>1, <1>4, <2>1, WrapIsMod
<1>6. LinesInRing = LinesOf(buffer, next_pop, sizes)
  BY DEF LinesInRing, LinesOf, SumUpTo
<1> QED BY <1>1, <1>2, <1>4, <1>5, <1>6

\* The buffer that takes a line: it has room for it, and it holds the bytes of
\* the lines before as the old one did.
LEMMA GrownBytes ==
  ASSUME NEW c \in Nat, RingOf(c), NEW line \in Lines,
         NEW grown, grown = IF Fits(Len(line)) THEN buffer
                            ELSE Enlarged(buffer, next_pop, buffer_size),
         NEW at, at = IF Fits(Len(line)) THEN next_insert ELSE buffer_size,
         NEW pop, pop = IF Fits(Len(line)) THEN next_pop ELSE 0
  PROVE  \E d \in Nat :
           /\ IsRing(grown, d) /\ d >= InitialCapacity /\ buffer_size + Len(line) <= d
           /\ pop \in 0 .. d - 1 /\ at = Wrap(pop + buffer_size, d)
           /\ KeepsFirst(grown, d, pop, buffer, c, next_pop, buffer_size)
<1> DEFINE n == Len(line)
<1>1. InitialCapacity \in Nat \ {0} /\ n \in Nat /\ n <= 3 * InitialCapacity
  <2>1. n \in 1 .. 3 * InitialCapacity /\ InitialCapacity \in Nat \ {0}
    BY LinesAssumption
  <2> HIDE DEF n
  <2> QED BY <2>1
<1>2. /\ c \in Nat \ {0} /\ buffer_size \in Nat /\ Capacity(buffer) = c /\ buffer_size <= c
      /\ IsRing(buffer, c) /\ c >= InitialCapacity /\ next_pop \in 0 .. c - 1
      /\ next_insert = Wrap(next_pop + buffer_size, c) /\ buffer_size \in 0 .. c
  BY InRing DEF RingOf
<1>3. Fits(n) <=> n <= c - buffer_size
  BY <1>2 DEF Fits
<1>4. CASE Fits(n)
  <2>1. grown = buffer /\ at = next_insert /\ pop = next_pop
    BY <1>4
  <2> HIDE DEF n
  <2>2. buffer_size + n <= c
    BY <1>1, <1>2, <1>3, <1>4
  <2>3. \A q \in 0 .. buffer_size - 1 :
          grown[Wrap(pop + q, c)] = buffer[Wrap(next_pop + q, c)]
    BY <2>1
  <2>4. IsRing(grown, c) /\ pop \in 0 .. c - 1 /\ at = Wrap(pop + buffer_size, c)
    BY <1>2, <2>1
  <2> QED BY <1>2, <2>2, <2>3, <2>4 DEF n, KeepsFirst
<1>5. CASE ~Fits(n)
  <2> DEFINE d == 4 * c
             old == CopyOut(buffer, next_pop, buffer_size)
  <2>1. /\ grown = CopyIn([i \in 0 .. d - 1 |-> Garbage], 0, old)
        /\ at = buffer_size /\ pop = 0
    BY <1>2, <1>5 DEF Enlarged
  <2>2. old = [i \in 1 .. buffer_size |-> buffer[Wrap(next_pop + (i - 1), c)]]
    <3>1. \A b : IsRing(b, c) => \A p \in 0 .. c - 1 : \A m \in 0 .. c :
            CopyOut(b, p, m) = [i \in 1 .. m |-> b[Wrap(p + (i - 1), c)]]
      BY CopyOutBytes
    <3>2. IsRing(buffer, c) /\ next_pop \in 0 .. c - 1 /\ buffer_size \in 0 .. c
      BY <1>2
    <3> QED BY <3>1, <3>2
  <2> HIDE DEF old, n
  <2>3. grown = [i \in 0 .. d - 1 |-> IF i - 0 + 1 \in DOMAIN old THEN old[i - 0 + 1]
                                      ELSE [j \in 0 .. d - 1 |-> Garbage][i]]
    BY <2>1 DEF CopyIn
  <2>4. d \in Nat \ {0} /\ IsRing(grown, d)
    <3>1. d \in Nat \ {0}
      BY <1>2
    <3>2. DOMAIN grown = 0 .. d - 1
      BY <2>3
    <3> QED BY <3>1, <3>2 DEF IsRing
  <2>5. d >= InitialCapacity /\ buffer_size + n <= d /\ pop \in 0 .. d - 1
    BY <1>1, <1>2, <2>1
  <2>6. at = Wrap(pop + buffer_size, d)
    BY <1>2, <2>1 DEF Wrap
  <2>7. ASSUME NEW q \in 0 .. buffer_size - 1
        PROVE  grown[Wrap(pop + q, d)] = buffer[Wrap(next_pop + q, c)]
    <3>1. Wrap(pop + q, d) = q /\ q \in 0 .. d - 1
      BY <1>2, <2>1 DEF Wrap
    <3>2. q - 0 + 1 \in 1 .. buffer_size /\ (q - 0 + 1) - 1 = q
      BY <1>2
    <3> DEFINE i == q - 0 + 1
    <3>3. i \in DOMAIN old /\ old[i] = buffer[Wrap(next_pop + (i - 1), c)]
      <4> HIDE DEF i
      <4>1. i \in 1 .. buffer_size
        BY <3>2 DEF i
      <4> QED BY <2>2, <4>1
    <3>4. i - 1 = q
      BY <3>2
    <3>5. grown[q] = IF i \in DOMAIN old THEN old[i] ELSE [j \in 0 .. d - 1 |-> Garbage][q]
      BY <2>3, <3>1
    <3> HIDE DEF i, d
    <3> QED BY <3>1, <3>3, <3>4, <3>5
  <2>8. d \in Nat
    BY <2>4
  <2> HIDE DEF d
  <2> QED BY <2>4, <2>5, <2>6, <2>7, <2>8 DEF n, KeepsFirst
<1> QED BY <1>4, <1>5

\* A line that is queued is the last one of the ring, which may have moved.
LEMMA EnqueueStep ==
  ASSUME NEW c \in Nat, RingOf(c), NEW line \in Lines, Enqueue(line)
  PROVE  RingInv' /\ LinesInRing' = Append(LinesInRing, line)
<1> DEFINE n == Len(line)
           grown == IF Fits(n) THEN buffer ELSE Enlarged(buffer, next_pop, buffer_size)
           at == IF Fits(n) THEN next_insert ELSE buffer_size
           pop == IF Fits(n) THEN next_pop ELSE 0
           copy1_len == Smaller(Capacity(grown) - at, n)
           new == CopyIn(CopyIn(grown, at, SubSeq(line, 1, copy1_len)),
                         0, SubSeq(line, copy1_len + 1, n))
<1>1. /\ buffer' = new /\ next_pop' = pop /\ next_insert' = (at + n) % Capacity(grown)
      /\ buffer_size' = buffer_size + n /\ sizes' = Append(sizes, n)
  BY DEF Enqueue
<1>2. PICK d \in Nat :
        /\ IsRing(grown, d) /\ d >= InitialCapacity /\ buffer_size + n <= d
        /\ pop \in 0 .. d - 1 /\ at = Wrap(pop + buffer_size, d)
        /\ KeepsFirst(grown, d, pop, buffer, c, next_pop, buffer_size)
  BY GrownBytes
<1>3. line \in Seq(Nat) /\ n \in Nat
  BY LinesAssumption, LenProperties
<1>4. /\ c \in Nat \ {0} /\ buffer_size \in Nat /\ buffer_size <= c
      /\ IsRing(buffer, c) /\ next_pop \in 0 .. c - 1
      /\ sizes \in Seq(Nat) /\ buffer_size = SumOf(sizes)
  BY InRing DEF RingOf
<1>5. Capacity(grown) = d /\ d \in Nat \ {0}
  BY <1>2, RingCapacity DEF IsRing
<1>6. copy1_len = Smaller(d - at, n)
  BY <1>5
<1> HIDE DEF grown, at, pop, copy1_len, n
<1>7. /\ pop \in Nat /\ pop < d /\ n <= d /\ pop + buffer_size \in Nat
      /\ pop + buffer_size < 2 * d /\ (pop + buffer_size) + n < 2 * d
  BY <1>2, <1>3, <1>4, <1>5
<1>8. at \in 0 .. d - 1
  BY <1>2, <1>5, <1>7, WrapIsMod
<1> HIDE DEF new
<1>9. IsRing(new, d) /\ HoldsLine(new, d, at, line) /\ KeepsOthers(new, grown, d, at, line)
  <2>1. new = CopyInLine(grown, at, line, copy1_len)
    BY DEF new, n, CopyInLine
  <2>2. copy1_len = Smaller(d - at, Len(line)) /\ Len(line) <= d /\ IsRing(grown, d)
    BY <1>2, <1>6, <1>7 DEF n
  <2> QED BY <1>3, <1>8, <2>1, <2>2, CopyInBytes
<1>10. ASSUME NEW i \in 1 .. n
       PROVE  /\ Wrap(at + (i - 1), d) = Wrap(pop + (buffer_size + (i - 1)), d)
              /\ buffer_size + (i - 1) \in 0 .. d - 1
  <2>1. /\ i - 1 \in Nat /\ (pop + buffer_size) + (i - 1) < 2 * d
        /\ (pop + buffer_size) + (i - 1) = pop + (buffer_size + (i - 1))
        /\ buffer_size + (i - 1) \in 0 .. d - 1
    <3>1. /\ d \in Nat /\ buffer_size + n <= d /\ pop \in Nat /\ n \in Nat /\ buffer_size \in Nat
          /\ (pop + buffer_size) + n < 2 * d
      BY <1>2, <1>3, <1>4, <1>7
    <3>2. i - 1 \in Nat /\ i - 1 < n
      BY <3>1
    <3> QED BY <3>1, <3>2
  <2>2. Wrap(at + (i - 1), d) = Wrap((pop + buffer_size) + (i - 1), d)
    BY <1>2, <1>7, <2>1, WrapTwice
  <2> QED BY <2>1, <2>2
<1>11. HoldsBehind(new, d, pop, buffer_size, line)
  BY <1>9, <1>10 DEF HoldsBehind, HoldsLine, n
<1>12. KeepsFirst(new, d, pop, buffer, c, next_pop, buffer_size)
  <2> SUFFICES ASSUME NEW q \in 0 .. buffer_size - 1
               PROVE  new[Wrap(pop + q, d)] = buffer[Wrap(next_pop + q, c)]
    BY DEF KeepsFirst
  <2>1. q \in 0 .. d - 1
    BY <1>2, <1>3, <1>4
  <2>2. ASSUME NEW i \in 1 .. n PROVE Wrap(pop + q, d) # Wrap(at + (i - 1), d)
    <3>1. q # buffer_size + (i - 1)
      BY <1>3, <1>4
    <3>2. pop \in 0 .. d - 1
      BY <1>2
    <3>3. Wrap(pop + q, d) # Wrap(pop + (buffer_size + (i - 1)), d)
      BY <1>10, <2>1, <3>1, <3>2, WrapApart
    <3> QED BY <1>10, <3>3
  <2>3. Wrap(pop + q, d) \in 0 .. d - 1
    <3>1. pop + q \in Nat /\ pop + q < 2 * d
      BY <1>5, <1>7, <2>1
    <3> QED BY <1>5, <3>1, WrapIsMod
  <2>4. new[Wrap(pop + q, d)] = grown[Wrap(pop + q, d)]
    BY <1>9, <2>2, <2>3 DEF KeepsOthers, n
  <2>5. grown[Wrap(pop + q, d)] = buffer[Wrap(next_pop + q, c)]
    BY <1>2 DEF KeepsFirst
  <2> QED BY <2>4, <2>5
<1>13. LinesOf(new, pop, Append(sizes, n)) = Append(LinesOf(buffer, next_pop, sizes), line)
  <2>1. SumOf(sizes) <= c /\ SumOf(sizes) + Len(line) <= d
    BY <1>2, <1>4 DEF n
  <2>2. /\ KeepsFirst(new, d, pop, buffer, c, next_pop, SumOf(sizes))
        /\ HoldsBehind(new, d, pop, SumOf(sizes), line)
    BY <1>4, <1>11, <1>12
  <2>3. /\ IsRing(buffer, c) /\ next_pop \in 0 .. c - 1 /\ IsRing(new, d) /\ pop \in 0 .. d - 1
        /\ sizes \in Seq(Nat) /\ line \in Seq(Nat)
    BY <1>2, <1>3, <1>4, <1>9
  <2>4. LastLineIn(new, pop, buffer, next_pop, sizes, line)
    BY <2>1, <2>2, <2>3, LinesAppended
  <2> QED BY <2>4 DEF n, LastLineIn
<1>14. LinesInRing' = LinesOf(new, pop, Append(sizes, n))
  BY <1>1 DEF LinesInRing, LinesOf, SumUpTo
<1>15. RingInv'
  <2>1. /\ Append(sizes, n) \in Seq(Nat) /\ SumOf(Append(sizes, n)) = buffer_size + n
    BY <1>3, <1>4, SumOfAppend
  <2>2. (at + n) % d = Wrap(pop + (buffer_size + n), d)
    <3>1. at + n \in Nat /\ at + n < 2 * d /\ (pop + buffer_size) + n = pop + (buffer_size + n)
      BY <1>3, <1>4, <1>5, <1>7, <1>8
    <3>2. (at + n) % d = Wrap(at + n, d)
      BY <1>5, <3>1, WrapIsMod
    <3>3. Wrap(at + n, d) = Wrap((pop + buffer_size) + n, d)
      BY <1>2, <1>3, <1>7, WrapTwice
    <3> QED BY <3>1, <3>2, <3>3
  <2>3. RingOf(d)'
    BY <1>1, <1>2, <1>5, <1>9, <2>1, <2>2 DEF RingOf, IsRing
  <2> QED BY <2>3 DEF RingInv
<1> QED BY <1>13, <1>14, <1>15, InRing

\* The line that is dequeued is the first one of the ring.
LEMMA DequeueStep ==
  ASSUME NEW c \in Nat, RingOf(c), Dequeue
  PROVE  /\ RingInv' /\ LinesInRing # <<>>
         /\ popped' = Head(LinesInRing) /\ LinesInRing' = Tail(LinesInRing)
<1> DEFINE n == Head(sizes)
           t == Tail(sizes)
           pop == next_pop'
<1>1. /\ sizes # <<>> /\ popped' = CopyOut(buffer, next_pop, n) /\ pop = Advanced(next_pop, n)
      /\ buffer_size' = buffer_size - n /\ sizes' = t
      /\ buffer' = buffer /\ next_insert' = next_insert
  BY DEF Dequeue
<1>2. /\ c \in Nat \ {0} /\ buffer_size \in Nat /\ buffer_size <= c /\ Capacity(buffer) = c
      /\ IsRing(buffer, c) /\ c >= InitialCapacity /\ next_pop \in 0 .. c - 1
      /\ next_insert = Wrap(next_pop + buffer_size, c)
      /\ sizes \in Seq(Nat) /\ buffer_size = SumOf(sizes)
      /\ LinesInRing = LinesOf(buffer, next_pop, sizes)
  BY InRing DEF RingOf
<1>3. n \in Nat /\ t \in Seq(Nat)
  BY <1>1, <1>2, HeadTailProperties
<1> HIDE DEF n, t, pop
<1>4. n <= buffer_size
  <2>1. 1 \in 1 .. Len(sizes) /\ sizes[1] = n /\ 1 - 1 = 0
    BY <1>1, <1>2 DEF n
  <2>2. SumUpTo(sizes, 1 - 1) + sizes[1] <= SumOf(sizes) /\ SumUpTo(sizes, 1 - 1) \in Nat
    BY <1>2, <2>1, LineWithin
  <2> QED BY <1>2, <1>3, <2>1, <2>2
<1>5. /\ next_pop \in Nat /\ next_pop + n \in Nat /\ next_pop + n < 2 * c
  BY <1>2, <1>3, <1>4
<1>6. pop = Wrap(next_pop + n, c) /\ pop \in 0 .. c - 1
  BY <1>1, <1>2, <1>5, WrapIsMod DEF Advanced
<1>7. /\ LinesOf(buffer, next_pop, sizes) # <<>>
      /\ CopyOut(buffer, next_pop, n) = Head(LinesOf(buffer, next_pop, sizes))
      /\ LinesOf(buffer, pop, t) = Tail(LinesOf(buffer, next_pop, sizes))
      /\ SumOf(t) = SumOf(sizes) - n
  <2>1. SumOf(sizes) <= c /\ pop = Wrap(next_pop + Head(sizes), c)
    BY <1>2, <1>6 DEF n
  <2>2. /\ IsRing(buffer, c) /\ next_pop \in 0 .. c - 1 /\ sizes \in Seq(Nat) /\ sizes # <<>>
        /\ pop \in 0 .. c - 1
    BY <1>1, <1>2, <1>6
  <2>3. FirstLineOut(buffer, next_pop, pop, sizes)
    BY <2>1, <2>2, LinesTail
  <2> QED BY <2>3 DEF n, t, FirstLineOut
<1>8. LinesInRing' = LinesOf(buffer, pop, t)
  BY <1>1 DEF LinesInRing, LinesOf, SumUpTo, pop
<1>9. RingInv'
  <2>1. buffer_size - n <= c /\ buffer_size - n = SumOf(t)
    BY <1>2, <1>3, <1>4, <1>7
  <2>2. next_insert = Wrap(pop + (buffer_size - n), c)
    <3> DEFINE rest == buffer_size - n
    <3>1. /\ rest \in Nat /\ (next_pop + n) + rest < 2 * c
          /\ (next_pop + n) + rest = next_pop + buffer_size
      BY <1>2, <1>3, <1>4, <1>5
    <3> HIDE DEF rest
    <3>2. Wrap(pop + rest, c) = Wrap((next_pop + n) + rest, c)
      BY <1>5, <1>6, <3>1, WrapTwice
    <3> QED BY <1>2, <3>1, <3>2 DEF rest
  <2>3. RingOf(c)'
    BY <1>1, <1>2, <1>3, <1>6, <2>1, <2>2 DEF RingOf, IsRing, pop
  <2> QED BY <2>3 DEF RingInv
<1> QED BY <1>1, <1>2, <1>7, <1>8, <1>9

\* The ring begins empty.
LEMMA RingInvInit ==
  ASSUME Init
  PROVE  RingInv /\ LinesInRing = <<>>
<1>1. InitialCapacity \in Nat \ {0} /\ InitialCapacity \in Nat
  BY LinesAssumption
<1>2. buffer = [i \in 0 .. InitialCapacity - 1 |-> Garbage]
  BY DEF Init
<1>3. buffer_size = 0 /\ next_insert = 0 /\ next_pop = 0 /\ sizes = <<>>
  BY DEF Init
<1>4. DOMAIN buffer = 0 .. InitialCapacity - 1
  BY <1>2
<1>5. /\ Wrap(0 + 0, InitialCapacity) = 0 /\ 0 \in 0 .. InitialCapacity - 1
      /\ 0 <= InitialCapacity /\ InitialCapacity >= InitialCapacity
  BY <1>1 DEF Wrap
<1>6. <<>> \in Seq(Nat)
  OBVIOUS
<1>7. RingOf(InitialCapacity)
  BY <1>1, <1>3, <1>4, <1>5, <1>6, SumOfNone DEF RingOf, IsRing
<1>8. LinesInRing = <<>>
  <2>1. DOMAIN sizes = {}
    BY <1>3
  <2> QED BY <2>1 DEF LinesInRing
<1> QED BY <1>1, <1>7, <1>8 DEF RingInv

LEMMA RingInvNext ==
  ASSUME RingInv, [Next]_vars
  PROVE  RingInv'
<1>1. CASE Next
  <2>1. PICK c \in Nat : RingOf(c)
    BY DEF RingInv
  <2>2. ASSUME NEW line \in Lines, Enqueue(line) PROVE RingInv'
    BY <2>1, <2>2, EnqueueStep
  <2>3. CASE Dequeue
    BY <2>1, <2>3, DequeueStep
  <2> QED BY <1>1, <2>2, <2>3 DEF Next
<1>2. CASE UNCHANGED vars
  BY <1>2 DEF vars, RingInv, RingOf
<1> QED BY <1>1, <1>2

(***************************************************************************)
(* The theorems                                                            *)
(***************************************************************************)
\* The queue passes its check after any enqueue and dequeue (_assert_repinv of
\* thread_queue_t), and its cursors enclose the bytes in use.
THEOREM RingIsSound == Spec => []RepInv
<1>1. Init => RingInv
  BY RingInvInit
<1>2. RingInv /\ [Next]_vars => RingInv'
  BY RingInvNext
<1>3. RingInv => RepInv
  <2> SUFFICES ASSUME RingInv PROVE RepInv
    OBVIOUS
  <2>1. PICK c \in Nat : RingOf(c)
    BY DEF RingInv
  <2>2. /\ c \in Nat \ {0} /\ Capacity(buffer) = c /\ next_insert \in 0 .. c - 1
        /\ next_insert = (next_pop + buffer_size) % c
    BY <2>1, InRing
  <2>3. /\ DOMAIN buffer = 0 .. c - 1 /\ buffer_size = SumOf(sizes) /\ buffer_size <= c
        /\ next_pop \in 0 .. c - 1
    BY <2>1 DEF RingOf, IsRing
  <2> QED BY <2>2, <2>3 DEF RepInv
<1> QED BY <1>1, <1>2, <1>3, PTL DEF Spec

\* Whatever the lines, and however the ring wraps around and moves to a larger
\* buffer between an enqueue and a dequeue, each line comes out as it went in,
\* in order (enqueue, dequeue and _enlargen_char_buffer of thread_queue_t).
THEOREM RingIsFifo == Spec => IsFifo
<1>1. Init => Fifo!Init
  BY RingInvInit DEF Init, Fifo!Init
<1>2. Init => RingInv
  BY RingInvInit
<1>3. RingInv /\ [Next]_vars => RingInv'
  BY RingInvNext
<1>4. RingInv /\ [Next]_vars => [Fifo!Next]_Fifo!vars
  <2> SUFFICES ASSUME RingInv, [Next]_vars PROVE [Fifo!Next]_Fifo!vars
    OBVIOUS
  <2>1. PICK c \in Nat : RingOf(c)
    BY DEF RingInv
  <2>2. CASE Next
    <3>1. ASSUME NEW line \in Lines, Enqueue(line) PROVE Fifo!Next
      <4>1. LinesInRing' = Append(LinesInRing, line)
        BY <2>1, <3>1, EnqueueStep
      <4>2. popped' = popped
        BY <3>1 DEF Enqueue
      <4> QED BY <4>1, <4>2 DEF Fifo!Next, Fifo!Enqueue
    <3>2. CASE Dequeue
      BY <2>1, <3>2, DequeueStep DEF Fifo!Next, Fifo!Dequeue
    <3> QED BY <2>2, <3>1, <3>2 DEF Next
  <2>3. CASE UNCHANGED vars
    BY <2>3 DEF vars, Fifo!vars, LinesInRing
  <2> QED BY <2>2, <2>3
<1> QED BY <1>1, <1>2, <1>3, <1>4, PTL DEF Spec, IsFifo, Fifo!Spec
=============================================================================
