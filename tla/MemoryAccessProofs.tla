-------------------------- MODULE MemoryAccessProofs --------------------------
(***************************************************************************)
(* Theorems about the instruction routines, for any number of threads, of  *)
(* address locks and of bytes in a block: the locks an instruction takes   *)
(* are exactly those of the bytes it touches, so instructions that touch a *)
(* common byte exclude each other.                                         *)
(***************************************************************************)
EXTENDS MemoryAccess, FiniteSetTheorems, WellFoundedInduction, TLAPS

(***************************************************************************)
(* Arithmetic                                                              *)
(***************************************************************************)
\* Induction, for a set of numbers.
LEMMA Induction ==
  ASSUME NEW S, 0 \in S, \A n \in Nat : n \in S => n + 1 \in S
  PROVE  Nat \subseteq S
<1> DEFINE R == {p \in Nat \X Nat : p[1] < p[2]}
           rest == Nat \ S
<1> SUFFICES ASSUME rest # {} PROVE FALSE
  OBVIOUS
<1>1. PICK n \in rest : \A m \in rest : <<m, n>> \notin R
  <2>1. IsWellFoundedOn(R, Nat)
    BY NatLessThanWellFounded DEF OpToRel, IsWellFoundedOn
  <2>2. rest \subseteq Nat
    OBVIOUS
  <2> HIDE DEF R, rest
  <2> QED BY <2>1, <2>2, WFMin
<1>2. n \in Nat /\ n \notin S /\ n # 0
  BY <1>1
<1>3. n - 1 \in Nat /\ n - 1 < n
  BY <1>2
<1>4. n - 1 \in S
  BY <1>1, <1>2, <1>3
<1>5. (n - 1) + 1 = n
  BY <1>2
<1> QED BY <1>2, <1>3, <1>4, <1>5

\* Division with remainder, and that there is one way to do it.
LEMMA Division ==
  ASSUME NEW a \in Nat, NEW n \in Nat \ {0}
  PROVE  /\ a \div n \in Nat /\ a % n \in 0 .. n - 1
         /\ a = n * (a \div n) + (a % n)
  OBVIOUS

LEMMA DivisionIs ==
  ASSUME NEW a \in Nat, NEW d \in Int, NEW r \in Int, NEW n \in Nat \ {0},
         a = n * d + r, 0 <= r, r < n
  PROVE  a % n = r /\ a \div n = d
  OBVIOUS

LEMMA DivisionGrows ==
  ASSUME NEW a \in Nat, NEW b \in Nat, NEW n \in Nat \ {0}, a <= b
  PROVE  a \div n <= b \div n
  OBVIOUS

\* A remainder may be taken early.
LEMMA ModEarly ==
  ASSUME NEW a \in Nat, NEW b \in Nat, NEW n \in Nat \ {0}
  PROVE  ((a % n) + b) % n = (a + b) % n
<1> DEFINE q == a \div n
           r == a % n
           x == r + b
           p == x \div n
           s == x % n
           z == a + b
           d == q + p
<1>1. a = n * q + r /\ q \in Nat /\ r \in Nat /\ r < n
  BY Division
<1>2. x \in Nat /\ z \in Nat
  BY <1>1
<1>3. x = n * p + s /\ p \in Nat /\ s \in Int /\ 0 <= s /\ s < n
  <2> HIDE DEF x
  <2> QED BY <1>2, Division
<1> HIDE DEF q, r, p, s
<1>4. z = n * d + s /\ d \in Int
  BY <1>1, <1>3
<1> HIDE DEF x, z, d
<1>5. z % n = s
  BY <1>2, <1>3, <1>4, DivisionIs
<1> QED BY <1>5 DEF s, r, x, z

LEMMA ModTwice ==
  ASSUME NEW a \in Nat, NEW b \in Nat, NEW n \in Nat \ {0}
  PROVE  ((a % n) + (b % n)) % n = (a + b) % n
<1> DEFINE r == a % n
<1>1. r \in Nat
  BY Division
<1>2. (r + b) % n = (a + b) % n
  BY ModEarly
<1> HIDE DEF r
<1>3. ((b % n) + r) % n = (b + r) % n
  BY <1>1, ModEarly
<1> DEFINE x == b % n
<1>4. x \in Nat
  BY Division
<1> HIDE DEF x
<1>5. x + r = r + x /\ b + r = r + b
  BY <1>1, <1>4
<1>6. (r + x) % n = (a + b) % n
  BY <1>2, <1>3, <1>5 DEF x
<1> QED BY <1>6 DEF r, x

(***************************************************************************)
(* Powers of 2                                                             *)
(***************************************************************************)
\* The function by which Power2 is computed.
IsPower(f, n) == f = [i \in 0 .. n |-> IF i = 0 THEN 1 ELSE 2 * f[i - 1]]

LEMMA PowerExists == \A n \in Nat : \E f : IsPower(f, n)
<1> DEFINE S == {n \in Nat : \E f : IsPower(f, n)}
<1>1. 0 \in S
  <2> DEFINE f == [i \in 0 .. 0 |-> 1]
  <2>1. \A i \in 0 .. 0 : i = 0
    OBVIOUS
  <2>2. IsPower(f, 0)
    BY <2>1 DEF IsPower
  <2> QED BY <2>2
<1>2. ASSUME NEW n \in Nat, n \in S PROVE n + 1 \in S
  <2>1. PICK f : IsPower(f, n)
    BY <1>2
  <2> DEFINE g == [i \in 0 .. n + 1 |-> IF i \in 0 .. n THEN f[i] ELSE 2 * f[n]]
  <2>2. ASSUME NEW i \in 0 .. n + 1 PROVE g[i] = IF i = 0 THEN 1 ELSE 2 * g[i - 1]
    <3>1. CASE i \in 0 .. n
      <4>1. g[i] = f[i] /\ f[i] = IF i = 0 THEN 1 ELSE 2 * f[i - 1]
        BY <2>1, <3>1 DEF IsPower
      <4>2. i # 0 => i - 1 \in 0 .. n + 1 /\ i - 1 \in 0 .. n
        BY <3>1
      <4> QED BY <4>1, <4>2
    <3>2. CASE i \notin 0 .. n
      <4>1. i - 1 = n /\ i # 0 /\ n \in 0 .. n + 1 /\ n \in 0 .. n
        BY <3>2
      <4> QED BY <3>2, <4>1
    <3> QED BY <3>1, <3>2
  <2>3. g = [i \in 0 .. n + 1 |-> g[i]]
    OBVIOUS
  <2> HIDE DEF g
  <2>4. IsPower(g, n + 1)
    BY <2>2, <2>3 DEF IsPower
  <2> QED BY <2>4
<1> HIDE DEF S
<1>3. Nat \subseteq S
  BY <1>1, <1>2, Induction
<1> QED BY <1>3 DEF S

LEMMA PowersAgree ==
  ASSUME NEW n \in Nat, NEW m \in Nat, n <= m, NEW f, NEW g, IsPower(f, n), IsPower(g, m)
  PROVE  \A i \in 0 .. n : f[i] = g[i]
<1> DEFINE S == {i \in Nat : i <= n => f[i] = g[i]}
<1>1. \A i \in 0 .. n : /\ f[i] = IF i = 0 THEN 1 ELSE 2 * f[i - 1]
                        /\ g[i] = IF i = 0 THEN 1 ELSE 2 * g[i - 1]
  <2>1. \A i \in 0 .. n : i \in 0 .. m
    OBVIOUS
  <2> QED BY <2>1 DEF IsPower
<1>2. 0 \in S
  BY <1>1
<1>3. ASSUME NEW i \in Nat, i \in S PROVE i + 1 \in S
  <2> SUFFICES ASSUME i + 1 <= n PROVE f[i + 1] = g[i + 1]
    OBVIOUS
  <2>1. i + 1 \in 0 .. n /\ (i + 1) - 1 = i /\ i + 1 # 0 /\ f[i] = g[i]
    BY <1>3
  <2> QED BY <1>1, <2>1
<1> HIDE DEF S
<1>4. Nat \subseteq S
  BY <1>2, <1>3, Induction
<1>5. \A i \in 0 .. n : i \in Nat /\ i <= n
  OBVIOUS
<1> QED BY <1>4, <1>5 DEF S

LEMMA PowerIs ==
  ASSUME NEW n \in Nat
  PROVE  \E f : IsPower(f, n) /\ Power2(n) = f[n]
<1> DEFINE power == CHOOSE f : f = [i \in 0 .. n |-> IF i = 0 THEN 1 ELSE 2 * f[i - 1]]
<1>1. Power2(n) = power[n]
  BY DEF Power2
<1>2. \E f : f = [i \in 0 .. n |-> IF i = 0 THEN 1 ELSE 2 * f[i - 1]]
  BY PowerExists DEF IsPower
<1>3. IsPower(power, n)
  BY <1>2 DEF IsPower
<1> QED BY <1>1, <1>3

LEMMA NextPower == Power2(0) = 1 /\ \A n \in Nat : Power2(n + 1) = 2 * Power2(n)
<1>1. Power2(0) = 1
  <2>1. PICK f : IsPower(f, 0) /\ Power2(0) = f[0]
    BY PowerIs
  <2> QED BY <2>1 DEF IsPower
<1>2. ASSUME NEW n \in Nat PROVE Power2(n + 1) = 2 * Power2(n)
  <2>1. PICK f : IsPower(f, n) /\ Power2(n) = f[n]
    BY PowerIs
  <2> DEFINE m == n + 1
  <2>2. m \in Nat /\ n <= m /\ m \in 0 .. m /\ m # 0 /\ m - 1 = n /\ n \in 0 .. n
    OBVIOUS
  <2> HIDE DEF m
  <2>3. PICK g : IsPower(g, m) /\ Power2(m) = g[m]
    BY <2>2, PowerIs
  <2>4. f[n] = g[n]
    BY <2>1, <2>2, <2>3, PowersAgree
  <2>5. g[m] = 2 * g[n]
    BY <2>2, <2>3 DEF IsPower
  <2> QED BY <2>1, <2>3, <2>4, <2>5 DEF m
<1> QED BY <1>1, <1>2

LEMMA PowerPositive == \A n \in Nat : Power2(n) \in Nat \ {0}
<1> DEFINE S == {n \in Nat : Power2(n) \in Nat \ {0}}
<1>1. 0 \in S
  BY NextPower
<1>2. ASSUME NEW n \in Nat, n \in S PROVE n + 1 \in S
  <2>1. Power2(n) \in Nat \ {0} /\ Power2(n + 1) = 2 * Power2(n)
    BY <1>2, NextPower
  <2>2. \A x \in Nat \ {0} : 2 * x \in Nat \ {0}
    OBVIOUS
  <2> QED BY <2>1, <2>2
<1> HIDE DEF S
<1>3. Nat \subseteq S
  BY <1>1, <1>2, Induction
<1> QED BY <1>3 DEF S

\* The function by which binary_log counts the shifts.
IsLog(f, num) ==
  f = [n \in 0 .. num |-> IF n \div 2 = 0 THEN 0 ELSE 1 + f[n \div 2]]

LEMMA Halves == \A n \in Nat : n \div 2 \in Nat /\ n \div 2 <= n /\ (n > 0 => n \div 2 < n)
  OBVIOUS

LEMMA LogExists == \A num \in Nat : \E f : IsLog(f, num)
<1> DEFINE S == {num \in Nat : \E f : IsLog(f, num)}
<1>1. 0 \in S
  <2> DEFINE f == [n \in 0 .. 0 |-> 0]
  <2>1. \A n \in 0 .. 0 : n \div 2 = 0
    OBVIOUS
  <2>2. IsLog(f, 0)
    BY <2>1 DEF IsLog
  <2> QED BY <2>2
<1>2. ASSUME NEW num \in Nat, num \in S PROVE num + 1 \in S
  <2>1. PICK f : IsLog(f, num)
    BY <1>2
  <2> DEFINE m == num + 1
             g == [n \in 0 .. m |-> IF n \in 0 .. num THEN f[n]
                                    ELSE IF n \div 2 = 0 THEN 0 ELSE 1 + f[n \div 2]]
  <2>2. ASSUME NEW n \in 0 .. m
        PROVE  g[n] = IF n \div 2 = 0 THEN 0 ELSE 1 + g[n \div 2]
    <3>1. n \div 2 \in 0 .. num /\ n \div 2 \in 0 .. m
      <4>1. n \in Nat /\ n <= num + 1
        OBVIOUS
      <4>2. n \div 2 \in Nat /\ n \div 2 <= n /\ (n > 0 => n \div 2 < n)
        BY <4>1, Halves
      <4> DEFINE h == n \div 2
      <4>3. h \in Nat /\ h <= n /\ (n > 0 => h < n)
        BY <4>2
      <4> HIDE DEF h
      <4>4. h \in 0 .. num /\ h \in 0 .. m
        BY <4>1, <4>3
      <4> QED BY <4>4 DEF h
    <3> DEFINE h == n \div 2
    <3>2. g[h] = f[h]
      BY <3>1
    <3>3. n \in 0 .. num => f[n] = IF h = 0 THEN 0 ELSE 1 + f[h]
      BY <2>1 DEF IsLog
    <3>4. g[n] = IF n \in 0 .. num THEN f[n] ELSE IF h = 0 THEN 0 ELSE 1 + f[h]
      OBVIOUS
    <3>5. g[n] = IF h = 0 THEN 0 ELSE 1 + f[h]
      BY <3>3, <3>4
    <3> HIDE DEF g
    <3> QED BY <3>2, <3>5
  <2>3. g = [n \in 0 .. m |-> g[n]]
    OBVIOUS
  <2> HIDE DEF g
  <2>4. IsLog(g, m)
    BY <2>2, <2>3 DEF IsLog
  <2> QED BY <2>4
<1> HIDE DEF S
<1>3. Nat \subseteq S
  BY <1>1, <1>2, Induction
<1> QED BY <1>3 DEF S

\* binary_log finds the exponent of a power of 2.
LEMMA LogOfPower ==
  ASSUME NEW k \in Nat
  PROVE  binary_log(Power2(k)) = k
<1> DEFINE num == Power2(k)
           shifts == CHOOSE f : f = [n \in 0 .. num |-> IF n \div 2 = 0 THEN 0
                                                        ELSE 1 + f[n \div 2]]
<1>1. num \in Nat /\ num > 0
  BY PowerPositive
<1> HIDE DEF num
<1>2. binary_log(num) = shifts[num]
  BY <1>1 DEF binary_log
<1>3. \E f : f = [n \in 0 .. num |-> IF n \div 2 = 0 THEN 0 ELSE 1 + f[n \div 2]]
  BY <1>1, LogExists DEF IsLog
<1>4. shifts = [n \in 0 .. num |-> IF n \div 2 = 0 THEN 0 ELSE 1 + shifts[n \div 2]]
  BY <1>3
<1> HIDE DEF shifts
<1> DEFINE S == {j \in Nat : Power2(j) <= num => shifts[Power2(j)] = j}
<1>5. 0 \in S
  <2>1. Power2(0) = 1 /\ 1 \in 0 .. num /\ 1 \div 2 = 0
    BY <1>1, NextPower
  <2> QED BY <1>4, <2>1
<1>6. ASSUME NEW j \in Nat, j \in S PROVE j + 1 \in S
  <2> SUFFICES ASSUME Power2(j + 1) <= num PROVE shifts[Power2(j + 1)] = j + 1
    OBVIOUS
  <2> DEFINE m == Power2(j)
             n == Power2(j + 1)
  <2>1. m \in Nat \ {0} /\ n = 2 * m /\ n <= num
    BY NextPower, PowerPositive
  <2>2. m <= num => shifts[m] = j
    BY <1>6
  <2> HIDE DEF m, n
  <2>3. n \in 0 .. num /\ n \div 2 = m /\ m # 0 /\ m <= num
    BY <1>1, <2>1
  <2>4. shifts[n] = 1 + shifts[m]
    BY <1>4, <2>3
  <2>5. shifts[n] = j + 1
    BY <2>2, <2>3, <2>4
  <2> QED BY <2>5 DEF n
<1> HIDE DEF S
<1>7. k \in S
  BY <1>5, <1>6, Induction
<1>8. shifts[num] = k
  <2>1. num <= num
    BY <1>1
  <2> QED BY <1>7, <2>1 DEF S, num
<1> QED BY <1>2, <1>8 DEF num

\* So the number of bits to shift fits the size of a block.
LEMMA KnobsFit ==
  ASSUME NEW k \in Nat, is_power_2(k)
  PROVE  binary_log(k) \in Nat /\ k = Power2(binary_log(k))
<1>1. PICK n \in 0 .. k : k = Power2(n)
  BY DEF is_power_2
<1>2. n \in Nat
  OBVIOUS
<1> QED BY <1>1, <1>2, LogOfPower

(***************************************************************************)
(* Lists in order                                                          *)
(***************************************************************************)
Increasing(list) == \A i, j \in DOMAIN list : i < j => list[i] < list[j]

Listed(S) == \E n \in Nat : \E list \in [1 .. n -> S] : Increasing(list) /\ ToSet(list) = S

\* Every set of numbers below a bound can be listed in order.
LEMMA ListExists ==
  ASSUME NEW bound \in Nat
  PROVE  \A S \in SUBSET (0 .. bound - 1) : Listed(S)
<1> DEFINE T == {b \in Nat : \A S \in SUBSET (0 .. b - 1) : Listed(S)}
<1>1. 0 \in T
  <2> SUFFICES ASSUME NEW S \in SUBSET (0 .. 0 - 1) PROVE Listed(S)
    OBVIOUS
  <2>1. S = {}
    OBVIOUS
  <2> DEFINE list == [i \in 1 .. 0 |-> 0]
  <2>2. 1 .. 0 = {}
    OBVIOUS
  <2>3. list \in [1 .. 0 -> S] /\ Increasing(list) /\ ToSet(list) = S
    BY <2>1, <2>2 DEF Increasing, ToSet
  <2> HIDE DEF list
  <2> QED BY <2>3 DEF Listed
<1>2. ASSUME NEW b \in Nat, b \in T PROVE b + 1 \in T
  <2> SUFFICES ASSUME NEW S \in SUBSET (0 .. (b + 1) - 1) PROVE Listed(S)
    OBVIOUS
  <2>1. \A x \in S : x \in Nat /\ (x # b => x \in 0 .. b - 1)
    OBVIOUS
  <2>2. CASE b \notin S
    <3>1. S \in SUBSET (0 .. b - 1)
      BY <2>1, <2>2
    <3> QED BY <1>2, <3>1
  <2>3. CASE b \in S
    <3> DEFINE R == S \ {b}
    <3>1. R \in SUBSET (0 .. b - 1)
      BY <2>1
    <3>2. Listed(R)
      BY <1>2, <3>1
    <3>3. PICK n \in Nat : \E list \in [1 .. n -> R] : Increasing(list) /\ ToSet(list) = R
      BY <3>2 DEF Listed
    <3>4. PICK list \in [1 .. n -> R] : Increasing(list) /\ ToSet(list) = R
      BY <3>3
    <3> DEFINE m == n + 1
               more == [i \in 1 .. m |-> IF i \in 1 .. n THEN list[i] ELSE b]
    <3>5. \A i \in 1 .. n : list[i] \in S /\ list[i] \in 0 .. b - 1
      BY <3>1
    <3>6. \A i \in 1 .. m : i \notin 1 .. n => i = m
      OBVIOUS
    <3>7. more \in [1 .. m -> S]
      BY <2>3, <3>5
    <3>8. Increasing(more)
      <4> SUFFICES ASSUME NEW i \in 1 .. m, NEW j \in 1 .. m, i < j PROVE more[i] < more[j]
        BY DEF Increasing
      <4>1. i \in 1 .. n
        OBVIOUS
      <4>2. more[i] = list[i] /\ list[i] < b
        <5>1. list[i] \in 0 .. b - 1
          BY <3>5, <4>1
        <5>2. more[i] = list[i]
          BY <4>1
        <5> HIDE DEF more
        <5> QED BY <5>1, <5>2
      <4>3. CASE j \in 1 .. n
        <5>1. list[i] < list[j]
          BY <3>4, <4>1, <4>3 DEF Increasing
        <5> QED BY <4>2, <4>3, <5>1
      <4>4. CASE j \notin 1 .. n
        <5>1. more[j] = b
          BY <4>4
        <5> QED BY <4>2, <5>1
      <4> QED BY <4>3, <4>4
    <3>9. ToSet(more) = S
      <4>1. ASSUME NEW x \in S PROVE \E i \in 1 .. m : more[i] = x
        <5>1. CASE x = b
          <6>1. m \in 1 .. m /\ m \notin 1 .. n
            OBVIOUS
          <6>2. more[m] = b
            BY <6>1
          <6> HIDE DEF more, m
          <6> QED BY <5>1, <6>1, <6>2
        <5>2. CASE x # b
          <6>1. x \in ToSet(list)
            BY <3>4, <5>2
          <6>2. PICK i \in 1 .. n : list[i] = x
            BY <6>1 DEF ToSet
          <6>3. i \in 1 .. m /\ more[i] = x
            BY <6>2
          <6> QED BY <6>3
        <5> QED BY <5>1, <5>2
      <4>2. DOMAIN more = 1 .. m
        OBVIOUS
      <4> HIDE DEF more, m
      <4> QED BY <3>7, <4>1, <4>2 DEF ToSet
    <3>10. m \in Nat
      OBVIOUS
    <3> HIDE DEF more, m
    <3> QED BY <3>7, <3>8, <3>9, <3>10 DEF Listed
  <2> QED BY <2>2, <2>3
<1> HIDE DEF T
<1>3. bound \in T
  BY <1>1, <1>2, Induction
<1> QED BY <1>3 DEF T

\* index_lock_list, once it is sorted and its duplicates are gone.
LEMMA ListIs ==
  ASSUME NEW bound \in Nat, NEW S \in SUBSET (0 .. bound - 1),
         NEW chosen, chosen = CHOOSE list \in [1 .. Cardinality(S) -> S] :
                                /\ ToSet(list) = S
                                /\ \A i, j \in DOMAIN list : i < j => list[i] < list[j]
  PROVE  Increasing(chosen) /\ ToSet(chosen) = S
<1>1. PICK n \in Nat : \E list \in [1 .. n -> S] : Increasing(list) /\ ToSet(list) = S
  BY ListExists DEF Listed
<1>2. PICK list \in [1 .. n -> S] : Increasing(list) /\ ToSet(list) = S
  BY <1>1
<1>3. Cardinality(S) = n
  <2>1. \A i, j \in 1 .. n : list[i] = list[j] => i = j
    <3> SUFFICES ASSUME NEW i \in 1 .. n, NEW j \in 1 .. n, i # j PROVE list[i] # list[j]
      OBVIOUS
    <3>1. list[i] \in Int /\ list[j] \in Int
      <4>1. \A x \in S : x \in Int
        OBVIOUS
      <4>2. list[i] \in S /\ list[j] \in S
        OBVIOUS
      <4> QED BY <4>1, <4>2
    <3>2. list[i] < list[j] \/ list[j] < list[i]
      BY <1>2 DEF Increasing
    <3> QED BY <3>1, <3>2
  <2>2. \A x \in S : \E i \in 1 .. n : list[i] = x
    BY <1>2 DEF ToSet
  <2>3. list \in Bijection(1 .. n, S)
    BY <2>1, <2>2 DEF Bijection, Injection, Surjection, IsInjective
  <2>4. ExistsBijection(1 .. n, S)
    BY <2>3 DEF ExistsBijection
  <2>5. IsFiniteSet(1 .. n) /\ Cardinality(1 .. n) = n
    BY FS_Interval
  <2> QED BY <2>4, <2>5, FS_Bijection
<1> DEFINE IsList(l) == /\ ToSet(l) = S
                        /\ \A i, j \in DOMAIN l : i < j => l[i] < l[j]
<1>4. IsList(list) /\ list \in [1 .. Cardinality(S) -> S]
  BY <1>2, <1>3 DEF Increasing
<1>5. chosen = CHOOSE l \in [1 .. Cardinality(S) -> S] : IsList(l)
  OBVIOUS
<1> HIDE DEF IsList
<1>6. IsList(chosen)
  BY <1>4, <1>5
<1> QED BY <1>6 DEF IsList, Increasing

(***************************************************************************)
(* The locks of an operand                                                 *)
(***************************************************************************)
\* main's knobs
KnobsOK ==
  /\ num_locks \in Nat \ {0} /\ block_size \in Nat \ {0}
  /\ block_size_log \in Nat /\ block_size = Power2(block_size_log)

\* The lock of a byte.
LockOf(byte) == (byte \div block_size) % num_locks

\* lock_index and its loop give each lock of the bytes from "address" on, and
\* no other, however many blocks they straddle and though the indices wrap
\* around.
LEMMA LockIndicesAre ==
  ASSUME KnobsOK, NEW address \in Nat, NEW size \in Nat \ {0}
  PROVE  ToSet(LockIndices(address, size)) = {LockOf(b) : b \in address .. address + size - 1}
<1> DEFINE n == num_locks
           e == block_size
           last == address + size - 1
           p == address \div e
           q == last \div e
           number == q - p + 1
           to_lock == IF number > n THEN n ELSE number
<1>1. n \in Nat \ {0} /\ e \in Nat \ {0}
  BY DEF KnobsOK
<1>2. last \in Nat /\ address <= last
  OBVIOUS
<1>3. LockIndices(address, size) = [i \in 1 .. to_lock |-> ((p % n) + (i - 1)) % n]
  BY DEF KnobsOK, LockIndices, LastBlock, Block
<1> HIDE DEF n, e, last
<1>4. p \in Nat /\ q \in Nat /\ p <= q
  BY <1>1, <1>2, Division, DivisionGrows
<1>5. address < e * p + e /\ e * q <= last
  <2>1. address = e * p + (address % e) /\ address % e \in 0 .. e - 1
    BY <1>1, Division
  <2>2. last = e * q + (last % e) /\ last % e \in 0 .. e - 1
    BY <1>1, <1>2, Division
  <2> HIDE DEF p, q
  <2> DEFINE x == e * p
             y == e * q
             r == address % e
             s == last % e
  <2>3. /\ x \in Nat /\ y \in Nat /\ r \in Nat /\ s \in Nat /\ r < e
        /\ address = x + r /\ last = y + s
    BY <1>1, <1>4, <2>1, <2>2
  <2> HIDE DEF x, y, r, s
  <2>4. address < x + e /\ y <= last
    BY <1>1, <2>3
  <2> QED BY <2>4 DEF x, y
<1> HIDE DEF p, q
<1>6. /\ number \in Nat /\ to_lock \in Nat /\ to_lock <= number /\ to_lock <= n
      /\ (to_lock = n \/ to_lock = number)
  BY <1>1, <1>4
<1>7. \A k \in Nat : ((p % n) + k) % n = (p + k) % n
  BY <1>1, <1>4, ModEarly
<1> HIDE DEF number, to_lock
<1>8. ASSUME NEW i \in 1 .. to_lock
      PROVE  \E b \in address .. last : (b \div e) % n = ((p % n) + (i - 1)) % n
  <2> DEFINE k == i - 1
  <2>1. k \in Nat /\ k < number
    BY <1>6
  <2>2. number = q - p + 1
    BY DEF number
  <2> HIDE DEF k
  <2>3. p + k \in Nat /\ p + k <= q
    BY <1>4, <2>1, <2>2
  <2>4. \E b \in address .. last : b \div e = p + k
    <3>1. CASE k = 0
      <4>1. address \in address .. last /\ p + k = p
        BY <1>2, <1>4, <3>1
      <4> QED BY <4>1 DEF p
    <3>2. CASE k # 0
      <4> DEFINE b == e * (p + k)
      <4>1. b \in Nat /\ b \div e = p + k
        <5>1. b \in Nat
          BY <1>1, <2>3
        <5>2. b = e * (p + k) + 0 /\ p + k \in Int /\ 0 <= 0 /\ 0 < e
          BY <1>1, <2>3, <5>1
        <5> HIDE DEF b
        <5> QED BY <1>1, <5>1, <5>2, DivisionIs
      <4>2. e * p + e <= b
        <5>1. e * (p + 1) <= e * (p + k)
          <6>1. p + 1 <= p + k /\ p + 1 \in Nat
            BY <1>4, <2>1, <3>2
          <6> QED BY <1>1, <2>3, <6>1
        <5>2. e * (p + 1) = e * p + e
          BY <1>1, <1>4
        <5> QED BY <5>1, <5>2
      <4>3. b <= e * q
        BY <1>1, <1>4, <2>3
      <4> HIDE DEF b
      <4>4. e * p \in Nat /\ e * q \in Nat
        BY <1>1, <1>4
      <4>5. b \in address .. last
        <5> DEFINE x == e * p
                   y == e * q
        <5>1. /\ x \in Nat /\ y \in Nat /\ x + e <= b /\ b <= y /\ address < x + e /\ y <= last
          BY <1>5, <4>2, <4>3, <4>4
        <5> HIDE DEF x, y
        <5> QED BY <1>1, <1>2, <4>1, <5>1
      <4> QED BY <4>1, <4>5
    <3> QED BY <3>1, <3>2
  <2>5. ((p % n) + k) % n = (p + k) % n
    BY <1>7, <2>1
  <2> QED BY <2>4, <2>5 DEF k
<1>9. ASSUME NEW b \in address .. last
      PROVE  \E i \in 1 .. to_lock : ((p % n) + (i - 1)) % n = (b \div e) % n
  <2> DEFINE r == b \div e
             k == r - p
  <2>1. b \in Nat /\ address <= b /\ b <= last
    BY <1>2
  <2>2. r \in Nat /\ p <= r /\ r <= q
    <3>1. address \div e <= b \div e /\ b \div e <= last \div e
      BY <1>1, <1>2, <2>1, DivisionGrows
    <3> QED BY <1>1, <2>1, <3>1, Division DEF p, q
  <2> HIDE DEF r
  <2>3. k \in Nat /\ k < number /\ p + k = r
    BY <1>4, <2>2 DEF number
  <2> HIDE DEF k
  <2>4. CASE k < to_lock
    <3> DEFINE i == k + 1
    <3>1. i \in 1 .. to_lock /\ i - 1 = k
      BY <1>6, <2>3, <2>4
    <3> HIDE DEF i
    <3>2. ((p % n) + (i - 1)) % n = r % n
      BY <1>7, <2>3, <3>1
    <3> QED BY <3>1, <3>2 DEF r
  <2>5. CASE ~(k < to_lock)
    <3> DEFINE m == k % n
               i == m + 1
    <3>1. to_lock = n
      BY <1>6, <2>3, <2>5
    <3>2. m \in Nat /\ m < n
      BY <1>1, <2>3, Division
    <3> HIDE DEF m
    <3>3. i \in 1 .. to_lock /\ i - 1 = m
      BY <1>1, <3>1, <3>2
    <3> HIDE DEF i
    <3>4. ((p % n) + m) % n = (p + k) % n
      <4>1. p \in Nat /\ n \in Nat \ {0}
        BY <1>1, <1>4
      <4> QED BY <2>3, <4>1, ModTwice DEF m
    <3>5. ((p % n) + (i - 1)) % n = r % n
      BY <2>3, <3>3, <3>4
    <3> QED BY <3>3, <3>5 DEF r
  <2> QED BY <2>4, <2>5
<1> DEFINE A == ToSet(LockIndices(address, size))
           B == {LockOf(b) : b \in address .. last}
<1>10. \A x : x \in A <=> \E i \in 1 .. to_lock : x = ((p % n) + (i - 1)) % n
  BY <1>3 DEF ToSet, p, q, number, to_lock
<1>11. \A x : x \in B <=> \E b \in address .. last : x = (b \div e) % n
  BY DEF LockOf, e, n
<1>12. \A x : x \in A <=> x \in B
  BY <1>8, <1>9, <1>10, <1>11, ZenonT(60)
<1> HIDE DEF A, B
<1>13. A = B
  BY <1>12
<1> QED BY <1>13 DEF A, B, last

LEMMA LockInBank ==
  ASSUME KnobsOK, NEW b \in Nat
  PROVE  LockOf(b) \in 0 .. num_locks - 1
<1> DEFINE x == b \div block_size
<1>1. x \in Nat
  BY Division DEF KnobsOK
<1> HIDE DEF x
<1>2. x % num_locks \in 0 .. num_locks - 1
  BY <1>1, Division DEF KnobsOK
<1> QED BY <1>2 DEF LockOf, x

\* The locks of an instruction: those of its bytes, in index order.
LEMMA LockListIs ==
  ASSUME KnobsOK, NEW ops \in SUBSET Operands
  PROVE  /\ Increasing(LockList(ops))
         /\ ToSet(LockList(ops)) = {LockOf(b) : b \in Bytes(ops)}
         /\ ToSet(LockList(ops)) \subseteq 0 .. num_locks - 1
<1> DEFINE indices == UNION {ToSet(LockIndices(o.address, o.size)) : o \in ops}
           locks == {LockOf(b) : b \in Bytes(ops)}
<1>1. \A o \in ops : o.address \in Nat /\ o.size \in Nat \ {0}
  <2>1. \A o \in Operands : o.address \in 0 .. MaxAddress /\ o.size \in Sizes
    BY DEF Operands
  <2>2. (\A x \in 0 .. MaxAddress : x \in Nat) /\ (\A x \in Sizes : x \in Nat \ {0})
    BY SizesAssumption
  <2>3. \A o \in ops : o \in Operands
    OBVIOUS
  <2> QED BY <2>1, <2>2, <2>3
<1>2. \A o \in ops : ToSet(LockIndices(o.address, o.size)) =
                       {LockOf(b) : b \in o.address .. o.address + o.size - 1}
  BY <1>1, LockIndicesAre
<1>3. indices = locks
  <2> DEFINE OfOperand(o) == {LockOf(b) : b \in o.address .. o.address + o.size - 1}
  <2>1. \A x : x \in indices <=> \E o \in ops : x \in OfOperand(o)
    <3>1. \A x : x \in indices <=> \E o \in ops : x \in ToSet(LockIndices(o.address, o.size))
      OBVIOUS
    <3> QED BY <1>2, <3>1
  <2>2. \A x : x \in locks <=> \E o \in ops : x \in OfOperand(o)
    BY DEF Bytes
  <2> HIDE DEF indices, locks, OfOperand
  <2> QED BY <2>1, <2>2
<1>4. locks \in SUBSET (0 .. num_locks - 1)
  <2>1. ASSUME NEW b \in Bytes(ops) PROVE LockOf(b) \in 0 .. num_locks - 1
    <3>1. PICK o \in ops : b \in o.address .. o.address + o.size - 1
      BY DEF Bytes
    <3>2. b \in Nat
      <4>1. o.address \in Nat /\ o.size \in Nat
        BY <1>1
      <4> DEFINE x == o.address
                 y == o.size
      <4>2. x \in Nat /\ y \in Nat /\ b \in x .. x + y - 1
        BY <3>1, <4>1
      <4> HIDE DEF x, y
      <4> QED BY <4>2
    <3> QED BY <3>2, LockInBank
  <2> QED BY <2>1
<1>5. LockList(ops) = CHOOSE list \in [1 .. Cardinality(indices) -> indices] :
                        /\ ToSet(list) = indices
                        /\ \A i, j \in DOMAIN list : i < j => list[i] < list[j]
  BY DEF LockList
<1> HIDE DEF indices
<1>6. num_locks \in Nat
  BY DEF KnobsOK
<1> DEFINE chosen == LockList(ops)
<1> HIDE DEF chosen, locks
<1>7. Increasing(chosen) /\ ToSet(chosen) = indices
  <2>1. indices \in SUBSET (0 .. num_locks - 1)
    BY <1>3, <1>4
  <2>2. chosen = CHOOSE list \in [1 .. Cardinality(indices) -> indices] :
                   /\ ToSet(list) = indices
                   /\ \A i, j \in DOMAIN list : i < j => list[i] < list[j]
    BY <1>5 DEF chosen
  <2> QED BY <1>6, <2>1, <2>2, ListIs
<1> QED BY <1>3, <1>4, <1>7 DEF chosen, locks

(***************************************************************************)
(* The inductive invariant                                                 *)
(***************************************************************************)
Steps == {"idle", "operands", "acquire", "footer", "execute", "cas_footer"}

MemTypes ==
  /\ KnobsOK /\ num_locks \in 1 .. MaxKnob /\ block_size \in 1 .. MaxKnob
  /\ log_cas_fails \in BOOLEAN
  /\ pc \in [Threads -> Steps]
  /\ instr \in [Threads -> [ops : SUBSET Operands, cas : BOOLEAN]]
  /\ stored \in [Threads -> BOOLEAN] /\ trace_this_access \in [Threads -> BOOLEAN]
  /\ operands \in [Threads -> SUBSET Operands] /\ line \in [Threads -> SUBSET Operands]
  /\ DOMAIN index_lock_list = Threads
  /\ address_lock \in [0 .. num_locks - 1 -> Threads \cup {Nobody}]

\* A thread owns the locks in its list, which is in order.
OwnsList(t) ==
  /\ Increasing(index_lock_list[t])
  /\ \A l \in ToSet(index_lock_list[t]) : l \in 0 .. num_locks - 1 /\ address_lock[l] = t

\* The routines have noted the operands of the instruction, and then the list
\* is that of its bytes.
NotesAccess(t) ==
  /\ pc[t] = "operands" => operands[t] = {}
  /\ pc[t] \in {"acquire"} \cup Protected /\ trace_this_access[t] => operands[t] = instr[t].ops
  /\ pc[t] \in Protected /\ trace_this_access[t] =>
       ToSet(index_lock_list[t]) = {LockOf(b) : b \in Bytes(instr[t].ops)}

\* Before the instruction the line has its operands, unless it comes after.
WritesLine(t) ==
  /\ stored[t] \/ instr[t].cas
  /\ pc[t] = "cas_footer" => TracedAfter(t)
  /\ pc[t] = "execute" /\ trace_this_access[t] /\ ~TracedAfter(t) => line[t] = instr[t].ops
  /\ pc[t] = "idle" /\ trace_this_access[t] =>
       line[t] = {o \in instr[t].ops : o.role = "w" => stored[t] \/ log_cas_fails}

MemInv == MemTypes /\ \A t \in Threads : OwnsList(t) /\ NotesAccess(t) /\ WritesLine(t)

\* The other threads keep what is theirs.
OthersKeep(t) ==
  \A u \in Threads \ {t} :
    /\ pc'[u] = pc[u] /\ instr'[u] = instr[u] /\ stored'[u] = stored[u]
    /\ trace_this_access'[u] = trace_this_access[u] /\ operands'[u] = operands[u]
    /\ index_lock_list'[u] = index_lock_list[u] /\ line'[u] = line[u]
    /\ \A l \in ToSet(index_lock_list[u]) : address_lock'[l] = address_lock[l]

\* A step of a thread has only its own part of the invariant to keep.
LEMMA OwnPart ==
  ASSUME MemInv, NEW t \in Threads, UNCHANGED knobs, MemTypes', OthersKeep(t),
         OwnsList(t)', NotesAccess(t)', WritesLine(t)'
  PROVE  MemInv'
<1>1. ASSUME NEW u \in Threads, u # t
      PROVE  OwnsList(u)' /\ NotesAccess(u)' /\ WritesLine(u)'
  <2>1. OwnsList(u) /\ NotesAccess(u) /\ WritesLine(u)
    BY DEF MemInv
  <2>2. /\ num_locks' = num_locks /\ block_size' = block_size
        /\ block_size_log' = block_size_log /\ log_cas_fails' = log_cas_fails
    BY DEF knobs
  <2>3. /\ pc'[u] = pc[u] /\ instr'[u] = instr[u] /\ stored'[u] = stored[u]
        /\ trace_this_access'[u] = trace_this_access[u] /\ operands'[u] = operands[u]
        /\ index_lock_list'[u] = index_lock_list[u] /\ line'[u] = line[u]
        /\ \A l \in ToSet(index_lock_list[u]) : address_lock'[l] = address_lock[l]
    BY <1>1 DEF OthersKeep
  <2>4. OwnsList(u)'
    BY <2>1, <2>2, <2>3 DEF OwnsList
  <2>5. NotesAccess(u)'
    BY <2>1, <2>2, <2>3 DEF NotesAccess, LockOf
  <2>6. WritesLine(u)'
    BY <2>1, <2>2, <2>3 DEF WritesLine, TracedAfter
  <2> QED BY <2>4, <2>5, <2>6
<1> QED BY <1>1 DEF MemInv

\* release_address_locks leaves the thread without locks, and the others with
\* theirs.
LEMMA ReleaseStep ==
  ASSUME MemInv, NEW t \in Threads, ReleaseLocks(t), UNCHANGED knobs
  PROVE  /\ OwnsList(t)' /\ DOMAIN index_lock_list' = Threads
         /\ address_lock' \in [0 .. num_locks - 1 -> Threads \cup {Nobody}]
         /\ \A u \in Threads \ {t} :
              /\ index_lock_list'[u] = index_lock_list[u]
              /\ \A l \in ToSet(index_lock_list[u]) : address_lock'[l] = address_lock[l]
<1>1. /\ DOMAIN index_lock_list = Threads
      /\ address_lock \in [0 .. num_locks - 1 -> Threads \cup {Nobody}]
  BY DEF MemInv, MemTypes
<1>2. /\ address_lock' = [l \in 0 .. num_locks - 1 |->
                            IF l \in ToSet(index_lock_list[t]) THEN Nobody ELSE address_lock[l]]
      /\ index_lock_list' = [index_lock_list EXCEPT ![t] = <<>>]
  BY <1>1 DEF ReleaseLocks, Released
<1>3. index_lock_list'[t] = <<>> /\ DOMAIN index_lock_list' = Threads
  BY <1>1, <1>2
<1>4. OwnsList(t)'
  <2>1. DOMAIN <<>> = {}
    OBVIOUS
  <2> QED BY <1>3, <2>1 DEF OwnsList, Increasing, ToSet
<1>5. address_lock' \in [0 .. num_locks - 1 -> Threads \cup {Nobody}]
  BY <1>1, <1>2
<1>6. ASSUME NEW u \in Threads \ {t}
      PROVE  /\ index_lock_list'[u] = index_lock_list[u]
             /\ \A l \in ToSet(index_lock_list[u]) : address_lock'[l] = address_lock[l]
  <2>1. index_lock_list'[u] = index_lock_list[u]
    BY <1>1, <1>2
  <2>2. ASSUME NEW l \in ToSet(index_lock_list[u]) PROVE address_lock'[l] = address_lock[l]
    <3>1. l \in 0 .. num_locks - 1 /\ address_lock[l] = u
      BY DEF MemInv, OwnsList
    <3>2. l \notin ToSet(index_lock_list[t])
      BY <3>1 DEF MemInv, OwnsList
    <3> QED BY <1>2, <3>1, <3>2
  <2> QED BY <2>1, <2>2
<1> QED BY <1>3, <1>4, <1>5, <1>6

\* The types that a step which leaves the locks alone has to keep.
LEMMA KnobsStay ==
  ASSUME MemInv, UNCHANGED knobs
  PROVE  /\ KnobsOK' /\ (num_locks \in 1 .. MaxKnob)' /\ (block_size \in 1 .. MaxKnob)'
         /\ (log_cas_fails \in BOOLEAN)'
         /\ num_locks' = num_locks /\ block_size' = block_size /\ log_cas_fails' = log_cas_fails
  BY DEF MemInv, MemTypes, KnobsOK, knobs

LEMMA ReleaseKeeps ==
  ASSUME MemInv, NEW t \in Threads, Release(t)
  PROVE  MemInv'
<1>1. /\ UNCHANGED knobs /\ ReleaseLocks(t) /\ pc[t] = "idle"
      /\ UNCHANGED <<pc, instr, stored, trace_this_access, operands, line>>
  BY DEF Release
<1>2. /\ OwnsList(t)' /\ DOMAIN index_lock_list' = Threads
      /\ address_lock' \in [0 .. num_locks - 1 -> Threads \cup {Nobody}]
      /\ \A u \in Threads \ {t} :
           /\ index_lock_list'[u] = index_lock_list[u]
           /\ \A l \in ToSet(index_lock_list[u]) : address_lock'[l] = address_lock[l]
  BY <1>1, ReleaseStep
<1>3. MemTypes'
  BY <1>1, <1>2, KnobsStay DEF MemInv, MemTypes
<1>4. OthersKeep(t)
  BY <1>1, <1>2 DEF OthersKeep
<1>5. NotesAccess(t)'
  BY <1>1 DEF MemInv, NotesAccess, Protected
<1>6. WritesLine(t)'
  BY <1>1, KnobsStay DEF MemInv, WritesLine
<1> QED BY <1>1, <1>2, <1>3, <1>4, <1>5, <1>6, OwnPart

LEMMA HeaderKeeps ==
  ASSUME MemInv, NEW t \in Threads, NEW ops \in Instructions, NEW cas \in BOOLEAN,
         NEW traced \in BOOLEAN, Header(t, ops, cas, traced)
  PROVE  MemInv'
<1>1. /\ UNCHANGED knobs /\ ReleaseLocks(t)
      /\ instr' = [instr EXCEPT ![t] = [ops |-> ops, cas |-> cas]]
      /\ trace_this_access' = [trace_this_access EXCEPT ![t] = traced]
      /\ operands' = [operands EXCEPT ![t] = {}]
      /\ stored' = [stored EXCEPT ![t] = TRUE]
      /\ line' = [line EXCEPT ![t] = {}]
      /\ pc' = [pc EXCEPT ![t] = "operands"]
  BY DEF Header
<1>2. /\ OwnsList(t)' /\ DOMAIN index_lock_list' = Threads
      /\ address_lock' \in [0 .. num_locks - 1 -> Threads \cup {Nobody}]
      /\ \A u \in Threads \ {t} :
           /\ index_lock_list'[u] = index_lock_list[u]
           /\ \A l \in ToSet(index_lock_list[u]) : address_lock'[l] = address_lock[l]
  BY <1>1, ReleaseStep
<1>3. /\ pc \in [Threads -> Steps]
      /\ instr \in [Threads -> [ops : SUBSET Operands, cas : BOOLEAN]]
      /\ stored \in [Threads -> BOOLEAN] /\ trace_this_access \in [Threads -> BOOLEAN]
      /\ operands \in [Threads -> SUBSET Operands] /\ line \in [Threads -> SUBSET Operands]
  BY DEF MemInv, MemTypes
<1>4. ops \in SUBSET Operands
  BY DEF Instructions
<1>5. MemTypes'
  <2>1. instr' \in [Threads -> [ops : SUBSET Operands, cas : BOOLEAN]]
    BY <1>1, <1>3, <1>4
  <2>2. /\ pc' \in [Threads -> Steps]
        /\ stored' \in [Threads -> BOOLEAN] /\ trace_this_access' \in [Threads -> BOOLEAN]
        /\ operands' \in [Threads -> SUBSET Operands] /\ line' \in [Threads -> SUBSET Operands]
    BY <1>1, <1>3 DEF Steps
  <2> QED BY <1>1, <1>2, <2>1, <2>2, KnobsStay DEF MemTypes
<1>6. OthersKeep(t)
  BY <1>1, <1>2, <1>3 DEF OthersKeep
<1>7. pc'[t] = "operands" /\ operands'[t] = {} /\ stored'[t] = TRUE
  BY <1>1, <1>3
<1>8. NotesAccess(t)'
  BY <1>7 DEF NotesAccess, Protected
<1>9. WritesLine(t)'
  BY <1>7 DEF WritesLine
<1> QED BY <1>1, <1>2, <1>5, <1>6, <1>8, <1>9, OwnPart

\* The steps that leave locks and lists alone.
LEMMA OwnsStay ==
  ASSUME MemInv, NEW t \in Threads, UNCHANGED <<knobs, index_lock_list, address_lock>>
  PROVE  OwnsList(t)'
<1>1. OwnsList(t)
  BY DEF MemInv
<1> QED BY <1>1, KnobsStay DEF OwnsList

LEMMA NoteOperandsKeeps ==
  ASSUME MemInv, NEW t \in Threads, NoteOperands(t)
  PROVE  MemInv'
<1>1. /\ UNCHANGED knobs /\ pc[t] = "operands"
      /\ operands' = [operands EXCEPT ![t] =
           IF trace_this_access[t]
           THEN instr[t].ops \cup {o \in operands[t] : \A p \in instr[t].ops : o.role # p.role}
           ELSE operands[t]]
      /\ pc' = [pc EXCEPT ![t] = "acquire"]
      /\ UNCHANGED <<instr, stored, trace_this_access, index_lock_list, address_lock, line>>
  BY DEF NoteOperands
<1>2. /\ pc \in [Threads -> Steps] /\ operands \in [Threads -> SUBSET Operands]
      /\ instr[t].ops \in SUBSET Operands
  BY DEF MemInv, MemTypes
<1>3. operands[t] = {}
  BY <1>1 DEF MemInv, NotesAccess
<1>4. operands' = [operands EXCEPT ![t] = IF trace_this_access[t] THEN instr[t].ops ELSE {}]
  BY <1>1, <1>3
<1>5. MemTypes'
  <2>1. operands' \in [Threads -> SUBSET Operands]
    BY <1>2, <1>4
  <2>2. pc' \in [Threads -> Steps]
    BY <1>1, <1>2 DEF Steps
  <2> QED BY <1>1, <2>1, <2>2, KnobsStay DEF MemInv, MemTypes
<1>6. OthersKeep(t)
  BY <1>1, <1>2, <1>4 DEF OthersKeep
<1>7. pc'[t] = "acquire" /\ (trace_this_access[t] => operands'[t] = instr[t].ops)
  BY <1>1, <1>2, <1>4
<1>8. NotesAccess(t)'
  BY <1>1, <1>7 DEF NotesAccess, Protected
<1>9. WritesLine(t)'
  BY <1>1, <1>7 DEF MemInv, WritesLine
<1> QED BY <1>1, <1>5, <1>6, <1>8, <1>9, OwnsStay, OwnPart

LEMMA AcquireKeeps ==
  ASSUME MemInv, NEW t \in Threads, AcquireLocks(t)
  PROVE  MemInv'
<1> DEFINE list == IF trace_this_access[t] THEN LockList(operands[t]) ELSE <<>>
<1>1. /\ UNCHANGED knobs /\ pc[t] = "acquire"
      /\ \A l \in ToSet(list) : address_lock[l] = Nobody
      /\ index_lock_list' = [index_lock_list EXCEPT ![t] = list]
      /\ address_lock' = [l \in DOMAIN address_lock |->
                            IF l \in ToSet(list) THEN t ELSE address_lock[l]]
      /\ pc' = [pc EXCEPT ![t] = IF TracedAfter(t) THEN "execute" ELSE "footer"]
      /\ UNCHANGED <<instr, stored, trace_this_access, operands, line>>
  BY DEF AcquireLocks
<1>2. /\ pc \in [Threads -> Steps] /\ DOMAIN index_lock_list = Threads /\ KnobsOK
      /\ address_lock \in [0 .. num_locks - 1 -> Threads \cup {Nobody}]
      /\ operands[t] \in SUBSET Operands
  BY DEF MemInv, MemTypes
<1>3. /\ Increasing(list) /\ ToSet(list) \subseteq 0 .. num_locks - 1
      /\ trace_this_access[t] => ToSet(list) = {LockOf(b) : b \in Bytes(operands[t])}
  <2>1. DOMAIN <<>> = {}
    OBVIOUS
  <2>2. Increasing(<<>>) /\ ToSet(<<>>) = {}
    BY <2>1 DEF Increasing, ToSet
  <2> QED BY <1>2, <2>2, LockListIs
<1> HIDE DEF list
<1>4. MemTypes'
  <2>1. pc' \in [Threads -> Steps]
    BY <1>1, <1>2 DEF Steps
  <2>2. address_lock' \in [0 .. num_locks - 1 -> Threads \cup {Nobody}]
    BY <1>1, <1>2
  <2>3. DOMAIN index_lock_list' = Threads
    BY <1>1, <1>2
  <2> QED BY <1>1, <2>1, <2>2, <2>3, KnobsStay DEF MemInv, MemTypes
<1>5. OthersKeep(t)
  <2>1. ASSUME NEW u \in Threads \ {t}, NEW l \in ToSet(index_lock_list[u])
        PROVE  address_lock'[l] = address_lock[l]
    <3>1. l \in 0 .. num_locks - 1 /\ address_lock[l] = u
      BY DEF MemInv, OwnsList
    <3>2. l \notin ToSet(list)
      BY <1>1, <3>1, NobodyAssumption
    <3> QED BY <1>1, <1>2, <3>1, <3>2
  <2> QED BY <1>1, <1>2, <2>1 DEF OthersKeep
<1>6. index_lock_list'[t] = list /\ pc'[t] = IF TracedAfter(t) THEN "execute" ELSE "footer"
  BY <1>1, <1>2
<1>7. OwnsList(t)'
  <2>1. \A l \in ToSet(list) : l \in 0 .. num_locks - 1 /\ address_lock'[l] = t
    BY <1>1, <1>2, <1>3
  <2> QED BY <1>1, <1>3, <1>6, <2>1, KnobsStay DEF OwnsList
<1>8. NotesAccess(t)'
  <2>1. trace_this_access[t] => operands[t] = instr[t].ops
    BY <1>1 DEF MemInv, NotesAccess
  <2>2. \A b : LockOf(b)' = LockOf(b)
    BY <1>1, KnobsStay DEF LockOf
  <2>3. trace_this_access[t] => ToSet(list) = {LockOf(b) : b \in Bytes(instr[t].ops)}
    BY <1>3, <2>1
  <2>4. trace_this_access[t] => ToSet(list) = {LockOf(b)' : b \in Bytes(instr[t].ops)}
    BY <2>2, <2>3
  <2> QED BY <1>1, <1>6, <2>1, <2>4 DEF NotesAccess
<1>9. WritesLine(t)'
  <2>1. pc'[t] \in {"execute", "footer"} /\ (pc'[t] = "execute" => TracedAfter(t))
    BY <1>6
  <2>2. TracedAfter(t)' <=> TracedAfter(t)
    BY <1>1, KnobsStay DEF TracedAfter
  <2>3. stored[t] \/ instr[t].cas
    BY DEF MemInv, WritesLine
  <2> QED BY <1>1, <2>1, <2>2, <2>3 DEF WritesLine
<1> QED BY <1>1, <1>4, <1>5, <1>7, <1>8, <1>9, OwnPart

LEMMA FooterKeeps ==
  ASSUME MemInv, NEW t \in Threads, Footer(t)
  PROVE  MemInv'
<1>1. /\ UNCHANGED knobs /\ pc[t] = "footer"
      /\ line' = [line EXCEPT ![t] = IF trace_this_access[t] THEN operands[t] ELSE {}]
      /\ pc' = [pc EXCEPT ![t] = "execute"]
      /\ UNCHANGED <<instr, stored, trace_this_access, operands, index_lock_list, address_lock>>
  BY DEF Footer, TraceLine
<1>2. /\ pc \in [Threads -> Steps] /\ line \in [Threads -> SUBSET Operands]
      /\ operands[t] \in SUBSET Operands
  BY DEF MemInv, MemTypes
<1>3. MemTypes'
  <2>1. pc' \in [Threads -> Steps] /\ line' \in [Threads -> SUBSET Operands]
    BY <1>1, <1>2 DEF Steps
  <2> QED BY <1>1, <2>1, KnobsStay DEF MemInv, MemTypes
<1>4. OthersKeep(t)
  BY <1>1, <1>2 DEF OthersKeep
<1>5. pc'[t] = "execute" /\ (trace_this_access[t] => line'[t] = operands[t])
  BY <1>1, <1>2
<1>6. NotesAccess(t)
  BY DEF MemInv
<1>7. NotesAccess(t)'
  BY <1>1, <1>5, <1>6, KnobsStay DEF NotesAccess, Protected, LockOf
<1>8. trace_this_access[t] => operands[t] = instr[t].ops
  BY <1>1, <1>6 DEF NotesAccess, Protected
<1>9. WritesLine(t)'
  <2>1. stored[t] \/ instr[t].cas
    BY DEF MemInv, WritesLine
  <2> QED BY <1>1, <1>5, <1>8, <2>1 DEF WritesLine
<1> QED BY <1>1, <1>3, <1>4, <1>7, <1>9, OwnsStay, OwnPart

LEMMA ExecuteKeeps ==
  ASSUME MemInv, NEW t \in Threads, Execute(t)
  PROVE  MemInv'
<1>1. PICK success \in BOOLEAN :
        (success \/ instr[t].cas) /\ stored' = [stored EXCEPT ![t] = success]
  BY DEF Execute
<1>2. /\ UNCHANGED knobs /\ pc[t] = "execute"
      /\ pc' = [pc EXCEPT ![t] = IF TracedAfter(t) THEN "cas_footer" ELSE "idle"]
      /\ UNCHANGED <<instr, trace_this_access, operands, index_lock_list, address_lock, line>>
  BY DEF Execute
<1>3. pc \in [Threads -> Steps] /\ stored \in [Threads -> BOOLEAN]
  BY DEF MemInv, MemTypes
<1>4. MemTypes'
  <2>1. pc' \in [Threads -> Steps] /\ stored' \in [Threads -> BOOLEAN]
    BY <1>1, <1>2, <1>3 DEF Steps
  <2> QED BY <1>2, <2>1, KnobsStay DEF MemInv, MemTypes
<1>5. OthersKeep(t)
  BY <1>1, <1>2, <1>3 DEF OthersKeep
<1>6. pc'[t] = (IF TracedAfter(t) THEN "cas_footer" ELSE "idle") /\ stored'[t] = success
  BY <1>1, <1>2, <1>3
<1>7. NotesAccess(t) /\ WritesLine(t)
  BY DEF MemInv
<1>8. NotesAccess(t)'
  BY <1>2, <1>6, <1>7, KnobsStay DEF NotesAccess, Protected, LockOf
<1>9. WritesLine(t)'
  <2>1. TracedAfter(t)' <=> TracedAfter(t)
    BY <1>2, KnobsStay DEF TracedAfter
  <2>2. CASE TracedAfter(t)
    BY <1>1, <1>2, <1>6, <2>1, <2>2 DEF WritesLine
  <2>3. CASE ~TracedAfter(t)
    <3>1. trace_this_access[t] => line[t] = instr[t].ops
      BY <1>2, <1>7, <2>3 DEF WritesLine
    <3>2. success \/ log_cas_fails
      BY <1>1, <2>3 DEF TracedAfter
    <3>3. {o \in instr[t].ops : o.role = "w" => success \/ log_cas_fails} = instr[t].ops
      BY <3>2
    <3>4. log_cas_fails' = log_cas_fails /\ pc'[t] = "idle"
      BY <1>2, <1>6, <2>3, KnobsStay
    <3> QED BY <1>1, <1>2, <1>6, <3>1, <3>3, <3>4 DEF WritesLine
  <2> QED BY <2>2, <2>3
<1> QED BY <1>2, <1>4, <1>5, <1>8, <1>9, OwnsStay, OwnPart

LEMMA CASFooterKeeps ==
  ASSUME MemInv, NEW t \in Threads, CASFooter(t)
  PROVE  MemInv'
<1> DEFINE ops == IF stored[t] THEN operands[t] ELSE {o \in operands[t] : o.role # "w"}
<1>1. /\ pc \in [Threads -> Steps] /\ line \in [Threads -> SUBSET Operands]
      /\ operands \in [Threads -> SUBSET Operands]
  BY DEF MemInv, MemTypes
<1>2. /\ UNCHANGED knobs /\ pc[t] = "cas_footer"
      /\ operands' = [operands EXCEPT ![t] = ops]
      /\ pc' = [pc EXCEPT ![t] = "idle"]
      /\ UNCHANGED <<instr, stored, trace_this_access, index_lock_list, address_lock>>
  BY DEF CASFooter
<1>3. line' = [line EXCEPT ![t] = IF trace_this_access[t] THEN ops ELSE {}]
  <2>1. line' = [line EXCEPT ![t] = IF trace_this_access[t] THEN operands'[t] ELSE {}]
    BY DEF CASFooter, TraceLine
  <2>2. operands'[t] = ops
    BY <1>1, <1>2
  <2> QED BY <2>1, <2>2
<1>4. ops \in SUBSET Operands
  BY <1>1
<1>5. NotesAccess(t) /\ WritesLine(t)
  BY DEF MemInv
<1>6. trace_this_access[t] => operands[t] = instr[t].ops
  BY <1>2, <1>5 DEF NotesAccess, Protected
<1>7. log_cas_fails = FALSE
  BY <1>2, <1>5 DEF WritesLine, TracedAfter, MemInv, MemTypes
<1>8. trace_this_access[t] => ops = {o \in instr[t].ops : o.role = "w" => stored[t]}
  BY <1>6
<1> HIDE DEF ops
<1>9. MemTypes'
  <2>1. /\ pc' \in [Threads -> Steps] /\ line' \in [Threads -> SUBSET Operands]
        /\ operands' \in [Threads -> SUBSET Operands]
    BY <1>1, <1>2, <1>3, <1>4 DEF Steps
  <2> QED BY <1>2, <2>1, KnobsStay DEF MemInv, MemTypes
<1>10. OthersKeep(t)
  BY <1>1, <1>2, <1>3 DEF OthersKeep
<1>11. pc'[t] = "idle" /\ (trace_this_access[t] => line'[t] = ops)
  BY <1>1, <1>2, <1>3
<1>12. NotesAccess(t)'
  BY <1>11 DEF NotesAccess, Protected
<1>13. WritesLine(t)'
  <2>1. stored[t] \/ instr[t].cas
    BY <1>5 DEF WritesLine
  <2>2. log_cas_fails' = FALSE
    BY <1>2, <1>7, KnobsStay
  <2>3. trace_this_access[t] =>
          line'[t] = {o \in instr[t].ops : o.role = "w" => stored[t] \/ log_cas_fails'}
    BY <1>8, <1>11, <2>2
  <2> QED BY <1>2, <1>11, <2>1, <2>3 DEF WritesLine
<1> QED BY <1>2, <1>9, <1>10, <1>12, <1>13, OwnsStay, OwnPart

LEMMA MemInvInit == Init => MemInv
<1> SUFFICES ASSUME Init PROVE MemInv
  OBVIOUS
<1>1. /\ num_locks \in 0 .. MaxKnob /\ is_power_2(num_locks)
      /\ block_size \in 0 .. MaxKnob /\ is_power_2(block_size)
      /\ block_size_log = binary_log(block_size) /\ log_cas_fails \in BOOLEAN
      /\ pc = [t \in Threads |-> "idle"]
      /\ instr = [t \in Threads |-> [ops |-> {}, cas |-> FALSE]]
      /\ stored = [t \in Threads |-> TRUE]
      /\ trace_this_access = [t \in Threads |-> FALSE]
      /\ operands = [t \in Threads |-> {}]
      /\ index_lock_list = [t \in Threads |-> <<>>]
      /\ address_lock = [l \in 0 .. num_locks - 1 |-> Nobody]
      /\ line = [t \in Threads |-> {}]
  BY DEF Init
<1>2. /\ num_locks \in 1 .. MaxKnob /\ block_size \in 1 .. MaxKnob
      /\ num_locks \in Nat \ {0} /\ block_size \in Nat \ {0}
  BY <1>1, KnobAssumption DEF is_power_2
<1>3. KnobsOK
  <2>1. block_size_log \in Nat /\ block_size = Power2(block_size_log)
    BY <1>1, <1>2, KnobsFit
  <2> QED BY <1>2, <2>1 DEF KnobsOK
<1>4. MemTypes
  <2>1. instr \in [Threads -> [ops : SUBSET Operands, cas : BOOLEAN]]
    BY <1>1
  <2>2. /\ pc \in [Threads -> Steps]
        /\ stored \in [Threads -> BOOLEAN] /\ trace_this_access \in [Threads -> BOOLEAN]
        /\ operands \in [Threads -> SUBSET Operands] /\ line \in [Threads -> SUBSET Operands]
        /\ DOMAIN index_lock_list = Threads
        /\ address_lock \in [0 .. num_locks - 1 -> Threads \cup {Nobody}]
    BY <1>1 DEF Steps
  <2> QED BY <1>1, <1>2, <1>3, <2>1, <2>2 DEF MemTypes
<1>5. ASSUME NEW t \in Threads PROVE OwnsList(t) /\ NotesAccess(t) /\ WritesLine(t)
  <2>1. /\ pc[t] = "idle" /\ trace_this_access[t] = FALSE /\ stored[t] = TRUE
        /\ index_lock_list[t] = <<>>
    BY <1>1
  <2>2. DOMAIN <<>> = {}
    OBVIOUS
  <2>3. OwnsList(t)
    BY <2>1, <2>2 DEF OwnsList, Increasing, ToSet
  <2> QED BY <2>1, <2>3 DEF NotesAccess, WritesLine, Protected
<1> QED BY <1>4, <1>5 DEF MemInv

LEMMA MemInvStep == MemInv /\ [Next]_vars => MemInv'
<1> SUFFICES ASSUME MemInv, [Next]_vars PROVE MemInv'
  OBVIOUS
<1>1. CASE Next
  <2> SUFFICES ASSUME NEW t \in Threads,
                      \/ Release(t)
                      \/ \E ops \in Instructions, cas, traced \in BOOLEAN : Header(t, ops, cas, traced)
                      \/ NoteOperands(t) \/ AcquireLocks(t) \/ Footer(t) \/ Execute(t)
                      \/ CASFooter(t)
               PROVE  MemInv'
    BY <1>1 DEF Next
  <2>1. CASE \E ops \in Instructions, cas, traced \in BOOLEAN : Header(t, ops, cas, traced)
    BY <2>1, HeaderKeeps
  <2> QED BY <2>1, ReleaseKeeps, NoteOperandsKeeps, AcquireKeeps, FooterKeeps, ExecuteKeeps,
             CASFooterKeeps
<1>2. CASE UNCHANGED vars
  BY <1>2 DEF vars, knobs, MemInv, MemTypes, KnobsOK, OwnsList, NotesAccess, WritesLine,
              TracedAfter, LockOf
<1> QED BY <1>1, <1>2

(***************************************************************************)
(* The theorems                                                            *)
(***************************************************************************)
\* The routines keep their types, and the size of a block is the power of 2 by
\* which main lets addresses be shifted.
THEOREM TypeCorrect == Spec => []TypeOK
<1>1. MemInv => TypeOK
  <2> SUFFICES ASSUME MemInv PROVE TypeOK
    OBVIOUS
  <2>1. \A t \in Threads : /\ operands[t] \subseteq Operands /\ line[t] \subseteq Operands
                           /\ ToSet(index_lock_list[t]) \subseteq 0 .. num_locks - 1
    BY DEF MemInv, MemTypes, OwnsList
  <2> QED BY <2>1 DEF MemInv, MemTypes, TypeOK, KnobsOK, Steps
<1> QED BY <1>1, MemInvInit, MemInvStep, PTL DEF Spec

\* Two traced instructions that touch a common byte are never under way
\* together, whatever blocks they straddle and however few locks there are
\* (memory_access_acquire_locks_a and release_address_locks).
THEOREM AccessesExclude == Spec => []ConflictsExclude
<1>1. MemInv => ConflictsExclude
  <2> SUFFICES ASSUME MemInv, NEW t \in Threads, NEW u \in Threads, t # u,
                      pc[t] \in Protected, trace_this_access[t],
                      pc[u] \in Protected, trace_this_access[u],
                      NEW b \in Bytes(instr[t].ops), b \in Bytes(instr[u].ops)
               PROVE  FALSE
    BY DEF ConflictsExclude
  <2>1. /\ ToSet(index_lock_list[t]) = {LockOf(x) : x \in Bytes(instr[t].ops)}
        /\ ToSet(index_lock_list[u]) = {LockOf(x) : x \in Bytes(instr[u].ops)}
    BY DEF MemInv, NotesAccess
  <2>2. LockOf(b) \in ToSet(index_lock_list[t]) /\ LockOf(b) \in ToSet(index_lock_list[u])
    BY <2>1
  <2>3. address_lock[LockOf(b)] = t /\ address_lock[LockOf(b)] = u
    BY <2>2 DEF MemInv, OwnsList
  <2> QED BY <2>3
<1> QED BY <1>1, MemInvInit, MemInvStep, PTL DEF Spec

\* The list of an instruction names each lock once, in index order, so that no
\* two threads wait for each other; and exactly the locks of the blocks that
\* the instruction touches (lock_index and acquire_address_locks).
THEOREM LocksAreExact == Spec => []LocksFitInstruction
<1>1. MemInv => LocksFitInstruction
  BY DEF MemInv, OwnsList, Increasing, NotesAccess, LockOf, LocksFitInstruction
<1> QED BY <1>1, MemInvInit, MemInvStep, PTL DEF Spec

\* The line of an instruction tells its reads, and its write if that happened
\* or if failed compare-and-swaps count (memory_access_footer_a and
\* memory_access_CAS_footer_a).
THEOREM LineIsAccess == Spec => []LineTellsAccess
<1>1. MemInv => LineTellsAccess
  BY DEF MemInv, WritesLine, LineTellsAccess
<1> QED BY <1>1, MemInvInit, MemInvStep, PTL DEF Spec
=============================================================================
