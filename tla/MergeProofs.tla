----------------------------- MODULE MergeProofs -----------------------------
(***************************************************************************)
(* Theorems about the merge utility and its test, for every file the       *)
(* pintool may write (TraceContract) and every beginning of one.           *)
(***************************************************************************)
EXTENDS MergeTest, FiniteSetTheorems, SequenceTheorems, WellFoundedInduction, TLAPS

Ids == Tids \cup {Unregistered}

(***************************************************************************)
(* The inductive invariant                                                 *)
(***************************************************************************)
\* A thread finishes once each time it registers.
Paired(file, tid) ==
  \/ Contract!Count(file, tid, "tr") = Contract!Count(file, tid, "tf")
  \/ Contract!Count(file, tid, "tr") = Contract!Count(file, tid, "tf") + 1

\* What the utility counts and times is what the file shows.
ActiveInv ==
  /\ trace \in Seq(Lines)
  /\ \A tid \in Ids : Paired(trace, tid)
  /\ DOMAIN tt_list = Contract!ActiveIn(trace)
  /\ \A tid \in DOMAIN tt_list : tt_list[tid] = Contract!LastOf(trace, tid)
  /\ IsFiniteSet(DOMAIN tt_list) /\ active_threads = Cardinality(DOMAIN tt_list)

CacheInv ==
  /\ safe_cache \in Nat
  /\ DOMAIN tt_list # {} => IsLeast(safe_cache, {tt_list[tid] : tid \in DOMAIN tt_list})

\* A queue has lines of its thread in the order of their times, none later
\* than the file shows; it is finished only once its thread is.
QueueOK(file, tid, q) ==
  /\ q \in [entries : Seq(Lines), max_timestamp : Nat, finished : BOOLEAN]
  /\ q.max_timestamp <= Contract!LastOf(file, tid)
  /\ q.finished => tid \notin Contract!ActiveIn(file) /\ Contract!Count(file, tid, "tr") > 0
  /\ \A i \in DOMAIN q.entries :
       /\ q.entries[i].tid = tid
       /\ q.entries[i].time <= Contract!LastOf(file, tid)
       /\ \A j \in DOMAIN q.entries : j < i => q.entries[j].time < q.entries[i].time

QueueInv ==
  /\ DOMAIN queues \subseteq Ids
  /\ \A tid \in DOMAIN queues : QueueOK(trace, tid, queues[tid])

\* The head of each queue that has one, as the heap holds it.
HeadsOf(qs) ==
  {<<Head(qs[tid].entries).time, tid>> : tid \in {x \in DOMAIN qs : qs[x].entries # <<>>}}

\* What is written is not later than what is queued, nor than the frontier.
OutInv ==
  /\ out \in Seq(Lines)
  /\ \A i \in DOMAIN out :
       /\ out[i].time <= Contract!Frontier(trace)
       /\ \A line \in Queued : out[i].time <= line.time

\* What is still queued when the next line is read.
RestInv ==
  /\ pc \in {"read", "merge", "failed", "left", "done"}
  /\ pc = "read" /\ Contract!ActiveIn(trace) = {} => Queued = {}
  /\ pc = "left" => Contract!ActiveIn(trace) # {}
  /\ pc = "done" => Queued = {}
  /\ pc = "read" /\ trace # <<>> /\ trace[Len(trace)].what # "thread_sync" =>
       \A line \in Queued : line.time > Contract!Frontier(trace)

MergeInv ==
  /\ ActiveInv /\ CacheInv
  /\ DOMAIN queues \subseteq Ids /\ Queued \subseteq Lines /\ out \in Seq(Lines)
  /\ RestInv
  /\ pc # "failed" => QueueInv /\ HeapHasHeads /\ OutInv

(***************************************************************************)
(* Bags and functions                                                      *)
(***************************************************************************)
LEMMA BagAdd ==
  ASSUME NEW S, NEW e, e \notin S
  PROVE  SetToBag(S) (+) SetToBag({e}) = SetToBag(S \cup {e})
  BY DEF SetToBag, (+)

LEMMA BagRemove ==
  ASSUME NEW S, NEW e \in S
  PROVE  SetToBag(S) (-) SetToBag({e}) = SetToBag(S \ {e})
<1> DEFINE B == [x \in S |-> IF x = e THEN 0 ELSE 1]
<1>1. SetToBag(S) (-) SetToBag({e}) = [x \in {d \in DOMAIN B : B[d] > 0} |-> B[x]]
  BY DEF SetToBag, (-)
<1>2. {d \in DOMAIN B : B[d] > 0} = S \ {e}
  OBVIOUS
<1> QED BY <1>1, <1>2 DEF SetToBag

LEMMA BagEmpty ==
  ASSUME NEW S
  PROVE  SetToBag(S) = EmptyBag <=> S = {}
<1>1. DOMAIN SetToBag(S) = S /\ DOMAIN EmptyBag = {}
  BY DEF SetToBag, EmptyBag
<1> QED BY <1>1 DEF EmptyBag

LEMMA DropAll ==
  ASSUME NEW f, NEW x, DOMAIN f \subseteq {x}
  PROVE  Drop(f, x) = <<>>
<1>1. Drop(f, x) = [y \in {} |-> f[y]]
  BY DEF Drop
<1> QED BY <1>1

(***************************************************************************)
(* The operators of TraceContract, on a file that grows by a line          *)
(***************************************************************************)
\* Every set of naturals has a least element.
LEMMA LeastNumber ==
  ASSUME NEW S, S \subseteq Nat, S # {}
  PROVE  \E n \in S : \A m \in S : n <= m
<1> DEFINE R == {p \in Nat \X Nat : p[1] < p[2]}
<1>1. IsWellFoundedOn(R, Nat)
  BY NatLessThanWellFounded DEF OpToRel, IsWellFoundedOn
<1>2. PICK n \in S : \A m \in S : <<m, n>> \notin R
  <2> HIDE DEF R
  <2> QED BY <1>1, WFMin
<1>3. \A m \in S : ~(m < n)
  BY <1>2
<1> QED BY <1>3

\* Induction, for a set of numbers.
LEMMA Induction ==
  ASSUME NEW S, 0 \in S, \A n \in Nat : n \in S => n + 1 \in S
  PROVE  Nat \subseteq S
<1> DEFINE R == {p \in Nat \X Nat : p[1] < p[2]}
           rest == Nat \ S
<1> SUFFICES ASSUME rest # {} PROVE FALSE
  OBVIOUS
<1>1. PICK n \in rest : \A m \in rest : <<m, n>> \notin R
  <2>1. IsWellFoundedOn(R, Nat)
    BY NatLessThanWellFounded DEF OpToRel, IsWellFoundedOn
  <2>2. rest \subseteq Nat
    OBVIOUS
  <2> HIDE DEF R, rest
  <2> QED BY <2>1, <2>2, WFMin
<1>2. n \in Nat /\ n \notin S /\ n # 0
  BY <1>1
<1>3. n - 1 \in Nat /\ n - 1 < n
  BY <1>2
<1>4. n - 1 \in S
  BY <1>1, <1>2, <1>3
<1>5. (n - 1) + 1 = n
  BY <1>2
<1> QED BY <1>2, <1>3, <1>4, <1>5

\* The time of a line lies in 1 .. MaxTime, so sets of times have extremes.
LEMMA Extremes ==
  ASSUME NEW S, S \subseteq 0 .. MaxTime, S # {}
  PROVE  /\ Contract!Max(S) \in S /\ \A x \in S : x <= Contract!Max(S)
         /\ Contract!Min(S) \in S /\ \A x \in S : Contract!Min(S) <= x
<1>1. MaxTime \in Nat /\ S \subseteq Nat
  BY BoundsAssumption
<1>2. \E x \in S : \A y \in S : x =< y
  BY <1>1, LeastNumber
<1>3. \E x \in S : \A y \in S : x >= y
  <2> DEFINE above == {n \in Nat : \A x \in S : x <= n}
  <2>1. MaxTime \in above
    BY <1>1
  <2>2. PICK n \in above : \A m \in above : n <= m
    BY <2>1, LeastNumber
  <2>3. n \in S
    <3> SUFFICES ASSUME n \notin S PROVE FALSE
      OBVIOUS
    <3>1. \A x \in S : x \in Nat /\ x < n
      BY <1>1
    <3>2. n - 1 \in above
      <4> PICK x \in S : TRUE
        OBVIOUS
      <4> x \in Nat /\ x < n
        BY <3>1
      <4> QED BY <3>1
    <3> QED BY <2>2, <3>2
  <2> QED BY <2>3
<1> QED BY <1>2, <1>3 DEF Contract!Max, Contract!Min

LEMMA LineTypes ==
  /\ \A line \in Lines :
       /\ line.time \in 1 .. MaxTime /\ line.time \in Nat /\ line.time > 0
       /\ line.tid \in Ids
       /\ line.what \in {"tr", "tf", "thread_sync", "m"}
       /\ line.tid = Unregistered => line.what = "m"
  /\ Unregistered = -1 /\ Unregistered \notin Tids /\ \A tid \in Tids : tid \in Nat /\ tid >= 0
<1>1. Unregistered = -1
  BY DEF Unregistered, Contract!Unregistered
<1> QED BY <1>1, TidsAssumption, BoundsAssumption DEF Lines, Ids

LEMMA FileLines ==
  ASSUME NEW file \in Seq(Lines)
  PROVE  /\ Len(file) \in Nat
         /\ DOMAIN file = 1 .. Len(file)
         /\ \A i \in DOMAIN file : file[i] \in Lines /\ file[i].time \in 1 .. MaxTime
<1>1. \A i \in 1 .. Len(file) : file[i] \in Lines
  BY ElementOfSeq
<1> QED BY <1>1, LineTypes, LenProperties

LEMMA LastOfIsLast ==
  ASSUME NEW file \in Seq(Lines), NEW tid
  PROVE  /\ Contract!LastOf(file, tid) \in 0 .. MaxTime
         /\ \A i \in DOMAIN file :
              file[i].tid = tid => file[i].time <= Contract!LastOf(file, tid)
         /\ \/ Contract!LastOf(file, tid) = 0
            \/ \E i \in DOMAIN file :
                 file[i].tid = tid /\ file[i].time = Contract!LastOf(file, tid)
<1> DEFINE T == {0} \cup Contract!TimesOf(file, tid)
<1>1. \A x : x \in T <=> x = 0 \/ \E i \in DOMAIN file : file[i].tid = tid /\ x = file[i].time
  BY DEF Contract!TimesOf
<1>2. T \subseteq 0 .. MaxTime /\ T # {}
  BY <1>1, FileLines, BoundsAssumption
<1>3. Contract!LastOf(file, tid) = Contract!Max(T)
  BY DEF Contract!LastOf
<1> HIDE DEF T
<1>4. Contract!Max(T) \in T /\ \A x \in T : x <= Contract!Max(T)
  BY <1>2, Extremes
<1> QED BY <1>1, <1>2, <1>3, <1>4

\* The positions of a file that grows.
LEMMA AppendLines ==
  ASSUME NEW file \in Seq(Lines), NEW line \in Lines
  PROVE  /\ Append(file, line) \in Seq(Lines)
         /\ DOMAIN Append(file, line) = DOMAIN file \cup {Len(file) + 1}
         /\ Len(file) + 1 \notin DOMAIN file
         /\ \A i \in DOMAIN file : Append(file, line)[i] = file[i]
         /\ Append(file, line)[Len(file) + 1] = line
         /\ Len(Append(file, line)) = Len(file) + 1
<1>1. /\ Append(file, line) \in Seq(Lines) /\ Len(Append(file, line)) = Len(file) + 1
      /\ \A i \in 1 .. Len(file) : Append(file, line)[i] = file[i]
      /\ Append(file, line)[Len(file) + 1] = line
  BY AppendProperties
<1>2. /\ DOMAIN Append(file, line) = 1 .. Len(file) + 1
      /\ DOMAIN file = 1 .. Len(file) /\ Len(file) \in Nat
  BY <1>1, LenProperties
<1> QED BY <1>1, <1>2

LEMMA AppendCount ==
  ASSUME NEW file \in Seq(Lines), NEW line \in Lines, NEW tid, NEW what
  PROVE  /\ Contract!Count(file, tid, what) \in Nat
         /\ Contract!Count(Append(file, line), tid, what) =
              IF line.tid = tid /\ line.what = what
              THEN Contract!Count(file, tid, what) + 1 ELSE Contract!Count(file, tid, what)
<1> DEFINE those == {i \in DOMAIN file : file[i].tid = tid /\ file[i].what = what}
           more == {i \in DOMAIN Append(file, line) :
                      Append(file, line)[i].tid = tid /\ Append(file, line)[i].what = what}
           n == Len(file) + 1
<1>1. IsFiniteSet(those) /\ Cardinality(those) \in Nat
  <2>1. Len(file) \in Int /\ those \subseteq 1 .. Len(file)
    BY FileLines
  <2>2. \A a, b \in Int : IsFiniteSet(a .. b)
    BY FS_Interval, Zenon
  <2> HIDE DEF those
  <2>3. IsFiniteSet(1 .. Len(file))
    BY <2>1, <2>2
  <2>4. IsFiniteSet(those)
    BY <2>1, <2>3, FS_Subset
  <2> QED BY <2>4, FS_CardinalityType
<1>2. more = IF line.tid = tid /\ line.what = what THEN those \cup {n} ELSE those
  BY AppendLines
<1>3. n \notin those
  BY AppendLines
<1>4. /\ Contract!Count(file, tid, what) = Cardinality(those)
      /\ Contract!Count(Append(file, line), tid, what) = Cardinality(more)
  BY DEF Contract!Count, Contract!Quantify, Contract!Cardinality, Cardinality
<1> HIDE DEF those, more, n
<1>5. Cardinality(those \cup {n}) = Cardinality(those) + 1
  BY <1>1, <1>3, FS_AddElement
<1> QED BY <1>1, <1>2, <1>4, <1>5

LEMMA ActiveMeans ==
  ASSUME NEW file \in Seq(Lines), NEW tid
  PROVE  tid \in Contract!ActiveIn(file) <=>
           Contract!Count(file, tid, "tr") > Contract!Count(file, tid, "tf")
<1>1. \A what : Contract!Count(file, tid, what) \in Nat
  <2>1. CASE Lines = {}
    <3>1. file = <<>> /\ DOMAIN file = {}
      BY <2>1, FileLines
    <3>2. \A what : Contract!Count(file, tid, what) = Cardinality({})
      BY <3>1 DEF Contract!Count, Contract!Quantify, Contract!Cardinality, Cardinality
    <3> QED BY <3>2, FS_EmptySet
  <2>2. CASE Lines # {}
    BY <2>2, AppendCount
  <2> QED BY <2>1, <2>2
<1>2. ASSUME \A i \in DOMAIN file : file[i].tid # tid
      PROVE  Contract!Count(file, tid, "tr") = 0
  <2>1. Contract!Count(file, tid, "tr") = Cardinality({})
    BY <1>2 DEF Contract!Count, Contract!Quantify, Contract!Cardinality, Cardinality
  <2> QED BY <2>1, FS_EmptySet
<1>3. Contract!Count(file, tid, "tr") > Contract!Count(file, tid, "tf") =>
        \E i \in DOMAIN file : file[i].tid = tid
  BY <1>1, <1>2
<1> QED BY <1>3 DEF Contract!ActiveIn

\* What a line that may follow does to the active threads.
LEMMA AppendActive ==
  ASSUME NEW file \in Seq(Lines), NEW line \in Lines, \A tid \in Ids : Paired(file, tid),
         Contract!MayFollow(file, line)
  PROVE  /\ \A tid \in Ids : Paired(Append(file, line), tid)
         /\ Contract!ActiveIn(Append(file, line)) =
              CASE line.what = "tr" -> Contract!ActiveIn(file) \cup {line.tid}
                [] line.what = "tf" -> Contract!ActiveIn(file) \ {line.tid}
                [] OTHER -> Contract!ActiveIn(file)
         /\ line.what = "tr" => line.tid \notin Contract!ActiveIn(file)
         /\ line.what \notin {"tr"} /\ line.tid # Unregistered =>
              line.tid \in Contract!ActiveIn(file)
         /\ line.time > Contract!LastOf(file, line.tid)
<1> DEFINE new == Append(file, line)
<1>1. /\ new \in Seq(Lines)
      /\ \A tid, what : /\ Contract!Count(file, tid, what) \in Nat
                        /\ Contract!Count(new, tid, what) =
                             IF line.tid = tid /\ line.what = what
                             THEN Contract!Count(file, tid, what) + 1
                             ELSE Contract!Count(file, tid, what)
  BY AppendLines, AppendCount
<1> HIDE DEF new
<1>2. /\ line.what = "tr" \/ line.tid = Unregistered =>
           line.tid \notin Contract!ActiveIn(file)
      /\ ~(line.what = "tr" \/ line.tid = Unregistered) => line.tid \in Contract!ActiveIn(file)
      /\ line.time > Contract!LastOf(file, line.tid)
  BY DEF Contract!MayFollow, Unregistered
<1>3. /\ line.tid \in Ids /\ line.what \in {"tr", "tf", "thread_sync", "m"}
      /\ line.tid = Unregistered => line.what = "m"
  BY LineTypes
<1>4. \A tid : /\ tid \in Contract!ActiveIn(file) <=>
                    Contract!Count(file, tid, "tr") > Contract!Count(file, tid, "tf")
               /\ tid \in Contract!ActiveIn(new) <=>
                    Contract!Count(new, tid, "tr") > Contract!Count(new, tid, "tf")
  BY <1>1, ActiveMeans
<1>5. ASSUME NEW tid, tid # line.tid
      PROVE  /\ tid \in Contract!ActiveIn(new) <=> tid \in Contract!ActiveIn(file)
             /\ Paired(file, tid) => Paired(new, tid)
  BY <1>1, <1>4, <1>5 DEF Paired
<1>6. CASE line.what = "tr"
  <2>1. Contract!Count(file, line.tid, "tr") = Contract!Count(file, line.tid, "tf")
    BY <1>1, <1>2, <1>3, <1>4, <1>6 DEF Paired
  <2>2. line.tid \in Contract!ActiveIn(new) /\ Paired(new, line.tid)
    BY <1>1, <1>4, <1>6, <2>1 DEF Paired
  <2> QED BY <1>2, <1>3, <1>5, <1>6, <2>2 DEF new
<1>7. CASE line.what = "tf"
  <2>1. Contract!Count(file, line.tid, "tr") = Contract!Count(file, line.tid, "tf") + 1
    BY <1>1, <1>2, <1>3, <1>4, <1>7, LineTypes DEF Paired
  <2>2. line.tid \notin Contract!ActiveIn(new) /\ Paired(new, line.tid)
    BY <1>1, <1>4, <1>7, <2>1 DEF Paired
  <2> QED BY <1>2, <1>3, <1>5, <1>7, <2>2 DEF new
<1>8. CASE line.what \notin {"tr", "tf"}
  <2>1. /\ line.tid \in Contract!ActiveIn(new) <=> line.tid \in Contract!ActiveIn(file)
        /\ Paired(new, line.tid)
    BY <1>1, <1>3, <1>4, <1>8 DEF Paired
  <2>2. Contract!ActiveIn(new) = Contract!ActiveIn(file)
    <3>1. \A tid : tid \in Contract!ActiveIn(new) <=> tid \in Contract!ActiveIn(file)
      BY <1>5, <2>1
    <3> DEFINE A == Contract!ActiveIn(new)  B == Contract!ActiveIn(file)
    <3>2. \A tid : tid \in A <=> tid \in B
      BY <3>1
    <3> HIDE DEF A, B
    <3>3. A = B
      BY <3>2
    <3> QED BY <3>3 DEF A, B
  <2>3. \A tid \in Ids : Paired(new, tid)
    BY <1>5, <2>1
  <2> QED BY <1>2, <1>8, <2>2, <2>3 DEF new
<1> QED BY <1>6, <1>7, <1>8

LEMMA AppendLastOf ==
  ASSUME NEW file \in Seq(Lines), NEW line \in Lines, NEW tid,
         line.time > Contract!LastOf(file, line.tid)
  PROVE  Contract!LastOf(Append(file, line), tid) =
           IF tid = line.tid THEN line.time ELSE Contract!LastOf(file, tid)
<1> DEFINE new == Append(file, line)
<1>1. /\ new \in Seq(Lines) /\ DOMAIN new = DOMAIN file \cup {Len(file) + 1}
      /\ \A i \in DOMAIN file : new[i] = file[i]
      /\ new[Len(file) + 1] = line
  BY AppendLines
<1> HIDE DEF new
<1>2. CASE tid = line.tid
  <2>1. /\ \A i \in DOMAIN new : new[i].tid = tid => new[i].time <= Contract!LastOf(new, tid)
        /\ \/ Contract!LastOf(new, tid) = 0
           \/ \E i \in DOMAIN new : new[i].tid = tid /\ new[i].time = Contract!LastOf(new, tid)
        /\ Contract!LastOf(new, tid) \in 0 .. MaxTime
    BY <1>1, LastOfIsLast
  <2>2. line.time <= Contract!LastOf(new, tid)
    BY <1>1, <1>2, <2>1
  <2>3. ASSUME NEW i \in DOMAIN file, file[i].tid = tid PROVE file[i].time < line.time
    <3>1. file[i].time <= Contract!LastOf(file, tid) /\ Contract!LastOf(file, tid) \in 0 .. MaxTime
          /\ file[i].time \in 1 .. MaxTime /\ line.time \in Nat
      BY <2>3, LastOfIsLast, FileLines, LineTypes
    <3> QED BY <1>2, <3>1, BoundsAssumption
  <2>4. line.time \in Nat /\ line.time > 0 /\ Contract!LastOf(new, tid) \in Nat
    BY <2>1, LineTypes, BoundsAssumption
  <2>5. Contract!LastOf(new, tid) = line.time
    BY <1>1, <2>1, <2>2, <2>3, <2>4
  <2> QED BY <1>2, <2>5 DEF new
<1>3. CASE tid # line.tid
  <2>1. Contract!TimesOf(new, tid) = Contract!TimesOf(file, tid)
    BY <1>1, <1>3 DEF Contract!TimesOf
  <2> QED BY <1>3, <2>1 DEF Contract!LastOf, new
<1> QED BY <1>2, <1>3

\* The frontier of a file: what its active threads were last seen at, or its
\* latest time.
LEMMA FrontierMeans ==
  ASSUME NEW file \in Seq(Lines)
  PROVE  /\ Contract!Frontier(file) \in 0 .. MaxTime
         /\ \A tid \in Contract!ActiveIn(file) :
              Contract!Frontier(file) <= Contract!LastOf(file, tid)
         /\ Contract!ActiveIn(file) # {} =>
              \E tid \in Contract!ActiveIn(file) :
                Contract!Frontier(file) = Contract!LastOf(file, tid)
         /\ Contract!ActiveIn(file) = {} =>
              \A i \in DOMAIN file : file[i].time <= Contract!Frontier(file)
         /\ \/ Contract!Frontier(file) = 0
            \/ \E i \in DOMAIN file : file[i].time = Contract!Frontier(file)
<1> DEFINE T == {0} \cup {file[i].time : i \in DOMAIN file}
           L == {Contract!LastOf(file, tid) : tid \in Contract!ActiveIn(file)}
<1>1. CASE Contract!ActiveIn(file) = {}
  <2>1. Contract!Frontier(file) = Contract!Max(T)
    BY <1>1 DEF Contract!Frontier
  <2>2. T \subseteq 0 .. MaxTime /\ T # {}
    BY FileLines, BoundsAssumption
  <2>3. \A x : x \in T <=> x = 0 \/ \E i \in DOMAIN file : x = file[i].time
    OBVIOUS
  <2> HIDE DEF T
  <2>4. Contract!Max(T) \in T /\ \A x \in T : x <= Contract!Max(T)
    BY <2>2, Extremes
  <2> QED BY <1>1, <2>1, <2>2, <2>3, <2>4
<1>2. CASE Contract!ActiveIn(file) # {}
  <2>1. Contract!Frontier(file) = Contract!Min(L)
    BY <1>2 DEF Contract!Frontier
  <2>2. \A x : x \in L <=> \E tid \in Contract!ActiveIn(file) : x = Contract!LastOf(file, tid)
    OBVIOUS
  <2>3. L \subseteq 0 .. MaxTime /\ L # {}
    BY <1>2, LastOfIsLast
  <2> HIDE DEF L
  <2>4. Contract!Min(L) \in L /\ \A x \in L : Contract!Min(L) <= x
    BY <2>3, Extremes
  <2>5. PICK tid \in Contract!ActiveIn(file) : Contract!Frontier(file) = Contract!LastOf(file, tid)
    BY <2>1, <2>2, <2>4
  <2>6. \/ Contract!Frontier(file) = 0
        \/ \E i \in DOMAIN file : file[i].time = Contract!Frontier(file)
    BY <2>5, LastOfIsLast
  <2> QED BY <1>2, <2>1, <2>2, <2>3, <2>4, <2>5, <2>6
<1> QED BY <1>1, <1>2

\* A line that may follow is later than the frontier, which it does not move
\* back.
LEMMA AppendFrontier ==
  ASSUME NEW file \in Seq(Lines), NEW line \in Lines, \A tid \in Ids : Paired(file, tid),
         Contract!MayFollow(file, line)
  PROVE  /\ line.time > Contract!Frontier(file)
         /\ Contract!Frontier(Append(file, line)) >= Contract!Frontier(file)
<1> DEFINE new == Append(file, line)
           old == Contract!Frontier(file)
<1>1. /\ new \in Seq(Lines) /\ DOMAIN new = DOMAIN file \cup {Len(file) + 1}
      /\ new[Len(file) + 1] = line
      /\ \A tid : Contract!LastOf(new, tid) =
                    IF tid = line.tid THEN line.time ELSE Contract!LastOf(file, tid)
      /\ \A i \in DOMAIN file : new[i] = file[i]
  BY AppendLines, AppendActive, AppendLastOf
<1>2. /\ old \in Nat /\ Contract!Frontier(new) \in Nat /\ line.time \in Nat
      /\ \A tid : Contract!LastOf(file, tid) \in Nat /\ Contract!LastOf(new, tid) \in Nat
  <2>1. 0 .. MaxTime \subseteq Nat
    BY BoundsAssumption
  <2>2. old \in Nat /\ Contract!Frontier(new) \in Nat
    BY <1>1, <2>1, FrontierMeans
  <2>3. \A tid : Contract!LastOf(file, tid) \in Nat /\ Contract!LastOf(new, tid) \in Nat
    BY <1>1, <2>1, LastOfIsLast
  <2> QED BY <2>2, <2>3, LineTypes
<1>3. line.time > old
  <2>1. CASE line.what = "tr" \/ line.tid = Unregistered
    BY <2>1 DEF Contract!MayFollow, Unregistered
  <2>2. CASE ~(line.what = "tr" \/ line.tid = Unregistered)
    <3>1. line.tid \in Contract!ActiveIn(file) /\ line.time > Contract!LastOf(file, line.tid)
      BY <2>2 DEF Contract!MayFollow, Unregistered
    <3>2. old <= Contract!LastOf(file, line.tid)
      BY <3>1, FrontierMeans
    <3> QED BY <1>2, <3>1, <3>2
  <2> QED BY <2>1, <2>2
<1> HIDE DEF new, old
<1>4. CASE Contract!ActiveIn(new) = {}
  <2>1. \A i \in DOMAIN new : new[i].time <= Contract!Frontier(new)
    BY <1>1, <1>4, FrontierMeans
  <2>2. line.time <= Contract!Frontier(new)
    BY <1>1, <2>1
  <2> QED BY <1>2, <1>3, <2>2 DEF new, old
<1>5. CASE Contract!ActiveIn(new) # {}
  <2>1. PICK tid \in Contract!ActiveIn(new) :
          Contract!Frontier(new) = Contract!LastOf(new, tid)
    BY <1>1, <1>5, FrontierMeans
  <2>2. CASE tid = line.tid
    BY <1>1, <1>2, <1>3, <2>1, <2>2 DEF new, old
  <2>3. CASE tid # line.tid
    <3>1. tid \in Contract!ActiveIn(file)
      BY <2>1, <2>3, AppendActive DEF new
    <3>2. old <= Contract!LastOf(file, tid)
      BY <3>1, FrontierMeans DEF old
    <3> QED BY <1>1, <1>2, <1>3, <2>1, <2>3, <3>2 DEF new, old
  <2> QED BY <2>2, <2>3
<1> QED BY <1>4, <1>5

(***************************************************************************)
(* A queue                                                                 *)
(***************************************************************************)
\* The positions of a sequence and of its tail.
LEMMA TailLines ==
  ASSUME NEW s \in Seq(Lines), s # <<>>
  PROVE  /\ 1 \in DOMAIN s /\ Head(s) = s[1] /\ Head(s) \in Lines
         /\ Tail(s) \in Seq(Lines)
         /\ \A i \in DOMAIN Tail(s) :
              i \in Nat /\ i >= 1 /\ i + 1 \in DOMAIN s /\ Tail(s)[i] = s[i + 1]
         /\ \A i \in DOMAIN s : i \in Nat /\ (i = 1 \/ i - 1 \in DOMAIN Tail(s))
<1>1. /\ Len(s) \in Nat /\ Len(s) # 0 /\ DOMAIN s = 1 .. Len(s)
      /\ \A i \in 1 .. Len(s) : s[i] \in Lines
  BY LenProperties, EmptySeq, ElementOfSeq
<1>2. /\ Tail(s) \in Seq(Lines) /\ Len(Tail(s)) = Len(s) - 1
      /\ \A i \in 1 .. Len(Tail(s)) : Tail(s)[i] = s[i + 1]
      /\ Head(s) = s[1]
  BY HeadTailProperties
<1>3. DOMAIN Tail(s) = 1 .. Len(s) - 1
  BY <1>2, LenProperties
<1> QED BY <1>1, <1>2, <1>3

LEMMA EmptyQueueOK ==
  ASSUME NEW file \in Seq(Lines), NEW tid
  PROVE  QueueOK(file, tid, NewQueue)
<1>1. <<>> \in Seq(Lines) /\ DOMAIN <<>> = {}
  OBVIOUS
<1>2. 0 <= Contract!LastOf(file, tid)
  BY LastOfIsLast, BoundsAssumption
<1> QED BY <1>1, <1>2 DEF QueueOK, NewQueue

\* A queue without its first line is still in order.
LEMMA PopOK ==
  ASSUME NEW file, NEW tid, NEW q, QueueOK(file, tid, q), q.entries # <<>>
  PROVE  QueueOK(file, tid, [q EXCEPT !.entries = Tail(q.entries)])
<1> DEFINE new == [q EXCEPT !.entries = Tail(q.entries)]
<1>1. /\ q \in [entries : Seq(Lines), max_timestamp : Nat, finished : BOOLEAN]
      /\ \A i \in DOMAIN q.entries :
           /\ q.entries[i].tid = tid
           /\ q.entries[i].time <= Contract!LastOf(file, tid)
           /\ \A j \in DOMAIN q.entries : j < i => q.entries[j].time < q.entries[i].time
  BY DEF QueueOK
<1>2. /\ Tail(q.entries) \in Seq(Lines)
      /\ \A i \in DOMAIN Tail(q.entries) :
           i \in Nat /\ i + 1 \in DOMAIN q.entries /\ Tail(q.entries)[i] = q.entries[i + 1]
  BY <1>1, TailLines
<1>3. /\ new \in [entries : Seq(Lines), max_timestamp : Nat, finished : BOOLEAN]
      /\ new.entries = Tail(q.entries) /\ new.max_timestamp = q.max_timestamp
      /\ new.finished = q.finished
  BY <1>1, <1>2
<1> HIDE DEF new
<1>4. ASSUME NEW i \in DOMAIN new.entries
      PROVE  /\ new.entries[i].tid = tid
             /\ new.entries[i].time <= Contract!LastOf(file, tid)
             /\ \A j \in DOMAIN new.entries :
                  j < i => new.entries[j].time < new.entries[i].time
  <2>1. /\ i \in Nat /\ i + 1 \in DOMAIN q.entries /\ new.entries[i] = q.entries[i + 1]
    BY <1>2, <1>3, <1>4
  <2>2. ASSUME NEW j \in DOMAIN new.entries, j < i
        PROVE  new.entries[j].time < new.entries[i].time
    <3>1. /\ j \in Nat /\ j + 1 \in DOMAIN q.entries /\ new.entries[j] = q.entries[j + 1]
      BY <1>2, <1>3, <2>2
    <3>2. j + 1 < i + 1
      BY <2>1, <2>2, <3>1
    <3> QED BY <1>1, <2>1, <3>1, <3>2
  <2> QED BY <1>1, <2>1, <2>2
<1> QED BY <1>3, <1>4 DEF QueueOK, new

\* What a line that may follow does to a queue that does not take it.
LEMMA KeepOK ==
  ASSUME NEW file \in Seq(Lines), NEW line \in Lines, \A t \in Ids : Paired(file, t),
         Contract!MayFollow(file, line), NEW tid, NEW q, QueueOK(file, tid, q),
         tid = line.tid => line.what = "thread_sync"
  PROVE  QueueOK(Append(file, line), tid, q)
<1> DEFINE new == Append(file, line)
<1>1. /\ line.time > Contract!LastOf(file, line.tid)
      /\ Contract!LastOf(new, tid) =
           IF tid = line.tid THEN line.time ELSE Contract!LastOf(file, tid)
      /\ new \in Seq(Lines)
      /\ line.what # "tr" /\ line.tid # Unregistered => line.tid \in Contract!ActiveIn(file)
      /\ Contract!ActiveIn(new) =
              CASE line.what = "tr" -> Contract!ActiveIn(file) \cup {line.tid}
                [] line.what = "tf" -> Contract!ActiveIn(file) \ {line.tid}
                [] OTHER -> Contract!ActiveIn(file)
  BY AppendActive, AppendLastOf, AppendLines
<1>2. /\ Contract!LastOf(new, tid) \in Nat /\ Contract!LastOf(file, tid) \in Nat
      /\ Contract!LastOf(new, tid) >= Contract!LastOf(file, tid)
  <2>1. /\ Contract!LastOf(new, tid) \in Nat /\ Contract!LastOf(file, tid) \in Nat
        /\ line.time \in Nat
    BY <1>1, LastOfIsLast, LineTypes, BoundsAssumption
  <2> QED BY <1>1, <2>1
<1>3. /\ Contract!Count(file, tid, "tr") \in Nat
      /\ Contract!Count(new, tid, "tr") >= Contract!Count(file, tid, "tr")
  BY AppendCount
<1> HIDE DEF new
<1>4. /\ q \in [entries : Seq(Lines), max_timestamp : Nat, finished : BOOLEAN]
      /\ q.max_timestamp <= Contract!LastOf(file, tid)
      /\ q.finished => tid \notin Contract!ActiveIn(file) /\ Contract!Count(file, tid, "tr") > 0
      /\ \A i \in DOMAIN q.entries :
           /\ q.entries[i].tid = tid
           /\ q.entries[i].time <= Contract!LastOf(file, tid)
           /\ \A j \in DOMAIN q.entries : j < i => q.entries[j].time < q.entries[i].time
  BY DEF QueueOK
<1>5. q.max_timestamp <= Contract!LastOf(new, tid)
  <2>1. q.max_timestamp \in Nat
    BY <1>4
  <2> QED BY <1>2, <1>4, <2>1
<1>6. ASSUME q.finished
      PROVE  tid \notin Contract!ActiveIn(new) /\ Contract!Count(new, tid, "tr") > 0
  <2>1. tid \notin Contract!ActiveIn(file) /\ Contract!Count(file, tid, "tr") > 0
    BY <1>4, <1>6
  <2>2. tid # line.tid
    BY <1>1, <2>1, LineTypes
  <2>3. Contract!Count(new, tid, "tr") > 0
    <3>1. Contract!Count(new, tid, "tr") = Contract!Count(file, tid, "tr")
      BY <2>2, AppendCount DEF new
    <3> QED BY <2>1, <3>1
  <2>4. tid \notin Contract!ActiveIn(new)
    BY <1>1, <2>1, <2>2
  <2> QED BY <2>3, <2>4
<1>7. ASSUME NEW i \in DOMAIN q.entries
      PROVE  q.entries[i].time <= Contract!LastOf(new, tid)
  <2>1. q.entries[i].time \in Nat
    BY <1>4, FileLines, BoundsAssumption
  <2> QED BY <1>2, <1>4, <2>1
<1> QED BY <1>4, <1>5, <1>6, <1>7 DEF QueueOK, new

\* What it does to the queue that takes it.
LEMMA EnqueueOK ==
  ASSUME NEW file \in Seq(Lines), NEW line \in Lines, \A t \in Ids : Paired(file, t),
         Contract!MayFollow(file, line), NEW q, QueueOK(file, line.tid, q),
         MayEnqueue(q, line.time)
  PROVE  QueueOK(Append(file, line), line.tid, Enqueue(q, line, line.what = "tf"))
<1> DEFINE file2 == Append(file, line)
           tid == line.tid
           old == q.entries
           new == Append(q.entries, line)
           q2 == Enqueue(q, line, line.what = "tf")
<1>1. /\ line.time > Contract!LastOf(file, tid)
      /\ Contract!LastOf(file2, tid) = line.time
      /\ line.what # "tr" /\ line.tid # Unregistered => line.tid \in Contract!ActiveIn(file)
      /\ line.what = "tf" => Contract!ActiveIn(file2) = Contract!ActiveIn(file) \ {line.tid}
  BY AppendActive, AppendLastOf, AppendLines
<1>2. /\ Contract!LastOf(file, tid) \in Nat /\ line.time \in Nat
  BY LastOfIsLast, LineTypes, BoundsAssumption
<1>3. /\ old \in Seq(Lines)
      /\ \A i \in DOMAIN old :
           /\ old[i].tid = tid
           /\ old[i].time <= Contract!LastOf(file, tid)
           /\ \A j \in DOMAIN old : j < i => old[j].time < old[i].time
  BY DEF QueueOK
<1>4. /\ new \in Seq(Lines) /\ DOMAIN new = DOMAIN old \cup {Len(old) + 1}
      /\ \A i \in DOMAIN old : new[i] = old[i] /\ i \in 1 .. Len(old)
      /\ new[Len(old) + 1] = line
      /\ Len(old) \in Nat
  BY <1>3, AppendLines, FileLines
<1>5. q2.finished => tid \notin Contract!ActiveIn(file2) /\ Contract!Count(file2, tid, "tr") > 0
  <2> SUFFICES ASSUME line.what = "tf"
               PROVE  tid \notin Contract!ActiveIn(file2) /\ Contract!Count(file2, tid, "tr") > 0
    BY DEF Enqueue
  <2>1. tid \in Contract!ActiveIn(file)
    BY <1>1, LineTypes
  <2>2. /\ Contract!Count(file, tid, "tr") > Contract!Count(file, tid, "tf")
        /\ Contract!Count(file, tid, "tr") \in Nat /\ Contract!Count(file, tid, "tf") \in Nat
    BY <2>1, ActiveMeans, AppendCount
  <2>3. Contract!Count(file2, tid, "tr") = Contract!Count(file, tid, "tr")
    BY AppendCount
  <2>4. Contract!Count(file2, tid, "tr") > 0
    BY <2>2, <2>3
  <2> QED BY <1>1, <2>4
<1>6. q2 \in [entries : Seq(Lines), max_timestamp : Nat, finished : BOOLEAN]
  BY <1>2, <1>4 DEF Enqueue
<1>7. q2.max_timestamp = line.time /\ q2.entries = new
  BY DEF Enqueue
<1> HIDE DEF new, old, q2, file2, tid
<1>8. ASSUME NEW i \in DOMAIN new
      PROVE  /\ new[i].tid = tid
             /\ new[i].time <= line.time
             /\ \A j \in DOMAIN new : j < i => new[j].time < new[i].time
  <2>1. \A j \in DOMAIN old : old[j].time \in Nat /\ old[j].time < line.time
    <3>1. \A j \in DOMAIN old : old[j].time \in Nat
      BY <1>3, FileLines, BoundsAssumption
    <3> QED BY <1>1, <1>2, <1>3, <3>1
  <2>2. CASE i \in DOMAIN old
    <3>1. new[i] = old[i] /\ new[i].tid = tid /\ new[i].time <= line.time
      BY <1>2, <1>3, <1>4, <2>1, <2>2
    <3>2. ASSUME NEW j \in DOMAIN new, j < i PROVE j \in DOMAIN old
      BY <1>4, <2>2, <3>2
    <3> QED BY <1>3, <1>4, <2>2, <3>1, <3>2
  <2>3. CASE i = Len(old) + 1
    <3>1. new[i] = line
      BY <1>4, <2>3
    <3>2. ASSUME NEW j \in DOMAIN new, j < i PROVE new[j].time < line.time
      <4>1. j \in DOMAIN old
        BY <1>4, <2>3, <3>2
      <4> QED BY <1>4, <2>1, <4>1
    <3> QED BY <1>2, <3>1, <3>2 DEF tid
  <2> QED BY <1>4, <2>2, <2>3
<1>9. QueueOK(file2, tid, q2)
  BY <1>1, <1>2, <1>5, <1>6, <1>7, <1>8 DEF QueueOK
<1> QED BY <1>9 DEF file2, tid, q2

\* The first line of a queue is its earliest, and the only one of its time.
LEMMA HeadIsLeast ==
  ASSUME NEW file, NEW tid, NEW q, QueueOK(file, tid, q), q.entries # <<>>
  PROVE  /\ 1 \in DOMAIN q.entries /\ Head(q.entries) = q.entries[1]
         /\ Head(q.entries) \in Lines /\ Head(q.entries).tid = tid
         /\ Head(q.entries).time <= Contract!LastOf(file, tid)
         /\ \A i \in DOMAIN q.entries : i # 1 => Head(q.entries).time < q.entries[i].time
         /\ \A i \in DOMAIN q.entries : Head(q.entries).time <= q.entries[i].time
<1>1. /\ q.entries \in Seq(Lines)
      /\ \A i \in DOMAIN q.entries :
           /\ q.entries[i].tid = tid
           /\ q.entries[i].time <= Contract!LastOf(file, tid)
           /\ \A j \in DOMAIN q.entries : j < i => q.entries[j].time < q.entries[i].time
  BY DEF QueueOK
<1>2. /\ 1 \in DOMAIN q.entries /\ Head(q.entries) = q.entries[1]
      /\ Head(q.entries) \in Lines
      /\ \A i \in DOMAIN q.entries : i \in Nat /\ (i = 1 \/ 1 < i)
  BY <1>1, TailLines, FileLines
<1>3. \A i \in DOMAIN q.entries : q.entries[i].time \in Nat
  BY <1>1, FileLines, BoundsAssumption
<1>4. ASSUME NEW i \in DOMAIN q.entries, i # 1 PROVE Head(q.entries).time < q.entries[i].time
  <2>1. 1 < i
    BY <1>2, <1>4
  <2> QED BY <1>1, <1>2, <2>1
<1> QED BY <1>1, <1>2, <1>3, <1>4

(***************************************************************************)
(* The heap                                                                *)
(***************************************************************************)
LEMMA HeadsMean ==
  ASSUME NEW qs
  PROVE  \A e : e \in HeadsOf(qs) <=>
           \E tid \in DOMAIN qs : qs[tid].entries # <<>> /\ e = <<Head(qs[tid].entries).time, tid>>
  BY DEF HeadsOf

\* The heap, when it has the heads of the queues: its top is the head of its
\* queue, and nothing queued is earlier.
LEMMA HeapMeans ==
  ASSUME QueueInv, time_threadid_min = SetToBag(HeadsOf(queues))
  PROVE  /\ time_threadid_min = EmptyBag <=> Queued = {}
         /\ BagToSet(time_threadid_min) = HeadsOf(queues)
         /\ \A e : IsTop(e) =>
              /\ e \in HeadsOf(queues) /\ IsHead(e)
              /\ e = <<Head(queues[e[2]].entries).time, e[2]>>
              /\ e[1] \in Nat
              /\ \A line \in Queued : e[1] <= line.time
<1>1. \A tid \in DOMAIN queues : QueueOK(trace, tid, queues[tid])
  BY DEF QueueInv
<1>2. \A x : x \in Queued <=> \E tid \in DOMAIN queues :
                                 \E i \in DOMAIN queues[tid].entries : x = queues[tid].entries[i]
  BY DEF Queued, Entries
<1>3. BagToSet(time_threadid_min) = HeadsOf(queues)
  BY DEF BagToSet, SetToBag
<1>4. \A tid \in DOMAIN queues : \A i \in DOMAIN queues[tid].entries :
        queues[tid].entries # <<>>
  OBVIOUS
<1>5. HeadsOf(queues) = {} <=> Queued = {}
  <2>1. ASSUME HeadsOf(queues) = {} PROVE Queued = {}
    BY <1>2, <1>4, <2>1, HeadsMean
  <2>2. ASSUME HeadsOf(queues) # {} PROVE Queued # {}
    <3>1. PICK tid \in DOMAIN queues : queues[tid].entries # <<>>
      BY <2>2, HeadsMean
    <3>2. 1 \in DOMAIN queues[tid].entries
      BY <1>1, <3>1, HeadIsLeast
    <3> QED BY <1>2, <3>2
  <2> QED BY <2>1, <2>2
<1>6. ASSUME NEW e, IsTop(e)
      PROVE  /\ e \in HeadsOf(queues) /\ IsHead(e)
             /\ e = <<Head(queues[e[2]].entries).time, e[2]>>
             /\ e[1] \in Nat
             /\ \A line \in Queued : e[1] <= line.time
  <2>1. e \in HeadsOf(queues) /\ \A other \in HeadsOf(queues) : e[1] <= other[1]
    BY <1>3, <1>6 DEF IsTop, BagIn
  <2>2. PICK t \in DOMAIN queues :
          queues[t].entries # <<>> /\ e = <<Head(queues[t].entries).time, t>>
    BY <2>1, HeadsMean
  <2>3. e[1] \in Nat
    BY <1>1, <2>2, HeadIsLeast, LineTypes
  <2>4. ASSUME NEW line \in Queued PROVE e[1] <= line.time
    <3> PICK tid \in DOMAIN queues :
          \E i \in DOMAIN queues[tid].entries : line = queues[tid].entries[i]
      BY <1>2, <2>4
    <3>1. PICK i \in DOMAIN queues[tid].entries : line = queues[tid].entries[i]
      OBVIOUS
    <3>2. /\ queues[tid].entries # <<>>
          /\ Head(queues[tid].entries).time <= line.time
          /\ Head(queues[tid].entries).time \in Nat
      BY <1>1, <1>4, <3>1, HeadIsLeast, LineTypes
    <3>3. line.time \in Nat
      <4>1. queues[tid].entries \in Seq(Lines)
        BY <1>1 DEF QueueOK
      <4> QED BY <3>1, <4>1, FileLines, BoundsAssumption
    <3>4. e[1] <= Head(queues[tid].entries).time
      <4>1. <<Head(queues[tid].entries).time, tid>> \in HeadsOf(queues)
        BY <3>2, HeadsMean
      <4> QED BY <2>1, <4>1
    <3> QED BY <2>3, <3>2, <3>3, <3>4
  <2>5. IsHead(e)
    BY <2>2 DEF IsHead
  <2> QED BY <2>1, <2>2, <2>3, <2>4, <2>5
<1> QED BY <1>3, <1>5, <1>6, BagEmpty

(***************************************************************************)
(* The safe time                                                           *)
(***************************************************************************)
LEMMA ActiveCount ==
  ASSUME ActiveInv
  PROVE  active_threads \in Nat /\ (active_threads = 0 <=> Contract!ActiveIn(trace) = {})
  BY FS_CardinalityType, FS_EmptySet DEF ActiveInv

LEMMA CacheIsFrontier ==
  ASSUME ActiveInv, CacheInv, Contract!ActiveIn(trace) # {}
  PROVE  safe_cache = Contract!Frontier(trace)
<1>1. /\ \A tid \in Contract!ActiveIn(trace) : tt_list[tid] = Contract!LastOf(trace, tid)
      /\ DOMAIN tt_list = Contract!ActiveIn(trace) /\ trace \in Seq(Lines)
  BY DEF ActiveInv
<1>2. /\ \E tid \in Contract!ActiveIn(trace) : safe_cache = Contract!LastOf(trace, tid)
      /\ \A tid \in Contract!ActiveIn(trace) : safe_cache <= Contract!LastOf(trace, tid)
  BY <1>1 DEF CacheInv, IsLeast
<1>3. /\ \A tid \in Contract!ActiveIn(trace) :
           Contract!Frontier(trace) <= Contract!LastOf(trace, tid)
      /\ \E tid \in Contract!ActiveIn(trace) :
           Contract!Frontier(trace) = Contract!LastOf(trace, tid)
      /\ Contract!Frontier(trace) \in Nat
  BY <1>1, FrontierMeans, BoundsAssumption
<1>4. safe_cache \in Nat
  BY DEF CacheInv
<1> QED BY <1>2, <1>3, <1>4

\* What may go is not later than the frontier, and what may not is.
LEMMA MayGoMeans ==
  ASSUME ActiveInv, CacheInv, QueueInv, time_threadid_min = SetToBag(HeadsOf(queues)),
         NEW e, IsTop(e)
  PROVE  /\ MayGo(e[1]) => e[1] <= Contract!Frontier(trace)
         /\ ~MayGo(e[1]) => /\ Contract!ActiveIn(trace) # {}
                            /\ e[1] > Contract!Frontier(trace)
<1>1. /\ e[2] \in DOMAIN queues /\ queues[e[2]].entries # <<>>
      /\ e[1] = Head(queues[e[2]].entries).time
      /\ e[1] \in Nat
  BY HeapMeans DEF IsHead
<1>2. trace \in Seq(Lines) /\ Contract!Frontier(trace) \in Nat
  <2>1. trace \in Seq(Lines)
    BY DEF ActiveInv
  <2> QED BY <2>1, FrontierMeans, BoundsAssumption
<1>3. CASE Contract!ActiveIn(trace) = {}
  <2>1. MayGo(e[1])
    BY <1>3, ActiveCount DEF MayGo
  <2>2. e[1] > 0 /\ e[1] <= Contract!LastOf(trace, e[2])
    <3>1. QueueOK(trace, e[2], queues[e[2]])
      BY <1>1 DEF QueueInv
    <3> QED BY <1>1, <3>1, HeadIsLeast, LineTypes
  <2>3. Contract!LastOf(trace, e[2]) \in Nat
    BY <1>2, LastOfIsLast, BoundsAssumption
  <2>4. \E i \in DOMAIN trace : trace[i].time = Contract!LastOf(trace, e[2])
    BY <1>1, <1>2, <2>2, <2>3, LastOfIsLast
  <2>5. Contract!LastOf(trace, e[2]) <= Contract!Frontier(trace)
    BY <1>2, <1>3, <2>4, FrontierMeans
  <2> QED BY <1>1, <1>2, <2>1, <2>2, <2>3, <2>5
<1>4. CASE Contract!ActiveIn(trace) # {}
  <2>1. safe_cache = Contract!Frontier(trace) /\ active_threads # 0
    BY <1>4, CacheIsFrontier, ActiveCount
  <2> QED BY <1>1, <1>2, <1>4, <2>1 DEF MayGo
<1> QED BY <1>3, <1>4

(***************************************************************************)
(* A line that goes out                                                    *)
(***************************************************************************)
LEMMA MergeEntryStep ==
  ASSUME QueueInv, time_threadid_min = SetToBag(HeadsOf(queues)),
         NEW e, IsTop(e), MergeEntry(e)
  PROVE  /\ QueueInv'
         /\ time_threadid_min' = SetToBag(HeadsOf(queues'))
         /\ Head(queues[e[2]].entries) \in Queued /\ Head(queues[e[2]].entries) \in Lines
         /\ Head(queues[e[2]].entries).time = e[1]
         /\ Queued' = Queued \ {Head(queues[e[2]].entries)}
<1> DEFINE tid == e[2]
           q == queues[tid]
           line == Head(q.entries)
           left == Tail(q.entries)
           q2 == [q EXCEPT !.entries = left]
           next == <<Head(left).time, tid>>
<1>1. /\ e \in HeadsOf(queues) /\ e = <<line.time, tid>> /\ tid \in DOMAIN queues
      /\ q.entries # <<>>
  BY HeapMeans DEF IsHead
<1>2. QueueOK(trace, tid, q) /\ QueueOK(trace, tid, q2) /\ tid \in Ids
  <2>1. QueueOK(trace, tid, q) /\ tid \in Ids
    BY <1>1 DEF QueueInv
  <2> QED BY <1>1, <2>1, PopOK
<1>3. /\ q.entries \in Seq(Lines)
      /\ q \in [entries : Seq(Lines), max_timestamp : Nat, finished : BOOLEAN]
      /\ q2.entries = left
  BY <1>2 DEF QueueOK
<1>4. /\ DOMAIN queues' = IF left = <<>> /\ q.finished THEN DOMAIN queues \ {tid}
                          ELSE DOMAIN queues
      /\ \A t \in DOMAIN queues' : queues'[t] = IF t = tid THEN q2 ELSE queues[t]
      /\ trace' = trace
      /\ time_threadid_min' = IF left = <<>> THEN time_threadid_min (-) SetToBag({e})
                              ELSE (time_threadid_min (-) SetToBag({e})) (+) SetToBag({next})
  BY <1>1 DEF MergeEntry, Drop
<1>5. /\ 1 \in DOMAIN q.entries /\ line = q.entries[1] /\ line \in Lines /\ line.tid = tid
      /\ \A i \in DOMAIN q.entries : i # 1 => line.time < q.entries[i].time
      /\ line.time \in Nat
  BY <1>1, <1>2, HeadIsLeast, LineTypes
<1>6. /\ \A i \in DOMAIN left : i \in Nat /\ i >= 1 /\ i + 1 \in DOMAIN q.entries
                                /\ left[i] = q.entries[i + 1]
      /\ \A i \in DOMAIN q.entries : i \in Nat /\ (i = 1 \/ i - 1 \in DOMAIN left)
  BY <1>1, <1>3, TailLines
<1>7. \A t \in DOMAIN queues : \A i \in DOMAIN queues[t].entries : queues[t].entries[i].tid = t
  BY DEF QueueInv, QueueOK
<1> HIDE DEF left, q2, line, q, tid, next
<1>8. QueueInv'
  <2>1. /\ DOMAIN queues' \subseteq Ids
        /\ \A t \in DOMAIN queues' : QueueOK(trace, t, queues'[t])
    BY <1>2, <1>4 DEF QueueInv
  <2> QED BY <1>4, <2>1 DEF QueueInv
<1>9. \A x : x \in Queued <=> \E t \in DOMAIN queues : \E i \in DOMAIN queues[t].entries :
                                x = queues[t].entries[i]
  BY DEF Queued, Entries
<1>10. \A x : x \in Queued' <=> \E t \in DOMAIN queues' : \E i \in DOMAIN queues'[t].entries :
                                  x = queues'[t].entries[i]
  BY DEF Queued, Entries
<1>11. line \in Queued
  BY <1>1, <1>5, <1>9 DEF q
<1>12. ASSUME NEW x \in Queued' PROVE x \in Queued /\ x # line
  <2> PICK t \in DOMAIN queues' : \E i \in DOMAIN queues'[t].entries : x = queues'[t].entries[i]
    BY <1>10, <1>12
  <2>1. PICK i \in DOMAIN queues'[t].entries : x = queues'[t].entries[i]
    OBVIOUS
  <2>2. CASE t = tid
    <3>1. i \in DOMAIN left /\ x = left[i]
      BY <1>3, <1>4, <2>1, <2>2
    <3>2. i + 1 \in DOMAIN q.entries /\ x = q.entries[i + 1] /\ i + 1 # 1
      BY <1>6, <3>1
    <3>3. line.time < x.time
      BY <1>5, <3>2
    <3> QED BY <1>1, <1>5, <1>9, <3>2, <3>3 DEF q
  <2>3. CASE t # tid
    <3>1. t \in DOMAIN queues /\ i \in DOMAIN queues[t].entries /\ x = queues[t].entries[i]
      BY <1>4, <2>1, <2>3
    <3>2. x.tid = t
      BY <1>7, <3>1
    <3> QED BY <1>5, <1>9, <2>3, <3>1, <3>2
  <2> QED BY <2>2, <2>3
<1>13. ASSUME NEW x \in Queued, x # line PROVE x \in Queued'
  <2> PICK t \in DOMAIN queues : \E i \in DOMAIN queues[t].entries : x = queues[t].entries[i]
    BY <1>9, <1>13
  <2>1. PICK i \in DOMAIN queues[t].entries : x = queues[t].entries[i]
    OBVIOUS
  <2>2. CASE t = tid
    <3>1. i \in DOMAIN q.entries /\ i # 1 /\ x = q.entries[i]
      BY <1>5, <1>13, <2>1, <2>2 DEF q
    <3>2. i \in Nat /\ i - 1 \in DOMAIN left
      BY <1>6, <3>1
    <3>3. left[i - 1] = x
      <4>1. left[i - 1] = q.entries[(i - 1) + 1] /\ (i - 1) + 1 = i
        BY <1>6, <3>2
      <4> QED BY <3>1, <4>1
    <3>4. left # <<>>
      BY <3>2
    <3>5. tid \in DOMAIN queues' /\ queues'[tid].entries = left
      BY <1>1, <1>3, <1>4, <3>4
    <3> QED BY <1>10, <3>2, <3>3, <3>5
  <2>3. CASE t # tid
    <3>1. t \in DOMAIN queues' /\ queues'[t] = queues[t]
      BY <1>4, <2>3
    <3> QED BY <1>10, <2>1, <3>1
  <2> QED BY <2>2, <2>3
<1>14. Queued' = Queued \ {line}
  <2> DEFINE A == Queued'  B == Queued
  <2>1. \A x : x \in A <=> x \in B /\ x # line
    BY <1>12, <1>13
  <2> HIDE DEF A, B
  <2>2. A = B \ {line}
    BY <2>1
  <2> QED BY <2>2 DEF A, B
<1>15. \A d : d \in HeadsOf(queues') <=>
                \/ d \in HeadsOf(queues) \ {e}
                \/ left # <<>> /\ d = next
  <2>1. ASSUME NEW d \in HeadsOf(queues')
        PROVE  d \in HeadsOf(queues) \ {e} \/ (left # <<>> /\ d = next)
    <3>1. PICK t \in DOMAIN queues' :
            queues'[t].entries # <<>> /\ d = <<Head(queues'[t].entries).time, t>>
      BY <2>1, HeadsMean
    <3>2. CASE t = tid
      BY <1>3, <1>4, <3>1, <3>2 DEF next
    <3>3. CASE t # tid
      <4>1. t \in DOMAIN queues /\ queues'[t] = queues[t]
        BY <1>4, <3>3
      <4>2. d \in HeadsOf(queues)
        BY <3>1, <4>1, HeadsMean
      <4>3. d[2] = t /\ e[2] = tid
        BY <3>1 DEF tid
      <4> QED BY <3>3, <4>2, <4>3
    <3> QED BY <3>2, <3>3
  <2>2. ASSUME NEW d \in HeadsOf(queues) \ {e} PROVE d \in HeadsOf(queues')
    <3>1. PICK t \in DOMAIN queues :
            queues[t].entries # <<>> /\ d = <<Head(queues[t].entries).time, t>>
      BY <2>2, HeadsMean
    <3>2. t # tid
      BY <1>1, <2>2, <3>1 DEF q, line
    <3>3. t \in DOMAIN queues' /\ queues'[t] = queues[t]
      BY <1>4, <3>2
    <3> QED BY <3>1, <3>3, HeadsMean
  <2>3. ASSUME left # <<>> PROVE next \in HeadsOf(queues')
    <3>1. tid \in DOMAIN queues' /\ queues'[tid].entries = left
      BY <1>1, <1>3, <1>4, <2>3
    <3> QED BY <2>3, <3>1, HeadsMean DEF next
  <2> QED BY <2>1, <2>2, <2>3
<1>16. next \notin HeadsOf(queues) \ {e}
  <2> SUFFICES ASSUME next \in HeadsOf(queues) PROVE next = e
    OBVIOUS
  <2>1. PICK t \in DOMAIN queues : next = <<Head(queues[t].entries).time, t>>
    BY HeadsMean
  <2>2. t = tid
    BY <2>1 DEF next
  <2> QED BY <1>1, <2>1, <2>2 DEF q, line
<1>17. time_threadid_min (-) SetToBag({e}) = SetToBag(HeadsOf(queues) \ {e})
  BY <1>1, BagRemove
<1>18. time_threadid_min' = SetToBag(HeadsOf(queues'))
  <2> DEFINE S == HeadsOf(queues)  S2 == HeadsOf(queues')
  <2>1. /\ \A d : d \in S2 <=> d \in S \ {e} \/ (left # <<>> /\ d = next)
        /\ next \notin S \ {e}
    BY <1>15, <1>16, Zenon
  <2> HIDE DEF S, S2
  <2>2. CASE left = <<>>
    <3> \A d : d \in S2 <=> d \in S \ {e}
      BY <2>1, <2>2, Zenon
    <3>1. S2 = S \ {e}
      OBVIOUS
    <3> QED BY <1>4, <1>17, <2>2, <3>1 DEF S, S2
  <2>3. CASE left # <<>>
    <3> \A d : d \in S2 <=> d \in (S \ {e}) \cup {next}
      <4>1. \A d : d \in S2 <=> d \in S \ {e} \/ d = next
        BY <2>1, <2>3, Zenon
      <4> QED BY <4>1
    <3>1. S2 = (S \ {e}) \cup {next}
      OBVIOUS
    <3>2. SetToBag(S \ {e}) (+) SetToBag({next}) = SetToBag(S2)
      BY <2>1, <3>1, BagAdd
    <3> QED BY <1>4, <1>17, <2>3, <3>2 DEF S, S2
  <2> QED BY <2>2, <2>3
<1> QED BY <1>1, <1>5, <1>8, <1>11, <1>14, <1>18 DEF line, q, tid

LEMMA MergeTopStep ==
  ASSUME MergeInv, MergeTop
  PROVE  /\ MergeInv'
         /\ \E e : IsTop(e) /\ MayGo(e[1]) /\ MergeEntry(e)
<1>1. /\ pc = "merge" /\ QueueInv /\ OutInv /\ ActiveInv /\ CacheInv
      /\ time_threadid_min = SetToBag(HeadsOf(queues))
      /\ Queued \subseteq Lines
  BY DEF MergeInv, MergeTop, HeapHasHeads, HeadsOf
<1>2. PICK e \in BagToSet(time_threadid_min) :
        /\ IsTop(e) /\ MayGo(e[1])
        /\ IF IsHead(e) THEN MergeEntry(e) ELSE pc' = "failed"
  BY DEF MergeTop
<1>3. IsHead(e) /\ MergeEntry(e) /\ e[1] \in Nat /\ \A line \in Queued : e[1] <= line.time
  BY <1>1, <1>2, HeapMeans
<1> DEFINE line == Head(queues[e[2]].entries)
<1>4. /\ QueueInv' /\ time_threadid_min' = SetToBag(HeadsOf(queues'))
      /\ line \in Queued /\ line \in Lines /\ line.time = e[1]
      /\ Queued' = Queued \ {line}
  BY <1>1, <1>2, <1>3, MergeEntryStep
<1>5. /\ trace' = trace /\ tt_list' = tt_list /\ safe_cache' = safe_cache
      /\ active_threads' = active_threads /\ out' = Append(out, line)
      /\ pc' = IF time_threadid_min' = EmptyBag THEN "read" ELSE "merge"
  BY <1>3 DEF MergeEntry
<1> HIDE DEF line
<1>6. ActiveInv' /\ CacheInv'
  BY <1>1, <1>5 DEF ActiveInv, CacheInv, Paired
<1>7. OutInv' /\ out' \in Seq(Lines)
  <2>1. e[1] <= Contract!Frontier(trace)
    BY <1>1, <1>2, MayGoMeans
  <2>2. /\ out' \in Seq(Lines) /\ DOMAIN out' = DOMAIN out \cup {Len(out) + 1}
        /\ \A i \in DOMAIN out : out'[i] = out[i]
        /\ out'[Len(out) + 1] = line
    BY <1>1, <1>4, <1>5, AppendLines DEF OutInv
  <2>3. ASSUME NEW i \in DOMAIN out'
        PROVE  /\ out'[i].time <= Contract!Frontier(trace)
               /\ \A x \in Queued : out'[i].time <= x.time
    BY <1>1, <1>3, <1>4, <2>1, <2>2 DEF OutInv
  <2> QED BY <1>4, <1>5, <2>2, <2>3 DEF OutInv
<1>8. RestInv'
  <2>1. pc' = "read" => Queued' = {}
    <3>1. time_threadid_min' = EmptyBag => HeadsOf(queues') = {}
      BY <1>4, BagEmpty
    <3>2. HeadsOf(queues') = {} => Queued' = {}
      <4>1. ASSUME NEW x \in Queued', HeadsOf(queues') = {} PROVE FALSE
        <5>1. PICK t \in DOMAIN queues' : queues'[t].entries # <<>>
          BY <4>1 DEF Queued, Entries
        <5> QED BY <4>1, <5>1, HeadsMean
      <4> QED BY <4>1
    <3> QED BY <1>5, <3>1, <3>2
  <2> QED BY <1>5, <2>1 DEF RestInv
<1>9. DOMAIN queues' \subseteq Ids /\ Queued' \subseteq Lines
  BY <1>1, <1>4 DEF QueueInv
<1>10. HeapHasHeads'
  BY <1>4 DEF HeapHasHeads, HeadsOf
<1> QED BY <1>2, <1>3, <1>4, <1>6, <1>7, <1>8, <1>9, <1>10 DEF MergeInv

LEMMA MergeStopsStep ==
  ASSUME MergeInv, MergeStops
  PROVE  MergeInv'
<1>1. /\ pc = "merge" /\ QueueInv /\ OutInv /\ ActiveInv /\ CacheInv /\ HeapHasHeads
      /\ time_threadid_min = SetToBag(HeadsOf(queues))
      /\ Queued \subseteq Lines /\ DOMAIN queues \subseteq Ids
  BY DEF MergeInv, MergeStops, HeapHasHeads, HeadsOf
<1>2. PICK e : IsTop(e) /\ ~MayGo(e[1])
  BY DEF MergeStops
<1>3. /\ Contract!ActiveIn(trace) # {} /\ e[1] > Contract!Frontier(trace)
      /\ e[1] \in Nat /\ \A line \in Queued : e[1] <= line.time
  BY <1>1, <1>2, HeapMeans, MayGoMeans
<1>4. pc' = "read" /\ UNCHANGED <<trace, out, queues, time_threadid_min, tt_list, safe_cache, active_threads>>
  BY DEF MergeStops
<1>5. \A line \in Queued : line.time > Contract!Frontier(trace)
  <2>1. Contract!Frontier(trace) \in Nat
    BY <1>1, FrontierMeans, BoundsAssumption DEF ActiveInv
  <2>2. \A line \in Queued : line.time \in Nat
    BY <1>1, LineTypes
  <2> QED BY <1>3, <2>1, <2>2
<1>6. Queued' = Queued
  BY <1>4 DEF Queued, Entries
<1>7. RestInv'
  BY <1>3, <1>4, <1>5, <1>6 DEF RestInv
<1>8. ActiveInv' /\ CacheInv' /\ QueueInv' /\ OutInv' /\ HeapHasHeads'
  BY <1>1, <1>4, <1>6 DEF ActiveInv, CacheInv, Paired, QueueInv, OutInv, HeapHasHeads
<1> QED BY <1>1, <1>4, <1>6, <1>7, <1>8 DEF MergeInv

LEMMA EndOfFileStep ==
  ASSUME MergeInv, EndOfFile
  PROVE  MergeInv'
<1>1. /\ pc = "read" /\ QueueInv /\ OutInv /\ ActiveInv /\ CacheInv /\ HeapHasHeads /\ RestInv
      /\ time_threadid_min = SetToBag(HeadsOf(queues))
      /\ Queued \subseteq Lines /\ DOMAIN queues \subseteq Ids
  BY DEF MergeInv, EndOfFile, HeapHasHeads, HeadsOf
<1>2. /\ UNCHANGED <<trace, out, queues, time_threadid_min, tt_list, safe_cache, active_threads>>
      /\ pc' = IF time_threadid_min = EmptyBag THEN "done" ELSE "left"
  BY DEF EndOfFile
<1>3. time_threadid_min = EmptyBag <=> Queued = {}
  BY <1>1, HeapMeans
<1>4. Queued' = Queued
  BY <1>2 DEF Queued, Entries
<1>5. RestInv'
  BY <1>1, <1>2, <1>3, <1>4 DEF RestInv
<1>6. ActiveInv' /\ CacheInv' /\ QueueInv' /\ OutInv' /\ HeapHasHeads'
  BY <1>1, <1>2, <1>4 DEF ActiveInv, CacheInv, Paired, QueueInv, OutInv, HeapHasHeads
<1> QED BY <1>1, <1>2, <1>4, <1>5, <1>6 DEF MergeInv

(***************************************************************************)
(* A line that is read                                                     *)
(***************************************************************************)
LEMMA ReadActive ==
  ASSUME ActiveInv, NEW line \in Lines, IsNext(line), ReadLine(line)
  PROVE  ActiveInv'
<1> DEFINE tid == line.tid
<1>1. /\ trace \in Seq(Lines) /\ \A t \in Ids : Paired(trace, t)
      /\ DOMAIN tt_list = Contract!ActiveIn(trace)
      /\ \A t \in DOMAIN tt_list : tt_list[t] = Contract!LastOf(trace, t)
      /\ IsFiniteSet(DOMAIN tt_list) /\ active_threads = Cardinality(DOMAIN tt_list)
      /\ Cardinality(DOMAIN tt_list) \in Nat
  BY FS_CardinalityType DEF ActiveInv
<1>2. Contract!MayFollow(trace, line)
  BY DEF IsNext
<1>3. /\ trace' = Append(trace, line)
      /\ active_threads' = CASE line.what = "tr" -> active_threads + 1
                             [] line.what = "tf" -> active_threads - 1
                             [] OTHER -> active_threads
      /\ line.what = "tf" => tt_list' = Drop(tt_list, tid)
      /\ line.what # "tf" /\ tid >= 0 => tt_list' = Put(tt_list, tid, line.time)
      /\ line.what # "tf" /\ ~(tid >= 0) => tt_list' = tt_list
  BY DEF ReadLine, ActiveAfter, FinishThread, SetTime
<1>4. /\ tid \in Ids /\ line.what \in {"tr", "tf", "thread_sync", "m"}
      /\ tid = Unregistered => line.what = "m"
      /\ tid >= 0 <=> tid # Unregistered
  BY LineTypes DEF Ids
<1>5. /\ \A t \in Ids : Paired(Append(trace, line), t)
      /\ Contract!ActiveIn(Append(trace, line)) =
           CASE line.what = "tr" -> Contract!ActiveIn(trace) \cup {tid}
             [] line.what = "tf" -> Contract!ActiveIn(trace) \ {tid}
             [] OTHER -> Contract!ActiveIn(trace)
      /\ line.what = "tr" => tid \notin Contract!ActiveIn(trace)
      /\ line.what # "tr" /\ tid # Unregistered => tid \in Contract!ActiveIn(trace)
      /\ line.time > Contract!LastOf(trace, tid)
  BY <1>1, <1>2, AppendActive
<1>6. \A t : Contract!LastOf(Append(trace, line), t) =
               IF t = tid THEN line.time ELSE Contract!LastOf(trace, t)
  BY <1>1, <1>5, AppendLastOf
<1>7. Append(trace, line) \in Seq(Lines)
  BY <1>1, AppendLines
<1> HIDE DEF tid
<1> DEFINE new == Append(trace, line)
<1>8. /\ DOMAIN tt_list' = Contract!ActiveIn(new)
      /\ \A t \in DOMAIN tt_list' : tt_list'[t] = Contract!LastOf(new, t)
      /\ IsFiniteSet(DOMAIN tt_list') /\ active_threads' = Cardinality(DOMAIN tt_list')
  <2> DEFINE D == DOMAIN tt_list
  <2>1. CASE line.what = "tr"
    <3>1. tt_list' = Put(tt_list, tid, line.time) /\ tid \notin D
      BY <1>1, <1>3, <1>4, <1>5, <2>1
    <3>2. DOMAIN tt_list' = D \cup {tid}
      BY <3>1 DEF Put
    <3>3. \A t \in DOMAIN tt_list' : tt_list'[t] = Contract!LastOf(new, t)
      BY <1>1, <1>6, <3>1 DEF Put
    <3>4. /\ IsFiniteSet(D \cup {tid}) /\ Cardinality(D \cup {tid}) = Cardinality(D) + 1
      BY <1>1, <3>1, FS_AddElement
    <3> QED BY <1>1, <1>3, <1>5, <2>1, <3>2, <3>3, <3>4
  <2>2. CASE line.what = "tf"
    <3>1. tt_list' = Drop(tt_list, tid) /\ tid \in D
      BY <1>1, <1>3, <1>4, <1>5, <2>2
    <3>2. DOMAIN tt_list' = D \ {tid}
      BY <3>1 DEF Drop
    <3>3. \A t \in DOMAIN tt_list' : tt_list'[t] = Contract!LastOf(new, t)
      BY <1>1, <1>6, <3>1 DEF Drop
    <3>4. IsFiniteSet(D \ {tid}) /\ Cardinality(D \ {tid}) = Cardinality(D) - 1
      BY <1>1, <3>1, FS_RemoveElement
    <3>5. DOMAIN tt_list' = Contract!ActiveIn(new) /\ active_threads' = Cardinality(D) - 1
      BY <1>1, <1>3, <1>5, <2>2, <3>2
    <3> QED BY <3>2, <3>3, <3>4, <3>5
  <2>3. CASE line.what \notin {"tr", "tf"} /\ tid >= 0
    <3>1. tt_list' = Put(tt_list, tid, line.time) /\ tid \in D
      BY <1>1, <1>3, <1>4, <1>5, <2>3
    <3>2. DOMAIN tt_list' = D
      BY <3>1 DEF Put
    <3>3. \A t \in DOMAIN tt_list' : tt_list'[t] = Contract!LastOf(new, t)
      BY <1>1, <1>6, <3>1 DEF Put
    <3> QED BY <1>1, <1>3, <1>5, <2>3, <3>2, <3>3
  <2>4. CASE line.what \notin {"tr", "tf"} /\ ~(tid >= 0)
    <3>1. tt_list' = tt_list /\ tid \notin D
      <4>1. tid \notin Contract!ActiveIn(trace)
        BY <1>2, <1>4, <2>4 DEF Contract!MayFollow, Unregistered, tid
      <4> QED BY <1>1, <1>3, <2>4, <4>1
    <3>2. \A t \in DOMAIN tt_list' : tt_list'[t] = Contract!LastOf(new, t)
      BY <1>1, <1>6, <3>1
    <3> QED BY <1>1, <1>3, <1>5, <2>4, <3>1, <3>2
  <2> QED BY <2>1, <2>2, <2>3, <2>4
<1>9. /\ trace' \in Seq(Lines) /\ \A t \in Ids : Paired(trace', t)
      /\ DOMAIN tt_list' = Contract!ActiveIn(trace')
      /\ \A t \in DOMAIN tt_list' : tt_list'[t] = Contract!LastOf(trace', t)
  BY <1>3, <1>5, <1>7, <1>8
<1> QED BY <1>8, <1>9 DEF ActiveInv, Paired

\* The least of the times in a list that has any.
LEMMA LeastTime ==
  ASSUME NEW f, \A t \in DOMAIN f : f[t] \in Nat, DOMAIN f # {}
  PROVE  /\ IsLeast(Smallest({f[t] : t \in DOMAIN f}), {f[t] : t \in DOMAIN f})
         /\ Smallest({f[t] : t \in DOMAIN f}) \in Nat
<1> DEFINE S == {f[t] : t \in DOMAIN f}
<1>1. S \subseteq Nat /\ S # {}
  OBVIOUS
<1> HIDE DEF S
<1>2. \E n \in S : IsLeast(n, S)
  BY <1>1, LeastNumber DEF IsLeast
<1>3. Smallest(S) \in S /\ IsLeast(Smallest(S), S)
  BY <1>2 DEF Smallest
<1> QED BY <1>1, <1>3 DEF S

LEMMA UpdatedIsLeast ==
  ASSUME NEW f, \A t \in DOMAIN f : f[t] \in Nat, DOMAIN f = {} => f = <<>>,
         safe_cache \in Nat
  PROVE  /\ UpdatedCache(f) \in Nat
         /\ DOMAIN f # {} => IsLeast(UpdatedCache(f), {f[t] : t \in DOMAIN f})
<1>1. CASE DOMAIN f = {}
  BY <1>1 DEF UpdatedCache
<1>2. CASE DOMAIN f # {}
  <2>1. f # <<>>
    BY <1>2
  <2> QED BY <1>2, <2>1, LeastTime DEF UpdatedCache
<1> QED BY <1>1, <1>2

LEMMA ReadCache ==
  ASSUME ActiveInv, CacheInv, NEW line \in Lines, IsNext(line), ReadLine(line)
  PROVE  CacheInv'
<1> DEFINE tid == line.tid
<1>1. ActiveInv'
  BY ReadActive
<1>2. \A t \in DOMAIN tt_list : tt_list[t] \in Nat
  BY LastOfIsLast, BoundsAssumption DEF ActiveInv
<1>3. \A t \in DOMAIN tt_list' : tt_list'[t] \in Nat
  BY <1>1, LastOfIsLast, BoundsAssumption DEF ActiveInv
<1>4. safe_cache \in Nat /\ (DOMAIN tt_list # {} =>
                               IsLeast(safe_cache, {tt_list[t] : t \in DOMAIN tt_list}))
  BY DEF CacheInv
<1>5. CASE safe_cache' = UpdatedCache(tt_list') /\ (DOMAIN tt_list' = {} => tt_list' = <<>>)
  <2> DEFINE f == tt_list'
  <2>1. (\A t \in DOMAIN f : f[t] \in Nat) /\ safe_cache' = UpdatedCache(f)
        /\ (DOMAIN f = {} => f = <<>>)
    BY <1>3, <1>5
  <2> HIDE DEF f
  <2>2. /\ safe_cache' \in Nat
        /\ DOMAIN f # {} => IsLeast(safe_cache', {f[t] : t \in DOMAIN f})
    BY <1>4, <2>1, UpdatedIsLeast
  <2> QED BY <2>2 DEF CacheInv, IsLeast, f
<1>6. CASE line.what = "tf"
  <2>1. safe_cache' = UpdatedCache(tt_list') /\ tt_list' = Drop(tt_list, tid)
    BY <1>6 DEF ReadLine, FinishThread
  <2>2. DOMAIN tt_list' = DOMAIN tt_list \ {tid}
    BY <2>1 DEF Drop
  <2>3. DOMAIN tt_list' = {} => tt_list' = <<>>
    BY <2>1, <2>2, DropAll
  <2> QED BY <1>5, <2>1, <2>3
<1>7. CASE line.what # "tf" /\ tid >= 0
  <2>1. /\ tt_list' = Put(tt_list, tid, line.time)
        /\ safe_cache' = IF NeedUpdate(tid) THEN UpdatedCache(tt_list') ELSE safe_cache
    BY <1>7 DEF ReadLine, SetTime
  <2>2. DOMAIN tt_list' # {}
    BY <2>1 DEF Put
  <2>3. CASE NeedUpdate(tid)
    BY <1>5, <2>1, <2>2, <2>3
  <2>4. CASE ~NeedUpdate(tid)
    <3>1. tid \in DOMAIN tt_list /\ tt_list[tid] > safe_cache /\ safe_cache' = safe_cache
      BY <1>2, <1>4, <2>1, <2>4 DEF NeedUpdate
    <3>2. /\ DOMAIN tt_list' = DOMAIN tt_list
          /\ \A t \in DOMAIN tt_list : tt_list'[t] = IF t = tid THEN line.time ELSE tt_list[t]
      BY <2>1, <3>1 DEF Put
    <3>3. line.time > tt_list[tid] /\ line.time \in Nat
      BY <3>1, LineTypes DEF ActiveInv, IsNext, Contract!MayFollow
    <3>4. /\ \E t \in DOMAIN tt_list : safe_cache = tt_list[t]
          /\ \A t \in DOMAIN tt_list : safe_cache <= tt_list[t]
      BY <1>4, <3>1 DEF IsLeast
    <3>5. \A t \in DOMAIN tt_list' : safe_cache <= tt_list'[t]
      BY <1>2, <1>4, <3>1, <3>2, <3>3, <3>4
    <3>6. \E t \in DOMAIN tt_list' : safe_cache = tt_list'[t]
      <4>1. PICK t \in DOMAIN tt_list : safe_cache = tt_list[t]
        BY <3>4
      <4>2. t # tid
        BY <1>2, <1>4, <3>1, <4>1
      <4> QED BY <3>2, <4>1, <4>2
    <3>7. IsLeast(safe_cache, {tt_list'[t] : t \in DOMAIN tt_list'})
      BY <3>5, <3>6 DEF IsLeast
    <3> QED BY <1>4, <3>1, <3>7 DEF CacheInv, IsLeast
  <2> QED BY <2>3, <2>4
<1>8. CASE line.what # "tf" /\ ~(tid >= 0)
  <2>1. tt_list' = tt_list /\ safe_cache' = safe_cache
    BY <1>8 DEF ReadLine
  <2> QED BY <1>4, <2>1 DEF CacheInv, IsLeast
<1> QED BY <1>6, <1>7, <1>8

LEMMA ReadQueued ==
  ASSUME QueueInv, NEW line \in Lines, ReadLine(line)
  PROVE  /\ DOMAIN queues' \subseteq Ids
         /\ Queued' = IF line.what = "thread_sync" THEN Queued ELSE Queued \cup {line}
<1> DEFINE tid == line.tid
           q == QueueOf(line.tid)
           q2 == Enqueue(q, line, line.what = "tf")
<1>1. CASE line.what = "thread_sync"
  <2>1. queues' = queues
    BY <1>1 DEF ReadLine
  <2>2. Queued' = Queued
    BY <2>1 DEF Queued, Entries
  <2> QED BY <1>1, <2>1, <2>2 DEF QueueInv
<1>2. CASE line.what # "thread_sync"
  <2>1. queues' = Put(queues, tid, q2)
    BY <1>2 DEF ReadLine
  <2>2. /\ DOMAIN queues' = DOMAIN queues \cup {tid}
        /\ queues'[tid] = q2
        /\ \A t \in DOMAIN queues : t # tid => queues'[t] = queues[t]
    BY <2>1 DEF Put
  <2>3. tid \in Ids
    BY LineTypes
  <2>4. /\ q2.entries = Append(q.entries, line) /\ q.entries \in Seq(Lines)
        /\ tid \in DOMAIN queues => q = queues[tid]
        /\ tid \notin DOMAIN queues => q.entries = <<>>
    <3>1. CASE tid \in DOMAIN queues
      BY <3>1 DEF QueueInv, QueueOK, QueueOf, Enqueue
    <3>2. CASE tid \notin DOMAIN queues
      <4>1. <<>> \in Seq(Lines)
        OBVIOUS
      <4> QED BY <3>2, <4>1 DEF QueueOf, NewQueue, Enqueue
    <3> QED BY <3>1, <3>2
  <2>5. /\ DOMAIN q2.entries = DOMAIN q.entries \cup {Len(q.entries) + 1}
        /\ \A i \in DOMAIN q.entries : q2.entries[i] = q.entries[i]
        /\ q2.entries[Len(q.entries) + 1] = line
    BY <2>4, AppendLines
  <2>6. \A x : x \in Queued <=> \E t \in DOMAIN queues : \E i \in DOMAIN queues[t].entries :
                                  x = queues[t].entries[i]
    BY DEF Queued, Entries
  <2>7. \A x : x \in Queued' <=> \E t \in DOMAIN queues' : \E i \in DOMAIN queues'[t].entries :
                                    x = queues'[t].entries[i]
    BY DEF Queued, Entries
  <2> HIDE DEF q, q2, tid
  <2>8. ASSUME NEW x \in Queued' PROVE x \in Queued \/ x = line
    <3> PICK t \in DOMAIN queues' : \E i \in DOMAIN queues'[t].entries : x = queues'[t].entries[i]
      BY <2>7, <2>8
    <3>1. PICK i \in DOMAIN queues'[t].entries : x = queues'[t].entries[i]
      OBVIOUS
    <3>2. CASE t # tid
      BY <2>2, <2>6, <3>1, <3>2
    <3>3. CASE t = tid /\ i \notin DOMAIN q.entries
      BY <2>2, <2>5, <3>1, <3>3
    <3>4. CASE t = tid /\ i \in DOMAIN q.entries
      <4>1. x = q.entries[i] /\ tid \in DOMAIN queues
        BY <2>2, <2>4, <2>5, <3>1, <3>4
      <4> QED BY <2>4, <2>6, <3>4, <4>1
    <3> QED BY <3>2, <3>3, <3>4
  <2>9. line \in Queued'
    BY <2>2, <2>5, <2>7
  <2>10. ASSUME NEW x \in Queued PROVE x \in Queued'
    <3> PICK t \in DOMAIN queues : \E i \in DOMAIN queues[t].entries : x = queues[t].entries[i]
      BY <2>6, <2>10
    <3>1. PICK i \in DOMAIN queues[t].entries : x = queues[t].entries[i]
      OBVIOUS
    <3>2. CASE t # tid
      BY <2>2, <2>7, <3>1, <3>2
    <3>3. CASE t = tid
      BY <2>2, <2>4, <2>5, <2>7, <3>1, <3>3
    <3> QED BY <3>2, <3>3
  <2>11. Queued' = Queued \cup {line}
    <3> DEFINE A == Queued'  B == Queued
    <3>1. \A x : x \in A <=> x \in B \cup {line}
      BY <2>8, <2>9, <2>10
    <3> HIDE DEF A, B
    <3>2. A = B \cup {line}
      BY <3>1
    <3> QED BY <3>2 DEF A, B
  <2> QED BY <1>2, <2>2, <2>3, <2>11 DEF QueueInv
<1> QED BY <1>1, <1>2

LEMMA ReadQueues ==
  ASSUME ActiveInv, QueueInv, time_threadid_min = SetToBag(HeadsOf(queues)),
         NEW line \in Lines, IsNext(line), ReadLine(line), Accepts(line)
  PROVE  QueueInv' /\ time_threadid_min' = SetToBag(HeadsOf(queues'))
<1> DEFINE tid == line.tid
           q == QueueOf(line.tid)
           q2 == Enqueue(q, line, line.what = "tf")
           entry == <<line.time, line.tid>>
<1>1. /\ trace \in Seq(Lines) /\ \A t \in Ids : Paired(trace, t)
      /\ Contract!MayFollow(trace, line) /\ trace' = Append(trace, line)
      /\ DOMAIN queues' \subseteq Ids
  BY ReadQueued DEF ActiveInv, IsNext, ReadLine
<1>2. \A t \in DOMAIN queues : QueueOK(trace, t, queues[t])
  BY DEF QueueInv
<1>3. CASE line.what = "thread_sync"
  <2>1. queues' = queues /\ time_threadid_min' = time_threadid_min
    BY <1>3 DEF ReadLine
  <2>2. \A t \in DOMAIN queues : QueueOK(trace', t, queues[t])
    BY <1>1, <1>2, <1>3, KeepOK
  <2>3. \A t \in DOMAIN queues' : QueueOK(trace', t, queues'[t])
    BY <2>1, <2>2
  <2>4. QueueInv'
    BY <1>1, <2>3 DEF QueueInv, QueueOK
  <2> QED BY <2>1, <2>4
<1>4. CASE line.what # "thread_sync"
  <2>1. /\ queues' = Put(queues, tid, q2) /\ MayEnqueue(q, line.time)
        /\ time_threadid_min' = IF q.entries = <<>>
                                THEN time_threadid_min (+) SetToBag({entry})
                                ELSE time_threadid_min
    BY <1>4 DEF ReadLine, Accepts, PushHead
  <2>2. /\ DOMAIN queues' = DOMAIN queues \cup {tid}
        /\ queues'[tid] = q2
        /\ \A t \in DOMAIN queues : t # tid => queues'[t] = queues[t]
    BY <2>1 DEF Put
  <2>3. QueueOK(trace, tid, q)
    BY <1>1, <1>2, EmptyQueueOK DEF QueueOf
  <2>4. QueueOK(trace', tid, q2)
    BY <1>1, <2>1, <2>3, EnqueueOK
  <2>5. \A t \in DOMAIN queues' : QueueOK(trace', t, queues'[t])
    <3>1. \A t \in DOMAIN queues : t # tid => QueueOK(trace', t, queues[t])
      BY <1>1, <1>2, KeepOK
    <3> QED BY <2>2, <2>4, <3>1
  <2>6. QueueInv'
    BY <1>1, <2>5 DEF QueueInv, QueueOK
  <2>7. /\ q.entries \in Seq(Lines) /\ q2.entries = Append(q.entries, line)
        /\ tid \in DOMAIN queues => q = queues[tid]
        /\ tid \notin DOMAIN queues => q.entries = <<>>
    BY <2>3 DEF QueueOK, QueueOf, NewQueue, Enqueue
  <2>8. /\ q2.entries # <<>>
        /\ q.entries = <<>> => Head(q2.entries) = line
        /\ q.entries # <<>> => Head(q2.entries) = Head(q.entries)
    <3>1. /\ Len(q.entries) + 1 \in DOMAIN q2.entries
          /\ \A i \in DOMAIN q.entries : q2.entries[i] = q.entries[i]
          /\ q2.entries[Len(q.entries) + 1] = line
          /\ q2.entries \in Seq(Lines)
      BY <2>7, AppendLines
    <3>2. q2.entries # <<>>
      BY <3>1
    <3>3. Head(q2.entries) = q2.entries[1]
      BY <3>1, <3>2, TailLines
    <3>4. CASE q.entries = <<>>
      <4>1. Len(q.entries) + 1 = 1
        BY <3>4
      <4> QED BY <3>1, <3>2, <3>3, <3>4, <4>1
    <3>5. CASE q.entries # <<>>
      BY <2>7, <3>1, <3>2, <3>3, <3>5, TailLines
    <3> QED BY <3>4, <3>5
  <2> HIDE DEF q, q2
  <2>9. \A d : d \in HeadsOf(queues') <=> d \in HeadsOf(queues) \/ (q.entries = <<>> /\ d = entry)
    <3>1. ASSUME NEW d \in HeadsOf(queues')
          PROVE  d \in HeadsOf(queues) \/ (q.entries = <<>> /\ d = entry)
      <4>1. PICK t \in DOMAIN queues' :
              queues'[t].entries # <<>> /\ d = <<Head(queues'[t].entries).time, t>>
        BY <3>1, HeadsMean
      <4>2. CASE t = tid
        <5>1. d = <<Head(q2.entries).time, tid>>
          BY <2>2, <4>1, <4>2
        <5>2. CASE q.entries = <<>>
          BY <2>8, <5>1, <5>2
        <5>3. CASE q.entries # <<>>
          <6>1. tid \in DOMAIN queues /\ queues[tid] = q /\ d = <<Head(q.entries).time, tid>>
            BY <2>7, <2>8, <5>1, <5>3
          <6> QED BY <5>3, <6>1, HeadsMean
        <5> QED BY <5>2, <5>3
      <4>3. CASE t # tid
        <5>1. t \in DOMAIN queues /\ queues'[t] = queues[t]
          BY <2>2, <4>3
        <5> QED BY <4>1, <5>1, HeadsMean
      <4> QED BY <4>2, <4>3
    <3>2. ASSUME NEW d \in HeadsOf(queues) PROVE d \in HeadsOf(queues')
      <4>1. PICK t \in DOMAIN queues :
              queues[t].entries # <<>> /\ d = <<Head(queues[t].entries).time, t>>
        BY <3>2, HeadsMean
      <4>2. CASE t = tid
        <5>1. q = queues[tid] /\ q.entries # <<>> /\ d = <<Head(q.entries).time, tid>>
          BY <2>7, <4>1, <4>2
        <5>2. d = <<Head(queues'[tid].entries).time, tid>> /\ queues'[tid].entries # <<>>
          BY <2>2, <2>8, <5>1
        <5> QED BY <2>2, <5>2, HeadsMean
      <4>3. CASE t # tid
        <5>1. t \in DOMAIN queues' /\ queues'[t] = queues[t]
          BY <2>2, <4>3
        <5> QED BY <4>1, <5>1, HeadsMean
      <4> QED BY <4>2, <4>3
    <3>3. ASSUME q.entries = <<>> PROVE entry \in HeadsOf(queues')
      <4>1. /\ tid \in DOMAIN queues' /\ queues'[tid].entries # <<>>
            /\ Head(queues'[tid].entries) = line
        BY <2>2, <2>8, <3>3
      <4> QED BY <4>1, HeadsMean
    <3> QED BY <3>1, <3>2, <3>3
  <2>10. q.entries = <<>> => entry \notin HeadsOf(queues)
    <3> SUFFICES ASSUME q.entries = <<>>, entry \in HeadsOf(queues) PROVE FALSE
      OBVIOUS
    <3>1. PICK t \in DOMAIN queues :
            queues[t].entries # <<>> /\ entry = <<Head(queues[t].entries).time, t>>
      BY HeadsMean
    <3>2. t = tid
      BY <3>1
    <3> QED BY <2>7, <3>1, <3>2
  <2>11. time_threadid_min' = SetToBag(HeadsOf(queues'))
    <3> DEFINE S == HeadsOf(queues)  S2 == HeadsOf(queues')
    <3>1. /\ \A d : d \in S2 <=> d \in S \/ (q.entries = <<>> /\ d = entry)
          /\ q.entries = <<>> => entry \notin S
      BY <2>9, <2>10, Zenon
    <3> HIDE DEF S, S2, entry
    <3>2. CASE q.entries # <<>>
      <4>1. \A d : d \in S2 <=> d \in S
        BY <3>1, <3>2, Zenon
      <4>2. S2 = S
        BY <4>1
      <4> QED BY <2>1, <3>2, <4>2 DEF S, S2
    <3>3. CASE q.entries = <<>>
      <4>1. \A d : d \in S2 <=> d \in S \cup {entry}
        <5>1. \A d : d \in S2 <=> d \in S \/ d = entry
          BY <3>1, <3>3, Zenon
        <5> QED BY <5>1
      <4>2. S2 = S \cup {entry}
        BY <4>1
      <4>3. SetToBag(S) (+) SetToBag({entry}) = SetToBag(S2)
        BY <3>1, <3>3, <4>2, BagAdd
      <4> QED BY <2>1, <3>3, <4>3 DEF S, S2
    <3> QED BY <3>2, <3>3
  <2> QED BY <2>6, <2>11
<1> QED BY <1>3, <1>4

LEMMA ReadNextLineStep ==
  ASSUME MergeInv, NEW line \in Lines, IsNext(line), ReadLine(line)
  PROVE  MergeInv'
<1>1. /\ pc = "read" /\ ActiveInv /\ CacheInv /\ QueueInv /\ OutInv /\ RestInv
      /\ time_threadid_min = SetToBag(HeadsOf(queues))
      /\ Queued \subseteq Lines /\ DOMAIN queues \subseteq Ids
  BY DEF MergeInv, ReadLine, HeapHasHeads, HeadsOf
<1>2. /\ trace' = Append(trace, line) /\ out' = out
      /\ pc' = IF ~Accepts(line) THEN "failed"
               ELSE IF line.what = "thread_sync" THEN "read" ELSE "merge"
  BY DEF ReadLine
<1>3. ActiveInv' /\ CacheInv'
  BY <1>1, ReadActive, ReadCache
<1>4. /\ DOMAIN queues' \subseteq Ids
      /\ Queued' = IF line.what = "thread_sync" THEN Queued ELSE Queued \cup {line}
  BY <1>1, ReadQueued
<1>5. Queued' \subseteq Lines /\ out' \in Seq(Lines)
  BY <1>1, <1>2, <1>4 DEF OutInv
<1>6. /\ trace \in Seq(Lines) /\ trace' \in Seq(Lines) /\ \A tid \in Ids : Paired(trace, tid)
      /\ Contract!MayFollow(trace, line)
      /\ Len(trace') = Len(trace) + 1 /\ trace'[Len(trace) + 1] = line
  BY <1>1, <1>2, AppendLines DEF ActiveInv, IsNext
<1>7. RestInv'
  <2>1. CASE pc' # "read"
    BY <1>2, <2>1 DEF RestInv
  <2>2. CASE pc' = "read"
    <3>1. line.what = "thread_sync"
      BY <1>2, <2>2
    <3>2. Contract!ActiveIn(trace') # {}
      <4>1. line.tid \in Contract!ActiveIn(trace)
        BY <1>6, <3>1, AppendActive, LineTypes
      <4>2. Contract!ActiveIn(trace') = Contract!ActiveIn(trace)
        BY <1>2, <1>6, <3>1, AppendActive
      <4> QED BY <4>1, <4>2
    <3>3. trace'[Len(trace')].what = "thread_sync"
      BY <1>6, <3>1
    <3> QED BY <2>2, <3>2, <3>3 DEF RestInv
  <2> QED BY <2>1, <2>2
<1>8. ASSUME pc' # "failed" PROVE QueueInv' /\ HeapHasHeads' /\ OutInv'
  <2>1. Accepts(line)
    BY <1>2, <1>8
  <2>2. QueueInv' /\ time_threadid_min' = SetToBag(HeadsOf(queues'))
    BY <1>1, <2>1, ReadQueues
  <2>3. HeapHasHeads'
    BY <2>2 DEF HeapHasHeads, HeadsOf
  <2>4. /\ line.time > Contract!Frontier(trace)
        /\ Contract!Frontier(trace') >= Contract!Frontier(trace)
    BY <1>2, <1>6, AppendFrontier
  <2>5. /\ Contract!Frontier(trace) \in Nat /\ Contract!Frontier(trace') \in Nat
        /\ line.time \in Nat
    BY <1>6, FrontierMeans, LineTypes, BoundsAssumption
  <2>6. ASSUME NEW i \in DOMAIN out
        PROVE  /\ out[i].time <= Contract!Frontier(trace')
               /\ \A x \in Queued' : out[i].time <= x.time
    <3>1. /\ out[i].time <= Contract!Frontier(trace)
          /\ \A x \in Queued : out[i].time <= x.time
          /\ out[i].time \in Nat
      BY <1>1, FileLines, BoundsAssumption DEF OutInv
    <3> QED BY <1>4, <2>4, <2>5, <3>1
  <2>7. OutInv'
    BY <1>2, <1>5, <2>6 DEF OutInv
  <2> QED BY <2>2, <2>3, <2>7
<1> QED BY <1>3, <1>4, <1>5, <1>7, <1>8 DEF MergeInv

(***************************************************************************)
(* The invariant holds                                                     *)
(***************************************************************************)
LEMMA MergeInvInit == Init => MergeInv
<1> SUFFICES ASSUME Init PROVE MergeInv
  OBVIOUS
<1>1. /\ trace = <<>> /\ out = <<>> /\ pc = "read" /\ queues = <<>> /\ tt_list = <<>>
      /\ time_threadid_min = EmptyBag /\ safe_cache = 0 /\ active_threads = 0
  BY DEF Init
<1>2. <<>> \in Seq(Lines) /\ DOMAIN <<>> = {}
  OBVIOUS
<1>3. \A tid, what : Contract!Count(<<>>, tid, what) = Cardinality({})
  BY <1>2 DEF Contract!Count, Contract!Quantify, Contract!Cardinality, Cardinality
<1>4. \A tid : Paired(<<>>, tid)
  BY <1>3 DEF Paired
<1>5. Contract!ActiveIn(<<>>) = {}
  BY <1>2 DEF Contract!ActiveIn
<1>6. IsFiniteSet({}) /\ Cardinality({}) = 0
  BY FS_EmptySet
<1>7. ActiveInv
  BY <1>1, <1>2, <1>4, <1>5, <1>6 DEF ActiveInv
<1>8. CacheInv
  BY <1>1, <1>2 DEF CacheInv
<1>9. QueueInv /\ Queued = {} /\ HeadsOf(queues) = {}
  BY <1>1, <1>2 DEF QueueInv, Queued, HeadsOf
<1>10. HeapHasHeads
  BY <1>1, <1>9, BagEmpty DEF HeapHasHeads, HeadsOf
<1>11. OutInv
  BY <1>1, <1>2 DEF OutInv
<1>12. RestInv
  BY <1>1, <1>9 DEF RestInv
<1> QED BY <1>1, <1>2, <1>7, <1>8, <1>9, <1>10, <1>11, <1>12 DEF MergeInv, QueueInv

LEMMA MergeInvStep == MergeInv /\ [Next]_vars => MergeInv'
<1> SUFFICES ASSUME MergeInv, [Next]_vars PROVE MergeInv'
  OBVIOUS
<1>1. CASE ReadNextLine
  BY <1>1, ReadNextLineStep DEF ReadNextLine
<1>2. CASE MergeTop
  BY <1>2, MergeTopStep
<1>3. CASE MergeStops
  BY <1>3, MergeStopsStep
<1>4. CASE EndOfFile
  BY <1>4, EndOfFileStep
<1>5. CASE UNCHANGED vars
  <2>1. UNCHANGED <<trace, out, pc, queues, time_threadid_min, tt_list, safe_cache, active_threads>>
    BY <1>5 DEF vars
  <2>2. Queued' = Queued
    BY <2>1 DEF Queued, Entries
  <2> QED BY <2>1, <2>2 DEF MergeInv, ActiveInv, CacheInv, Paired, RestInv, QueueInv, OutInv, HeapHasHeads
<1> QED BY <1>1, <1>2, <1>3, <1>4, <1>5 DEF Next

LEMMA MergeInvHolds == Spec => []MergeInv
  BY MergeInvInit, MergeInvStep, PTL DEF Spec

\* Only registered threads are active.
LEMMA ActiveTids ==
  ASSUME NEW file \in Seq(Lines)
  PROVE  Contract!ActiveIn(file) \subseteq Tids /\ Contract!Count(file, Unregistered, "tr") = 0
<1>1. Contract!Count(file, Unregistered, "tr") = 0
  <2>1. {i \in DOMAIN file : file[i].tid = Unregistered /\ file[i].what = "tr"} = {}
    BY FileLines, LineTypes
  <2>2. Contract!Count(file, Unregistered, "tr") = Cardinality({})
    BY <2>1 DEF Contract!Count, Contract!Quantify, Contract!Cardinality, Cardinality
  <2> QED BY <2>2, FS_EmptySet
<1>2. ASSUME NEW tid \in Contract!ActiveIn(file) PROVE tid \in Tids
  <2>1. PICK i \in DOMAIN file : file[i].tid = tid
    BY <1>2 DEF Contract!ActiveIn
  <2>2. file[i] \in Lines /\ tid \in Ids
    BY <2>1, FileLines, LineTypes
  <2>3. tid # Unregistered
    <3> SUFFICES ASSUME tid = Unregistered PROVE FALSE
      OBVIOUS
    <3>1. Contract!Count(file, tid, "tr") > Contract!Count(file, tid, "tf")
      BY <1>2, ActiveMeans
    <3>2. Contract!Count(file, tid, "tf") \in Nat
      BY <2>2, AppendCount
    <3> QED BY <1>1, <3>1, <3>2
  <2> QED BY <2>2, <2>3 DEF Ids
<1> QED BY <1>1, <1>2

\* Where no id is registered again, every line that may follow passes the
\* asserts on its way to a queue.
LEMMA AcceptsNext ==
  ASSUME ~Reuse, ActiveInv, QueueInv, NEW line \in Lines, IsNext(line)
  PROVE  Accepts(line)
<1>1. /\ trace \in Seq(Lines) /\ \A tid \in Ids : Paired(trace, tid)
      /\ DOMAIN tt_list = Contract!ActiveIn(trace)
      /\ Contract!MayFollow(trace, line)
      /\ line.what = "tr" => Contract!Count(trace, line.tid, "tr") = 0
  BY DEF ActiveInv, IsNext
<1>2. /\ line.what # "tr" /\ line.tid # Unregistered => line.tid \in Contract!ActiveIn(trace)
      /\ line.time > Contract!LastOf(trace, line.tid)
  BY <1>1, AppendActive
<1>3. /\ line.tid = Unregistered => line.what = "m"
      /\ line.time \in Nat /\ line.time > 0
  BY LineTypes
<1>4. line.what = "tf" => line.tid \in DOMAIN tt_list
  BY <1>1, <1>2, <1>3
<1>5. MayEnqueue(QueueOf(line.tid), line.time)
  <2>1. CASE line.tid \notin DOMAIN queues
    BY <1>3, <2>1 DEF MayEnqueue, QueueOf, NewQueue
  <2>2. CASE line.tid \in DOMAIN queues
    <3> DEFINE q == queues[line.tid]
    <3>1. /\ q.max_timestamp \in Nat /\ q.max_timestamp <= Contract!LastOf(trace, line.tid)
          /\ q.finished => /\ line.tid \notin Contract!ActiveIn(trace)
                           /\ Contract!Count(trace, line.tid, "tr") > 0
      BY <2>2 DEF QueueInv, QueueOK
    <3>2. Contract!LastOf(trace, line.tid) \in Nat
      BY <1>1, LastOfIsLast, BoundsAssumption
    <3>3. line.time > q.max_timestamp
      BY <1>2, <1>3, <3>1, <3>2
    <3>4. ~q.finished
      <4>1. Contract!Count(trace, line.tid, "tr") > 0 =>
              Contract!Count(trace, line.tid, "tr") # 0
        OBVIOUS
      <4>2. CASE line.what = "tr"
        BY <1>1, <3>1, <4>1, <4>2
      <4>3. CASE line.tid = Unregistered
        BY <1>1, <3>1, <4>1, <4>3, ActiveTids
      <4> QED BY <1>2, <3>1, <4>2, <4>3
    <3> QED BY <2>2, <3>3, <3>4 DEF MayEnqueue, QueueOf
  <2> QED BY <2>1, <2>2
<1> QED BY <1>4, <1>5 DEF Accepts

LEMMA NeverFails == ~Reuse => (Spec => [](pc # "failed"))
<1> SUFFICES ASSUME ~Reuse PROVE Spec => [](pc # "failed")
  OBVIOUS
<1>1. Init => pc # "failed"
  BY DEF Init
<1>2. MergeInv /\ pc # "failed" /\ [Next]_vars => (pc # "failed")'
  <2> SUFFICES ASSUME MergeInv, pc # "failed", [Next]_vars PROVE pc' # "failed"
    OBVIOUS
  <2>1. ASSUME NEW line \in Lines, IsNext(line), ReadLine(line) PROVE pc' # "failed"
    <3>1. Accepts(line)
      BY <2>1, AcceptsNext DEF MergeInv
    <3> QED BY <2>1, <3>1 DEF ReadLine
  <2>2. CASE MergeTop
    BY <2>2, MergeTopStep DEF MergeEntry
  <2>3. CASE MergeStops
    BY <2>3 DEF MergeStops
  <2>4. CASE EndOfFile
    BY <2>4 DEF EndOfFile
  <2>5. CASE UNCHANGED vars
    BY <2>5 DEF vars
  <2> QED BY <2>1, <2>2, <2>3, <2>4, <2>5 DEF Next, ReadNextLine
<1> QED BY <1>1, <1>2, MergeInvHolds, PTL DEF Spec

(***************************************************************************)
(* Theorems                                                                *)
(***************************************************************************)
\* The lines read, queued and written are lines of the file, and the queues
\* and the times the utility keeps are those of threads (thread_queue_map,
\* safe_timestamp, active_threads).
THEOREM TypeCorrect == Spec => []TypeOK
<1>1. MergeInv => TypeOK
  <2> SUFFICES ASSUME MergeInv PROVE TypeOK
    OBVIOUS
  <2>1. DOMAIN tt_list \subseteq Tids
    BY ActiveTids DEF MergeInv, ActiveInv
  <2>2. active_threads \in Nat
    BY ActiveCount DEF MergeInv
  <2>3. trace \in Seq(Lines) /\ safe_cache \in Nat
    BY DEF MergeInv, ActiveInv, CacheInv
  <2> QED BY <2>1, <2>2, <2>3 DEF MergeInv, TypeOK, RestInv, Ids
<1> QED BY <1>1, MergeInvHolds, PTL

\* The heap of merge.cpp has exactly the earliest line of every thread that
\* has one queued, so its top is the earliest line of all: what push_head in
\* main and the push after a pop in merge() have to keep up between them.
THEOREM HeapIsHeads == Spec => []HeapHasHeads
<1>1. MergeInv => HeapHasHeads
  BY DEF MergeInv, HeapHasHeads
<1> QED BY <1>1, MergeInvHolds, PTL

\* merge() holds no line back that it could write, and the cached minimum of
\* safe_timestamp_t is the frontier of the file, however often set_time took
\* the cache for still good.
THEOREM AllowableAreMerged == Spec => []MergesAllAllowable
<1>1. MergeInv => MergesAllAllowable
  BY CacheIsFrontier DEF MergeInv, RestInv, MergesAllAllowable
<1> QED BY <1>1, MergeInvHolds, PTL

\* No assert of merge.cpp fails on a file the pintool may write, nor on any
\* beginning of one, save the last one if the file ends before its threads;
\* an id that is registered again once its thread has finished is excluded.
THEOREM AssertsNeverFail == ~Reuse => (Spec => []AssertsHold)
<1> SUFFICES ASSUME ~Reuse PROVE Spec => []AssertsHold
  OBVIOUS
<1>1. MergeInv /\ pc # "failed" => AssertsHold
  BY DEF MergeInv, RestInv, AssertsHold
<1>2. Spec => [](pc # "failed")
  BY NeverFails
<1> QED BY <1>1, <1>2, MergeInvHolds, PTL

(***************************************************************************)
(* The utility sorts a stream                                              *)
(***************************************************************************)
\* A line that may follow is later than every line queued for its thread.
LEMMA NextIsNew ==
  ASSUME ActiveInv, QueueInv, NEW line \in Lines, IsNext(line)
  PROVE  line \notin Queued
<1> SUFFICES ASSUME line \in Queued PROVE FALSE
  OBVIOUS
<1> PICK tid \in DOMAIN queues : \E i \in DOMAIN queues[tid].entries : line = queues[tid].entries[i]
  BY DEF Queued, Entries
<1>1. PICK i \in DOMAIN queues[tid].entries : line = queues[tid].entries[i]
  OBVIOUS
<1>2. line.tid = tid /\ line.time <= Contract!LastOf(trace, tid)
  BY <1>1 DEF QueueInv, QueueOK
<1>3. line.time > Contract!LastOf(trace, tid)
  BY <1>2 DEF IsNext, Contract!MayFollow
<1>4. Contract!LastOf(trace, tid) \in Nat /\ line.time \in Nat
  BY LastOfIsLast, LineTypes, BoundsAssumption DEF ActiveInv
<1> QED BY <1>2, <1>3, <1>4

\* Each step of the utility is one of the sorter, or changes nothing it has:
\* a line that is read is received, and it is not earlier than the last line
\* written, or it is a sync line and dropped; the line written is the earliest
\* inside.
LEMMA SorterStep ==
  ASSUME MergeInv, [Next]_vars
  PROVE  [Sorter!Next]_(Sorter!vars)
<1>1. ASSUME UNCHANGED <<trace, queues, out>>, pc' = "done" <=> pc = "done"
      PROVE  UNCHANGED Sorter!vars
  <2>1. Queued' = Queued
    BY <1>1 DEF Queued, Entries
  <2> QED BY <1>1, <2>1 DEF Sorter!vars
<1>2. ASSUME NEW line \in Lines, IsNext(line), ReadLine(line)
      PROVE  [Sorter!Next]_(Sorter!vars)
  <2>1. /\ pc = "read" /\ pc' # "done" /\ out' = out /\ trace' = Append(trace, line)
        /\ QueueInv /\ OutInv /\ ActiveInv
    BY <1>2 DEF MergeInv, ReadLine
  <2>2. Queued' = IF line.what = "thread_sync" THEN Queued ELSE Queued \cup {line}
    BY <1>2, <2>1, ReadQueued
  <2>3. CASE line.what = "thread_sync"
    BY <2>1, <2>2, <2>3 DEF Sorter!Drop, Sorter!Next
  <2>4. CASE line.what # "thread_sync"
    <3>1. line \notin Queued
      BY <1>2, <2>1, NextIsNew
    <3>2. out # <<>> => line.time >= Sorter!Last(out).time
      <4> SUFFICES ASSUME out # <<>> PROVE line.time >= Sorter!Last(out).time
        OBVIOUS
      <4>1. /\ out \in Seq(Lines) /\ Len(out) \in DOMAIN out /\ Sorter!Last(out) = out[Len(out)]
        <5>1. out \in Seq(Lines)
          BY <2>1 DEF OutInv
        <5>2. Len(out) \in DOMAIN out
          BY <5>1, FileLines, EmptySeq
        <5> QED BY <5>1, <5>2 DEF Sorter!Last
      <4>2. /\ out[Len(out)].time <= Contract!Frontier(trace)
            /\ out[Len(out)].time \in Nat
        BY <2>1, <4>1, FileLines, BoundsAssumption DEF OutInv
      <4>3. /\ line.time > Contract!Frontier(trace) /\ Contract!Frontier(trace) \in Nat
            /\ line.time \in Nat
        BY <1>2, <2>1, AppendFrontier, FrontierMeans, LineTypes, BoundsAssumption
           DEF ActiveInv, IsNext
      <4> QED BY <4>1, <4>2, <4>3
    <3>3. Sorter!Receive(line)
      BY <2>1, <2>2, <2>4, <3>1, <3>2 DEF Sorter!Receive
    <3> QED BY <3>3 DEF Sorter!Next
  <2> QED BY <2>3, <2>4
<1>3. CASE MergeTop
  <2>1. PICK e : IsTop(e) /\ MergeEntry(e)
    BY <1>3, MergeTopStep
  <2>2. QueueInv /\ time_threadid_min = SetToBag(HeadsOf(queues)) /\ pc = "merge"
    BY <1>3 DEF MergeInv, MergeTop, HeapHasHeads, HeadsOf
  <2> DEFINE line == Head(queues[e[2]].entries)
  <2>3. /\ line \in Queued /\ line \in Lines /\ line.time = e[1]
        /\ Queued' = Queued \ {line}
    BY <2>1, <2>2, MergeEntryStep
  <2>4. \A other \in Queued : line.time <= other.time
    BY <2>1, <2>2, <2>3, HeapMeans
  <2>5. out' = Append(out, line) /\ pc' # "done" /\ trace' = trace
    BY <2>1 DEF MergeEntry
  <2> HIDE DEF line
  <2>6. Sorter!Emit(line)
    BY <2>2, <2>3, <2>4, <2>5 DEF Sorter!Emit
  <2> QED BY <2>3, <2>6 DEF Sorter!Next
<1>4. CASE MergeStops
  BY <1>1, <1>4 DEF MergeStops
<1>5. CASE EndOfFile
  <2>1. CASE time_threadid_min = EmptyBag
    <3>1. Queued = {}
      BY <1>5, <2>1, HeapMeans DEF MergeInv, EndOfFile, HeapHasHeads, HeadsOf
    <3>2. UNCHANGED <<trace, queues, out>> /\ pc' = "done"
      BY <1>5, <2>1 DEF EndOfFile
    <3>3. Queued' = Queued
      BY <3>2 DEF Queued, Entries
    <3>4. Sorter!Finish
      BY <3>1, <3>2, <3>3 DEF Sorter!Finish
    <3> QED BY <3>4 DEF Sorter!Next
  <2>2. CASE time_threadid_min # EmptyBag
    BY <1>1, <1>5, <2>2 DEF EndOfFile
  <2> QED BY <2>1, <2>2
<1>6. CASE UNCHANGED vars
  BY <1>1, <1>6 DEF vars
<1> QED BY <1>2, <1>3, <1>4, <1>5, <1>6 DEF Next, ReadNextLine

\* What the README says of the merge utility: the output is the input without
\* its sync lines, sorted by time, nothing lost or repeated, and no line is
\* written that a line still to come could have to precede.
THEOREM SortsAsStream == Spec => SortsStream
<1>1. Init => Sorter!Init
  <2> SUFFICES ASSUME Init PROVE Sorter!Init
    OBVIOUS
  <2>1. queues = <<>> /\ DOMAIN <<>> = {} /\ out = <<>> /\ trace = <<>> /\ pc # "done"
    BY DEF Init
  <2>2. Queued = {}
    BY <2>1 DEF Queued
  <2> QED BY <2>1, <2>2 DEF Sorter!Init
<1>2. MergeInv /\ [Next]_vars => [Sorter!Next]_(Sorter!vars)
  BY SorterStep
<1> QED BY <1>1, <1>2, MergeInvHolds, PTL DEF Spec, SortsStream, Sorter!Spec

(***************************************************************************)
(* Copies of a line                                                        *)
(***************************************************************************)
IsFile(f) == f \in Seq(ToSet(f)) /\ \A i \in DOMAIN f : f[i].time \in Nat

LEMMA FileIs ==
  ASSUME NEW f, IsFile(f)
  PROVE  /\ Len(f) \in Nat /\ DOMAIN f = 1 .. Len(f)
         /\ \A i \in 1 .. Len(f) : f[i].time \in Nat
  BY DEF IsFile

LEMMA IsFileOf ==
  ASSUME NEW R, \A r \in R : r.time \in Nat, NEW f \in Seq(R)
  PROVE  IsFile(f)
<1>1. Len(f) \in Nat /\ DOMAIN f = 1 .. Len(f) /\ \A i \in DOMAIN f : f[i] \in R
  OBVIOUS
<1>2. f \in Seq(ToSet(f))
  BY <1>1 DEF ToSet
<1> QED BY <1>1, <1>2 DEF IsFile

\* How often x is a line of f from line a on, up to the one before b.
Copies(f, a, b, x) == Cardinality({k \in a .. b - 1 : f[k] = x})

SameCopies(f1, a1, b1, f2, a2, b2) ==
  \A x : Copies(f1, a1, b1, x) = Copies(f2, a2, b2, x)

LEMMA CopiesSome ==
  ASSUME NEW f, NEW a \in Int, NEW b \in Int, NEW x
  PROVE  /\ Copies(f, a, b, x) \in Nat
         /\ Copies(f, a, b, x) = 0 <=> \A k \in a .. b - 1 : f[k] # x
<1> DEFINE at == {k \in a .. b - 1 : f[k] = x}
<1>1. IsFiniteSet(at)
  <2>1. at \in SUBSET (a .. b - 1) /\ IsFiniteSet(a .. b - 1)
    BY FS_Interval
  <2> QED BY <2>1, FS_Subset
<1>2. at = {} <=> \A k \in a .. b - 1 : f[k] # x
  OBVIOUS
<1>3. Copies(f, a, b, x) = Cardinality(at)
  BY DEF Copies
<1> HIDE DEF at
<1> QED BY <1>1, <1>2, <1>3, FS_CardinalityType, FS_EmptySet

LEMMA CopiesSplit ==
  ASSUME NEW f, NEW a \in Int, NEW b \in Int, NEW c \in Int, a <= b, b <= c, NEW x
  PROVE  Copies(f, a, c, x) = Copies(f, a, b, x) + Copies(f, b, c, x)
<1> DEFINE S == {k \in a .. b - 1 : f[k] = x}
           T == {k \in b .. c - 1 : f[k] = x}
           U == {k \in a .. c - 1 : f[k] = x}
<1>1. U = S \cup T /\ S \cap T = {}
  OBVIOUS
<1>2. IsFiniteSet(S) /\ IsFiniteSet(T)
  <2>1. IsFiniteSet(a .. b - 1) /\ IsFiniteSet(b .. c - 1)
    BY FS_Interval
  <2>2. S \in SUBSET (a .. b - 1) /\ T \in SUBSET (b .. c - 1)
    OBVIOUS
  <2> HIDE DEF S, T
  <2> QED BY <2>1, <2>2, FS_Subset
<1>3. /\ Copies(f, a, c, x) = Cardinality(U) /\ Copies(f, a, b, x) = Cardinality(S)
      /\ Copies(f, b, c, x) = Cardinality(T)
  BY DEF Copies
<1> HIDE DEF S, T, U
<1>4. Cardinality(S \cup T) = Cardinality(S) + Cardinality(T) - Cardinality({})
  BY <1>1, <1>2, FS_Union
<1>5. Cardinality(S) \in Nat /\ Cardinality(T) \in Nat
  BY <1>2, FS_CardinalityType
<1> QED BY <1>1, <1>3, <1>4, <1>5, FS_EmptySet

\* Two files are the same bag if they have the same copies.
LEMMA BagCopies ==
  ASSUME NEW f, IsFile(f), NEW g, IsFile(g)
  PROVE  ToBag(f) = ToBag(g) <=> SameCopies(f, 1, Len(f) + 1, g, 1, Len(g) + 1)
<1> DEFINE n(x) == Copies(f, 1, Len(f) + 1, x)
           m(x) == Copies(g, 1, Len(g) + 1, x)
<1>1. /\ Len(f) \in Nat /\ DOMAIN f = 1 .. Len(f) /\ (Len(f) + 1) - 1 = Len(f)
      /\ Len(g) \in Nat /\ DOMAIN g = 1 .. Len(g) /\ (Len(g) + 1) - 1 = Len(g)
  BY FileIs
<1>2. /\ ToBag(f) = [x \in Range(f) |-> n(x)]
      /\ ToBag(g) = [x \in Range(g) |-> m(x)]
  BY <1>1 DEF ToBag, Copies
<1>3. \A x : /\ n(x) = 0 <=> x \notin Range(f)
             /\ m(x) = 0 <=> x \notin Range(g)
  BY <1>1, CopiesSome DEF Range
<1>4. SameCopies(f, 1, Len(f) + 1, g, 1, Len(g) + 1) <=> \A x : n(x) = m(x)
  BY DEF SameCopies
<1> HIDE DEF n, m
<1>5. ASSUME ToBag(f) = ToBag(g), NEW x PROVE n(x) = m(x)
  <2>1. Range(f) = DOMAIN ToBag(f) /\ Range(g) = DOMAIN ToBag(g)
    BY <1>2
  <2>2. CASE x \in Range(f)
    <3>1. ToBag(f)[x] = n(x) /\ ToBag(g)[x] = m(x)
      BY <1>2, <1>5, <2>1, <2>2
    <3> QED BY <1>5, <3>1
  <2>3. CASE x \notin Range(f)
    <3>1. n(x) = 0 /\ m(x) = 0
      BY <1>3, <1>5, <2>1, <2>3
    <3> QED BY <3>1
  <2> QED BY <2>2, <2>3
<1>6. ASSUME \A x : n(x) = m(x) PROVE ToBag(f) = ToBag(g)
  <2>1. Range(f) = Range(g)
    BY <1>3, <1>6
  <2>2. [x \in Range(f) |-> n(x)] = [x \in Range(g) |-> m(x)]
    BY <1>6, <2>1
  <2> QED BY <1>2, <2>2
<1> QED BY <1>4, <1>5, <1>6

\* A part of a file has the copies that are there.
LEMMA PartCopies ==
  ASSUME NEW f, IsFile(f), NEW i \in 1 .. Len(f), NEW e \in i + 1 .. Len(f) + 1,
         NEW s, s = SubSeq(f, i, e - 1)
  PROVE  IsFile(s) /\ \A x : Copies(s, 1, Len(s) + 1, x) = Copies(f, i, e, x)
<1>1. /\ Len(f) \in Nat /\ DOMAIN f = 1 .. Len(f) /\ f \in Seq(ToSet(f))
      /\ \A k \in 1 .. Len(f) : f[k].time \in Nat
  BY FileIs DEF IsFile
<1> DEFINE n == e - i
<1>2. /\ n \in Nat /\ s \in Seq(ToSet(f)) /\ Len(s) = n /\ DOMAIN s = 1 .. n
      /\ \A k \in 1 .. n : s[k] = f[k + i - 1]
  BY <1>1
<1>3. \A k \in 1 .. n : k + i - 1 \in i .. e - 1 /\ k + i - 1 \in 1 .. Len(f)
  BY <1>1
<1>4. IsFile(s)
  <2>1. \A r \in ToSet(f) : r.time \in Nat
    BY <1>1 DEF ToSet
  <2> QED BY <1>2, <2>1, IsFileOf
<1>5. ASSUME NEW x PROVE Copies(s, 1, Len(s) + 1, x) = Copies(f, i, e, x)
  <2> DEFINE S == {k \in 1 .. (Len(s) + 1) - 1 : s[k] = x}
             T == {k \in i .. e - 1 : f[k] = x}
             h == [k \in S |-> k + i - 1]
  <2>1. (Len(s) + 1) - 1 = n
    BY <1>2
  <2>2. h \in [S -> T]
    BY <1>2, <1>3, <2>1
  <2>3. \A k, l \in S : h[k] = h[l] => k = l
    BY <2>1
  <2>4. \A l \in T : \E k \in S : h[k] = l
    <3> SUFFICES ASSUME NEW l \in T PROVE \E k \in S : h[k] = l
      OBVIOUS
    <3>1. l - i + 1 \in 1 .. n /\ (l - i + 1) + i - 1 = l
      OBVIOUS
    <3>2. l - i + 1 \in S
      BY <1>2, <2>1, <3>1
    <3> QED BY <3>1, <3>2
  <2>5. IsFiniteSet(S)
    <3>1. S \in SUBSET (1 .. n) /\ IsFiniteSet(1 .. n)
      BY <1>2, <2>1, FS_Interval
    <3> QED BY <3>1, FS_Subset
  <2>6. Copies(s, 1, Len(s) + 1, x) = Cardinality(S) /\ Copies(f, i, e, x) = Cardinality(T)
    BY DEF Copies
  <2> HIDE DEF S, T, h
  <2>7. ExistsBijection(S, T)
    <3>1. h \in Bijection(S, T)
      BY <2>2, <2>3, <2>4 DEF Bijection, Injection, Surjection, IsInjective
    <3> QED BY <3>1 DEF ExistsBijection
  <2> QED BY <2>5, <2>6, <2>7, FS_Bijection
<1> QED BY <1>4, <1>5

(***************************************************************************)
(* Bunches                                                                 *)
(***************************************************************************)
LEMMA BunchEnds ==
  ASSUME NEW f, IsFile(f), NEW i \in 1 .. Len(f)
  PROVE  /\ BunchEnd(f, i) \in i + 1 .. Len(f) + 1
         /\ BunchEnd(f, i) = Len(f) + 1 \/ f[BunchEnd(f, i)].time # f[i].time
         /\ \A k \in i .. BunchEnd(f, i) - 1 : f[k].time = f[i].time
<1>1. Len(f) \in Nat
  BY FileIs
<1> DEFINE ends == {j \in i + 1 .. Len(f) + 1 : j = Len(f) + 1 \/ f[j].time # f[i].time}
<1>2. ends \subseteq Nat /\ Len(f) + 1 \in ends
  BY <1>1
<1>3. PICK j \in ends : \A m \in ends : j <= m
  <2> HIDE DEF ends
  <2> QED BY <1>2, LeastNumber
<1>4. ASSUME NEW k \in i .. j - 1 PROVE f[k].time = f[i].time
  <2>1. CASE k = i
    BY <2>1
  <2>2. CASE k # i
    <3>1. k \in i + 1 .. Len(f) + 1 /\ k # Len(f) + 1 /\ ~(j <= k)
      BY <1>1, <2>2
    <3>2. k \notin ends
      BY <1>3, <3>1
    <3> QED BY <3>1, <3>2
  <2> QED BY <2>1, <2>2
<1>5. /\ j \in i + 1 .. Len(f) + 1
      /\ j = Len(f) + 1 \/ f[j].time # f[i].time
      /\ \A k \in i .. j - 1 : f[k].time = f[i].time
  BY <1>4
<1> QED BY <1>5 DEF BunchEnd

\* The lines from i on are in order and later than those before.
OrderedFrom(f, i) ==
  \A k \in i .. Len(f) :
    /\ f[k].time > TimeBefore(f, i)
    /\ \A l \in k .. Len(f) : f[k].time <= f[l].time

LEMMA TimeBeforeIs ==
  ASSUME NEW f, IsFile(f), NEW i \in 1 .. Len(f) + 1
  PROVE  TimeBefore(f, i) \in Nat
<1>1. Len(f) \in Nat /\ \A k \in 1 .. Len(f) : f[k].time \in Nat
  BY FileIs
<1>2. CASE i = 1
  BY <1>2 DEF TimeBefore
<1>3. CASE i # 1
  <2>1. i - 1 \in 1 .. Len(f)
    BY <1>1, <1>3
  <2> QED BY <1>1, <1>3, <2>1 DEF TimeBefore
<1> QED BY <1>2, <1>3

\* A file in order is a bunch in order, with an ordered rest.
LEMMA OrderedBunch ==
  ASSUME NEW f, IsFile(f), NEW i \in 1 .. Len(f), NEW e, e = BunchEnd(f, i)
  PROVE  /\ e \in i + 1 .. Len(f) + 1
         /\ TimeBefore(f, e) = f[i].time
         /\ OrderedFrom(f, i) <=> f[i].time > TimeBefore(f, i) /\ OrderedFrom(f, e)
<1>1. Len(f) \in Nat /\ \A k \in 1 .. Len(f) : f[k].time \in Nat
  BY FileIs
<1>2. /\ e \in i + 1 .. Len(f) + 1
      /\ e = Len(f) + 1 \/ f[e].time # f[i].time
      /\ \A k \in i .. e - 1 : f[k].time = f[i].time
  BY BunchEnds
<1>3. TimeBefore(f, e) = f[i].time
  <2>1. e # 1 /\ e - 1 \in i .. e - 1
    BY <1>2
  <2> QED BY <1>2, <2>1 DEF TimeBefore
<1>4. TimeBefore(f, i) \in Nat
  BY <1>1, TimeBeforeIs
<1>5. ASSUME OrderedFrom(f, i)
      PROVE  f[i].time > TimeBefore(f, i) /\ OrderedFrom(f, e)
  <2>1. i \in i .. Len(f)
    OBVIOUS
  <2>2. ASSUME NEW k \in e .. Len(f) PROVE f[k].time > f[i].time
    <3>1. /\ e \in i .. Len(f) /\ k \in e .. Len(f) /\ e # Len(f) + 1
          /\ e \in 1 .. Len(f) /\ k \in 1 .. Len(f)
      BY <1>1, <1>2
    <3>2. f[i].time <= f[e].time /\ f[e].time <= f[k].time
      BY <1>5, <2>1, <3>1 DEF OrderedFrom
    <3> QED BY <1>1, <1>2, <3>1, <3>2
  <2>3. \A k \in e .. Len(f) : k \in i .. Len(f)
    BY <1>2
  <2> QED BY <1>3, <1>5, <2>1, <2>2, <2>3 DEF OrderedFrom
<1>6. ASSUME f[i].time > TimeBefore(f, i), OrderedFrom(f, e)
      PROVE  OrderedFrom(f, i)
  <2> SUFFICES ASSUME NEW k \in i .. Len(f)
               PROVE  /\ f[k].time > TimeBefore(f, i)
                      /\ \A l \in k .. Len(f) : f[k].time <= f[l].time
    BY DEF OrderedFrom
  <2>1. \A l \in e .. Len(f) : f[l].time > f[i].time
    BY <1>3, <1>6 DEF OrderedFrom
  <2>2. \A l \in i .. Len(f) : l \in 1 .. Len(f) /\ f[l].time \in Nat /\ f[l].time >= f[i].time
    <3> SUFFICES ASSUME NEW l \in i .. Len(f)
                 PROVE  l \in 1 .. Len(f) /\ f[l].time \in Nat /\ f[l].time >= f[i].time
      OBVIOUS
    <3>1. l \in 1 .. Len(f) /\ f[l].time \in Nat /\ f[i].time \in Nat
      BY <1>1
    <3>2. CASE l \in e .. Len(f)
      BY <2>1, <3>1, <3>2
    <3>3. CASE l \notin e .. Len(f)
      <4>1. l \in i .. e - 1
        BY <1>1, <1>2, <3>3
      <4> QED BY <1>2, <3>1, <4>1
    <3> QED BY <3>2, <3>3
  <2>3. f[k].time > TimeBefore(f, i)
    BY <1>1, <1>4, <1>6, <2>2
  <2>4. ASSUME NEW l \in k .. Len(f) PROVE f[k].time <= f[l].time
    <3>1. CASE k \in e .. Len(f)
      BY <1>6, <3>1 DEF OrderedFrom
    <3>2. CASE k \notin e .. Len(f)
      <4>1. k \in i .. e - 1 /\ l \in i .. Len(f)
        BY <1>1, <1>2, <3>2
      <4>2. f[k].time = f[i].time
        BY <1>2, <4>1
      <4> QED BY <2>2, <4>1, <4>2
    <3> QED BY <3>1, <3>2
  <2> QED BY <2>3, <2>4
<1> QED BY <1>2, <1>3, <1>5, <1>6

LEMMA BunchCopies ==
  ASSUME NEW f, IsFile(f), NEW i \in 1 .. Len(f), NEW b, b = Bunch(f, i)
  PROVE  /\ IsFile(b)
         /\ \A x : Copies(b, 1, Len(b) + 1, x) = Copies(f, i, BunchEnd(f, i), x)
<1> DEFINE e == BunchEnd(f, i)
<1>1. e \in i + 1 .. Len(f) + 1
  BY BunchEnds
<1>2. b = SubSeq(f, i, e - 1)
  BY DEF Bunch
<1> HIDE DEF e
<1>3. IsFile(b) /\ \A x : Copies(b, 1, Len(b) + 1, x) = Copies(f, i, e, x)
  BY <1>1, <1>2, PartCopies
<1> QED BY <1>3 DEF e

\* Bunches are compared by their copies.
LEMMA BunchesSame ==
  ASSUME NEW f1, IsFile(f1), NEW f2, IsFile(f2), NEW i1 \in 1 .. Len(f1), NEW i2 \in 1 .. Len(f2)
  PROVE  SameLines(Bunch(f1, i1), Bunch(f2, i2)) <=>
           SameCopies(f1, i1, BunchEnd(f1, i1), f2, i2, BunchEnd(f2, i2))
<1> DEFINE b1 == Bunch(f1, i1)
           b2 == Bunch(f2, i2)
<1>1. /\ IsFile(b1)
      /\ \A x : Copies(b1, 1, Len(b1) + 1, x) = Copies(f1, i1, BunchEnd(f1, i1), x)
  BY BunchCopies
<1>2. /\ IsFile(b2)
      /\ \A x : Copies(b2, 1, Len(b2) + 1, x) = Copies(f2, i2, BunchEnd(f2, i2), x)
  BY BunchCopies
<1> HIDE DEF b1, b2
<1>3. SameLines(b1, b2) <=> SameCopies(b1, 1, Len(b1) + 1, b2, 1, Len(b2) + 1)
  BY <1>1, <1>2, BagCopies DEF SameLines
<1> QED BY <1>1, <1>2, <1>3 DEF SameCopies, b1, b2

(***************************************************************************)
(* The comparison                                                          *)
(***************************************************************************)
Turns(f1, f2) == (1 .. Len(f1) + 1) \X (1 .. Len(f2) + 1)

\* The function by which compare is computed.
IsFrom(from, f1, f2) ==
  from = [at \in Turns(f1, f2) |-> Turn(f1, at[1], f2, at[2], from)]

\* What a turn returns depends on later turns only.
LEMMA TurnLater ==
  ASSUME NEW f1, IsFile(f1), NEW f2, IsFile(f2), NEW at \in Turns(f1, f2), NEW g, NEW h,
         \A p \in Turns(f1, f2) : p[1] > at[1] => g[p] = h[p]
  PROVE  Turn(f1, at[1], f2, at[2], g) = Turn(f1, at[1], f2, at[2], h)
<1> DEFINE i1 == at[1]
           i2 == at[2]
<1>1. /\ Len(f1) \in Nat /\ Len(f2) \in Nat
      /\ i1 \in 1 .. Len(f1) + 1 /\ i2 \in 1 .. Len(f2) + 1
  BY FileIs DEF Turns
<1>2. CASE i1 = Len(f1) + 1 \/ i2 = Len(f2) + 1
  BY <1>2 DEF Turn
<1>3. CASE i1 # Len(f1) + 1 /\ i2 # Len(f2) + 1
  <2> DEFINE p == <<BunchEnd(f1, i1), BunchEnd(f2, i2)>>
  <2>1. i1 \in 1 .. Len(f1) /\ i2 \in 1 .. Len(f2)
    BY <1>1, <1>3
  <2>2. BunchEnd(f1, i1) \in i1 + 1 .. Len(f1) + 1 /\ BunchEnd(f2, i2) \in i2 + 1 .. Len(f2) + 1
    BY <2>1, BunchEnds
  <2>3. p \in Turns(f1, f2) /\ p[1] > i1
    BY <1>1, <2>2 DEF Turns
  <2>4. g[p] = h[p]
    BY <2>3
  <2>5. \A rest : Turn(f1, i1, f2, i2, rest) =
          IF Agree(f1, i1, f2, i2) THEN rest[p]
          ELSE Different(f1, i1, f2, i2, BunchEnd(f1, i1), BunchEnd(f2, i2))
    BY <1>3 DEF Turn
  <2> HIDE DEF p, i1, i2
  <2>6. Turn(f1, i1, f2, i2, g) = Turn(f1, i1, f2, i2, h)
    BY <2>4, <2>5
  <2> QED BY <2>6 DEF i1, i2
<1> QED BY <1>2, <1>3

LEMMA FromExists ==
  ASSUME NEW f1, IsFile(f1), NEW f2, IsFile(f2)
  PROVE  \E from : IsFrom(from, f1, f2)
<1> DEFINE P == Turns(f1, f2)
           T(g, at) == Turn(f1, at[1], f2, at[2], g)
<1>1. /\ Len(f1) \in Nat
      /\ \A at \in P : at[1] \in 1 .. Len(f1) + 1
  BY FileIs DEF Turns
\* The last n turns.
<1> DEFINE Late(n) == {at \in P : at[1] > Len(f1) + 1 - n}
           S == {n \in Nat : \E g : /\ g = [at \in P |-> g[at]]
                                    /\ \A at \in Late(n) : g[at] = T(g, at)}
<1>2. ASSUME NEW g, NEW h, NEW at \in P, \A p \in P : p[1] > at[1] => g[p] = h[p]
      PROVE  T(g, at) = T(h, at)
  BY <1>2, TurnLater
<1> HIDE DEF P, T
<1>3. 0 \in S
  <2> DEFINE g == [at \in P |-> 0]
  <2>1. g = [at \in P |-> g[at]]
    OBVIOUS
  <2>2. Late(0) = {}
    BY <1>1
  <2> HIDE DEF g, Late
  <2> QED BY <2>1, <2>2
<1>4. ASSUME NEW n \in Nat, n \in S PROVE n + 1 \in S
  <2>1. PICK g : /\ g = [at \in P |-> g[at]]
                 /\ \A at \in Late(n) : g[at] = T(g, at)
    BY <1>4
  <2> DEFINE h == [at \in P |-> IF at \in Late(n) THEN g[at] ELSE T(g, at)]
  <2>2. \A at \in P : h[at] = IF at \in Late(n) THEN g[at] ELSE T(g, at)
    OBVIOUS
  <2>3. h = [at \in P |-> h[at]]
    OBVIOUS
  <2> HIDE DEF h
  <2>4. ASSUME NEW at \in Late(n + 1) PROVE h[at] = T(h, at)
    <3>1. at \in P /\ h[at] = T(g, at)
      BY <2>1, <2>2, <2>4
    <3>2. ASSUME NEW p \in P, p[1] > at[1] PROVE g[p] = h[p]
      <4>1. p \in Late(n)
        BY <1>1, <2>4, <3>1, <3>2
      <4> QED BY <2>2, <4>1
    <3>3. T(g, at) = T(h, at)
      BY <1>2, <3>1, <3>2
    <3> QED BY <3>1, <3>3
  <2> HIDE DEF Late
  <2> QED BY <2>3, <2>4
<1>5. Len(f1) + 1 \in S
  <2> HIDE DEF S
  <2> QED BY <1>1, <1>3, <1>4, Induction
<1>6. PICK g : /\ g = [at \in P |-> g[at]]
               /\ \A at \in Late(Len(f1) + 1) : g[at] = T(g, at)
  BY <1>5
<1>7. \A at \in P : at \in Late(Len(f1) + 1)
  BY <1>1
<1>8. g = [at \in P |-> T(g, at)]
  <2> HIDE DEF Late
  <2> QED BY <1>6, <1>7
<1> QED BY <1>8 DEF IsFrom, P, T

LEMMA CompareIs ==
  ASSUME NEW f1, IsFile(f1), NEW f2, IsFile(f2)
  PROVE  \E from : /\ compare(f1, f2) = from[<<1, 1>>]
                   /\ \A i1 \in 1 .. Len(f1) + 1, i2 \in 1 .. Len(f2) + 1 :
                        from[<<i1, i2>>] = Turn(f1, i1, f2, i2, from)
<1> DEFINE from == CHOOSE g : g = [at \in Turns(f1, f2) |-> Turn(f1, at[1], f2, at[2], g)]
<1>1. compare(f1, f2) = from[<<1, 1>>]
  BY DEF compare, Turns
<1>2. IsFrom(from, f1, f2)
  <2>1. \E g : g = [at \in Turns(f1, f2) |-> Turn(f1, at[1], f2, at[2], g)]
    BY FromExists DEF IsFrom
  <2> QED BY <2>1 DEF IsFrom
<1> HIDE DEF from
<1>3. ASSUME NEW i1 \in 1 .. Len(f1) + 1, NEW i2 \in 1 .. Len(f2) + 1
      PROVE  from[<<i1, i2>>] = Turn(f1, i1, f2, i2, from)
  <2> DEFINE at == <<i1, i2>>
  <2>1. at \in Turns(f1, f2) /\ at[1] = i1 /\ at[2] = i2
    BY DEF Turns
  <2> HIDE DEF at
  <2>2. from[at] = Turn(f1, at[1], f2, at[2], from)
    BY <1>2, <2>1 DEF IsFrom
  <2> QED BY <2>1, <2>2 DEF at
<1> QED BY <1>1, <1>3

\* A line that comes later than all lines of a bunch is not in it, and the
\* other way round: what both files have in all they have in their bunches.
LEMMA BunchHasAll ==
  ASSUME NEW f, IsFile(f), NEW i \in 1 .. Len(f), OrderedFrom(f, i), NEW x, x.time = f[i].time
  PROVE  Copies(f, i, Len(f) + 1, x) = Copies(f, i, BunchEnd(f, i), x)
<1> DEFINE e == BunchEnd(f, i)
<1>1. /\ e \in i + 1 .. Len(f) + 1 /\ TimeBefore(f, e) = f[i].time /\ OrderedFrom(f, e)
      /\ Len(f) \in Nat
  BY OrderedBunch, FileIs
<1> HIDE DEF e
<1>2. \A k \in e .. (Len(f) + 1) - 1 : f[k] # x
  <2> SUFFICES ASSUME NEW k \in e .. (Len(f) + 1) - 1, f[k] = x PROVE FALSE
    OBVIOUS
  <2>1. k \in e .. Len(f) /\ k \in 1 .. Len(f) /\ i \in 1 .. Len(f)
    BY <1>1
  <2>2. f[k].time > f[i].time
    BY <1>1, <2>1 DEF OrderedFrom
  <2>3. f[k].time \in Nat /\ f[i].time \in Nat
    BY <2>1, FileIs
  <2> QED BY <2>2, <2>3
<1>3. Copies(f, e, Len(f) + 1, x) = 0
  BY <1>1, <1>2, CopiesSome
<1>4. Copies(f, i, Len(f) + 1, x) = Copies(f, i, e, x) + Copies(f, e, Len(f) + 1, x)
  BY <1>1, CopiesSplit
<1>5. Copies(f, i, e, x) \in Nat
  BY <1>1, CopiesSome
<1> QED BY <1>3, <1>4, <1>5 DEF e

LEMMA InBunch ==
  ASSUME NEW f, IsFile(f), NEW i \in 1 .. Len(f), NEW x, Copies(f, i, BunchEnd(f, i), x) # 0
  PROVE  x.time = f[i].time
<1>1. BunchEnd(f, i) \in Int /\ \A k \in i .. BunchEnd(f, i) - 1 : f[k].time = f[i].time
  BY BunchEnds
<1> QED BY <1>1, CopiesSome

\* The first lines of ordered files with the same copies have the same time.
LEMMA FirstTimes ==
  ASSUME NEW f, IsFile(f), NEW i \in 1 .. Len(f), NEW g, IsFile(g), NEW j \in 1 .. Len(g),
         OrderedFrom(g, j), SameCopies(f, i, Len(f) + 1, g, j, Len(g) + 1)
  PROVE  g[j].time <= f[i].time
<1>1. Len(f) \in Nat /\ Len(g) \in Nat
  BY FileIs
<1> DEFINE x == f[i]
<1>2. Copies(f, i, Len(f) + 1, x) # 0
  <2>1. i \in i .. (Len(f) + 1) - 1
    BY <1>1
  <2> QED BY <1>1, <2>1, CopiesSome
<1>3. Copies(g, j, Len(g) + 1, x) # 0
  BY <1>2 DEF SameCopies
<1>4. PICK k \in j .. (Len(g) + 1) - 1 : g[k] = x
  BY <1>1, <1>3, CopiesSome
<1>5. j \in j .. Len(g) /\ k \in j .. Len(g)
  BY <1>1
<1>6. g[j].time <= g[k].time
  BY <1>5 DEF OrderedFrom
<1> QED BY <1>4, <1>6

\* Ordered files have the same copies if they agree on a bunch and have the
\* same copies behind it.
LEMMA AgreeMeans ==
  ASSUME NEW f1, IsFile(f1), NEW f2, IsFile(f2), NEW i1 \in 1 .. Len(f1), NEW i2 \in 1 .. Len(f2),
         NEW e1, e1 = BunchEnd(f1, i1), NEW e2, e2 = BunchEnd(f2, i2),
         OrderedFrom(f1, i1), OrderedFrom(f2, i2)
  PROVE  SameCopies(f1, i1, Len(f1) + 1, f2, i2, Len(f2) + 1) <=>
           /\ f1[i1].time = f2[i2].time
           /\ SameCopies(f1, i1, e1, f2, i2, e2)
           /\ SameCopies(f1, e1, Len(f1) + 1, f2, e2, Len(f2) + 1)
<1>1. /\ e1 \in i1 + 1 .. Len(f1) + 1 /\ e2 \in i2 + 1 .. Len(f2) + 1
      /\ Len(f1) \in Nat /\ Len(f2) \in Nat
  BY OrderedBunch, FileIs
<1>2. \A x : /\ Copies(f1, i1, Len(f1) + 1, x) = Copies(f1, i1, e1, x) + Copies(f1, e1, Len(f1) + 1, x)
             /\ Copies(f2, i2, Len(f2) + 1, x) = Copies(f2, i2, e2, x) + Copies(f2, e2, Len(f2) + 1, x)
             /\ Copies(f1, i1, e1, x) \in Nat /\ Copies(f1, e1, Len(f1) + 1, x) \in Nat
             /\ Copies(f2, i2, e2, x) \in Nat /\ Copies(f2, e2, Len(f2) + 1, x) \in Nat
  BY <1>1, CopiesSplit, CopiesSome
<1>3. ASSUME SameCopies(f1, i1, Len(f1) + 1, f2, i2, Len(f2) + 1)
      PROVE  /\ f1[i1].time = f2[i2].time
             /\ SameCopies(f1, i1, e1, f2, i2, e2)
             /\ SameCopies(f1, e1, Len(f1) + 1, f2, e2, Len(f2) + 1)
  <2>1. SameCopies(f2, i2, Len(f2) + 1, f1, i1, Len(f1) + 1)
    BY <1>3 DEF SameCopies
  <2>2. f1[i1].time = f2[i2].time
    <3>1. f1[i1].time <= f2[i2].time /\ f2[i2].time <= f1[i1].time
      BY <1>3, <2>1, FirstTimes
    <3>2. f1[i1].time \in Nat /\ f2[i2].time \in Nat
      BY FileIs
    <3> QED BY <3>1, <3>2
  <2>3. ASSUME NEW x PROVE Copies(f1, i1, e1, x) = Copies(f2, i2, e2, x)
    <3>1. CASE x.time = f1[i1].time
      <4>1. /\ Copies(f1, i1, Len(f1) + 1, x) = Copies(f1, i1, e1, x)
            /\ Copies(f2, i2, Len(f2) + 1, x) = Copies(f2, i2, e2, x)
        BY <2>2, <3>1, BunchHasAll
      <4> QED BY <1>3, <4>1 DEF SameCopies
    <3>2. CASE x.time # f1[i1].time
      BY <2>2, <3>2, InBunch
    <3> QED BY <3>1, <3>2
  <2>4. ASSUME NEW x PROVE Copies(f1, e1, Len(f1) + 1, x) = Copies(f2, e2, Len(f2) + 1, x)
    <3>1. Copies(f1, i1, Len(f1) + 1, x) = Copies(f2, i2, Len(f2) + 1, x)
      BY <1>3 DEF SameCopies
    <3> QED BY <1>2, <2>3, <3>1
  <2> QED BY <2>2, <2>3, <2>4 DEF SameCopies
<1>4. ASSUME SameCopies(f1, i1, e1, f2, i2, e2),
             SameCopies(f1, e1, Len(f1) + 1, f2, e2, Len(f2) + 1)
      PROVE  SameCopies(f1, i1, Len(f1) + 1, f2, i2, Len(f2) + 1)
  BY <1>2, <1>4 DEF SameCopies
<1> QED BY <1>3, <1>4

\* Both files are in order from there on, and have the same lines.
SameFrom(f1, i1, f2, i2) ==
  /\ OrderedFrom(f1, i1) /\ OrderedFrom(f2, i2)
  /\ SameCopies(f1, i1, Len(f1) + 1, f2, i2, Len(f2) + 1)

\* The comparison from there on says what is so.
LEMMA TurnIsExact ==
  ASSUME NEW f1, IsFile(f1), NEW f2, IsFile(f2),
         NEW i1 \in 1 .. Len(f1) + 1, NEW i2 \in 1 .. Len(f2) + 1, NEW from,
         \A j1 \in i1 + 1 .. Len(f1) + 1, j2 \in 1 .. Len(f2) + 1 :
           from[<<j1, j2>>].equal <=> SameFrom(f1, j1, f2, j2)
  PROVE  Turn(f1, i1, f2, i2, from).equal <=> SameFrom(f1, i1, f2, i2)
<1>1. Len(f1) \in Nat /\ Len(f2) \in Nat
  BY FileIs
<1>2. \A a, b, c, d, e, h : ~Different(a, b, c, d, e, h).equal
  BY DEF Different
<1>3. CASE i1 = Len(f1) + 1 /\ i2 = Len(f2) + 1
  <2>1. OrderedFrom(f1, i1) /\ OrderedFrom(f2, i2)
    BY <1>1, <1>3 DEF OrderedFrom
  <2>2. \A x : Copies(f1, i1, Len(f1) + 1, x) = 0 /\ Copies(f2, i2, Len(f2) + 1, x) = 0
    BY <1>1, <1>3, CopiesSome
  <2>3. Turn(f1, i1, f2, i2, from).equal
    BY <1>3 DEF Turn
  <2> QED BY <2>1, <2>2, <2>3 DEF SameFrom, SameCopies
<1>4. CASE (i1 = Len(f1) + 1) # (i2 = Len(f2) + 1)
  <2>1. ~Turn(f1, i1, f2, i2, from).equal
    BY <1>2, <1>4 DEF Turn
  <2>2. ~SameCopies(f1, i1, Len(f1) + 1, f2, i2, Len(f2) + 1)
    <3>1. CASE i1 = Len(f1) + 1 /\ i2 # Len(f2) + 1
      <4>1. Copies(f1, i1, Len(f1) + 1, f2[i2]) = 0
        BY <1>1, <3>1, CopiesSome
      <4>2. Copies(f2, i2, Len(f2) + 1, f2[i2]) # 0
        <5>1. i2 \in i2 .. (Len(f2) + 1) - 1
          BY <1>1, <3>1
        <5> QED BY <1>1, <5>1, CopiesSome
      <4> QED BY <4>1, <4>2 DEF SameCopies
    <3>2. CASE i1 # Len(f1) + 1 /\ i2 = Len(f2) + 1
      <4>1. Copies(f2, i2, Len(f2) + 1, f1[i1]) = 0
        BY <1>1, <3>2, CopiesSome
      <4>2. Copies(f1, i1, Len(f1) + 1, f1[i1]) # 0
        <5>1. i1 \in i1 .. (Len(f1) + 1) - 1
          BY <1>1, <3>2
        <5> QED BY <1>1, <5>1, CopiesSome
      <4> QED BY <4>1, <4>2 DEF SameCopies
    <3> QED BY <1>4, <3>1, <3>2
  <2> QED BY <2>1, <2>2 DEF SameFrom
<1>5. CASE i1 # Len(f1) + 1 /\ i2 # Len(f2) + 1
  <2>1. i1 \in 1 .. Len(f1) /\ i2 \in 1 .. Len(f2)
    BY <1>1, <1>5
  <2> PICK e1 : e1 = BunchEnd(f1, i1)
    OBVIOUS
  <2> PICK e2 : e2 = BunchEnd(f2, i2)
    OBVIOUS
  <2>2. /\ e1 \in i1 + 1 .. Len(f1) + 1 /\ e2 \in i2 + 1 .. Len(f2) + 1
        /\ OrderedFrom(f1, i1) <=> f1[i1].time > TimeBefore(f1, i1) /\ OrderedFrom(f1, e1)
        /\ OrderedFrom(f2, i2) <=> f2[i2].time > TimeBefore(f2, i2) /\ OrderedFrom(f2, e2)
    BY <2>1, OrderedBunch
  <2>3. Agree(f1, i1, f2, i2) <=>
          /\ f1[i1].time > TimeBefore(f1, i1) /\ f2[i2].time > TimeBefore(f2, i2)
          /\ SameCopies(f1, i1, e1, f2, i2, e2) /\ f1[i1].time = f2[i2].time
    BY <2>1, BunchesSame DEF Agree
  <2>4. SameFrom(f1, i1, f2, i2) <=> Agree(f1, i1, f2, i2) /\ SameFrom(f1, e1, f2, e2)
    <3>1. OrderedFrom(f1, i1) /\ OrderedFrom(f2, i2) =>
            (SameCopies(f1, i1, Len(f1) + 1, f2, i2, Len(f2) + 1) <=>
               /\ f1[i1].time = f2[i2].time
               /\ SameCopies(f1, i1, e1, f2, i2, e2)
               /\ SameCopies(f1, e1, Len(f1) + 1, f2, e2, Len(f2) + 1))
      BY <2>1, AgreeMeans
    <3> QED BY <2>2, <2>3, <3>1 DEF SameFrom
  <2>5. Turn(f1, i1, f2, i2, from).equal <=> Agree(f1, i1, f2, i2) /\ from[<<e1, e2>>].equal
    BY <1>2, <1>5 DEF Turn
  <2>6. from[<<e1, e2>>].equal <=> SameFrom(f1, e1, f2, e2)
    <3>1. e2 \in 1 .. Len(f2) + 1
      BY <1>1, <2>2
    <3> QED BY <2>2, <3>1
  <2> QED BY <2>4, <2>5, <2>6
<1> QED BY <1>3, <1>4, <1>5

LEMMA CompareExact ==
  ASSUME NEW f1, IsFile(f1), NEW f2, IsFile(f2)
  PROVE  compare(f1, f2).equal <=> SameFrom(f1, 1, f2, 1)
<1>1. Len(f1) \in Nat /\ Len(f2) \in Nat
  BY FileIs
<1>2. PICK from : /\ compare(f1, f2) = from[<<1, 1>>]
                  /\ \A i1 \in 1 .. Len(f1) + 1, i2 \in 1 .. Len(f2) + 1 :
                       from[<<i1, i2>>] = Turn(f1, i1, f2, i2, from)
  BY CompareIs
<1> DEFINE Exact(i1, i2) == from[<<i1, i2>>].equal <=> SameFrom(f1, i1, f2, i2)
           S == {n \in Nat : \A i1 \in 1 .. Len(f1) + 1, i2 \in 1 .. Len(f2) + 1 :
                               i1 > Len(f1) + 1 - n => Exact(i1, i2)}
<1>3. 0 \in S
  <2> HIDE DEF Exact
  <2> QED BY <1>1
<1>4. ASSUME NEW n \in Nat, n \in S PROVE n + 1 \in S
  <2> SUFFICES ASSUME NEW i1 \in 1 .. Len(f1) + 1, NEW i2 \in 1 .. Len(f2) + 1,
                      i1 > Len(f1) + 1 - (n + 1)
               PROVE  Exact(i1, i2)
    <3> HIDE DEF Exact
    <3> QED OBVIOUS
  <2>1. ASSUME NEW j1 \in i1 + 1 .. Len(f1) + 1, NEW j2 \in 1 .. Len(f2) + 1
        PROVE  Exact(j1, j2)
    <3>1. j1 \in 1 .. Len(f1) + 1 /\ j1 > Len(f1) + 1 - n
      BY <1>1
    <3> HIDE DEF Exact
    <3> QED BY <1>4, <3>1
  <2>2. from[<<i1, i2>>] = Turn(f1, i1, f2, i2, from)
    BY <1>2
  <2>3. Turn(f1, i1, f2, i2, from).equal <=> SameFrom(f1, i1, f2, i2)
    BY <2>1, TurnIsExact
  <2> QED BY <2>2, <2>3
<1>5. Len(f1) + 1 \in S
  <2> HIDE DEF S
  <2> QED BY <1>1, <1>3, <1>4, Induction
<1>6. 1 \in 1 .. Len(f1) + 1 /\ 1 \in 1 .. Len(f2) + 1 /\ 1 > Len(f1) + 1 - (Len(f1) + 1)
  BY <1>1
<1>7. Exact(1, 1)
  <2> HIDE DEF Exact
  <2> QED BY <1>5, <1>6
<1> QED BY <1>2, <1>7

\* The files differ at the lines j1 and j2, and are the same from i1 and i2 to
\* these.
Apart(f1, j1, f2, j2) ==
  \/ (j1 = Len(f1) + 1) # (j2 = Len(f2) + 1)
  \/ j1 # Len(f1) + 1 /\ j2 # Len(f2) + 1 /\ ~Agree(f1, j1, f2, j2)

PartAt(f1, i1, f2, i2, j1, j2) ==
  /\ j1 \in i1 .. Len(f1) + 1 /\ j2 \in i2 .. Len(f2) + 1
  /\ OrderedFrom(f1, j1) /\ OrderedFrom(f2, j2)
  /\ TimeBefore(f1, j1) = TimeBefore(f2, j2)
  /\ SameCopies(f1, i1, j1, f2, i2, j2)
  /\ Apart(f1, j1, f2, j2)

\* The times in the result are those before such lines.
TellsPart(f1, i1, f2, i2, result) ==
  OrderedFrom(f1, i1) /\ OrderedFrom(f2, i2) /\ TimeBefore(f1, i1) = TimeBefore(f2, i2)
    /\ ~result.equal
  => \E j1, j2 : /\ PartAt(f1, i1, f2, i2, j1, j2)
                 /\ result.time1 = TimeBefore(f1, j1) /\ result.time2 = TimeBefore(f2, j2)

LEMMA TurnTellsPart ==
  ASSUME NEW f1, IsFile(f1), NEW f2, IsFile(f2),
         NEW i1 \in 1 .. Len(f1) + 1, NEW i2 \in 1 .. Len(f2) + 1, NEW from,
         \A j1 \in i1 + 1 .. Len(f1) + 1, j2 \in 1 .. Len(f2) + 1 :
           TellsPart(f1, j1, f2, j2, from[<<j1, j2>>])
  PROVE  TellsPart(f1, i1, f2, i2, Turn(f1, i1, f2, i2, from))
<1> DEFINE result == Turn(f1, i1, f2, i2, from)
<1> SUFFICES ASSUME OrderedFrom(f1, i1), OrderedFrom(f2, i2),
                    TimeBefore(f1, i1) = TimeBefore(f2, i2), ~result.equal
             PROVE  \E j1, j2 : /\ PartAt(f1, i1, f2, i2, j1, j2)
                                /\ result.time1 = TimeBefore(f1, j1)
                                /\ result.time2 = TimeBefore(f2, j2)
  BY DEF TellsPart
<1>1. Len(f1) \in Nat /\ Len(f2) \in Nat
  BY FileIs
<1>2. \A l1, l2 : LET r == Different(f1, i1, f2, i2, l1, l2)
                  IN r.time1 = TimeBefore(f1, i1) /\ r.time2 = TimeBefore(f2, i2)
  BY DEF Different
<1>3. ASSUME Apart(f1, i1, f2, i2) PROVE PartAt(f1, i1, f2, i2, i1, i2)
  <2>1. SameCopies(f1, i1, i1, f2, i2, i2)
    <3>1. ASSUME NEW x PROVE Copies(f1, i1, i1, x) = 0 /\ Copies(f2, i2, i2, x) = 0
      <4>1. i1 \in Int /\ i2 \in Int /\ i1 .. i1 - 1 = {} /\ i2 .. i2 - 1 = {}
        BY <1>1
      <4> QED BY <4>1, CopiesSome
    <3> QED BY <3>1 DEF SameCopies
  <2>2. i1 \in i1 .. Len(f1) + 1 /\ i2 \in i2 .. Len(f2) + 1
    BY <1>1
  <2>3. OrderedFrom(f1, i1) /\ OrderedFrom(f2, i2) /\ TimeBefore(f1, i1) = TimeBefore(f2, i2)
    OBVIOUS
  <2> QED BY <1>3, <2>1, <2>2, <2>3 DEF PartAt
<1>4. CASE (i1 = Len(f1) + 1) # (i2 = Len(f2) + 1)
  <2>1. Apart(f1, i1, f2, i2)
    BY <1>4 DEF Apart
  <2>2. result = Different(f1, i1, f2, i2, i1, i2)
    BY <1>4 DEF Turn
  <2> HIDE DEF result
  <2> QED BY <1>2, <1>3, <2>1, <2>2
<1>5. CASE i1 = Len(f1) + 1 /\ i2 = Len(f2) + 1
  <2>1. result.equal
    BY <1>5 DEF Turn
  <2> QED BY <2>1
<1>6. CASE i1 # Len(f1) + 1 /\ i2 # Len(f2) + 1 /\ ~Agree(f1, i1, f2, i2)
  <2>1. Apart(f1, i1, f2, i2)
    BY <1>6 DEF Apart
  <2>2. result = Different(f1, i1, f2, i2, BunchEnd(f1, i1), BunchEnd(f2, i2))
    BY <1>6 DEF Turn
  <2> HIDE DEF result
  <2> QED BY <1>2, <1>3, <2>1, <2>2
<1>7. CASE i1 # Len(f1) + 1 /\ i2 # Len(f2) + 1 /\ Agree(f1, i1, f2, i2)
  <2>1. i1 \in 1 .. Len(f1) /\ i2 \in 1 .. Len(f2)
    BY <1>1, <1>7
  <2> PICK e1 : e1 = BunchEnd(f1, i1)
    OBVIOUS
  <2> PICK e2 : e2 = BunchEnd(f2, i2)
    OBVIOUS
  <2>2. /\ e1 \in i1 + 1 .. Len(f1) + 1 /\ e2 \in i2 + 1 .. Len(f2) + 1
        /\ TimeBefore(f1, e1) = f1[i1].time /\ OrderedFrom(f1, e1)
        /\ TimeBefore(f2, e2) = f2[i2].time /\ OrderedFrom(f2, e2)
    BY <2>1, OrderedBunch
  <2>3. SameCopies(f1, i1, e1, f2, i2, e2) /\ f1[i1].time = f2[i2].time
    BY <1>7, <2>1, BunchesSame DEF Agree
  <2>4. result = from[<<e1, e2>>]
    BY <1>7 DEF Turn
  <2> HIDE DEF result
  <2>5. TellsPart(f1, e1, f2, e2, result)
    <3>1. e2 \in 1 .. Len(f2) + 1
      BY <1>1, <2>2
    <3> QED BY <2>2, <2>4, <3>1
  <2>6. PICK j1, j2 : /\ PartAt(f1, e1, f2, e2, j1, j2)
                      /\ result.time1 = TimeBefore(f1, j1) /\ result.time2 = TimeBefore(f2, j2)
    BY <2>2, <2>3, <2>5 DEF TellsPart
  <2>7. j1 \in e1 .. Len(f1) + 1 /\ j2 \in e2 .. Len(f2) + 1
    BY <2>6 DEF PartAt
  <2>8. SameCopies(f1, i1, j1, f2, i2, j2)
    <3>1. \A x : /\ Copies(f1, i1, j1, x) = Copies(f1, i1, e1, x) + Copies(f1, e1, j1, x)
                 /\ Copies(f2, i2, j2, x) = Copies(f2, i2, e2, x) + Copies(f2, e2, j2, x)
      BY <1>1, <2>2, <2>7, CopiesSplit
    <3> QED BY <2>3, <2>6, <3>1 DEF SameCopies, PartAt
  <2>9. j1 \in i1 .. Len(f1) + 1 /\ j2 \in i2 .. Len(f2) + 1
    BY <1>1, <2>2, <2>7
  <2>10. PartAt(f1, i1, f2, i2, j1, j2)
    BY <2>6, <2>8, <2>9 DEF PartAt
  <2> QED BY <2>6, <2>10
<1> QED BY <1>4, <1>5, <1>6, <1>7

LEMMA CompareTellsPart ==
  ASSUME NEW f1, IsFile(f1), NEW f2, IsFile(f2)
  PROVE  TellsPart(f1, 1, f2, 1, compare(f1, f2))
<1>1. Len(f1) \in Nat /\ Len(f2) \in Nat
  BY FileIs
<1>2. PICK from : /\ compare(f1, f2) = from[<<1, 1>>]
                  /\ \A i1 \in 1 .. Len(f1) + 1, i2 \in 1 .. Len(f2) + 1 :
                       from[<<i1, i2>>] = Turn(f1, i1, f2, i2, from)
  BY CompareIs
<1> DEFINE Tells(i1, i2) == TellsPart(f1, i1, f2, i2, from[<<i1, i2>>])
           S == {n \in Nat : \A i1 \in 1 .. Len(f1) + 1, i2 \in 1 .. Len(f2) + 1 :
                               i1 > Len(f1) + 1 - n => Tells(i1, i2)}
<1>3. 0 \in S
  <2> HIDE DEF Tells
  <2> QED BY <1>1
<1>4. ASSUME NEW n \in Nat, n \in S PROVE n + 1 \in S
  <2> SUFFICES ASSUME NEW i1 \in 1 .. Len(f1) + 1, NEW i2 \in 1 .. Len(f2) + 1,
                      i1 > Len(f1) + 1 - (n + 1)
               PROVE  Tells(i1, i2)
    <3> HIDE DEF Tells
    <3> QED OBVIOUS
  <2>1. ASSUME NEW j1 \in i1 + 1 .. Len(f1) + 1, NEW j2 \in 1 .. Len(f2) + 1
        PROVE  Tells(j1, j2)
    <3>1. j1 \in 1 .. Len(f1) + 1 /\ j1 > Len(f1) + 1 - n
      BY <1>1
    <3> HIDE DEF Tells
    <3> QED BY <1>4, <3>1
  <2>2. from[<<i1, i2>>] = Turn(f1, i1, f2, i2, from)
    BY <1>2
  <2>3. TellsPart(f1, i1, f2, i2, Turn(f1, i1, f2, i2, from))
    BY <2>1, TurnTellsPart
  <2> QED BY <2>2, <2>3
<1>5. Len(f1) + 1 \in S
  <2> HIDE DEF S
  <2> QED BY <1>1, <1>3, <1>4, Induction
<1>6. 1 \in 1 .. Len(f1) + 1 /\ 1 \in 1 .. Len(f2) + 1 /\ 1 > Len(f1) + 1 - (Len(f1) + 1)
  BY <1>1
<1>7. Tells(1, 1)
  <2> HIDE DEF Tells
  <2> QED BY <1>5, <1>6
<1> QED BY <1>2, <1>7

\* What is in order for lines next to each other is for any lines.
LEMMA InOrderMeans ==
  ASSUME NEW f, IsFile(f)
  PROVE  InOrder(f) <=> OrderedFrom(f, 1)
<1>1. /\ Len(f) \in Nat /\ DOMAIN f = 1 .. Len(f)
      /\ \A i \in 1 .. Len(f) : f[i].time \in Nat
      /\ TimeBefore(f, 1) = 0
  BY FileIs DEF TimeBefore
<1>2. ASSUME OrderedFrom(f, 1) PROVE InOrder(f)
  <2>1. ASSUME NEW i \in 1 .. Len(f), i > 1 PROVE f[i - 1].time <= f[i].time
    <3>1. i - 1 \in 1 .. Len(f) /\ i \in i - 1 .. Len(f)
      BY <1>1, <2>1
    <3> QED BY <1>2, <3>1 DEF OrderedFrom
  <2> QED BY <1>1, <1>2, <2>1 DEF InOrder, OrderedFrom
<1>3. ASSUME InOrder(f) PROVE OrderedFrom(f, 1)
  <2> DEFINE Rises(n) == \A k \in 1 .. Len(f) :
                           k + n \in 1 .. Len(f) => f[k].time <= f[k + n].time
             S == {n \in Nat : Rises(n)}
  <2>1. 0 \in S
    BY <1>1
  <2>2. ASSUME NEW n \in Nat, n \in S PROVE n + 1 \in S
    <3> SUFFICES ASSUME NEW k \in 1 .. Len(f), k + (n + 1) \in 1 .. Len(f)
                 PROVE  f[k].time <= f[k + (n + 1)].time
      <4>1. Rises(n + 1)
        OBVIOUS
      <4> HIDE DEF Rises
      <4> QED BY <4>1
    <3> DEFINE l == k + (n + 1)
    <3>1. l \in 1 .. Len(f) /\ l > 1 /\ l - 1 = k + n /\ l - 1 \in 1 .. Len(f)
      BY <1>1
    <3>2. f[l - 1].time <= f[l].time
      BY <1>1, <1>3, <3>1 DEF InOrder
    <3>3. f[k].time <= f[l - 1].time
      BY <2>2, <3>1
    <3>4. f[k].time \in Nat /\ f[l].time \in Nat /\ f[l - 1].time \in Nat
      BY <1>1, <3>1
    <3> QED BY <3>2, <3>3, <3>4
  <2>3. Nat \subseteq S
    <3> HIDE DEF S
    <3> QED BY <2>1, <2>2, Induction
  <2>4. ASSUME NEW k \in 1 .. Len(f), NEW l \in k .. Len(f) PROVE f[k].time <= f[l].time
    <3>1. l - k \in Nat /\ k + (l - k) = l /\ l \in 1 .. Len(f)
      BY <1>1
    <3>2. Rises(l - k)
      <4> HIDE DEF Rises
      <4> QED BY <2>3, <3>1
    <3> QED BY <3>1, <3>2
  <2>5. \A k \in 1 .. Len(f) : f[k].time > TimeBefore(f, 1)
    BY <1>1, <1>3 DEF InOrder
  <2> QED BY <2>4, <2>5 DEF OrderedFrom
<1> QED BY <1>2, <1>3

(***************************************************************************)
(* Where the comparison says that files differ                             *)
(***************************************************************************)
LEMMA TimesUpTo ==
  ASSUME NEW f, IsFile(f), OrderedFrom(f, 1), NEW j \in 1 .. Len(f) + 1, OrderedFrom(f, j),
         NEW k \in 1 .. Len(f)
  PROVE  f[k].time <= TimeBefore(f, j) <=> k < j
<1>1. Len(f) \in Nat /\ f[k].time \in Nat /\ TimeBefore(f, j) \in Nat
  BY FileIs, TimeBeforeIs
<1>2. CASE k < j
  <2>1. j # 1 /\ j - 1 \in k .. Len(f)
    BY <1>1, <1>2
  <2>2. f[k].time <= f[j - 1].time
    BY <2>1 DEF OrderedFrom
  <2> QED BY <1>2, <2>1, <2>2 DEF TimeBefore
<1>3. CASE ~(k < j)
  <2>1. k \in j .. Len(f)
    BY <1>1, <1>3
  <2>2. f[k].time > TimeBefore(f, j)
    BY <2>1 DEF OrderedFrom
  <2> QED BY <1>1, <1>3, <2>2
<1> QED BY <1>2, <1>3

\* A file has the lines of which it has copies.
LEMMA InFileIs ==
  ASSUME NEW f, IsFile(f), NEW x
  PROVE  x \in ToSet(f) <=> Copies(f, 1, Len(f) + 1, x) # 0
<1>1. Len(f) \in Nat /\ DOMAIN f = 1 .. Len(f) /\ (Len(f) + 1) - 1 = Len(f)
  BY FileIs
<1>2. Copies(f, 1, Len(f) + 1, x) = 0 <=> \A k \in 1 .. Len(f) : f[k] # x
  BY <1>1, CopiesSome
<1> QED BY <1>1, <1>2 DEF ToSet

LEMMA UpToIs ==
  ASSUME NEW f, IsFile(f), NEW t
  PROVE  UpTo(f, t) = [x \in {l \in ToSet(f) : l.time <= t} |-> Copies(f, 1, Len(f) + 1, x)]
<1>1. DOMAIN f = 1 .. Len(f) /\ (Len(f) + 1) - 1 = Len(f)
  BY FileIs
<1>2. ToBag(f) = [x \in ToSet(f) |-> Copies(f, 1, Len(f) + 1, x)]
  BY <1>1 DEF ToBag, Range, ToSet, Copies
<1>3. UpTo(f, t) = [x \in {l \in ToSet(f) : l.time <= t} |-> ToBag(f)[x]]
  BY DEF UpTo, Restrict
<1> QED BY <1>2, <1>3

LEMMA UpToSame ==
  ASSUME NEW f, IsFile(f), NEW g, IsFile(g), NEW t
  PROVE  UpTo(f, t) = UpTo(g, t) <=>
           \A x : x.time <= t => Copies(f, 1, Len(f) + 1, x) = Copies(g, 1, Len(g) + 1, x)
<1> DEFINE D == {l \in ToSet(f) : l.time <= t}
           E == {l \in ToSet(g) : l.time <= t}
           n(x) == Copies(f, 1, Len(f) + 1, x)
           m(x) == Copies(g, 1, Len(g) + 1, x)
<1>1. UpTo(f, t) = [x \in D |-> n(x)]
  BY UpToIs
<1>2. UpTo(g, t) = [x \in E |-> m(x)]
  BY UpToIs
<1>3. \A x : /\ x \in D <=> x.time <= t /\ n(x) # 0
             /\ x \in E <=> x.time <= t /\ m(x) # 0
  BY InFileIs
<1> HIDE DEF D, E, n, m
<1>4. ASSUME UpTo(f, t) = UpTo(g, t), NEW x, x.time <= t PROVE n(x) = m(x)
  <2>1. D = E
    <3>1. D = DOMAIN UpTo(f, t) /\ E = DOMAIN UpTo(g, t)
      BY <1>1, <1>2
    <3> QED BY <1>4, <3>1
  <2>2. CASE x \in D
    <3>1. UpTo(f, t)[x] = n(x) /\ UpTo(g, t)[x] = m(x)
      BY <1>1, <1>2, <2>1, <2>2
    <3> QED BY <1>4, <3>1
  <2>3. CASE x \notin D
    <3>1. n(x) = 0 /\ m(x) = 0
      BY <1>3, <1>4, <2>1, <2>3
    <3> QED BY <3>1
  <2> QED BY <2>2, <2>3
<1>5. ASSUME \A x : x.time <= t => n(x) = m(x) PROVE UpTo(f, t) = UpTo(g, t)
  <2>1. D = E
    BY <1>3, <1>5
  <2>2. \A x \in D : n(x) = m(x)
    BY <1>3, <1>5
  <2>3. [x \in D |-> n(x)] = [x \in E |-> m(x)]
    BY <2>1, <2>2
  <2> QED BY <1>1, <1>2, <2>3
<1>6. UpTo(f, t) = UpTo(g, t) <=> \A x : x.time <= t => n(x) = m(x)
  BY <1>4, <1>5
<1> QED BY <1>6 DEF n, m

LEMMA SameUpTo ==
  ASSUME NEW f1, IsFile(f1), NEW f2, IsFile(f2), OrderedFrom(f1, 1), OrderedFrom(f2, 1),
         NEW j1, NEW j2, PartAt(f1, 1, f2, 1, j1, j2), NEW t, t = TimeBefore(f1, j1)
  PROVE  UpTo(f1, t) = UpTo(f2, t)
<1>1. /\ Len(f1) \in Nat /\ Len(f2) \in Nat
      /\ DOMAIN f1 = 1 .. Len(f1) /\ DOMAIN f2 = 1 .. Len(f2)
  BY FileIs
<1>2. /\ j1 \in 1 .. Len(f1) + 1 /\ j2 \in 1 .. Len(f2) + 1
      /\ OrderedFrom(f1, j1) /\ OrderedFrom(f2, j2) /\ t = TimeBefore(f2, j2)
      /\ SameCopies(f1, 1, j1, f2, 1, j2)
  BY DEF PartAt
<1>3. /\ \A k \in 1 .. Len(f1) : f1[k].time <= t <=> k < j1
      /\ \A k \in 1 .. Len(f2) : f2[k].time <= t <=> k < j2
  BY <1>2, TimesUpTo
\* What a file has up to that time it has in front of the line.
<1>4. ASSUME NEW x, x.time <= t
      PROVE  Copies(f1, 1, Len(f1) + 1, x) = Copies(f2, 1, Len(f2) + 1, x)
  <2>1. Copies(f1, j1, Len(f1) + 1, x) = 0
    <3>1. \A k \in j1 .. (Len(f1) + 1) - 1 : f1[k] # x
      BY <1>1, <1>2, <1>3, <1>4
    <3> QED BY <1>1, <1>2, <3>1, CopiesSome
  <2>2. Copies(f2, j2, Len(f2) + 1, x) = 0
    <3>1. \A k \in j2 .. (Len(f2) + 1) - 1 : f2[k] # x
      BY <1>1, <1>2, <1>3, <1>4
    <3> QED BY <1>1, <1>2, <3>1, CopiesSome
  <2>3. /\ Copies(f1, 1, Len(f1) + 1, x) = Copies(f1, 1, j1, x) + Copies(f1, j1, Len(f1) + 1, x)
        /\ Copies(f2, 1, Len(f2) + 1, x) = Copies(f2, 1, j2, x) + Copies(f2, j2, Len(f2) + 1, x)
        /\ Copies(f1, 1, j1, x) \in Nat /\ Copies(f2, 1, j2, x) \in Nat
    BY <1>1, <1>2, CopiesSplit, CopiesSome
  <2>4. Copies(f1, 1, j1, x) = Copies(f2, 1, j2, x)
    BY <1>2 DEF SameCopies
  <2> QED BY <2>1, <2>2, <2>3, <2>4
<1> QED BY <1>4, UpToSame

\* A line with a time that the other file does not have.
LEMMA OneHasTime ==
  ASSUME NEW f, IsFile(f), NEW g, IsFile(g), NEW m, NEW i \in 1 .. Len(f), f[i].time = m, m \in Nat,
         \A k \in 1 .. Len(g) : g[k].time # m
  PROVE  UpTo(f, m) # UpTo(g, m) /\ UpTo(g, m) # UpTo(f, m)
<1> DEFINE x == f[i]
<1>1. /\ Len(f) \in Nat /\ DOMAIN f = 1 .. Len(f)
      /\ Len(g) \in Nat /\ DOMAIN g = 1 .. Len(g)
  BY FileIs
<1>2. x \in ToSet(f) /\ x \notin ToSet(g)
  BY <1>1 DEF ToSet
<1>3. x.time <= m
  OBVIOUS
<1> HIDE DEF x
<1>4. Copies(f, 1, Len(f) + 1, x) # 0 /\ Copies(g, 1, Len(g) + 1, x) = 0
  BY <1>2, InFileIs
<1> QED BY <1>3, <1>4, UpToSame

\* Up to the first time behind the lines that differ the files differ.
LEMMA PartDiffers ==
  ASSUME NEW f1, IsFile(f1), NEW f2, IsFile(f2), OrderedFrom(f1, 1), OrderedFrom(f2, 1),
         NEW j1, NEW j2, PartAt(f1, 1, f2, 1, j1, j2), NEW t, t = TimeBefore(f1, j1),
         NEW m \in Nat, m > t,
         \A k \in 1 .. Len(f1) : f1[k].time > t => m <= f1[k].time,
         \A k \in 1 .. Len(f2) : f2[k].time > t => m <= f2[k].time,
         \/ \E k \in 1 .. Len(f1) : f1[k].time = m
         \/ \E k \in 1 .. Len(f2) : f2[k].time = m
  PROVE  UpTo(f1, m) # UpTo(f2, m)
<1>1. /\ Len(f1) \in Nat /\ Len(f2) \in Nat
      /\ \A k \in 1 .. Len(f1) : f1[k].time \in Nat
      /\ \A k \in 1 .. Len(f2) : f2[k].time \in Nat
  BY FileIs
<1>2. /\ j1 \in 1 .. Len(f1) + 1 /\ j2 \in 1 .. Len(f2) + 1
      /\ OrderedFrom(f1, j1) /\ OrderedFrom(f2, j2) /\ t = TimeBefore(f2, j2)
      /\ SameCopies(f1, 1, j1, f2, 1, j2) /\ Apart(f1, j1, f2, j2)
  BY DEF PartAt
<1>3. /\ t \in Nat
      /\ \A k \in 1 .. Len(f1) : f1[k].time <= t <=> k < j1
      /\ \A k \in 1 .. Len(f2) : f2[k].time <= t <=> k < j2
  BY <1>2, TimesUpTo, TimeBeforeIs
<1>4. /\ \A k \in j1 .. Len(f1) : f1[k].time >= f1[j1].time
      /\ \A k \in j2 .. Len(f2) : f2[k].time >= f2[j2].time
  <2>1. \A k \in j1 .. Len(f1) : j1 \in j1 .. Len(f1) /\ k \in j1 .. Len(f1) /\ k \in 1 .. Len(f1)
    BY <1>1, <1>2
  <2>2. \A k \in j2 .. Len(f2) : j2 \in j2 .. Len(f2) /\ k \in j2 .. Len(f2) /\ k \in 1 .. Len(f2)
    BY <1>1, <1>2
  <2>3. \A k \in j1 .. Len(f1) : f1[k].time >= f1[j1].time
    <3> SUFFICES ASSUME NEW k \in j1 .. Len(f1) PROVE f1[k].time >= f1[j1].time
      OBVIOUS
    <3>1. f1[j1].time <= f1[k].time
      BY <1>2, <2>1 DEF OrderedFrom
    <3>2. f1[j1].time \in Nat /\ f1[k].time \in Nat
      BY <1>1, <2>1
    <3> QED BY <3>1, <3>2
  <2>4. \A k \in j2 .. Len(f2) : f2[k].time >= f2[j2].time
    <3> SUFFICES ASSUME NEW k \in j2 .. Len(f2) PROVE f2[k].time >= f2[j2].time
      OBVIOUS
    <3>1. f2[j2].time <= f2[k].time
      BY <1>2, <2>2 DEF OrderedFrom
    <3>2. f2[j2].time \in Nat /\ f2[k].time \in Nat
      BY <1>1, <2>2
    <3> QED BY <3>1, <3>2
  <2> QED BY <2>3, <2>4
<1>5. ASSUME NEW k \in 1 .. Len(f1), f1[k].time = m
      PROVE  j1 \in 1 .. Len(f1) /\ f1[j1].time = m
  <2>1. k \in j1 .. Len(f1) /\ j1 \in 1 .. Len(f1)
    BY <1>1, <1>2, <1>3, <1>5
  <2>2. f1[j1].time > t
    BY <1>1, <1>3, <2>1
  <2>3. m <= f1[j1].time /\ f1[j1].time <= m /\ f1[j1].time \in Nat
    BY <1>1, <1>4, <1>5, <2>1, <2>2
  <2> QED BY <2>1, <2>3
<1>6. ASSUME NEW k \in 1 .. Len(f2), f2[k].time = m
      PROVE  j2 \in 1 .. Len(f2) /\ f2[j2].time = m
  <2>1. k \in j2 .. Len(f2) /\ j2 \in 1 .. Len(f2)
    BY <1>1, <1>2, <1>3, <1>6
  <2>2. f2[j2].time > t
    BY <1>1, <1>3, <2>1
  <2>3. m <= f2[j2].time /\ f2[j2].time <= m /\ f2[j2].time \in Nat
    BY <1>1, <1>4, <1>6, <2>1, <2>2
  <2> QED BY <2>1, <2>3
<1>7. CASE \A k \in 1 .. Len(f2) : f2[k].time # m
  BY <1>7, OneHasTime
<1>8. CASE \A k \in 1 .. Len(f1) : f1[k].time # m
  BY <1>8, OneHasTime
<1>9. CASE /\ \E k \in 1 .. Len(f1) : f1[k].time = m
           /\ \E k \in 1 .. Len(f2) : f2[k].time = m
  <2>1. j1 \in 1 .. Len(f1) /\ f1[j1].time = m /\ j2 \in 1 .. Len(f2) /\ f2[j2].time = m
    BY <1>5, <1>6, <1>9
  <2>2. ~SameCopies(f1, j1, BunchEnd(f1, j1), f2, j2, BunchEnd(f2, j2))
    <3>1. j1 # Len(f1) + 1 /\ j2 # Len(f2) + 1
      BY <1>1, <2>1
    <3>2. ~Agree(f1, j1, f2, j2)
      BY <1>2, <3>1 DEF Apart
    <3>3. f1[j1].time > TimeBefore(f1, j1) /\ f2[j2].time > TimeBefore(f2, j2)
      BY <1>2, <2>1
    <3> QED BY <2>1, <3>2, <3>3, BunchesSame DEF Agree
  <2>3. PICK x : Copies(f1, j1, BunchEnd(f1, j1), x) # Copies(f2, j2, BunchEnd(f2, j2), x)
    BY <2>2 DEF SameCopies
  <2>4. x.time = m
    <3>1. \/ Copies(f1, j1, BunchEnd(f1, j1), x) # 0
          \/ Copies(f2, j2, BunchEnd(f2, j2), x) # 0
      BY <2>3
    <3> QED BY <2>1, <3>1, InBunch
  <2>5. /\ Copies(f1, j1, Len(f1) + 1, x) = Copies(f1, j1, BunchEnd(f1, j1), x)
        /\ Copies(f2, j2, Len(f2) + 1, x) = Copies(f2, j2, BunchEnd(f2, j2), x)
    BY <1>2, <2>1, <2>4, BunchHasAll
  <2>6. /\ Copies(f1, 1, Len(f1) + 1, x) = Copies(f1, 1, j1, x) + Copies(f1, j1, Len(f1) + 1, x)
        /\ Copies(f2, 1, Len(f2) + 1, x) = Copies(f2, 1, j2, x) + Copies(f2, j2, Len(f2) + 1, x)
        /\ Copies(f1, 1, j1, x) = Copies(f2, 1, j2, x)
    BY <1>1, <1>2, CopiesSplit DEF SameCopies
  <2>7. /\ Copies(f1, 1, j1, x) \in Nat /\ Copies(f1, j1, Len(f1) + 1, x) \in Nat
        /\ Copies(f2, j2, Len(f2) + 1, x) \in Nat
    BY <1>1, <1>2, CopiesSome
  <2>8. Copies(f1, 1, Len(f1) + 1, x) # Copies(f2, 1, Len(f2) + 1, x)
    BY <2>3, <2>5, <2>6, <2>7
  <2>9. x.time <= m
    BY <2>4
  <2> QED BY <2>8, <2>9, UpToSame
<1> QED BY <1>7, <1>8, <1>9

LEMMA SetOfBoth ==
  ASSUME NEW f1, IsFile(f1), NEW f2, IsFile(f2)
  PROVE  ToSet(f1 \o f2) = ToSet(f1) \cup ToSet(f2)
<1> DEFINE R == ToSet(f1) \cup ToSet(f2)
           s == f1 \o f2
<1>1. /\ Len(f1) \in Nat /\ DOMAIN f1 = 1 .. Len(f1) /\ f1 \in Seq(ToSet(f1))
      /\ Len(f2) \in Nat /\ DOMAIN f2 = 1 .. Len(f2) /\ f2 \in Seq(ToSet(f2))
  BY FileIs DEF IsFile
<1>2. /\ DOMAIN s = 1 .. Len(f1) + Len(f2)
      /\ \A i \in 1 .. Len(f1) : s[i] = f1[i]
      /\ \A i \in 1 .. Len(f2) : s[i + Len(f1)] = f2[i]
      /\ \A i \in 1 .. Len(f1) + Len(f2) : i > Len(f1) => s[i] = f2[i - Len(f1)]
  BY <1>1
<1> HIDE DEF s
<1>3. ASSUME NEW x \in ToSet(s) PROVE x \in R
  <2>1. PICK i \in 1 .. Len(f1) + Len(f2) : s[i] = x
    BY <1>2 DEF ToSet
  <2>2. CASE i \in 1 .. Len(f1)
    BY <1>1, <1>2, <2>1, <2>2 DEF ToSet
  <2>3. CASE i \notin 1 .. Len(f1)
    <3>1. i > Len(f1) /\ i - Len(f1) \in 1 .. Len(f2)
      BY <1>1, <2>3
    <3> QED BY <1>1, <1>2, <2>1, <3>1 DEF ToSet
  <2> QED BY <2>2, <2>3
<1>4. ASSUME NEW x \in R PROVE x \in ToSet(s)
  <2>1. CASE x \in ToSet(f1)
    <3>1. PICK i \in 1 .. Len(f1) : f1[i] = x
      BY <1>1, <2>1 DEF ToSet
    <3>2. i \in DOMAIN s
      BY <1>1, <1>2
    <3> QED BY <1>2, <3>1, <3>2 DEF ToSet
  <2>2. CASE x \in ToSet(f2)
    <3>1. PICK i \in 1 .. Len(f2) : f2[i] = x
      BY <1>1, <2>2 DEF ToSet
    <3>2. i + Len(f1) \in DOMAIN s
      BY <1>1, <1>2
    <3> QED BY <1>2, <3>1, <3>2 DEF ToSet
  <2> QED BY <2>1, <2>2
<1> QED BY <1>3, <1>4 DEF s

IsTold(f1, f2, result) ==
  LET earlier == Smallest({result.time1, result.time2})
      later == {line.time : line \in ToSet(f1 \o f2)} \ 0 .. earlier
  IN /\ UpTo(f1, earlier - 1) = UpTo(f2, earlier - 1)
     /\ UpTo(f1, Smallest(later)) # UpTo(f2, Smallest(later))

\* Files that agree up to a time agree up to the one before it.
LEMMA UpToBefore ==
  ASSUME NEW f, IsFile(f), NEW g, IsFile(g), NEW t \in Nat, UpTo(f, t) = UpTo(g, t)
  PROVE  UpTo(f, t - 1) = UpTo(g, t - 1)
<1> SUFFICES ASSUME NEW x, x.time <= t - 1
             PROVE  Copies(f, 1, Len(f) + 1, x) = Copies(g, 1, Len(g) + 1, x)
  BY UpToSame
<1>1. \A y : y.time <= t => Copies(f, 1, Len(f) + 1, y) = Copies(g, 1, Len(g) + 1, y)
  BY UpToSame
<1>2. CASE x \in ToSet(f) \cup ToSet(g)
  <2>1. x.time \in Nat
    <3>1. ASSUME NEW h, IsFile(h), x \in ToSet(h) PROVE x.time \in Nat
      <4>1. DOMAIN h = 1 .. Len(h) /\ \A i \in 1 .. Len(h) : h[i].time \in Nat
        BY <3>1, FileIs
      <4>2. PICK i \in DOMAIN h : x = h[i]
        BY <3>1 DEF ToSet
      <4> QED BY <4>1, <4>2
    <3> QED BY <1>2, <3>1
  <2>2. x.time <= t
    BY <2>1
  <2> QED BY <1>1, <2>2
<1>3. CASE x \notin ToSet(f) \cup ToSet(g)
  BY <1>3, InFileIs
<1> QED BY <1>2, <1>3

LEMMA TellsWhere ==
  ASSUME NEW f1, IsFile(f1), NEW f2, IsFile(f2), InOrder(f1), InOrder(f2),
         NEW result, result = compare(f1, f2), ~result.equal
  PROVE  IsTold(f1, f2, result)
<1>a. PICK earlier : earlier = Smallest({result.time1, result.time2})
  OBVIOUS
<1>b. PICK later : later = {line.time : line \in ToSet(f1 \o f2)} \ 0 .. earlier
  OBVIOUS
<1>1. /\ Len(f1) \in Nat /\ DOMAIN f1 = 1 .. Len(f1)
      /\ Len(f2) \in Nat /\ DOMAIN f2 = 1 .. Len(f2)
      /\ \A k \in 1 .. Len(f1) : f1[k].time \in Nat
      /\ \A k \in 1 .. Len(f2) : f2[k].time \in Nat
  BY FileIs
<1>2. OrderedFrom(f1, 1) /\ OrderedFrom(f2, 1) /\ TimeBefore(f1, 1) = TimeBefore(f2, 1)
  BY InOrderMeans DEF TimeBefore
<1>3. TellsPart(f1, 1, f2, 1, result)
  BY CompareTellsPart
<1>4. PICK j1, j2 : /\ PartAt(f1, 1, f2, 1, j1, j2)
                    /\ result.time1 = TimeBefore(f1, j1) /\ result.time2 = TimeBefore(f2, j2)
  BY <1>2, <1>3 DEF TellsPart
<1> PICK t : t = TimeBefore(f1, j1)
  OBVIOUS
<1>5. /\ j1 \in 1 .. Len(f1) + 1 /\ j2 \in 1 .. Len(f2) + 1
      /\ OrderedFrom(f1, j1) /\ OrderedFrom(f2, j2)
      /\ t = TimeBefore(f2, j2) /\ t \in Nat /\ earlier = t
      /\ Apart(f1, j1, f2, j2)
  <2>1. /\ j1 \in 1 .. Len(f1) + 1 /\ j2 \in 1 .. Len(f2) + 1
        /\ OrderedFrom(f1, j1) /\ OrderedFrom(f2, j2)
        /\ t = TimeBefore(f2, j2) /\ t \in Nat /\ result.time1 = t /\ result.time2 = t
        /\ Apart(f1, j1, f2, j2)
    BY <1>4, TimeBeforeIs DEF PartAt
  <2>2. earlier = Smallest({t})
    BY <1>a, <2>1
  <2>3. IsLeast(t, {t})
    BY <2>1 DEF IsLeast
  <2> QED BY <2>1, <2>2, <2>3 DEF Smallest, IsLeast
<1>6. UpTo(f1, t - 1) = UpTo(f2, t - 1)
  <2>1. UpTo(f1, t) = UpTo(f2, t)
    BY <1>2, <1>4, SameUpTo
  <2> QED BY <1>5, <2>1, UpToBefore
<1>7. \A n : n \in later <=>
        /\ n \notin 0 .. t
        /\ (\E k \in 1 .. Len(f1) : f1[k].time = n) \/ (\E k \in 1 .. Len(f2) : f2[k].time = n)
  <2>1. \A n : n \in later <=>
          /\ n \notin 0 .. t
          /\ \E line \in ToSet(f1) \cup ToSet(f2) : line.time = n
    BY <1>5, <1>b, SetOfBoth
  <2>2. \A n : (\E line \in ToSet(f1) \cup ToSet(f2) : line.time = n) <=>
          (\E k \in 1 .. Len(f1) : f1[k].time = n) \/ (\E k \in 1 .. Len(f2) : f2[k].time = n)
    BY <1>1 DEF ToSet
  <2> QED BY <2>1, <2>2
<1>8. later \subseteq Nat /\ \A n \in later : n > t
  <2> SUFFICES ASSUME NEW n \in later PROVE n \in Nat /\ n > t
    OBVIOUS
  <2>1. n \notin 0 .. t
    BY <1>7
  <2>2. n \in Nat
    <3>1. CASE \E k \in 1 .. Len(f1) : f1[k].time = n
      BY <1>1, <3>1
    <3>2. CASE \E k \in 1 .. Len(f2) : f2[k].time = n
      BY <1>1, <3>2
    <3> QED BY <1>7, <3>1, <3>2
  <2> QED BY <1>5, <2>1, <2>2
<1>9. later # {}
  <2>1. j1 \in 1 .. Len(f1) \/ j2 \in 1 .. Len(f2)
    <3>1. ~(j1 = Len(f1) + 1 /\ j2 = Len(f2) + 1)
      BY <1>5 DEF Apart
    <3>2. /\ Len(f1) \in Nat /\ j1 \in 1 .. Len(f1) + 1
          /\ Len(f2) \in Nat /\ j2 \in 1 .. Len(f2) + 1
      BY <1>1, <1>5
    <3> QED BY <3>1, <3>2
  <2>2. CASE j1 \in 1 .. Len(f1)
    <3>1. f1[j1].time > t /\ f1[j1].time \in Nat
      <4>1. j1 \in j1 .. Len(f1)
        BY <2>2
      <4> QED BY <1>1, <1>5, <2>2, <4>1 DEF OrderedFrom
    <3>2. f1[j1].time \notin 0 .. t
      BY <1>5, <3>1
    <3>3. f1[j1].time \in later
      BY <1>7, <2>2, <3>2
    <3> QED BY <3>3
  <2>3. CASE j2 \in 1 .. Len(f2)
    <3>1. f2[j2].time > t /\ f2[j2].time \in Nat
      <4>1. j2 \in j2 .. Len(f2)
        BY <2>3
      <4> QED BY <1>1, <1>5, <2>3, <4>1 DEF OrderedFrom
    <3>2. f2[j2].time \notin 0 .. t
      BY <1>5, <3>1
    <3>3. f2[j2].time \in later
      BY <1>7, <2>3, <3>2
    <3> QED BY <3>3
  <2> QED BY <2>1, <2>2, <2>3
<1>c. PICK m : m = Smallest(later)
  OBVIOUS
<1>10. m \in later /\ \A n \in later : m <= n
  <2>1. \E n \in later : \A k \in later : n <= k
    BY <1>8, <1>9, LeastNumber
  <2>2. \E n \in later : IsLeast(n, later)
    BY <2>1 DEF IsLeast
  <2> QED BY <1>c, <2>2 DEF Smallest, IsLeast
<1>11. /\ m \in Nat /\ m > t
       /\ (\E k \in 1 .. Len(f1) : f1[k].time = m) \/ (\E k \in 1 .. Len(f2) : f2[k].time = m)
  BY <1>7, <1>8, <1>10
<1>12. \A k \in 1 .. Len(f1) : f1[k].time > t => m <= f1[k].time
  <2> SUFFICES ASSUME NEW k \in 1 .. Len(f1), f1[k].time > t PROVE m <= f1[k].time
    OBVIOUS
  <2>1. f1[k].time \notin 0 .. t
    BY <1>1, <1>5
  <2> QED BY <1>7, <1>10, <2>1
<1>13. \A k \in 1 .. Len(f2) : f2[k].time > t => m <= f2[k].time
  <2> SUFFICES ASSUME NEW k \in 1 .. Len(f2), f2[k].time > t PROVE m <= f2[k].time
    OBVIOUS
  <2>1. f2[k].time \notin 0 .. t
    BY <1>1, <1>5
  <2> QED BY <1>7, <1>10, <2>1
<1>14. UpTo(f1, m) # UpTo(f2, m)
  BY <1>2, <1>4, <1>11, <1>12, <1>13, PartDiffers
<1>15. UpTo(f1, earlier - 1) = UpTo(f2, earlier - 1)
  BY <1>5, <1>6
<1>16. UpTo(f1, Smallest(later)) # UpTo(f2, Smallest(later))
  BY <1>14, <1>c
<1> QED BY <1>15, <1>16, <1>a, <1>b DEF IsTold

(***************************************************************************)
(* The system's sort                                                       *)
(***************************************************************************)
\* g has the lines of f from a on, up to the one before b, d lines further.
HasAt(g, f, a, b, d) == \A k \in a .. b - 1 : g[k + d] = f[k]

\* Lines that are moved are as many as before.
LEMMA MovedCopies ==
  ASSUME NEW f, NEW g, NEW a \in Int, NEW b \in Int, NEW d \in Int,
         HasAt(g, f, a, b, d),
         NEW c, c = a + d, NEW e, e = b + d, NEW x
  PROVE  Copies(g, c, e, x) = Copies(f, a, b, x)
<1> DEFINE S == {k \in a .. b - 1 : f[k] = x}
           T == {k \in c .. e - 1 : g[k] = x}
           h == [k \in S |-> k + d]
<1>0. \A k \in a .. b - 1 : g[k + d] = f[k]
  BY DEF HasAt
<1>1. h \in [S -> T]
  BY <1>0
<1>2. \A k, l \in S : h[k] = h[l] => k = l
  OBVIOUS
<1>3. \A l \in T : \E k \in S : h[k] = l
  <2> SUFFICES ASSUME NEW l \in T PROVE \E k \in S : h[k] = l
    OBVIOUS
  <2>1. l - d \in a .. b - 1 /\ (l - d) + d = l
    OBVIOUS
  <2>2. l - d \in S
    BY <1>0, <2>1
  <2> QED BY <2>1, <2>2
<1>4. IsFiniteSet(S)
  <2>1. S \in SUBSET (a .. b - 1) /\ IsFiniteSet(a .. b - 1)
    BY FS_Interval
  <2> QED BY <2>1, FS_Subset
<1>5. Copies(g, c, e, x) = Cardinality(T) /\ Copies(f, a, b, x) = Cardinality(S)
  BY DEF Copies
<1> HIDE DEF S, T, h
<1>6. ExistsBijection(S, T)
  <2>1. h \in Bijection(S, T)
    BY <1>1, <1>2, <1>3 DEF Bijection, Injection, Surjection, IsInjective
  <2> QED BY <2>1 DEF ExistsBijection
<1> QED BY <1>4, <1>5, <1>6, FS_Bijection

\* A line that is put in.
LEMMA InsertLines ==
  ASSUME NEW R, NEW s \in Seq(R), NEW e \in R, NEW p \in 1 .. Len(s) + 1,
         NEW r, r = InsertAt(s, p, e)
  PROVE  /\ r \in Seq(R) /\ Len(r) = Len(s) + 1
         /\ \A i \in 1 .. Len(s) + 1 :
              r[i] = IF i < p THEN s[i] ELSE IF i = p THEN e ELSE s[i - 1]
<1>1. Len(s) \in Nat /\ DOMAIN s = 1 .. Len(s)
  OBVIOUS
<1> DEFINE a == SubSeq(s, 1, p - 1)
           b == SubSeq(s, p, Len(s))
<1>2. /\ a \in Seq(R) /\ Len(a) = p - 1
      /\ \A i \in 1 .. p - 1 : a[i] = s[i]
  BY <1>1
<1>3. /\ b \in Seq(R) /\ Len(b) = Len(s) - p + 1
      /\ \A i \in 1 .. Len(s) - p + 1 : b[i] = s[i + p - 1]
  BY <1>1
<1>4. r = a \o <<e>> \o b
  BY DEF InsertAt
<1> HIDE DEF a, b
<1> DEFINE c == a \o <<e>>
<1>5. /\ c \in Seq(R) /\ Len(c) = p
      /\ \A i \in 1 .. p - 1 : c[i] = s[i]
      /\ c[p] = e
  BY <1>2
<1>6. r = c \o b
  BY <1>4
<1> HIDE DEF c
<1>7. /\ r \in Seq(R) /\ Len(r) = Len(s) + 1
      /\ \A i \in 1 .. p : r[i] = c[i]
      /\ \A i \in p + 1 .. Len(s) + 1 : r[i] = b[i - p]
  <2>1. r \in Seq(R) /\ Len(r) = Len(c) + Len(b)
    BY <1>3, <1>5, <1>6
  <2>2. p + (Len(s) - p + 1) = Len(s) + 1
    BY <1>1
  <2>3. \A i \in 1 .. p : r[i] = c[i]
    BY <1>1, <1>3, <1>5, <1>6
  <2>4. \A i \in p + 1 .. Len(s) + 1 : r[i] = b[i - p]
    BY <1>1, <1>3, <1>5, <1>6
  <2> QED BY <1>3, <1>5, <2>1, <2>2, <2>3, <2>4
<1>8. ASSUME NEW i \in 1 .. Len(s) + 1
      PROVE  r[i] = IF i < p THEN s[i] ELSE IF i = p THEN e ELSE s[i - 1]
  <2>1. CASE i < p
    BY <1>5, <1>7, <2>1
  <2>2. CASE i = p
    BY <1>5, <1>7, <2>2
  <2>3. CASE i > p
    <3>1. i \in p + 1 .. Len(s) + 1 /\ i - p \in 1 .. Len(s) - p + 1 /\ (i - p) + p - 1 = i - 1
      BY <1>1, <2>3
    <3>2. r[i] = b[i - p] /\ b[i - p] = s[(i - p) + p - 1]
      BY <1>3, <1>7, <3>1
    <3> QED BY <2>3, <3>1, <3>2
  <2> QED BY <1>1, <2>1, <2>2, <2>3
<1> QED BY <1>7, <1>8

\* r has the lines of s, and e.
HasAlso(r, s, e) ==
  \A x : Copies(r, 1, Len(r) + 1, x) = Copies(s, 1, Len(s) + 1, x) + (IF x = e THEN 1 ELSE 0)

LEMMA InsertCopies ==
  ASSUME NEW R, NEW s \in Seq(R), NEW e \in R, NEW p \in 1 .. Len(s) + 1,
         NEW r, r = InsertAt(s, p, e)
  PROVE  HasAlso(r, s, e)
<1> SUFFICES ASSUME NEW x
             PROVE  Copies(r, 1, Len(r) + 1, x) =
                      Copies(s, 1, Len(s) + 1, x) + (IF x = e THEN 1 ELSE 0)
  BY DEF HasAlso
<1>1. /\ Len(s) \in Nat /\ Len(r) = Len(s) + 1
      /\ \A i \in 1 .. Len(s) + 1 :
           r[i] = IF i < p THEN s[i] ELSE IF i = p THEN e ELSE s[i - 1]
  <2>1. Len(s) \in Nat
    OBVIOUS
  <2> QED BY <2>1, InsertLines
<1>2. Copies(r, 1, p, x) = Copies(s, 1, p, x)
  <2>1. HasAt(r, s, 1, p, 0)
    BY <1>1 DEF HasAt
  <2>2. p \in Int /\ p = p + 0
    OBVIOUS
  <2> QED BY <2>1, <2>2, MovedCopies
<1>3. Copies(r, p + 1, Len(r) + 1, x) = Copies(s, p, Len(s) + 1, x)
  <2>1. HasAt(r, s, p, Len(s) + 1, 1)
    <3> SUFFICES ASSUME NEW k \in p .. (Len(s) + 1) - 1 PROVE r[k + 1] = s[k]
      BY DEF HasAt
    <3>1. k + 1 \in 1 .. Len(s) + 1 /\ ~(k + 1 < p) /\ k + 1 # p /\ (k + 1) - 1 = k
      BY <1>1
    <3> QED BY <1>1, <3>1
  <2>2. p \in Int /\ Len(s) + 1 \in Int /\ Len(r) + 1 = (Len(s) + 1) + 1
    BY <1>1
  <2> QED BY <2>1, <2>2, MovedCopies
<1>4. Copies(r, p, p + 1, x) = IF x = e THEN 1 ELSE 0
  <2>1. r[p] = e /\ p .. (p + 1) - 1 = {p}
    BY <1>1
  <2>2. {k \in p .. (p + 1) - 1 : r[k] = x} = IF x = e THEN {p} ELSE {}
    BY <2>1
  <2> QED BY <2>2, FS_Singleton, FS_EmptySet DEF Copies
<1>5. /\ Copies(r, 1, Len(r) + 1, x) = Copies(r, 1, p, x) + Copies(r, p, Len(r) + 1, x)
      /\ Copies(r, p, Len(r) + 1, x) = Copies(r, p, p + 1, x) + Copies(r, p + 1, Len(r) + 1, x)
  BY <1>1, CopiesSplit
<1>6. Copies(s, 1, Len(s) + 1, x) = Copies(s, 1, p, x) + Copies(s, p, Len(s) + 1, x)
  BY <1>1, CopiesSplit
<1>7. Copies(s, 1, p, x) \in Nat /\ Copies(s, p, Len(s) + 1, x) \in Nat
  BY <1>1, CopiesSome
<1> QED BY <1>2, <1>3, <1>4, <1>5, <1>6, <1>7

LEMMA AppendCopies ==
  ASSUME NEW R, NEW s \in Seq(R), NEW e \in R, NEW r, r = Append(s, e)
  PROVE  HasAlso(r, s, e)
<1> SUFFICES ASSUME NEW x
             PROVE  Copies(r, 1, Len(r) + 1, x) =
                      Copies(s, 1, Len(s) + 1, x) + (IF x = e THEN 1 ELSE 0)
  BY DEF HasAlso
<1>1. /\ Len(s) \in Nat /\ Len(r) = Len(s) + 1
      /\ \A k \in 1 .. Len(s) : r[k] = s[k]
      /\ r[Len(s) + 1] = e
  OBVIOUS
<1> PICK l : l = Len(s) + 1
  OBVIOUS
<1>2. Copies(r, 1, l, x) = Copies(s, 1, l, x)
  <2>1. HasAt(r, s, 1, l, 0)
    BY <1>1 DEF HasAt
  <2>2. l \in Int /\ l = l + 0
    BY <1>1
  <2> QED BY <2>1, <2>2, MovedCopies
<1>3. Copies(r, l, l + 1, x) = IF x = e THEN 1 ELSE 0
  <2>1. r[l] = e /\ l .. (l + 1) - 1 = {l}
    BY <1>1
  <2>2. {k \in l .. (l + 1) - 1 : r[k] = x} = IF x = e THEN {l} ELSE {}
    BY <2>1
  <2> QED BY <2>2, FS_Singleton, FS_EmptySet DEF Copies
<1>4. Copies(r, 1, l + 1, x) = Copies(r, 1, l, x) + Copies(r, l, l + 1, x)
  BY <1>1, CopiesSplit
<1> QED BY <1>1, <1>2, <1>3, <1>4

\* A line goes where it is behind those it does not sort before, if those are
\* sorted, and they are sorted with it.
Sorted(s) == \A i, j \in 1 .. Len(s) : i < j => ~SortsBefore(s[j], s[i])

LEMMA SortOrder ==
  /\ \A a, b \in Lines : SortsBefore(a, b) => ~SortsBefore(b, a)
  /\ \A a, b, c \in Lines : SortsBefore(a, b) /\ ~SortsBefore(c, b) => SortsBefore(a, c)
  /\ \A a, b \in Lines : ~SortsBefore(b, a) => a.time <= b.time
<1>1. \A a \in Lines : a.time \in Int /\ a.tid \in Int
  BY LineTypes DEF Ids
<1>2. ASSUME NEW a \in Lines, NEW b \in Lines
      PROVE  /\ SortsBefore(a, b) => ~SortsBefore(b, a)
             /\ ~SortsBefore(b, a) => a.time <= b.time
  BY <1>1 DEF SortsBefore
<1>3. ASSUME NEW a \in Lines, NEW b \in Lines, NEW c \in Lines,
             SortsBefore(a, b), ~SortsBefore(c, b)
      PROVE  SortsBefore(a, c)
  BY <1>1, <1>3 DEF SortsBefore
<1> QED BY <1>2, <1>3

IsPlace(s, e, p) == \A i \in 1 .. Len(s) : i < p <=> ~SortsBefore(e, s[i])

LEMMA PlaceIs ==
  ASSUME NEW s \in Seq(Lines), Sorted(s), NEW e \in Lines
  PROVE  PlaceIn(s, e) \in 1 .. Len(s) + 1 /\ IsPlace(s, e, PlaceIn(s, e))
<1> DEFINE later == {i \in 1 .. Len(s) : SortsBefore(e, s[i])}
<1>1. Len(s) \in Nat /\ DOMAIN s = 1 .. Len(s) /\ \A i \in 1 .. Len(s) : s[i] \in Lines
  BY FileLines
<1>2. \E p \in 1 .. Len(s) + 1 : IsPlace(s, e, p)
  <2>1. CASE later = {}
    <3>1. IsPlace(s, e, Len(s) + 1)
      BY <1>1, <2>1 DEF IsPlace
    <3> QED BY <1>1, <3>1
  <2>2. CASE later # {}
    <3>1. PICK p \in later : \A i \in later : p <= i
      <4>1. later \subseteq Nat
        BY <1>1
      <4> HIDE DEF later
      <4> QED BY <2>2, <4>1, LeastNumber
    <3>2. p \in 1 .. Len(s) /\ SortsBefore(e, s[p])
      OBVIOUS
    <3>3. ASSUME NEW i \in 1 .. Len(s) PROVE i < p <=> ~SortsBefore(e, s[i])
      <4>1. CASE i < p
        <5>1. i \notin later
          BY <1>1, <3>1, <3>2, <4>1
        <5> QED BY <4>1, <5>1
      <4>2. CASE i = p
        BY <3>2, <4>2
      <4>3. CASE i > p
        <5>1. ~SortsBefore(s[i], s[p])
          BY <3>2, <4>3 DEF Sorted
        <5>2. SortsBefore(e, s[i])
          BY <1>1, <3>2, <5>1, SortOrder
        <5> QED BY <1>1, <3>2, <4>3, <5>2
      <4> QED BY <1>1, <3>2, <4>1, <4>2, <4>3
    <3>4. IsPlace(s, e, p)
      BY <3>3 DEF IsPlace
    <3> QED BY <1>1, <3>2, <3>4
  <2> QED BY <2>1, <2>2
<1>3. PlaceIn(s, e) = CHOOSE p \in 1 .. Len(s) + 1 : IsPlace(s, e, p)
  BY <1>1 DEF PlaceIn, IsPlace
<1> QED BY <1>2, <1>3

LEMMA InsertSorted ==
  ASSUME NEW s \in Seq(Lines), Sorted(s), NEW e \in Lines,
         NEW p \in 1 .. Len(s) + 1, IsPlace(s, e, p), NEW r, r = InsertAt(s, p, e)
  PROVE  Sorted(r)
<1>1. /\ Len(r) = Len(s) + 1 /\ Len(s) \in Nat
      /\ \A i \in 1 .. Len(s) + 1 :
           r[i] = IF i < p THEN s[i] ELSE IF i = p THEN e ELSE s[i - 1]
      /\ \A i \in 1 .. Len(s) : s[i] \in Lines
  BY InsertLines, FileLines
<1> SUFFICES ASSUME NEW i \in 1 .. Len(s) + 1, NEW j \in 1 .. Len(s) + 1, i < j
             PROVE  ~SortsBefore(r[j], r[i])
  BY <1>1 DEF Sorted
<1>2. CASE j < p
  <2>1. r[i] = s[i] /\ r[j] = s[j] /\ i \in 1 .. Len(s) /\ j \in 1 .. Len(s)
    BY <1>1, <1>2
  <2> QED BY <2>1 DEF Sorted
<1>3. CASE j = p
  <2>1. r[i] = s[i] /\ r[j] = e /\ i \in 1 .. Len(s) /\ i < p
    BY <1>1, <1>3
  <2> QED BY <2>1 DEF IsPlace
<1>4. CASE j > p /\ i < p
  <2>1. r[i] = s[i] /\ r[j] = s[j - 1] /\ i \in 1 .. Len(s) /\ j - 1 \in 1 .. Len(s) /\ i < j - 1
    BY <1>1, <1>4
  <2> QED BY <2>1 DEF Sorted
<1>5. CASE j > p /\ i = p
  <2>1. r[i] = e /\ r[j] = s[j - 1] /\ j - 1 \in 1 .. Len(s) /\ ~(j - 1 < p)
    BY <1>1, <1>5
  <2>2. SortsBefore(e, s[j - 1])
    BY <2>1 DEF IsPlace
  <2> QED BY <1>1, <2>1, <2>2, SortOrder
<1>6. CASE i > p
  <2>1. /\ r[i] = s[i - 1] /\ r[j] = s[j - 1]
        /\ i - 1 \in 1 .. Len(s) /\ j - 1 \in 1 .. Len(s) /\ i - 1 < j - 1
    BY <1>1, <1>6
  <2> QED BY <2>1 DEF Sorted
<1> QED BY <1>1, <1>2, <1>3, <1>4, <1>5, <1>6

\* The lines that are sorted once line n has been.
SortTurn(file, g, n) ==
  IF n = 0 THEN <<>>
  ELSE IF file[n].what = "thread_sync" THEN g[n - 1]
       ELSE InsertAt(g[n - 1], PlaceIn(g[n - 1], file[n]), file[n])

SortsTo(g, file, n) == g = [k \in 0 .. n |-> SortTurn(file, g, k)]

LEMMA SortExists ==
  ASSUME NEW file, NEW n \in Nat
  PROVE  \E g : SortsTo(g, file, n)
<1> DEFINE S == {m \in Nat : \E g : SortsTo(g, file, m)}
<1>1. 0 \in S
  <2> DEFINE g == [k \in 0 .. 0 |-> <<>>]
  <2>1. \A k \in 0 .. 0 : SortTurn(file, g, k) = <<>>
    BY DEF SortTurn
  <2>2. g = [k \in 0 .. 0 |-> SortTurn(file, g, k)]
    BY <2>1
  <2> QED BY <2>2 DEF SortsTo
<1>2. ASSUME NEW m \in Nat, m \in S PROVE m + 1 \in S
  <2>1. PICK g : SortsTo(g, file, m)
    BY <1>2
  <2>2. \A k \in 0 .. m : g[k] = SortTurn(file, g, k)
    BY <2>1 DEF SortsTo
  <2> DEFINE h == [k \in 0 .. m + 1 |-> IF k = m + 1 THEN SortTurn(file, g, m + 1) ELSE g[k]]
  <2>3. /\ \A k \in 0 .. m : h[k] = g[k]
        /\ h[m + 1] = SortTurn(file, g, m + 1)
        /\ h = [k \in 0 .. m + 1 |-> h[k]]
    OBVIOUS
  <2> HIDE DEF h
  <2>4. ASSUME NEW k \in 0 .. m + 1 PROVE SortTurn(file, h, k) = SortTurn(file, g, k)
    <3>1. k # 0 => h[k - 1] = g[k - 1]
      <4>1. k # 0 => k - 1 \in 0 .. m
        OBVIOUS
      <4> QED BY <2>3, <4>1
    <3> QED BY <3>1 DEF SortTurn
  <2>5. ASSUME NEW k \in 0 .. m + 1 PROVE h[k] = SortTurn(file, h, k)
    <3>1. k \in 0 .. m \/ k = m + 1
      OBVIOUS
    <3> QED BY <2>2, <2>3, <2>4, <3>1
  <2>6. h = [k \in 0 .. m + 1 |-> SortTurn(file, h, k)]
    BY <2>3, <2>5
  <2>7. SortsTo(h, file, m + 1)
    BY <2>6 DEF SortsTo
  <2> QED BY <2>7
<1>3. n \in S
  <2> HIDE DEF S
  <2> QED BY <1>1, <1>2, Induction
<1> QED BY <1>3

LEMMA SortIs ==
  ASSUME NEW file, Len(file) \in Nat
  PROVE  \E g : /\ my_sort(file) = g[Len(file)]
                /\ \A n \in 0 .. Len(file) : g[n] = SortTurn(file, g, n)
<1> DEFINE sorted == CHOOSE g : SortsTo(g, file, Len(file))
<1>1. my_sort(file) = sorted[Len(file)]
  BY DEF my_sort, SortsTo, SortTurn
<1>2. SortsTo(sorted, file, Len(file))
  BY SortExists
<1> HIDE DEF sorted
<1>3. \A n \in 0 .. Len(file) : sorted[n] = SortTurn(file, sorted, n)
  BY <1>2 DEF SortsTo
<1> QED BY <1>1, <1>3

\* s has the first n lines of a file, save sync lines, in order.
HasSorted(s, file, n) ==
  /\ s \in Seq(Lines) /\ Sorted(s)
  /\ \A x : Copies(s, 1, Len(s) + 1, x) =
              IF x.what = "thread_sync" THEN 0 ELSE Copies(file, 1, n + 1, x)

LEMMA SortedStep ==
  ASSUME NEW file \in Seq(Lines), NEW g, NEW n \in Nat, n + 1 <= Len(file),
         HasSorted(g[n], file, n), g[n + 1] = SortTurn(file, g, n + 1)
  PROVE  HasSorted(g[n + 1], file, n + 1)
<1> PICK s : s = g[n]
  OBVIOUS
<1> PICK e : e = file[n + 1]
  OBVIOUS
<1> PICK r : r = g[n + 1]
  OBVIOUS
<1>1. /\ s \in Seq(Lines) /\ Sorted(s) /\ e \in Lines
      /\ r = IF e.what = "thread_sync" THEN s ELSE InsertAt(s, PlaceIn(s, e), e)
  <2>1. n + 1 # 0 /\ (n + 1) - 1 = n /\ n + 1 \in DOMAIN file
    BY FileLines
  <2> QED BY <2>1, FileLines DEF HasSorted, SortTurn
<1>2. \A x : Copies(s, 1, Len(s) + 1, x) =
               IF x.what = "thread_sync" THEN 0 ELSE Copies(file, 1, n + 1, x)
  BY DEF HasSorted
<1>3. ASSUME NEW x
      PROVE  /\ Copies(file, 1, (n + 1) + 1, x) =
                  Copies(file, 1, n + 1, x) + (IF x = e THEN 1 ELSE 0)
             /\ Copies(file, 1, n + 1, x) \in Nat
  <2>1. /\ Copies(file, 1, (n + 1) + 1, x) =
             Copies(file, 1, n + 1, x) + Copies(file, n + 1, (n + 1) + 1, x)
        /\ Copies(file, 1, n + 1, x) \in Nat
    BY CopiesSplit, CopiesSome
  <2>2. {k \in n + 1 .. ((n + 1) + 1) - 1 : file[k] = x} = IF x = e THEN {n + 1} ELSE {}
    <3>1. n + 1 .. ((n + 1) + 1) - 1 = {n + 1}
      OBVIOUS
    <3> QED BY <3>1
  <2>3. Copies(file, n + 1, (n + 1) + 1, x) = IF x = e THEN 1 ELSE 0
    BY <2>2, FS_Singleton, FS_EmptySet DEF Copies
  <2> QED BY <2>1, <2>3
<1>4. CASE e.what = "thread_sync"
  <2>1. r = s
    BY <1>1, <1>4
  <2>2. ASSUME NEW x, x.what # "thread_sync"
        PROVE  Copies(file, 1, (n + 1) + 1, x) = Copies(file, 1, n + 1, x)
    <3>1. x # e
      BY <1>4, <2>2
    <3> QED BY <1>3, <3>1
  <2> QED BY <1>1, <1>2, <2>1, <2>2 DEF HasSorted
<1>5. CASE e.what # "thread_sync"
  <2> PICK p : p = PlaceIn(s, e)
    OBVIOUS
  <2>1. r = InsertAt(s, p, e)
    BY <1>1, <1>5
  <2>2. p \in 1 .. Len(s) + 1 /\ IsPlace(s, e, p)
    BY <1>1, PlaceIs
  <2>3. r \in Seq(Lines) /\ Sorted(r)
    BY <1>1, <2>1, <2>2, InsertLines, InsertSorted
  <2>4. ASSUME NEW x
        PROVE  Copies(r, 1, Len(r) + 1, x) =
                 IF x.what = "thread_sync" THEN 0 ELSE Copies(file, 1, (n + 1) + 1, x)
    <3>1. Copies(r, 1, Len(r) + 1, x) =
            Copies(s, 1, Len(s) + 1, x) + (IF x = e THEN 1 ELSE 0)
      <4>1. s \in Seq(Lines) /\ e \in Lines /\ p \in 1 .. Len(s) + 1
        BY <1>1, <2>2
      <4>2. HasAlso(r, s, e)
        BY <2>1, <4>1, InsertCopies
      <4> QED BY <4>2 DEF HasAlso
    <3>2. CASE x.what = "thread_sync"
      <4>1. x # e /\ Copies(s, 1, Len(s) + 1, x) = 0
        BY <1>2, <1>5, <3>2
      <4> QED BY <3>1, <3>2, <4>1
    <3>3. CASE x.what # "thread_sync"
      <4>1. Copies(s, 1, Len(s) + 1, x) = Copies(file, 1, n + 1, x)
        BY <1>2, <3>3
      <4> QED BY <1>3, <3>1, <3>3, <4>1
    <3> QED BY <3>2, <3>3
  <2> QED BY <2>3, <2>4 DEF HasSorted
<1> QED BY <1>4, <1>5

LEMMA SortedIs ==
  ASSUME NEW file \in Seq(Lines)
  PROVE  HasSorted(my_sort(file), file, Len(file))
<1>1. Len(file) \in Nat
  BY FileLines
<1>2. PICK g : /\ my_sort(file) = g[Len(file)]
               /\ \A n \in 0 .. Len(file) : g[n] = SortTurn(file, g, n)
  BY <1>1, SortIs
<1> DEFINE S == {n \in Nat : n <= Len(file) => HasSorted(g[n], file, n)}
<1>3. 0 \in S
  <2>1. g[0] = <<>>
    BY <1>1, <1>2 DEF SortTurn
  <2>2. <<>> \in Seq(Lines) /\ Len(<<>>) = 0 /\ Sorted(<<>>)
    BY DEF Sorted
  <2>3. \A f, x : Copies(f, 1, 0 + 1, x) = 0
    BY CopiesSome
  <2> QED BY <2>1, <2>2, <2>3 DEF HasSorted
<1>4. ASSUME NEW n \in Nat, n \in S PROVE n + 1 \in S
  <2> SUFFICES ASSUME n + 1 <= Len(file) PROVE HasSorted(g[n + 1], file, n + 1)
    OBVIOUS
  <2>1. HasSorted(g[n], file, n)
    BY <1>1, <1>4
  <2>2. g[n + 1] = SortTurn(file, g, n + 1)
    BY <1>1, <1>2
  <2> QED BY <2>1, <2>2, SortedStep
<1>5. Len(file) \in S
  <2> HIDE DEF S
  <2> QED BY <1>1, <1>3, <1>4, Induction
<1> QED BY <1>1, <1>2, <1>5

(***************************************************************************)
(* What the utility writes                                                 *)
(***************************************************************************)
\* The lines written are in order; they and the lines queued are those read,
\* save sync lines.
WrittenInv ==
  pc # "failed" =>
    /\ \A i, j \in 1 .. Len(out) : i < j => out[i].time <= out[j].time
    /\ \A x : Copies(out, 1, Len(out) + 1, x) + (IF x \in Queued THEN 1 ELSE 0) =
                IF x.what = "thread_sync" THEN 0 ELSE Copies(trace, 1, Len(trace) + 1, x)

LEMMA WrittenRead ==
  ASSUME MergeInv, WrittenInv, NEW line \in Lines, IsNext(line), ReadLine(line)
  PROVE  WrittenInv'
<1>1. /\ pc = "read" /\ trace' = Append(trace, line) /\ out' = out
      /\ trace \in Seq(Lines) /\ out \in Seq(Lines)
      /\ ActiveInv /\ QueueInv
  BY DEF MergeInv, ActiveInv, ReadLine
<1>2. /\ Queued' = IF line.what = "thread_sync" THEN Queued ELSE Queued \cup {line}
      /\ line \notin Queued
  BY <1>1, ReadQueued, NextIsNew
<1> PICK new : new = Append(trace, line)
  OBVIOUS
<1>3. HasAlso(new, trace, line)
  BY <1>1, AppendCopies
<1> PICK old : old = Queued
  OBVIOUS
<1> PICK now : now = Queued'
  OBVIOUS
<1>4. ASSUME NEW x
      PROVE  Copies(out, 1, Len(out) + 1, x) + (IF x \in now THEN 1 ELSE 0) =
               IF x.what = "thread_sync" THEN 0 ELSE Copies(new, 1, Len(new) + 1, x)
  <2>1. Copies(out, 1, Len(out) + 1, x) + (IF x \in old THEN 1 ELSE 0) =
          IF x.what = "thread_sync" THEN 0 ELSE Copies(trace, 1, Len(trace) + 1, x)
    BY <1>1 DEF WrittenInv
  <2>2. Copies(new, 1, Len(new) + 1, x) =
          Copies(trace, 1, Len(trace) + 1, x) + (IF x = line THEN 1 ELSE 0)
    BY <1>3 DEF HasAlso
  <2>3. Copies(out, 1, Len(out) + 1, x) \in Nat /\ Copies(trace, 1, Len(trace) + 1, x) \in Nat
    BY <1>1, FileLines, CopiesSome
  <2>4. /\ x \in now <=> x \in old \/ (x = line /\ line.what # "thread_sync")
        /\ line \notin old
    BY <1>2
  <2>5. CASE x = line
    BY <2>1, <2>2, <2>3, <2>4, <2>5
  <2>6. CASE x # line
    BY <2>1, <2>2, <2>3, <2>4, <2>6
  <2> QED BY <2>5, <2>6
<1>5. \A i, j \in 1 .. Len(out) : i < j => out[i].time <= out[j].time
  BY <1>1 DEF WrittenInv
<1> QED BY <1>1, <1>4, <1>5 DEF WrittenInv

LEMMA WrittenMerge ==
  ASSUME MergeInv, WrittenInv, MergeTop
  PROVE  WrittenInv'
<1>1. /\ pc = "merge" /\ OutInv /\ QueueInv /\ out \in Seq(Lines) /\ trace \in Seq(Lines)
      /\ time_threadid_min = SetToBag(HeadsOf(queues))
  BY DEF MergeInv, ActiveInv, MergeTop, HeapHasHeads, HeadsOf
<1>2. PICK e : IsTop(e) /\ MergeEntry(e)
  BY MergeTopStep
<1> PICK line : line = Head(queues[e[2]].entries)
  OBVIOUS
<1>3. line \in Queued /\ line \in Lines /\ Queued' = Queued \ {line}
  BY <1>1, <1>2, MergeEntryStep
<1> PICK new : new = Append(out, line)
  OBVIOUS
<1>4. out' = new /\ trace' = trace
  BY <1>2 DEF MergeEntry
<1>5. HasAlso(new, out, line)
  BY <1>1, <1>3, AppendCopies
<1> PICK old : old = Queued
  OBVIOUS
<1> PICK now : now = Queued'
  OBVIOUS
<1>6. ASSUME NEW x
      PROVE  Copies(new, 1, Len(new) + 1, x) + (IF x \in now THEN 1 ELSE 0) =
               IF x.what = "thread_sync" THEN 0 ELSE Copies(trace, 1, Len(trace) + 1, x)
  <2>1. Copies(out, 1, Len(out) + 1, x) + (IF x \in old THEN 1 ELSE 0) =
          IF x.what = "thread_sync" THEN 0 ELSE Copies(trace, 1, Len(trace) + 1, x)
    BY <1>1 DEF WrittenInv
  <2>2. Copies(new, 1, Len(new) + 1, x) =
          Copies(out, 1, Len(out) + 1, x) + (IF x = line THEN 1 ELSE 0)
    BY <1>5 DEF HasAlso
  <2>3. Copies(out, 1, Len(out) + 1, x) \in Nat
    BY <1>1, FileLines, CopiesSome
  <2>4. (x \in now <=> x \in old /\ x # line) /\ line \in old
    BY <1>3
  <2>5. CASE x = line
    BY <2>1, <2>2, <2>3, <2>4, <2>5
  <2>6. CASE x # line
    BY <2>1, <2>2, <2>3, <2>4, <2>6
  <2> QED BY <2>5, <2>6
<1>7. ASSUME NEW i \in 1 .. Len(new), NEW j \in 1 .. Len(new), i < j
      PROVE  new[i].time <= new[j].time
  <2>1. /\ Len(out) \in Nat /\ DOMAIN out = 1 .. Len(out)
        /\ Len(new) = Len(out) + 1 /\ new[Len(out) + 1] = line
        /\ \A k \in 1 .. Len(out) : new[k] = out[k]
    BY <1>1
  <2>2. CASE j \in 1 .. Len(out)
    <3>1. i \in 1 .. Len(out) /\ new[i] = out[i] /\ new[j] = out[j]
      BY <1>7, <2>1, <2>2
    <3> QED BY <1>1, <1>7, <2>2, <3>1 DEF WrittenInv
  <2>3. CASE j = Len(out) + 1
    <3>1. i \in 1 .. Len(out) /\ new[i] = out[i] /\ new[j] = line
      BY <1>7, <2>1, <2>3
    <3>2. out[i].time <= line.time
      BY <1>1, <1>3, <2>1, <3>1 DEF OutInv
    <3> QED BY <3>1, <3>2
  <2> QED BY <2>1, <2>2, <2>3
<1> QED BY <1>4, <1>6, <1>7 DEF WrittenInv

LEMMA WrittenInvHolds == Spec => []WrittenInv
<1>1. Init => WrittenInv
  <2> SUFFICES ASSUME Init PROVE WrittenInv
    OBVIOUS
  <2>1. trace = <<>> /\ out = <<>> /\ queues = <<>> /\ DOMAIN <<>> = {} /\ Len(<<>>) = 0
    BY DEF Init
  <2>2. Queued = {}
    BY <2>1 DEF Queued
  <2>3. \A f, x : Copies(f, 1, 0 + 1, x) = 0
    BY CopiesSome
  <2> QED BY <2>1, <2>2, <2>3 DEF WrittenInv
<1>2. MergeInv /\ WrittenInv /\ [Next]_vars => WrittenInv'
  <2> SUFFICES ASSUME MergeInv, WrittenInv, [Next]_vars PROVE WrittenInv'
    OBVIOUS
  <2>1. ASSUME NEW line \in Lines, IsNext(line), ReadLine(line) PROVE WrittenInv'
    BY <2>1, WrittenRead
  <2>2. CASE MergeTop
    BY <2>2, WrittenMerge
  <2>3. CASE UNCHANGED <<trace, out, queues>> /\ (pc = "failed" => pc' = "failed")
    <3>1. Queued' = Queued
      BY <2>3 DEF Queued, Entries
    <3> QED BY <2>3, <3>1 DEF WrittenInv
  <2>4. MergeStops \/ EndOfFile \/ UNCHANGED vars =>
          UNCHANGED <<trace, out, queues>> /\ (pc = "failed" => pc' = "failed")
    BY DEF MergeStops, EndOfFile, vars
  <2> QED BY <2>1, <2>2, <2>3, <2>4 DEF Next, ReadNextLine
<1> QED BY <1>1, <1>2, MergeInvHolds, PTL DEF Spec

(***************************************************************************)
(* The test                                                                *)
(***************************************************************************)
LEMMA SortedFile ==
  ASSUME NEW file \in Seq(Lines), NEW sorted, sorted = my_sort(file)
  PROVE  /\ IsFile(sorted) /\ OrderedFrom(sorted, 1)
         /\ \A x : Copies(sorted, 1, Len(sorted) + 1, x) =
                     IF x.what = "thread_sync" THEN 0 ELSE Copies(file, 1, Len(file) + 1, x)
<1>1. HasSorted(sorted, file, Len(file))
  BY SortedIs
<1>2. sorted \in Seq(Lines) /\ Sorted(sorted)
  BY <1>1 DEF HasSorted
<1>3. IsFile(sorted)
  BY <1>2, LineTypes, IsFileOf
<1>4. Len(sorted) \in Nat /\ \A k \in 1 .. Len(sorted) : sorted[k] \in Lines
  BY <1>2, FileLines
<1>5. OrderedFrom(sorted, 1)
  <2> SUFFICES ASSUME NEW k \in 1 .. Len(sorted)
               PROVE  /\ sorted[k].time > TimeBefore(sorted, 1)
                      /\ \A l \in k .. Len(sorted) : sorted[k].time <= sorted[l].time
    BY DEF OrderedFrom
  <2>1. sorted[k].time > TimeBefore(sorted, 1)
    BY <1>4, LineTypes DEF TimeBefore
  <2>2. ASSUME NEW l \in k .. Len(sorted) PROVE sorted[k].time <= sorted[l].time
    <3>1. l \in 1 .. Len(sorted) /\ sorted[k] \in Lines /\ sorted[l] \in Lines
      BY <1>4
    <3>2. CASE l = k
      BY <3>1, <3>2, LineTypes
    <3>3. CASE k < l
      <4>1. ~SortsBefore(sorted[l], sorted[k])
        BY <1>2, <3>1, <3>3 DEF Sorted
      <4> QED BY <3>1, <4>1, SortOrder
    <3> QED BY <3>2, <3>3
  <2> QED BY <2>1, <2>2
<1> QED BY <1>1, <1>3, <1>5 DEF HasSorted

LEMMA DamagedFiles ==
  ASSUME NEW file \in Seq(Lines), NEW other \in Damaged(file)
  PROVE  other \in Seq(Lines)
<1>1. Len(file) \in Nat /\ DOMAIN file = 1 .. Len(file) /\ \A i \in 1 .. Len(file) : file[i] \in Lines
  BY FileLines
<1>2. ASSUME NEW i \in DOMAIN file PROVE RemoveAt(file, i) \in Seq(Lines)
  <2>1. SubSeq(file, 1, i - 1) \in Seq(Lines) /\ SubSeq(file, i + 1, Len(file)) \in Seq(Lines)
    BY <1>1
  <2> QED BY <2>1 DEF RemoveAt
<1>3. ASSUME NEW i \in DOMAIN file PROVE InsertAt(file, i, file[i]) \in Seq(Lines)
  <2>1. file[i] \in Lines /\ i \in 1 .. Len(file) + 1
    BY <1>1
  <2> QED BY <2>1, InsertLines
<1>4. ASSUME NEW i \in 1 .. Len(file) - 1
      PROVE  [file EXCEPT ![i] = file[i + 1], ![i + 1] = file[i]] \in Seq(Lines)
  <2>1. file[i] \in Lines /\ file[i + 1] \in Lines
    BY <1>1
  <2> QED BY <1>1, <2>1
<1>5. ASSUME NEW i \in DOMAIN file, NEW j \in DOMAIN file
      PROVE  [file EXCEPT ![i].time = file[j].time] \in Seq(Lines)
  <2>1. [file[i] EXCEPT !.time = file[j].time] \in Lines
    <3>1. file[i] \in Lines /\ file[j] \in Lines /\ file[j].time \in 1 .. MaxTime
      BY <1>1, LineTypes
    <3> QED BY <3>1 DEF Lines
  <2>2. [file EXCEPT ![i].time = file[j].time] =
          [file EXCEPT ![i] = [file[i] EXCEPT !.time = file[j].time]]
    OBVIOUS
  <2> QED BY <1>1, <2>1, <2>2
<1>6. CASE other \in {RemoveAt(file, i) : i \in DOMAIN file}
  BY <1>2, <1>6
<1>7. CASE other \in {InsertAt(file, i, file[i]) : i \in DOMAIN file}
  BY <1>3, <1>7
<1>8. CASE other \in {[file EXCEPT ![i] = file[i + 1], ![i + 1] = file[i]] :
                         i \in 1 .. Len(file) - 1}
  BY <1>4, <1>8
<1>9. CASE other \in {[file EXCEPT ![i].time = file[j].time] : i, j \in DOMAIN file}
  <2>1. \E i \in DOMAIN file, j \in DOMAIN file : other = [file EXCEPT ![i].time = file[j].time]
    BY <1>9
  <2> QED BY <1>5, <2>1
<1> QED BY <1>6, <1>7, <1>8, <1>9 DEF Damaged

\* The test of the merge utility (test1 of Test.py) passes on every file that
\* the pintool has finished: the utility ends without a failed assert or a
\* line left over, and what it wrote compares equal to what sort -n makes of
\* the file, whatever the comparison's bunches come to.  An id that is
\* registered again once its thread has finished is excluded.
THEOREM TestAlwaysPasses == ~Reuse => (Spec => []TestPasses)
<1> SUFFICES ASSUME ~Reuse PROVE Spec => []TestPasses
  OBVIOUS
<1>1. MergeInv /\ WrittenInv /\ pc # "failed" => TestPasses
  <2> SUFFICES ASSUME MergeInv, WrittenInv, pc # "failed", pc \in {"done", "left", "failed"},
                      Contract!ActiveIn(trace) = {}
               PROVE  test1
    BY DEF TestPasses
  <2>1. /\ pc = "done" /\ Queued = {} /\ trace \in Seq(Lines) /\ out \in Seq(Lines)
    BY DEF MergeInv, ActiveInv, RestInv
  <2> PICK sorted : sorted = my_sort(trace)
    OBVIOUS
  <2>2. /\ IsFile(sorted) /\ OrderedFrom(sorted, 1)
        /\ \A x : Copies(sorted, 1, Len(sorted) + 1, x) =
                    IF x.what = "thread_sync" THEN 0 ELSE Copies(trace, 1, Len(trace) + 1, x)
    BY <2>1, SortedFile
  <2>3. IsFile(out)
    BY <2>1, LineTypes, IsFileOf
  <2>4. Len(out) \in Nat /\ \A i \in 1 .. Len(out) : out[i].time \in Nat /\ out[i].time > 0
    BY <2>1, FileLines, LineTypes
  <2>5. OrderedFrom(out, 1)
    <3> SUFFICES ASSUME NEW k \in 1 .. Len(out)
                 PROVE  /\ out[k].time > TimeBefore(out, 1)
                        /\ \A l \in k .. Len(out) : out[k].time <= out[l].time
      BY DEF OrderedFrom
    <3>1. out[k].time > TimeBefore(out, 1)
      BY <2>4 DEF TimeBefore
    <3>2. ASSUME NEW l \in k .. Len(out) PROVE out[k].time <= out[l].time
      <4>1. l \in 1 .. Len(out) /\ (k = l \/ k < l)
        BY <2>4
      <4> QED BY <2>4, <4>1 DEF WrittenInv
    <3> QED BY <3>1, <3>2
  <2>6. SameCopies(sorted, 1, Len(sorted) + 1, out, 1, Len(out) + 1)
    <3> SUFFICES ASSUME NEW x
                 PROVE  Copies(sorted, 1, Len(sorted) + 1, x) = Copies(out, 1, Len(out) + 1, x)
      BY DEF SameCopies
    <3>1. Copies(out, 1, Len(out) + 1, x) + 0 =
            IF x.what = "thread_sync" THEN 0 ELSE Copies(trace, 1, Len(trace) + 1, x)
      BY <2>1 DEF WrittenInv
    <3>2. Copies(out, 1, Len(out) + 1, x) \in Nat
      BY <2>4, CopiesSome
    <3>3. Copies(out, 1, Len(out) + 1, x) + 0 = Copies(out, 1, Len(out) + 1, x)
      BY <3>2
    <3> QED BY <2>2, <3>1, <3>3
  <2>7. compare(sorted, out).equal
    BY <2>2, <2>3, <2>5, <2>6, CompareExact DEF SameFrom
  <2> QED BY <2>1, <2>7 DEF test1
<1>2. Spec => [](pc # "failed")
  BY NeverFails
<1> QED BY <1>1, <1>2, MergeInvHolds, WrittenInvHolds, PTL

\* The comparison (CompareMerge.py) says equal of the sorted file and a damaged
\* output exactly if the output is in order and has the same lines: it reads
\* one bunch of equal times from each file at a time, and never takes a wrong
\* output for a right one, nor the other way round.
THEOREM ComparisonIsExact == Spec => []CompareIsExact
<1>1. MergeInv => CompareIsExact
  <2> SUFFICES ASSUME MergeInv, NEW sorted, sorted = my_sort(trace), NEW file \in Damaged(out)
               PROVE  compare(sorted, file).equal <=> InOrder(file) /\ ToBag(file) = ToBag(sorted)
    BY DEF CompareIsExact
  <2>1. trace \in Seq(Lines) /\ out \in Seq(Lines)
    BY DEF MergeInv, ActiveInv
  <2>2. file \in Seq(Lines)
    BY <2>1, DamagedFiles
  <2>3. IsFile(file) /\ IsFile(sorted) /\ OrderedFrom(sorted, 1)
    BY <2>1, <2>2, LineTypes, IsFileOf, SortedFile
  <2>4. compare(sorted, file).equal <=> SameFrom(sorted, 1, file, 1)
    BY <2>3, CompareExact
  <2>5. InOrder(file) <=> OrderedFrom(file, 1)
    BY <2>3, InOrderMeans
  <2>6. ToBag(sorted) = ToBag(file) <=>
          SameCopies(sorted, 1, Len(sorted) + 1, file, 1, Len(file) + 1)
    BY <2>3, BagCopies
  <2> QED BY <2>3, <2>4, <2>5, <2>6 DEF SameFrom
<1> QED BY <1>1, MergeInvHolds, PTL

\* The times that the comparison reports of sorted files that differ enclose
\* the place: the files have the same lines before them, and differ up to the
\* time that follows in one of them.
THEOREM ComparisonTellsWhere == Spec => []CompareTellsWhere
<1>1. MergeInv => CompareTellsWhere
  <2> SUFFICES ASSUME MergeInv, NEW file \in Damaged(out),
                      ~compare(my_sort(trace), file).equal, InOrder(file)
               PROVE  IsTold(my_sort(trace), file, compare(my_sort(trace), file))
    BY Zenon DEF CompareTellsWhere, IsTold
  <2> PICK sorted : sorted = my_sort(trace)
    OBVIOUS
  <2>1. trace \in Seq(Lines) /\ out \in Seq(Lines)
    BY DEF MergeInv, ActiveInv
  <2>2. file \in Seq(Lines)
    BY <2>1, DamagedFiles
  <2>3. IsFile(file) /\ IsFile(sorted) /\ OrderedFrom(sorted, 1)
    BY <2>1, <2>2, LineTypes, IsFileOf, SortedFile
  <2>4. InOrder(sorted)
    BY <2>3, InOrderMeans
  <2> QED BY <2>3, <2>4, TellsWhere
<1> QED BY <1>1, MergeInvHolds, PTL
=============================================================================
