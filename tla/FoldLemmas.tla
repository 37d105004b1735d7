----------------------------- MODULE FoldLemmas -----------------------------
(***************************************************************************)
(* What FoldLeft of SequencesExt computes.  It is defined by a recursive   *)
(* function on the sets of indices; here it is the last value of a trace:  *)
(* the values after each of the sequence's elements.  A lemma about an     *)
(* operator that is folded cannot be stated once, for it would take that   *)
(* operator as a parameter: it gives its step as a function instead, and   *)
(* cites TraceExists and FoldEnds.                                         *)
(***************************************************************************)
EXTENDS Integers, Sequences, SequencesExt, FiniteSetTheorems, SequenceTheorems, WellFoundedInduction, TLAPS


(* A set of indices of a sequence has a least and a greatest member: among  *)
(* the intervals up to or from its members, one contains no other.          *)
LEMMA SmallestInterval ==
  ASSUME NEW n \in Nat, NEW T, \A t \in T : t \subseteq 1..n, T # {}
  PROVE  \E s \in T : \A t \in T : t \subseteq s => t = s
<1>1. IsWellFoundedOn(StrictSubsetOrdering(1..n), FiniteSubsetsOf(1..n))
  BY FS_StrictSubsetOrderingWellFounded
<1>2. FiniteSubsetsOf(1..n) = SUBSET (1..n)
  BY FS_FiniteSubsetsOfFinite, FS_Interval
<1>3. PICK s \in T : \A t \in T : <<t, s>> \notin StrictSubsetOrdering(1..n)
  <2>1. T \subseteq FiniteSubsetsOf(1..n)
    BY <1>2
  <2> QED
    BY <1>1, <2>1, WFMin
<1>4. \A t \in T : t \subseteq s => t = s
  BY <1>3 DEF StrictSubsetOrdering
<1> QED
  BY <1>4

LEMMA LeastMember ==
  ASSUME NEW n \in Nat, NEW I \in SUBSET (1..n), I # {}
  PROVE  \E m \in I : \A i \in I : m <= i
<1> DEFINE T == {1..i : i \in I}
<1>1. (\A t \in T : t \subseteq 1..n) /\ T # {}
  <2>1. \A i \in I : 1..i \subseteq 1..n
    OBVIOUS
  <2>2. \A t \in T : t \subseteq 1..n
    BY <2>1, Zenon
  <2>3. T # {}
    OBVIOUS
  <2> QED
    BY <2>2, <2>3
<1> HIDE DEF T
<1>2. PICK s \in T : \A t \in T : t \subseteq s => t = s
  BY <1>1, SmallestInterval
<1>3. PICK m \in I : s = 1..m
  BY <1>2 DEF T
<1>4. ASSUME NEW i \in I, i < m PROVE FALSE
  <2>1. 1..i \in T /\ 1..i \subseteq 1..m
    BY <1>4 DEF T
  <2>2. m \in 1..m /\ m \notin 1..i
    BY <1>4
  <2> QED
    BY <2>1, <2>2, <1>2, <1>3
<1> QED
  BY <1>4

LEMMA GreatestMember ==
  ASSUME NEW n \in Nat, NEW I \in SUBSET (1..n), I # {}
  PROVE  \E m \in I : \A i \in I : i <= m
<1> DEFINE T == {i..n : i \in I}
<1>1. (\A t \in T : t \subseteq 1..n) /\ T # {}
  <2>1. \A i \in I : i..n \subseteq 1..n
    OBVIOUS
  <2>2. \A t \in T : t \subseteq 1..n
    BY <2>1, Zenon
  <2>3. T # {}
    OBVIOUS
  <2> QED
    BY <2>2, <2>3
<1> HIDE DEF T
<1>2. PICK s \in T : \A t \in T : t \subseteq s => t = s
  BY <1>1, SmallestInterval
<1>3. PICK m \in I : s = m..n
  BY <1>2 DEF T
<1>4. ASSUME NEW i \in I, m < i PROVE FALSE
  <2>1. i..n \in T /\ i..n \subseteq m..n
    BY <1>4 DEF T
  <2>2. m \in m..n /\ m \notin i..n
    BY <1>4
  <2> QED
    BY <2>1, <2>2, <1>2, <1>3
<1> QED
  BY <1>4
-----------------------------------------------------------------------------
(* Induction up to n, for a set of numbers.                                 *)
LEMMA CountUp ==
  ASSUME NEW n \in Nat, NEW S, 0 \in S, \A m \in 0..n-1 : m \in S => m + 1 \in S
  PROVE  \A k \in 0..n : k \in S
<1> DEFINE bad == {k \in 1..n : k \notin S}
<1> SUFFICES ASSUME bad # {} PROVE FALSE
  OBVIOUS
<1>1. PICK k \in bad : \A j \in bad : k <= j
  BY LeastMember
<1>2. k - 1 \in 0..n-1 /\ k - 1 \in S
  BY <1>1
<1> QED
  BY <1>1, <1>2
-----------------------------------------------------------------------------
(* One step takes index i and the value so far to the next value.           *)
Steps(n, C) == [(1..n) \X C -> C]

(* The values after 0, 1, ... n of the steps.                               *)
IsTrace(h, n, C, base, step) ==
    /\ h \in [0..n -> C] /\ h[0] = base
    /\ \A i \in 1..n : h[i] = step[i, h[i-1]]

(* The recursive function of MapThenFoldSet, with the greatest index first. *)
Iterates(iter, n, base, step) ==
    \A s \in SUBSET (1..n) :
        iter[s] = IF s = {} THEN base ELSE step[Max(s), iter[s \ {Max(s)}]]

LEMMA MaxIsLast ==
  ASSUME NEW n \in Nat, NEW s \in SUBSET (1..n), s # {}
  PROVE  /\ Max(s) \in s /\ \A i \in s : i <= Max(s)
         /\ n \in s => Max(s) = n
<1>1. \E m \in s : \A i \in s : i <= m
  BY GreatestMember
<1>2. Max(s) \in s /\ \A i \in s : i <= Max(s)
  BY <1>1 DEF Max
<1>3. ASSUME n \in s PROVE Max(s) = n
  <2>1. Max(s) \in 1..n /\ n <= Max(s)
    BY <1>2, <1>3
  <2> QED
    BY <2>1
<1> QED
  BY <1>2, <1>3

LEMMA Interval ==
  ASSUME NEW n \in Nat, NEW i \in 1..n
  PROVE  /\ 1..i \in SUBSET (1..n) /\ 1..i # {} /\ Max(1..i) = i
         /\ (1..i) \ {i} = 1..i-1
<1>1. i \in Nat /\ i \in 1..i
  OBVIOUS
<1>2. 1..i \subseteq 1..n /\ (1..i) \ {i} = 1..i-1
  OBVIOUS
<1>3. Max(1..i) = i
  BY <1>1, MaxIsLast
<1> QED
  BY <1>1, <1>2, <1>3

(* The first i indices, as a name of its own: the provers do better with it *)
(* than with the interval.                                                  *)
First(i) == 1..i

LEMMA Firsts ==
  ASSUME NEW n \in Nat
  PROVE  /\ First(0) = {}
         /\ \A i \in 0..n : First(i) \in SUBSET (1..n)
         /\ \A i \in 1..n : /\ First(i) # {} /\ Max(First(i)) = i
                            /\ First(i) \ {i} = First(i - 1)
<1>1. First(0) = {} /\ \A i \in 0..n : First(i) \in SUBSET (1..n)
  BY DEF First
<1>2. \A i \in 1..n : First(i) # {} /\ Max(First(i)) = i /\ First(i) \ {i} = First(i - 1)
  BY Interval DEF First
<1> QED
  BY <1>1, <1>2

LEMMA IterExists ==
  ASSUME NEW n \in Nat, NEW C, NEW base \in C, NEW step \in Steps(n, C)
  PROVE  \E iter \in [SUBSET (1..n) -> C] : Iterates(iter, n, base, step)
<1> DEFINE Good(m) == \E iter \in [SUBSET (1..m) -> C] : Iterates(iter, m, base, step)
           S == {m \in 0..n : Good(m)}
<1>1. 0 \in S
  <2> DEFINE iter == [s \in SUBSET (1..0) |-> base]
  <2>1. SUBSET (1..0) = {{}}
    OBVIOUS
  <2>2. Iterates(iter, 0, base, step)
    BY <2>1 DEF Iterates
  <2> QED
    BY <2>2
<1>2. ASSUME NEW m \in 0..n-1, m \in S PROVE m + 1 \in S
  <2> PICK old \in [SUBSET (1..m) -> C] : Iterates(old, m, base, step)
    BY <1>2
  <2> DEFINE iter == [s \in SUBSET (1..m+1) |->
                        IF m + 1 \in s THEN step[m + 1, old[s \ {m + 1}]] ELSE old[s]]
  <2>1. \A s \in SUBSET (1..m+1) : s \ {m + 1} \in SUBSET (1..m) /\ (m + 1 \notin s => s \in SUBSET (1..m))
    OBVIOUS
  <2>2. m + 1 \in 1..n
    OBVIOUS
  <2>3. iter \in [SUBSET (1..m+1) -> C]
    BY <2>1, <2>2 DEF Steps
  <2>4. ASSUME NEW s \in SUBSET (1..m+1)
        PROVE  iter[s] = IF s = {} THEN base ELSE step[Max(s), iter[s \ {Max(s)}]]
    <3>1. CASE m + 1 \in s
      <4>1. Max(s) = m + 1
        BY <3>1, MaxIsLast
      <4>2. s \ {m + 1} \in SUBSET (1..m+1) /\ iter[s \ {m + 1}] = old[s \ {m + 1}]
        BY <2>1
      <4> QED
        BY <3>1, <4>1, <4>2
    <3>2. CASE m + 1 \notin s
      <4>1. s \in SUBSET (1..m) /\ iter[s] = old[s]
        BY <2>1, <3>2
      <4>2. old[s] = IF s = {} THEN base ELSE step[Max(s), old[s \ {Max(s)}]]
        BY <4>1 DEF Iterates
      <4>3. s # {} => iter[s \ {Max(s)}] = old[s \ {Max(s)}]
        BY <3>2, <4>1
      <4> QED
        BY <4>1, <4>2, <4>3
    <3> QED
      BY <3>1, <3>2
  <2>5. Iterates(iter, m + 1, base, step)
    <3> HIDE DEF iter
    <3> QED
      BY <2>4 DEF Iterates
  <2> HIDE DEF iter
  <2> QED
    BY <2>3, <2>5
<1> HIDE DEF S
<1>3. n \in S
  BY <1>1, <1>2, CountUp
<1> QED
  BY <1>3 DEF S

Stepwise(iter, n, base, step) ==
    /\ iter[First(0)] = base
    /\ \A i \in 1..n : iter[First(i)] = step[i, iter[First(i - 1)]]

LEMMA IterateSteps ==
  ASSUME NEW n \in Nat, NEW base, NEW step, NEW iter, Iterates(iter, n, base, step)
  PROVE  Stepwise(iter, n, base, step)
<1>1. iter[First(0)] = base
  BY Firsts DEF Iterates
<1>2. ASSUME NEW i \in 1..n PROVE iter[First(i)] = step[i, iter[First(i - 1)]]
  <2>1. /\ First(i) \in SUBSET (1..n) /\ First(i) # {}
        /\ Max(First(i)) = i /\ First(i) \ {i} = First(i - 1)
    BY Firsts
  <2> QED
    BY <2>1 DEF Iterates
<1> QED
  BY <1>1, <1>2 DEF Stepwise

LEMMA TraceExists ==
  ASSUME NEW n \in Nat, NEW C, NEW base \in C, NEW step \in Steps(n, C)
  PROVE  \E h : IsTrace(h, n, C, base, step)
<1> PICK iter \in [SUBSET (1..n) -> C] : Iterates(iter, n, base, step)
  BY IterExists
<1> DEFINE h == [i \in 0..n |-> iter[First(i)]]
<1>1. h \in [0..n -> C]
  BY Firsts
<1>2. Stepwise(iter, n, base, step)
  BY IterateSteps, Zenon
<1>3. \A i \in 1..n : i \in 0..n /\ i - 1 \in 0..n
  OBVIOUS
<1>4. \A i \in 1..n : h[i] = step[i, h[i-1]]
  BY <1>2, <1>3 DEF Stepwise
<1>5. h[0] = base
  <2>1. 0 \in 0..n /\ h[0] = iter[First(0)]
    OBVIOUS
  <2>2. iter[First(0)] = base
    BY <1>2, Zenon DEF Stepwise
  <2> HIDE DEF h
  <2> QED
    BY <2>1, <2>2
<1> HIDE DEF h
<1>6. IsTrace(h, n, C, base, step)
  BY <1>1, <1>4, <1>5 DEF IsTrace
<1> QED
  BY <1>6

(* The fold ends where the trace ends if the two take the same steps.        *)
LEMMA FoldEnds ==
  ASSUME NEW n \in Nat, NEW iter, NEW h, iter[First(0)] = h[0],
         \A i \in 1..n : iter[First(i - 1)] = h[i-1] => iter[First(i)] = h[i]
  PROVE  iter[1..n] = h[n]
<1> DEFINE S == {i \in 0..n : iter[First(i)] = h[i]}
<1>1. 0 \in S
  <2>1. 0 \in 0..n
    OBVIOUS
  <2> QED
    BY <2>1, Zenon
<1>2. ASSUME NEW m \in 0..n-1, m \in S PROVE m + 1 \in S
  <2>1. m + 1 \in 1..n /\ m + 1 \in 0..n /\ (m + 1) - 1 = m
    OBVIOUS
  <2> QED
    BY <1>2, <2>1
<1> HIDE DEF S
<1>3. n \in S
  BY <1>1, <1>2, CountUp
<1> QED
  BY <1>3 DEF S, First
-----------------------------------------------------------------------------
(* Sums.                                                                    *)
SumOf(f) == FoldLeft(LAMBDA sum, n : sum + n, 0, f)

(* What a sum of numbers is, step by step.                                  *)
Summing(h, n, f) == h \in [0..n -> Nat] /\ h[0] = 0 /\ \A i \in 1..n : h[i] = h[i-1] + f[i]

LEMMA SumExists ==
  ASSUME NEW n \in Nat, NEW f \in [1..n -> Nat]
  PROVE  /\ \E h : Summing(h, n, f)
         /\ \E iter : iter = [s \in SUBSET DOMAIN f |->
                                IF s = {} THEN 0 ELSE iter[s \ {Max(s)}] + f[Max(s)]]
<1> DEFINE step == [x \in (1..n) \X Nat |-> x[2] + f[x[1]]]
<1>1. step \in Steps(n, Nat)
  BY DEF Steps
<1>2. \A i \in 1..n, c \in Nat : step[i, c] = c + f[i]
  OBVIOUS
<1> HIDE DEF step
<1>3. PICK h : IsTrace(h, n, Nat, 0, step)
  BY <1>1, TraceExists
<1>4. h \in [0..n -> Nat] /\ h[0] = 0 /\ \A i \in 1..n : h[i] = step[i, h[i-1]]
  BY <1>3, Zenon DEF IsTrace
<1>5. ASSUME NEW i \in 1..n PROVE h[i] = h[i-1] + f[i]
  <2>1. i - 1 \in 0..n
    OBVIOUS
  <2>2. h[i-1] \in Nat
    BY <1>4, <2>1
  <2> QED
    BY <1>2, <1>4, <2>2
<1>6. Summing(h, n, f)
  BY <1>4, <1>5 DEF Summing
<1>7. PICK iter \in [SUBSET (1..n) -> Nat] : Iterates(iter, n, 0, step)
  BY <1>1, IterExists
<1>8. ASSUME NEW s \in SUBSET (1..n)
      PROVE  iter[s] = IF s = {} THEN 0 ELSE iter[s \ {Max(s)}] + f[Max(s)]
  <2>1. CASE s = {}
    BY <1>7, <2>1 DEF Iterates
  <2>2. CASE s # {}
    <3>1. iter[s] = step[Max(s), iter[s \ {Max(s)}]]
      BY <1>7, <2>2 DEF Iterates
    <3>2. Max(s) \in 1..n /\ iter[s \ {Max(s)}] \in Nat
      BY <2>2, MaxIsLast
    <3> QED
      BY <1>2, <2>2, <3>1, <3>2
  <2> QED
    BY <2>1, <2>2
<1>9. iter = [s \in SUBSET DOMAIN f |-> IF s = {} THEN 0 ELSE iter[s \ {Max(s)}] + f[Max(s)]]
  <2>1. iter = [s \in SUBSET (1..n) |-> iter[s]]
    OBVIOUS
  <2>2. DOMAIN f = 1..n
    OBVIOUS
  <2> QED
    BY <1>8, <2>1, <2>2
<1> QED
  BY <1>6, <1>9

LEMMA SumIs ==
  ASSUME NEW n \in Nat, NEW f \in [1..n -> Nat], NEW h, Summing(h, n, f)
  PROVE  SumOf(f) = h[n] /\ SumOf(f) \in Nat
<1> DEFINE E(iter) == iter = [s \in SUBSET DOMAIN f |->
                                IF s = {} THEN 0 ELSE iter[s \ {Max(s)}] + f[Max(s)]]
           iter == CHOOSE iter : E(iter)
<1>1. DOMAIN f = 1..n
  OBVIOUS
<1>2. SumOf(f) = iter[DOMAIN f]
  BY Zenon DEF SumOf, FoldLeft, MapThenFoldSet
<1>3. E(iter)
  <2>1. \E it : E(it)
    BY SumExists
  <2> QED
    BY <2>1, Zenon
<1>4. \A s \in SUBSET (1..n) : iter[s] = IF s = {} THEN 0 ELSE iter[s \ {Max(s)}] + f[Max(s)]
  <2> HIDE DEF iter
  <2> QED
    BY <1>1, <1>3
<1> HIDE DEF iter, E
<1>5. iter[First(0)] = h[0]
  <2>1. First(0) = {} /\ {} \in SUBSET (1..n)
    BY Firsts
  <2>2. h[0] = 0
    BY Zenon DEF Summing
  <2> QED
    BY <1>4, <2>1, <2>2
<1>6. ASSUME NEW i \in 1..n, iter[First(i - 1)] = h[i-1] PROVE iter[First(i)] = h[i]
  <2>1. /\ First(i) \in SUBSET (1..n) /\ First(i) # {}
        /\ Max(First(i)) = i /\ First(i) \ {i} = First(i - 1)
    BY Firsts
  <2>2. iter[First(i)] = iter[First(i - 1)] + f[i]
    BY <1>4, <2>1
  <2>3. h[i] = h[i-1] + f[i]
    BY DEF Summing
  <2> QED
    BY <1>6, <2>2, <2>3
<1>7. iter[1..n] = h[n]
  BY <1>5, <1>6, FoldEnds
<1>8. h[n] \in Nat
  BY DEF Summing
<1> QED
  BY <1>1, <1>2, <1>7, <1>8

LEMMA SumNone ==
  ASSUME NEW f \in [1..0 -> Nat]
  PROVE  SumOf(f) = 0
<1>1. PICK h : Summing(h, 0, f)
  BY SumExists
<1>2. SumOf(f) = h[0]
  BY <1>1, SumIs
<1> QED
  BY <1>1, <1>2, Zenon DEF Summing

LEMMA SumNat ==
  ASSUME NEW n \in Nat, NEW f \in [1..n -> Nat]
  PROVE  SumOf(f) \in Nat
BY SumExists, SumIs

(* One more number at the end, or in front.                                 *)
LEMMA SumLast ==
  ASSUME NEW n \in Nat, NEW f \in [1..n+1 -> Nat], NEW g \in [1..n -> Nat],
         \A i \in 1..n : g[i] = f[i]
  PROVE  SumOf(f) = SumOf(g) + f[n+1]
<1>0. n + 1 \in Nat
  OBVIOUS
<1>1. PICK h : Summing(h, n + 1, f)
  BY <1>0, SumExists
<1>2. h \in [0..n+1 -> Nat] /\ h[0] = 0 /\ \A i \in 1..n+1 : h[i] = h[i-1] + f[i]
  BY <1>1 DEF Summing
<1> DEFINE k == [i \in 0..n |-> h[i]]
<1>3. Summing(k, n, g)
  <2>1. k \in [0..n -> Nat]
    BY <1>2
  <2>2. k[0] = 0
    <3>1. 0 \in 0..n
      OBVIOUS
    <3> QED
      BY <1>2, <3>1, Zenon
  <2>3. ASSUME NEW i \in 1..n PROVE k[i] = k[i-1] + g[i]
    <3>1. i \in 1..n+1 /\ i \in 0..n /\ i - 1 \in 0..n
      OBVIOUS
    <3> QED
      BY <1>2, <3>1
  <2> HIDE DEF k
  <2> QED
    BY <2>1, <2>2, <2>3 DEF Summing
<1>4. SumOf(g) = h[n]
  <2>1. SumOf(g) = k[n]
    BY <1>3, SumIs
  <2>2. n \in 0..n
    OBVIOUS
  <2> QED
    BY <2>1, <2>2, Zenon
<1>5. SumOf(f) = h[n+1]
  BY <1>0, <1>1, SumIs
<1>6. n + 1 \in 1..n+1 /\ (n + 1) - 1 = n
  OBVIOUS
<1>7. h[n+1] = h[n] + f[n+1]
  BY <1>2, <1>6
<1> QED
  BY <1>4, <1>5, <1>7

LEMMA SumFirst ==
  ASSUME NEW n \in Nat, NEW f \in [1..n+1 -> Nat], NEW g \in [1..n -> Nat],
         \A i \in 1..n : g[i] = f[i+1]
  PROVE  SumOf(f) = f[1] + SumOf(g)
<1>0. n + 1 \in Nat
  OBVIOUS
<1>1. PICK h : Summing(h, n + 1, f)
  BY <1>0, SumExists
<1>2. h \in [0..n+1 -> Nat] /\ h[0] = 0 /\ \A i \in 1..n+1 : h[i] = h[i-1] + f[i]
  BY <1>1 DEF Summing
<1>3. PICK k : Summing(k, n, g)
  BY SumExists
<1>4. k \in [0..n -> Nat] /\ k[0] = 0 /\ \A i \in 1..n : k[i] = k[i-1] + g[i]
  BY <1>3 DEF Summing
<1> DEFINE S == {m \in 0..n : h[m+1] = f[1] + k[m]}
<1>5. 0 \in S
  <2>1. 1 \in 1..n+1 /\ 1 - 1 = 0 /\ 0 + 1 = 1 /\ f[1] \in Nat
    OBVIOUS
  <2>2. h[1] = h[0] + f[1]
    BY <1>2, <2>1
  <2> QED
    BY <1>2, <1>4, <2>1, <2>2
<1>6. ASSUME NEW m \in 0..n-1, m \in S PROVE m + 1 \in S
  <2>1. m + 2 \in 1..n+1 /\ m + 1 \in 1..n /\ (m + 2) - 1 = m + 1 /\ (m + 1) - 1 = m
        /\ m \in 0..n /\ (m + 1) + 1 = m + 2 /\ m + 1 \in 0..n
    OBVIOUS
  <2>2. h[m+2] = h[m+1] + f[m+2]
    BY <1>2, <2>1
  <2>3. k[m+1] = k[m] + g[m+1] /\ g[m+1] = f[m+2]
    BY <1>4, <2>1
  <2>4. h[m+1] = f[1] + k[m]
    BY <1>6
  <2>5. f[1] \in Nat /\ k[m] \in Nat /\ f[m+2] \in Nat
    BY <1>4, <2>1
  <2>6. h[m+2] = f[1] + k[m+1]
    BY <2>2, <2>3, <2>4, <2>5
  <2> QED
    BY <2>1, <2>6
<1>7. n \in S
  <2> HIDE DEF S
  <2>1. \A m \in 0..n : m \in S
    BY <1>5, <1>6, CountUp
  <2> QED
    BY <2>1
<1>8. SumOf(f) = h[n+1] /\ SumOf(g) = k[n]
  BY <1>0, <1>1, <1>3, SumIs
<1> QED
  BY <1>7, <1>8
=============================================================================
