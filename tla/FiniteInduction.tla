-------------------------- MODULE FiniteInduction --------------------------
(***************************************************************************)
(* Induction over sets of numbers, and what it says of finite sets: the    *)
(* sum of a function over one (MapThenSumSet), its largest value, and the  *)
(* list of the elements in the order of a key.                             *)
(***************************************************************************)
EXTENDS Integers, FiniteSets, FiniteSetTheorems, WellFoundedInduction, TLAPS

(* A set of numbers with 0 and every successor holds all of them.          *)
LEMMA AllNaturals ==
  ASSUME NEW S, 0 \in S, \A n \in Nat : n \in S => n + 1 \in S
  PROVE  Nat \subseteq S
<1> DEFINE missing == Nat \ S
<1> SUFFICES ASSUME missing # {} PROVE FALSE
  OBVIOUS
<1> HIDE DEF missing
<1>1. PICK n \in missing : \A m \in missing : ~ (<<m, n>> \in OpToRel(<, Nat))
  <2>1. missing \subseteq Nat
    BY DEF missing
  <2> QED BY <2>1, NatLessThanWellFounded, WFMin
<1>2. n \in Nat /\ \A m \in missing : m \in Nat /\ ~ (m < n)
  BY <1>1 DEF OpToRel, missing
<1>3. n # 0 /\ n \notin S
  BY <1>1 DEF missing
<1>4. n - 1 \in Nat /\ n - 1 \notin missing /\ (n - 1) + 1 = n
  BY <1>2, <1>3
<1>5. n - 1 \in S
  BY <1>4 DEF missing
<1> QED BY <1>3, <1>4, <1>5

-----------------------------------------------------------------------------
(* The first element of a set, as MapThenSumSet picks it.                  *)
Pick(s) == CHOOSE x \in s : TRUE

(* sum is the function MapThenSumSet builds for the terms of S.            *)
IsSum(sum, term, S) ==
  sum = [s \in SUBSET S |-> IF s = {} THEN 0 ELSE term[Pick(s)] + sum[s \ {Pick(s)}]]

(* A part of a finite set without one element is finite and smaller.       *)
LEMMA Smaller ==
  ASSUME NEW S, IsFiniteSet(S), NEW s \in SUBSET S
  PROVE  /\ IsFiniteSet(s) /\ Cardinality(s) \in Nat /\ Cardinality(s) <= Cardinality(S)
         /\ Cardinality(s) = 0 <=> s = {}
         /\ \A x \in s : s \ {x} \in SUBSET S /\ Cardinality(s \ {x}) = Cardinality(s) - 1
         /\ s # {} => Pick(s) \in s
<1>1. IsFiniteSet(s) /\ Cardinality(s) \in Nat /\ Cardinality(s) <= Cardinality(S)
  BY FS_Subset, FS_CardinalityType
<1>2. Cardinality(s) = 0 <=> s = {}
  BY <1>1, FS_EmptySet
<1>3. \A x \in s : s \ {x} \in SUBSET S /\ Cardinality(s \ {x}) = Cardinality(s) - 1
  BY <1>1, FS_RemoveElement
<1>4. s # {} => Pick(s) \in s
  BY DEF Pick
<1> QED BY <1>1, <1>2, <1>3, <1>4

(* The function exists: built for the sets of up to n elements, one size   *)
(* after the other.                                                        *)
LEMMA SumExists ==
  ASSUME NEW S, IsFiniteSet(S), NEW term
  PROVE  \E sum : IsSum(sum, term, S)
<1> DEFINE Value(f, s) == IF s = {} THEN 0 ELSE term[Pick(s)] + f[s \ {Pick(s)}]
           upTo(f, n) == \A s \in SUBSET S : Cardinality(s) <= n => f[s] = Value(f, s)
           reached == {n \in Nat : \E f : upTo(f, n)}
<1>1. 0 \in reached
  <2>1. upTo([s \in SUBSET S |-> 0], 0)
    BY Smaller
  <2> QED BY <2>1
<1>2. ASSUME NEW n \in Nat, n \in reached PROVE n + 1 \in reached
  <2>1. PICK f : upTo(f, n)
    BY <1>2
  <2> DEFINE g == [s \in SUBSET S |-> IF Cardinality(s) <= n THEN f[s] ELSE Value(f, s)]
  <2>2. ASSUME NEW s \in SUBSET S, Cardinality(s) <= n + 1 PROVE g[s] = Value(g, s)
    <3>1. CASE s = {}
      BY <2>1, <3>1
    <3>2. CASE s # {}
      <4>1. /\ s \ {Pick(s)} \in SUBSET S
            /\ Cardinality(s \ {Pick(s)}) <= n
        BY <2>2, <3>2, Smaller
      <4>2. g[s \ {Pick(s)}] = f[s \ {Pick(s)}]
        BY <4>1
      <4>3. g[s] = Value(f, s)
        BY <2>1
      <4> QED BY <3>2, <4>2, <4>3
    <3> QED BY <3>1, <3>2
  <2>3. upTo(g, n + 1)
    BY <2>2
  <2> HIDE DEF g, upTo
  <2>4. \E h : upTo(h, n + 1)
    BY <2>3
  <2> QED BY <2>4
<1>3. Nat \subseteq reached
  <2> HIDE DEF reached
  <2> QED BY <1>1, <1>2, AllNaturals
<1>4. PICK f : upTo(f, Cardinality(S))
  <2>1. Cardinality(S) \in Nat
    BY FS_CardinalityType
  <2> QED BY <1>3, <2>1
<1> DEFINE sum == [s \in SUBSET S |-> f[s]]
<1>5. ASSUME NEW s \in SUBSET S PROVE sum[s] = Value(sum, s)
  <2>1. f[s] = Value(f, s)
    BY <1>4, Smaller
  <2>2. s # {} => s \ {Pick(s)} \in SUBSET S
    BY Smaller
  <2> QED BY <2>1, <2>2
<1>6. sum = [s \in SUBSET S |-> Value(sum, s)]
  <2> HIDE DEF Value
  <2>1. sum = [s \in SUBSET S |-> sum[s]]
    OBVIOUS
  <2> QED BY <1>5, <2>1
<1>7. IsSum(sum, term, S)
  BY <1>6 DEF IsSum
<1> QED BY <1>7

(* The equations of the sum.                                               *)
LEMMA SumEquations ==
  ASSUME NEW S, IsFiniteSet(S), NEW term, NEW sum, IsSum(sum, term, S), NEW s \in SUBSET S
  PROVE  /\ s = {} => sum[s] = 0
         /\ s # {} => /\ Pick(s) \in s /\ s \ {Pick(s)} \in SUBSET S
                      /\ sum[s] = term[Pick(s)] + sum[s \ {Pick(s)}]
<1>1. sum[s] = IF s = {} THEN 0 ELSE term[Pick(s)] + sum[s \ {Pick(s)}]
  BY DEF IsSum
<1> QED BY <1>1, Smaller

(* The sum of natural numbers is one.                                      *)
LEMMA SumIsNatural ==
  ASSUME NEW S, IsFiniteSet(S), NEW term, \A x \in S : term[x] \in Nat, NEW sum, IsSum(sum, term, S)
  PROVE  \A s \in SUBSET S : sum[s] \in Nat
<1> DEFINE shown == {n \in Nat : \A s \in SUBSET S : Cardinality(s) = n => sum[s] \in Nat}
<1>1. 0 \in shown
  <2>1. ASSUME NEW s \in SUBSET S, Cardinality(s) = 0 PROVE sum[s] \in Nat
    <3>1. s = {}
      BY <2>1, Smaller
    <3>2. sum[s] = 0
      BY <3>1, SumEquations, Zenon
    <3> QED BY <3>2
  <2> QED BY <2>1
<1>2. ASSUME NEW n \in Nat, n \in shown PROVE n + 1 \in shown
  <2>1. ASSUME NEW s \in SUBSET S, Cardinality(s) = n + 1 PROVE sum[s] \in Nat
    <3>1. s # {} /\ Cardinality(s \ {Pick(s)}) = n
      BY <2>1, Smaller
    <3>2. Pick(s) \in s /\ s \ {Pick(s)} \in SUBSET S /\ sum[s] = term[Pick(s)] + sum[s \ {Pick(s)}]
      BY <3>1, SumEquations
    <3>3. term[Pick(s)] \in Nat /\ sum[s \ {Pick(s)}] \in Nat
      BY <1>2, <3>1, <3>2
    <3> QED BY <3>2, <3>3
  <2> QED BY <2>1
<1>3. Nat \subseteq shown
  <2> HIDE DEF shown
  <2> QED BY <1>1, <1>2, AllNaturals
<1> QED BY <1>3, Smaller

(* The sum of positive numbers is positive, if there are any.              *)
LEMMA SumIsPositive ==
  ASSUME NEW S, IsFiniteSet(S), NEW term, \A x \in S : term[x] \in Nat \ {0},
         NEW sum, IsSum(sum, term, S), S # {}
  PROVE  sum[S] > 0
<1>1. Pick(S) \in S /\ S \ {Pick(S)} \in SUBSET S /\ sum[S] = term[Pick(S)] + sum[S \ {Pick(S)}]
  BY SumEquations
<1>2. sum[S \ {Pick(S)}] \in Nat /\ term[Pick(S)] \in Nat \ {0}
  BY <1>1, SumIsNatural
<1> QED BY <1>1, <1>2

(* Any term can be taken out of the sum.                                   *)
LEMMA SumSplits ==
  ASSUME NEW S, IsFiniteSet(S), NEW term, \A x \in S : term[x] \in Nat, NEW sum, IsSum(sum, term, S)
  PROVE  \A s \in SUBSET S : \A x \in s : sum[s] = term[x] + sum[s \ {x}]
<1> DEFINE shown == {n \in Nat : \A s \in SUBSET S : Cardinality(s) = n =>
                                   \A x \in s : sum[s] = term[x] + sum[s \ {x}]}
<1>1. 0 \in shown
  BY Smaller
<1>2. ASSUME NEW n \in Nat, n \in shown PROVE n + 1 \in shown
  <2>1. ASSUME NEW s \in SUBSET S, Cardinality(s) = n + 1, NEW x \in s
        PROVE  sum[s] = term[x] + sum[s \ {x}]
    <3> DEFINE y == Pick(s)
    <3>1. y \in s /\ s \ {y} \in SUBSET S /\ sum[s] = term[y] + sum[s \ {y}]
      BY SumEquations
    <3> HIDE DEF y
    <3>2. CASE x # y
      <4>1. /\ s \ {x} \in SUBSET S /\ Cardinality(s \ {x}) = n
            /\ Cardinality(s \ {y}) = n
        BY <2>1, <3>1, Smaller
      <4>2. sum[s \ {y}] = term[x] + sum[(s \ {y}) \ {x}]
        BY <1>2, <3>1, <3>2, <4>1
      <4>3. sum[s \ {x}] = term[y] + sum[(s \ {x}) \ {y}]
        BY <1>2, <3>1, <3>2, <4>1
      <4>4. (s \ {y}) \ {x} = (s \ {x}) \ {y}
        OBVIOUS
      <4>5. (s \ {x}) \ {y} \in SUBSET S /\ term[x] \in Nat /\ term[y] \in Nat
        BY <3>1
      <4>6. sum[(s \ {x}) \ {y}] \in Nat
        BY <4>5, SumIsNatural
      <4>7. sum[s] = term[y] + (term[x] + sum[(s \ {x}) \ {y}])
        BY <3>1, <4>2, <4>4
      <4>8. \A p, q, r \in Nat : p + (q + r) = q + (p + r)
        OBVIOUS
      <4> QED BY <4>3, <4>5, <4>6, <4>7, <4>8
    <3>3. CASE x = y
      BY <3>1, <3>3
    <3> QED BY <3>2, <3>3
  <2> QED BY <2>1
<1>3. Nat \subseteq shown
  <2> HIDE DEF shown
  <2> QED BY <1>1, <1>2, AllNaturals
<1>4. ASSUME NEW s \in SUBSET S, NEW x \in s PROVE sum[s] = term[x] + sum[s \ {x}]
  <2>1. \A n \in Nat : Cardinality(s) = n => sum[s] = term[x] + sum[s \ {x}]
    BY <1>3
  <2>2. Cardinality(s) \in Nat
    BY Smaller
  <2> QED BY <2>1, <2>2
<1> QED BY <1>4

(* Terms that agree have the same sum.                                     *)
LEMMA SumAgrees ==
  ASSUME NEW S, IsFiniteSet(S), NEW term, NEW sum, IsSum(sum, term, S),
         NEW other, NEW total, IsSum(total, other, S),
         NEW T \in SUBSET S, \A x \in T : term[x] = other[x]
  PROVE  sum[T] = total[T]
<1> DEFINE shown == {n \in Nat : \A s \in SUBSET T : Cardinality(s) = n => sum[s] = total[s]}
<1>1. 0 \in shown
  BY Smaller, SumEquations
<1>2. ASSUME NEW n \in Nat, n \in shown PROVE n + 1 \in shown
  <2>1. ASSUME NEW s \in SUBSET T, Cardinality(s) = n + 1 PROVE sum[s] = total[s]
    <3>1. s # {} /\ Pick(s) \in s /\ Cardinality(s \ {Pick(s)}) = n
      BY <2>1, Smaller
    <3>2. sum[s \ {Pick(s)}] = total[s \ {Pick(s)}] /\ term[Pick(s)] = other[Pick(s)]
      BY <1>2, <3>1
    <3> QED BY <3>1, <3>2, SumEquations
  <2> QED BY <2>1
<1>3. Nat \subseteq shown
  <2> HIDE DEF shown
  <2> QED BY <1>1, <1>2, AllNaturals
<1>4. Cardinality(T) \in Nat
  BY Smaller
<1> QED BY <1>3, <1>4


-----------------------------------------------------------------------------
(* Among finitely many elements one has the largest key.                   *)
LEMMA Maximum ==
  ASSUME NEW S, IsFiniteSet(S), S # {}, NEW key, \A x \in S : key[x] \in Nat
  PROVE  \E m \in S : \A x \in S : key[x] <= key[m]
<1> DEFINE Top(s, m) == m \in s /\ \A x \in s : key[x] <= key[m]
           shown == {n \in Nat : \A s \in SUBSET S : Cardinality(s) = n => s = {} \/ \E m : Top(s, m)}
<1>1. 0 \in shown
  BY Smaller
<1>2. ASSUME NEW n \in Nat, n \in shown PROVE n + 1 \in shown
  <2>1. ASSUME NEW s \in SUBSET S, Cardinality(s) = n + 1 PROVE \E m : Top(s, m)
    <3>1. PICK y \in s : y = Pick(s)
      BY <2>1, Smaller
    <3>2. s \ {y} \in SUBSET S /\ Cardinality(s \ {y}) = n
      BY <2>1, Smaller
    <3>3. CASE s \ {y} = {}
      <4>1. s = {y} /\ key[y] \in Nat
        BY <3>3
      <4>2. Top(s, y)
        BY <4>1
      <4> QED BY <4>2
    <3>4. CASE s \ {y} # {}
      <4>1. PICK m : Top(s \ {y}, m)
        BY <1>2, <3>2, <3>4
      <4>2. m \in s /\ key[m] \in Nat /\ key[y] \in Nat
        BY <4>1
      <4>3. Top(s, m) \/ Top(s, y)
        <5>1. CASE key[y] <= key[m]
          BY <4>1, <4>2, <5>1
        <5>2. CASE ~ (key[y] <= key[m])
          <6>1. ASSUME NEW x \in s PROVE key[x] <= key[y]
            <7>1. x # y => key[x] <= key[m]
              BY <4>1
            <7>2. key[x] \in Nat
              OBVIOUS
            <7> QED BY <4>2, <5>2, <7>1, <7>2
          <6> QED BY <6>1
        <5> QED BY <5>1, <5>2
      <4> QED BY <4>3
    <3> QED BY <3>3, <3>4
  <2> QED BY <2>1
<1>3. Nat \subseteq shown
  <2> HIDE DEF shown
  <2> QED BY <1>1, <1>2, AllNaturals
<1>4. Cardinality(S) \in Nat
  BY Smaller
<1>5. \E m : Top(S, m)
  BY <1>3, <1>4
<1> QED BY <1>5

(* The elements can be listed by their keys, if these differ.              *)
LEMMA ListExists ==
  ASSUME NEW S, IsFiniteSet(S), NEW key, \A x \in S : key[x] \in Nat,
         \A x, y \in S : key[x] = key[y] => x = y
  PROVE  \E list \in [1 .. Cardinality(S) -> S] :
           \A i, j \in 1 .. Cardinality(S) : i < j => key[list[i]] < key[list[j]]
<1> DEFINE Lists(list, n, s) == /\ list \in [1 .. n -> s]
                                /\ \A i, j \in 1 .. n : i < j => key[list[i]] < key[list[j]]
           shown == {n \in Nat : \A s \in SUBSET S : Cardinality(s) = n => \E list : Lists(list, n, s)}
<1>1. 0 \in shown
  <2>1. ASSUME NEW s \in SUBSET S PROVE \E list : Lists(list, 0, s)
    <3>1. 1 .. 0 = {}
      OBVIOUS
    <3>2. Lists([i \in 1 .. 0 |-> i], 0, s)
      BY <3>1
    <3> QED BY <3>2
  <2> QED BY <2>1
<1>2. ASSUME NEW n \in Nat, n \in shown PROVE n + 1 \in shown
  <2>1. ASSUME NEW s \in SUBSET S, Cardinality(s) = n + 1 PROVE \E list : Lists(list, n + 1, s)
    <3>1. IsFiniteSet(s) /\ s # {}
      BY <2>1, Smaller
    <3>2. PICK m \in s : \A x \in s : key[x] <= key[m]
      BY <3>1, Maximum
    <3>3. s \ {m} \in SUBSET S /\ Cardinality(s \ {m}) = n
      BY <2>1, Smaller
    <3>4. PICK front : Lists(front, n, s \ {m})
      BY <1>2, <3>3
    <3> DEFINE list == [i \in 1 .. n + 1 |-> IF i = n + 1 THEN m ELSE front[i]]
    <3>5. \A i \in 1 .. n + 1 : i # n + 1 => i \in 1 .. n /\ front[i] \in s \ {m}
      BY <3>4
    <3>6. list \in [1 .. n + 1 -> s]
      BY <3>5
    <3>7. ASSUME NEW i \in 1 .. n + 1, NEW j \in 1 .. n + 1, i < j
          PROVE  key[list[i]] < key[list[j]]
      <4>1. i # n + 1 /\ list[i] = front[i]
        BY <3>7
      <4>2. CASE j # n + 1
        BY <3>4, <3>5, <3>7, <4>1, <4>2
      <4>3. CASE j = n + 1
        <5>1. front[i] \in s /\ front[i] # m
          BY <3>5, <4>1
        <5>2. key[front[i]] <= key[m] /\ key[front[i]] # key[m]
          BY <3>2, <5>1
        <5>3. key[front[i]] \in Nat /\ key[m] \in Nat
          BY <5>1
        <5> QED BY <4>1, <4>3, <5>2, <5>3
      <4> QED BY <4>2, <4>3
    <3>8. Lists(list, n + 1, s)
      BY <3>6, <3>7
    <3> QED BY <3>8
  <2> QED BY <2>1
<1>3. Nat \subseteq shown
  <2> HIDE DEF shown
  <2> QED BY <1>1, <1>2, AllNaturals
<1>4. Cardinality(S) \in Nat
  BY Smaller
<1>5. \E list : Lists(list, Cardinality(S), S)
  BY <1>3, <1>4
<1> QED BY <1>5

(* Such a list leaves no element out.                                      *)
LEMMA ListIsWhole ==
  ASSUME NEW S, IsFiniteSet(S), NEW key, \A x \in S : key[x] \in Nat,
         NEW list \in [1 .. Cardinality(S) -> S],
         \A i, j \in 1 .. Cardinality(S) : i < j => key[list[i]] < key[list[j]]
  PROVE  \A x \in S : \E i \in 1 .. Cardinality(S) : list[i] = x
<1> DEFINE n == Cardinality(S)
<1>1. n \in Nat /\ IsFiniteSet(1 .. n) /\ Cardinality(1 .. n) = n
  BY FS_CardinalityType, FS_Interval
<1>2. ASSUME NEW i \in 1 .. n, NEW j \in 1 .. n, list[i] = list[j] PROVE i = j
  <2>1. key[list[i]] \in Nat
    OBVIOUS
  <2>2. i < j \/ i = j \/ j < i
    OBVIOUS
  <2> QED BY <1>2, <2>1, <2>2
<1>3. list \in Injection(1 .. n, S)
  BY <1>2 DEF Injection, IsInjective
<1>4. list \in Surjection(1 .. n, S)
  BY <1>1, <1>3, FS_Injection
<1> QED BY <1>4 DEF Surjection
=============================================================================
