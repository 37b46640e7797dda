----------------------------- MODULE DataLemmas -----------------------------
(* Lemmas that the proofs of several components rest on: an induction rule, *)
(* and queues whose elements do not repeat (the work queue and the ticker of *)
(* the job registry, the inbound queue and the clients' streams).           *)
EXTENDS Integers, Sequences, Functions, FiniteSetTheorems, SequenceTheorems,
        WellFoundedInduction, TLAPS

\* The pairs of numbers of which the first is the smaller one.
LessPairs == {p \in Nat \X Nat : p[1] < p[2]}

\* Induction for a set of numbers.  The rules of the library take the property
\* as an operator; a set {n \in Nat : P(n)} can be given to this one.
LEMMA SetInduction ==
  ASSUME NEW S, 0 \in S, \A n \in Nat : n \in S => n + 1 \in S
  PROVE  \A n \in Nat : n \in S
<1> DEFINE T == {n \in Nat : n \notin S}
<1>1. SUFFICES ASSUME T # {} PROVE FALSE
  OBVIOUS
<1>2. IsWellFoundedOn(LessPairs, Nat)
  BY NatLessThanWellFounded DEF OpToRel, LessPairs
<1>3. T \subseteq Nat
  OBVIOUS
<1>4. \E n \in T : \A m \in T : <<m, n>> \notin LessPairs
  <2> HIDE DEF T
  <2> QED BY <1>1, <1>2, <1>3, WFMin
<1>5. PICK n \in T : \A m \in T : <<m, n>> \notin LessPairs
  BY <1>4
<1>6. n # 0 /\ n - 1 \in Nat /\ n - 1 \notin S
  BY <1>5
<1>7. <<n - 1, n>> \in LessPairs
  BY <1>6 DEF LessPairs
<1>8. QED
  BY <1>5, <1>6, <1>7

\* A set of numbers that is not empty has a least one.
LEMMA LeastOf ==
  ASSUME NEW S \in SUBSET Nat, S # {}
  PROVE  \E n \in S : \A m \in S : n <= m
<1>1. IsWellFoundedOn(LessPairs, Nat)
  BY NatLessThanWellFounded DEF OpToRel, LessPairs
<1>2. PICK n \in S : \A m \in S : <<m, n>> \notin LessPairs
  BY <1>1, WFMin
<1>3. ASSUME NEW m \in S PROVE n <= m
  <2>1. m < n => <<m, n>> \in LessPairs
    BY DEF LessPairs
  <2>2. ~(m < n)
    BY <1>2, <2>1
  <2> QED BY <2>2
<1>4. QED
  BY <1>3

Iterates(f, X, start, n, step) ==
  f \in [0 .. n -> X] /\ f[0] = start /\ \A k \in 1 .. n : f[k] = step[k][f[k - 1]]

\* A computation that goes on from start for n steps, each a function on X, has
\* a function of its results.  The lemma gives the recursive functions of the
\* models their values.
LEMMA Iterated ==
  ASSUME NEW X, NEW start \in X, NEW n \in Nat, NEW step \in [1 .. n -> [X -> X]]
  PROVE  \E f : Iterates(f, X, start, n, step)
<1> DEFINE Has(m, f) == f \in [0 .. m -> X] /\ f[0] = start /\ \A k \in 1 .. m : f[k] = step[k][f[k - 1]]
           S == {m \in Nat : m <= n => \E f : Has(m, f)}
<1>1. 0 \in S
  <2>1. Has(0, [k \in 0 .. 0 |-> start])
    OBVIOUS
  <2> QED BY <2>1
<1>2. ASSUME NEW m \in Nat, m \in S PROVE m + 1 \in S
  <2> SUFFICES ASSUME m + 1 <= n PROVE \E f : Has(m + 1, f)
    OBVIOUS
  <2>1. PICK f : Has(m, f)
    BY <1>2
  <2> DEFINE g == [k \in 0 .. m + 1 |-> IF k = m + 1 THEN step[m + 1][f[m]] ELSE f[k]]
  <2>2. f[m] \in X /\ m + 1 \in 1 .. n
    BY <2>1
  <2>3. step[m + 1][f[m]] \in X
    BY <2>2
  <2>4. g \in [0 .. m + 1 -> X]
    <3> SUFFICES ASSUME NEW k \in 0 .. m + 1 PROVE g[k] \in X
      OBVIOUS
    <3>1. CASE k = m + 1
      BY <2>3, <3>1
    <3>2. CASE k \in 0 .. m
      BY <2>1, <3>2
    <3> QED BY <3>1, <3>2
  <2>5. g[0] = start
    BY <2>1
  <2>6. ASSUME NEW k \in 1 .. m + 1 PROVE g[k] = step[k][g[k - 1]]
    <3>1. CASE k = m + 1
      <4>1. g[k - 1] = f[m]
        BY <3>1
      <4> QED BY <3>1, <4>1
    <3>2. CASE k \in 1 .. m
      <4>1. g[k] = f[k] /\ g[k - 1] = f[k - 1]
        BY <3>2
      <4> QED BY <2>1, <3>2, <4>1
    <3> QED BY <3>1, <3>2
  <2> HIDE DEF g
  <2>7. Has(m + 1, g)
    BY <2>4, <2>5, <2>6
  <2> QED BY <2>7
<1> HIDE DEF S
<1>3. n \in S
  BY <1>1, <1>2, SetInduction
<1>4. QED
  BY <1>3 DEF S, Iterates

\* A step looks only at values of lower rank.
LooksBelow(step, P, X, rank) ==
  /\ step \in [P -> [[P -> X] -> X]]
  /\ \A p \in P : \A f, g \in [P -> X] :
       (\A q \in P : rank[q] < rank[p] => f[q] = g[q]) => step[p][f] = step[p][g]

Solves(f, P, X, step) == f \in [P -> X] /\ \A p \in P : f[p] = step[p][f]

\* A recursion over a set of arguments whose ranks are bounded, and which goes
\* down in rank, has a solution: the recursive tables of the models have values.
LEMMA Ranked ==
  ASSUME NEW P, NEW X, NEW x0 \in X, NEW N \in Nat, NEW rank \in [P -> 0 .. N],
         NEW step, LooksBelow(step, P, X, rank)
  PROVE  \E f : Solves(f, P, X, step)
<1> DEFINE Partly(d, f) == f \in [P -> X] /\ \A p \in P : rank[p] < d => f[p] = step[p][f]
           S == {d \in Nat : \E f : Partly(d, f)}
<1>1. 0 \in S
  <2>1. Partly(0, [p \in P |-> x0])
    OBVIOUS
  <2> QED BY <2>1
<1>2. ASSUME NEW d \in Nat, d \in S PROVE d + 1 \in S
  <2>1. PICK f : Partly(d, f)
    BY <1>2
  <2> DEFINE g == [p \in P |-> IF rank[p] = d THEN step[p][f] ELSE f[p]]
  <2>2. g \in [P -> X]
    BY <2>1 DEF LooksBelow
  <2>3. ASSUME NEW p \in P, rank[p] < d + 1 PROVE step[p][g] = step[p][f]
    <3>1. \A q \in P : rank[q] < rank[p] => g[q] = f[q]
      BY <1>2, <2>3
    <3> HIDE DEF g
    <3> QED BY <2>1, <2>2, <3>1 DEF LooksBelow
  <2>4. ASSUME NEW p \in P, rank[p] < d + 1 PROVE g[p] = step[p][f]
    <3>1. CASE rank[p] = d
      BY <3>1
    <3>2. CASE rank[p] # d
      <4>1. rank[p] < d
        BY <2>4, <3>2
      <4> QED BY <2>1, <3>2, <4>1
    <3> QED BY <3>1, <3>2
  <2> HIDE DEF g
  <2>5. Partly(d + 1, g)
    BY <2>2, <2>3, <2>4
  <2> QED BY <2>5
<1> HIDE DEF S
<1>3. N + 1 \in S
  BY <1>1, <1>2, SetInduction
<1>4. PICK f : Partly(N + 1, f)
  BY <1>3 DEF S
<1>5. Solves(f, P, X, step)
  BY <1>4 DEF Solves
<1>6. QED
  BY <1>5

------------------------------------------------------------------------------
(* Queues without repetition.                                               *)

\* Appending a new element adds it to the range and repeats nothing.
LEMMA AppendFresh ==
  ASSUME NEW S, NEW s \in Seq(S), NEW e \in S, IsInjective(s), e \notin Range(s)
  PROVE  /\ IsInjective(Append(s, e))
         /\ Range(Append(s, e)) = Range(s) \cup {e}
<1>1. /\ Len(s) \in Nat /\ DOMAIN s = 1..Len(s)
      /\ DOMAIN Append(s, e) = 1..(Len(s) + 1)
      /\ \A i \in 1..(Len(s) + 1) : Append(s, e)[i] = IF i <= Len(s) THEN s[i] ELSE e
  OBVIOUS
<1>2. \A i \in 1..Len(s) : s[i] \in Range(s)
  BY <1>1 DEF Range
<1>3. IsInjective(Append(s, e))
  BY <1>1, <1>2 DEF IsInjective
<1>4. Range(Append(s, e)) = Range(s) \cup {e}
  <2>1. \A x : x \in Range(s) \cup {e} => x \in Range(Append(s, e))
    <3>1. Append(s, e)[Len(s) + 1] = e /\ Len(s) + 1 \in 1..(Len(s) + 1)
      BY <1>1
    <3>2. \A i \in 1..Len(s) : Append(s, e)[i] = s[i] /\ i \in 1..(Len(s) + 1)
      BY <1>1
    <3>3. QED
      BY <1>1, <3>1, <3>2 DEF Range
  <2>2. \A x : x \in Range(Append(s, e)) => x \in Range(s) \cup {e}
    BY <1>1 DEF Range
  <2>3. QED
    BY <2>1, <2>2
<1>5. QED
  BY <1>3, <1>4

\* Taking the head of a queue without repetition takes it out of the range.
LEMMA TailFresh ==
  ASSUME NEW S, NEW s \in Seq(S), s # <<>>, IsInjective(s)
  PROVE  /\ IsInjective(Tail(s))
         /\ Head(s) \in Range(s)
         /\ Range(Tail(s)) = Range(s) \ {Head(s)}
<1>1. /\ Len(s) \in Nat /\ Len(s) >= 1 /\ DOMAIN s = 1..Len(s)
      /\ Head(s) = s[1]
      /\ DOMAIN Tail(s) = 1..(Len(s) - 1)
      /\ \A i \in 1..(Len(s) - 1) : Tail(s)[i] = s[i + 1]
  OBVIOUS
<1>2. IsInjective(Tail(s))
  BY <1>1 DEF IsInjective
<1>3. Head(s) \in Range(s)
  BY <1>1 DEF Range
<1>4. Range(Tail(s)) = Range(s) \ {Head(s)}
  <2>1. \A x : x \in Range(Tail(s)) => x \in Range(s) \ {Head(s)}
    <3>1. \A i \in 1..(Len(s) - 1) : i + 1 \in 1..Len(s) /\ s[i + 1] # s[1]
      BY <1>1 DEF IsInjective
    <3>2. QED
      BY <1>1, <3>1 DEF Range
  <2>2. ASSUME NEW x \in Range(s) \ {Head(s)} PROVE x \in Range(Tail(s))
    <3>1. PICK i \in 1..Len(s) : x = s[i]
      BY <1>1 DEF Range
    <3>2. i - 1 \in 1..(Len(s) - 1) /\ Tail(s)[i - 1] = s[(i - 1) + 1] /\ (i - 1) + 1 = i
      BY <1>1, <3>1
    <3>3. QED
      BY <1>1, <3>1, <3>2 DEF Range
  <2>3. QED
    BY <2>1, <2>2
<1>5. QED
  BY <1>2, <1>3, <1>4

\* Two lists without a common element in one.
LEMMA JoinFresh ==
  ASSUME NEW S, NEW s \in Seq(S), NEW t \in Seq(S), IsInjective(s), IsInjective(t), Range(s) \cap Range(t) = {}
  PROVE  /\ s \o t \in Seq(S) /\ Len(s \o t) = Len(s) + Len(t)
         /\ IsInjective(s \o t)
         /\ Range(s \o t) = Range(s) \cup Range(t)
<1> DEFINE m == Len(s)
           n == Len(t)
           u == s \o t
<1>1. /\ u \in Seq(S) /\ Len(u) = m + n
      /\ \A i \in 1 .. m + n : u[i] = IF i <= m THEN s[i] ELSE t[i - m]
  BY ConcatProperties
<1>2. /\ m \in Nat /\ n \in Nat /\ DOMAIN s = 1 .. m /\ DOMAIN t = 1 .. n /\ DOMAIN u = 1 .. m + n
  BY <1>1
<1> HIDE DEF u, m, n
<1>0. /\ \A x : x \in Range(s) <=> \E i \in 1 .. m : x = s[i]
      /\ \A x : x \in Range(t) <=> \E i \in 1 .. n : x = t[i]
      /\ \A x : x \in Range(u) <=> \E i \in 1 .. m + n : x = u[i]
  BY ONLY <1>2 DEF Range
<1>3. /\ \A i \in 1 .. m : i \in 1 .. m + n /\ u[i] = s[i] /\ s[i] \in Range(s)
      /\ \A j \in 1 .. n : m + j \in 1 .. m + n /\ u[m + j] = t[j] /\ t[j] \in Range(t)
  <2>1. ASSUME NEW i \in 1 .. m PROVE i \in 1 .. m + n /\ u[i] = s[i] /\ s[i] \in Range(s)
    <3>1. i \in 1 .. m + n /\ i <= m
      BY ONLY <1>2
    <3> QED BY ONLY <1>0, <1>1, <3>1
  <2>2. ASSUME NEW j \in 1 .. n PROVE m + j \in 1 .. m + n /\ u[m + j] = t[j] /\ t[j] \in Range(t)
    <3>1. PICK k \in 1 .. m + n : k = m + j /\ ~(k <= m) /\ k - m = j
      <4> DEFINE k == m + j
      <4>1. k \in 1 .. m + n /\ k = m + j /\ ~(k <= m) /\ k - m = j
        BY ONLY <1>2
      <4> HIDE DEF k
      <4> QED BY ONLY <4>1
    <3>2. t[j] \in Range(t)
      BY ONLY <1>0
    <3>3. u[k] = t[j]
      BY ONLY <1>1, <3>1
    <3> QED BY ONLY <3>1, <3>2, <3>3
  <2> QED BY <2>1, <2>2
<1>4. \A i \in 1 .. m + n : i \in 1 .. m \/ \E j \in 1 .. n : i = m + j
  <2> SUFFICES ASSUME NEW i \in 1 .. m + n, i > m PROVE \E j \in 1 .. n : i = m + j
    BY <1>2
  <2>1. i - m \in 1 .. n /\ i = m + (i - m)
    BY <1>2
  <2> QED BY <2>1
<1>5. \A i, j \in 1 .. m : s[i] = s[j] => i = j
  BY <1>2 DEF IsInjective
<1>6. \A i, j \in 1 .. n : t[i] = t[j] => i = j
  BY <1>2 DEF IsInjective
<1>7. ASSUME NEW i \in 1 .. m + n, NEW j \in 1 .. m + n, u[i] = u[j] PROVE i = j
  <2>1. CASE i \in 1 .. m /\ j \in 1 .. m
    BY <1>3, <1>5, <1>7, <2>1
  <2>2. CASE i \in 1 .. m /\ \E k \in 1 .. n : j = m + k
    BY <1>3, <1>7, <2>2
  <2>3. CASE j \in 1 .. m /\ \E k \in 1 .. n : i = m + k
    BY <1>3, <1>7, <2>3
  <2>4. ASSUME NEW a \in 1 .. n, NEW b \in 1 .. n, i = m + a, j = m + b PROVE i = j
    <3>1. t[a] = t[b]
      BY <1>3, <1>7, <2>4
    <3> QED BY <1>6, <2>4, <3>1
  <2> QED BY <1>4, <2>1, <2>2, <2>3, <2>4
<1>8. IsInjective(u)
  BY <1>2, <1>7 DEF IsInjective
<1>9. Range(u) = Range(s) \cup Range(t)
  <2>1. \A i \in 1 .. m + n : u[i] \in Range(s) \cup Range(t)
    BY <1>3, <1>4
  <2>2. \A x \in Range(s) : x \in Range(u)
    BY ONLY <1>0, <1>3
  <2>3. \A x \in Range(t) : x \in Range(u)
    BY ONLY <1>0, <1>3
  <2>4. \A x \in Range(u) : x \in Range(s) \cup Range(t)
    BY ONLY <1>0, <2>1
  <2> QED BY ONLY <2>2, <2>3, <2>4
<1> QED BY <1>1, <1>8, <1>9 DEF u, m, n

------------------------------------------------------------------------------
(* Finite sets and sums over them.                                          *)

\* Induction for the subsets of a finite set: P holds of a set when it holds of
\* the set without any one of its elements.
LEMMA SubsetInduction ==
  ASSUME NEW S, IsFiniteSet(S), NEW P,
         \A s \in SUBSET S : (\A x \in s : s \ {x} \in P) => s \in P
  PROVE  \A s \in SUBSET S : s \in P
<1> DEFINE N == {n \in Nat : \A s \in SUBSET S : Cardinality(s) = n => s \in P}
<1>1. \A s \in SUBSET S : IsFiniteSet(s) /\ Cardinality(s) \in Nat
  BY FS_Subset, FS_CardinalityType
<1>2. 0 \in N
  <2> SUFFICES ASSUME NEW s \in SUBSET S, Cardinality(s) = 0 PROVE s \in P
    OBVIOUS
  <2>1. s = {}
    BY <1>1, FS_EmptySet
  <2> QED BY <2>1
<1>3. ASSUME NEW n \in Nat, n \in N PROVE n + 1 \in N
  <2> SUFFICES ASSUME NEW s \in SUBSET S, Cardinality(s) = n + 1 PROVE s \in P
    OBVIOUS
  <2>1. ASSUME NEW x \in s PROVE s \ {x} \in P
    <3>1. Cardinality(s \ {x}) = Cardinality(s) - 1
      BY <1>1, FS_RemoveElement
    <3>2. Cardinality(s \ {x}) = n /\ s \ {x} \in SUBSET S
      BY <3>1
    <3> QED BY <1>3, <3>2
  <2> QED BY <2>1
<1> HIDE DEF N
<1>4. \A n \in Nat : n \in N
  BY <1>2, <1>3, SetInduction
<1> USE DEF N
<1>5. QED
  BY <1>1, <1>4

\* The function that a sum over s is computed with.
IsSum(g, f, s) ==
  g = [t \in SUBSET s |->
         IF t = {} THEN 0
         ELSE f[CHOOSE x \in t : TRUE] + g[t \ {CHOOSE x \in t : TRUE}]]

\* A sum is taken element by element, in the order of CHOOSE.
LEMMA SumUnfolds ==
  ASSUME NEW S, IsFiniteSet(S), NEW f
  PROVE  SumFunctionOnSet(f, S) =
           IF S = {} THEN 0
           ELSE f[CHOOSE x \in S : TRUE] + SumFunctionOnSet(f, S \ {CHOOSE x \in S : TRUE})
<1> DEFINE Sum(s) == SumFunctionOnSet(f, s)
           First(s) == CHOOSE x \in s : TRUE
           Unfolds(t) == Sum(t) = IF t = {} THEN 0 ELSE f[First(t)] + Sum(t \ {First(t)})
           P == {s \in SUBSET S : \A t \in SUBSET s : Unfolds(t)}
<1>1. \A s : Sum(s) = (CHOOSE g : IsSum(g, f, s))[s]
  BY DEF SumFunctionOnSet, FoldFunctionOnSet, MapThenFoldSet, IsSum
<1>2. \A s : s # {} => First(s) \in s
  OBVIOUS
<1>3. \A g, s : IsSum(g, f, s) <=>
        g = [t \in SUBSET s |-> IF t = {} THEN 0 ELSE f[First(t)] + g[t \ {First(t)}]]
  BY DEF IsSum
<1> HIDE DEF Sum, First
<1>4. ASSUME NEW s \in SUBSET S, \A x \in s : s \ {x} \in P
      PROVE  s \in P
  <2>1. ASSUME NEW t \in SUBSET s, t # s PROVE Unfolds(t)
    <3>1. PICK x \in s : x \notin t
      BY <2>1
    <3>2. t \in SUBSET (s \ {x})
      BY <3>1
    <3> QED BY <1>4, <3>1, <3>2
  <2> DEFINE g == [t \in SUBSET s |->
                     IF t = s THEN IF s = {} THEN 0 ELSE f[First(s)] + Sum(s \ {First(s)}) ELSE Sum(t)]
  <2>2. ASSUME NEW t \in SUBSET s
        PROVE  g[t] = IF t = {} THEN 0 ELSE f[First(t)] + g[t \ {First(t)}]
    <3>1. CASE t = s
      BY <3>1, <1>2
    <3>2. CASE t # s
      BY <3>2, <2>1, <1>2
    <3> QED BY <3>1, <3>2
  <2>3. g = [t \in SUBSET s |-> g[t]]
    OBVIOUS
  <2> HIDE DEF g
  <2>4. g = [t \in SUBSET s |-> IF t = {} THEN 0 ELSE f[First(t)] + g[t \ {First(t)}]]
    BY <2>2, <2>3
  <2>5. IsSum(g, f, s)
    BY <2>4, <1>3
  <2> DEFINE h == CHOOSE k : IsSum(k, f, s)
  <2>6. IsSum(h, f, s)
    BY <2>5
  <2>7. Sum(s) = h[s]
    BY <1>1
  <2> HIDE DEF h
  <2>8. \A t \in SUBSET s : h[t] = IF t = {} THEN 0 ELSE f[First(t)] + h[t \ {First(t)}]
    <3>1. h = [t \in SUBSET s |-> IF t = {} THEN 0 ELSE f[First(t)] + h[t \ {First(t)}]]
      BY <2>6, <1>3
    <3> DEFINE Rest(t) == IF t = {} THEN 0 ELSE f[First(t)] + h[t \ {First(t)}]
    <3>2. h = [t \in SUBSET s |-> Rest(t)]
      BY <3>1
    <3> HIDE DEF Rest
    <3>3. \A t \in SUBSET s : h[t] = Rest(t)
      BY <3>2
    <3> QED BY <3>3 DEF Rest
  <2> DEFINE Q == {t \in SUBSET s : t # s => h[t] = Sum(t)}
  <2>9. IsFiniteSet(s)
    BY FS_Subset
  <2>10. ASSUME NEW t \in SUBSET s, \A x \in t : t \ {x} \in Q PROVE t \in Q
    <3> SUFFICES ASSUME t # s PROVE h[t] = Sum(t)
      OBVIOUS
    <3>1. Unfolds(t)
      BY <2>1
    <3>2. CASE t = {}
      BY <3>1, <3>2, <2>8
    <3>3. CASE t # {}
      <4>1. t \ {First(t)} \in Q /\ t \ {First(t)} # s
        BY <3>3, <1>2, <2>10
      <4>2. h[t \ {First(t)}] = Sum(t \ {First(t)})
        BY <4>1
      <4> QED BY <3>1, <3>3, <4>2, <2>8
    <3> QED BY <3>2, <3>3
  <2> HIDE DEF Q
  <2>11. \A t \in SUBSET s : t \in Q
    BY <2>9, <2>10, SubsetInduction
  <2> USE DEF Q
  <2>12. Unfolds(s)
    <3>1. CASE s = {}
      BY <3>1, <2>7, <2>8
    <3>2. CASE s # {}
      <4>1. s \ {First(s)} \in SUBSET s /\ s \ {First(s)} # s
        BY <3>2, <1>2
      <4>2. h[s \ {First(s)}] = Sum(s \ {First(s)})
        BY <4>1, <2>11
      <4> QED BY <3>2, <4>2, <2>7, <2>8
    <3> QED BY <3>1, <3>2
  <2> QED BY <2>1, <2>12
<1> HIDE DEF P
<1>5. \A s \in SUBSET S : s \in P
  BY <1>4, SubsetInduction
<1> USE DEF P
<1>6. Unfolds(S)
  BY <1>5
<1> QED
  BY <1>6 DEF Sum, First

\* A sum of integers is one.
LEMMA SumIsInt ==
  ASSUME NEW S, IsFiniteSet(S), NEW f, \A x \in S : f[x] \in Int
  PROVE  SumFunctionOnSet(f, S) \in Int
<1> DEFINE P == {s \in SUBSET S : SumFunctionOnSet(f, s) \in Int}
<1>1. ASSUME NEW s \in SUBSET S, \A x \in s : s \ {x} \in P PROVE s \in P
  <2>1. IsFiniteSet(s)
    BY FS_Subset
  <2> DEFINE x == CHOOSE x \in s : TRUE
  <2>2. SumFunctionOnSet(f, s) = IF s = {} THEN 0 ELSE f[x] + SumFunctionOnSet(f, s \ {x})
    BY <2>1, SumUnfolds
  <2>3. s # {} => x \in s
    OBVIOUS
  <2> HIDE DEF x
  <2> QED BY <1>1, <2>2, <2>3
<1> HIDE DEF P
<1>2. \A s \in SUBSET S : s \in P
  BY <1>1, SubsetInduction
<1> USE DEF P
<1> QED
  BY <1>2

\* Any element can be taken first.
LEMMA SumTakes ==
  ASSUME NEW S, IsFiniteSet(S), NEW f, \A x \in S : f[x] \in Int, NEW y \in S
  PROVE  SumFunctionOnSet(f, S) = f[y] + SumFunctionOnSet(f, S \ {y})
<1> DEFINE Sum(s) == SumFunctionOnSet(f, s)
           P == {s \in SUBSET S : \A z \in s : Sum(s) = f[z] + Sum(s \ {z})}
<1>1. ASSUME NEW s \in SUBSET S PROVE Sum(s) \in Int
  <2>1. IsFiniteSet(s)
    BY FS_Subset
  <2> QED BY <2>1, SumIsInt
<1>2. ASSUME NEW s \in SUBSET S, \A x \in s : s \ {x} \in P PROVE s \in P
  <2> SUFFICES ASSUME NEW z \in s PROVE Sum(s) = f[z] + Sum(s \ {z})
    OBVIOUS
  <2>1. IsFiniteSet(s)
    BY FS_Subset
  <2> DEFINE x == CHOOSE x \in s : TRUE
  <2>2. Sum(s) = f[x] + Sum(s \ {x})
    BY <2>1, SumUnfolds
  <2>3. x \in s
    OBVIOUS
  <2> HIDE DEF x
  <2>4. CASE z = x
    BY <2>2, <2>4
  <2>5. CASE z # x
    <3>1. Sum(s \ {x}) = f[z] + Sum((s \ {x}) \ {z})
      BY <1>2, <2>3, <2>5
    <3>2. Sum(s \ {z}) = f[x] + Sum((s \ {z}) \ {x})
      BY <1>2, <2>3, <2>5
    <3>3. (s \ {x}) \ {z} = (s \ {z}) \ {x}
      OBVIOUS
    <3> DEFINE rest == Sum((s \ {x}) \ {z})
    <3>4. rest \in Int /\ f[x] \in Int /\ f[z] \in Int
      BY <1>1, <2>3
    <3>5. Sum(s \ {z}) = f[x] + rest
      BY <3>2, <3>3
    <3>6. Sum(s) = f[x] + (f[z] + rest)
      BY <2>2, <3>1
    <3> HIDE DEF Sum, rest
    <3> QED BY <3>4, <3>5, <3>6
  <2> QED BY <2>4, <2>5
<1> HIDE DEF P
<1>3. \A s \in SUBSET S : s \in P
  BY <1>2, SubsetInduction
<1> USE DEF P
<1>4. S \in P
  BY <1>3
<1> QED
  BY <1>4

\* The sum depends on the values it adds up, and on nothing else.
LEMMA SumOfSame ==
  ASSUME NEW S, IsFiniteSet(S), NEW f, NEW g, \A x \in S : f[x] = g[x]
  PROVE  SumFunctionOnSet(f, S) = SumFunctionOnSet(g, S)
<1> DEFINE P == {s \in SUBSET S : SumFunctionOnSet(f, s) = SumFunctionOnSet(g, s)}
<1>1. ASSUME NEW s \in SUBSET S, \A x \in s : s \ {x} \in P PROVE s \in P
  <2>1. IsFiniteSet(s)
    BY FS_Subset
  <2> DEFINE x == CHOOSE x \in s : TRUE
  <2>2. SumFunctionOnSet(f, s) = IF s = {} THEN 0 ELSE f[x] + SumFunctionOnSet(f, s \ {x})
    BY <2>1, SumUnfolds
  <2>3. SumFunctionOnSet(g, s) = IF s = {} THEN 0 ELSE g[x] + SumFunctionOnSet(g, s \ {x})
    BY <2>1, SumUnfolds
  <2>4. s # {} => x \in s
    OBVIOUS
  <2> HIDE DEF x
  <2>5. s # {} => SumFunctionOnSet(f, s \ {x}) = SumFunctionOnSet(g, s \ {x}) /\ f[x] = g[x]
    BY <1>1, <2>4
  <2> QED BY <2>2, <2>3, <2>5
<1> HIDE DEF P
<1>2. \A s \in SUBSET S : s \in P
  BY <1>1, SubsetInduction
<1> USE DEF P
<1> QED
  BY <1>2

\* Changing one of the values changes the sum by as much.
LEMMA SumWithChange ==
  ASSUME NEW S, IsFiniteSet(S), NEW f, NEW g, NEW y \in S, NEW d \in Int,
         \A x \in S : f[x] \in Int /\ g[x] = IF x = y THEN f[x] + d ELSE f[x]
  PROVE  SumFunctionOnSet(g, S) = SumFunctionOnSet(f, S) + d
<1>1. SumFunctionOnSet(f, S) = f[y] + SumFunctionOnSet(f, S \ {y})
  BY SumTakes
<1>2. SumFunctionOnSet(g, S) = g[y] + SumFunctionOnSet(g, S \ {y})
  <2>1. \A x \in S : g[x] \in Int
    OBVIOUS
  <2> QED BY <2>1, SumTakes
<1>3. IsFiniteSet(S \ {y})
  BY FS_Subset
<1>4. SumFunctionOnSet(f, S \ {y}) = SumFunctionOnSet(g, S \ {y})
  <2>1. \A x \in S \ {y} : f[x] = g[x]
    OBVIOUS
  <2> QED BY <1>3, <2>1, SumOfSame
<1>5. SumFunctionOnSet(f, S \ {y}) \in Int
  <2>1. \A x \in S \ {y} : f[x] \in Int
    OBVIOUS
  <2> QED BY <1>3, <2>1, SumIsInt
<1>6. g[y] = f[y] + d /\ f[y] \in Int
  OBVIOUS
<1> QED
  BY <1>1, <1>2, <1>4, <1>5, <1>6

\* A sum of zeros, or of nothing, is zero.
LEMMA SumOfZeros ==
  ASSUME NEW S, IsFiniteSet(S), NEW f, \A x \in S : f[x] = 0
  PROVE  SumFunctionOnSet(f, S) = 0
<1> DEFINE P == {s \in SUBSET S : SumFunctionOnSet(f, s) = 0}
<1>1. ASSUME NEW s \in SUBSET S, \A x \in s : s \ {x} \in P PROVE s \in P
  <2>1. IsFiniteSet(s)
    BY FS_Subset
  <2> DEFINE x == CHOOSE x \in s : TRUE
  <2>2. SumFunctionOnSet(f, s) = IF s = {} THEN 0 ELSE f[x] + SumFunctionOnSet(f, s \ {x})
    BY <2>1, SumUnfolds
  <2>3. s # {} => x \in s
    OBVIOUS
  <2> HIDE DEF x
  <2> QED BY <1>1, <2>2, <2>3
<1> HIDE DEF P
<1>2. \A s \in SUBSET S : s \in P
  BY <1>1, SubsetInduction
<1> USE DEF P
<1> QED
  BY <1>2

\* A function on a finite set has finitely many values.
LEMMA RangeIsFinite ==
  ASSUME NEW S, IsFiniteSet(S), NEW f, DOMAIN f = S, f = [x \in S |-> f[x]]
  PROVE  IsFiniteSet(Range(f))
<1>1. Range(f) = {f[x] : x \in S}
  BY DEF Range
<1>2. f \in Surjection(S, Range(f))
  BY <1>1 DEF Surjection
<1> QED
  BY <1>2, FS_Surjection

------------------------------------------------------------------------------
(* Sorted lists of the elements of a finite set, and their pages.  The order *)
(* is a set of pairs.                                                        *)

\* R orders the elements of S, every two of them.
Orders(R, S) ==
  /\ \A a \in S : <<a, a>> \notin R
  /\ \A a, b \in S : a # b => <<a, b>> \in R \/ <<b, a>> \in R
  /\ \A a, b, c \in S : <<a, b>> \in R /\ <<b, c>> \in R => <<a, c>> \in R

\* The list has every element of S at its place.
IsListing(s, S, R) ==
  /\ s \in [1 .. Cardinality(S) -> S]
  /\ \A i, k \in 1 .. Cardinality(S) : i < k => <<s[i], s[k]>> \in R

\* A finite set that is not empty has a last element.
LEMMA LastInOrder ==
  ASSUME NEW S, IsFiniteSet(S), NEW R, Orders(R, S), S # {}
  PROVE  \E m \in S : \A a \in S \ {m} : <<a, m>> \in R
<1> DEFINE P == {s \in SUBSET S : s = {} \/ \E m \in s : \A a \in s \ {m} : <<a, m>> \in R}
<1>1. ASSUME NEW s \in SUBSET S, \A x \in s : s \ {x} \in P PROVE s \in P
  <2> SUFFICES ASSUME s # {} PROVE \E m \in s : \A a \in s \ {m} : <<a, m>> \in R
    OBVIOUS
  <2>1. PICK x \in s : TRUE
    OBVIOUS
  <2>2. CASE s \ {x} = {}
    BY <2>1, <2>2
  <2>3. CASE s \ {x} # {}
    <3>1. PICK m \in s \ {x} : \A a \in (s \ {x}) \ {m} : <<a, m>> \in R
      BY <1>1, <2>1, <2>3
    <3>2. CASE <<x, m>> \in R
      BY <3>1, <3>2
    <3>3. CASE <<x, m>> \notin R
      <4>1. <<m, x>> \in R
        BY <2>1, <3>1, <3>3 DEF Orders
      <4>2. ASSUME NEW a \in s \ {x} PROVE <<a, x>> \in R
        <5>1. CASE a = m
          BY <4>1, <5>1
        <5>2. CASE a # m
          <6>1. <<a, m>> \in R
            BY <3>1, <5>2
          <6>2. a \in S /\ m \in S /\ x \in S
            BY <2>1, <3>1
          <6> QED BY <4>1, <6>1, <6>2 DEF Orders
        <5> QED BY <5>1, <5>2
      <4> QED BY <2>1, <4>2
    <3> QED BY <3>2, <3>3
  <2> QED BY <2>2, <2>3
<1> HIDE DEF P
<1>2. S \in P
  BY <1>1, SubsetInduction
<1> USE DEF P
<1> QED
  BY <1>2

\* So its elements can be listed.
LEMMA ListingExists ==
  ASSUME NEW S, IsFiniteSet(S), NEW R, Orders(R, S)
  PROVE  \E s : IsListing(s, S, R)
<1> DEFINE P == {s \in SUBSET S : \E l : IsListing(l, s, R)}
<1>1. ASSUME NEW s \in SUBSET S, \A x \in s : s \ {x} \in P PROVE s \in P
  <2>1. IsFiniteSet(s) /\ Cardinality(s) \in Nat
    BY FS_Subset, FS_CardinalityType
  <2>2. CASE s = {}
    <3>1. Cardinality(s) = 0
      BY <2>2, FS_EmptySet
    <3>2. <<>> \in [1 .. 0 -> s] /\ \A i \in 1 .. 0 : FALSE
      OBVIOUS
    <3>3. IsListing(<<>>, s, R)
      BY <3>1, <3>2 DEF IsListing
    <3> QED BY <3>3
  <2>3. CASE s # {}
    <3>1. Orders(R, s)
      BY DEF Orders
    <3>2. PICK m \in s : \A a \in s \ {m} : <<a, m>> \in R
      BY <2>1, <2>3, <3>1, LastInOrder
    <3>3. PICK l : IsListing(l, s \ {m}, R)
      BY <1>1, <3>2
    <3> DEFINE n == Cardinality(s)
               new == [i \in 1 .. n |-> IF i = n THEN m ELSE l[i]]
    <3>4. Cardinality(s \ {m}) = n - 1 /\ n \in Nat /\ n > 0
      BY <2>1, <2>3, <3>2, FS_RemoveElement, FS_EmptySet
    <3> HIDE DEF n
    <3>5. /\ l \in [1 .. n - 1 -> s \ {m}]
          /\ \A i, k \in 1 .. n - 1 : i < k => <<l[i], l[k]>> \in R
      BY <3>3, <3>4 DEF IsListing
    <3>6. \A i \in 1 .. n : i # n => i \in 1 .. n - 1 /\ new[i] = l[i] /\ l[i] \in s \ {m}
      BY <3>4, <3>5
    <3>7. n \in 1 .. n /\ new[n] = m
      BY <3>4
    <3>8. new \in [1 .. n -> s]
      BY <3>2, <3>5, <3>6
    <3> HIDE DEF new
    <3>9. ASSUME NEW i \in 1 .. n, NEW k \in 1 .. n, i < k PROVE <<new[i], new[k]>> \in R
      <4>1. i # n
        BY <3>4, <3>9
      <4>2. CASE k = n
        BY <4>1, <4>2, <3>2, <3>6, <3>7
      <4>3. CASE k # n
        BY <4>1, <4>3, <3>5, <3>6, <3>9
      <4> QED BY <4>2, <4>3
    <3>10. IsListing(new, s, R)
      BY <3>8, <3>9 DEF IsListing, n
    <3> QED BY <3>10
  <2> QED BY <2>2, <2>3
<1> HIDE DEF P
<1>2. S \in P
  BY <1>1, SubsetInduction
<1> USE DEF P
<1> QED
  BY <1>2

\* A listing leaves nothing out.
LEMMA ListingIsComplete ==
  ASSUME NEW S, IsFiniteSet(S), NEW R, Orders(R, S), NEW s, IsListing(s, S, R)
  PROVE  \A x \in S : \E i \in 1 .. Cardinality(S) : s[i] = x
<1> DEFINE n == Cardinality(S)
<1>1. n \in Nat
  BY FS_CardinalityType
<1>2. s \in [1 .. n -> S]
  BY DEF IsListing
<1>3. \A i, k \in 1 .. n : i < k => s[i] # s[k]
  BY <1>2 DEF IsListing, Orders
<1>4. IsFiniteSet(1 .. n) /\ Cardinality(1 .. n) = n
  BY <1>1, FS_Interval
<1> HIDE DEF n
<1>5. \A i, k \in 1 .. n : s[i] = s[k] => i = k
  BY <1>1, <1>3
<1>6. s \in Injection(1 .. n, S)
  BY <1>2, <1>5 DEF Injection, IsInjective
<1>7. s \in Surjection(1 .. n, S)
  BY <1>4, <1>6, FS_Injection DEF n
<1> QED
  BY <1>7 DEF Surjection, n

\* The elements of a sequence.
LEMMA RangeElements ==
  ASSUME NEW S, NEW s \in Seq(S)
  PROVE  /\ Range(s) \subseteq S
         /\ \A i \in 1 .. Len(s) : s[i] \in Range(s)
         /\ \A x \in Range(s) : \E i \in 1 .. Len(s) : x = s[i]
         /\ Len(s) \in Nat
<1>1. DOMAIN s = 1 .. Len(s) /\ Len(s) \in Nat /\ \A i \in 1 .. Len(s) : s[i] \in S
  OBVIOUS
<1> QED
  BY <1>1 DEF Range

\* The first n of the elements of S, or all of them, in their order.
IsPage(page, S, R, n) ==
  /\ page \in Seq(S)
  /\ \A i, j \in 1 .. Len(page) : i < j => <<page[i], page[j]>> \in R
  /\ Cardinality(S) <= n => Range(page) = S
  /\ S # {} => Len(page) > 0
  /\ Cardinality(S) > n =>
       S # {} /\ \A x \in S \ Range(page) : <<page[Len(page)], x>> \in R

\* The front of a listing is a page.
LEMMA PageOfListing ==
  ASSUME NEW S, IsFiniteSet(S), NEW R, Orders(R, S), NEW s, IsListing(s, S, R), NEW n \in Nat \ {0}
  PROVE  IsPage(SubSeq(s, 1, IF Cardinality(S) < n THEN Cardinality(S) ELSE n), S, R, n)
<1> DEFINE N == Cardinality(S)
           k == IF N < n THEN N ELSE n
           page == SubSeq(s, 1, k)
<1>1. N \in Nat
  BY FS_CardinalityType
<1>2. /\ s \in [1 .. N -> S]
      /\ \A i, j \in 1 .. N : i < j => <<s[i], s[j]>> \in R
      /\ \A x \in S : \E i \in 1 .. N : s[i] = x
  <2>1. \A x \in S : \E i \in 1 .. Cardinality(S) : s[i] = x
    BY ListingIsComplete
  <2> QED BY <2>1 DEF IsListing
<1>3. s \in Seq(S) /\ Len(s) = N
  BY <1>1, <1>2
<1>4. S # {} <=> N # 0
  BY FS_EmptySet
<1> HIDE DEF N
<1>5. k \in 0 .. N /\ k \in Nat /\ (N <= n => k = N) /\ (N > n => k = n) /\ (N # 0 => k > 0)
  BY <1>1
<1> HIDE DEF k
<1>6. page \in Seq(S) /\ Len(page) = k /\ \A i \in 1 .. k : page[i] = s[i] /\ i \in 1 .. N
  BY <1>1, <1>3, <1>5
<1> HIDE DEF page
<1>7. \A i, j \in 1 .. k : i < j => <<page[i], page[j]>> \in R
  BY <1>2, <1>6
<1>8. /\ Range(page) \subseteq S
      /\ \A i \in 1 .. k : page[i] \in Range(page)
  BY <1>6, RangeElements
<1>9. ASSUME N <= n, NEW x \in S PROVE x \in Range(page)
  <2>1. PICK i \in 1 .. N : s[i] = x
    BY <1>2
  <2> QED BY <2>1, <1>5, <1>6, <1>8, <1>9
<1>10. ASSUME N > n, NEW x \in S \ Range(page) PROVE <<page[k], x>> \in R
  <2>1. PICK i \in 1 .. N : s[i] = x
    BY <1>2
  <2>2. ~(i <= n)
    <3> SUFFICES ASSUME i <= n PROVE FALSE
      OBVIOUS
    <3>1. i \in 1 .. k
      BY <2>1, <1>1, <1>5, <1>10
    <3> QED BY <2>1, <3>1, <1>6, <1>8
  <2>3. k \in 1 .. k /\ k \in 1 .. N /\ k < i
    BY <2>2, <1>1, <1>5, <1>10
  <2> QED BY <2>1, <2>3, <1>2, <1>6
<1>11. N > n => S # {}
  BY <1>1, <1>4
<1>12. IsPage(page, S, R, n)
  BY <1>4, <1>5, <1>6, <1>7, <1>8, <1>9, <1>10, <1>11 DEF IsPage, N
<1> QED
  BY <1>12 DEF page, k, N

\* The numbers of a list grow.
Ascending(s) == \A i, j \in 1 .. Len(s) : i < j => s[i] < s[j]

\* The numbers of a set can be listed.
LEMMA ListingOfNumbers ==
  ASSUME NEW S \in SUBSET Nat, IsFiniteSet(S)
  PROVE  /\ Orders(LessPairs, S)
         /\ IsListing(CHOOSE l \in [1 .. Cardinality(S) -> S] :
                        \A i, k \in DOMAIN l : i < k => l[i] < l[k], S, LessPairs)
<1> DEFINE Sorted(l) == l \in [1 .. Cardinality(S) -> S]
                        /\ \A i, k \in DOMAIN l : i < k => l[i] < l[k]
           s == CHOOSE l \in [1 .. Cardinality(S) -> S] :
                  \A i, k \in DOMAIN l : i < k => l[i] < l[k]
<1>1. Orders(LessPairs, S)
  BY DEF Orders, LessPairs
<1>2. \A l : Sorted(l) <=> IsListing(l, S, LessPairs)
  <2> SUFFICES ASSUME NEW l, l \in [1 .. Cardinality(S) -> S]
               PROVE  Sorted(l) <=> IsListing(l, S, LessPairs)
    BY DEF IsListing
  <2>1. \A i \in 1 .. Cardinality(S) : l[i] \in Nat
    OBVIOUS
  <2>2. \A i, j \in 1 .. Cardinality(S) : l[i] < l[j] <=> <<l[i], l[j]>> \in LessPairs
    BY <2>1 DEF LessPairs
  <2>3. DOMAIN l = 1 .. Cardinality(S)
    OBVIOUS
  <2> QED BY <2>2, <2>3 DEF IsListing
<1>3. \E l : Sorted(l)
  BY <1>1, <1>2, ListingExists
<1>4. Sorted(s)
  BY <1>3
<1>5. IsListing(s, S, LessPairs)
  BY <1>2, <1>4
<1> QED
  BY <1>1, <1>5

\* A page of them.
LEMMA PageOfNumbers ==
  ASSUME NEW S \in SUBSET Nat, NEW n, NEW page, IsPage(page, S, LessPairs, n)
  PROVE  /\ page \in Seq(S) /\ page \in Seq(Nat) /\ Len(page) \in Nat
         /\ Ascending(page)
         /\ Range(page) \subseteq S
         /\ Cardinality(S) <= n => Range(page) = S
         /\ S # {} => Len(page) > 0
         /\ Cardinality(S) > n => S # {} /\ \A x \in S \ Range(page) : page[Len(page)] < x
<1>1. \A a, b : <<a, b>> \in LessPairs => a < b
  BY DEF LessPairs
<1>2. Ascending(page)
  BY <1>1 DEF Ascending, IsPage
<1>3. page \in Seq(S) /\ page \in Seq(Nat)
  <2>1. page \in Seq(S)
    BY DEF IsPage
  <2> QED BY <2>1, SeqMonotonic
<1>4. Range(page) \subseteq S /\ Len(page) \in Nat
  BY <1>3, RangeElements
<1> QED
  BY <1>1, <1>2, <1>3, <1>4 DEF IsPage

\* A page of greater numbers is put behind those already seen.
LEMMA PageAppended ==
  ASSUME NEW seen \in Seq(Nat), Ascending(seen), NEW page \in Seq(Nat), Ascending(page),
         \A x \in Range(seen) : \A y \in Range(page) : x < y
  PROVE  /\ seen \o page \in Seq(Nat)
         /\ Ascending(seen \o page)
         /\ Range(seen \o page) = Range(seen) \cup Range(page)
         /\ Len(page) > 0 => \A x \in Range(seen \o page) : x <= page[Len(page)]
<1> DEFINE new == seen \o page
           m == Len(seen)
           n == Len(page)
<1>1. /\ new \in Seq(Nat) /\ Len(new) = m + n /\ m \in Nat /\ n \in Nat
      /\ \A i \in 1 .. m : new[i] = seen[i]
      /\ \A i \in 1 .. n : new[m + i] = page[i]
  OBVIOUS
<1>2. /\ \A i \in 1 .. m : i \in 1 .. m + n /\ seen[i] \in Range(seen) /\ seen[i] \in Nat
      /\ \A i \in 1 .. n : m + i \in 1 .. m + n /\ page[i] \in Range(page) /\ page[i] \in Nat
      /\ \A i \in 1 .. m + n : new[i] \in Range(new)
      /\ \A x \in Range(seen) : \E i \in 1 .. m : x = seen[i]
      /\ \A x \in Range(page) : \E i \in 1 .. n : x = page[i]
      /\ \A x \in Range(new) : \E i \in 1 .. m + n : x = new[i]
  <2> HIDE DEF new, m, n
  <2>1. Len(seen) = m /\ Len(page) = n /\ Len(new) = m + n
    BY <1>1 DEF m, n
  <2>2. /\ \A i \in 1 .. m : seen[i] \in Range(seen)
        /\ \A x \in Range(seen) : \E i \in 1 .. m : x = seen[i]
    BY <2>1, RangeElements
  <2>3. /\ \A i \in 1 .. n : page[i] \in Range(page)
        /\ \A x \in Range(page) : \E i \in 1 .. n : x = page[i]
    BY <2>1, RangeElements
  <2>4. /\ \A i \in 1 .. m + n : new[i] \in Range(new)
        /\ \A x \in Range(new) : \E i \in 1 .. m + n : x = new[i]
    <3>1. /\ \A i \in 1 .. Len(new) : new[i] \in Range(new)
          /\ \A x \in Range(new) : \E i \in 1 .. Len(new) : x = new[i]
      BY <1>1, RangeElements
    <3> QED BY <2>1, <3>1
  <2>5. (\A i \in 1 .. m : seen[i] \in Nat) /\ (\A i \in 1 .. n : page[i] \in Nat)
    BY <2>1
  <2>6. (\A i \in 1 .. m : i \in 1 .. m + n) /\ (\A i \in 1 .. n : m + i \in 1 .. m + n)
    BY <1>1
  <2> QED BY <2>2, <2>3, <2>4, <2>5, <2>6
<1>3. /\ \A i, j \in 1 .. m : i < j => seen[i] < seen[j]
      /\ \A i, j \in 1 .. n : i < j => page[i] < page[j]
  BY DEF Ascending
<1> HIDE DEF new, m, n
<1>4. \A i \in 1 .. m + n : i \in 1 .. m \/ (i - m \in 1 .. n /\ m + (i - m) = i)
  BY <1>1
<1>5. \A i \in 1 .. m + n : \/ i \in 1 .. m /\ new[i] = seen[i]
                            \/ i - m \in 1 .. n /\ new[i] = page[i - m]
  BY <1>1, <1>4
<1>6. Ascending(new)
  <2> SUFFICES ASSUME NEW i \in 1 .. m + n, NEW j \in 1 .. m + n, i < j PROVE new[i] < new[j]
    BY <1>1 DEF Ascending
  <2>1. CASE j \in 1 .. m
    BY <2>1, <1>1, <1>3
  <2>2. CASE i \in 1 .. m /\ j \notin 1 .. m
    <3>1. new[i] \in Range(seen)
      BY <2>2, <1>1, <1>2
    <3>2. new[j] \in Range(page)
      BY <2>2, <1>2, <1>5
    <3> QED BY <3>1, <3>2
  <2>3. CASE i \notin 1 .. m /\ j \notin 1 .. m
    <3>1. i - m \in 1 .. n /\ new[i] = page[i - m] /\ j - m \in 1 .. n /\ new[j] = page[j - m]
      BY <2>3, <1>5
    <3>2. i - m < j - m
      BY <1>1
    <3> QED BY <3>1, <3>2, <1>3
  <2>4. i \notin 1 .. m => j \notin 1 .. m
    BY <1>1
  <2> QED BY <2>1, <2>2, <2>3, <2>4
<1>7. Range(new) = Range(seen) \cup Range(page)
  <2>1. ASSUME NEW x \in Range(new) PROVE x \in Range(seen) \cup Range(page)
    <3>1. PICK i \in 1 .. m + n : x = new[i]
      BY <1>2
    <3> QED BY <3>1, <1>2, <1>5
  <2>2. ASSUME NEW x \in Range(seen) PROVE x \in Range(new)
    <3>1. PICK i \in 1 .. m : x = seen[i]
      BY <1>2
    <3> QED BY <3>1, <1>1, <1>2
  <2>3. ASSUME NEW x \in Range(page) PROVE x \in Range(new)
    <3>1. PICK i \in 1 .. n : x = page[i]
      BY <1>2
    <3> QED BY <3>1, <1>1, <1>2
  <2> QED BY <2>1, <2>2, <2>3
<1>8. ASSUME n > 0, NEW x \in Range(new) PROVE x <= page[n]
  <2>1. n \in 1 .. n /\ page[n] \in Range(page) /\ page[n] \in Nat
    BY <1>1, <1>2, <1>8
  <2>2. CASE x \in Range(seen)
    <3>1. x \in Nat /\ x < page[n]
      BY <2>1, <2>2, <1>2
    <3> QED BY <2>1, <3>1
  <2>3. CASE x \in Range(page)
    <3>1. PICK i \in 1 .. n : x = page[i]
      BY <2>3, <1>2
    <3>2. i = n \/ i < n
      BY <1>1
    <3>3. x \in Nat /\ (i < n => x < page[n])
      BY <3>1, <2>1, <1>2, <1>3
    <3> QED BY <3>1, <3>2, <3>3, <2>1
  <2> QED BY <2>2, <2>3, <1>7, <1>8
<1> QED
  BY <1>1, <1>6, <1>7, <1>8 DEF new, m, n

\* The first n of some numbers, or all of them, in their order.
FirstNumbers(page, rest, n) ==
  page = SubSeq(CHOOSE l \in [1 .. Cardinality(rest) -> rest] :
                  \A i, k \in DOMAIN l : i < k => l[i] < l[k],
                1, IF Cardinality(rest) < n THEN Cardinality(rest) ELSE n)

\* The next page of a list: the first n of the numbers that come after those
\* already seen.
LEMMA PageTaken ==
  ASSUME NEW rest \in SUBSET Nat, IsFiniteSet(rest), NEW n \in Nat \ {0},
         NEW seen \in Seq(Nat), Ascending(seen),
         \A x \in Range(seen) : \A y \in rest : x < y,
         NEW page, FirstNumbers(page, rest, n)
  PROVE  /\ seen \o page \in Seq(Nat)
         /\ Ascending(seen \o page)
         /\ Range(seen \o page) = Range(seen) \cup Range(page)
         /\ Range(page) \subseteq rest
         /\ Cardinality(rest) <= n => Range(page) = rest
         /\ rest # {} => /\ page[Len(page)] \in rest
                         /\ \A x \in Range(seen \o page) : x <= page[Len(page)]
         /\ Cardinality(rest) > n =>
              rest # {} /\ \A x \in rest \ Range(page) : page[Len(page)] < x
<1> DEFINE listing == CHOOSE l \in [1 .. Cardinality(rest) -> rest] :
                        \A i, k \in DOMAIN l : i < k => l[i] < l[k]
<1>0. rest \in SUBSET Nat
  OBVIOUS
<1>1. Orders(LessPairs, rest) /\ IsListing(listing, rest, LessPairs)
  BY ListingOfNumbers, Zenon
<1>2. page = SubSeq(listing, 1, IF Cardinality(rest) < n THEN Cardinality(rest) ELSE n)
  BY DEF FirstNumbers
<1> HIDE DEF listing
<1>3. IsPage(page, rest, LessPairs, n)
  <2>1. IsPage(SubSeq(listing, 1, IF Cardinality(rest) < n THEN Cardinality(rest) ELSE n), rest, LessPairs, n)
    BY <1>1, PageOfListing
  <2> QED BY <1>2, <2>1
<1>4. /\ page \in Seq(rest) /\ page \in Seq(Nat) /\ Len(page) \in Nat
      /\ Ascending(page)
      /\ Range(page) \subseteq rest
      /\ Cardinality(rest) <= n => Range(page) = rest
      /\ rest # {} => Len(page) > 0
      /\ Cardinality(rest) > n => rest # {} /\ \A x \in rest \ Range(page) : page[Len(page)] < x
  BY ONLY <1>0, <1>3, PageOfNumbers
<1>5. \A x \in Range(seen) : \A y \in Range(page) : x < y
  BY <1>4
<1>6. /\ seen \o page \in Seq(Nat)
      /\ Ascending(seen \o page)
      /\ Range(seen \o page) = Range(seen) \cup Range(page)
      /\ Len(page) > 0 => \A x \in Range(seen \o page) : x <= page[Len(page)]
  BY <1>4, <1>5, PageAppended
<1>7. rest # {} => page[Len(page)] \in rest
  <2>1. rest # {} => Len(page) \in 1 .. Len(page)
    BY <1>4
  <2> QED BY <2>1, <1>4, ElementOfSeq
<1> QED
  BY <1>4, <1>6, <1>7

\* The first n elements of a finite set, as a set.
FirstOf(P, S, R, n) == P = {x \in S : Cardinality({y \in S : <<y, x>> \in R}) < n}

\* They are there if there are any, they are all of them if there are no more
\* than n, the others come after them, and one of them is the last.
LEMMA FirstOnes ==
  ASSUME NEW S, IsFiniteSet(S), NEW R, Orders(R, S), NEW n \in Nat \ {0}, NEW P, FirstOf(P, S, R, n)
  PROVE  /\ P \subseteq S
         /\ S # {} => P # {}
         /\ Cardinality(S) <= n => P = S
         /\ Cardinality(S) \in Nat
         /\ \A x \in P : \A y \in S \ P : <<x, y>> \in R
         /\ P # {} => \E m \in P : \A a \in P \ {m} : <<a, m>> \in R
<1> DEFINE Before(x) == {y \in S : <<y, x>> \in R}
<1>1. \A x \in S : IsFiniteSet(Before(x)) /\ Cardinality(Before(x)) \in Nat
  <2> SUFFICES ASSUME NEW x \in S PROVE IsFiniteSet(Before(x)) /\ Cardinality(Before(x)) \in Nat
    OBVIOUS
  <2>1. Before(x) \subseteq S
    OBVIOUS
  <2> HIDE DEF Before
  <2> QED BY <2>1, FS_Subset, FS_CardinalityType
<1>2. P = {x \in S : Cardinality(Before(x)) < n}
  BY DEF FirstOf
<1>3. Cardinality(S) \in Nat
  BY FS_CardinalityType
<1>4. \A x, y \in S : y \in Before(x) <=> <<y, x>> \in R
  OBVIOUS
<1>5. \A x \in S : Before(x) \subseteq S
  OBVIOUS
<1> HIDE DEF Before
<1>6. P \subseteq S
  BY <1>2
<1>7. ASSUME S # {} PROVE P # {}
  <2> DEFINE Back == {p \in S \X S : <<p[2], p[1]>> \in R}
  <2>1. \A a, b \in S : <<a, b>> \in Back <=> <<b, a>> \in R
    OBVIOUS
  <2> HIDE DEF Back
  <2>2. Orders(Back, S)
    BY <2>1 DEF Orders
  <2>3. PICK m \in S : \A a \in S \ {m} : <<a, m>> \in Back
    BY <1>7, <2>2, LastInOrder
  <2>4. ASSUME NEW a \in Before(m) PROVE FALSE
    <3>1. a \in S /\ <<a, m>> \in R
      BY <1>4, <1>5, <2>4
    <3>2. a # m
      BY <3>1 DEF Orders
    <3>3. <<m, a>> \in R
      BY <2>1, <2>3, <3>1, <3>2
    <3>4. <<m, m>> \in R
      BY <3>1, <3>3 DEF Orders
    <3> QED BY <3>4 DEF Orders
  <2>5. Cardinality(Before(m)) = 0
    <3>1. Before(m) = {}
      BY <2>4
    <3> QED BY <3>1, FS_EmptySet
  <2>6. m \in P
    BY <1>2, <2>5
  <2> QED BY <2>6
<1>8. ASSUME Cardinality(S) <= n PROVE P = S
  <2> SUFFICES ASSUME NEW x \in S PROVE Cardinality(Before(x)) < n
    BY <1>2
  <2>1. Before(x) \subseteq S \ {x}
    BY <1>4, <1>5 DEF Orders
  <2>2. IsFiniteSet(S \ {x}) /\ Cardinality(S \ {x}) = Cardinality(S) - 1
    BY FS_RemoveElement
  <2>3. Cardinality(Before(x)) <= Cardinality(S \ {x})
    BY <2>1, <2>2, FS_Subset
  <2> QED BY <1>1, <1>3, <1>8, <2>2, <2>3
<1>9. ASSUME NEW x \in P, NEW y \in S \ P PROVE <<x, y>> \in R
  <2> SUFFICES ASSUME <<x, y>> \notin R PROVE FALSE
    OBVIOUS
  <2>1. x \in S /\ x # y /\ Cardinality(Before(x)) < n
    BY <1>2
  <2>2. <<y, x>> \in R
    BY <2>1 DEF Orders
  <2>3. Before(y) \subseteq Before(x)
    <3> SUFFICES ASSUME NEW a \in Before(y) PROVE a \in Before(x)
      OBVIOUS
    <3>1. a \in S /\ <<a, y>> \in R
      BY <1>4, <1>5
    <3>2. <<a, x>> \in R
      BY <2>1, <2>2, <3>1 DEF Orders
    <3> QED BY <1>4, <2>1, <3>1, <3>2
  <2>4. Cardinality(Before(y)) <= Cardinality(Before(x))
    BY <1>1, <2>1, <2>3, FS_Subset
  <2>5. Cardinality(Before(y)) < n
    BY <1>1, <2>1, <2>4
  <2> QED BY <1>2, <2>5
<1>10. ASSUME P # {} PROVE \E m \in P : \A a \in P \ {m} : <<a, m>> \in R
  <2>1. IsFiniteSet(P)
    BY <1>6, FS_Subset
  <2>2. Orders(R, P)
    BY <1>6 DEF Orders
  <2> QED BY <1>10, <2>1, <2>2, LastInOrder
<1> QED
  BY <1>3, <1>6, <1>7, <1>8, <1>9, <1>10

\* Slices of a list that follow one another.
LEMMA Slices ==
  ASSUME NEW S, NEW s \in Seq(S), NEW m \in 0 .. Len(s), NEW j \in m .. Len(s)
  PROVE  /\ SubSeq(s, m + 1, j) \in Seq(S)
         /\ Len(SubSeq(s, m + 1, j)) = j - m
         /\ \A i \in 1 .. j - m : SubSeq(s, m + 1, j)[i] = s[m + i]
<1>1. Len(s) \in Nat /\ \A i \in m + 1 .. j : s[i] \in S
  BY ElementOfSeq
<1>2. m + 1 \in Int /\ j \in Int
  OBVIOUS
<1>3. /\ SubSeq(s, m + 1, j) \in Seq(S)
      /\ Len(SubSeq(s, m + 1, j)) = IF m + 1 <= j THEN j - (m + 1) + 1 ELSE 0
      /\ \A i \in 1 .. j - (m + 1) + 1 : SubSeq(s, m + 1, j)[i] = s[(m + 1) + i - 1]
  BY ONLY <1>1, <1>2, SubSeqProperties
<1>4. Len(SubSeq(s, m + 1, j)) = j - m
  BY <1>1, <1>3
<1>5. ASSUME NEW i \in 1 .. j - m PROVE SubSeq(s, m + 1, j)[i] = s[m + i]
  <2>1. (m + 1) + i - 1 = m + i /\ i \in 1 .. j - (m + 1) + 1
    BY <1>1
  <2> QED BY <1>3, <2>1
<1> QED
  BY <1>3, <1>4, <1>5

LEMMA SliceOfSlice ==
  ASSUME NEW S, NEW s \in Seq(S), NEW m \in 0 .. Len(s), NEW j \in m .. Len(s)
  PROVE  SubSeq(SubSeq(s, m + 1, Len(s)), 1, j - m) = SubSeq(s, m + 1, j)
<1> DEFINE t == SubSeq(s, m + 1, Len(s))
           u == SubSeq(t, 1, j - m)
           v == SubSeq(s, m + 1, j)
<1>1. Len(s) \in Nat /\ Len(s) \in m .. Len(s)
  OBVIOUS
<1>2. t \in Seq(S) /\ Len(t) = Len(s) - m /\ \A i \in 1 .. Len(s) - m : t[i] = s[m + i]
  BY <1>1, Slices
<1>3. v \in Seq(S) /\ Len(v) = j - m /\ \A i \in 1 .. j - m : v[i] = s[m + i]
  BY Slices
<1> HIDE DEF t, v
<1>4. j - m \in 0 .. Len(t) /\ 0 \in 0 .. Len(t)
  BY <1>1, <1>2
<1>5. u \in Seq(S) /\ Len(u) = j - m /\ \A i \in 1 .. j - m : u[i] = t[i]
  <2>1. /\ SubSeq(t, 0 + 1, j - m) \in Seq(S)
        /\ Len(SubSeq(t, 0 + 1, j - m)) = (j - m) - 0
        /\ \A i \in 1 .. (j - m) - 0 : SubSeq(t, 0 + 1, j - m)[i] = t[0 + i]
    BY <1>2, <1>4, Slices
  <2>2. 0 + 1 = 1 /\ (j - m) - 0 = j - m /\ \A i \in 1 .. j - m : 0 + i = i
    OBVIOUS
  <2> QED BY <2>1, <2>2
<1> HIDE DEF u
<1>6. \A i \in 1 .. Len(u) : u[i] = v[i]
  BY <1>1, <1>2, <1>3, <1>5
<1>7. u = v
  BY <1>3, <1>5, <1>6, SeqEqual
<1> QED
  BY <1>7 DEF t, u, v

LEMMA SlicesJoin ==
  ASSUME NEW S, NEW s \in Seq(S), NEW m \in 0 .. Len(s), NEW j \in m .. Len(s)
  PROVE  SubSeq(s, m + 1, j) \o SubSeq(s, j + 1, Len(s)) = SubSeq(s, m + 1, Len(s))
<1> DEFINE t == SubSeq(s, m + 1, j)
           u == SubSeq(s, j + 1, Len(s))
           v == SubSeq(s, m + 1, Len(s))
<1>1. Len(s) \in Nat /\ Len(s) \in m .. Len(s) /\ j \in 0 .. Len(s) /\ Len(s) \in j .. Len(s)
  OBVIOUS
<1>2. t \in Seq(S) /\ Len(t) = j - m /\ \A i \in 1 .. j - m : t[i] = s[m + i]
  BY Slices
<1>3. u \in Seq(S) /\ Len(u) = Len(s) - j /\ \A i \in 1 .. Len(s) - j : u[i] = s[j + i]
  BY <1>1, Slices
<1>4. v \in Seq(S) /\ Len(v) = Len(s) - m /\ \A i \in 1 .. Len(s) - m : v[i] = s[m + i]
  BY <1>1, Slices
<1> HIDE DEF t, u, v
<1>5. /\ t \o u \in Seq(S) /\ Len(t \o u) = Len(t) + Len(u)
      /\ \A i \in 1 .. Len(t) + Len(u) : (t \o u)[i] = IF i <= Len(t) THEN t[i] ELSE u[i - Len(t)]
  BY <1>2, <1>3, ConcatProperties
<1>6. Len(t \o u) = Len(v) /\ Len(t) + Len(u) = Len(s) - m
  BY <1>1, <1>2, <1>3, <1>4, <1>5
<1>7. ASSUME NEW i \in 1 .. Len(s) - m PROVE (t \o u)[i] = v[i]
  <2>1. (t \o u)[i] = IF i <= j - m THEN t[i] ELSE u[i - (j - m)]
    BY <1>2, <1>5, <1>6
  <2>2. CASE i <= j - m
    BY <1>2, <1>4, <2>1, <2>2
  <2>3. CASE ~(i <= j - m)
    <3>1. i - (j - m) \in 1 .. Len(s) - j /\ j + (i - (j - m)) = m + i
      BY <1>1, <2>3
    <3>2. u[i - (j - m)] = s[m + i]
      BY <1>3, <3>1
    <3> QED BY <1>4, <2>1, <2>3, <3>2
  <2> QED BY <2>2, <2>3
<1>8. \A i \in 1 .. Len(t \o u) : (t \o u)[i] = v[i]
  BY <1>5, <1>6, <1>7
<1>9. t \o u = v
  BY <1>4, <1>5, <1>6, <1>8, SeqEqual
<1> QED
  BY <1>9 DEF t, u, v
=============================================================================
