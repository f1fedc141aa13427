--------------------------- MODULE ModelStatsProofs ---------------------------
(***************************************************************************)
(* Proofs about the statistics store of ModelStats: its variables keep     *)
(* their types, the timeout fields of an entry agree, no model is charged  *)
(* more key failures than it had, and the list a race is given is sound.   *)
(*                                                                         *)
(* The store adds up and sorts: sums are folds and a ranking is a choice   *)
(* among sequences, so the first two sections prove by induction what a    *)
(* fold over a finite set computes and that a finite ordered set can be    *)
(* sorted.  The induction is the library's well-founded one on the natural *)
(* numbers, taken as a statement about sets: a set of numbers that has 0   *)
(* and the successor of each of its members is all of them.                *)
(***************************************************************************)
EXTENDS ModelStats, WellFoundedInduction, FiniteSetTheorems, TLAPS

-----------------------------------------------------------------------------
(* Induction.                                                              *)

\* A set of numbers that has 0 and the successor of each of its members has all of them.
LEMMA InductiveSet ==
  ASSUME NEW S \in SUBSET Nat, 0 \in S, \A n \in S : n + 1 \in S
  PROVE  S = Nat
<1> DEFINE R == OpToRel(<, Nat)
           T == Nat \ S
<1>0. R = {q \in Nat \X Nat : q[1] < q[2]}
  BY DEF OpToRel
<1>1. IsWellFoundedOn(R, Nat)
  BY NatLessThanWellFounded
<1>2. ASSUME T # {} PROVE FALSE
  <2> HIDE DEF R
  <2>1. PICK x \in T : \A y \in T : ~ (<<y, x>> \in R)
    BY <1>1, <1>2, WFMin
  <2>2. x \in Nat /\ x # 0 /\ x - 1 \in Nat
    BY <2>1
  <2>3. <<x - 1, x>> \in R
    BY <1>0, <2>2
  <2>4. x - 1 \in S
    BY <2>1, <2>2, <2>3
  <2> QED
    BY <2>1, <2>2, <2>4
<1> QED
  BY <1>2

\* A family of subsets of a finite set that has the empty one, and every one all
\* of whose subsets with one element less it has, has them all.
LEMMA InductiveFamily ==
  ASSUME NEW S, IsFiniteSet(S), NEW F \in SUBSET (SUBSET S), {} \in F,
         \A T \in SUBSET S : T # {} /\ (\A x \in T : T \ {x} \in F) => T \in F
  PROVE  F = SUBSET S
<1> DEFINE N == {n \in Nat : \A T \in SUBSET S : Cardinality(T) = n => T \in F}
<1>0. \A T \in SUBSET S : IsFiniteSet(T) /\ Cardinality(T) \in Nat
  BY FS_Subset, FS_CardinalityType
<1>1. 0 \in N
  <2>1. \A T \in SUBSET S : Cardinality(T) = 0 => T = {}
    BY <1>0, FS_EmptySet
  <2> QED
    BY <2>1
<1>2. ASSUME NEW n \in N PROVE n + 1 \in N
  <2>1. n \in Nat /\ n + 1 \in Nat
    OBVIOUS
  <2>2. ASSUME NEW T \in SUBSET S, Cardinality(T) = n + 1 PROVE T \in F
    <3>1. Cardinality(T) # 0
      BY <2>1, <2>2
    <3>2. T # {}
      BY <3>1, FS_EmptySet
    <3>3. ASSUME NEW x \in T PROVE T \ {x} \in F
      <4>1. Cardinality(T \ {x}) = Cardinality(T) - 1
        BY <1>0, FS_RemoveElement
      <4>2. T \ {x} \in SUBSET S /\ Cardinality(T \ {x}) = n
        BY <2>1, <2>2, <4>1
      <4> QED
        BY <4>2
    <3> QED
      BY <3>2, <3>3
  <2> QED
    BY <2>1, <2>2
<1>3. N = Nat
  <2>1. N \in SUBSET Nat
    OBVIOUS
  <2> HIDE DEF N
  <2> QED
    BY <1>1, <1>2, <2>1, InductiveSet
<1>4. \A T \in SUBSET S : T \in F
  <2> TAKE T \in SUBSET S
  <2>1. Cardinality(T) \in N
    BY <1>0, <1>3
  <2> QED
    BY <2>1
<1> QED
  BY <1>4

-----------------------------------------------------------------------------
(* Sums over a finite set.                                                 *)

Sum(f, S)  == FoldFunctionOnSet(+, 0, f, S)
Pick(s)    == CHOOSE x \in s : TRUE
Rest(s)    == s \ {Pick(s)}

\* g adds up f over every subset of S, an element at a time.
Adds(g, f, S) ==
  g = [s \in SUBSET S |-> IF s = {} THEN 0 ELSE f[Pick(s)] + g[Rest(s)]]

\* A sum is what a function that adds up f gives for the whole set.
LEMMA SumIsAdds ==
  ASSUME NEW f, NEW S, \E g : Adds(g, f, S)
  PROVE  \E g : Adds(g, f, S) /\ Sum(f, S) = g[S]
<1> DEFINE iter == CHOOSE g : Adds(g, f, S)
<1>1. Adds(iter, f, S)
  OBVIOUS
<1>2. Sum(f, S) = iter[S]
  BY DEF Sum, Pick, Rest, Adds, FoldFunctionOnSet, MapThenFoldSet
<1> QED
  BY <1>1, <1>2

\* What is left of a nonempty finite set has one element less.
LEMMA PickType ==
  ASSUME NEW S, S # {}
  PROVE  Pick(S) \in S /\ Rest(S) = S \ {Pick(S)}
BY DEF Pick, Rest

\* Two functions that add up f, over S and over a part of it, agree on the part.
LEMMA AddsUnique ==
  ASSUME NEW f, NEW S, NEW T \in SUBSET S, IsFiniteSet(S), NEW g, NEW h,
         Adds(g, f, S), Adds(h, f, T)
  PROVE  \A s \in SUBSET T : g[s] = h[s]
<1> DEFINE F == {s \in SUBSET T : g[s] = h[s]}
<1>0. IsFiniteSet(T)
  BY FS_Subset
<1>1. {} \in F
  BY DEF Adds
<1>2. ASSUME NEW s \in SUBSET T, s # {}, \A x \in s : s \ {x} \in F
      PROVE  s \in F
  <2>1. Pick(s) \in s /\ g[Rest(s)] = h[Rest(s)]
    BY <1>2, PickType
  <2>2. g[s] = f[Pick(s)] + g[Rest(s)] /\ h[s] = f[Pick(s)] + h[Rest(s)]
    BY <1>2 DEF Adds
  <2> QED
    BY <2>1, <2>2
<1>3. F \in SUBSET (SUBSET T)
  OBVIOUS
<1>4. F = SUBSET T
  <2> HIDE DEF F
  <2> QED
    BY <1>0, <1>1, <1>2, <1>3, InductiveFamily
<1> QED
  BY <1>4

\* There is a function that adds up f over every subset of a finite set.
LEMMA AddsExists ==
  ASSUME NEW f, NEW S, IsFiniteSet(S)
  PROVE  \E g : Adds(g, f, S)
<1> DEFINE UpTo(n) == {s \in SUBSET S : Cardinality(s) <= n}
           AddsTo(n, g) == \A s \in UpTo(n) :
                             g[s] = IF s = {} THEN 0 ELSE f[Pick(s)] + g[Rest(s)]
           N == {n \in Nat : \E g : AddsTo(n, g)}
<1>0. \A s \in SUBSET S : IsFiniteSet(s) /\ Cardinality(s) \in Nat
  BY FS_Subset, FS_CardinalityType
<1>1. 0 \in N
  <2>1. \A s \in UpTo(0) : s = {}
    BY <1>0, FS_EmptySet
  <2>2. AddsTo(0, [s \in SUBSET S |-> 0])
    BY <2>1
  <2> QED
    BY <2>2
<1>2. ASSUME NEW n \in N PROVE n + 1 \in N
  <2>1. n \in Nat /\ n + 1 \in Nat
    OBVIOUS
  <2>2. PICK g : AddsTo(n, g)
    OBVIOUS
  <2> DEFINE h == [s \in SUBSET S |->
                    IF Cardinality(s) <= n THEN g[s] ELSE f[Pick(s)] + g[Rest(s)]]
  <2>3. ASSUME NEW s \in UpTo(n + 1)
        PROVE  h[s] = IF s = {} THEN 0 ELSE f[Pick(s)] + h[Rest(s)]
    <3>1. CASE s = {}
      <4>1. s \in UpTo(n) /\ Cardinality(s) <= n
        BY <2>1, <3>1, FS_EmptySet
      <4>2. g[s] = 0
        BY <2>2, <3>1, <4>1
      <4> QED
        BY <3>1, <4>1, <4>2
    <3>2. CASE s # {}
      <4>1. Pick(s) \in s
        BY <3>2 DEF Pick
      <4>2. /\ Rest(s) \in SUBSET S
            /\ Cardinality(Rest(s)) = Cardinality(s) - 1
            /\ Cardinality(s) \in Nat
        BY <1>0, <4>1, FS_RemoveElement DEF Rest
      <4>3. Cardinality(Rest(s)) <= n
        BY <2>1, <4>2
      <4>4. h[Rest(s)] = g[Rest(s)]
        BY <4>2, <4>3
      <4>5. h[s] = f[Pick(s)] + g[Rest(s)]
        BY <2>2, <3>2
      <4> QED
        BY <3>2, <4>4, <4>5
    <3> QED
      BY <3>1, <3>2
  <2>4. AddsTo(n + 1, h)
    BY <2>3
  <2> HIDE DEF AddsTo
  <2> QED
    BY <2>1, <2>4
<1>3. N = Nat
  <2>1. N \in SUBSET Nat
    OBVIOUS
  <2> HIDE DEF N
  <2> QED
    BY <1>1, <1>2, <2>1, InductiveSet
<1>4. PICK g : AddsTo(Cardinality(S), g)
  <2>1. Cardinality(S) \in N
    BY <1>0, <1>3
  <2> QED
    BY <2>1
<1>5. \A s \in SUBSET S : s \in UpTo(Cardinality(S))
  BY <1>0, FS_Subset
<1> DEFINE k == [s \in SUBSET S |-> g[s]]
<1>6. \A s \in SUBSET S : s # {} => Rest(s) \in SUBSET S
  BY DEF Rest
<1>7. \A s \in SUBSET S : k[s] = IF s = {} THEN 0 ELSE f[Pick(s)] + k[Rest(s)]
  BY <1>4, <1>5, <1>6
<1>8. Adds(k, f, S)
  <2> HIDE DEF k
  <2>1. k = [s \in SUBSET S |-> k[s]]
    BY DEF k
  <2> QED
    BY <1>7, <2>1 DEF Adds
<1> QED
  BY <1>8

\* The sum over no element is 0, over more the sum over all but one and that one.
LEMMA SumUnfolds ==
  ASSUME NEW f, NEW S, IsFiniteSet(S)
  PROVE  Sum(f, S) = IF S = {} THEN 0 ELSE f[Pick(S)] + Sum(f, Rest(S))
<1>1. PICK g : Adds(g, f, S) /\ Sum(f, S) = g[S]
  BY AddsExists, SumIsAdds
<1>2. g[S] = IF S = {} THEN 0 ELSE f[Pick(S)] + g[Rest(S)]
  BY <1>1 DEF Adds
<1>3. Rest(S) \in SUBSET S /\ IsFiniteSet(Rest(S))
  BY FS_RemoveElement DEF Rest
<1>4. PICK h : Adds(h, f, Rest(S)) /\ Sum(f, Rest(S)) = h[Rest(S)]
  BY <1>3, AddsExists, SumIsAdds
<1>5. g[Rest(S)] = h[Rest(S)]
  BY <1>1, <1>3, <1>4, AddsUnique
<1> QED
  BY <1>1, <1>2, <1>4, <1>5

\* A sum of elements of a set closed under + is in the set: V is Nat or Int.
LEMMA SumType ==
  ASSUME NEW V, 0 \in V, \A a, b \in V : a + b \in V,
         NEW f, NEW S, IsFiniteSet(S), \A x \in S : f[x] \in V
  PROVE  Sum(f, S) \in V
<1> DEFINE F == {T \in SUBSET S : Sum(f, T) \in V}
<1>1. {} \in F
  BY SumUnfolds, FS_EmptySet
<1>2. ASSUME NEW T \in SUBSET S, T # {}, \A x \in T : T \ {x} \in F
      PROVE  T \in F
  <2>1. Pick(T) \in T /\ Sum(f, Rest(T)) \in V
    BY <1>2, PickType
  <2>2. IsFiniteSet(T)
    BY FS_Subset
  <2>3. Sum(f, T) = f[Pick(T)] + Sum(f, Rest(T))
    BY <1>2, <2>2, SumUnfolds
  <2> QED
    BY <2>1, <2>3
<1>3. F \in SUBSET (SUBSET S)
  OBVIOUS
<1>4. F = SUBSET S
  <2> HIDE DEF F
  <2> QED
    BY <1>1, <1>2, <1>3, InductiveFamily
<1> QED
  BY <1>4

\* Any element may be taken first.
LEMMA SumExtracts ==
  ASSUME NEW f, NEW S, IsFiniteSet(S), \A x \in S : f[x] \in Int
  PROVE  \A x \in S : Sum(f, S) = f[x] + Sum(f, S \ {x})
<1> DEFINE Extracts(T) == \A x \in T : Sum(f, T) = f[x] + Sum(f, T \ {x})
           F == {T \in SUBSET S : Extracts(T)}
<1>1. {} \in F
  OBVIOUS
<1>2. ASSUME NEW T \in SUBSET S, T # {}, \A x \in T : T \ {x} \in F
      PROVE  T \in F
  <2>0. IsFiniteSet(T)
    BY FS_Subset
  <2>1. ASSUME NEW x \in T
        PROVE  Sum(f, T) = f[x] + Sum(f, T \ {x})
    <3> DEFINE y == Pick(T)
    <3>1. y \in T
      BY PickType
    <3>2. Sum(f, T) = f[y] + Sum(f, T \ {y})
      BY <2>0, SumUnfolds DEF Rest
    <3>3. CASE y = x
      BY <3>2, <3>3
    <3>4. CASE y # x
      <4> HIDE DEF y
      <4> DEFINE U == (T \ {y}) \ {x}
      <4>1. U = (T \ {x}) \ {y} /\ U \in SUBSET S /\ \A z \in U : f[z] \in Int
        OBVIOUS
      <4>2. Sum(f, U) \in Int
        BY <4>1, FS_Subset, SumType
      <4>3. Extracts(T \ {y}) /\ Extracts(T \ {x})
        BY <1>2, <3>1
      <4>4. Sum(f, T \ {y}) = f[x] + Sum(f, U)
        BY <3>4, <4>3
      <4>5. Sum(f, T \ {x}) = f[y] + Sum(f, U)
        <5>1. y \in T \ {x}
          BY <3>1, <3>4
        <5>2. Sum(f, T \ {x}) = f[y] + Sum(f, (T \ {x}) \ {y})
          BY <4>3, <5>1
        <5> QED
          BY <4>1, <5>2
      <4>6. f[x] \in Int /\ f[y] \in Int
        BY <3>1
      <4> HIDE DEF U
      <4> QED
        BY <3>2, <4>2, <4>4, <4>5, <4>6
    <3> QED
      BY <3>3, <3>4
  <2> QED
    BY <2>1
<1>3. F \in SUBSET (SUBSET S)
  OBVIOUS
<1>4. F = SUBSET S
  <2> HIDE DEF F
  <2> QED
    BY <1>1, <1>2, <1>3, InductiveFamily
<1> QED
  BY <1>4

\* Functions that agree on a set have the same sum over it.
LEMMA SumAgrees ==
  ASSUME NEW f, NEW g, NEW S, IsFiniteSet(S), \A x \in S : f[x] = g[x]
  PROVE  Sum(f, S) = Sum(g, S)
<1> DEFINE F == {T \in SUBSET S : Sum(f, T) = Sum(g, T)}
<1>1. {} \in F
  BY SumUnfolds, FS_EmptySet
<1>2. ASSUME NEW T \in SUBSET S, T # {}, \A x \in T : T \ {x} \in F
      PROVE  T \in F
  <2>1. Pick(T) \in T /\ Sum(f, Rest(T)) = Sum(g, Rest(T))
    BY <1>2, PickType
  <2>2. IsFiniteSet(T)
    BY FS_Subset
  <2>3. /\ Sum(f, T) = f[Pick(T)] + Sum(f, Rest(T))
        /\ Sum(g, T) = g[Pick(T)] + Sum(g, Rest(T))
    BY <1>2, <2>2, SumUnfolds
  <2> QED
    BY <2>1, <2>3
<1>3. F \in SUBSET (SUBSET S)
  OBVIOUS
<1>4. F = SUBSET S
  <2> HIDE DEF F
  <2> QED
    BY <1>1, <1>2, <1>3, InductiveFamily
<1> QED
  BY <1>4

-----------------------------------------------------------------------------
(* Sorting a finite set.                                                   *)

\* R orders S strictly and totally.
Orders(R, S) ==
  /\ \A a \in S : <<a, a>> \notin R
  /\ \A a, b \in S : a # b => <<a, b>> \in R \/ <<b, a>> \in R
  /\ \A a, b, c \in S : <<a, b>> \in R /\ <<b, c>> \in R => <<a, c>> \in R

\* A sequence with each element of S once, in the order R.
Sorted(s, S, R) ==
  /\ s \in SetToSeqs(S)
  /\ \A i, j \in DOMAIN s : i < j => <<s[i], s[j]>> \in R

\* A finite set with an element has one that comes last.
LEMMA LastExists ==
  ASSUME NEW R, NEW S, IsFiniteSet(S), Orders(R, S), S # {}
  PROVE  \E m \in S : \A x \in S \ {m} : <<x, m>> \in R
<1> DEFINE HasLast(T) == \E m \in T : \A x \in T \ {m} : <<x, m>> \in R
           F == {T \in SUBSET S : T = {} \/ HasLast(T)}
<1>1. {} \in F
  OBVIOUS
<1>2. ASSUME NEW T \in SUBSET S, T # {}, \A x \in T : T \ {x} \in F
      PROVE  T \in F
  <2>1. PICK x \in T : TRUE
    BY <1>2
  <2>2. CASE T \ {x} = {}
    BY <2>1, <2>2
  <2>3. CASE HasLast(T \ {x})
    <3>1. PICK m \in T \ {x} : \A y \in (T \ {x}) \ {m} : <<y, m>> \in R
      BY <2>3
    <3>2. CASE <<x, m>> \in R
      <4>1. \A y \in T \ {m} : <<y, m>> \in R
        BY <3>1, <3>2
      <4> QED
        BY <3>1, <4>1
    <3>3. CASE <<m, x>> \in R
      <4>1. \A y \in T \ {x} : <<y, x>> \in R
        BY <2>1, <3>1, <3>3 DEF Orders
      <4> QED
        BY <2>1, <4>1
    <3> QED
      BY <2>1, <3>1, <3>2, <3>3 DEF Orders
  <2> QED
    BY <1>2, <2>1, <2>2, <2>3
<1>3. F \in SUBSET (SUBSET S)
  OBVIOUS
<1>4. F = SUBSET S
  <2> HIDE DEF F
  <2> QED
    BY <1>1, <1>2, <1>3, InductiveFamily
<1> QED
  BY <1>4

\* A finite set that is ordered can be sorted.
LEMMA SortedExists ==
  ASSUME NEW R, NEW S, IsFiniteSet(S), Orders(R, S)
  PROVE  \E s : Sorted(s, S, R)
<1> DEFINE F == {T \in SUBSET S : \E s : Sorted(s, T, R)}
<1>1. {} \in F
  <2>1. Sorted([i \in 1 .. 0 |-> i], {}, R)
    BY FS_EmptySet DEF Sorted, SetToSeqs
  <2> QED
    BY <2>1
<1>2. ASSUME NEW T \in SUBSET S, T # {}, \A x \in T : T \ {x} \in F
      PROVE  T \in F
  <2>1. IsFiniteSet(T) /\ Orders(R, T)
    BY FS_Subset DEF Orders
  <2>2. PICK m \in T : \A x \in T \ {m} : <<x, m>> \in R
    BY <1>2, <2>1, LastExists
  <2>3. PICK s : Sorted(s, T \ {m}, R)
    BY <1>2
  <2> DEFINE n == Cardinality(T)
             t == [i \in 1 .. n |-> IF i = n THEN m ELSE s[i]]
  <2>4. n \in Nat /\ n # 0 /\ Cardinality(T \ {m}) = n - 1
    BY <1>2, <2>1, <2>2, FS_RemoveElement, FS_CardinalityType, FS_EmptySet
  <2>5. /\ s \in [1 .. n - 1 -> T \ {m}]
        /\ \A i, j \in 1 .. n - 1 : i # j => s[i] # s[j]
        /\ \A i, j \in 1 .. n - 1 : i < j => <<s[i], s[j]>> \in R
    BY <2>3, <2>4 DEF Sorted, SetToSeqs
  <2>6. t \in SetToSeqs(T)
    <3> HIDE DEF n
    <3>1. t \in [1 .. n -> T]
      BY <2>2, <2>4, <2>5
    <3>2. \A i, j \in 1 .. n : i # j => t[i] # t[j]
      BY <2>4, <2>5
    <3> HIDE DEF t
    <3> QED
      BY <3>1, <3>2 DEF n, SetToSeqs
  <2>7. \A i, j \in DOMAIN t : i < j => <<t[i], t[j]>> \in R
    <3> HIDE DEF n
    <3> QED
      BY <2>2, <2>4, <2>5
  <2>8. Sorted(t, T, R)
    BY <2>6, <2>7 DEF Sorted
  <2> QED
    BY <2>8
<1>3. F \in SUBSET (SUBSET S)
  OBVIOUS
<1>4. F = SUBSET S
  <2> HIDE DEF F
  <2> QED
    BY <1>1, <1>2, <1>3, InductiveFamily
<1> QED
  BY <1>4

\* A sequence of a set lists each of its elements.
LEMMA SeqOfSet ==
  ASSUME NEW S, IsFiniteSet(S), NEW s \in SetToSeqs(S)
  PROVE  /\ s \in Seq(S) /\ Len(s) = Cardinality(S)
         /\ IsInjective(s) /\ ToSet(s) = S
<1> DEFINE D == 1 .. Cardinality(S)
<1>1. /\ Cardinality(S) \in Nat /\ s \in [D -> S]
      /\ \A i, j \in D : i # j => s[i] # s[j]
  BY FS_CardinalityType DEF SetToSeqs
<1>2. s \in Seq(S) /\ Len(s) = Cardinality(S) /\ DOMAIN s = D
  BY <1>1
<1>3. s \in Injection(D, S)
  BY <1>1 DEF Injection, IsInjective
<1>4. Cardinality(D) = Cardinality(S) /\ IsFiniteSet(D)
  BY <1>1, FS_Interval
<1>5. s \in Surjection(D, S)
  BY <1>3, <1>4, FS_Injection
<1>6. ToSet(s) = S
  BY <1>1, <1>2, <1>5 DEF Surjection, ToSet
<1>7. IsInjective(s)
  BY <1>1, <1>2 DEF IsInjective
<1> QED
  BY <1>2, <1>6, <1>7

-----------------------------------------------------------------------------
(* What a report does to an entry.                                         *)

\* The fields of an entry that the quarantine and the accounts are made of.
EntryFields(e) == <<e.total, e.success, e.failures, e.timeouts, e.until, e.probing>>

\* Clearing the timeouts leaves the accounts alone.
LEMMA ClearTimeoutsType ==
  ASSUME NEW e \in Entry
  PROVE  /\ ClearTimeouts(e) \in Entry
         /\ EntryFields(ClearTimeouts(e)) = <<e.total, e.success, e.failures, 0, Never, FALSE>>
<1> DEFINE c == ClearTimeouts(e)
<1>1. c \in Entry
  BY DEF ClearTimeouts, Entry
<1>2. EntryFields(c) = <<e.total, e.success, e.failures, 0, Never, FALSE>>
  BY DEF ClearTimeouts, Entry, EntryFields
<1> QED
  BY <1>1, <1>2

\* Every report counts once.
LEMMA CountReportType ==
  ASSUME NEW e \in Entry
  PROVE  /\ CountReport(e) \in Entry
         /\ EntryFields(CountReport(e))
              = <<e.total + 1, e.success, e.failures, e.timeouts, e.until, e.probing>>
<1> DEFINE c == [e EXCEPT !.known = TRUE]
<1>1. CountReport(e) \in Entry
  <2>1. c \in Entry
    BY DEF Entry
  <2>2. e.total + 1 \in Nat
    BY DEF Entry
  <2>3. CountReport(e) = [c EXCEPT !.total = e.total + 1]
    BY DEF CountReport, Entry
  <2> HIDE DEF c
  <2>4. [c EXCEPT !.total = e.total + 1] \in Entry
    BY <2>1, <2>2 DEF Entry
  <2> QED
    BY <2>3, <2>4
<1>2. EntryFields(CountReport(e))
        = <<e.total + 1, e.success, e.failures, e.timeouts, e.until, e.probing>>
  BY DEF CountReport, Entry, EntryFields
<1> QED
  BY <1>1, <1>2

\* The ring stays a sequence of latencies.
LEMMA PushType ==
  ASSUME NEW ring \in Seq(Latencies), NEW ms \in Latencies
  PROVE  Push(ring, ms) \in Seq(Latencies)
<1>1. CASE Len(ring) < RingSize
  BY <1>1 DEF Push
<1>2. CASE ~ (Len(ring) < RingSize)
  <2>1. ring # <<>>
    BY <1>2, ModelStatsAssumption
  <2>2. Tail(ring) \in Seq(Latencies)
    BY <2>1
  <2> QED
    BY <1>2, <2>2 DEF Push
<1> QED
  BY <1>1, <1>2

\* A success ends the failures and the quarantine.
LEMMA RecordSuccessType ==
  ASSUME NEW e \in Entry, NEW ms \in Latencies
  PROVE  /\ RecordSuccess(e, ms) \in Entry
         /\ EntryFields(RecordSuccess(e, ms)) = <<e.total, e.success + 1, 0, 0, Never, FALSE>>
<1> DEFINE c == [e EXCEPT !.success = e.success + 1]
           d == [c EXCEPT !.failures = 0]
           g == [d EXCEPT !.ring = Push(e.ring, ms)]
<1>1. e.success + 1 \in Nat /\ e.ring \in Seq(Latencies)
  BY DEF Entry
<1>2. c \in Entry /\ c.total = e.total /\ c.success = e.success + 1 /\ c.ring = e.ring
  BY <1>1 DEF Entry
<1>3. RecordSuccess(e, ms) = ClearTimeouts(g)
  BY DEF RecordSuccess, Entry
<1> HIDE DEF c
<1>4. /\ d \in Entry /\ d.total = e.total /\ d.success = e.success + 1 /\ d.failures = 0
  BY <1>2 DEF Entry
<1> HIDE DEF d
<1>5. /\ g \in Entry /\ g.total = e.total /\ g.success = e.success + 1 /\ g.failures = 0
  BY <1>1, <1>4, PushType DEF Entry
<1> HIDE DEF g
<1> QED
  BY <1>3, <1>5, ClearTimeoutsType

\* A failure that is no timeout ends the quarantine too.
LEMMA RecordFailureType ==
  ASSUME NEW e \in Entry
  PROVE  /\ RecordFailure(e) \in Entry
         /\ EntryFields(RecordFailure(e))
              = <<e.total, e.success, e.failures + 1, 0, Never, FALSE>>
<1> DEFINE c == [e EXCEPT !.failures = e.failures + 1]
<1>1. e.failures + 1 \in Nat
  BY DEF Entry
<1>2. c \in Entry /\ c.total = e.total /\ c.success = e.success /\ c.failures = e.failures + 1
  BY <1>1 DEF Entry
<1>3. RecordFailure(e) = ClearTimeouts(c)
  BY DEF RecordFailure, Entry
<1> HIDE DEF c
<1> QED
  BY <1>2, <1>3, ClearTimeoutsType

\* A timeout sets the deadline once there are enough of them.
LEMMA RecordTimeoutType ==
  ASSUME NEW e \in Entry, now \in Nat
  PROVE  /\ RecordTimeout(e) \in Entry
         /\ EntryFields(RecordTimeout(e))
              = <<e.total, e.success, e.failures + 1, e.timeouts + 1,
                  IF e.timeouts + 1 >= TimeoutLimit THEN now + Quarantine ELSE e.until, FALSE>>
<1> DEFINE until == IF e.timeouts + 1 >= TimeoutLimit THEN now + Quarantine ELSE e.until
           c == [e EXCEPT !.failures = e.failures + 1]
           d == [c EXCEPT !.timeouts = e.timeouts + 1]
           g == [d EXCEPT !.probing = FALSE]
           h == [g EXCEPT !.until = until]
<1>1. /\ e.failures + 1 \in Nat /\ e.timeouts + 1 \in Nat /\ until \in Nat \cup {Never}
  BY ModelStatsAssumption DEF Entry
<1>2. RecordTimeout(e) = h
  BY DEF RecordTimeout, Entry
<1> HIDE DEF until
<1>3. /\ c \in Entry /\ c.total = e.total /\ c.success = e.success
      /\ c.failures = e.failures + 1
  BY <1>1 DEF Entry
<1> HIDE DEF c
<1>4. /\ d \in Entry /\ d.total = e.total /\ d.success = e.success
      /\ d.failures = e.failures + 1 /\ d.timeouts = e.timeouts + 1
  BY <1>1, <1>3 DEF Entry
<1> HIDE DEF d
<1>5. /\ g \in Entry /\ g.total = e.total /\ g.success = e.success
      /\ g.failures = e.failures + 1 /\ g.timeouts = e.timeouts + 1 /\ g.probing = FALSE
  BY <1>4 DEF Entry
<1> HIDE DEF g
<1>6. /\ h \in Entry /\ h.total = e.total /\ h.success = e.success /\ h.until = until
      /\ h.failures = e.failures + 1 /\ h.timeouts = e.timeouts + 1 /\ h.probing = FALSE
  BY <1>1, <1>5 DEF Entry
<1> HIDE DEF h
<1>7. EntryFields(h) = <<e.total, e.success, e.failures + 1, e.timeouts + 1, until, FALSE>>
  BY <1>6 DEF EntryFields
<1> QED
  BY <1>2, <1>6, <1>7 DEF until

\* The circuit breaker does not touch the quarantine or the accounts.
LEMMA NoteAnswerType ==
  ASSUME NEW e \in Entry, NEW looping \in BOOLEAN, NEW tool \in BOOLEAN
  PROVE  /\ NoteAnswer(e, looping, tool) \in Entry
         /\ EntryFields(NoteAnswer(e, looping, tool)) = EntryFields(e)
<1> DEFINE c == [e EXCEPT !.looping = looping]
           turns == IF tool THEN 0 ELSE Least(e.turns + 1, TurnLimit)
           d == [c EXCEPT !.turns = turns]
<1>1. turns \in Nat
  BY ModelStatsAssumption DEF Entry, Least
<1>2. NoteAnswer(e, looping, tool) = d
  BY DEF NoteAnswer, Entry
<1>3. c \in Entry /\ EntryFields(c) = EntryFields(e)
  BY DEF Entry, EntryFields
<1> HIDE DEF c, turns
<1>4. d \in Entry /\ EntryFields(d) = EntryFields(c)
  BY <1>1, <1>3 DEF Entry, EntryFields
<1> QED
  BY <1>2, <1>3, <1>4

\* A hard error adds failures only.
LEMMA MarkServerDegradedType ==
  ASSUME NEW e \in Entry
  PROVE  /\ MarkServerDegraded(e) \in Entry
         /\ EntryFields(MarkServerDegraded(e))
              = <<e.total, e.success, e.failures + HardErrorFailures,
                  e.timeouts, e.until, e.probing>>
<1> DEFINE c == [e EXCEPT !.known = TRUE]
           d == [c EXCEPT !.server_degraded = TRUE]
           g == [d EXCEPT !.failures = e.failures + HardErrorFailures]
<1>1. e.failures + HardErrorFailures \in Nat
  BY ModelStatsAssumption DEF Entry
<1>2. MarkServerDegraded(e) = g
  BY DEF MarkServerDegraded, Entry
<1>3. c \in Entry /\ EntryFields(c) = EntryFields(e)
  BY DEF Entry, EntryFields
<1> HIDE DEF c
<1>4. d \in Entry /\ EntryFields(d) = EntryFields(c)
  BY <1>3 DEF Entry, EntryFields
<1> HIDE DEF d
<1>5. g \in Entry /\ EntryFields(g) = <<d.total, d.success, e.failures + HardErrorFailures,
                  d.timeouts, d.until, d.probing>>
  BY <1>1, <1>4 DEF Entry, EntryFields
<1> HIDE DEF g
<1> QED
  BY <1>2, <1>3, <1>4, <1>5 DEF EntryFields

\* Launching a probe marks it in flight.
LEMMA MarkProbeLaunchedType ==
  ASSUME NEW e \in Entry
  PROVE  /\ MarkProbeLaunched(e) \in Entry
         /\ EntryFields(MarkProbeLaunched(e))
              = <<e.total, e.success, e.failures, e.timeouts, e.until, ProbeReady(e) \/ e.probing>>
<1>1. e.probing \in BOOLEAN
  BY DEF Entry
<1>2. CASE ProbeReady(e)
  <2> DEFINE g == [e EXCEPT !.probing = TRUE]
  <2>1. MarkProbeLaunched(e) = g
    BY <1>2 DEF MarkProbeLaunched
  <2>2. /\ g \in Entry
        /\ EntryFields(g) = <<e.total, e.success, e.failures, e.timeouts, e.until, TRUE>>
    BY DEF Entry, EntryFields
  <2> QED
    BY <1>2, <2>1, <2>2
<1>3. CASE ~ProbeReady(e)
  BY <1>1, <1>3 DEF MarkProbeLaunched, EntryFields
<1> QED
  BY <1>2, <1>3

-----------------------------------------------------------------------------
(* The order of the models.                                                *)

\* A sum of natural numbers is one.
LEMMA SumNat ==
  ASSUME NEW f, NEW S, IsFiniteSet(S), \A x \in S : f[x] \in Nat
  PROVE  Sum(f, S) \in Nat
<1>1. 0 \in Nat /\ \A a, b \in Nat : a + b \in Nat
  OBVIOUS
<1> DEFINE V == Nat
<1>2. 0 \in V /\ (\A a, b \in V : a + b \in V) /\ \A x \in S : f[x] \in V
  BY <1>1
<1> HIDE DEF V
<1>3. Sum(f, S) \in V
  BY <1>2, SumType, Zenon
<1> QED
  BY <1>3 DEF V

\* The latencies of a ring add up to a natural number.
LEMMA SumOfType ==
  ASSUME NEW ring \in Seq(Latencies)
  PROVE  SumOf(ring) \in Nat
<1>1. DOMAIN ring = 1 .. Len(ring) /\ Len(ring) \in Nat
  OBVIOUS
<1>2. IsFiniteSet(DOMAIN ring)
  BY <1>1, FS_Interval
<1>3. \A i \in DOMAIN ring : ring[i] \in Nat
  <2>1. Latencies \subseteq Nat
    BY ModelStatsAssumption
  <2>2. \A i \in DOMAIN ring : ring[i] \in Latencies
    BY <1>1
  <2> QED
    BY <2>1, <2>2
<1>4. SumOf(ring) = Sum(ring, DOMAIN ring)
  BY DEF SumOf, FoldFunction, Sum
<1>5. Sum(ring, DOMAIN ring) \in Nat
  BY <1>2, <1>3, SumNat
<1> QED
  BY <1>4, <1>5

\* Of two averages one is the lower or they are equal, and "not lower" is
\* transitive, although it is products that are compared.
LEMMA FasterIsWeakOrder ==
  ASSUME NEW e \in Entry, NEW f \in Entry, NEW g \in Entry
  PROVE  /\ ~(Faster(e, f) /\ Faster(f, e))
         /\ ~Faster(e, f) /\ ~Faster(f, g) => ~Faster(e, g)
<1> DEFINE a == SumOf(e.ring)
           b == SumOf(f.ring)
           c == SumOf(g.ring)
           l == Len(e.ring)
           m == Len(f.ring)
           n == Len(g.ring)
           Lower(s, i, t, j) == i > 0 /\ (j = 0 \/ s * j < t * i)
<1>1. /\ e.ring \in Seq(Latencies) /\ f.ring \in Seq(Latencies) /\ g.ring \in Seq(Latencies)
  BY DEF Entry
<1>2. /\ a \in Nat /\ b \in Nat /\ c \in Nat
  BY <1>1, SumOfType
<1>3. /\ l \in Nat /\ (l > 0 <=> e.ring # <<>>)
      /\ m \in Nat /\ (m > 0 <=> f.ring # <<>>)
      /\ n \in Nat /\ (n > 0 <=> g.ring # <<>>)
  BY <1>1
<1>4. /\ Faster(e, f) <=> Lower(a, l, b, m)
      /\ Faster(f, e) <=> Lower(b, m, a, l)
      /\ Faster(f, g) <=> Lower(b, m, c, n)
      /\ Faster(e, g) <=> Lower(a, l, c, n)
  <2>1. /\ (m = 0 <=> f.ring = <<>>) /\ (l = 0 <=> e.ring = <<>>) /\ (n = 0 <=> g.ring = <<>>)
    BY <1>3
  <2> QED
    BY <1>3, <2>1 DEF Faster
<1> HIDE DEF a, b, c, l, m, n
<1>5. ~(Lower(a, l, b, m) /\ Lower(b, m, a, l))
  BY <1>2, <1>3
<1>6. ASSUME ~Lower(a, l, b, m), ~Lower(b, m, c, n), Lower(a, l, c, n) PROVE FALSE
  <2>1. l > 0 /\ m > 0 /\ n > 0
    BY <1>2, <1>3, <1>6
  <2>2. a * m >= b * l /\ b * n >= c * m /\ a * n < c * l
    BY <1>2, <1>3, <1>6, <2>1
  <2>3. (a * m) * n >= (b * l) * n /\ (b * n) * l >= (c * m) * l
    BY <1>2, <1>3, <2>1, <2>2, SMT
  <2>4. (a * n) * m < (c * l) * m
    BY <1>2, <1>3, <2>1, <2>2, SMT
  <2>5. /\ (a * m) * n = (a * n) * m /\ (b * l) * n = (b * n) * l /\ (c * m) * l = (c * l) * m
    BY <1>2, <1>3, SMT
  <2>6. /\ (a * m) * n \in Int /\ (b * n) * l \in Int /\ (c * l) * m \in Int
    BY <1>2, <1>3, SMT
  <2> QED
    BY <2>3, <2>4, <2>5, <2>6
<1> QED
  BY <1>4, <1>5, <1>6

\* The candidates in the order of a list.
BeforePairs(cands) == {p \in ModelSet \X ModelSet : Before(p[1], p[2], cands)}

\* A candidate has a position.
LEMMA PositionType ==
  ASSUME NEW cands \in Seq(ModelSet), NEW m \in ToSet(cands)
  PROVE  Position(m, cands) \in Nat /\ cands[Position(m, cands)] = m
BY DEF Position, ToSet

\* Latency, and then the order of the candidates, is a strict total order.
LEMMA BeforeOrders ==
  ASSUME NEW cands \in Seq(ModelSet), entry \in [ModelSet -> Entry]
  PROVE  Orders(BeforePairs(cands), ToSet(cands))
<1> DEFINE S == ToSet(cands)
           B(m, n) == <<m, n>> \in BeforePairs(cands)
           F(m, n) == Faster(entry[m], entry[n])
           P(m) == Position(m, cands)
<1>1. S \subseteq ModelSet
  BY DEF ToSet
<1>2. \A m \in S : P(m) \in Nat /\ \A n \in S : P(m) = P(n) => m = n
  BY PositionType
<1>3. \A m, n \in S : B(m, n) <=> F(m, n) \/ (~F(n, m) /\ P(m) < P(n))
  BY <1>1 DEF BeforePairs, Before
<1>4. \A m, n \in S : ~(F(m, n) /\ F(n, m))
  BY <1>1, FasterIsWeakOrder
<1>5. \A m, n, o \in S : ~F(m, n) /\ ~F(n, o) => ~F(m, o)
  BY <1>1, FasterIsWeakOrder
<1> HIDE DEF S, B, F, P
<1>6. \A m \in S : ~B(m, m)
  BY <1>2, <1>3, <1>4
<1>7. \A m, n \in S : m # n => B(m, n) \/ B(n, m)
  BY <1>2, <1>3, <1>4
<1>8. ASSUME NEW m \in S, NEW n \in S, NEW o \in S, B(m, n), B(n, o) PROVE B(m, o)
  <2>1. ~F(n, m) /\ ~F(o, n) /\ ~F(o, m)
    BY <1>3, <1>4, <1>5, <1>8
  <2>2. CASE F(m, o)
    BY <1>3, <2>2
  <2>3. CASE ~F(m, o)
    <3>1. ~F(m, n) /\ ~F(n, o)
      BY <1>4, <1>5, <2>1, <2>3
    <3>2. P(m) < P(n) /\ P(n) < P(o)
      BY <1>3, <1>8, <3>1
    <3> QED
      BY <1>2, <1>3, <2>1, <3>2
  <2> QED
    BY <2>2, <2>3
<1> QED
  BY <1>6, <1>7, <1>8 DEF Orders, S, B

\* The candidates are finitely many models.
LEMMA ToSetFinite ==
  ASSUME NEW cands \in Seq(ModelSet)
  PROVE  IsFiniteSet(ToSet(cands)) /\ ToSet(cands) \subseteq ModelSet
<1>1. IsFiniteSet(DOMAIN cands)
  BY FS_Interval
<1>2. cands \in Surjection(DOMAIN cands, ToSet(cands))
  BY DEF Surjection, ToSet
<1>3. IsFiniteSet(ToSet(cands))
  BY <1>1, <1>2, FS_Surjection
<1> QED
  BY <1>3 DEF ToSet

\* Ranking a set of candidates lists each of them once.
LEMMA RankedType ==
  ASSUME NEW cands \in Seq(ModelSet), entry \in [ModelSet -> Entry],
         NEW S \in SUBSET ToSet(cands)
  PROVE  /\ Ranked(S, cands) \in Seq(S) /\ Len(Ranked(S, cands)) = Cardinality(S)
         /\ IsInjective(Ranked(S, cands)) /\ ToSet(Ranked(S, cands)) = S
<1>1. IsFiniteSet(S) /\ S \subseteq ModelSet
  BY ToSetFinite, FS_Subset
<1>2. Orders(BeforePairs(cands), S)
  BY BeforeOrders DEF Orders
<1>3. PICK s : Sorted(s, S, BeforePairs(cands))
  BY <1>1, <1>2, SortedExists
<1>4. /\ s \in SetToSeqs(S)
      /\ \A i, j \in DOMAIN s : i < j => Before(s[i], s[j], cands)
  BY <1>3 DEF Sorted, BeforePairs
<1>5. Ranked(S, cands) \in SetToSeqs(S)
  BY <1>4 DEF Ranked
<1> QED
  BY <1>1, <1>5, SeqOfSet

-----------------------------------------------------------------------------
(* The lists that models are picked from.                                  *)

\* There are finitely many models.
LEMMA ModelSetFinite == IsFiniteSet(ModelSet)
<1>1. DOMAIN Models = 1 .. Len(Models) /\ Len(Models) \in Nat
  BY ModelStatsAssumption
<1>2. IsFiniteSet(DOMAIN Models)
  BY <1>1, FS_Interval
<1>3. Models \in Surjection(DOMAIN Models, ModelSet)
  BY ModelStatsAssumption DEF Surjection, ModelSet
<1> QED
  BY <1>2, <1>3, FS_Surjection

\* What is retained of a list is a list of its members.
LEMMA RetainedType ==
  ASSUME NEW S, NEW s \in Seq(S), NEW T
  PROVE  Retained(s, T) \in Seq(S)
<1> DEFINE D == {i \in DOMAIN s : s[i] \in T}
           L == {p \in Nat \X Nat : p[1] < p[2]}
           InOrder(q) == \A i, j \in DOMAIN q : i < j => q[i] < q[j]
           at == CHOOSE q \in SetToSeqs(D) : InOrder(q)
<1>1. DOMAIN s = 1 .. Len(s) /\ Len(s) \in Nat
  OBVIOUS
<1>2. D \subseteq Nat /\ IsFiniteSet(D)
  <2>1. IsFiniteSet(1 .. Len(s)) /\ D \subseteq 1 .. Len(s)
    BY <1>1, FS_Interval
  <2> QED
    BY <2>1, FS_Subset
<1>3. \A i \in D : s[i] \in S
  BY <1>1
<1>4. Retained(s, T) = [i \in DOMAIN at |-> s[at[i]]]
  BY DEF Retained
<1> HIDE DEF D
<1>5. Orders(L, D)
  BY <1>2 DEF Orders
<1>6. PICK q : Sorted(q, D, L)
  BY <1>2, <1>5, SortedExists
<1>7. q \in SetToSeqs(D) /\ InOrder(q)
  BY <1>6 DEF Sorted
<1>8. at \in SetToSeqs(D)
  BY <1>7
<1> HIDE DEF at
<1>9. at \in Seq(D)
  BY <1>2, <1>8, SeqOfSet
<1>10. DOMAIN at = 1 .. Len(at) /\ Len(at) \in Nat /\ \A i \in DOMAIN at : at[i] \in D
  BY <1>9
<1>11. [i \in DOMAIN at |-> s[at[i]]] \in [1 .. Len(at) -> S]
  BY <1>3, <1>10
<1> QED
  BY <1>4, <1>10, <1>11

\* Every configured model that is routed to is a model.
LEMMA ConfiguredType == Configured \in Seq(ModelSet)
<1>1. Models \in Seq(ModelSet)
  BY ModelStatsAssumption
<1> QED
  BY <1>1, RetainedType DEF Configured, PruneMissing

\* A rotation of a list is a list of its models.
LEMMA RotatedType ==
  ASSUME NEW s \in Seq(ModelSet), NEW c \in Nat
  PROVE  Rotated(s, c) \in Seq(ModelSet)
<1>1. Len(s) \in Nat /\ DOMAIN s = 1 .. Len(s)
  OBVIOUS
<1>2. \A i \in 1 .. Len(s) : ((c + i - 1) % Len(s)) + 1 \in 1 .. Len(s)
  BY <1>1
<1>3. \A i \in 1 .. Len(s) : s[((c + i - 1) % Len(s)) + 1] \in ModelSet
  BY <1>2
<1>4. Rotated(s, c) \in [1 .. Len(s) -> ModelSet]
  BY <1>1, <1>3 DEF Rotated
<1> QED
  BY <1>1, <1>4

\* The reports of all models are a natural number.
LEMMA ReportsType ==
  ASSUME entry \in [ModelSet -> Entry]
  PROVE  Reports \in Nat
<1> DEFINE f == [m \in ModelSet |-> entry[m].total]
<1>1. \A m \in ModelSet : f[m] \in Nat
  BY DEF Entry
<1>2. DOMAIN f = ModelSet
  OBVIOUS
<1>3. Reports = FoldFunction(+, 0, f)
  BY DEF Reports
<1> HIDE DEF f
<1>4. Reports = Sum(f, ModelSet)
  BY <1>2, <1>3 DEF FoldFunction, Sum
<1> QED
  BY <1>1, <1>4, ModelSetFinite, SumNat

\* A ranking is a list of models.
LEMMA RankedSeq ==
  ASSUME NEW cands \in Seq(ModelSet), entry \in [ModelSet -> Entry],
         NEW S \in SUBSET ToSet(cands)
  PROVE  Ranked(S, cands) \in Seq(ModelSet)
<1>1. S \subseteq ModelSet
  BY ToSetFinite
<1>2. Ranked(S, cands) \in Seq(S)
  BY RankedType
<1> QED
  BY <1>1, <1>2

\* A direct request is given a model, or none at all.
LEMMA BestModelType ==
  ASSUME NEW cands \in Seq(ModelSet), entry \in [ModelSet -> Entry]
  PROVE  BestModel(cands) \in ModelSet \cup {NoModel}
<1> DEFINE In(b)   == {m \in ToSet(cands) : DirectBucket(m) = b}
           untried == Retained(cands, In("untried"))
           ranked  == Ranked(In("healthy"), cands) \o Ranked(In("slow"), cands)
                        \o Ranked(In("failing"), cands)
<1>1. untried \in Seq(ModelSet)
  BY RetainedType
<1>2. \A b \in {"healthy", "slow", "failing"} : In(b) \in SUBSET ToSet(cands)
  OBVIOUS
<1>3. BestModel(cands) = CASE untried # <<>> -> untried[(Reports % Len(untried)) + 1]
                           [] untried = <<>> /\ ranked # <<>> -> ranked[1]
                           [] OTHER -> NoModel
  BY DEF BestModel
<1> HIDE DEF untried, In
<1>4. /\ Ranked(In("healthy"), cands) \in Seq(ModelSet)
      /\ Ranked(In("slow"), cands) \in Seq(ModelSet)
      /\ Ranked(In("failing"), cands) \in Seq(ModelSet)
  BY <1>2, RankedSeq
<1>5. ranked \in Seq(ModelSet)
  BY <1>4
<1> HIDE DEF ranked
<1>6. CASE untried # <<>>
  <2>1. Len(untried) \in Nat \ {0} /\ Reports \in Nat
    BY <1>1, <1>6, ReportsType
  <2>2. (Reports % Len(untried)) + 1 \in 1 .. Len(untried)
    BY <2>1
  <2>3. untried[(Reports % Len(untried)) + 1] \in ModelSet
    BY <1>1, <2>2
  <2> QED
    BY <1>3, <1>6, <2>3
<1>7. CASE untried = <<>> /\ ranked # <<>>
  <2>1. ranked[1] \in ModelSet
    BY <1>5, <1>7
  <2> QED
    BY <1>3, <1>7, <2>1
<1>8. CASE untried = <<>> /\ ranked = <<>>
  BY <1>3, <1>8
<1> QED
  BY <1>6, <1>7, <1>8

\* The selection lists what its arguments list.
LEMMA SelectWithProbeType ==
  ASSUME NEW S, NEW healthy \in Seq(S), NEW slow \in Seq(S), NEW failing \in Seq(S),
         NEW probes \in Seq(S), NEW max \in Nat
  PROVE  SelectWithProbe(healthy, slow, failing, probes, max) \in Seq(S)
<1> DEFINE Take(s)  == SubSeq(s, 1, IF Len(s) < max THEN Len(s) ELSE max)
           base     == Take(healthy \o slow)
           slowIn   == Len(base) > Len(Take(healthy))
           probed   == CASE probes = <<>> -> base
                    [] probes # <<>> /\ Len(base) < max -> Append(base, probes[1])
                    [] probes # <<>> /\ Len(base) >= max ->
                         IF max >= 2 /\ ~slowIn
                         THEN Append(Front(base), probes[1]) ELSE base
<1>1. SelectWithProbe(healthy, slow, failing, probes, max)
        = IF max = 0 THEN <<>> ELSE Take(probed \o failing)
  BY DEF SelectWithProbe
<1>2. ASSUME NEW s \in Seq(S) PROVE Take(s) \in Seq(S)
  BY <1>2
<1>3. healthy \o slow \in Seq(S)
  OBVIOUS
<1>4. base \in Seq(S) /\ Len(base) \in Nat
  BY <1>2, <1>3
<1> HIDE DEF base, slowIn
<1>5. probes # <<>> => probes[1] \in S
  OBVIOUS
<1>6. Front(base) \in Seq(S)
  BY <1>4 DEF Front
<1>7. probes # <<>> => Append(base, probes[1]) \in Seq(S) /\ Append(Front(base), probes[1]) \in Seq(S)
  BY <1>4, <1>5, <1>6
<1>8. probed \in Seq(S)
  <2>1. CASE probes = <<>>
    BY <1>4, <2>1
  <2>2. CASE probes # <<>> /\ Len(base) < max
    BY <1>4, <1>7, <2>2
  <2>3. CASE probes # <<>> /\ ~(Len(base) < max)
    <3>1. Len(base) >= max
      BY <1>4, <2>3
    <3>2. probed = IF max >= 2 /\ ~slowIn
                   THEN Append(Front(base), probes[1]) ELSE base
      BY <2>3, <3>1
    <3> QED
      BY <1>4, <1>7, <2>3, <3>2
  <2> QED
    BY <2>1, <2>2, <2>3
<1> HIDE DEF probed
<1>9. probed \o failing \in Seq(S)
  BY <1>8
<1>10. Take(probed \o failing) \in Seq(S)
  BY <1>2, <1>9
<1> QED
  BY <1>1, <1>10

\* A bucket is a set of candidates.
LEMMA InBucketType ==
  ASSUME NEW b, NEW cands
  PROVE  InBucket(b, cands) \in SUBSET ToSet(cands)
BY DEF InBucket

\* A race is given models.
LEMMA RacingCandidatesType ==
  ASSUME NEW cands \in Seq(ModelSet), entry \in [ModelSet -> Entry], NEW max \in Nat
  PROVE  /\ RacingCandidates(cands, max) \in Seq(ModelSet)
         /\ RacingCandidatesTiered(cands, max) \in Seq(ModelSet)
<1> DEFINE R(b) == Ranked(InBucket(b, cands), cands)
           T(b) == Ranked(InBucket(b, cands) \cap FastModels, cands)
                     \o Ranked(InBucket(b, cands) \ FastModels, cands)
<1>1. ASSUME NEW b PROVE R(b) \in Seq(ModelSet) /\ T(b) \in Seq(ModelSet)
  <2>1. /\ InBucket(b, cands) \in SUBSET ToSet(cands)
        /\ InBucket(b, cands) \cap FastModels \in SUBSET ToSet(cands)
        /\ InBucket(b, cands) \ FastModels \in SUBSET ToSet(cands)
    BY InBucketType
  <2> QED
    BY <2>1, RankedSeq
<1>2. RacingCandidates(cands, max) = SelectWithProbe(R("healthy"), R("slow"), R("failing"), R("probe"), max)
  BY DEF RacingCandidates
<1>3. RacingCandidatesTiered(cands, max) = SelectWithProbe(T("healthy"), T("slow"), T("failing"), T("probe"), max)
  BY DEF RacingCandidatesTiered
<1>4. /\ R("healthy") \in Seq(ModelSet) /\ R("slow") \in Seq(ModelSet)
      /\ R("failing") \in Seq(ModelSet) /\ R("probe") \in Seq(ModelSet)
      /\ T("healthy") \in Seq(ModelSet) /\ T("slow") \in Seq(ModelSet)
      /\ T("failing") \in Seq(ModelSet) /\ T("probe") \in Seq(ModelSet)
  BY <1>1
<1> HIDE DEF R, T
<1>5. /\ SelectWithProbe(R("healthy"), R("slow"), R("failing"), R("probe"), max) \in Seq(ModelSet)
      /\ SelectWithProbe(T("healthy"), T("slow"), T("failing"), T("probe"), max) \in Seq(ModelSet)
  BY <1>4, SelectWithProbeType
<1> QED
  BY <1>2, <1>3, <1>5

-----------------------------------------------------------------------------
(* Type correctness.                                                       *)

\* What one locked step of the store may make of an entry.
Updated(e, f) ==
  \/ f \in {e, RecordFailure(CountReport(e)), RecordTimeout(CountReport(e)),
            MarkServerDegraded(e), MarkProbeLaunched(e)}
  \/ \E ms \in Latencies :
       \/ f = RecordSuccess(CountReport(e), ms)
       \/ \E looping, tool \in BOOLEAN : f = NoteAnswer(RecordSuccess(CountReport(e), ms), looping, tool)

\* TypeOK alone is not inductive: a report writes the entry of the model of its
\* leg, so a leg that has started must have one.
TypeInv ==
  /\ TypeOK
  /\ \A i \in Legs : leg[i].step # "idle" => leg[i].model \in ModelSet

\* An entry that a step updates stays an entry.
LEMMA UpdatedType ==
  ASSUME NEW e \in Entry, now \in Nat, NEW f, Updated(e, f)
  PROVE  f \in Entry
<1>1. CountReport(e) \in Entry
  BY CountReportType
<1>2. CASE f \in {e, RecordFailure(CountReport(e)), RecordTimeout(CountReport(e)),
                  MarkServerDegraded(e), MarkProbeLaunched(e)}
  <2>1. /\ RecordFailure(CountReport(e)) \in Entry /\ MarkServerDegraded(e) \in Entry
        /\ MarkProbeLaunched(e) \in Entry
    BY <1>1, RecordFailureType, MarkServerDegradedType, MarkProbeLaunchedType
  <2>2. RecordTimeout(CountReport(e)) \in Entry
    BY <1>1, RecordTimeoutType
  <2> QED
    BY <1>2, <2>1, <2>2
<1>3. ASSUME NEW ms \in Latencies, f = RecordSuccess(CountReport(e), ms) PROVE f \in Entry
  BY <1>1, <1>3, RecordSuccessType
<1>4. ASSUME NEW ms \in Latencies, NEW looping \in BOOLEAN, NEW tool \in BOOLEAN,
             f = NoteAnswer(RecordSuccess(CountReport(e), ms), looping, tool)
      PROVE  f \in Entry
  <2>1. RecordSuccess(CountReport(e), ms) \in Entry
    BY <1>1, RecordSuccessType
  <2> QED
    BY <1>4, <2>1, NoteAnswerType
<1> QED
  BY <1>2, <1>3, <1>4 DEF Updated

\* A report replaces the entry of its leg's model, and its leg alone steps.
LEMMA ReportStep ==
  ASSUME TypeInv, NEW i \in Legs, leg[i].step # "idle", NEW e, NEW ok \in BOOLEAN, NEW hard \in BOOLEAN,
         Report(i, e, ok, hard)
  PROVE  /\ leg[i].model \in ModelSet /\ entry' = [entry EXCEPT ![leg[i].model] = e]
         /\ \E l \in {Reporting(leg[i], "keyed", ok, hard), Reporting(leg[i], "hard", ok, hard), IdleLeg} :
              leg' = [leg EXCEPT ![i] = l]
         /\ UNCHANGED <<now, rr_index, key_failures>>
BY DEF Report, TypeInv, TypeOK

\* A leg that reports stays a leg, of the same model.
LEMMA ReportingType ==
  ASSUME NEW l \in Leg, NEW step \in LegSteps, NEW ok \in BOOLEAN, NEW hard \in BOOLEAN
  PROVE  Reporting(l, step, ok, hard) \in Leg /\ Reporting(l, step, ok, hard).model = l.model
BY DEF Reporting, Leg

\* A leg that starts is a leg of its model.
LEMMA StartedType ==
  ASSUME NEW m \in ModelSet, NEW via \in {"direct", "race", "probe"}
  PROVE  /\ Started(m, via) \in Leg /\ Started(m, via).model = m
         /\ Started(m, via).step = "flying" /\ ~Started(m, via).ok
BY DEF Started, Leg, LegSteps

\* An idle leg is one.
LEMMA IdleLegType == IdleLeg \in Leg /\ IdleLeg.step = "idle"
BY DEF IdleLeg, Leg, LegSteps

\* An idle leg has a place among the idle ones, from 1.
LEMMA PlaceType ==
  ASSUME NEW i \in IdleLegs
  PROVE  PlaceOf(i) \in Nat \ {0}
<1> DEFINE J == {j \in IdleLegs : j <= i}
<1>0. Legs \subseteq Nat
  BY ModelStatsAssumption
<1>1. i \in J
  BY <1>0 DEF IdleLegs
<1>2. IsFiniteSet(J)
  BY ModelStatsAssumption, FS_Subset DEF IdleLegs
<1>3. Cardinality(J) \in Nat /\ Cardinality(J) # 0
  BY <1>1, <1>2, FS_CardinalityType, FS_EmptySet
<1> QED
  BY <1>3 DEF PlaceOf

\* A request starts one idle leg.
LEMMA StartOneStep ==
  ASSUME NEW m, NEW via, StartOne(m, via)
  PROVE  \E i \in Legs : leg[i].step = "idle" /\ leg' = [leg EXCEPT ![i] = Started(m, via)]
BY DEF StartOne, IdleLegs

\* The legs of a race start, the others stay.
LEMMA RaceStep ==
  ASSUME TypeInv, NEW list \in Seq(ModelSet), Race(list)
  PROVE  /\ leg' = [i \in Legs |-> leg'[i]]
         /\ \A i \in Legs : \/ leg'[i] = leg[i]
                            \/ /\ leg[i].step = "idle"
                               /\ \E m \in ModelSet : \E via \in {"probe", "race"} : leg'[i] = Started(m, via)
         /\ \A m \in ModelSet : entry'[m] \in {entry[m], MarkProbeLaunched(entry[m])}
         /\ entry' = [m \in ModelSet |-> entry'[m]]
         /\ UNCHANGED <<now, rr_index, key_failures>>
<1> DEFINE S(i) == Started(list[PlaceOf(i)], IF Bucket(list[PlaceOf(i)]) = "probe" THEN "probe" ELSE "race")
<1>1. leg' = [i \in Legs |-> IF i \in IdleLegs /\ PlaceOf(i) <= Len(list) THEN S(i) ELSE leg[i]]
  BY DEF Race
<1>2. ASSUME NEW i \in Legs, i \in IdleLegs, PlaceOf(i) <= Len(list)
      PROVE  \E m \in ModelSet : \E via \in {"probe", "race"} : S(i) = Started(m, via)
  <2>1. PlaceOf(i) \in 1 .. Len(list)
    BY <1>2, PlaceType
  <2>2. list[PlaceOf(i)] \in ModelSet
    BY <2>1
  <2> QED
    BY <2>2
<1> HIDE DEF S
<1>3. \A i \in Legs : \/ leg'[i] = leg[i]
                      \/ /\ leg[i].step = "idle"
                         /\ \E m \in ModelSet : \E via \in {"probe", "race"} : leg'[i] = Started(m, via)
  BY <1>1, <1>2 DEF IdleLegs
<1>4. leg' = [i \in Legs |-> leg'[i]]
  BY <1>1
<1>5. /\ \A m \in ModelSet : entry'[m] \in {entry[m], MarkProbeLaunched(entry[m])}
      /\ entry' = [m \in ModelSet |-> entry'[m]]
  BY DEF Race
<1> QED
  BY <1>3, <1>4, <1>5 DEF Race

\* The list a race is given is a list of models.
LEMMA RacedList ==
  ASSUME TypeInv, RaceFlat \/ RaceTiered
  PROVE  \E list \in Seq(ModelSet) : Race(list)
<1>1. entry \in [ModelSet -> Entry]
  BY DEF TypeInv, TypeOK
<1>2. ASSUME NEW max \in 1 .. Len(Models), NEW c \in 0 .. Len(Configured) - 1
      PROVE  /\ RacingCandidates(Rotated(Configured, c), max) \in Seq(ModelSet)
             /\ RacingCandidatesTiered(Rotated(Configured, c), max) \in Seq(ModelSet)
  <2>1. max \in Nat /\ c \in Nat
    OBVIOUS
  <2>2. Rotated(Configured, c) \in Seq(ModelSet)
    BY <2>1, ConfiguredType, RotatedType
  <2> QED
    BY <1>1, <2>1, <2>2, RacingCandidatesType
<1>3. CASE RaceFlat
  BY <1>2, <1>3 DEF RaceFlat
<1>4. CASE RaceTiered
  BY <1>2, <1>4 DEF RaceTiered
<1> QED
  BY <1>3, <1>4

\* Typed legs: a leg that has started has a model.
TypedLeg(l) == l \in Leg /\ (l.step # "idle" => l.model \in ModelSet)

\* What every step does to the entries, the legs and the rest.
StepTyped ==
  /\ entry' = [m \in ModelSet |-> entry'[m]]
  /\ \A m \in ModelSet : Updated(entry[m], entry'[m])
  /\ leg' = [i \in Legs |-> leg'[i]]
  /\ \A i \in Legs : TypedLeg(leg'[i])
  /\ key_failures' \in [ModelSet -> [KeyLabels -> Nat \cup {Unseen}]]
  /\ now' \in 0 .. MaxTime /\ now' >= now
  /\ rr_index' \in Nat /\ (Configured # <<>> => rr_index' < Len(Configured))

\* One leg steps, and at most the entry of one model is updated.
LEMMA LegTyped ==
  ASSUME TypeInv, NEW i \in Legs, NEW l, TypedLeg(l), leg' = [leg EXCEPT ![i] = l]
  PROVE  leg' = [j \in Legs |-> leg'[j]] /\ \A j \in Legs : TypedLeg(leg'[j])
<1>1. \A j \in Legs : TypedLeg(leg[j]) /\ leg'[j] = IF j = i THEN l ELSE leg[j]
  BY DEF TypeInv, TypeOK, TypedLeg
<1> QED
  BY <1>1 DEF TypeInv, TypeOK

\* At most the entry of one model is updated.
LEMMA EntryTyped ==
  ASSUME TypeInv, NEW m \in ModelSet, NEW f, Updated(entry[m], f),
         entry' = [entry EXCEPT ![m] = f]
  PROVE  /\ entry' = [n \in ModelSet |-> entry'[n]]
         /\ \A n \in ModelSet : Updated(entry[n], entry'[n])
<1>1. \A n \in ModelSet : entry'[n] = IF n = m THEN f ELSE entry[n]
  BY DEF TypeInv, TypeOK
<1>2. \A n \in ModelSet : Updated(entry[n], entry[n])
  BY DEF Updated
<1> QED
  BY <1>1, <1>2 DEF TypeInv, TypeOK

\* A step that leaves the entries alone is an update of them.
LEMMA EntryStays ==
  ASSUME TypeInv, UNCHANGED entry
  PROVE  /\ entry' = [n \in ModelSet |-> entry'[n]]
         /\ \A n \in ModelSet : Updated(entry[n], entry'[n])
BY DEF TypeInv, TypeOK, Updated

\* A step that leaves the legs alone keeps them typed.
LEMMA LegStays ==
  ASSUME TypeInv, UNCHANGED leg
  PROVE  leg' = [j \in Legs |-> leg'[j]] /\ \A j \in Legs : TypedLeg(leg'[j])
BY DEF TypeInv, TypeOK, TypedLeg

\* A step that leaves the clock, the router and the keys alone.
LEMMA RestStays ==
  ASSUME TypeInv, UNCHANGED <<now, rr_index, key_failures>>
  PROVE  /\ key_failures' \in [ModelSet -> [KeyLabels -> Nat \cup {Unseen}]]
         /\ now' \in 0 .. MaxTime /\ now' >= now
         /\ rr_index' \in Nat /\ (Configured # <<>> => rr_index' < Len(Configured))
BY ModelStatsAssumption DEF TypeInv, TypeOK

\* The first lock of a report.
LEMMA ReportTyped ==
  ASSUME TypeInv, NEW i \in Legs, leg[i].step # "idle", NEW ok \in BOOLEAN, NEW hard \in BOOLEAN,
         NEW e, Updated(entry[leg[i].model], e), Report(i, e, ok, hard)
  PROVE  StepTyped
<1> DEFINE m == leg[i].model
<1>1. PICK l \in {Reporting(leg[i], "keyed", ok, hard), Reporting(leg[i], "hard", ok, hard), IdleLeg} :
        leg' = [leg EXCEPT ![i] = l]
  BY ReportStep
<1>2. /\ m \in ModelSet /\ entry' = [entry EXCEPT ![m] = e]
      /\ UNCHANGED <<now, rr_index, key_failures>>
  BY ReportStep
<1>3. TypedLeg(l)
  <2>1. leg[i] \in Leg /\ "keyed" \in LegSteps /\ "hard" \in LegSteps
    BY DEF TypeInv, TypeOK, LegSteps
  <2>2. TypedLeg(Reporting(leg[i], "keyed", ok, hard)) /\ TypedLeg(Reporting(leg[i], "hard", ok, hard))
    BY <1>2, <2>1, ReportingType DEF TypedLeg
  <2> QED
    BY <2>2, IdleLegType DEF TypedLeg
<1> QED
  BY <1>1, <1>2, <1>3, LegTyped, EntryTyped, RestStays DEF StepTyped

\* A request that is routed.
LEMMA StartTyped ==
  ASSUME TypeInv, NEW m \in ModelSet, StartOne(m, "direct"), UNCHANGED <<entry, key_failures, now>>,
         rr_index' \in Nat, Configured # <<>> => rr_index' < Len(Configured)
  PROVE  StepTyped
<1>1. PICK i \in Legs : leg' = [leg EXCEPT ![i] = Started(m, "direct")]
  BY StartOneStep
<1>2. TypedLeg(Started(m, "direct"))
  BY StartedType DEF TypedLeg
<1>3. leg' = [j \in Legs |-> leg'[j]] /\ \A j \in Legs : TypedLeg(leg'[j])
  BY <1>1, <1>2, LegTyped
<1>4. key_failures' \in [ModelSet -> [KeyLabels -> Nat \cup {Unseen}]]
  BY DEF TypeInv, TypeOK
<1>5. now' \in 0 .. MaxTime /\ now' >= now
  BY ModelStatsAssumption DEF TypeInv, TypeOK
<1> QED
  BY <1>3, <1>4, <1>5, EntryStays DEF StepTyped

\* A race.
LEMMA RaceTyped ==
  ASSUME TypeInv, NEW list \in Seq(ModelSet), Race(list)
  PROVE  StepTyped
<1>1. \A i \in Legs : TypedLeg(leg'[i])
  <2> TAKE i \in Legs
  <2>1. CASE leg'[i] = leg[i]
    BY <2>1 DEF TypeInv, TypeOK, TypedLeg
  <2>2. ASSUME NEW m \in ModelSet, NEW via \in {"probe", "race"}, leg'[i] = Started(m, via)
        PROVE  TypedLeg(leg'[i])
    BY <2>2, StartedType DEF TypedLeg
  <2> QED
    BY <2>1, <2>2, RaceStep
<1>2. \A m \in ModelSet : Updated(entry[m], entry'[m])
  BY RaceStep DEF Updated
<1> QED
  BY <1>1, <1>2, RaceStep, RestStays DEF StepTyped

\* A step of a leg.
LEMMA LegStepTyped ==
  ASSUME TypeInv, NEW i \in Legs, LegStep(i)
  PROVE  StepTyped
<1> DEFINE m == leg[i].model
<1>1. leg[i].step # "idle" => m \in ModelSet /\ entry[m] \in Entry
  BY DEF TypeInv, TypeOK
<1>2. leg[i] \in Leg
  BY DEF TypeInv, TypeOK
<1>3. CASE Answered(i)
  <2>1. PICK ms \in Latencies : Report(i, RecordSuccess(CountReport(entry[m]), ms), TRUE, FALSE)
    BY <1>3 DEF Answered
  <2>2. leg[i].step # "idle"
    BY <1>3 DEF Answered
  <2>3. Updated(entry[m], RecordSuccess(CountReport(entry[m]), ms))
    BY DEF Updated
  <2> QED
    BY <2>1, <2>2, <2>3, ReportTyped
<1>4. CASE AnsweredWithCircuitBreaker(i)
  <2>1. PICK ms \in Latencies, looping \in BOOLEAN, tool \in BOOLEAN :
          entry' = [entry EXCEPT ![m] = NoteAnswer(RecordSuccess(CountReport(entry[m]), ms), looping, tool)]
    BY <1>1, <1>4 DEF AnsweredWithCircuitBreaker, TypeInv, TypeOK
  <2>2. /\ m \in ModelSet /\ leg' = [leg EXCEPT ![i] = IdleLeg]
        /\ UNCHANGED <<now, rr_index, key_failures>>
    BY <1>1, <1>4 DEF AnsweredWithCircuitBreaker
  <2>3. Updated(entry[m], NoteAnswer(RecordSuccess(CountReport(entry[m]), ms), looping, tool))
    BY DEF Updated
  <2>4. TypedLeg(IdleLeg)
    BY IdleLegType DEF TypedLeg
  <2> QED
    BY <2>1, <2>2, <2>3, <2>4, LegTyped, EntryTyped, RestStays DEF StepTyped
<1>5. CASE Failed(i)
  <2>1. PICK hard \in BOOLEAN : Report(i, RecordFailure(CountReport(entry[m])), FALSE, hard)
    BY <1>5 DEF Failed
  <2>2. leg[i].step # "idle"
    BY <1>5 DEF Failed
  <2>3. Updated(entry[m], RecordFailure(CountReport(entry[m])))
    BY DEF Updated
  <2> QED
    BY <2>1, <2>2, <2>3, ReportTyped
<1>6. CASE TimedOut(i)
  <2>1. Report(i, RecordTimeout(CountReport(entry[m])), FALSE, FALSE) /\ leg[i].step # "idle"
    BY <1>6 DEF TimedOut
  <2>2. Updated(entry[m], RecordTimeout(CountReport(entry[m])))
    BY DEF Updated
  <2> QED
    BY <2>1, <2>2, ReportTyped
<1>7. ASSUME NEW k \in KeyLabels, NoteKey(i, k) PROVE StepTyped
  <2> DEFINE l == IF leg[i].hard THEN [leg[i] EXCEPT !.step = "hard"] ELSE IdleLeg
             old == key_failures[m][k]
             c == IF leg[i].ok THEN 0 ELSE IF old = Unseen THEN 1 ELSE old + 1
  <2>1. /\ leg[i].step = "keyed" /\ m \in ModelSet
        /\ UNCHANGED <<now, rr_index, entry>>
    BY <1>1, <1>7 DEF NoteKey
  <2>2. leg' = [leg EXCEPT ![i] = l]
    BY <1>7 DEF NoteKey, TypeInv, TypeOK
  <2>3. TypedLeg(l)
    BY <1>2, <2>1, IdleLegType DEF TypedLeg, Leg, LegSteps
  <2>4. key_failures[m] \in [KeyLabels -> Nat \cup {Unseen}] /\ old \in Nat \cup {Unseen}
    BY <2>1 DEF TypeInv, TypeOK
  <2>5. c \in Nat
    BY <2>4 DEF Unseen
  <2>6. key_failures' = [key_failures EXCEPT ![m] = [key_failures[m] EXCEPT ![k] = c]]
    BY <1>7, <2>1 DEF NoteKey, TypeInv, TypeOK
  <2>7. key_failures' \in [ModelSet -> [KeyLabels -> Nat \cup {Unseen}]]
    <3> HIDE DEF c
    <3>1. [key_failures[m] EXCEPT ![k] = c] \in [KeyLabels -> Nat \cup {Unseen}]
      BY <2>4, <2>5
    <3> QED
      BY <2>6, <3>1 DEF TypeInv, TypeOK
  <2>8. /\ now' \in 0 .. MaxTime /\ now' >= now
        /\ rr_index' \in Nat /\ (Configured # <<>> => rr_index' < Len(Configured))
    BY <2>1, ModelStatsAssumption DEF TypeInv, TypeOK
  <2> QED
    BY <2>1, <2>2, <2>3, <2>7, <2>8, LegTyped, EntryStays DEF StepTyped
<1>8. CASE HardError(i)
  <2> DEFINE l == IF leg[i].step = "hard" THEN IdleLeg ELSE Reporting(leg[i], "condemned", FALSE, FALSE)
  <2>1. /\ m \in ModelSet /\ UNCHANGED <<now, rr_index, key_failures>>
    BY <1>1, <1>8 DEF HardError
  <2>2. leg' = [leg EXCEPT ![i] = l] /\ entry' = [entry EXCEPT ![m] = MarkServerDegraded(entry[m])]
    BY <1>8, <2>1 DEF HardError, TypeInv, TypeOK
  <2>3. TypedLeg(l)
    BY <1>2, <2>1, IdleLegType, ReportingType DEF TypedLeg, LegSteps
  <2>4. Updated(entry[m], MarkServerDegraded(entry[m]))
    BY DEF Updated
  <2> QED
    BY <2>1, <2>2, <2>3, <2>4, LegTyped, EntryTyped, RestStays DEF StepTyped
<1>9. CASE Dropped(i)
  <2>1. leg' = [leg EXCEPT ![i] = IdleLeg] /\ UNCHANGED <<now, rr_index, entry, key_failures>>
    BY <1>9 DEF Dropped
  <2>2. TypedLeg(IdleLeg)
    BY IdleLegType DEF TypedLeg
  <2> QED
    BY <2>1, <2>2, LegTyped, EntryStays, RestStays DEF StepTyped
<1> QED
  BY <1>3, <1>4, <1>5, <1>6, <1>7, <1>8, <1>9 DEF LegStep

\* Every step keeps every part of the state typed.
LEMMA NextTyped ==
  ASSUME TypeInv, [Next]_vars
  PROVE  StepTyped
<1>1. CASE Tick
  <2>1. now' \in 0 .. MaxTime /\ now' >= now
    BY <1>1, ModelStatsAssumption DEF Tick, TypeInv, TypeOK
  <2>2. /\ key_failures' \in [ModelSet -> [KeyLabels -> Nat \cup {Unseen}]]
        /\ rr_index' \in Nat /\ (Configured # <<>> => rr_index' < Len(Configured))
    BY <1>1 DEF Tick, TypeInv, TypeOK
  <2>3. UNCHANGED entry /\ UNCHANGED leg
    BY <1>1 DEF Tick
  <2> QED
    BY <2>1, <2>2, <2>3, EntryStays, LegStays DEF StepTyped
<1>2. CASE RouteRoundRobin
  <2>1. Configured # <<>> /\ Configured \in Seq(ModelSet)
    BY <1>2, ConfiguredType DEF RouteRoundRobin
  <2>2. Len(Configured) \in Nat \ {0} /\ rr_index \in Nat /\ rr_index < Len(Configured)
    BY <2>1 DEF TypeInv, TypeOK
  <2>3. Configured[rr_index + 1] \in ModelSet
    <3>1. rr_index + 1 \in 1 .. Len(Configured)
      BY <2>2
    <3> QED
      BY <2>1, <3>1
  <2>4. (rr_index + 1) % Len(Configured) \in Nat /\ (rr_index + 1) % Len(Configured) < Len(Configured)
    BY <2>2
  <2>5. /\ StartOne(Configured[rr_index + 1], "direct") /\ UNCHANGED <<entry, key_failures, now>>
        /\ rr_index' = (rr_index + 1) % Len(Configured)
    BY <1>2 DEF RouteRoundRobin
  <2> QED
    BY <2>3, <2>4, <2>5, StartTyped
<1>3. CASE RouteLatencyAware
  <2> DEFINE m == BestModel(Configured)
  <2>1. /\ m # NoModel /\ StartOne(m, "direct") /\ UNCHANGED <<entry, key_failures, now, rr_index>>
    BY <1>3 DEF RouteLatencyAware
  <2>2. m \in ModelSet
    BY <2>1, ConfiguredType, BestModelType DEF TypeInv, TypeOK
  <2>3. rr_index' \in Nat /\ (Configured # <<>> => rr_index' < Len(Configured))
    BY <2>1 DEF TypeInv, TypeOK
  <2> HIDE DEF m
  <2> QED
    BY <2>1, <2>2, <2>3, StartTyped
<1>4. CASE RaceFlat \/ RaceTiered
  BY <1>4, RacedList, RaceTyped
<1>5. ASSUME NEW m \in ModelSet, NamedRequest(m) PROVE StepTyped
  <2>1. /\ StartOne(m, "direct") /\ UNCHANGED <<entry, key_failures, now, rr_index>>
    BY <1>5 DEF NamedRequest
  <2>2. rr_index' \in Nat /\ (Configured # <<>> => rr_index' < Len(Configured))
    BY <2>1 DEF TypeInv, TypeOK
  <2> QED
    BY <2>1, <2>2, StartTyped
<1>6. ASSUME NEW m \in ModelSet, RecheckFindsMissing(m) PROVE StepTyped
  <2>1. /\ entry' = [entry EXCEPT ![m] = MarkServerDegraded(entry[m])]
        /\ UNCHANGED leg /\ UNCHANGED <<now, rr_index, key_failures>>
    BY <1>6 DEF RecheckFindsMissing, TypeInv, TypeOK
  <2>2. Updated(entry[m], MarkServerDegraded(entry[m]))
    BY DEF Updated
  <2> QED
    BY <2>1, <2>2, EntryTyped, LegStays, RestStays DEF StepTyped
<1>7. ASSUME NEW i \in Legs, LegStep(i) PROVE StepTyped
  BY <1>7, LegStepTyped
<1>8. CASE UNCHANGED vars
  BY <1>8, EntryStays, LegStays, RestStays DEF StepTyped, vars
<1> QED
  BY <1>1, <1>2, <1>3, <1>4, <1>5, <1>6, <1>7, <1>8 DEF Next

\* The strengthened type invariant is inductive.
LEMMA TypeStep ==
  ASSUME TypeInv, [Next]_vars
  PROVE  TypeInv'
<1>1. StepTyped
  BY NextTyped
<1>2. \A m \in ModelSet : entry'[m] \in Entry
  BY <1>1, UpdatedType DEF StepTyped, TypeInv, TypeOK
<1>3. entry' \in [ModelSet -> Entry] /\ leg' \in [Legs -> Leg]
  BY <1>1, <1>2 DEF StepTyped, TypedLeg
<1> QED
  BY <1>1, <1>3 DEF StepTyped, TypedLeg, TypeInv, TypeOK

\* It holds in the initial state.
LEMMA TypeInit == Init => TypeInv
<1>1. NewEntry \in Entry
  BY DEF NewEntry, Entry
<1>2. Configured # <<>> => 0 < Len(Configured)
  BY ConfiguredType
<1>3. ASSUME Init PROVE TypeInv
  BY <1>1, <1>2, <1>3, IdleLegType, ModelStatsAssumption DEF Init, TypeInv, TypeOK
<1> QED
  BY <1>3

\* Every variable of the store, the router and the legs keeps its type.
THEOREM StatsTypeCorrect == Spec => []TypeOK
<1>1. Spec => []TypeInv
  BY TypeInit, TypeStep, PTL DEF Spec
<1>2. TypeInv => TypeOK
  BY DEF TypeInv
<1> QED
  BY <1>1, <1>2, PTL

-----------------------------------------------------------------------------
(* The quarantine.                                                         *)

\* The timeout fields of an entry agree at a time.
Coherent(e, t) ==
  /\ e.until # Never <=> e.timeouts >= TimeoutLimit
  /\ e.probing => e.until # Never /\ e.until <= t
  /\ e.timeouts <= e.failures

\* Every step of the store leaves them so.
LEMMA UpdatedCoherent ==
  ASSUME NEW e \in Entry, now \in Nat, Coherent(e, now), NEW f, Updated(e, f)
  PROVE  Coherent(f, now)
<1> DEFINE c == CountReport(e)
<1>1. c \in Entry /\ EntryFields(c) = <<e.total + 1, e.success, e.failures, e.timeouts, e.until, e.probing>>
  BY CountReportType
<1>2. /\ c.failures = e.failures /\ c.timeouts = e.timeouts /\ c.until = e.until /\ c.probing = e.probing
  BY <1>1 DEF EntryFields
<1>3. /\ e.failures \in Nat /\ e.timeouts \in Nat /\ e.until \in Nat \cup {Never} /\ e.probing \in BOOLEAN
  BY DEF Entry
<1>4. TimeoutLimit \in Nat \ {0} /\ Quarantine \in Nat /\ HardErrorFailures \in Nat
  BY ModelStatsAssumption
<1>5. CASE f = e
  BY <1>5
<1>6. CASE f = RecordFailure(c)
  <2>1. f.failures = e.failures + 1 /\ f.timeouts = 0 /\ f.until = Never /\ f.probing = FALSE
    BY <1>1, <1>2, <1>6, RecordFailureType DEF EntryFields
  <2> QED
    BY <1>3, <1>4, <2>1 DEF Coherent
<1>7. CASE f = RecordTimeout(c)
  <2>1. /\ f.failures = e.failures + 1 /\ f.timeouts = e.timeouts + 1 /\ f.probing = FALSE
        /\ f.until = IF e.timeouts + 1 >= TimeoutLimit THEN now + Quarantine ELSE e.until
    BY <1>1, <1>2, <1>7, RecordTimeoutType DEF EntryFields
  <2> QED
    BY <1>3, <1>4, <2>1 DEF Coherent, Never
<1>8. CASE f = MarkServerDegraded(e)
  <2>1. /\ f.failures = e.failures + HardErrorFailures /\ f.timeouts = e.timeouts
        /\ f.until = e.until /\ f.probing = e.probing
    BY <1>8, MarkServerDegradedType DEF EntryFields
  <2> QED
    BY <1>3, <1>4, <2>1 DEF Coherent
<1>9. CASE f = MarkProbeLaunched(e)
  <2>1. /\ f.failures = e.failures /\ f.timeouts = e.timeouts
        /\ f.until = e.until /\ f.probing = (ProbeReady(e) \/ e.probing)
    BY <1>9, MarkProbeLaunchedType DEF EntryFields
  <2> QED
    BY <1>3, <2>1 DEF Coherent, ProbeReady
<1> DEFINE Cleared(s) == s.failures = 0 /\ s.timeouts = 0 /\ s.until = Never /\ s.probing = FALSE
<1>10. ASSUME NEW ms \in Latencies
       PROVE  RecordSuccess(c, ms) \in Entry /\ Cleared(RecordSuccess(c, ms))
  BY <1>1, RecordSuccessType DEF EntryFields
<1>11. Cleared(f) => Coherent(f, now)
  BY <1>4 DEF Coherent
<1>12. ASSUME NEW ms \in Latencies, f = RecordSuccess(c, ms) PROVE Coherent(f, now)
  BY <1>10, <1>11, <1>12
<1>13. ASSUME NEW ms \in Latencies, NEW looping \in BOOLEAN, NEW tool \in BOOLEAN,
              f = NoteAnswer(RecordSuccess(c, ms), looping, tool)
       PROVE  Coherent(f, now)
  <2>1. EntryFields(f) = EntryFields(RecordSuccess(c, ms))
    BY <1>10, <1>13, NoteAnswerType
  <2>2. Cleared(f)
    BY <1>10, <2>1 DEF EntryFields
  <2> QED
    BY <1>11, <2>2
<1> QED
  BY <1>5, <1>6, <1>7, <1>8, <1>9, <1>12, <1>13 DEF Updated

\* The invariant, by entries.
LEMMA CoherentMeans ==
  TimeoutStateCoherent <=> \A m \in ModelSet : Coherent(entry[m], now)
BY DEF TimeoutStateCoherent, Coherent

\* A later time keeps them so.
LEMMA CoherentLater ==
  ASSUME NEW e \in Entry, NEW s \in Nat, NEW t \in Nat, s <= t, Coherent(e, s)
  PROVE  Coherent(e, t)
BY DEF Coherent, Entry, Never

\* Every step keeps the timeout fields coherent.
LEMMA CoherentStep ==
  ASSUME TypeInv, TimeoutStateCoherent, [Next]_vars
  PROVE  TimeoutStateCoherent'
<1>1. /\ now \in Nat /\ now' \in Nat /\ now <= now'
      /\ \A m \in ModelSet : entry[m] \in Entry /\ entry'[m] \in Entry
  BY NextTyped, TypeStep, ModelStatsAssumption DEF StepTyped, TypeInv, TypeOK
<1>2. ASSUME NEW m \in ModelSet PROVE Coherent(entry'[m], now')
  <2>1. Coherent(entry[m], now) /\ Updated(entry[m], entry'[m])
    BY CoherentMeans, NextTyped DEF StepTyped
  <2>2. Coherent(entry'[m], now)
    BY <1>1, <2>1, UpdatedCoherent
  <2> QED
    BY <1>1, <2>2, CoherentLater
<1> QED
  BY <1>2 DEF TimeoutStateCoherent, Coherent

\* Whatever the order in which the legs report, the timeout fields of an entry
\* agree: deadline, count of timeouts, probe in flight and failures.
THEOREM QuarantineCoherent == Spec => []TimeoutStateCoherent
<1>1. Init => TimeoutStateCoherent
  BY ModelStatsAssumption DEF Init, NewEntry, TimeoutStateCoherent, Never
<1>2. Spec => [](TypeInv /\ TimeoutStateCoherent)
  BY <1>1, TypeInit, TypeStep, CoherentStep, PTL DEF Spec
<1> QED
  BY <1>2, PTL

-----------------------------------------------------------------------------
(* The failures charged to keys.                                           *)

\* The failures of a model's keys, its legs between the two locks of the
\* report of a failure, and how many more reports than successes it has.
Counts(failures, m) == [k \in KeyLabels |-> IF failures[m][k] = Unseen THEN 0 ELSE failures[m][k]]
Between(legs, m)    == {i \in Legs : legs[i].model = m /\ legs[i].step = "keyed" /\ ~legs[i].ok}
Margin(e)           == e.total - e.success

Accounted(failures, legs, e, m) ==
  Sum(Counts(failures, m), KeyLabels) + Cardinality(Between(legs, m)) <= Margin(e)

AllAccounted == \A m \in ModelSet : Accounted(key_failures, leg, entry[m], m)

\* The invariant, by models.
LEMMA AccountedMeans == KeyFailuresAccounted <=> AllAccounted
<1>1. ASSUME NEW m PROVE FailuresOfKeys(m) = Sum(Counts(key_failures, m), KeyLabels)
  BY DEF FailuresOfKeys, Counts, FoldFunction, Sum
<1> QED
  BY <1>1 DEF KeyFailuresAccounted, AllAccounted, Accounted, Between, Margin

\* The failures of a model's keys add up to a natural number.
LEMMA CountsType ==
  ASSUME NEW failures \in [ModelSet -> [KeyLabels -> Nat \cup {Unseen}]], NEW m \in ModelSet
  PROVE  Sum(Counts(failures, m), KeyLabels) \in Nat /\ \A k \in KeyLabels : Counts(failures, m)[k] \in Nat
<1>1. \A k \in KeyLabels : failures[m][k] \in Nat \cup {Unseen}
  OBVIOUS
<1>2. \A k \in KeyLabels : Counts(failures, m)[k] \in Nat
  BY <1>1 DEF Counts
<1>3. IsFiniteSet(KeyLabels)
  BY ModelStatsAssumption
<1> QED
  BY <1>2, <1>3, SumNat

\* The legs between the locks are finitely many.
LEMMA BetweenType ==
  ASSUME NEW legs, NEW m
  PROVE  IsFiniteSet(Between(legs, m)) /\ Cardinality(Between(legs, m)) \in Nat
<1>1. Between(legs, m) \subseteq Legs /\ IsFiniteSet(Legs)
  BY ModelStatsAssumption DEF Between
<1> QED
  BY <1>1, FS_Subset, FS_CardinalityType

\* No step lowers the margin of a model; the report of a failure raises it.
LEMMA MarginGrows ==
  ASSUME NEW e \in Entry, now \in Nat, NEW f, Updated(e, f)
  PROVE  /\ Margin(e) \in Int /\ Margin(f) \in Int /\ Margin(f) >= Margin(e)
         /\ f \in {RecordFailure(CountReport(e)), RecordTimeout(CountReport(e))} => Margin(f) = Margin(e) + 1
<1> DEFINE c == CountReport(e)
           Gain(t, s) == f.total = e.total + t /\ f.success = e.success + s
<1>1. c \in Entry /\ c.total = e.total + 1 /\ c.success = e.success
  BY CountReportType DEF EntryFields
<1>2. e.total \in Nat /\ e.success \in Nat
  BY DEF Entry
<1>4. f \in {RecordFailure(c), RecordTimeout(c)} => Gain(1, 0)
  <2>1. EntryFields(RecordFailure(c)) = <<c.total, c.success, c.failures + 1, 0, Never, FALSE>>
    BY <1>1, RecordFailureType
  <2>2. RecordFailure(c).total = c.total /\ RecordFailure(c).success = c.success
    BY <2>1 DEF EntryFields
  <2>3. EntryFields(RecordTimeout(c)) = <<c.total, c.success, c.failures + 1, c.timeouts + 1,
                  IF c.timeouts + 1 >= TimeoutLimit THEN now + Quarantine ELSE c.until, FALSE>>
    BY <1>1, RecordTimeoutType
  <2>4. RecordTimeout(c).total = c.total /\ RecordTimeout(c).success = c.success
    BY <2>3 DEF EntryFields
  <2> QED
    BY <1>1, <1>2, <2>2, <2>4
<1>5. f \in {e, MarkServerDegraded(e), MarkProbeLaunched(e)} => Gain(0, 0)
  BY <1>2, MarkServerDegradedType, MarkProbeLaunchedType DEF EntryFields
<1>6. ASSUME NEW ms \in Latencies
      PROVE  /\ RecordSuccess(c, ms) \in Entry
             /\ f = RecordSuccess(c, ms) => Gain(1, 1)
  <2>1. /\ RecordSuccess(c, ms) \in Entry
        /\ EntryFields(RecordSuccess(c, ms)) = <<c.total, c.success + 1, 0, 0, Never, FALSE>>
    BY <1>1, RecordSuccessType
  <2>2. RecordSuccess(c, ms).total = c.total /\ RecordSuccess(c, ms).success = c.success + 1
    BY <2>1 DEF EntryFields
  <2> QED
    BY <1>1, <2>1, <2>2
<1>7. ASSUME NEW ms \in Latencies, NEW looping \in BOOLEAN, NEW tool \in BOOLEAN,
             f = NoteAnswer(RecordSuccess(c, ms), looping, tool)
      PROVE  Gain(1, 1)
  <2>1. EntryFields(f) = EntryFields(RecordSuccess(c, ms))
    BY <1>6, <1>7, NoteAnswerType
  <2>2. EntryFields(RecordSuccess(c, ms)) = <<c.total, c.success + 1, 0, 0, Never, FALSE>>
    BY <1>1, RecordSuccessType
  <2> QED
    BY <1>1, <2>1, <2>2 DEF EntryFields
<1>8. Gain(0, 0) \/ Gain(1, 0) \/ Gain(1, 1)
  BY <1>4, <1>5, <1>6, <1>7 DEF Updated
<1> QED
  BY <1>2, <1>4, <1>8 DEF Margin

\* A step that charges no key and puts no failing leg between the locks.
Quiet ==
  /\ UNCHANGED key_failures
  /\ \A j \in Legs : leg'[j] = leg[j] \/ leg'[j].step # "keyed" \/ leg'[j].ok

\* The first lock of the report of a failure.
FailureReported(i) ==
  /\ UNCHANGED key_failures
  /\ leg[i].model \in ModelSet
  /\ entry'[leg[i].model] \in {RecordFailure(CountReport(entry[leg[i].model])),
                               RecordTimeout(CountReport(entry[leg[i].model]))}
  /\ \A j \in Legs : j # i => leg'[j] = leg[j]
  /\ leg'[i].model = leg[i].model \/ leg'[i].step # "keyed"

\* The first lock of a report charges no key, and that of a success puts no
\* failing leg between the locks.
LEMMA ReportCharges ==
  ASSUME TypeInv, NEW i \in Legs, leg[i].step # "idle", NEW ok \in BOOLEAN, NEW hard \in BOOLEAN,
         NEW e, Report(i, e, ok, hard)
  PROVE  /\ ok => Quiet
         /\ e \in {RecordFailure(CountReport(entry[leg[i].model])),
                   RecordTimeout(CountReport(entry[leg[i].model]))} => FailureReported(i)
<1>1. PICK l \in {Reporting(leg[i], "keyed", ok, hard), Reporting(leg[i], "hard", ok, hard), IdleLeg} :
        leg' = [leg EXCEPT ![i] = l]
  BY DEF Report
<1>2. l.step # "keyed" \/ (l.ok = ok /\ l.model = leg[i].model)
  BY IdleLegType DEF Reporting
<1>3. \A j \in Legs : leg'[j] = IF j = i THEN l ELSE leg[j]
  BY <1>1 DEF TypeInv, TypeOK
<1>4. leg[i].model \in ModelSet /\ entry'[leg[i].model] = e /\ UNCHANGED key_failures
  BY ReportStep DEF TypeInv, TypeOK
<1>5. ok => Quiet
  BY <1>2, <1>3, <1>4 DEF Quiet
<1> QED
  BY <1>2, <1>3, <1>4, <1>5 DEF FailureReported

\* A request that is routed is quiet.
LEMMA StartQuiet ==
  ASSUME TypeInv, NEW m \in ModelSet, StartOne(m, "direct"), UNCHANGED key_failures
  PROVE  Quiet
<1>1. PICK i \in Legs : leg' = [leg EXCEPT ![i] = Started(m, "direct")]
  BY StartOneStep
<1>2. \A j \in Legs : leg'[j] = IF j = i THEN Started(m, "direct") ELSE leg[j]
  BY <1>1 DEF TypeInv, TypeOK
<1> QED
  BY <1>2, StartedType DEF Quiet

\* So is a race.
LEMMA RaceQuiet ==
  ASSUME TypeInv, NEW list \in Seq(ModelSet), Race(list)
  PROVE  Quiet
<1>1. \A j \in Legs : leg'[j] = leg[j] \/ leg'[j].step # "keyed"
  <2> TAKE j \in Legs
  <2>1. CASE leg'[j] = leg[j]
    BY <2>1
  <2>2. ASSUME NEW m \in ModelSet, NEW via \in {"probe", "race"}, leg'[j] = Started(m, via)
        PROVE  leg'[j].step # "keyed"
    BY <2>2, StartedType
  <2> QED
    BY <2>1, <2>2, RaceStep
<1> QED
  BY <1>1, RaceStep DEF Quiet

\* Every step is quiet, reports a failure or charges a key.
LEMMA StepCharges ==
  ASSUME TypeInv, [Next]_vars
  PROVE  \/ Quiet
         \/ \E i \in Legs : FailureReported(i)
         \/ \E i \in Legs, k \in KeyLabels : NoteKey(i, k)
<1>1. CASE Tick \/ UNCHANGED vars \/ \E m \in ModelSet : RecheckFindsMissing(m)
  BY <1>1 DEF Tick, vars, RecheckFindsMissing, Quiet
<1>2. CASE RouteRoundRobin
  <2>1. Configured # <<>> /\ Configured \in Seq(ModelSet)
    BY <1>2, ConfiguredType DEF RouteRoundRobin
  <2>2. rr_index + 1 \in 1 .. Len(Configured)
    BY <2>1 DEF TypeInv, TypeOK
  <2>3. Configured[rr_index + 1] \in ModelSet
    BY <2>1, <2>2
  <2> QED
    BY <1>2, <2>3, StartQuiet DEF RouteRoundRobin
<1>3. CASE RouteLatencyAware
  <2>1. BestModel(Configured) \in ModelSet
    BY <1>3, ConfiguredType, BestModelType DEF RouteLatencyAware, TypeInv, TypeOK
  <2> QED
    BY <1>3, <2>1, StartQuiet DEF RouteLatencyAware
<1>4. CASE RaceFlat \/ RaceTiered
  BY <1>4, RacedList, RaceQuiet
<1>5. ASSUME NEW m \in ModelSet, NamedRequest(m) PROVE Quiet
  BY <1>5, StartQuiet DEF NamedRequest
<1>6. ASSUME NEW i \in Legs, Answered(i) PROVE Quiet
  BY <1>6, ReportCharges DEF Answered
<1>7. ASSUME NEW i \in Legs, Failed(i) PROVE FailureReported(i)
  <2>1. PICK hard \in BOOLEAN : Report(i, RecordFailure(CountReport(entry[leg[i].model])), FALSE, hard)
    BY <1>7 DEF Failed
  <2>2. leg[i].step # "idle"
    BY <1>7 DEF Failed
  <2> QED
    BY <2>1, <2>2, ReportCharges
<1>8. ASSUME NEW i \in Legs, TimedOut(i) PROVE FailureReported(i)
  <2>1. Report(i, RecordTimeout(CountReport(entry[leg[i].model])), FALSE, FALSE) /\ leg[i].step # "idle"
    BY <1>8 DEF TimedOut
  <2> QED
    BY <2>1, ReportCharges
<1>9. ASSUME NEW i \in Legs, AnsweredWithCircuitBreaker(i) \/ Dropped(i) PROVE Quiet
  <2>1. leg' = [leg EXCEPT ![i] = IdleLeg] /\ UNCHANGED key_failures
    BY <1>9 DEF AnsweredWithCircuitBreaker, Dropped
  <2>2. \A j \in Legs : leg'[j] = IF j = i THEN IdleLeg ELSE leg[j]
    BY <2>1 DEF TypeInv, TypeOK
  <2> QED
    BY <2>1, <2>2, IdleLegType DEF Quiet
<1>10. ASSUME NEW i \in Legs, HardError(i) PROVE Quiet
  <2>1. \A j \in Legs : leg'[j] = IF j = i
          THEN IF leg[i].step = "hard" THEN IdleLeg ELSE Reporting(leg[i], "condemned", FALSE, FALSE)
          ELSE leg[j]
    BY <1>10 DEF HardError, TypeInv, TypeOK
  <2>2. Reporting(leg[i], "condemned", FALSE, FALSE).step # "keyed"
    BY DEF Reporting
  <2> QED
    BY <1>10, <2>1, <2>2, IdleLegType DEF Quiet, HardError
<1> QED
  BY <1>1, <1>2, <1>3, <1>4, <1>5, <1>6, <1>7, <1>8, <1>9, <1>10 DEF Next, LegStep

\* Fewer legs between the locks count less.
LEMMA BetweenShrinks ==
  ASSUME NEW old, NEW new, NEW m, Between(new, m) \subseteq Between(old, m)
  PROVE  Cardinality(Between(new, m)) <= Cardinality(Between(old, m))
BY BetweenType, FS_Subset

\* A quiet step keeps the account of a model.
LEMMA QuietAccounted ==
  ASSUME TypeInv, TypeInv', Quiet, NEW m \in ModelSet, Updated(entry[m], entry'[m]),
         Accounted(key_failures, leg, entry[m], m)
  PROVE  Accounted(key_failures', leg', entry'[m], m)
<1>1. Between(leg', m) \subseteq Between(leg, m)
  BY DEF Between, Quiet
<1>2. Cardinality(Between(leg', m)) <= Cardinality(Between(leg, m))
  BY <1>1, BetweenShrinks
<1>3. entry[m] \in Entry /\ now \in Nat
  BY ModelStatsAssumption DEF TypeInv, TypeOK
<1>4. Margin(entry[m]) \in Int /\ Margin(entry'[m]) \in Int /\ Margin(entry'[m]) >= Margin(entry[m])
  BY <1>3, MarginGrows
<1>5. Sum(Counts(key_failures', m), KeyLabels) = Sum(Counts(key_failures, m), KeyLabels)
  BY DEF Quiet
<1>6. Sum(Counts(key_failures, m), KeyLabels) \in Nat
  BY CountsType DEF TypeInv, TypeOK
<1>7. Cardinality(Between(leg, m)) \in Nat /\ Cardinality(Between(leg', m)) \in Nat
  BY BetweenType
<1> QED
  BY <1>2, <1>4, <1>5, <1>6, <1>7 DEF Accounted

\* A leg that comes between the locks is covered by the failure it reported.
LEMMA FailureAccounted ==
  ASSUME TypeInv, TypeInv', NEW i \in Legs, FailureReported(i), NEW m \in ModelSet,
         Updated(entry[m], entry'[m]), Accounted(key_failures, leg, entry[m], m)
  PROVE  Accounted(key_failures', leg', entry'[m], m)
<1>1. entry[m] \in Entry /\ now \in Nat
  BY ModelStatsAssumption DEF TypeInv, TypeOK
<1>2. Margin(entry[m]) \in Int /\ Margin(entry'[m]) \in Int /\ Margin(entry'[m]) >= Margin(entry[m])
  BY <1>1, MarginGrows
<1>3. Sum(Counts(key_failures', m), KeyLabels) = Sum(Counts(key_failures, m), KeyLabels)
  BY DEF FailureReported
<1>4. Sum(Counts(key_failures, m), KeyLabels) \in Nat
  BY CountsType DEF TypeInv, TypeOK
<1>5. Cardinality(Between(leg, m)) \in Nat /\ Cardinality(Between(leg', m)) \in Nat
  BY BetweenType
<1>6. CASE leg[i].model # m
  <2>1. Between(leg', m) \subseteq Between(leg, m)
    BY <1>6 DEF Between, FailureReported
  <2>2. Cardinality(Between(leg', m)) <= Cardinality(Between(leg, m))
    BY <2>1, BetweenShrinks
  <2> QED
    BY <1>2, <1>3, <1>4, <1>5, <2>2 DEF Accounted
<1>7. CASE leg[i].model = m
  <2>1. Between(leg', m) \subseteq Between(leg, m) \cup {i}
    BY DEF Between, FailureReported
  <2>2. /\ IsFiniteSet(Between(leg, m) \cup {i})
        /\ Cardinality(Between(leg, m) \cup {i}) <= Cardinality(Between(leg, m)) + 1
    <3> DEFINE B == Between(leg, m)
    <3>1. IsFiniteSet(B) /\ Cardinality(B) \in Nat
      BY BetweenType
    <3> HIDE DEF B
    <3>2. /\ IsFiniteSet(B \cup {i})
          /\ Cardinality(B \cup {i}) = IF i \in B THEN Cardinality(B) ELSE Cardinality(B) + 1
      BY <3>1, FS_AddElement
    <3> QED
      BY <3>1, <3>2 DEF B
  <2>3. Cardinality(Between(leg', m)) <= Cardinality(Between(leg, m)) + 1
    BY <1>5, <2>1, <2>2, FS_Subset, FS_CardinalityType
  <2>4. Margin(entry'[m]) = Margin(entry[m]) + 1
    BY <1>1, <1>7, MarginGrows DEF FailureReported
  <2> QED
    BY <1>2, <1>3, <1>4, <1>5, <2>3, <2>4 DEF Accounted
<1> QED
  BY <1>6, <1>7

\* The second lock charges the key, and the leg is no longer between them.
LEMMA NoteKeyAccounted ==
  ASSUME TypeInv, TypeInv', NEW i \in Legs, NEW k \in KeyLabels, NoteKey(i, k), NEW m \in ModelSet,
         Accounted(key_failures, leg, entry[m], m)
  PROVE  Accounted(key_failures', leg', entry'[m], m)
<1> DEFINE f == Counts(key_failures, m)
           g == Counts(key_failures', m)
           old == key_failures[m][k]
<1>0. /\ IsFiniteSet(KeyLabels)
      /\ key_failures \in [ModelSet -> [KeyLabels -> Nat \cup {Unseen}]]
      /\ key_failures' \in [ModelSet -> [KeyLabels -> Nat \cup {Unseen}]]
  BY ModelStatsAssumption DEF TypeInv, TypeOK
<1>1. UNCHANGED entry /\ leg[i].step = "keyed"
  BY DEF NoteKey
<1>2. /\ Sum(f, KeyLabels) \in Nat /\ Sum(g, KeyLabels) \in Nat
      /\ \A x \in KeyLabels : f[x] \in Nat /\ g[x] \in Nat
  BY <1>0, CountsType
<1>3. Cardinality(Between(leg, m)) \in Nat /\ Cardinality(Between(leg', m)) \in Nat
  BY BetweenType
<1>4. entry[m] \in Entry /\ Margin(entry[m]) \in Int
  BY DEF TypeInv, TypeOK, Entry, Margin
<1>5. /\ \A j \in Legs : j # i => leg'[j] = leg[j]
      /\ leg'[i].step # "keyed"
  <2>1. leg' = [leg EXCEPT ![i] = IF leg[i].hard THEN [leg[i] EXCEPT !.step = "hard"] ELSE IdleLeg]
    BY DEF NoteKey, TypeInv, TypeOK
  <2>2. leg[i] \in Leg /\ leg \in [Legs -> Leg]
    BY DEF TypeInv, TypeOK
  <2> QED
    BY <2>1, <2>2, IdleLegType DEF Leg
<1>6. Between(leg', m) \subseteq Between(leg, m) \ {i}
  BY <1>5 DEF Between
<1>7. CASE leg[i].model # m
  <2>1. key_failures'[m] = key_failures[m]
    BY <1>0, <1>7 DEF NoteKey
  <2>2. g = f
    BY <2>1 DEF Counts
  <2>3. Cardinality(Between(leg', m)) <= Cardinality(Between(leg, m))
    BY <1>6, BetweenShrinks
  <2> QED
    BY <1>1, <1>2, <1>3, <1>4, <2>2, <2>3 DEF Accounted
<1>8. CASE leg[i].model = m
  <2>1. \A x \in KeyLabels \ {k} : key_failures'[m][x] = key_failures[m][x]
    BY <1>0, <1>8 DEF NoteKey
  <2>2. key_failures'[m][k] = IF leg[i].ok THEN 0 ELSE IF old = Unseen THEN 1 ELSE old + 1
    BY <1>0, <1>8 DEF NoteKey
  <2>3. \A x \in KeyLabels \ {k} : g[x] = f[x]
    BY <2>1 DEF Counts
  <2>4. old \in Nat \cup {Unseen}
    BY <1>0
  <2>5. g[k] = IF leg[i].ok THEN 0 ELSE f[k] + 1
    BY <2>2, <2>4 DEF Counts, Unseen
  <2> DEFINE rest == Sum(f, KeyLabels \ {k})
  <2>12. \A x \in KeyLabels : f[x] \in Int /\ g[x] \in Int
    BY <1>2
  <2>6. rest \in Nat
    BY <1>0, <1>2, SumNat, FS_Subset
  <2>7. Sum(f, KeyLabels) = f[k] + rest
    <3>1. IsFiniteSet(KeyLabels) /\ \A x \in KeyLabels : f[x] \in Int
      BY <1>0, <2>12
    <3> HIDE DEF f
    <3>2. \A x \in KeyLabels : Sum(f, KeyLabels) = f[x] + Sum(f, KeyLabels \ {x})
      BY <3>1, SumExtracts, Zenon
    <3> QED
      BY <3>2
  <2>8. Sum(g, KeyLabels) = g[k] + Sum(g, KeyLabels \ {k})
    <3>1. IsFiniteSet(KeyLabels) /\ \A x \in KeyLabels : g[x] \in Int
      BY <1>0, <2>12
    <3> HIDE DEF g
    <3>2. \A x \in KeyLabels : Sum(g, KeyLabels) = g[x] + Sum(g, KeyLabels \ {x})
      BY <3>1, SumExtracts, Zenon
    <3> QED
      BY <3>2
  <2>9. Sum(g, KeyLabels \ {k}) = rest
    BY <1>0, <2>3, SumAgrees, FS_Subset
  <2> HIDE DEF f, g, rest
  <2>10. CASE leg[i].ok
    <3>1. Cardinality(Between(leg', m)) <= Cardinality(Between(leg, m))
      BY <1>6, BetweenShrinks
    <3>2. Sum(g, KeyLabels) <= Sum(f, KeyLabels)
      BY <1>2, <2>5, <2>6, <2>7, <2>8, <2>9, <2>10
    <3> QED
      BY <1>1, <1>2, <1>3, <1>4, <3>1, <3>2 DEF Accounted, f, g
  <2>11. CASE ~leg[i].ok
    <3>1. i \in Between(leg, m)
      BY <1>1, <1>8, <2>11 DEF Between
    <3>2. /\ IsFiniteSet(Between(leg, m) \ {i})
          /\ Cardinality(Between(leg, m) \ {i}) = Cardinality(Between(leg, m)) - 1
      BY <3>1, BetweenType, FS_RemoveElement
    <3>3. Cardinality(Between(leg', m)) <= Cardinality(Between(leg, m)) - 1
      BY <1>6, <3>2, FS_Subset
    <3>4. Sum(g, KeyLabels) = Sum(f, KeyLabels) + 1
      BY <1>2, <2>5, <2>6, <2>7, <2>8, <2>9, <2>11
    <3> QED
      BY <1>1, <1>2, <1>3, <1>4, <3>3, <3>4 DEF Accounted, f, g
  <2> QED
    BY <2>10, <2>11
<1> QED
  BY <1>7, <1>8

\* Every step keeps the accounts.
LEMMA AccountedStep ==
  ASSUME TypeInv, AllAccounted, [Next]_vars
  PROVE  AllAccounted'
<1>1. TypeInv' /\ \A m \in ModelSet : Updated(entry[m], entry'[m])
  BY TypeStep, NextTyped DEF StepTyped
<1>2. ASSUME NEW m \in ModelSet PROVE Accounted(key_failures', leg', entry'[m], m)
  <2>1. Accounted(key_failures, leg, entry[m], m)
    BY DEF AllAccounted
  <2>2. CASE Quiet
    BY <1>1, <2>1, <2>2, QuietAccounted
  <2>3. ASSUME NEW i \in Legs, FailureReported(i) PROVE Accounted(key_failures', leg', entry'[m], m)
    BY <1>1, <2>1, <2>3, FailureAccounted
  <2>4. ASSUME NEW i \in Legs, NEW k \in KeyLabels, NoteKey(i, k)
        PROVE  Accounted(key_failures', leg', entry'[m], m)
    BY <1>1, <2>1, <2>4, NoteKeyAccounted
  <2> QED
    BY <2>2, <2>3, <2>4, StepCharges
<1> QED
  BY <1>2 DEF AllAccounted

\* They hold in the initial state.
LEMMA AccountedInit == Init => AllAccounted
<1> SUFFICES ASSUME Init PROVE \A m \in ModelSet : Accounted(key_failures, leg, entry[m], m)
  BY DEF AllAccounted
<1> TAKE m \in ModelSet
<1>1. Between(leg, m) = {}
  BY IdleLegType DEF Init, Between
<1>2. Cardinality(Between(leg, m)) = 0
  BY <1>1, FS_EmptySet
<1>3. Margin(entry[m]) = 0
  BY DEF Init, NewEntry, Margin
<1> DEFINE f == Counts(key_failures, m)
<1>4. IsFiniteSet(KeyLabels)
  BY ModelStatsAssumption
<1>5. \A k \in KeyLabels : f[k] \in {0}
  BY DEF Init, Counts
<1> DEFINE V == {0}
<1>6. 0 \in V /\ (\A a, b \in V : a + b \in V) /\ \A k \in KeyLabels : f[k] \in V
  BY <1>5
<1> HIDE DEF V, f
<1>7. Sum(f, KeyLabels) \in V
  BY <1>4, <1>6, SumType, Zenon
<1>8. Sum(f, KeyLabels) = 0
  BY <1>7 DEF V
<1> QED
  BY <1>2, <1>3, <1>8 DEF Accounted, f

\* A model is never charged more key failures than the failures it reported,
\* those of legs still between the two locks included.
THEOREM KeyFailuresNeverExceed == Spec => []KeyFailuresAccounted
<1>1. Spec => [](TypeInv /\ AllAccounted)
  BY AccountedInit, TypeInit, TypeStep, AccountedStep, PTL DEF Spec
<1> QED
  BY <1>1, AccountedMeans, PTL

-----------------------------------------------------------------------------
(* The list of a race.                                                     *)

\* w lists the members of T, each of them once.
Lists(w, T) ==
  /\ w \in Seq(T) /\ Len(w) = Cardinality(T) /\ ToSet(w) = T
  /\ \A i, j \in 1 .. Len(w) : w[i] = w[j] => i = j

\* The first k of a list.
Prefix(w, k) == SubSeq(w, 1, k)

\* A list has every member of its set at an index.
LEMMA ListsIndex ==
  ASSUME NEW w, NEW T, Lists(w, T)
  PROVE  /\ Len(w) \in Nat /\ \A i \in 1 .. Len(w) : w[i] \in T
         /\ \A x \in T : \E i \in 1 .. Len(w) : w[i] = x
BY DEF Lists, ToSet

\* A list of one.
LEMMA ListsOne ==
  ASSUME NEW x
  PROVE  Lists(<<x>>, {x})
<1>1. Cardinality({x}) = 1
  BY FS_Singleton
<1>2. <<x>> \in Seq({x}) /\ Len(<<x>>) = 1 /\ <<x>>[1] = x
  OBVIOUS
<1>3. ToSet(<<x>>) = {x}
  BY <1>2 DEF ToSet
<1> QED
  BY <1>1, <1>2, <1>3 DEF Lists

\* Two lists of disjoint sets, one after the other, list the union.
LEMMA ListsConcat ==
  ASSUME NEW v, NEW V, Lists(v, V), NEW w, NEW W, Lists(w, W), V \cap W = {},
         IsFiniteSet(V), IsFiniteSet(W)
  PROVE  /\ Lists(v \o w, V \cup W) /\ Len(v \o w) = Len(v) + Len(w)
         /\ \A i \in 1 .. Len(v) : (v \o w)[i] = v[i]
         /\ \A i \in 1 .. Len(w) : (v \o w)[Len(v) + i] = w[i]
<1> DEFINE u == v \o w
           m == Len(v)
           n == Len(w)
<1>1. /\ v \in Seq(V \cup W) /\ w \in Seq(V \cup W) /\ m \in Nat /\ n \in Nat
      /\ \A i \in 1 .. m : v[i] \in V
      /\ \A i \in 1 .. n : w[i] \in W
  <2>1. v \in Seq(V) /\ w \in Seq(W)
    BY DEF Lists
  <2> QED
    BY <2>1
<1>2. u \in Seq(V \cup W) /\ Len(u) = m + n
  BY <1>1
<1>3. \A i \in 1 .. m : u[i] = v[i]
  BY <1>1
<1>4. \A i \in 1 .. n : u[m + i] = w[i]
  BY <1>1
<1> HIDE DEF u, m, n
<1>5. \A i \in 1 .. m + n : i \in 1 .. m \/ \E j \in 1 .. n : i = m + j
  <2> TAKE i \in 1 .. m + n
  <2>1. CASE i <= m
    BY <1>1, <2>1
  <2>2. CASE i > m
    <3>1. i - m \in 1 .. n /\ i = m + (i - m)
      BY <1>1, <2>2
    <3> QED
      BY <3>1
  <2> QED
    BY <1>1, <2>1, <2>2
<1>6. \A i, j \in 1 .. m + n : u[i] = u[j] => i = j
  <2>1. \A i, j \in 1 .. m : v[i] = v[j] => i = j
    BY DEF Lists, m
  <2>2. \A i, j \in 1 .. n : w[i] = w[j] => i = j
    BY DEF Lists, n
  <2> TAKE i, j \in 1 .. m + n
  <2>3. CASE i \in 1 .. m /\ j \in 1 .. m
    BY <1>3, <2>1, <2>3
  <2>4. ASSUME i \in 1 .. m, NEW b \in 1 .. n, j = m + b PROVE u[i] # u[j]
    BY <1>1, <1>3, <1>4, <2>4
  <2>5. ASSUME j \in 1 .. m, NEW b \in 1 .. n, i = m + b PROVE u[i] # u[j]
    BY <1>1, <1>3, <1>4, <2>5
  <2>6. ASSUME NEW a \in 1 .. n, i = m + a, NEW b \in 1 .. n, j = m + b PROVE u[i] = u[j] => i = j
    BY <1>4, <2>2, <2>6
  <2> QED
    BY <1>5, <2>3, <2>4, <2>5, <2>6
<1>7. ToSet(u) = V \cup W
  <2>1. DOMAIN u = 1 .. m + n
    BY <1>1, <1>2
  <2>2. \A x \in V \cup W : \E i \in 1 .. m + n : u[i] = x
    <3>1. ASSUME NEW x \in V PROVE \E i \in 1 .. m + n : u[i] = x
      <4>1. PICK i \in 1 .. m : v[i] = x
        BY ListsIndex DEF m
      <4> QED
        BY <1>1, <1>3, <4>1
    <3>2. ASSUME NEW x \in W PROVE \E i \in 1 .. m + n : u[i] = x
      <4>1. PICK i \in 1 .. n : w[i] = x
        BY ListsIndex DEF n
      <4>2. m + i \in 1 .. m + n
        BY <1>1
      <4> QED
        BY <1>4, <4>1, <4>2
    <3> QED
      BY <3>1, <3>2
  <2>3. \A i \in 1 .. m + n : u[i] \in V \cup W
    BY <1>2
  <2> QED
    BY <2>1, <2>2, <2>3 DEF ToSet
<1>8. Cardinality(V \cup W) = m + n
  <2>1. Cardinality(V) = m /\ Cardinality(W) = n
    BY DEF Lists, m, n
  <2>2. Cardinality(V \cup W) = Cardinality(V) + Cardinality(W) - Cardinality(V \cap W)
    BY FS_Union
  <2>3. Cardinality({}) = 0
    BY FS_EmptySet
  <2>4. Cardinality(V \cap W) = 0
    BY <2>3
  <2> QED
    BY <1>1, <2>1, <2>2, <2>4
<1>9. Lists(u, V \cup W)
  BY <1>2, <1>6, <1>7, <1>8 DEF Lists
<1> QED
  BY <1>2, <1>3, <1>4, <1>9 DEF u, m, n

\* A prefix of a list has distinct members of the set.
LEMMA PrefixLists ==
  ASSUME NEW w, NEW T, Lists(w, T), NEW k \in 0 .. Len(w)
  PROVE  /\ Prefix(w, k) \in Seq(T) /\ Len(Prefix(w, k)) = k
         /\ IsInjective(Prefix(w, k))
         /\ ToSet(Prefix(w, k)) = {w[i] : i \in 1 .. k}
         /\ ToSet(Prefix(w, k)) \subseteq T
<1> DEFINE q == Prefix(w, k)
<1>1. w \in Seq(T) /\ Len(w) \in Nat /\ k \in Nat /\ k <= Len(w)
  BY ListsIndex DEF Lists
<1>2. q \in Seq(T) /\ Len(q) = k /\ \A i \in 1 .. k : q[i] = w[i]
  BY <1>1 DEF Prefix
<1>3. DOMAIN q = 1 .. k
  BY <1>1, <1>2
<1> HIDE DEF q
<1>4. \A i, j \in 1 .. k : q[i] = q[j] => i = j
  BY <1>1, <1>2 DEF Lists
<1>5. IsInjective(q)
  BY <1>3, <1>4 DEF IsInjective
<1>6. ToSet(q) = {w[i] : i \in 1 .. k}
  BY <1>2, <1>3 DEF ToSet
<1>7. {w[i] : i \in 1 .. k} \subseteq T
  BY <1>1
<1> QED
  BY <1>2, <1>5, <1>6, <1>7 DEF q

\* Of two lists one after the other, a prefix that is as long as the first has
\* all of it, and one that has something of the second has too.
LEMMA PrefixCovers ==
  ASSUME NEW v, NEW V, Lists(v, V), NEW w, NEW W, Lists(w, W), V \cap W = {},
         IsFiniteSet(V), IsFiniteSet(W), NEW k \in 0 .. Len(v \o w)
  PROVE  /\ k >= Len(v) => V \subseteq ToSet(Prefix(v \o w, k))
         /\ ToSet(Prefix(v \o w, k)) \cap W # {} => V \subseteq ToSet(Prefix(v \o w, k))
         /\ k <= Len(v) => ToSet(Prefix(v \o w, k)) \subseteq V
<1> DEFINE u == v \o w
           q == ToSet(Prefix(u, k))
<1>1. /\ Lists(u, V \cup W) /\ Len(u) = Len(v) + Len(w)
      /\ \A i \in 1 .. Len(v) : u[i] = v[i]
  BY ListsConcat
<1>2. q = {u[i] : i \in 1 .. k}
  BY <1>1, PrefixLists
<1>3. Len(v) \in Nat /\ Len(w) \in Nat /\ k \in Nat /\ k <= Len(u)
  BY <1>1, ListsIndex
<1> HIDE DEF u, q
<1>4. \A x \in V : \E i \in 1 .. Len(v) : u[i] = x
  BY <1>1, ListsIndex
<1>5. \A i \in 1 .. Len(v) : u[i] \in V
  BY <1>1, ListsIndex
<1>6. k >= Len(v) => V \subseteq q
  BY <1>2, <1>3, <1>4
<1>7. k <= Len(v) => q \subseteq V
  BY <1>2, <1>3, <1>5
<1>8. q \cap W # {} => k >= Len(v)
  BY <1>3, <1>7
<1> QED
  BY <1>6, <1>7, <1>8 DEF u, q

\* A list that a race is given, over the buckets it comes from: distinct models
\* of them, at most one probe, as many as there are up to max, no failing model
\* but after all the healthy and slow ones, no slow one but after all the
\* healthy ones, and no probe without a healthy model if there is one.
Selected(q, H, S, F, P, max) ==
  /\ IsInjective(q) /\ ToSet(q) \subseteq H \cup S \cup F \cup P
  /\ Cardinality(ToSet(q) \cap P) <= 1
  /\ Len(q) = Least(max, Cardinality(H \cup S \cup F) + Least(1, Cardinality(P)))
  /\ ToSet(q) \cap F # {} => H \cup S \subseteq ToSet(q)
  /\ ToSet(q) \cap S # {} => H \subseteq ToSet(q)
  /\ ToSet(q) \cap P # {} /\ H # {} => ToSet(q) \cap H # {}

\* The buckets of a race, each with its list.
Bucketed(h, H, s, S, f, F, p, P) ==
  /\ IsFiniteSet(H) /\ IsFiniteSet(S) /\ IsFiniteSet(F) /\ IsFiniteSet(P)
  /\ Lists(h, H) /\ Lists(s, S) /\ Lists(f, F) /\ Lists(p, P)
  /\ H \cap S = {} /\ H \cap F = {} /\ H \cap P = {}
  /\ S \cap F = {} /\ S \cap P = {} /\ F \cap P = {}

\* The healthy, the slow and the failing models, one after the other.
LEMMA FitLists ==
  ASSUME NEW h, NEW H, NEW s, NEW S, NEW f, NEW F, NEW p, NEW P,
         Bucketed(h, H, s, S, f, F, p, P)
  PROVE  /\ Lists(h \o s, H \cup S) /\ Len(h \o s) = Len(h) + Len(s)
         /\ Lists(s \o f, S \cup F) /\ Len(s \o f) = Len(s) + Len(f)
         /\ Lists((h \o s) \o f, H \cup S \cup F)
         /\ Len((h \o s) \o f) = Len(h) + Len(s) + Len(f)
         /\ (h \o s) \o f = h \o (s \o f)
         /\ IsFiniteSet(H \cup S) /\ IsFiniteSet(S \cup F) /\ IsFiniteSet(H \cup S \cup F)
<1>1. Lists(h \o s, H \cup S) /\ Len(h \o s) = Len(h) + Len(s)
  BY ListsConcat DEF Bucketed
<1>2. Lists(s \o f, S \cup F) /\ Len(s \o f) = Len(s) + Len(f)
  BY ListsConcat DEF Bucketed
<1>3. IsFiniteSet(H \cup S) /\ IsFiniteSet(S \cup F) /\ IsFiniteSet(H \cup S \cup F)
  BY FS_Union DEF Bucketed
<1>4. (H \cup S) \cap F = {}
  BY DEF Bucketed
<1>5. Lists((h \o s) \o f, H \cup S \cup F) /\ Len((h \o s) \o f) = Len(h \o s) + Len(f)
  BY <1>1, <1>3, <1>4, ListsConcat DEF Bucketed
<1>6. (h \o s) \o f = h \o (s \o f)
  <2>1. h \in Seq(H \cup S \cup F) /\ s \in Seq(H \cup S \cup F) /\ f \in Seq(H \cup S \cup F)
    <3>1. h \in Seq(H) /\ s \in Seq(S) /\ f \in Seq(F)
      BY DEF Bucketed, Lists
    <3> QED
      BY <3>1
  <2> QED
    BY <2>1
<1> QED
  BY <1>1, <1>2, <1>3, <1>5, <1>6

\* Without a probe the list is what fits of the others.
LEMMA SelectedWithoutProbe ==
  ASSUME NEW h, NEW H, NEW s, NEW S, NEW f, NEW F, NEW p, NEW P, NEW max \in Nat,
         Bucketed(h, H, s, S, f, F, p, P), p = <<>> \/ max <= Len(h \o s),
         NEW q, q = Prefix((h \o s) \o f, Least(max, Len((h \o s) \o f)))
  PROVE  Selected(q, H, S, F, P, max)
<1> DEFINE w == (h \o s) \o f
           k == Least(max, Len(w))
<1>1. Lists(w, H \cup S \cup F) /\ Len(w) = Len(h) + Len(s) + Len(f) /\ Len(h \o s) = Len(h) + Len(s)
  <2>1. Lists(w, H \cup S \cup F)
    BY FitLists
  <2>2. Len(w) = Len(h) + Len(s) + Len(f)
    BY FitLists
  <2>3. Len(h \o s) = Len(h) + Len(s)
    BY FitLists
  <2> QED
    BY <2>1, <2>2, <2>3
<1>2. Len(h) \in Nat /\ Len(s) \in Nat /\ Len(f) \in Nat /\ Len(p) \in Nat /\ Len(p) = Cardinality(P)
  BY ListsIndex DEF Bucketed, Lists
<1>3. k \in 0 .. Len(w)
  BY <1>1, <1>2 DEF Least
<1>4. IsInjective(q) /\ ToSet(q) \subseteq H \cup S \cup F /\ Len(q) = k
  BY <1>1, <1>3, PrefixLists
<1>5. ToSet(q) \cap P = {}
  BY <1>4 DEF Bucketed
<1>6. Cardinality(ToSet(q) \cap P) <= 1
  <2>1. Cardinality({}) = 0
    BY FS_EmptySet
  <2>2. Cardinality(ToSet(q) \cap P) = 0
    BY <1>5, <2>1, Zenon
  <2> QED
    BY <2>2
<1>7. Len(q) = Least(max, Cardinality(H \cup S \cup F) + Least(1, Cardinality(P)))
  <2>1. Cardinality(H \cup S \cup F) = Len(w)
    BY <1>1 DEF Lists
  <2>2. CASE p = <<>>
    <3>1. Cardinality(P) = 0
      BY <1>2, <2>2
    <3> QED
      BY <1>1, <1>2, <1>4, <2>1, <3>1 DEF Least
  <2>3. CASE max <= Len(h \o s)
    BY <1>1, <1>2, <1>4, <2>1, <2>3 DEF Least
  <2> QED
    BY <2>2, <2>3
<1>8. ToSet(q) \cap F # {} => H \cup S \subseteq ToSet(q)
  <2>1. (H \cup S) \cap F = {} /\ IsFiniteSet(F) /\ Lists(f, F)
    BY DEF Bucketed
  <2>2. Lists(h \o s, H \cup S) /\ IsFiniteSet(H \cup S)
    BY FitLists, Zenon
  <2>3. k \in 0 .. Len((h \o s) \o f) /\ q = Prefix((h \o s) \o f, k)
    BY <1>3
  <2> HIDE DEF k
  <2> QED
    BY <2>1, <2>2, <2>3, PrefixCovers, Zenon
<1>9. ToSet(q) \cap S # {} => H \subseteq ToSet(q)
  <2>1. H \cap (S \cup F) = {} /\ IsFiniteSet(H) /\ Lists(h, H)
    BY DEF Bucketed
  <2>2. Lists(s \o f, S \cup F) /\ IsFiniteSet(S \cup F) /\ w = h \o (s \o f)
    <3>1. Lists(s \o f, S \cup F)
      BY FitLists
    <3>2. IsFiniteSet(S \cup F)
      BY FitLists
    <3>3. w = h \o (s \o f)
      BY FitLists
    <3> QED
      BY <3>1, <3>2, <3>3
  <2>3. ToSet(q) \cap (S \cup F) # {} => H \subseteq ToSet(q)
    <3>1. k \in 0 .. Len(h \o (s \o f)) /\ q = Prefix(h \o (s \o f), k)
      BY <1>3, <2>2
    <3> HIDE DEF k, w
    <3> QED
      BY <2>1, <2>2, <3>1, PrefixCovers
  <2> QED
    BY <2>3
<1> QED
  BY <1>4, <1>5, <1>6, <1>7, <1>8, <1>9 DEF Selected

\* A probe that fits comes after the healthy and the slow models.
LEMMA SelectedWithProbe ==
  ASSUME NEW h, NEW H, NEW s, NEW S, NEW f, NEW F, NEW p, NEW P, NEW max \in Nat,
         Bucketed(h, H, s, S, f, F, p, P), p # <<>>, Len(h \o s) < max,
         NEW q, q = Prefix(Append(h \o s, p[1]) \o f, Least(max, Len(Append(h \o s, p[1]) \o f)))
  PROVE  Selected(q, H, S, F, P, max)
<1> DEFINE a == h \o s
           x == p[1]
           b == a \o <<x>>
           w == b \o f
           k == Least(max, Len(w))
           A == H \cup S
           B == A \cup {x}
<1>1. /\ Lists(a, A) /\ IsFiniteSet(A) /\ Len(a) = Len(h) + Len(s)
      /\ Lists(a \o f, A \cup F)
  <2>1. Lists(a, A)
    BY FitLists
  <2>2. IsFiniteSet(A)
    BY FitLists
  <2>3. Len(a) = Len(h) + Len(s)
    BY FitLists
  <2>4. Lists(a \o f, A \cup F)
    BY FitLists
  <2> QED
    BY <2>1, <2>2, <2>3, <2>4
<1>2. /\ Len(h) \in Nat /\ Len(s) \in Nat /\ Len(f) \in Nat /\ Len(p) \in Nat /\ Len(p) = Cardinality(P)
      /\ Len(p) > 0 /\ x \in P
  <2>1. p \in Seq(P)
    BY DEF Bucketed, Lists
  <2>2. Len(p) > 0 /\ x \in P
    BY <2>1
  <2> QED
    BY <2>2, ListsIndex DEF Bucketed, Lists
<1>3. x \notin A /\ x \notin F /\ A \cap F = {} /\ B \cap F = {} /\ A \cap {x} = {}
  BY <1>2 DEF Bucketed
<1>4. Append(a, x) = b
  <2>1. a \in Seq(A)
    BY <1>1 DEF Lists
  <2> QED
    BY <2>1
<1>5. Lists(<<x>>, {x}) /\ IsFiniteSet({x}) /\ Len(<<x>>) = 1
  BY ListsOne, FS_Singleton
<1> HIDE DEF a, x, A
<1>6. Lists(b, B) /\ Len(b) = Len(a) + 1
  BY <1>1, <1>3, <1>5, ListsConcat
<1>7. IsFiniteSet(B)
  BY <1>1, <1>5, FS_Union
<1>8. Lists(f, F) /\ IsFiniteSet(F)
  BY DEF Bucketed
<1> HIDE DEF b, B
<1>9. Lists(w, B \cup F) /\ Len(w) = Len(b) + Len(f)
  BY <1>3, <1>6, <1>7, <1>8, ListsConcat
<1>10. k \in 0 .. Len(w) /\ k >= Len(a)
  BY <1>1, <1>2, <1>6, <1>9 DEF Least, a
<1>11. q = Prefix(w, k)
  BY <1>4 DEF a, x
<1> HIDE DEF w, k
<1>12. IsInjective(q) /\ ToSet(q) \subseteq B \cup F /\ Len(q) = k
  BY <1>9, <1>10, <1>11, PrefixLists
<1>13. ToSet(q) \cap F # {} => B \subseteq ToSet(q)
  BY <1>3, <1>6, <1>7, <1>8, <1>10, <1>11, PrefixCovers DEF w
<1>14. A \subseteq ToSet(q)
  <2>1. w = a \o (<<x>> \o f)
    <3>1. a \in Seq(B \cup F) /\ <<x>> \in Seq(B \cup F) /\ f \in Seq(B \cup F)
      <4>1. a \in Seq(A) /\ f \in Seq(F) /\ <<x>> \in Seq({x})
        BY <1>1, <1>8 DEF Lists
      <4> QED
        BY <4>1 DEF B
    <3> QED
      BY <3>1 DEF w, b
  <2>2. Lists(<<x>> \o f, {x} \cup F) /\ IsFiniteSet({x} \cup F)
    BY <1>3, <1>5, <1>8, ListsConcat, FS_Union
  <2>3. A \cap ({x} \cup F) = {}
    BY <1>3
  <2> QED
    BY <1>1, <1>10, <1>11, <2>1, <2>2, <2>3, PrefixCovers
<1>15. ToSet(q) \subseteq H \cup S \cup F \cup P
  BY <1>2, <1>12 DEF A, B
<1>16. Cardinality(ToSet(q) \cap P) <= 1
  <2>1. ToSet(q) \cap P \subseteq {x}
    BY <1>12 DEF A, B, Bucketed
  <2>2. Cardinality({x}) = 1 /\ Cardinality({}) = 0
    BY FS_Singleton, FS_EmptySet
  <2>3. ToSet(q) \cap P = {} \/ ToSet(q) \cap P = {x}
    BY <2>1
  <2>4. Cardinality(ToSet(q) \cap P) = 0 \/ Cardinality(ToSet(q) \cap P) = 1
    BY <2>2, <2>3, Zenon
  <2> QED
    BY <2>4
<1>17. Len(q) = Least(max, Cardinality(H \cup S \cup F) + Least(1, Cardinality(P)))
  <2>1. Cardinality(H \cup S \cup F) = Len(a) + Len(f)
    <3>1. Cardinality(H \cup S \cup F) = Len((h \o s) \o f)
      BY <1>1 DEF Lists, A, a
    <3>2. Len((h \o s) \o f) = Len(h) + Len(s) + Len(f)
      BY FitLists
    <3> QED
      BY <1>1, <1>2, <3>1, <3>2
  <2>2. Least(1, Cardinality(P)) = 1
    BY <1>2 DEF Least
  <2>3. Len(w) = Len(a) + Len(f) + 1
    BY <1>1, <1>2, <1>6, <1>9
  <2> QED
    BY <1>12, <2>1, <2>2, <2>3 DEF k
<1>18. H \subseteq ToSet(q) /\ S \subseteq ToSet(q)
  BY <1>14 DEF A
<1> QED
  BY <1>12, <1>15, <1>16, <1>17, <1>18 DEF Selected

\* A probe that displaces the last healthy model of a full list.
LEMMA SelectedDisplacing ==
  ASSUME NEW h, NEW H, NEW s, NEW S, NEW f, NEW F, NEW p, NEW P, NEW max \in Nat,
         Bucketed(h, H, s, S, f, F, p, P), p # <<>>, max >= 2, max <= Len(h),
         NEW q, q \in Seq(H \cup P), Len(q) = max, q[max] = p[1],
         \A i \in 1 .. max - 1 : q[i] = h[i]
  PROVE  Selected(q, H, S, F, P, max)
<1> DEFINE x == p[1]
<1>1. /\ x \in P /\ Len(p) > 0 /\ Len(p) = Cardinality(P) /\ Len(p) \in Nat
  <2>1. p \in Seq(P) /\ Len(p) = Cardinality(P)
    BY DEF Bucketed, Lists
  <2> QED
    BY <2>1
<1>2. /\ Len(h) \in Nat /\ \A i \in 1 .. Len(h) : h[i] \in H
      /\ \A i, j \in 1 .. Len(h) : h[i] = h[j] => i = j
  BY ListsIndex DEF Bucketed, Lists
<1>3. H \cap P = {} /\ H \cap S = {} /\ H \cap F = {} /\ S \cap P = {} /\ F \cap P = {}
  BY DEF Bucketed
<1>4. DOMAIN q = 1 .. max
  OBVIOUS
<1> HIDE DEF x
<1>5. \A i \in 1 .. max : i \in 1 .. max - 1 \/ i = max
  OBVIOUS
<1>6. /\ \A i \in 1 .. max - 1 : q[i] = h[i] /\ q[i] \in H
      /\ q[max] = x
  BY <1>2 DEF x
<1>7. \A i, j \in 1 .. max : q[i] = q[j] => i = j
  <2> TAKE i, j \in 1 .. max
  <2>1. CASE i \in 1 .. max - 1 /\ j \in 1 .. max - 1
    BY <1>2, <1>6, <2>1
  <2>2. CASE i \in 1 .. max - 1 /\ j = max
    BY <1>1, <1>3, <1>6, <2>2
  <2>3. CASE i = max /\ j \in 1 .. max - 1
    BY <1>1, <1>3, <1>6, <2>3
  <2> QED
    BY <1>5, <2>1, <2>2, <2>3
<1>8. IsInjective(q)
  BY <1>4, <1>7 DEF IsInjective
<1>9. ToSet(q) \subseteq H \cup {x}
  BY <1>4, <1>5, <1>6 DEF ToSet
<1>10. ToSet(q) \cap F = {} /\ ToSet(q) \cap S = {} /\ ToSet(q) \subseteq H \cup S \cup F \cup P
  BY <1>1, <1>3, <1>9
<1>11. Cardinality(ToSet(q) \cap P) <= 1
  <2>1. ToSet(q) \cap P = {} \/ ToSet(q) \cap P = {x}
    BY <1>3, <1>9
  <2>2. Cardinality({x}) = 1 /\ Cardinality({}) = 0
    BY FS_Singleton, FS_EmptySet
  <2>3. Cardinality(ToSet(q) \cap P) = 0 \/ Cardinality(ToSet(q) \cap P) = 1
    BY <2>1, <2>2, Zenon
  <2> QED
    BY <2>3
<1>12. Len(q) = Least(max, Cardinality(H \cup S \cup F) + Least(1, Cardinality(P)))
  <2>1. Cardinality(H \cup S \cup F) = Len((h \o s) \o f)
    <3>1. Lists((h \o s) \o f, H \cup S \cup F)
      BY FitLists
    <3> QED
      BY <3>1 DEF Lists
  <2>2. Len((h \o s) \o f) = Len(h) + Len(s) + Len(f)
    BY FitLists
  <2>3. Len(s) \in Nat /\ Len(f) \in Nat
    BY ListsIndex DEF Bucketed
  <2> QED
    BY <1>1, <1>2, <2>1, <2>2, <2>3 DEF Least
<1>13. ToSet(q) \cap H # {}
  <2>1. 1 \in 1 .. max - 1 /\ 1 \in DOMAIN q
    BY <1>4
  <2>2. q[1] \in H /\ q[1] \in ToSet(q)
    BY <1>6, <2>1 DEF ToSet
  <2> QED
    BY <2>2
<1> QED
  BY <1>8, <1>10, <1>11, <1>12, <1>13 DEF Selected

\* A race for no model is given none.
LEMMA SelectedNone ==
  ASSUME NEW H, NEW S, NEW F, NEW P, IsFiniteSet(H \cup S \cup F), IsFiniteSet(P)
  PROVE  Selected(<<>>, H, S, F, P, 0)
<1>1. Cardinality(H \cup S \cup F) \in Nat /\ Cardinality(P) \in Nat /\ Cardinality({}) = 0
  BY FS_CardinalityType, FS_EmptySet
<1>2. ToSet(<<>>) = {} /\ IsInjective(<<>>) /\ Len(<<>>) = 0
  BY DEF ToSet, IsInjective
<1>3. Cardinality(ToSet(<<>>) \cap P) = 0
  <2>1. ToSet(<<>>) \cap P = {}
    BY <1>2
  <2> QED
    BY <1>1, <2>1, Zenon
<1>4. Len(<<>>) = Least(0, Cardinality(H \cup S \cup F) + Least(1, Cardinality(P)))
  BY <1>1, <1>2 DEF Least
<1> QED
  BY <1>2, <1>3, <1>4 DEF Selected

\* Sequences of one length with the same members are one sequence.
LEMMA SameSeq ==
  ASSUME NEW V, NEW v \in Seq(V), NEW w \in Seq(V), Len(v) = Len(w),
         \A i \in 1 .. Len(v) : v[i] = w[i]
  PROVE  v = w
<1>1. v = [i \in 1 .. Len(v) |-> v[i]] /\ w = [i \in 1 .. Len(w) |-> w[i]]
  OBVIOUS
<1> QED
  BY <1>1, Zenon

\* At most max of a sequence, as the code takes them.
Take(z, max) == SubSeq(z, 1, IF Len(z) < max THEN Len(z) ELSE max)

\* What is taken of a sequence is a prefix of it.
LEMMA TakeType ==
  ASSUME NEW V, NEW z \in Seq(V), NEW max \in Nat
  PROVE  /\ Take(z, max) \in Seq(V) /\ Len(Take(z, max)) = Least(max, Len(z))
         /\ Len(Take(z, max)) \in Nat /\ Len(Take(z, max)) <= Len(z)
         /\ \A i \in 1 .. Len(Take(z, max)) : Take(z, max)[i] = z[i]
         /\ Take(z, max) = Prefix(z, Least(max, Len(z)))
<1> DEFINE k == IF Len(z) < max THEN Len(z) ELSE max
<1>1. k \in Nat /\ k <= Len(z) /\ Len(z) \in Nat /\ k = Least(max, Len(z))
  BY DEF Least
<1> HIDE DEF k
<1>2. SubSeq(z, 1, k) \in Seq(V) /\ Len(SubSeq(z, 1, k)) = k /\ \A i \in 1 .. k : SubSeq(z, 1, k)[i] = z[i]
  BY <1>1
<1> QED
  BY <1>1, <1>2 DEF Take, Prefix, k

\* Taking twice is taking once.
LEMMA TakeTwice ==
  ASSUME NEW V, NEW a \in Seq(V), NEW f \in Seq(V), NEW max \in Nat
  PROVE  Take(Take(a, max) \o f, max) = Take(a \o f, max)
<1> DEFINE b == Take(a, max)
           v == b \o f
           w == a \o f
<1>1. /\ b \in Seq(V) /\ Len(b) = Least(max, Len(a)) /\ Len(a) \in Nat /\ Len(f) \in Nat
      /\ \A i \in 1 .. Len(b) : b[i] = a[i]
  BY TakeType
<1> HIDE DEF b
<1>2. /\ v \in Seq(V) /\ Len(v) = Len(b) + Len(f) /\ w \in Seq(V) /\ Len(w) = Len(a) + Len(f)
      /\ \A i \in 1 .. Len(b) : v[i] = b[i]
      /\ \A i \in 1 .. Len(a) : w[i] = a[i]
  BY <1>1
<1>3. CASE Len(a) <= max
  <2>1. Len(b) = Len(a)
    BY <1>1, <1>3 DEF Least
  <2>2. b = a
    BY <1>1, <2>1, SameSeq
  <2> QED
    BY <2>2 DEF b
<1>4. CASE Len(a) > max
  <2>1. Len(b) = max
    BY <1>1, <1>4 DEF Least
  <2> HIDE DEF v, w
  <2>2. /\ Take(v, max) \in Seq(V) /\ Len(Take(v, max)) = max
        /\ Take(w, max) \in Seq(V) /\ Len(Take(w, max)) = max
        /\ \A i \in 1 .. max : Take(v, max)[i] = v[i] /\ Take(w, max)[i] = w[i]
    <3>1. Least(max, Len(v)) = max /\ Least(max, Len(w)) = max
      BY <1>1, <1>2, <1>4, <2>1 DEF Least
    <3>2. Len(Take(v, max)) = max /\ Len(Take(w, max)) = max
      BY <1>2, <3>1, TakeType
    <3> QED
      BY <1>2, <3>2, TakeType
  <2>3. \A i \in 1 .. max : v[i] = a[i] /\ w[i] = a[i]
    BY <1>1, <1>2, <1>4, <2>1
  <2>4. Take(v, max) = Take(w, max)
    BY <2>2, <2>3, SameSeq
  <2> QED
    BY <2>4 DEF v, w, b
<1> QED
  BY <1>1, <1>3, <1>4

\* select_candidates_with_probe, whatever the lists of the buckets are.
LEMMA SelectWithProbeSelects ==
  ASSUME NEW h, NEW H, NEW s, NEW S, NEW f, NEW F, NEW p, NEW P, NEW max \in Nat,
         Bucketed(h, H, s, S, f, F, p, P)
  PROVE  Selected(SelectWithProbe(h, s, f, p, max), H, S, F, P, max)
<1> DEFINE a      == h \o s
           base   == Take(a, max)
           slowIn == Len(base) > Len(Take(h, max))
           probed == CASE p = <<>> -> base
                       [] p # <<>> /\ Len(base) < max -> Append(base, p[1])
                       [] p # <<>> /\ Len(base) >= max ->
                            IF max >= 2 /\ ~slowIn THEN Append(Front(base), p[1]) ELSE base
           q      == SelectWithProbe(h, s, f, p, max)
           V      == H \cup S \cup F \cup P
<1>1. q = IF max = 0 THEN <<>> ELSE Take(probed \o f, max)
  BY DEF SelectWithProbe, Take
<1>2. h \in Seq(V) /\ s \in Seq(V) /\ f \in Seq(V) /\ p \in Seq(V)
  <2>1. h \in Seq(H) /\ s \in Seq(S) /\ f \in Seq(F) /\ p \in Seq(P)
    BY DEF Bucketed, Lists
  <2> QED
    BY <2>1
<1> HIDE DEF V
<1>3. /\ a \in Seq(V) /\ Len(a) = Len(h) + Len(s) /\ \A i \in 1 .. Len(h) : a[i] = h[i]
      /\ Len(h) \in Nat /\ Len(s) \in Nat
  BY <1>2
<1> HIDE DEF a
<1>4. /\ base \in Seq(V) /\ Len(base) = Least(max, Len(a)) /\ Len(Take(h, max)) = Least(max, Len(h))
      /\ \A i \in 1 .. Len(base) : base[i] = a[i]
  BY <1>2, <1>3, TakeType
<1> HIDE DEF q, base
<1>5. CASE max = 0
  <2>1. q = <<>>
    BY <1>1, <1>5
  <2>2. IsFiniteSet(H \cup S \cup F) /\ IsFiniteSet(P)
    BY FS_Union DEF Bucketed
  <2>3. Selected(<<>>, H, S, F, P, 0)
    BY <2>2, SelectedNone
  <2> QED
    BY <1>5, <2>1, <2>3 DEF q
<1>6. CASE max # 0 /\ (p = <<>> \/ (Len(base) >= max /\ (max < 2 \/ slowIn)))
  <2>1. probed = base
    <3>1. CASE p = <<>>
      BY <3>1
    <3>2. CASE p # <<>>
      <4>1. Len(base) >= max /\ ~(Len(base) < max) /\ ~(max >= 2 /\ ~slowIn)
        BY <1>3, <1>4, <1>6, <3>2 DEF Least
      <4> HIDE DEF slowIn
      <4> QED
        BY <3>2, <4>1
    <3> QED
      BY <3>1, <3>2
  <2>2. q = Take(a \o f, max)
    BY <1>1, <1>2, <1>3, <1>6, <2>1, TakeTwice DEF base
  <2>3. q = Prefix(a \o f, Least(max, Len(a \o f)))
    <3>1. a \o f \in Seq(V)
      BY <1>2, <1>3
    <3> QED
      BY <2>2, <3>1, TakeType
  <2>4. p = <<>> \/ max <= Len(a)
    BY <1>3, <1>4, <1>6 DEF Least
  <2> QED
    BY <2>3, <2>4, SelectedWithoutProbe DEF q, a
<1>7. CASE max # 0 /\ p # <<>> /\ Len(base) < max
  <2>1. Len(a) < max /\ Len(base) = Len(a)
    BY <1>3, <1>4, <1>7 DEF Least
  <2>2. base = a
    BY <1>3, <1>4, <2>1, SameSeq
  <2>3. probed = Append(a, p[1])
    BY <1>7, <2>2
  <2>4. p[1] \in V
    BY <1>2, <1>7
  <2>5. Append(a, p[1]) \o f \in Seq(V)
    BY <1>2, <1>3, <2>4
  <2>6. q = Take(Append(a, p[1]) \o f, max)
    BY <1>1, <1>7, <2>3
  <2>7. q = Prefix(Append(a, p[1]) \o f, Least(max, Len(Append(a, p[1]) \o f)))
    BY <2>5, <2>6, TakeType
  <2> QED
    BY <1>7, <2>1, <2>7, SelectedWithProbe DEF q, a
<1>8. CASE max >= 2 /\ p # <<>> /\ Len(base) >= max /\ ~slowIn
  <2> DEFINE b == Append(Front(base), p[1])
             w == b \o f
  <2>1. Len(base) = max /\ max <= Len(h) /\ max <= Len(a)
    BY <1>3, <1>4, <1>8 DEF Least
  <2>2. probed = b /\ max # 0
    <3>1. ~(Len(base) < max) /\ max # 0
      BY <1>8, <2>1
    <3> HIDE DEF slowIn
    <3> QED
      BY <1>8, <3>1
  <2>3. p[1] \in V
    BY <1>2, <1>8
  <2>4. /\ Front(base) \in Seq(V) /\ Len(Front(base)) = max - 1
        /\ \A i \in 1 .. max - 1 : Front(base)[i] = base[i]
    BY <1>4, <1>8, <2>1 DEF Front
  <2>5. /\ b \in Seq(V) /\ Len(b) = max /\ b[max] = p[1]
        /\ \A i \in 1 .. max - 1 : b[i] = base[i]
    BY <1>8, <2>3, <2>4
  <2> HIDE DEF b
  <2>6. /\ w \in Seq(V) /\ Len(w) >= max /\ Len(w) \in Nat
        /\ \A i \in 1 .. max : w[i] = b[i]
    BY <1>2, <2>5
  <2>7. q = Take(w, max)
    BY <1>1, <2>2
  <2> HIDE DEF w
  <2>8. Least(max, Len(w)) = max
    BY <2>6 DEF Least
  <2>9. q \in Seq(V) /\ Len(q) = max /\ \A i \in 1 .. max : q[i] = w[i]
    BY <2>6, <2>7, <2>8, TakeType
  <2>10. q[max] = p[1] /\ \A i \in 1 .. max - 1 : q[i] = h[i]
    <3>1. max \in 1 .. max /\ \A i \in 1 .. max - 1 : i \in 1 .. max /\ i \in 1 .. Len(h)
      BY <1>3, <1>8, <2>1
    <3>2. \A i \in 1 .. max - 1 : base[i] = a[i] /\ a[i] = h[i]
      BY <1>3, <1>4, <2>1, <3>1
    <3> QED
      BY <2>5, <2>6, <2>9, <3>1, <3>2
  <2>11. q \in Seq(H \cup P)
    <3>1. p[1] \in P
      <4>1. p \in Seq(P)
        BY DEF Bucketed, Lists
      <4> QED
        BY <1>8, <4>1
    <3>2. \A i \in 1 .. Len(h) : h[i] \in H
      BY ListsIndex DEF Bucketed
    <3>3. \A i \in 1 .. max : q[i] \in H \cup P
      <4> TAKE i \in 1 .. max
      <4>1. CASE i = max
        BY <2>10, <3>1, <4>1
      <4>2. CASE i \in 1 .. max - 1
        <5>1. i \in 1 .. Len(h)
          BY <1>3, <2>1, <4>2
        <5> QED
          BY <2>10, <3>2, <4>2, <5>1
      <4> QED
        BY <4>1, <4>2
    <3> QED
      BY <2>9, <3>3
  <2> QED
    BY <1>8, <2>1, <2>9, <2>10, <2>11, SelectedDisplacing DEF q
<1> QED
  BY <1>3, <1>4, <1>5, <1>6, <1>7, <1>8 DEF Least

\* Ranking a set of candidates lists it.
LEMMA RankedLists ==
  ASSUME NEW cands \in Seq(ModelSet), entry \in [ModelSet -> Entry],
         NEW S \in SUBSET ToSet(cands)
  PROVE  Lists(Ranked(S, cands), S) /\ IsFiniteSet(S)
<1> DEFINE w == Ranked(S, cands)
<1>1. w \in Seq(S) /\ Len(w) = Cardinality(S) /\ IsInjective(w) /\ ToSet(w) = S
  BY RankedType
<1> HIDE DEF w
<1>2. DOMAIN w = 1 .. Len(w)
  BY <1>1
<1>3. \A i, j \in 1 .. Len(w) : w[i] = w[j] => i = j
  BY <1>1, <1>2 DEF IsInjective
<1>4. Lists(w, S)
  BY <1>1, <1>3 DEF Lists
<1>5. IsFiniteSet(S)
  BY ToSetFinite, FS_Subset
<1> QED
  BY <1>4, <1>5 DEF w

\* Either form of a race's list is a sound selection of the buckets.
LEMMA RacingCandidatesSelect ==
  ASSUME NEW cands \in Seq(ModelSet), entry \in [ModelSet -> Entry], NEW max \in Nat,
         NEW list \in {RacingCandidates(cands, max), RacingCandidatesTiered(cands, max)}
  PROVE  Selected(list, InBucket("healthy", cands), InBucket("slow", cands),
                  InBucket("failing", cands), InBucket("probe", cands), max)
<1> DEFINE I(b) == InBucket(b, cands)
           R(b) == Ranked(I(b), cands)
           T(b) == Ranked(I(b) \cap FastModels, cands) \o Ranked(I(b) \ FastModels, cands)
<1>1. ASSUME NEW b PROVE Lists(R(b), I(b)) /\ Lists(T(b), I(b)) /\ IsFiniteSet(I(b))
  <2>1. /\ I(b) \in SUBSET ToSet(cands) /\ I(b) \cap FastModels \in SUBSET ToSet(cands)
        /\ I(b) \ FastModels \in SUBSET ToSet(cands)
    BY InBucketType
  <2>2. Lists(R(b), I(b)) /\ IsFiniteSet(I(b))
    BY <2>1, RankedLists
  <2> DEFINE A == I(b) \cap FastModels
             B == I(b) \ FastModels
             v == Ranked(A, cands)
             w == Ranked(B, cands)
  <2>3. Lists(v, A) /\ IsFiniteSet(A) /\ Lists(w, B) /\ IsFiniteSet(B)
    BY <2>1, RankedLists
  <2>4. A \cap B = {} /\ A \cup B = I(b)
    OBVIOUS
  <2> HIDE DEF A, B, v, w, I
  <2>5. Lists(v \o w, A \cup B)
    BY <2>3, <2>4, ListsConcat
  <2>6. Lists(v \o w, I(b))
    BY <2>4, <2>5
  <2>7. T(b) = v \o w
    BY DEF v, w, A, B
  <2> QED
    BY <2>2, <2>6, <2>7
<1>2. \A b, c \in {"healthy", "slow", "failing", "probe"} : b # c => I(b) \cap I(c) = {}
  BY DEF InBucket
<1> DEFINE H == I("healthy")
           S == I("slow")
           F == I("failing")
           P == I("probe")
<1>3. /\ H \cap S = {} /\ H \cap F = {} /\ H \cap P = {}
      /\ S \cap F = {} /\ S \cap P = {} /\ F \cap P = {}
  BY <1>2
<1>4. /\ Lists(R("healthy"), H) /\ Lists(R("slow"), S) /\ Lists(R("failing"), F) /\ Lists(R("probe"), P)
      /\ Lists(T("healthy"), H) /\ Lists(T("slow"), S) /\ Lists(T("failing"), F) /\ Lists(T("probe"), P)
      /\ IsFiniteSet(H) /\ IsFiniteSet(S) /\ IsFiniteSet(F) /\ IsFiniteSet(P)
  BY <1>1
<1>5. /\ RacingCandidates(cands, max)
           = SelectWithProbe(R("healthy"), R("slow"), R("failing"), R("probe"), max)
      /\ RacingCandidatesTiered(cands, max)
           = SelectWithProbe(T("healthy"), T("slow"), T("failing"), T("probe"), max)
  BY DEF RacingCandidates, RacingCandidatesTiered
<1> HIDE DEF H, S, F, P, R, T
<1>6. /\ Bucketed(R("healthy"), H, R("slow"), S, R("failing"), F, R("probe"), P)
      /\ Bucketed(T("healthy"), H, T("slow"), S, T("failing"), F, T("probe"), P)
  BY <1>3, <1>4 DEF Bucketed
<1>7. /\ Selected(RacingCandidates(cands, max), H, S, F, P, max)
      /\ Selected(RacingCandidatesTiered(cands, max), H, S, F, P, max)
  BY <1>5, <1>6, SelectWithProbeSelects
<1> QED
  BY <1>7 DEF H, S, F, P

\* A model that is raced as healthy is not shown as degraded.
LEMMA HealthyNotDegraded ==
  ASSUME NEW m, Bucket(m) = "healthy"
  PROVE  ~IsDegraded(entry[m])
BY DEF Bucket, IsDegraded, AvailabilityDegraded

\* The invariant follows from the types of the variables.
LEMMA RaceListFollows ==
  ASSUME TypeInv
  PROVE  RaceListSound
<1> DEFINE bucket  == [m \in ToSet(Configured) |-> Bucket(m)]
           All(b)  == {m \in ToSet(Configured) : bucket[m] = b}
           healthy == All("healthy")
           fit     == healthy \cup All("slow") \cup All("failing")
           probes  == Least(1, Cardinality(All("probe")))
<1>1. \A b : All(b) = InBucket(b, Configured)
  BY DEF InBucket
<1>2. ASSUME NEW max \in 0 .. Len(Models),
             NEW list \in {RacingCandidates(Configured, max), RacingCandidatesTiered(Configured, max)}
      PROVE  LET In(b) == {m \in ToSet(list) : bucket[m] = b}
             IN  /\ IsInjective(list) /\ ToSet(list) \subseteq ToSet(Configured)
                 /\ In("out") = {} /\ Cardinality(In("probe")) <= 1
                 /\ Len(list) = Least(max, Cardinality(fit) + probes)
                 /\ In("failing") # {} => healthy \cup All("slow") \subseteq ToSet(list)
                 /\ In("slow") # {} => healthy \subseteq ToSet(list)
                 /\ \A m \in In("healthy") \cap DOMAIN Snapshot : ~Snapshot[m].degraded
                 /\ In("probe") # {} /\ healthy # {} => In("healthy") # {}
  <2> DEFINE In(b) == {m \in ToSet(list) : bucket[m] = b}
  <2>1. max \in Nat /\ Configured \in Seq(ModelSet) /\ entry \in [ModelSet -> Entry]
    BY ConfiguredType DEF TypeInv, TypeOK
  <2>2. Selected(list, All("healthy"), All("slow"), All("failing"), All("probe"), max)
    BY <1>1, <2>1, RacingCandidatesSelect
  <2>3. IsInjective(list) /\ ToSet(list) \subseteq ToSet(Configured)
    BY <2>2 DEF Selected
  <2>4. \A b : In(b) = ToSet(list) \cap All(b)
    BY <2>3
  <2>5. In("out") = {}
    BY <2>2 DEF Selected
  <2>6. Cardinality(In("probe")) <= 1
    <3>1. In("probe") = ToSet(list) \cap All("probe")
      BY <2>4
    <3>2. Cardinality(ToSet(list) \cap All("probe")) <= 1
      BY <2>2 DEF Selected
    <3> HIDE DEF In, All
    <3> QED
      BY <3>1, <3>2
  <2>7. Len(list) = Least(max, Cardinality(fit) + probes)
    BY <2>2 DEF Selected
  <2>8. /\ In("failing") # {} => healthy \cup All("slow") \subseteq ToSet(list)
        /\ In("slow") # {} => healthy \subseteq ToSet(list)
        /\ In("probe") # {} /\ healthy # {} => In("healthy") # {}
    <3>1. /\ In("failing") = ToSet(list) \cap All("failing") /\ In("slow") = ToSet(list) \cap All("slow")
          /\ In("probe") = ToSet(list) \cap All("probe") /\ In("healthy") = ToSet(list) \cap All("healthy")
      BY <2>4
    <3> HIDE DEF In, All
    <3> QED
      BY <2>2, <3>1 DEF Selected
  <2>9. \A m \in In("healthy") \cap DOMAIN Snapshot : ~Snapshot[m].degraded
    <3> TAKE m \in In("healthy") \cap DOMAIN Snapshot
    <3>1. Bucket(m) = "healthy"
      BY <2>3
    <3>2. Snapshot[m].degraded = IsDegraded(entry[m])
      BY DEF Snapshot
    <3> QED
      BY <3>1, <3>2, HealthyNotDegraded
  <2> QED
    BY <2>3, <2>5, <2>6, <2>7, <2>8, <2>9
<1> QED
  BY <1>2 DEF RaceListSound

\* What a race may be given is sound in every reachable state.
THEOREM RaceListsSound == Spec => []RaceListSound
<1>1. Spec => []TypeInv
  BY TypeInit, TypeStep, PTL DEF Spec
<1> QED
  BY <1>1, RaceListFollows, PTL
=============================================================================
