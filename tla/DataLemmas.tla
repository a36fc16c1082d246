---------------------------- MODULE DataLemmas -------------------------------
(***************************************************************************)
(* Facts about data that several proofs need: queues whose elements are    *)
(* all different, with or without one element taken and still in hand; the *)
(* smallest number of a set and the smallest of some subsets of a finite   *)
(* set, which is how induction is done here (a smallest counterexample     *)
(* cannot be); and the sums of functions over finite sets.                 *)
(***************************************************************************)
EXTENDS Integers, Sequences, FiniteSets, Functions, FiniteSetTheorems, TLAPS

-----------------------------------------------------------------------------
(* Queues.                                                                  *)

Elements(q)  == {q[i] : i \in 1..Len(q)}
Injective(q) == \A i, j \in 1..Len(q) : q[i] = q[j] => i = j

\* A sequence without duplicates stays one when a new element is appended.
LEMMA AppendNew ==
    ASSUME NEW S, NEW q \in Seq(S), NEW x \in S, Injective(q), x \notin Elements(q)
    PROVE  /\ Injective(Append(q, x))
           /\ Elements(Append(q, x)) = Elements(q) \cup {x}
<1>1. /\ Len(Append(q, x)) = Len(q) + 1 /\ Len(q) \in Nat
      /\ \A i \in 1..Len(q) : Append(q, x)[i] = q[i]
      /\ Append(q, x)[Len(q) + 1] = x
  OBVIOUS
<1>2. Injective(Append(q, x))
  BY <1>1 DEF Injective, Elements
<1>3. Elements(Append(q, x)) = Elements(q) \cup {x}
  BY <1>1 DEF Elements
<1>4. QED
  BY <1>2, <1>3

\* ... and loses exactly its head when the head is taken.
LEMMA TakeHead ==
    ASSUME NEW S, NEW q \in Seq(S), Injective(q), q # <<>>
    PROVE  /\ Injective(Tail(q))
           /\ Elements(Tail(q)) = Elements(q) \ {Head(q)}
           /\ Head(q) \in Elements(q)
<1>1. /\ Len(q) \in Nat /\ Len(q) >= 1 /\ Len(Tail(q)) = Len(q) - 1
      /\ \A i \in 1..(Len(q) - 1) : Tail(q)[i] = q[i + 1]
      /\ Head(q) = q[1]
  OBVIOUS
<1>2. Injective(Tail(q))
  BY <1>1 DEF Injective
<1>3. Head(q) \in Elements(q)
  BY <1>1 DEF Elements
<1>4. ASSUME NEW x \in Elements(q) \ {Head(q)} PROVE x \in Elements(Tail(q))
  <2>1. PICK i \in 1..Len(q) : x = q[i]
    BY DEF Elements
  <2>2. i # 1 /\ i - 1 \in 1..(Len(q) - 1) /\ Tail(q)[i - 1] = q[i]
    BY <1>1, <2>1
  <2>3. QED
    BY <1>1, <2>1, <2>2 DEF Elements
<1>5. ASSUME NEW x \in Elements(Tail(q)) PROVE x \in Elements(q) \ {Head(q)}
  <2>1. PICK i \in 1..(Len(q) - 1) : x = q[i + 1]
    BY <1>1 DEF Elements
  <2>2. i + 1 \in 1..Len(q) /\ i + 1 # 1 /\ 1 \in 1..Len(q)
    BY <1>1
  <2>3. QED
    BY <1>1, <2>1, <2>2 DEF Elements, Injective
<1>6. QED
  BY <1>2, <1>3, <1>4, <1>5

\* An element in hand waits before the queue it was taken from.
LEMMA HeldFirst ==
    ASSUME NEW S, NEW q \in Seq(S), NEW x \in S
    PROVE  /\ <<x>> \o q # <<>> /\ Head(<<x>> \o q) = x /\ Tail(<<x>> \o q) = q
           /\ Elements(<<x>> \o q) = Elements(q) \cup {x}
<1> DEFINE waiting == <<x>> \o q
<1>1. /\ waiting \in Seq(S) /\ Len(waiting) = Len(q) + 1 /\ Len(q) \in Nat
      /\ waiting[1] = x
      /\ \A i \in 1..Len(q) : waiting[i + 1] = q[i]
  OBVIOUS
<1>2. waiting # <<>> /\ Head(waiting) = x /\ Tail(waiting) = q
  BY <1>1
<1> HIDE DEF waiting
<1>3. ASSUME NEW y \in Elements(waiting) PROVE y \in Elements(q) \cup {x}
  <2>1. PICK i \in 1..Len(waiting) : y = waiting[i]
    BY DEF Elements
  <2>2. CASE i = 1
    BY <1>1, <2>1, <2>2
  <2>3. CASE i # 1
    <3>1. i - 1 \in 1..Len(q) /\ (i - 1) + 1 = i
      BY <1>1, <2>3
    <3>2. y = q[i - 1]
      BY <1>1, <2>1, <3>1
    <3>3. QED
      BY <3>1, <3>2 DEF Elements
  <2>4. QED
    BY <2>2, <2>3
<1>4. ASSUME NEW y \in Elements(q) PROVE y \in Elements(waiting)
  <2>1. PICK i \in 1..Len(q) : y = q[i]
    BY DEF Elements
  <2>2. i + 1 \in 1..Len(waiting)
    BY <1>1
  <2>3. QED
    BY <1>1, <2>1, <2>2 DEF Elements
<1>5. x \in Elements(waiting)
  <2>1. 1 \in 1..Len(waiting)
    BY <1>1
  <2>2. QED
    BY <1>1, <2>1 DEF Elements
<1>6. QED
  BY <1>2, <1>3, <1>4, <1>5 DEF waiting

\* Where the elements of T are found in a sequence.
Hits(q, T) == {i \in 1..Len(q) : q[i] \in T}

\* One more of them, if it is one that is appended.
LEMMA HitsAppend ==
    ASSUME NEW S, NEW q \in Seq(S), NEW T, NEW x \in S
    PROVE  /\ Cardinality(Hits(q, T)) \in Nat
           /\ Cardinality(Hits(Append(q, x), T))
                 = Cardinality(Hits(q, T)) + IF x \in T THEN 1 ELSE 0
<1>1. /\ Len(q) \in Nat /\ Len(Append(q, x)) = Len(q) + 1
      /\ \A i \in 1..Len(q) : Append(q, x)[i] = q[i]
      /\ Append(q, x)[Len(q) + 1] = x
  OBVIOUS
<1>2. IsFiniteSet(Hits(q, T)) /\ Cardinality(Hits(q, T)) \in Nat
  <2>1. 1 \in Int /\ Len(q) \in Int
    BY <1>1
  <2>2. IsFiniteSet(1..Len(q))
    BY <2>1, FS_Interval
  <2>3. Hits(q, T) \subseteq 1..Len(q)
    BY DEF Hits
  <2> QED
    BY <2>2, <2>3, FS_Subset, FS_CardinalityType
<1>3. CASE x \in T
  <2>1. Hits(Append(q, x), T) = Hits(q, T) \cup {Len(q) + 1} /\ Len(q) + 1 \notin Hits(q, T)
    BY <1>1, <1>3 DEF Hits
  <2>2. Cardinality(Hits(q, T) \cup {Len(q) + 1}) = Cardinality(Hits(q, T)) + 1
    BY <1>2, <2>1, FS_AddElement
  <2> QED
    BY <1>2, <1>3, <2>1, <2>2
<1>4. CASE x \notin T
  <2>1. Hits(Append(q, x), T) = Hits(q, T)
    BY <1>1, <1>4 DEF Hits
  <2> QED
    BY <1>2, <1>4, <2>1
<1> QED
  BY <1>2, <1>3, <1>4

-----------------------------------------------------------------------------
(* Smallest elements.                                                       *)

\* Of any subsets of a finite set, one has none of the others below it.
LEMMA SmallestSubset ==
    ASSUME NEW S, IsFiniteSet(S), NEW T, T \subseteq SUBSET S, T # {}
    PROVE  \E x \in T : \A y \in T : y \subseteq x => y = x
<1>1. T \subseteq FiniteSubsetsOf(S)
  BY FS_Subset DEF FiniteSubsetsOf
<1>2. \E x \in T : \A y \in T : <<y, x>> \notin StrictSubsetOrdering(S)
  BY <1>1, FS_StrictSubsetOrderingWellFounded, WFMin
<1>3. \A y, x \in T : y \subseteq x /\ y # x => <<y, x>> \in StrictSubsetOrdering(S)
  BY DEF StrictSubsetOrdering
<1> QED
  BY <1>2, <1>3

\* A set of naturals has a least element.
LEMMA SmallestNumber ==
    ASSUME NEW T, T \subseteq Nat, T # {}
    PROVE  \E m \in T : \A k \in T : m <= k
<1>1. PICK n \in T : TRUE
  OBVIOUS
<1> DEFINE B == {k \in T : k <= n}
           F == {0..k : k \in B}
           S == 0..n
<1>2. IsFiniteSet(S)
  BY <1>1, FS_Interval
<1>3. F \subseteq SUBSET S /\ F # {}
  BY <1>1
<1>4. PICK x \in F : \A y \in F : y \subseteq x => y = x
  <2> HIDE DEF F, S
  <2> QED BY <1>2, <1>3, SmallestSubset
<1>5. PICK m \in B : x = 0..m
  OBVIOUS
<1>6. ASSUME NEW k \in T, k < m PROVE FALSE
  <2>1. k \in B /\ 0..k \in F
    BY <1>1, <1>6
  <2>2. 0..k \subseteq x /\ m \in x /\ m \notin 0..k
    BY <1>5, <1>6
  <2> QED
    BY <1>4, <2>1, <2>2
<1> QED
  BY <1>5, <1>6

\* ... and one that is bounded has a greatest.
LEMMA LargestNumber ==
    ASSUME NEW n \in Nat, NEW T, T \subseteq 0..n, T # {}
    PROVE  \E m \in T : \A k \in T : k <= m
<1> DEFINE D == {d \in Nat : n - d \in T}
<1>1. \A k \in T : k \in Int /\ n - k \in Nat /\ n - (n - k) = k
  OBVIOUS
<1>2. \A k \in T : n - k \in D
  BY <1>1
<1>3. PICK d \in D : \A c \in D : d <= c
  <2>1. D \subseteq Nat /\ D # {}
    BY <1>2
  <2> HIDE DEF D
  <2> QED BY <2>1, SmallestNumber
<1>4. n - d \in T /\ d \in Nat
  BY <1>3
<1>5. ASSUME NEW k \in T PROVE k <= n - d
  <2>1. d <= n - k
    BY <1>2, <1>3
  <2> QED BY <1>1, <1>4, <2>1
<1> QED
  BY <1>4, <1>5
-----------------------------------------------------------------------------
(* SumFunctionOnSet, which is defined by recursion over the subsets.        *)

AnyOf(s)  == CHOOSE x \in s : TRUE
Others(s) == s \ {AnyOf(s)}

Adds(iter, f, S) == iter = [s \in SUBSET S |-> IF s = {} THEN 0 ELSE f[AnyOf(s)] + iter[Others(s)]]
Iter(f, S) == CHOOSE iter : Adds(iter, f, S)

\* The recursive function the sum is taken from.
LEMMA SumIter == ASSUME NEW f, NEW S PROVE SumFunctionOnSet(f, S) = Iter(f, S)[S]
BY DEF SumFunctionOnSet, FoldFunctionOnSet, MapThenFoldSet, Iter, Adds, AnyOf, Others

\* One element is taken away at a time.
LEMMA AnyOfIn == ASSUME NEW s, s # {} PROVE AnyOf(s) \in s /\ Others(s) \subseteq s /\ Others(s) # s
BY DEF AnyOf, Others

\* There is one such function at most, a set's and a subset's agree: a smallest subset on
\* which two differ has a smaller one.
LEMMA AddsOnce ==
    ASSUME NEW S, IsFiniteSet(S), NEW T, T \subseteq S, NEW f, NEW g, NEW h,
           Adds(g, f, S), Adds(h, f, T)
    PROVE  \A s \in SUBSET T : g[s] = h[s]
<1> DEFINE Differ == {s \in SUBSET T : g[s] # h[s]}
<1>1. SUFFICES ASSUME Differ # {} PROVE FALSE
  OBVIOUS
<1>2. IsFiniteSet(T) /\ Differ \subseteq SUBSET T
  BY FS_Subset
<1>3. PICK s \in Differ : \A r \in Differ : r \subseteq s => r = s
  <2> HIDE DEF Differ
  <2> QED BY <1>1, <1>2, SmallestSubset
<1>4. s \in SUBSET S /\ s \in SUBSET T
  OBVIOUS
<1>5. s # {}
  BY <1>4 DEF Adds
<1>6. Others(s) \in SUBSET S /\ Others(s) \in SUBSET T /\ g[Others(s)] = h[Others(s)]
  BY <1>3, <1>4, <1>5, AnyOfIn
<1>7. g[s] = f[AnyOf(s)] + g[Others(s)] /\ h[s] = f[AnyOf(s)] + h[Others(s)]
  BY <1>4, <1>5 DEF Adds
<1> QED
  BY <1>6, <1>7

\* ... and there is one: a smallest set without one can be given one from those of its
\* subsets.
LEMMA AddsExists ==
    ASSUME NEW S, IsFiniteSet(S), NEW f
    PROVE  Adds(Iter(f, S), f, S)
<1> DEFINE Bad == {s \in SUBSET S : ~Adds(Iter(f, s), f, s)}
<1>1. SUFFICES ASSUME Bad # {} PROVE FALSE
  OBVIOUS
<1>3. PICK t \in Bad : \A r \in Bad : r \subseteq t => r = t
  <2>1. Bad \subseteq SUBSET S
    OBVIOUS
  <2> HIDE DEF Bad
  <2> QED BY <1>1, <2>1, SmallestSubset
<1>4. \A r \in SUBSET t : r # t => Adds(Iter(f, r), f, r)
  BY <1>3
<1>5. \A r \in SUBSET t : IsFiniteSet(r)
  BY FS_Subset
<1> DEFINE V(r) == Iter(f, r)[r]
           W(r) == IF r = {} THEN 0 ELSE f[AnyOf(r)] + V(Others(r))
           G == [r \in SUBSET t |-> W(r)]
<1>6. ASSUME NEW r \in SUBSET t, r # t PROVE V(r) = W(r)
  <2>1. V(r) = IF r = {} THEN 0 ELSE f[AnyOf(r)] + Iter(f, r)[Others(r)]
    BY <1>4, <1>6 DEF Adds
  <2>2. CASE r # {}
    <3>1. Others(r) \in SUBSET t /\ Others(r) # t /\ Others(r) \subseteq r
      BY <2>2, <1>6, AnyOfIn
    <3>2. Adds(Iter(f, Others(r)), f, Others(r)) /\ Adds(Iter(f, r), f, r) /\ IsFiniteSet(r)
      BY <3>1, <1>4, <1>5, <1>6
    <3>3. Iter(f, r)[Others(r)] = V(Others(r))
      BY <3>1, <3>2, AddsOnce
    <3> QED BY <2>1, <3>3
  <2> QED BY <2>1, <2>2
<1>7. ASSUME NEW r \in SUBSET t, r # {} PROVE V(Others(r)) = G[Others(r)]
  <2>1. Others(r) \in SUBSET t /\ Others(r) # t
    BY <1>7, AnyOfIn
  <2> QED BY <2>1, <1>6
<1>8. \A r \in SUBSET t : W(r) = IF r = {} THEN 0 ELSE f[AnyOf(r)] + G[Others(r)]
  <2> HIDE DEF V, G
  <2> QED BY <1>7
<1>9. Adds(G, f, t)
  <2> HIDE DEF W
  <2> QED BY <1>8 DEF Adds
<1>10. Adds(Iter(f, t), f, t)
  <2> HIDE DEF G
  <2> QED BY <1>9 DEF Iter
<1> QED
  BY <1>10

\* So a sum is that of the others and one element's value.
LEMMA SumStep ==
    ASSUME NEW S, IsFiniteSet(S), NEW f
    PROVE  SumFunctionOnSet(f, S) = IF S = {} THEN 0
                                    ELSE f[AnyOf(S)] + SumFunctionOnSet(f, Others(S))
<1>1. Iter(f, S)[S] = IF S = {} THEN 0 ELSE f[AnyOf(S)] + Iter(f, S)[Others(S)]
  <2> DEFINE I == Iter(f, S)
  <2>1. Adds(I, f, S)
    BY AddsExists
  <2> HIDE DEF I
  <2>2. I[S] = IF S = {} THEN 0 ELSE f[AnyOf(S)] + I[Others(S)]
    BY <2>1 DEF Adds
  <2> QED BY <2>2 DEF I
<1>2. ASSUME S # {} PROVE Iter(f, S)[Others(S)] = Iter(f, Others(S))[Others(S)]
  <2>1. Others(S) \subseteq S /\ IsFiniteSet(Others(S))
    BY <1>2, AnyOfIn, FS_Subset
  <2> QED BY <2>1, AddsOnce, AddsExists
<1> QED
  BY <1>1, <1>2, SumIter

\* A sum of integers is an integer.
LEMMA SumInt ==
    ASSUME NEW S, IsFiniteSet(S), NEW f, \A x \in S : f[x] \in Int
    PROVE  SumFunctionOnSet(f, S) \in Int
<1> DEFINE Bad == {s \in SUBSET S : SumFunctionOnSet(f, s) \notin Int}
<1>1. SUFFICES ASSUME Bad # {} PROVE FALSE
  OBVIOUS
<1>2. PICK s \in Bad : \A r \in Bad : r \subseteq s => r = s
  <2>1. Bad \subseteq SUBSET S
    OBVIOUS
  <2> HIDE DEF Bad
  <2> QED BY <1>1, <2>1, SmallestSubset
<1>3. s # {} /\ IsFiniteSet(s)
  BY SumStep, FS_Subset
<1>4. Others(s) \in SUBSET S /\ Others(s) \notin Bad /\ AnyOf(s) \in S
  BY <1>2, <1>3, AnyOfIn
<1> QED
  BY <1>3, <1>4, SumStep

\* A sum of sums is the sum of the two.
LEMMA SumPlus ==
    ASSUME NEW S, IsFiniteSet(S), NEW f, NEW g, NEW h,
           \A x \in S : f[x] \in Int /\ g[x] \in Int /\ h[x] = f[x] + g[x]
    PROVE  SumFunctionOnSet(h, S) = SumFunctionOnSet(f, S) + SumFunctionOnSet(g, S)
<1> DEFINE Bad == {s \in SUBSET S : SumFunctionOnSet(h, s)
                                     # SumFunctionOnSet(f, s) + SumFunctionOnSet(g, s)}
<1>1. SUFFICES ASSUME Bad # {} PROVE FALSE
  OBVIOUS
<1>2. PICK s \in Bad : \A r \in Bad : r \subseteq s => r = s
  <2>1. Bad \subseteq SUBSET S
    OBVIOUS
  <2> HIDE DEF Bad
  <2> QED BY <1>1, <2>1, SmallestSubset
<1>3. s # {} /\ IsFiniteSet(s)
  BY SumStep, FS_Subset
<1>4. Others(s) \in SUBSET S /\ Others(s) \notin Bad /\ AnyOf(s) \in S /\ IsFiniteSet(Others(s))
  BY <1>2, <1>3, AnyOfIn, FS_Subset
<1>5. SumFunctionOnSet(f, Others(s)) \in Int /\ SumFunctionOnSet(g, Others(s)) \in Int
  BY <1>4, SumInt
<1>6. /\ SumFunctionOnSet(f, s) = f[AnyOf(s)] + SumFunctionOnSet(f, Others(s))
      /\ SumFunctionOnSet(g, s) = g[AnyOf(s)] + SumFunctionOnSet(g, Others(s))
      /\ SumFunctionOnSet(h, s) = h[AnyOf(s)] + SumFunctionOnSet(h, Others(s))
  BY <1>3, SumStep
<1>7. SumFunctionOnSet(h, Others(s))
         = SumFunctionOnSet(f, Others(s)) + SumFunctionOnSet(g, Others(s))
  BY <1>4
<1>8. h[AnyOf(s)] = f[AnyOf(s)] + g[AnyOf(s)] /\ f[AnyOf(s)] \in Int /\ g[AnyOf(s)] \in Int
  BY <1>4
<1> QED
  BY <1>5, <1>6, <1>7, <1>8

\* A function that changes in one place changes its sum by as much.
LEMMA SumUpdate ==
    ASSUME NEW S, IsFiniteSet(S), NEW f, NEW g, NEW x \in S,
           \A y \in S : f[y] \in Int /\ g[y] \in Int /\ (y # x => g[y] = f[y])
    PROVE  SumFunctionOnSet(g, S) = SumFunctionOnSet(f, S) - f[x] + g[x]
<1> DEFINE Off(s) == IF x \in s THEN g[x] - f[x] ELSE 0
           Bad == {s \in SUBSET S : SumFunctionOnSet(g, s) # SumFunctionOnSet(f, s) + Off(s)}
<1>1. ASSUME Bad # {} PROVE FALSE
  <2>2. PICK s \in Bad : \A r \in Bad : r \subseteq s => r = s
    <3>1. Bad \subseteq SUBSET S
      OBVIOUS
    <3> HIDE DEF Bad
    <3> QED BY <1>1, <3>1, SmallestSubset
  <2>3. s # {} /\ IsFiniteSet(s)
    <3>1. IsFiniteSet(s)
      BY FS_Subset
    <3>2. ASSUME s = {} PROVE FALSE
      <4>1. SumFunctionOnSet(g, s) = 0 /\ SumFunctionOnSet(f, s) = 0
        BY <3>1, <3>2, SumStep
      <4>2. Off(s) = 0
        BY <3>2
      <4> QED BY <4>1, <4>2
    <3> QED BY <3>1, <3>2
  <2>4. Others(s) \in SUBSET S /\ Others(s) \notin Bad /\ AnyOf(s) \in S /\ IsFiniteSet(Others(s))
    BY <2>2, <2>3, AnyOfIn, FS_Subset
  <2>5. SumFunctionOnSet(f, Others(s)) \in Int /\ SumFunctionOnSet(g, Others(s)) \in Int
    BY <2>4, SumInt
  <2>6. /\ SumFunctionOnSet(f, s) = f[AnyOf(s)] + SumFunctionOnSet(f, Others(s))
        /\ SumFunctionOnSet(g, s) = g[AnyOf(s)] + SumFunctionOnSet(g, Others(s))
    BY <2>3, SumStep
  <2>7. Off(s) = Off(Others(s)) + (g[AnyOf(s)] - f[AnyOf(s)])
    <3>1. AnyOf(s) \in s
      BY <2>3, AnyOfIn
    <3> QED BY <3>1, <2>4 DEF Others
  <2>8. /\ SumFunctionOnSet(g, Others(s)) = SumFunctionOnSet(f, Others(s)) + Off(Others(s))
        /\ Off(Others(s)) \in Int
    BY <2>4
  <2> QED
    <3> HIDE DEF Off
    <3> QED BY <2>4, <2>5, <2>6, <2>7, <2>8
<1>2. S \notin Bad
  BY <1>1
<1> QED
  BY <1>2, SumInt

\* The sum of a function that is zero everywhere.
LEMMA SumZero ==
    ASSUME NEW S, IsFiniteSet(S), NEW f, \A x \in S : f[x] = 0
    PROVE  SumFunctionOnSet(f, S) = 0
<1>0. \A x \in S : f[x] \in Int /\ f[x] = f[x] + f[x]
  OBVIOUS
<1>1. SumFunctionOnSet(f, S) = SumFunctionOnSet(f, S) + SumFunctionOnSet(f, S)
  BY <1>0, SumPlus
<1>2. SumFunctionOnSet(f, S) \in Int
  BY <1>0, SumInt
<1>3. \A n \in Int : n = n + n => n = 0
  OBVIOUS
<1> QED
  BY <1>1, <1>2, <1>3
=============================================================================
