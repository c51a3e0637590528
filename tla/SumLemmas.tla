--------------------------------- MODULE SumLemmas ---------------------------------
(* Sums over finite sets, as SumFunctionOnSet of the community modules defines them: *)
(* facts that the proofs about stock, payroll and the books cite.  The library's     *)
(* induction theorems take an operator, so the recursion is solved here with sets    *)
(* (NatSet) from the well-foundedness of < on the naturals.                          *)
EXTENDS Integers, FiniteSets, Functions, FiniteSetTheorems, WellFoundedInduction, TLAPS

\* Induction on the naturals for one set, which needs no operator as a parameter: the least number
\* outside of S would be neither zero nor a successor.
LEMMA NatSet ==
  ASSUME NEW S, 0 \in S, \A n \in Nat : n \in S => n + 1 \in S
  PROVE  Nat \subseteq S
<1> DEFINE T == Nat \ S
<1> SUFFICES ASSUME T # {} PROVE FALSE
  OBVIOUS
<1>1. PICK x \in T : \A y \in T : ~ (<<y, x>> \in OpToRel(<, Nat))
  <2> HIDE DEF T
  <2>1. T \subseteq Nat /\ T # {}
    BY DEF T
  <2> QED
    BY <2>1, NatLessThanWellFounded, WFMin, Zenon
<1>2. \A y \in T : ~(y < x)
  BY <1>1, Zenon DEF OpToRel
<1> QED
  BY <1>2

\* The element taken off a set, and the recursion on sets that a sum is.
Rank(s) == CHOOSE x \in s : TRUE
Iter(f, S, g) == g = [s \in SUBSET S |-> IF s = {} THEN 0 ELSE f[Rank(s)] + g[s \ {Rank(s)}]]

\* What the definitions of the community modules make of a sum: a choice of Iter's solution.
LEMMA SumIs ==
  ASSUME NEW f, NEW S
  PROVE  SumFunctionOnSet(f, S) = (CHOOSE g : Iter(f, S, g))[S]
BY DEF SumFunctionOnSet, FoldFunctionOnSet, MapThenFoldSet, Iter, Rank

\* The same recursion, on the sets of at most n elements.
Small(U, n) == {s \in SUBSET U : Cardinality(s) <= n}
IterTo(f, U, n, g) == g = [s \in Small(U, n) |-> IF s = {} THEN 0 ELSE f[Rank(s)] + g[s \ {Rank(s)}]]

\* The element a sum takes off first.
LEMMA RankFacts ==
  ASSUME NEW s, IsFiniteSet(s), s # {}
  PROVE  /\ Rank(s) \in s /\ IsFiniteSet(s \ {Rank(s)})
         /\ Cardinality(s) \in Nat \ {0} /\ Cardinality(s \ {Rank(s)}) = Cardinality(s) - 1
<1>1. Rank(s) \in s
  BY DEF Rank
<1> QED
  BY <1>1, FS_RemoveElement, FS_CardinalityType, FS_EmptySet

\* The recursion has a solution.
LEMMA IterExists ==
  ASSUME NEW U, IsFiniteSet(U), NEW f
  PROVE  \E g : Iter(f, U, g)
<1> DEFINE N == {n \in Nat : \E g : IterTo(f, U, n, g)}
<1>1. 0 \in N
  <2>1. Small(U, 0) = {{}}
    BY FS_Subset, FS_EmptySet, FS_CardinalityType DEF Small
  <2> DEFINE g == [s \in Small(U, 0) |-> 0]
  <2>2. IterTo(f, U, 0, g)
    BY <2>1 DEF IterTo
  <2> QED
    BY <2>2
<1>2. ASSUME NEW n \in Nat, n \in N
      PROVE  n + 1 \in N
  <2>1. PICK g : IterTo(f, U, n, g)
    BY <1>2
  <2> DEFINE h == [s \in Small(U, n + 1) |-> IF s = {} THEN 0 ELSE f[Rank(s)] + g[s \ {Rank(s)}]]
  <2>2. ASSUME NEW s \in Small(U, n + 1), s # {}
        PROVE  s \ {Rank(s)} \in Small(U, n)
    <3>1. IsFiniteSet(s)
      BY FS_Subset DEF Small
    <3> QED
      <4>1. /\ Rank(s) \in s /\ Cardinality(s) \in Nat /\ Cardinality(s \ {Rank(s)}) = Cardinality(s) - 1
        BY <2>2, <3>1, RankFacts
      <4>2. Cardinality(s) <= n + 1 /\ s \in SUBSET U
        BY DEF Small
      <4>3. Cardinality(s \ {Rank(s)}) <= n
        BY <4>1, <4>2
      <4> QED
        BY <4>2, <4>3 DEF Small
  <2>3. Small(U, n) \subseteq Small(U, n + 1)
    BY FS_CardinalityType, FS_Subset DEF Small
  <2>4. \A s \in Small(U, n) : h[s] = g[s]
    BY <2>1, <2>3 DEF IterTo
  <2>5. IterTo(f, U, n + 1, h)
    BY <2>2, <2>4 DEF IterTo
  <2> QED
    BY <2>5
<1>3. Cardinality(U) \in N
  <2> HIDE DEF N
  <2> QED
    BY <1>1, <1>2, NatSet, FS_CardinalityType
<1>4. Small(U, Cardinality(U)) = SUBSET U
  BY FS_Subset DEF Small
<1> QED
  BY <1>3, <1>4 DEF Iter, IterTo

\* It has one solution, on a set and on what is part of it.
LEMMA IterUnique ==
  ASSUME NEW U, IsFiniteSet(U), NEW f, NEW g, Iter(f, U, g), NEW V \in SUBSET U, NEW h, Iter(f, V, h)
  PROVE  g[V] = h[V]
<1> DEFINE N == {n \in Nat : \A s \in SUBSET V : Cardinality(s) = n => g[s] = h[s]}
<1>0. \A s \in SUBSET V : IsFiniteSet(s) /\ s \in SUBSET U
  BY FS_Subset
<1>1. 0 \in N
  <2>1. \A s \in SUBSET V : Cardinality(s) = 0 => s = {}
    BY <1>0, FS_EmptySet
  <2> QED
    BY <2>1 DEF Iter
<1>2. ASSUME NEW n \in Nat, n \in N
      PROVE  n + 1 \in N
  <2> SUFFICES ASSUME NEW s \in SUBSET V, Cardinality(s) = n + 1 PROVE g[s] = h[s]
    OBVIOUS
  <2>1. s # {}
    BY FS_EmptySet
  <2>2. s \ {Rank(s)} \in SUBSET V /\ Cardinality(s \ {Rank(s)}) = n
    <3>1. Cardinality(s \ {Rank(s)}) = Cardinality(s) - 1
      BY <1>0, <2>1, RankFacts
    <3> QED
      BY <3>1
  <2>3. g[s \ {Rank(s)}] = h[s \ {Rank(s)}]
    BY <1>2, <2>2
  <2> QED
    BY <1>0, <2>1, <2>3 DEF Iter
<1>3. Cardinality(V) \in N
  <2> HIDE DEF N
  <2> QED
    BY <1>0, <1>1, <1>2, NatSet, FS_CardinalityType
<1> QED
  BY <1>3

\* The sum over a finite set takes one element off it, whichever it takes.
LEMMA SumRecursion ==
  ASSUME NEW S, IsFiniteSet(S), NEW f
  PROVE  SumFunctionOnSet(f, S) = IF S = {} THEN 0
                                  ELSE f[Rank(S)] + SumFunctionOnSet(f, S \ {Rank(S)})
<1>1. PICK g : Iter(f, S, g) /\ SumFunctionOnSet(f, S) = g[S]
  BY IterExists, SumIs
<1>2. CASE S = {}
  BY <1>1, <1>2 DEF Iter
<1>3. CASE S # {}
  <2> DEFINE V == S \ {Rank(S)}
  <2>1. IsFiniteSet(V) /\ V \in SUBSET S
    BY <1>3, RankFacts
  <2>2. PICK h : Iter(f, V, h) /\ SumFunctionOnSet(f, V) = h[V]
    BY <2>1, IterExists, SumIs
  <2>3. g[V] = h[V]
    BY <1>1, <2>1, <2>2, IterUnique
  <2>4. g[S] = f[Rank(S)] + g[V]
    BY <1>1, <1>3 DEF Iter
  <2> QED
    BY <1>1, <1>3, <2>2, <2>3, <2>4
<1> QED
  BY <1>2, <1>3

\* A sum of integers is an integer.
LEMMA SumType ==
  ASSUME NEW S, IsFiniteSet(S), NEW f
  PROVE  /\ (\A x \in S : f[x] \in Int) => SumFunctionOnSet(f, S) \in Int
         /\ (\A x \in S : f[x] \in Nat) => SumFunctionOnSet(f, S) \in Nat
<1> DEFINE Typed(s) == /\ (\A x \in s : f[x] \in Int) => SumFunctionOnSet(f, s) \in Int
                       /\ (\A x \in s : f[x] \in Nat) => SumFunctionOnSet(f, s) \in Nat
           N == {n \in Nat : \A s \in SUBSET S : Cardinality(s) = n => Typed(s)}
<1>0. \A s \in SUBSET S : IsFiniteSet(s)
  BY FS_Subset
<1>1. 0 \in N
  <2>1. \A s \in SUBSET S : Cardinality(s) = 0 => s = {}
    BY <1>0, FS_EmptySet
  <2>2. SumFunctionOnSet(f, {}) = 0
    BY FS_EmptySet, SumRecursion
  <2> QED
    BY <2>1, <2>2
<1>2. ASSUME NEW n \in Nat, n \in N
      PROVE  n + 1 \in N
  <2> SUFFICES ASSUME NEW s \in SUBSET S, Cardinality(s) = n + 1 PROVE Typed(s)
    OBVIOUS
  <2>1. s # {}
    BY FS_EmptySet
  <2>2. Cardinality(s \ {Rank(s)}) = Cardinality(s) - 1 /\ Rank(s) \in s
    BY <1>0, <2>1, RankFacts
  <2>3. Typed(s \ {Rank(s)})
    BY <1>2, <2>2
  <2>4. SumFunctionOnSet(f, s) = f[Rank(s)] + SumFunctionOnSet(f, s \ {Rank(s)})
    BY <1>0, <2>1, SumRecursion
  <2> QED
    BY <2>2, <2>3, <2>4
<1>3. Cardinality(S) \in N
  <2> HIDE DEF N
  <2> QED
    BY <1>1, <1>2, NatSet, FS_CardinalityType
<1> QED
  BY <1>3

\* The same sum, taking off any element.
LEMMA SumPick ==
  ASSUME NEW S, IsFiniteSet(S), NEW f, \A x \in S : f[x] \in Int, NEW x \in S
  PROVE  SumFunctionOnSet(f, S) = f[x] + SumFunctionOnSet(f, S \ {x})
<1> DEFINE Picks(s) == \A y \in s : SumFunctionOnSet(f, s) = f[y] + SumFunctionOnSet(f, s \ {y})
           N == {n \in Nat : \A s \in SUBSET S : Cardinality(s) = n => Picks(s)}
<1>0. \A s \in SUBSET S : IsFiniteSet(s) /\ SumFunctionOnSet(f, s) \in Int
  BY FS_Subset, SumType
<1>1. 0 \in N
  <2>1. \A s \in SUBSET S : Cardinality(s) = 0 => s = {}
    BY <1>0, FS_EmptySet
  <2> QED
    BY <2>1
<1>2. ASSUME NEW n \in Nat, n \in N
      PROVE  n + 1 \in N
  <2> SUFFICES ASSUME NEW s \in SUBSET S, Cardinality(s) = n + 1, NEW y \in s
               PROVE  SumFunctionOnSet(f, s) = f[y] + SumFunctionOnSet(f, s \ {y})
    OBVIOUS
  <2> DEFINE r == Rank(s)
  <2>1. r \in s /\ SumFunctionOnSet(f, s) = f[r] + SumFunctionOnSet(f, s \ {r})
    BY <1>0, SumRecursion, RankFacts
  <2>2. CASE y = r
    BY <2>1, <2>2
  <2>3. CASE y # r
    <3>1. Cardinality(s \ {r}) = n /\ Cardinality(s \ {y}) = n
      <4>1. /\ Cardinality(s \ {r}) = Cardinality(s) - 1 
            /\ Cardinality(s \ {y}) = Cardinality(s) - 1
        BY <1>0, <2>1, FS_RemoveElement
      <4> QED
        BY <4>1
    <3>2. /\ SumFunctionOnSet(f, s \ {r}) = f[y] + SumFunctionOnSet(f, (s \ {r}) \ {y})
          /\ SumFunctionOnSet(f, s \ {y}) = f[r] + SumFunctionOnSet(f, (s \ {y}) \ {r})
      BY <1>2, <2>1, <2>3, <3>1
    <3>3. (s \ {r}) \ {y} = (s \ {y}) \ {r}
      OBVIOUS
    <3>4. SumFunctionOnSet(f, (s \ {r}) \ {y}) \in Int /\ f[y] \in Int /\ f[r] \in Int
      BY <1>0, <2>1
    <3>5. PICK rest : rest = SumFunctionOnSet(f, (s \ {r}) \ {y})
      OBVIOUS
    <3>6. PICK p, q : p = f[r] /\ q = f[y]
      OBVIOUS
    <3>7. SumFunctionOnSet(f, s) = p + (q + rest) /\ SumFunctionOnSet(f, s \ {y}) = p + rest
      BY <2>1, <3>2, <3>3, <3>5, <3>6
    <3>8. p \in Int /\ q \in Int /\ rest \in Int
      BY <3>4, <3>5, <3>6
    <3> QED
      BY <3>6, <3>7, <3>8
  <2> QED
    BY <2>2, <2>3
<1>3. Cardinality(S) \in N
  <2> HIDE DEF N
  <2> QED
    BY <1>1, <1>2, NatSet, FS_CardinalityType
<1> QED
  BY <1>3

\* Functions with the same values have the same sum.
LEMMA SumSame ==
  ASSUME NEW S, IsFiniteSet(S), NEW f, NEW g, \A x \in S : f[x] = g[x]
  PROVE  SumFunctionOnSet(f, S) = SumFunctionOnSet(g, S)
<1> DEFINE N == {n \in Nat : \A s \in SUBSET S : Cardinality(s) = n => SumFunctionOnSet(f, s) = SumFunctionOnSet(g, s)}
<1>0. \A s \in SUBSET S : IsFiniteSet(s)
  BY FS_Subset
<1>1. 0 \in N
  <2>1. \A s \in SUBSET S : Cardinality(s) = 0 => s = {}
    BY <1>0, FS_EmptySet
  <2>2. SumFunctionOnSet(f, {}) = 0 /\ SumFunctionOnSet(g, {}) = 0
    BY FS_EmptySet, SumRecursion
  <2> QED
    BY <2>1, <2>2
<1>2. ASSUME NEW n \in Nat, n \in N
      PROVE  n + 1 \in N
  <2> SUFFICES ASSUME NEW s \in SUBSET S, Cardinality(s) = n + 1
               PROVE  SumFunctionOnSet(f, s) = SumFunctionOnSet(g, s)
    OBVIOUS
  <2>1. s # {}
    BY FS_EmptySet
  <2>2. Cardinality(s \ {Rank(s)}) = Cardinality(s) - 1 /\ Rank(s) \in s
    BY <1>0, <2>1, RankFacts
  <2>3. SumFunctionOnSet(f, s \ {Rank(s)}) = SumFunctionOnSet(g, s \ {Rank(s)})
    BY <1>2, <2>2
  <2>4. /\ SumFunctionOnSet(f, s) = f[Rank(s)] + SumFunctionOnSet(f, s \ {Rank(s)})
        /\ SumFunctionOnSet(g, s) = g[Rank(s)] + SumFunctionOnSet(g, s \ {Rank(s)})
    BY <1>0, <2>1, SumRecursion
  <2> QED
    BY <2>2, <2>3, <2>4
<1>3. Cardinality(S) \in N
  <2> HIDE DEF N
  <2> QED
    BY <1>1, <1>2, NatSet, FS_CardinalityType
<1> QED
  BY <1>3

\* A sum of which one value changes.
LEMMA SumChange ==
  ASSUME NEW S, IsFiniteSet(S), NEW f, NEW g, NEW d \in S, \A x \in S : f[x] \in Int, g[d] \in Int,
         \A x \in S \ {d} : g[x] = f[x]
  PROVE  SumFunctionOnSet(g, S) = SumFunctionOnSet(f, S) + g[d] - f[d]
<1>1. \A x \in S : g[x] \in Int
  OBVIOUS
<1>2. IsFiniteSet(S \ {d})
  BY FS_RemoveElement
<1>3. SumFunctionOnSet(g, S \ {d}) = SumFunctionOnSet(f, S \ {d}) /\ SumFunctionOnSet(f, S \ {d}) \in Int
  BY <1>2, SumSame, SumType
<1> QED
  BY <1>1, <1>3, SumPick

\* The sum over an interval is that of its two parts.
LEMMA SumConcat ==
  ASSUME NEW n \in Nat, NEW m \in Nat, NEW f, NEW g, NEW h,
         \A i \in 1 .. n : f[i] = g[i] /\ g[i] \in Int, \A i \in 1 .. m : f[n + i] = h[i] /\ h[i] \in Int
  PROVE  SumFunctionOnSet(f, 1 .. (n + m)) = SumFunctionOnSet(g, 1 .. n) + SumFunctionOnSet(h, 1 .. m)
<1> DEFINE Adds(k) == SumFunctionOnSet(f, 1 .. (n + k)) = SumFunctionOnSet(g, 1 .. n) + SumFunctionOnSet(h, 1 .. k)
           N == {k \in Nat : k <= m => Adds(k)}
<1>0. \A k \in Nat : IsFiniteSet(1 .. k)
  BY FS_Interval
<1>1. 0 \in N
  <2>1. SumFunctionOnSet(h, 1 .. 0) = 0
    <3>1. 1 .. 0 = {}
      OBVIOUS
    <3> QED
      BY <3>1, FS_EmptySet, SumRecursion
  <2>2. SumFunctionOnSet(f, 1 .. n) = SumFunctionOnSet(g, 1 .. n) /\ SumFunctionOnSet(g, 1 .. n) \in Int
    BY <1>0, SumSame, SumType
  <2> QED
    BY <2>1, <2>2
<1>2. ASSUME NEW k \in Nat, k \in N
      PROVE  k + 1 \in N
  <2> SUFFICES ASSUME k + 1 <= m PROVE Adds(k + 1)
    OBVIOUS
  <2>1. \A i \in 1 .. (n + (k + 1)) : f[i] \in Int
    <3> SUFFICES ASSUME NEW i \in 1 .. (n + (k + 1)) PROVE f[i] \in Int
      OBVIOUS
    <3>1. CASE i <= n
      BY <3>1
    <3>2. CASE i > n
      <4>1. i - n \in 1 .. m /\ n + (i - n) = i
        BY <3>2
      <4> QED
        BY <4>1
    <3> QED
      BY <3>1, <3>2
  <2>2. SumFunctionOnSet(f, 1 .. (n + (k + 1))) = f[n + (k + 1)] + SumFunctionOnSet(f, 1 .. (n + k))
    <3>1. PICK z, T : z = n + (k + 1) /\ T = 1 .. (n + (k + 1))
      OBVIOUS
    <3>2. z \in T /\ T \ {z} = 1 .. (n + k)
      BY <3>1
    <3>3. IsFiniteSet(T) /\ \A i \in T : f[i] \in Int
      BY <1>0, <2>1, <3>1
    <3>4. SumFunctionOnSet(f, T) = f[z] + SumFunctionOnSet(f, T \ {z})
      BY <3>2, <3>3, SumPick
    <3> QED
      BY <3>1, <3>2, <3>4
  <2>3. SumFunctionOnSet(h, 1 .. (k + 1)) = h[k + 1] + SumFunctionOnSet(h, 1 .. k)
    <3>1. PICK z, T : z = k + 1 /\ T = 1 .. (k + 1)
      OBVIOUS
    <3>2. z \in T /\ T \ {z} = 1 .. k
      BY <3>1
    <3>3. IsFiniteSet(T) /\ \A i \in T : h[i] \in Int
      BY <1>0, <3>1
    <3>4. SumFunctionOnSet(h, T) = h[z] + SumFunctionOnSet(h, T \ {z})
      BY <3>2, <3>3, SumPick
    <3> QED
      BY <3>1, <3>2, <3>4
  <2>4. SumFunctionOnSet(g, 1 .. n) \in Int /\ SumFunctionOnSet(h, 1 .. k) \in Int /\ h[k + 1] \in Int
        /\ f[n + (k + 1)] = h[k + 1]
    <3>1. IsFiniteSet(1 .. n) /\ IsFiniteSet(1 .. k) /\ k + 1 \in 1 .. m
      BY <1>0
    <3>2. PICK A, B : A = 1 .. n /\ B = 1 .. k
      OBVIOUS
    <3>3. SumFunctionOnSet(g, A) \in Int /\ SumFunctionOnSet(h, B) \in Int
      BY <3>1, <3>2, SumType
    <3> QED
      BY <3>1, <3>2, <3>3
  <2>5. Adds(k)
    BY <1>2
  <2> QED
    BY <2>2, <2>3, <2>4, <2>5
<1>3. m \in N
  <2> HIDE DEF N
  <2> QED
    BY <1>1, <1>2, NatSet
<1> QED
  BY <1>3

\* A sum with at most one value that is not zero.
LEMMA SumOnly ==
  ASSUME NEW S, IsFiniteSet(S), NEW f
  PROVE  /\ (\A x \in S : f[x] = 0) => SumFunctionOnSet(f, S) = 0
         /\ \A d \in S : f[d] \in Int /\ (\A x \in S \ {d} : f[x] = 0) => SumFunctionOnSet(f, S) = f[d]
<1> DEFINE N == {n \in Nat : \A s \in SUBSET S : Cardinality(s) = n /\ (\A x \in s : f[x] = 0) => SumFunctionOnSet(f, s) = 0}
<1>0. \A s \in SUBSET S : IsFiniteSet(s) /\ Cardinality(s) \in Nat
  BY FS_Subset, FS_CardinalityType
<1>1. 0 \in N
  <2>1. \A s \in SUBSET S : Cardinality(s) = 0 => s = {}
    BY <1>0, FS_EmptySet
  <2>2. SumFunctionOnSet(f, {}) = 0
    BY FS_EmptySet, SumRecursion
  <2> QED
    BY <2>1, <2>2
<1>2. ASSUME NEW n \in Nat, n \in N
      PROVE  n + 1 \in N
  <2> SUFFICES ASSUME NEW s \in SUBSET S, Cardinality(s) = n + 1, \A x \in s : f[x] = 0
               PROVE  SumFunctionOnSet(f, s) = 0
    OBVIOUS
  <2>1. s # {}
    BY FS_EmptySet
  <2>2. Cardinality(s \ {Rank(s)}) = Cardinality(s) - 1 /\ Rank(s) \in s
    BY <1>0, <2>1, RankFacts
  <2>3. SumFunctionOnSet(f, s \ {Rank(s)}) = 0
    BY <1>2, <2>2
  <2>4. SumFunctionOnSet(f, s) = f[Rank(s)] + SumFunctionOnSet(f, s \ {Rank(s)})
    BY <1>0, <2>1, SumRecursion
  <2> QED
    BY <2>2, <2>3, <2>4
<1>3. Nat \subseteq N
  <2> HIDE DEF N
  <2> QED
    BY <1>1, <1>2, NatSet
<1>4. \A s \in SUBSET S : (\A x \in s : f[x] = 0) => SumFunctionOnSet(f, s) = 0
  BY <1>0, <1>3
<1>5. ASSUME NEW d \in S, f[d] \in Int, \A x \in S \ {d} : f[x] = 0
      PROVE  SumFunctionOnSet(f, S) = f[d]
  <2>1. SumFunctionOnSet(f, S \ {d}) = 0
    BY <1>4, <1>5
  <2>2. \A x \in S : f[x] \in Int
    BY <1>5
  <2>3. SumFunctionOnSet(f, S) = f[d] + SumFunctionOnSet(f, S \ {d})
    BY <2>2, SumPick
  <2> QED
    BY <1>5, <2>1, <2>3
<1> QED
  BY <1>4, <1>5

\* A sum over another set that is in bijection with the first.
LEMMA SumRenamed ==
  ASSUME NEW S, IsFiniteSet(S), NEW T, NEW e \in Bijection(S, T), NEW f, NEW g,
         \A x \in S : f[x] = g[e[x]] /\ f[x] \in Int
  PROVE  SumFunctionOnSet(f, S) = SumFunctionOnSet(g, T)
<1> DEFINE Img(s) == {e[x] : x \in s}
           Same(s) == SumFunctionOnSet(f, s) = SumFunctionOnSet(g, Img(s))
           N == {n \in Nat : \A s \in SUBSET S : Cardinality(s) = n => Same(s)}
<1>0. \A s \in SUBSET S : IsFiniteSet(s)
  BY FS_Subset
<1>e. /\ e \in [S -> T] /\ IsFiniteSet(T) /\ \A x, y \in S : e[x] = e[y] => x = y
      /\ \A y \in T : \E x \in S : e[x] = y
  <2>1. ExistsBijection(S, T)
    BY DEF ExistsBijection
  <2> QED
    BY <2>1, FS_Bijection DEF Bijection, Injection, Surjection, IsInjective
<1>1. 0 \in N
  <2>1. \A s \in SUBSET S : Cardinality(s) = 0 => s = {}
    BY <1>0, FS_EmptySet
  <2>2. SumFunctionOnSet(f, {}) = 0 /\ SumFunctionOnSet(g, {}) = 0 /\ Img({}) = {}
    BY FS_EmptySet, SumRecursion
  <2> QED
    BY <2>1, <2>2
<1>2. ASSUME NEW n \in Nat, n \in N
      PROVE  n + 1 \in N
  <2> SUFFICES ASSUME NEW s \in SUBSET S, Cardinality(s) = n + 1 PROVE Same(s)
    OBVIOUS
  <2>0. s # {} /\ IsFiniteSet(s)
    BY <1>0, FS_EmptySet
  <2>1. PICK r : r = Rank(s)
    OBVIOUS
  <2>2. Cardinality(s \ {r}) = Cardinality(s) - 1 /\ r \in s
    BY <2>0, <2>1, RankFacts
  <2>3. Same(s \ {r})
    BY <1>2, <2>2
  <2>4. Img(s) \ {e[r]} = Img(s \ {r}) /\ e[r] \in Img(s) /\ Img(s) \subseteq T
    BY <1>e, <2>2
  <2>5. \A y \in Img(s) : g[y] \in Int
    BY <1>e
  <2>6. IsFiniteSet(Img(s))
    BY <1>e, <2>4, FS_Subset
  <2>7. SumFunctionOnSet(f, s) = f[r] + SumFunctionOnSet(f, s \ {r})
    BY <2>0, <2>2, SumPick
  <2>8. SumFunctionOnSet(g, Img(s)) = g[e[r]] + SumFunctionOnSet(g, Img(s) \ {e[r]})
    <3> HIDE DEF Img
    <3> QED
      BY <2>4, <2>5, <2>6, SumPick
  <2> QED
    BY <2>2, <2>3, <2>4, <2>7, <2>8
<1>3. Same(S)
  <2>1. Cardinality(S) \in N
    <3> HIDE DEF N
    <3> QED
      BY <1>1, <1>2, NatSet, FS_CardinalityType
  <2> QED
    BY <2>1
<1>4. Img(S) = T
  BY <1>e
<1> QED
  BY <1>3, <1>4
\* The sum of a sum of two functions.
LEMMA SumAdd ==
  ASSUME NEW S, IsFiniteSet(S), NEW f, NEW g, NEW h,
         \A x \in S : f[x] \in Int /\ g[x] \in Int /\ h[x] = f[x] + g[x]
  PROVE  SumFunctionOnSet(h, S) = SumFunctionOnSet(f, S) + SumFunctionOnSet(g, S)
<1> DEFINE Adds(s) == SumFunctionOnSet(h, s) = SumFunctionOnSet(f, s) + SumFunctionOnSet(g, s)
           N == {n \in Nat : \A s \in SUBSET S : Cardinality(s) = n => Adds(s)}
<1>0. \A s \in SUBSET S : IsFiniteSet(s)
  BY FS_Subset
<1>1. 0 \in N
  <2>1. \A s \in SUBSET S : Cardinality(s) = 0 => s = {}
    BY <1>0, FS_EmptySet
  <2>2. SumFunctionOnSet(f, {}) = 0 /\ SumFunctionOnSet(g, {}) = 0 /\ SumFunctionOnSet(h, {}) = 0
    BY FS_EmptySet, SumRecursion
  <2>3. Adds({})
    BY <2>2
  <2> QED
    BY <2>1, <2>3
<1>2. ASSUME NEW n \in Nat, n \in N
      PROVE  n + 1 \in N
  <2> SUFFICES ASSUME NEW s \in SUBSET S, Cardinality(s) = n + 1 PROVE Adds(s)
    OBVIOUS
  <2>0. s # {} /\ IsFiniteSet(s)
    BY <1>0, FS_EmptySet
  <2>1. PICK r : r = Rank(s)
    OBVIOUS
  <2>2. Cardinality(s \ {r}) = Cardinality(s) - 1 /\ r \in s /\ IsFiniteSet(s \ {r})
    BY <2>0, <2>1, RankFacts
  <2>3. Adds(s \ {r})
    BY <1>2, <2>2
  <2>4. /\ SumFunctionOnSet(f, s) = f[r] + SumFunctionOnSet(f, s \ {r})
        /\ SumFunctionOnSet(g, s) = g[r] + SumFunctionOnSet(g, s \ {r})
        /\ SumFunctionOnSet(h, s) = h[r] + SumFunctionOnSet(h, s \ {r})
    BY <2>0, <2>1, SumRecursion
  <2>5. SumFunctionOnSet(f, s \ {r}) \in Int /\ SumFunctionOnSet(g, s \ {r}) \in Int
    BY <2>2, SumType
  <2>6. f[r] \in Int /\ g[r] \in Int /\ h[r] = f[r] + g[r]
    BY <2>2
  <2> QED
    BY <2>3, <2>4, <2>5, <2>6
<1>3. Cardinality(S) \in N
  <2> HIDE DEF N
  <2> QED
    BY <1>1, <1>2, NatSet, FS_CardinalityType
<1> QED
  BY <1>3
====================================================================================
