-------------------------------- MODULE Sums --------------------------------
(***************************************************************************)
(* What the sums of the models are: SumFunctionOnSet of the community      *)
(* modules adds the values of a function over a finite set, picking the    *)
(* elements in an order nobody knows.  The lemmas below say that the order *)
(* does not matter, what one element more adds, and how two sums compare.  *)
(*                                                                         *)
(* Induction is on finite sets, in the form of a minimal counterexample:   *)
(* MinimalSubset for strong induction, AllSubsets for one element more.    *)
(* A last lemma counts a finite set through a function on it.              *)
(***************************************************************************)
EXTENDS Functions, FiniteSets, FiniteSetTheorems, WellFoundedInduction, TLAPS

LEMMA PartIsFinite ==
  ASSUME NEW S, IsFiniteSet(S), NEW T \in SUBSET S
  PROVE  IsFiniteSet(T)
BY FS_Subset

LEMMA OneMoreIsFinite ==
  ASSUME NEW S, IsFiniteSet(S), NEW x
  PROVE  IsFiniteSet(S \cup {x})
BY FS_AddElement

(* A nonempty collection of subsets of a finite set has a minimal one.     *)
LEMMA MinimalSubset ==
  ASSUME NEW S, IsFiniteSet(S), NEW B, B \subseteq SUBSET S, B # {}
  PROVE  \E T \in B : \A U \in B : U \subseteq T => U = T
<1>1. IsWellFoundedOn(StrictSubsetOrdering(S), SUBSET S)
  BY FS_StrictSubsetOrderingWellFounded, FS_FiniteSubsetsOfFinite
<1>2. PICK T \in B : \A U \in B : ~(<<U, T>> \in StrictSubsetOrdering(S))
  BY <1>1, WFMin
<1>. QED
  BY <1>2 DEF StrictSubsetOrdering

(* A collection with the empty set, and with one element more of any of    *)
(* its sets, has all subsets of a finite set.                              *)
LEMMA AllSubsets ==
  ASSUME NEW S, IsFiniteSet(S), NEW G, {} \in G,
         \A T \in SUBSET S : \A x \in S \ T : T \in G => T \cup {x} \in G
  PROVE  \A T \in SUBSET S : T \in G
<1> DEFINE B == { T \in SUBSET S : T \notin G }
<1> SUFFICES ASSUME B # {} PROVE FALSE
  OBVIOUS
<1>1. PICK T \in B : \A U \in B : U \subseteq T => U = T
  <2>1. B \subseteq SUBSET S
    OBVIOUS
  <2> HIDE DEF B
  <2>. QED
    BY <2>1, MinimalSubset
<1>2. PICK x \in T : TRUE
  BY <1>1
<1>3. T \ {x} \in G
  BY <1>1, <1>2
<1>4. (T \ {x}) \cup {x} = T /\ x \in S \ (T \ {x}) /\ T \ {x} \in SUBSET S
  BY <1>1, <1>2
<1>. QED
  BY <1>1, <1>3, <1>4

-----------------------------------------------------------------------------
(* The recursion behind a sum has exactly one solution.                    *)

First(S) == CHOOSE x \in S : TRUE

Adds(f, S, g) ==
  g = [s \in SUBSET S |-> IF s = {} THEN 0 ELSE f[First(s)] + g[s \ {First(s)}]]

(* On what two sets share, their sums go the same way.                     *)
LEMMA AddsOnce ==
  ASSUME NEW f, NEW S, IsFiniteSet(S), NEW R, NEW g, NEW h, Adds(f, S, g), Adds(f, R, h)
  PROVE  \A T \in SUBSET S : T \in SUBSET R => g[T] = h[T]
<1> DEFINE B == { T \in SUBSET S : T \in SUBSET R /\ g[T] # h[T] }
<1> SUFFICES ASSUME B # {} PROVE FALSE
  OBVIOUS
<1>1. PICK T \in B : \A U \in B : U \subseteq T => U = T
  <2>1. B \subseteq SUBSET S
    OBVIOUS
  <2> HIDE DEF B
  <2>. QED
    BY <2>1, MinimalSubset
<1>2. T # {}
  BY <1>1 DEF Adds
<1>3. First(T) \in T
  BY <1>2 DEF First
<1>4. g[T \ {First(T)}] = h[T \ {First(T)}]
  BY <1>1, <1>3
<1>5. g[T] = f[First(T)] + g[T \ {First(T)}] /\ h[T] = f[First(T)] + h[T \ {First(T)}]
  BY <1>1, <1>2 DEF Adds
<1>. QED
  BY <1>1, <1>4, <1>5

LEMMA AddsExists ==
  ASSUME NEW f, NEW S, IsFiniteSet(S)
  PROVE  \E g : Adds(f, S, g)
<1> DEFINE B == { T \in SUBSET S : ~\E g : Adds(f, T, g) }
<1> SUFFICES ASSUME B # {} PROVE FALSE
  OBVIOUS
<1>1. PICK T \in B : \A U \in B : U \subseteq T => U = T
  <2>1. B \subseteq SUBSET S
    OBVIOUS
  <2> HIDE DEF B
  <2>. QED
    BY <2>1, MinimalSubset
<1> DEFINE below(s) == CHOOSE g : Adds(f, s, g)
           rest(s) == s \ {First(s)}
           sum(s) == IF s = {} THEN 0 ELSE f[First(s)] + below(rest(s))[rest(s)]
           total == [s \in SUBSET T |-> sum(s)]
<1>2. ASSUME NEW s \in SUBSET T, s # T PROVE Adds(f, s, below(s)) /\ IsFiniteSet(s)
  <2>1. \E g : Adds(f, s, g)
    BY <1>1, <1>2
  <2>. QED
    BY <2>1, FS_Subset
<1>3. ASSUME NEW s \in SUBSET T, s # {}
      PROVE  First(s) \in s /\ rest(s) \in SUBSET T /\ rest(s) # T
  BY <1>3 DEF First
<1>4. ASSUME NEW s \in SUBSET T, s # T PROVE total[s] = below(s)[s]
  <2>1. Adds(f, s, below(s)) /\ IsFiniteSet(s)
    BY <1>2, <1>4
  <2>2. CASE s = {}
    BY <2>1, <2>2 DEF Adds
  <2>3. CASE s # {}
    <3>1. rest(s) \in SUBSET s /\ rest(s) \in SUBSET T /\ rest(s) # T
      BY <1>3, <2>3
    <3>2. Adds(f, rest(s), below(rest(s))) /\ IsFiniteSet(rest(s))
      BY <1>2, <3>1
    <3> HIDE DEF below
    <3>3. below(s)[rest(s)] = below(rest(s))[rest(s)]
      BY <2>1, <3>1, <3>2, AddsOnce
    <3>4. below(s)[s] = f[First(s)] + below(s)[rest(s)]
      BY <2>1, <2>3 DEF Adds
    <3>. QED
      BY <2>3, <3>3, <3>4
  <2>. QED
    BY <2>2, <2>3
<1>5. Adds(f, T, total)
  <2>1. ASSUME NEW s \in SUBSET T, s # {} PROVE total[s] = f[First(s)] + total[rest(s)]
    <3> HIDE DEF below
    <3>1. rest(s) \in SUBSET T /\ rest(s) # T
      BY <1>3, <2>1
    <3>2. total[rest(s)] = below(rest(s))[rest(s)]
      BY <1>4, <3>1
    <3>. QED
      BY <2>1, <3>2
  <2>2. total[{}] = 0
    OBVIOUS
  <2>3. total = [s \in SUBSET T |-> total[s]]
    OBVIOUS
  <2> HIDE DEF total
  <2>. QED
    BY <2>1, <2>2, <2>3 DEF Adds
<1>. QED
  BY <1>1, <1>5

(* So a sum is what any solution says it is.                               *)
LEMMA SumIs ==
  ASSUME NEW f, NEW S, IsFiniteSet(S), NEW g, Adds(f, S, g)
  PROVE  SumFunctionOnSet(f, S) = g[S]
<1> DEFINE iter == CHOOSE h : h = [s \in SUBSET S |->
                      IF s = {} THEN 0 ELSE f[First(s)] + h[s \ {First(s)}]]
<1>1. SumFunctionOnSet(f, S) = iter[S]
  BY DEF SumFunctionOnSet, FoldFunctionOnSet, MapThenFoldSet, First
<1>2. Adds(f, S, iter)
  BY DEF Adds
<1> HIDE DEF iter
<1>. QED
  BY <1>1, <1>2, AddsOnce

LEMMA SumEmpty ==
  ASSUME NEW f
  PROVE  SumFunctionOnSet(f, {}) = 0
<1>1. IsFiniteSet({})
  BY FS_EmptySet
<1>2. PICK g : Adds(f, {}, g)
  BY <1>1, AddsExists
<1>3. g[{}] = 0
  BY <1>2 DEF Adds
<1>. QED
  BY <1>1, <1>2, <1>3, SumIs

LEMMA SumFirst ==
  ASSUME NEW f, NEW S, IsFiniteSet(S), S # {}
  PROVE  SumFunctionOnSet(f, S) = f[First(S)] + SumFunctionOnSet(f, S \ {First(S)})
<1> DEFINE R == S \ {First(S)}
<1>1. IsFiniteSet(R) /\ R \in SUBSET S
  BY FS_Subset
<1>2. PICK g : Adds(f, S, g)
  BY AddsExists
<1>3. PICK h : Adds(f, R, h)
  BY <1>1, AddsExists
<1>4. h[R] = g[R]
  BY <1>1, <1>2, <1>3, AddsOnce
<1>5. g[S] = f[First(S)] + g[R]
  BY <1>2 DEF Adds
<1>6. SumFunctionOnSet(f, S) = g[S]
  BY <1>2, SumIs
<1>7. SumFunctionOnSet(f, R) = h[R]
  BY <1>1, <1>3, SumIs
<1>. QED
  BY <1>4, <1>5, <1>6, <1>7

-----------------------------------------------------------------------------
(* The order does not matter: any element may be taken out first.          *)

LEMMA SumInt ==
  ASSUME NEW f, NEW S, IsFiniteSet(S), \A x \in S : f[x] \in Int
  PROVE  SumFunctionOnSet(f, S) \in Int
<1> DEFINE B == { T \in SUBSET S : SumFunctionOnSet(f, T) \notin Int }
<1> SUFFICES ASSUME B # {} PROVE FALSE
  OBVIOUS
<1>1. PICK T \in B : \A U \in B : U \subseteq T => U = T
  <2>1. B \subseteq SUBSET S
    OBVIOUS
  <2> HIDE DEF B
  <2>. QED
    BY <2>1, MinimalSubset
<1>2. T # {} /\ IsFiniteSet(T)
  <2>1. SumFunctionOnSet(f, {}) \in Int
    BY SumEmpty
  <2>2. IsFiniteSet(T)
    BY <1>1, FS_Subset
  <2>. QED
    BY <1>1, <2>1, <2>2
<1>3. First(T) \in T
  BY <1>2 DEF First
<1>4. SumFunctionOnSet(f, T \ {First(T)}) \in Int
  BY <1>1, <1>3
<1>5. SumFunctionOnSet(f, T) = f[First(T)] + SumFunctionOnSet(f, T \ {First(T)})
  BY <1>2, SumFirst
<1>6. f[First(T)] \in Int
  BY <1>1, <1>3
<1>. QED
  BY <1>1, <1>4, <1>5, <1>6

LEMMA SumTake ==
  ASSUME NEW f, NEW S, IsFiniteSet(S), \A x \in S : f[x] \in Int, NEW x \in S
  PROVE  SumFunctionOnSet(f, S) = f[x] + SumFunctionOnSet(f, S \ {x})
<1> DEFINE sum(T) == SumFunctionOnSet(f, T)
           B == { T \in SUBSET S : \E y \in T : sum(T) # f[y] + sum(T \ {y}) }
<1>0. ASSUME NEW T \in SUBSET S PROVE IsFiniteSet(T) /\ sum(T) \in Int
  <2>1. IsFiniteSet(T) /\ \A y \in T : f[y] \in Int
    BY FS_Subset
  <2>. QED
    BY <2>1, SumInt
<1> SUFFICES ASSUME B # {} PROVE FALSE
  BY S \in SUBSET S
<1>1. PICK T \in B : \A U \in B : U \subseteq T => U = T
  <2>1. B \subseteq SUBSET S
    OBVIOUS
  <2> HIDE DEF B
  <2>. QED
    BY <2>1, MinimalSubset
<1>2. PICK y \in T : sum(T) # f[y] + sum(T \ {y})
  BY <1>1
<1> DEFINE z == First(T)
<1>3. z \in T
  BY <1>2 DEF First
<1> HIDE DEF z
<1>4. sum(T) = f[z] + sum(T \ {z})
  BY <1>0, <1>1, <1>2, SumFirst DEF z
<1>5. z # y
  BY <1>2, <1>4
<1>6. \A U \in SUBSET S : U \subseteq T /\ U # T => \A w \in U : sum(U) = f[w] + sum(U \ {w})
  BY <1>1
<1>7. sum(T \ {z}) = f[y] + sum((T \ {z}) \ {y})
  <2>1. T \ {z} \in SUBSET S /\ T \ {z} # T /\ y \in T \ {z}
    BY <1>1, <1>2, <1>3, <1>5
  <2> HIDE DEF sum
  <2>. QED
    BY <1>6, <2>1
<1>8. sum(T \ {y}) = f[z] + sum((T \ {y}) \ {z})
  <2>1. T \ {y} \in SUBSET S /\ T \ {y} # T /\ z \in T \ {y}
    BY <1>1, <1>2, <1>3, <1>5
  <2> HIDE DEF sum
  <2>. QED
    BY <1>6, <2>1
<1>9. (T \ {z}) \ {y} = (T \ {y}) \ {z}
  OBVIOUS
<1>10. /\ f[y] \in Int /\ f[z] \in Int
       /\ sum((T \ {y}) \ {z}) \in Int
  BY <1>0, <1>1, <1>2, <1>3
<1> HIDE DEF sum, B
<1>11. sum(T) = f[z] + (f[y] + sum((T \ {y}) \ {z}))
  BY <1>4, <1>7, <1>9
<1>12. sum(T) # f[y] + (f[z] + sum((T \ {y}) \ {z}))
  BY <1>2, <1>8
<1>. QED
  BY <1>10, <1>11, <1>12

LEMMA SumAdd ==
  ASSUME NEW f, NEW S, IsFiniteSet(S), NEW x, x \notin S,
         \A y \in S \cup {x} : f[y] \in Int
  PROVE  SumFunctionOnSet(f, S \cup {x}) = f[x] + SumFunctionOnSet(f, S)
<1>1. IsFiniteSet(S \cup {x})
  BY FS_AddElement
<1>2. (S \cup {x}) \ {x} = S /\ x \in S \cup {x}
  OBVIOUS
<1>3. SumFunctionOnSet(f, S \cup {x}) = f[x] + SumFunctionOnSet(f, (S \cup {x}) \ {x})
  BY <1>1, <1>2, SumTake
<1>. QED
  BY <1>2, <1>3

-----------------------------------------------------------------------------
(* Comparing two sums.                                                     *)

(* Values that are nowhere larger do not add up to more.                   *)
LEMMA SumLeq ==
  ASSUME NEW f, NEW g, NEW S, IsFiniteSet(S),
         \A x \in S : f[x] \in Int /\ g[x] \in Int /\ f[x] <= g[x]
  PROVE  SumFunctionOnSet(f, S) <= SumFunctionOnSet(g, S)
<1> DEFINE G == { T \in SUBSET S : SumFunctionOnSet(f, T) <= SumFunctionOnSet(g, T) }
<1>1. {} \in G
  <2>1. SumFunctionOnSet(f, {}) = 0 /\ SumFunctionOnSet(g, {}) = 0
    BY SumEmpty
  <2>. QED
    BY <2>1
<1>2. ASSUME NEW T \in SUBSET S, NEW x \in S \ T, T \in G PROVE T \cup {x} \in G
  <2>1. IsFiniteSet(T) /\ T \cup {x} \in SUBSET S
    BY FS_Subset
  <2>2. /\ SumFunctionOnSet(f, T \cup {x}) = f[x] + SumFunctionOnSet(f, T)
        /\ SumFunctionOnSet(g, T \cup {x}) = g[x] + SumFunctionOnSet(g, T)
    BY <2>1, SumAdd
  <2>3. SumFunctionOnSet(f, T) \in Int /\ SumFunctionOnSet(g, T) \in Int
    BY <2>1, SumInt
  <2>4. f[x] + SumFunctionOnSet(f, T) <= g[x] + SumFunctionOnSet(g, T)
    BY <1>2, <2>3
  <2>. QED
    BY <2>1, <2>2, <2>4
<1>3. \A T \in SUBSET S : T \in G
  <2> HIDE DEF G
  <2>. QED
    BY <1>1, <1>2, AllSubsets
<1>. QED
  BY <1>3, S \in SUBSET S

(* Only the values on the set count.                                       *)
LEMMA SumAgree ==
  ASSUME NEW f, NEW g, NEW S, IsFiniteSet(S), \A x \in S : f[x] \in Int /\ g[x] = f[x]
  PROVE  SumFunctionOnSet(g, S) = SumFunctionOnSet(f, S)
<1>1. /\ SumFunctionOnSet(f, S) <= SumFunctionOnSet(g, S)
      /\ SumFunctionOnSet(g, S) <= SumFunctionOnSet(f, S)
  BY SumLeq
<1>2. SumFunctionOnSet(f, S) \in Int /\ SumFunctionOnSet(g, S) \in Int
  BY SumInt
<1>. QED
  BY <1>1, <1>2

(* One value that changes changes the sum by the difference.               *)
LEMMA SumChange ==
  ASSUME NEW f, NEW g, NEW S, IsFiniteSet(S), \A x \in S : f[x] \in Int /\ g[x] \in Int,
         NEW y \in S, \A x \in S \ {y} : g[x] = f[x]
  PROVE  SumFunctionOnSet(g, S) = SumFunctionOnSet(f, S) + g[y] - f[y]
<1>1. IsFiniteSet(S \ {y}) /\ \A x \in S \ {y} : f[x] \in Int /\ g[x] = f[x]
  BY FS_Subset
<1>2. SumFunctionOnSet(g, S \ {y}) = SumFunctionOnSet(f, S \ {y})
  BY <1>1, SumAgree
<1>3. /\ SumFunctionOnSet(f, S) = f[y] + SumFunctionOnSet(f, S \ {y})
      /\ SumFunctionOnSet(g, S) = g[y] + SumFunctionOnSet(g, S \ {y})
  BY SumTake
<1>4. SumFunctionOnSet(f, S \ {y}) \in Int
  BY <1>1, SumInt
<1>. QED
  BY <1>2, <1>3, <1>4

LEMMA SumZero ==
  ASSUME NEW f, NEW S, IsFiniteSet(S), \A x \in S : f[x] = 0
  PROVE  SumFunctionOnSet(f, S) = 0
<1> DEFINE G == { T \in SUBSET S : SumFunctionOnSet(f, T) = 0 }
<1>1. {} \in G
  BY SumEmpty
<1>2. ASSUME NEW T \in SUBSET S, NEW x \in S \ T, T \in G PROVE T \cup {x} \in G
  <2>1. IsFiniteSet(T) /\ T \cup {x} \in SUBSET S
    BY FS_Subset
  <2>2. SumFunctionOnSet(f, T \cup {x}) = f[x] + SumFunctionOnSet(f, T)
    BY <2>1, SumAdd
  <2>. QED
    BY <1>2, <2>1, <2>2
<1>3. \A T \in SUBSET S : T \in G
  <2> HIDE DEF G
  <2>. QED
    BY <1>1, <1>2, AllSubsets
<1>. QED
  BY <1>3, S \in SUBSET S

(* Two sums over the same set add up to the sum of their values.           *)
LEMMA SumPlus ==
  ASSUME NEW f, NEW g, NEW t, NEW S, IsFiniteSet(S),
         \A x \in S : f[x] \in Int /\ g[x] \in Int /\ t[x] = f[x] + g[x]
  PROVE  SumFunctionOnSet(t, S) = SumFunctionOnSet(f, S) + SumFunctionOnSet(g, S)
<1> DEFINE G == { T \in SUBSET S : SumFunctionOnSet(t, T) = SumFunctionOnSet(f, T) + SumFunctionOnSet(g, T) }
<1>1. {} \in G
  BY SumEmpty
<1>2. ASSUME NEW T \in SUBSET S, NEW x \in S \ T, T \in G PROVE T \cup {x} \in G
  <2>1. IsFiniteSet(T) /\ T \cup {x} \in SUBSET S
    BY FS_Subset
  <2>2. /\ SumFunctionOnSet(f, T \cup {x}) = f[x] + SumFunctionOnSet(f, T)
        /\ SumFunctionOnSet(g, T \cup {x}) = g[x] + SumFunctionOnSet(g, T)
    BY <2>1, SumAdd
  <2>3. \A y \in T \cup {x} : t[y] \in Int
    BY <2>1
  <2>4. SumFunctionOnSet(t, T \cup {x}) = t[x] + SumFunctionOnSet(t, T)
    BY <2>1, <2>3, SumAdd
  <2>5. SumFunctionOnSet(f, T) \in Int /\ SumFunctionOnSet(g, T) \in Int
    BY <2>1, SumInt
  <2>6. SumFunctionOnSet(t, T) = SumFunctionOnSet(f, T) + SumFunctionOnSet(g, T) /\ t[x] = f[x] + g[x]
    BY <1>2
  <2>7. QED
    BY <2>1, <2>2, <2>4, <2>5, <2>6
<1>3. \A T \in SUBSET S : T \in G
  <2> HIDE DEF G
  <2>. QED
    BY <1>1, <1>2, AllSubsets
<1>. QED
  BY <1>3, S \in SUBSET S

LEMMA SumNat ==
  ASSUME NEW f, NEW S, IsFiniteSet(S), \A x \in S : f[x] \in Nat
  PROVE  SumFunctionOnSet(f, S) \in Nat
<1> DEFINE zero == [x \in S |-> 0]
<1>1. SumFunctionOnSet(zero, S) <= SumFunctionOnSet(f, S)
  BY SumLeq
<1>2. SumFunctionOnSet(zero, S) = 0
  BY SumZero
<1>3. SumFunctionOnSet(f, S) \in Int
  BY SumInt
<1>. QED
  BY <1>1, <1>2, <1>3

(* Part of a sum of what is never negative is not more than all of it.     *)
LEMMA SumSubset ==
  ASSUME NEW f, NEW S, IsFiniteSet(S), \A x \in S : f[x] \in Nat, NEW T \in SUBSET S
  PROVE  SumFunctionOnSet(f, T) <= SumFunctionOnSet(f, S)
<1> DEFINE G == { R \in SUBSET (S \ T) : SumFunctionOnSet(f, T) <= SumFunctionOnSet(f, T \cup R) }
<1>0. IsFiniteSet(T) /\ IsFiniteSet(S \ T) /\ SumFunctionOnSet(f, T) \in Nat
  BY FS_Subset, SumNat
<1>1. {} \in G
  BY <1>0, T \cup {} = T
<1>2. ASSUME NEW R \in SUBSET (S \ T), NEW x \in (S \ T) \ R, R \in G PROVE R \cup {x} \in G
  <2>1. IsFiniteSet(T \cup R) /\ x \notin T \cup R /\ T \cup R \in SUBSET S
    BY FS_Subset
  <2>2. SumFunctionOnSet(f, (T \cup R) \cup {x}) = f[x] + SumFunctionOnSet(f, T \cup R)
    BY <2>1, SumAdd
  <2>3. SumFunctionOnSet(f, T \cup R) \in Nat /\ f[x] \in Nat
    BY <2>1, SumNat
  <2>4. (T \cup R) \cup {x} = T \cup (R \cup {x}) /\ R \cup {x} \in SUBSET (S \ T)
    OBVIOUS
  <2>5. SumFunctionOnSet(f, T) <= f[x] + SumFunctionOnSet(f, T \cup R)
    BY <1>0, <1>2, <2>3
  <2>. QED
    BY <2>2, <2>4, <2>5
<1>3. \A R \in SUBSET (S \ T) : R \in G
  <2> DEFINE D == S \ T
  <2> HIDE DEF G
  <2>1. IsFiniteSet(D) /\ \A R \in SUBSET D : \A x \in D \ R : R \in G => R \cup {x} \in G
    BY <1>0, <1>2
  <2> HIDE DEF D
  <2>2. \A R \in SUBSET D : R \in G
    BY <1>1, <2>1, AllSubsets
  <2>. QED
    BY <2>2 DEF D
<1>4. S \ T \in G /\ T \cup (S \ T) = S
  BY <1>3
<1>. QED
  BY <1>4

-----------------------------------------------------------------------------
(* Counting: a part of a numbered set has no more elements than the image *)
(* of the set under a function that tells its elements apart.             *)
LEMMA PartsAndImages ==
  ASSUME NEW n \in Nat, NEW S \in SUBSET (1 .. n), NEW P \in SUBSET S, NEW I, NEW f \in [S -> I],
         \A i \in I : \E a \in S : f[a] = i, \A a, b \in S : f[a] = f[b] => a = b
  PROVE  /\ Cardinality(P) \in Nat /\ Cardinality(I) \in Nat
         /\ Cardinality(P) <= Cardinality(I)
<1>1. IsFiniteSet(S)
  <2>1. IsFiniteSet(1 .. n)
    BY FS_Interval
  <2> QED
    BY <2>1, FS_Subset
<1>2. f \in Surjection(S, I)
  BY DEF Surjection
<1>3. IsFiniteSet(I)
  BY <1>1, <1>2, FS_Surjection
<1>4. [a \in P |-> f[a]] \in Injection(P, I)
  BY DEF Injection, IsInjective
<1>5. Cardinality(P) <= Cardinality(I)
  BY <1>3, <1>4, FS_Injection
<1>6. Cardinality(I) \in Nat /\ Cardinality(P) \in Nat
  BY <1>1, <1>3, FS_Subset, FS_CardinalityType
<1> QED
  BY <1>5, <1>6

-----------------------------------------------------------------------------
(* A finite set has an element with the highest number.                    *)
LEMMA Highest ==
  ASSUME NEW S, IsFiniteSet(S), S # {}, NEW f, \A x \in S : f[x] \in Nat
  PROVE  \E x \in S : \A y \in S : f[x] >= f[y]
<1> DEFINE G == { T \in SUBSET S : T # {} => \E x \in T : \A y \in T : f[x] >= f[y] }
<1>1. {} \in G
  OBVIOUS
<1>2. ASSUME NEW T \in SUBSET S, NEW z \in S \ T, T \in G PROVE T \cup {z} \in G
  <2>1. CASE T = {}
    BY <2>1
  <2>2. CASE T # {}
    <3>1. PICK x \in T : \A y \in T : f[x] >= f[y]
      BY <1>2, <2>2
    <3>2. CASE f[x] >= f[z]
      BY <3>1, <3>2
    <3>3. CASE ~(f[x] >= f[z])
      <4>1. \A y \in T : f[z] >= f[y]
        BY <3>1, <3>3
      <4>2. QED
        BY <4>1
    <3>4. QED
      BY <3>2, <3>3
  <2>3. QED
    BY <2>1, <2>2
<1> HIDE DEF G
<1>3. S \in G
  BY <1>1, <1>2, AllSubsets
<1>4. QED
  BY <1>3 DEF G

(* A finite set of numbers has a greatest one.                             *)
LEMMA Greatest ==
  ASSUME NEW S, IsFiniteSet(S), S # {}, S \subseteq Nat
  PROVE  \E x \in S : \A y \in S : x >= y
<1> DEFINE f == [x \in S |-> x]
<1>1. \A x \in S : f[x] = x /\ f[x] \in Nat
  OBVIOUS
<1> HIDE DEF f
<1>2. PICK x \in S : \A y \in S : f[x] >= f[y]
  BY <1>1, Highest
<1>. QED
  BY <1>1, <1>2

(* A finite set of numbers has a least one.                                *)
LEMMA Least ==
  ASSUME NEW S, IsFiniteSet(S), S # {}, S \subseteq Nat
  PROVE  \E x \in S : \A y \in S : x <= y
<1>1. PICK g \in S : \A y \in S : g >= y
  BY Greatest
<1> DEFINE f == [x \in S |-> g - x]
<1>2. \A x \in S : f[x] = g - x /\ f[x] \in Nat /\ x \in Nat
  BY <1>1
<1> HIDE DEF f
<1>3. PICK x \in S : \A y \in S : f[x] >= f[y]
  BY <1>2, Highest
<1>. QED
  BY <1>1, <1>2, <1>3
=============================================================================
