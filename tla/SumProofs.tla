------------------------------ MODULE SumProofs ------------------------------
(***************************************************************************)
(* What SumFunctionOnSet of the community module Functions computes.  It   *)
(* is a recursive function over the subsets of a set, defined with CHOOSE: *)
(* the first lemmas show that the recursion has one solution on a finite   *)
(* set, by well-founded induction on the size of the subsets; the others   *)
(* are the laws of sums that the proofs about escrow use.                  *)
(***************************************************************************)
EXTENDS Integers, Functions, FiniteSetTheorems, WellFoundedInduction, TLAPS

\* A nonempty set of naturals has a least element.
LEMMA LeastNatural ==
  ASSUME NEW N \in SUBSET Nat, N # {}
  PROVE  \E n \in N : \A m \in N : n <= m
<1> DEFINE Less == {ss \in Nat \X Nat : ss[1] < ss[2]}
<1>1. IsWellFoundedOn(Less, Nat)
  BY NatLessThanWellFounded DEF OpToRel
<1>2. \E n \in N : \A m \in N : <<m, n>> \notin Less
  <2> HIDE DEF Less
  <2> QED  BY <1>1, WFMin
<1>3. \A m, n \in Nat : <<m, n>> \notin Less => n <= m
  OBVIOUS
<1> QED
  BY <1>2, <1>3

\* What holds of every subset of a finite set, if it holds of one whenever it
\* holds of all smaller ones.
LEMMA SubsetInduction ==
  ASSUME NEW S, IsFiniteSet(S), NEW Good,
         \A T \in SUBSET S :
           (\A U \in SUBSET S : Cardinality(U) < Cardinality(T) => U \in Good)
             => T \in Good
  PROVE  SUBSET S \subseteq Good
<1> SUFFICES ASSUME (SUBSET S) \ Good # {}
             PROVE  FALSE
  OBVIOUS
<1> DEFINE Sizes == {Cardinality(T) : T \in (SUBSET S) \ Good}
<1>1. \A T \in SUBSET S : Cardinality(T) \in Nat
  BY FS_Subset, FS_CardinalityType
<1>2. PICK n \in Sizes : \A m \in Sizes : n <= m
  <2>1. Sizes \in SUBSET Nat /\ Sizes # {}
    BY <1>1
  <2> HIDE DEF Sizes
  <2> QED
    BY <2>1, LeastNatural
<1>3. PICK T \in (SUBSET S) \ Good : n = Cardinality(T)
  BY <1>2
<1>4. ASSUME NEW U \in SUBSET S, Cardinality(U) < Cardinality(T)
      PROVE  U \in Good
  <2>1. Cardinality(U) \in Nat /\ Cardinality(T) \in Nat
    BY <1>1
  <2>2. U \notin Good => Cardinality(U) \in Sizes
    OBVIOUS
  <2> HIDE DEF Sizes
  <2> QED
    BY <1>2, <1>3, <1>4, <2>1, <2>2
<1> QED
  BY <1>3, <1>4

-----------------------------------------------------------------------------
(* SumFunctionOnSet unfolds along any element. *)

AnyOf(S) == CHOOSE x \in S : TRUE

\* One step of the recursion behind SumFunctionOnSet, and the functions that
\* satisfy it on a set D of sets.
SumStep(f, g, s) == IF s = {} THEN 0 ELSE f[AnyOf(s)] + g[s \ {AnyOf(s)}]
Sums(f, g, D) == g = [s \in D |-> SumStep(f, g, s)]

\* The recursion has a solution on the subsets of a finite set.
LEMMA SumsExist ==
  ASSUME NEW f, NEW S, IsFiniteSet(S)
  PROVE  \E g : Sums(f, g, SUBSET S)
<1> DEFINE UpTo(n) == {s \in SUBSET S : Cardinality(s) <= n}
           Unsolved == {n \in Nat : ~\E g : Sums(f, g, UpTo(n))}
<1>1. \A s \in SUBSET S : Cardinality(s) \in Nat /\ IsFiniteSet(s)
  BY FS_Subset, FS_CardinalityType
<1>2. \A s \in SUBSET S : s # {} =>
        s \ {AnyOf(s)} \in SUBSET S
          /\ Cardinality(s \ {AnyOf(s)}) = Cardinality(s) - 1
  BY <1>1, FS_RemoveElement DEF AnyOf
<1>3. Unsolved = {}
  <2> SUFFICES ASSUME Unsolved # {}
               PROVE  FALSE
    OBVIOUS
  <2>1. PICK n \in Unsolved : \A m \in Unsolved : n <= m
    <3> HIDE DEF UpTo
    <3>1. Unsolved \in SUBSET Nat
      OBVIOUS
    <3> HIDE DEF Unsolved
    <3> QED  BY <3>1, LeastNatural
  <2>2. CASE n = 0
    <3>1. \A s \in UpTo(0) : s = {}
      BY <1>1, FS_EmptySet
    <3> DEFINE g == [s \in UpTo(0) |-> 0]
    <3>2. Sums(f, g, UpTo(0))
      <4> HIDE DEF UpTo
      <4> QED  BY <3>1 DEF Sums, SumStep
    <3> QED  BY <2>2, <3>2
  <2>3. CASE n # 0
    <3>1. n - 1 \in Nat /\ n - 1 \notin Unsolved
      <4>1. n \in Nat
        OBVIOUS
      <4> HIDE DEF Unsolved
      <4> QED  BY <2>1, <2>3, <4>1
    <3>2. PICK g : Sums(f, g, UpTo(n - 1))
      BY <3>1
    <3> DEFINE h == [s \in UpTo(n) |-> SumStep(f, g, s)]
    <3>3. ASSUME NEW s \in UpTo(n)
          PROVE  SumStep(f, h, s) = SumStep(f, g, s)
      <4>1. CASE s = {}
        BY <4>1 DEF SumStep
      <4>2. CASE s # {}
        <5> DEFINE t == s \ {AnyOf(s)}
        <5>1. t \in UpTo(n - 1) /\ t \in UpTo(n)
          BY <1>1, <1>2, <4>2
        <5> HIDE DEF t, UpTo
        <5>2. g[t] = SumStep(f, g, t)
          BY <3>2, <5>1 DEF Sums
        <5>3. h[t] = SumStep(f, g, t)
          BY <5>1
        <5> HIDE DEF h
        <5> QED  BY <4>2, <5>2, <5>3 DEF SumStep, t
      <4> QED  BY <4>1, <4>2
    <3>4. Sums(f, h, UpTo(n))
      <4> HIDE DEF UpTo
      <4> QED  BY <3>3 DEF Sums
    <3> QED  BY <3>4
  <2> QED  BY <2>2, <2>3
<1>4. Cardinality(S) \in Nat /\ UpTo(Cardinality(S)) = SUBSET S
  BY FS_Subset, FS_CardinalityType
<1> QED
  BY <1>3, <1>4

\* The recursion has one solution, whatever set it is unfolded from.
LEMMA SumsAgree ==
  ASSUME NEW f, NEW g, NEW h, NEW S, IsFiniteSet(S), NEW T \in SUBSET S,
         Sums(f, g, SUBSET S), Sums(f, h, SUBSET T)
  PROVE  g[T] = h[T]
<1> DEFINE Good == {s \in SUBSET T : g[s] = h[s]}
<1>1. IsFiniteSet(T)
  BY FS_Subset
<1>2. ASSUME NEW s \in SUBSET T,
             \A u \in SUBSET T : Cardinality(u) < Cardinality(s) => u \in Good
      PROVE  s \in Good
  <2>1. g[s] = SumStep(f, g, s) /\ h[s] = SumStep(f, h, s)
    BY DEF Sums
  <2>2. CASE s = {}
    BY <2>1, <2>2 DEF SumStep
  <2>3. CASE s # {}
    <3>1. s \ {AnyOf(s)} \in SUBSET T
            /\ Cardinality(s \ {AnyOf(s)}) < Cardinality(s)
      BY <1>1, <2>3, FS_Subset, FS_CardinalityType, FS_RemoveElement DEF AnyOf
    <3>2. g[s \ {AnyOf(s)}] = h[s \ {AnyOf(s)}]
      BY <1>2, <3>1
    <3> QED  BY <2>1, <2>3, <3>2 DEF SumStep
  <2> QED  BY <2>2, <2>3
<1>3. SUBSET T \subseteq Good
  <2> HIDE DEF Good
  <2> QED  BY <1>1, <1>2, SubsetInduction
<1> QED
  BY <1>3

\* What SumFunctionOnSet computes on a finite set.
LEMMA SumIsSolution ==
  ASSUME NEW f, NEW S, IsFiniteSet(S)
  PROVE  \E g : Sums(f, g, SUBSET S) /\ SumFunctionOnSet(f, S) = g[S]
<1> DEFINE iter == CHOOSE g : g = [s \in SUBSET S |-> IF s = {} THEN 0
             ELSE f[CHOOSE x \in s : TRUE] + g[s \ {CHOOSE x \in s : TRUE}]]
<1>1. SumFunctionOnSet(f, S) = iter[S]
  BY DEF SumFunctionOnSet, FoldFunctionOnSet, MapThenFoldSet
<1>2. iter = CHOOSE g : Sums(f, g, SUBSET S)
  BY DEF Sums, SumStep, AnyOf
<1> HIDE DEF iter
<1>3. Sums(f, iter, SUBSET S)
  BY <1>2, SumsExist
<1> QED
  BY <1>1, <1>3

\* The sum over a set is the value of some element plus the sum of the rest.
LEMMA SumUnfolds ==
  ASSUME NEW f, NEW S, IsFiniteSet(S)
  PROVE  SumFunctionOnSet(f, S) =
           IF S = {} THEN 0 ELSE f[AnyOf(S)] + SumFunctionOnSet(f, S \ {AnyOf(S)})
<1>1. PICK g : Sums(f, g, SUBSET S) /\ SumFunctionOnSet(f, S) = g[S]
  BY SumIsSolution
<1>2. g[S] = SumStep(f, g, S)
  BY <1>1 DEF Sums
<1>3. CASE S = {}
  BY <1>1, <1>2, <1>3 DEF SumStep
<1>4. CASE S # {}
  <2> PICK T : T = S \ {AnyOf(S)}
    OBVIOUS
  <2>1. T \in SUBSET S /\ IsFiniteSet(T)
    BY FS_Subset
  <2>2. PICK h : Sums(f, h, SUBSET T) /\ SumFunctionOnSet(f, T) = h[T]
    BY <2>1, SumIsSolution
  <2>3. g[T] = h[T]
    BY <1>1, <2>1, <2>2, SumsAgree
  <2> QED
    BY <1>1, <1>2, <1>4, <2>2, <2>3 DEF SumStep
<1> QED
  BY <1>3, <1>4

-----------------------------------------------------------------------------
(* Facts about sums of naturals. *)

\* The empty sum is 0.
LEMMA SumEmpty ==
  ASSUME NEW f
  PROVE  SumFunctionOnSet(f, {}) = 0
<1>1. IsFiniteSet({})
  BY FS_EmptySet
<1> QED
  BY <1>1, SumUnfolds

\* A set without one of its elements is smaller.
LEMMA SmallerWithout ==
  ASSUME NEW S, IsFiniteSet(S), NEW T \in SUBSET S, NEW x \in T
  PROVE  T \ {x} \in SUBSET S /\ Cardinality(T \ {x}) < Cardinality(T)
<1>1. IsFiniteSet(T)
  BY FS_Subset
<1>2. Cardinality(T) \in Nat
  BY <1>1, FS_CardinalityType
<1>3. Cardinality(T \ {x}) = Cardinality(T) - 1
  BY <1>1, FS_RemoveElement
<1> QED
  BY <1>2, <1>3

\* A sum of naturals is a natural.
LEMMA SumType ==
  ASSUME NEW f, NEW S, IsFiniteSet(S), \A x \in S : f[x] \in Nat
  PROVE  SumFunctionOnSet(f, S) \in Nat
<1> DEFINE Good == {T \in SUBSET S : SumFunctionOnSet(f, T) \in Nat}
<1>1. ASSUME NEW T \in SUBSET S,
             \A U \in SUBSET S : Cardinality(U) < Cardinality(T) => U \in Good
      PROVE  T \in Good
  <2>1. IsFiniteSet(T)
    BY FS_Subset
  <2>2. CASE T = {}
    BY <2>2, SumEmpty
  <2>3. CASE T # {}
    <3>1. /\ AnyOf(T) \in T /\ T \ {AnyOf(T)} \in SUBSET S
          /\ Cardinality(T \ {AnyOf(T)}) < Cardinality(T)
      BY <2>3, SmallerWithout DEF AnyOf
    <3>2. SumFunctionOnSet(f, T \ {AnyOf(T)}) \in Nat /\ f[AnyOf(T)] \in Nat
      BY <1>1, <3>1
    <3> QED  BY <2>1, <2>3, <3>2, SumUnfolds
  <2> QED  BY <2>2, <2>3
<1>2. SUBSET S \subseteq Good
  <2> HIDE DEF Good
  <2> QED  BY <1>1, SubsetInduction
<1> QED
  BY <1>2

\* A sum can be taken apart along any element.
LEMMA SumAlong ==
  ASSUME NEW f, NEW S, IsFiniteSet(S), \A x \in S : f[x] \in Nat, NEW y \in S
  PROVE  SumFunctionOnSet(f, S) = f[y] + SumFunctionOnSet(f, S \ {y})
<1> DEFINE Splits(T, x) ==
             SumFunctionOnSet(f, T) = f[x] + SumFunctionOnSet(f, T \ {x})
           Good == {T \in SUBSET S : \A x \in T : Splits(T, x)}
<1>0. \A T \in SUBSET S : IsFiniteSet(T) /\ SumFunctionOnSet(f, T) \in Nat
  BY FS_Subset, SumType
<1>1. ASSUME NEW T \in SUBSET S,
             \A U \in SUBSET S : Cardinality(U) < Cardinality(T) => U \in Good
      PROVE  T \in Good
  <2> SUFFICES ASSUME NEW x \in T
               PROVE  Splits(T, x)
    OBVIOUS
  <2> PICK c : c = AnyOf(T)
    OBVIOUS
  <2>1. IsFiniteSet(T) /\ c \in T
    BY <1>0 DEF AnyOf
  <2>2. Splits(T, c)
    BY <2>1, SumUnfolds
  <2>3. CASE x # c
    <3>1. /\ T \ {c} \in SUBSET S /\ Cardinality(T \ {c}) < Cardinality(T)
          /\ T \ {x} \in SUBSET S /\ Cardinality(T \ {x}) < Cardinality(T)
      BY <2>1, SmallerWithout
    <3>2. Splits(T \ {c}, x) /\ Splits(T \ {x}, c)
      BY <1>1, <2>1, <2>3, <3>1
    <3>3. (T \ {c}) \ {x} = (T \ {x}) \ {c}
      OBVIOUS
    <3>4. f[x] \in Nat /\ f[c] \in Nat
            /\ SumFunctionOnSet(f, (T \ {x}) \ {c}) \in Nat
      BY <1>0, <2>1
    <3> QED  BY <2>2, <3>2, <3>3, <3>4
  <2> QED  BY <2>2, <2>3
<1>2. SUBSET S \subseteq Good
  <2> HIDE DEF Good
  <2> QED  BY <1>1, SubsetInduction
<1> QED
  BY <1>2

\* Functions that agree on a set have the same sum over it.
LEMMA SumCongruence ==
  ASSUME NEW f, NEW g, NEW S, IsFiniteSet(S), \A x \in S : f[x] = g[x]
  PROVE  SumFunctionOnSet(f, S) = SumFunctionOnSet(g, S)
<1> DEFINE Good == {T \in SUBSET S : SumFunctionOnSet(f, T) = SumFunctionOnSet(g, T)}
<1>1. ASSUME NEW T \in SUBSET S,
             \A U \in SUBSET S : Cardinality(U) < Cardinality(T) => U \in Good
      PROVE  T \in Good
  <2>1. IsFiniteSet(T)
    BY FS_Subset
  <2>2. CASE T = {}
    BY <2>2, SumEmpty
  <2>3. CASE T # {}
    <3>1. /\ AnyOf(T) \in T /\ T \ {AnyOf(T)} \in SUBSET S
          /\ Cardinality(T \ {AnyOf(T)}) < Cardinality(T)
      BY <2>3, SmallerWithout DEF AnyOf
    <3>2. /\ SumFunctionOnSet(f, T \ {AnyOf(T)}) = SumFunctionOnSet(g, T \ {AnyOf(T)})
          /\ f[AnyOf(T)] = g[AnyOf(T)]
      BY <1>1, <3>1
    <3> QED  BY <2>1, <2>3, <3>2, SumUnfolds
  <2> QED  BY <2>2, <2>3
<1>2. SUBSET S \subseteq Good
  <2> HIDE DEF Good
  <2> QED  BY <1>1, SubsetInduction
<1> QED
  BY <1>2

\* Changing one value changes the sum by as much.
LEMMA SumUpdate ==
  ASSUME NEW f, NEW g, NEW S, IsFiniteSet(S), NEW y \in S,
         \A x \in S : f[x] \in Nat /\ g[x] \in Nat,
         \A x \in S : x # y => g[x] = f[x]
  PROVE  /\ SumFunctionOnSet(g, S) + f[y] = SumFunctionOnSet(f, S) + g[y]
         /\ f[y] <= SumFunctionOnSet(f, S)
<1>1. IsFiniteSet(S \ {y})
  BY FS_RemoveElement
<1>2. SumFunctionOnSet(f, S \ {y}) = SumFunctionOnSet(g, S \ {y})
  BY <1>1, SumCongruence
<1>3. SumFunctionOnSet(f, S \ {y}) \in Nat
  BY <1>1, SumType
<1>4. /\ SumFunctionOnSet(f, S) = f[y] + SumFunctionOnSet(f, S \ {y})
      /\ SumFunctionOnSet(g, S) = g[y] + SumFunctionOnSet(g, S \ {y})
  BY SumAlong
<1> QED
  BY <1>2, <1>3, <1>4

\* A sum is that over the elements whose value is not 0.
LEMMA SumSupport ==
  ASSUME NEW f, NEW S, IsFiniteSet(S), NEW R \in SUBSET S,
         \A x \in S : f[x] \in Nat, \A x \in S \ R : f[x] = 0
  PROVE  SumFunctionOnSet(f, S) = SumFunctionOnSet(f, R)
<1> DEFINE Good == {T \in SUBSET S :
                      SumFunctionOnSet(f, T) = SumFunctionOnSet(f, T \cap R)}
<1>1. ASSUME NEW T \in SUBSET S,
             \A U \in SUBSET S : Cardinality(U) < Cardinality(T) => U \in Good
      PROVE  T \in Good
  <2>1. CASE T = {}
    BY <2>1
  <2>2. CASE T # {}
    <3> PICK c : c \in T
      BY <2>2
    <3>1. SumFunctionOnSet(f, T) = f[c] + SumFunctionOnSet(f, T \ {c})
      <4>1. IsFiniteSet(T)
        BY FS_Subset
      <4> QED  BY <4>1, SumAlong
    <3>2. SumFunctionOnSet(f, T \ {c}) = SumFunctionOnSet(f, (T \ {c}) \cap R)
      BY <1>1, SmallerWithout
    <3>3. CASE c \in R
      <4>1. (T \ {c}) \cap R = (T \cap R) \ {c}
        OBVIOUS
      <4>2. IsFiniteSet(T \cap R) /\ c \in T \cap R
        BY <3>3, FS_Subset
      <4>3. SumFunctionOnSet(f, T \cap R)
              = f[c] + SumFunctionOnSet(f, (T \cap R) \ {c})
        <5>1. \A x \in T \cap R : f[x] \in Nat
          OBVIOUS
        <5> QED  BY <4>2, <5>1, SumAlong
      <4> QED  BY <3>1, <3>2, <4>1, <4>3
    <3>4. CASE c \notin R
      <4>1. (T \ {c}) \cap R = T \cap R /\ f[c] = 0
        BY <3>4
      <4>2. SumFunctionOnSet(f, T \cap R) \in Nat
        <5>1. IsFiniteSet(T \cap R)
          BY FS_Subset
        <5> QED  BY <5>1, SumType
      <4>3. SumFunctionOnSet(f, (T \ {c}) \cap R) = SumFunctionOnSet(f, T \cap R)
        BY <4>1
      <4>4. SumFunctionOnSet(f, T) = SumFunctionOnSet(f, T \cap R)
        <5> HIDE DEF Good
        <5> QED  BY <3>1, <3>2, <4>1, <4>2, <4>3
      <4> QED  BY <4>4
    <3> QED  BY <3>3, <3>4
  <2> QED  BY <2>1, <2>2
<1>2. SUBSET S \subseteq Good
  <2> HIDE DEF Good
  <2> QED  BY <1>1, SubsetInduction
<1>3. S \cap R = R
  OBVIOUS
<1> QED
  BY <1>2, <1>3

\* Renaming the indices of a sum one to one does not change it.
LEMMA SumReindex ==
  ASSUME NEW f, NEW g, NEW I, IsFiniteSet(I), NEW r,
         \A i \in I : f[i] \in Nat /\ g[r[i]] = f[i],
         \A i, j \in I : i # j => r[i] # r[j]
  PROVE  SumFunctionOnSet(g, {r[i] : i \in I}) = SumFunctionOnSet(f, I)
<1> DEFINE Image(J) == {r[i] : i \in J}
           Good == {J \in SUBSET I :
                      /\ IsFiniteSet(Image(J))
                      /\ SumFunctionOnSet(g, Image(J)) = SumFunctionOnSet(f, J)}
<1>1. ASSUME NEW J \in SUBSET I,
             \A K \in SUBSET I : Cardinality(K) < Cardinality(J) => K \in Good
      PROVE  J \in Good
  <2>1. CASE J = {}
    <3>1. Image(J) = {}
      BY <2>1
    <3> HIDE DEF Image
    <3> QED  BY <2>1, <3>1, SumEmpty, FS_EmptySet
  <2>2. CASE J # {}
    <3> PICK c : c \in J
      BY <2>2
    <3>1. J \ {c} \in Good
      BY <1>1, SmallerWithout
    <3>2. /\ IsFiniteSet(Image(J \ {c}))
          /\ SumFunctionOnSet(g, Image(J \ {c})) = SumFunctionOnSet(f, J \ {c})
      BY <3>1
    <3>3. /\ Image(J) = Image(J \ {c}) \cup {r[c]}
          /\ Image(J) \ {r[c]} = Image(J \ {c}) /\ r[c] \in Image(J)
      OBVIOUS
    <3>4. \A x \in Image(J) : g[x] \in Nat
      OBVIOUS
    <3> HIDE DEF Image, Good
    <3>5. IsFiniteSet(Image(J)) /\ IsFiniteSet(J)
      BY <3>2, <3>3, FS_AddElement, FS_Subset
    <3>6. SumFunctionOnSet(g, Image(J)) = g[r[c]] + SumFunctionOnSet(g, Image(J \ {c}))
      <4> PICK M : M = Image(J)
        OBVIOUS
      <4>1. IsFiniteSet(M) /\ r[c] \in M /\ \A x \in M : g[x] \in Nat
        BY <3>3, <3>4, <3>5
      <4>2. SumFunctionOnSet(g, M) = g[r[c]] + SumFunctionOnSet(g, M \ {r[c]})
        BY <4>1, SumAlong
      <4> QED  BY <3>3, <4>2
    <3>7. SumFunctionOnSet(f, J) = f[c] + SumFunctionOnSet(f, J \ {c})
      BY <3>5, SumAlong
    <3>8. SumFunctionOnSet(g, Image(J)) = SumFunctionOnSet(f, J)
      BY <3>2, <3>6, <3>7
    <3> QED  BY <3>5, <3>8 DEF Good
  <2> QED  BY <2>1, <2>2
<1>2. SUBSET I \subseteq Good
  <2> HIDE DEF Good
  <2> QED  BY <1>1, SubsetInduction
<1> QED
  BY <1>2

\* The sum over an interval, taken apart at its lower end.
LEMMA SumFromBelow ==
  ASSUME NEW f, NEW m \in Nat, NEW n \in Nat, m <= n, \A i \in m .. n : f[i] \in Nat
  PROVE  SumFunctionOnSet(f, m .. n) = f[m] + SumFunctionOnSet(f, (m + 1) .. n)
<1>1. IsFiniteSet(m .. n) /\ m \in m .. n /\ (m .. n) \ {m} = (m + 1) .. n
  BY FS_Interval
<1> QED
  BY <1>1, SumAlong

-----------------------------------------------------------------------------
(* Sharing a total by integer division. *)

\* The quotient and the remainder of a division.
LEMMA Division ==
  ASSUME NEW a \in Nat, NEW b \in Nat \ {0}
  PROVE  /\ a \div b \in Nat
         /\ 0 <= a - b * (a \div b) /\ a - b * (a \div b) < b
  BY SMT

\* Multiplication distributes over a sum of two.
LEMMA Distributes ==
  ASSUME NEW a \in Int, NEW b \in Int, NEW c \in Int
  PROVE  a * (b + c) = a * b + a * c /\ a * b \in Int
  BY SMT

\* A factor of a nonnegative product with a positive factor is nonnegative.
LEMMA NonnegativeFactor ==
  ASSUME NEW a \in Int, NEW b \in Nat \ {0}, b * a >= 0
  PROVE  a >= 0
  BY SMT

\* What is t times an entry of f is b times the entry of p and a remainder.
Divides(f, p, r, S, t, b) ==
  \A x \in S : t * f[x] = b * p[x] + r[x]

\* Divisions by the same divisor add up.
LEMMA SumOfRemainders ==
  ASSUME NEW f, NEW p, NEW r, NEW S, IsFiniteSet(S), NEW t \in Nat, NEW b \in Nat,
         \A x \in S : f[x] \in Nat /\ p[x] \in Nat /\ r[x] \in Nat,
         Divides(f, p, r, S, t, b)
  PROVE  t * SumFunctionOnSet(f, S)
           = b * SumFunctionOnSet(p, S) + SumFunctionOnSet(r, S)
<1> DEFINE Adds(T) == t * SumFunctionOnSet(f, T)
                        = b * SumFunctionOnSet(p, T) + SumFunctionOnSet(r, T)
           Good == {T \in SUBSET S : Adds(T)}
<1>1. ASSUME NEW T \in SUBSET S,
             \A U \in SUBSET S : Cardinality(U) < Cardinality(T) => U \in Good
      PROVE  T \in Good
  <2>1. IsFiniteSet(T)
    BY FS_Subset
  <2>2. CASE T = {}
    BY <2>2, SumEmpty
  <2>3. CASE T # {}
    <3> PICK x \in T : TRUE
      BY <2>3
    <3> DEFINE U == T \ {x}
    <3>0. U \in SUBSET S /\ Cardinality(U) < Cardinality(T)
      BY SmallerWithout
    <3>1. Adds(U)
      <4> HIDE DEF Adds
      <4> QED  BY <1>1, <3>0
    <3> HIDE DEF Adds
    <3>2. /\ SumFunctionOnSet(f, T) = f[x] + SumFunctionOnSet(f, U)
          /\ SumFunctionOnSet(p, T) = p[x] + SumFunctionOnSet(p, U)
          /\ SumFunctionOnSet(r, T) = r[x] + SumFunctionOnSet(r, U)
      BY <2>1, SumAlong
    <3>3. PICK F, P, R, fx, px, rx :
            /\ F = SumFunctionOnSet(f, U) /\ P = SumFunctionOnSet(p, U)
            /\ R = SumFunctionOnSet(r, U)
            /\ fx = f[x] /\ px = p[x] /\ rx = r[x]
      OBVIOUS
    <3>4. F \in Int /\ P \in Int /\ R \in Int
      BY <3>0, <3>3, FS_Subset, SumType
    <3>5. fx \in Int /\ px \in Int /\ rx \in Int /\ t \in Int /\ b \in Int
      BY <3>3
    <3>6. t * F = b * P + R
      BY <3>1, <3>3 DEF Adds
    <3>7. t * fx = b * px + rx
      BY <3>3 DEF Divides
    <3>8. t * (fx + F) = b * (px + P) + (rx + R)
      <4>1. t * (fx + F) = t * fx + t * F /\ b * (px + P) = b * px + b * P
        BY <3>4, <3>5, Distributes
      <4>2. PICK y, z, v, w : y = t * fx /\ z = t * F /\ v = b * px /\ w = b * P
        OBVIOUS
      <4>3. y \in Int /\ z \in Int /\ v \in Int /\ w \in Int
        BY <3>4, <3>5, <4>2, Distributes
      <4>4. y + z = (v + w) + (rx + R)
        BY <3>4, <3>5, <3>6, <3>7, <4>2, <4>3
      <4> QED
        BY <4>1, <4>2, <4>4
    <3> QED
      BY <3>2, <3>3, <3>8 DEF Adds
  <2> QED
    BY <2>2, <2>3
<1>2. SUBSET S \subseteq Good
  <2> HIDE DEF Good
  <2> QED  BY <1>1, SubsetInduction
<1> QED
  BY <1>2

\* A sum of values up to b is at most b for every element.
LEMMA SumBounded ==
  ASSUME NEW r, NEW S, IsFiniteSet(S), NEW b \in Nat,
         \A x \in S : r[x] \in Nat /\ r[x] <= b
  PROVE  SumFunctionOnSet(r, S) <= Cardinality(S) * b
<1> DEFINE Good == {T \in SUBSET S : SumFunctionOnSet(r, T) <= Cardinality(T) * b}
<1>1. ASSUME NEW T \in SUBSET S,
             \A U \in SUBSET S : Cardinality(U) < Cardinality(T) => U \in Good
      PROVE  T \in Good
  <2>1. IsFiniteSet(T)
    BY FS_Subset
  <2>2. CASE T = {}
    BY <2>2, SumEmpty, FS_EmptySet
  <2>3. CASE T # {}
    <3> PICK x \in T : TRUE
      BY <2>3
    <3> DEFINE U == T \ {x}
    <3>1. U \in SUBSET S /\ Cardinality(U) < Cardinality(T)
      BY SmallerWithout
    <3>2. SumFunctionOnSet(r, T) = r[x] + SumFunctionOnSet(r, U)
      BY <2>1, SumAlong
    <3>3. PICK R, k : R = SumFunctionOnSet(r, U) /\ k = Cardinality(U)
      OBVIOUS
    <3>4. R \in Nat /\ k \in Nat /\ Cardinality(T) = k + 1
      BY <2>1, <3>1, <3>3, FS_Subset, FS_CardinalityType, FS_RemoveElement, SumType
    <3>5. R <= k * b
      BY <1>1, <3>1, <3>3
    <3>6. r[x] \in Nat /\ r[x] <= b
      OBVIOUS
    <3> HIDE DEF U
    <3>7. (k + 1) * b = k * b + b /\ k * b \in Int
      BY <3>4, Distributes
    <3>8. r[x] + R <= (k + 1) * b
      BY <3>4, <3>5, <3>6, <3>7
    <3> QED
      BY <3>2, <3>3, <3>4, <3>8
  <2> QED
    BY <2>2, <2>3
<1>2. SUBSET S \subseteq Good
  <2> HIDE DEF Good
  <2> QED  BY <1>1, SubsetInduction
<1> QED
  BY <1>2

\* Every p[i] is share s[i] of the total t, in b-ths and rounded down.
RoundedTo(p, s, I, t, b) == \A i \in I : p[i] = (t * s[i]) \div b

\* How far share i is from its exact value, in b-ths.
Over(amount, share, t, b) == amount * b - t * share

\* The shares s of the total t, the rounded portions p and the remainders r, on
\* the recipients S.
Shared(S, t, b, s, p, r) ==
  /\ IsFiniteSet(S) /\ t \in Nat /\ b \in Nat
  /\ \A x \in S : s[x] \in Nat /\ p[x] \in Nat /\ r[x] \in Nat /\ r[x] <= b
  /\ Divides(s, p, r, S, t, b)

\* The remainders of all but one recipient m.
OtherShares(S, r, m) == SumFunctionOnSet(r, S \ {m})

\* Portions and remainders add up to the total in b-ths.
AddsUp(S, t, b, s, p, r, m) ==
  /\ SumFunctionOnSet(p, S) \in Nat
  /\ OtherShares(S, r, m) \in Nat
  /\ OtherShares(S, r, m) <= Cardinality(S \ {m}) * b
  /\ t * SumFunctionOnSet(s, S)
       = b * SumFunctionOnSet(p, S) + (r[m] + OtherShares(S, r, m))

LEMMA SharedAddsUp ==
  ASSUME NEW S, NEW t, NEW b, NEW s, NEW p, NEW r, NEW m \in S,
         Shared(S, t, b, s, p, r)
  PROVE  AddsUp(S, t, b, s, p, r, m)
<1>1. IsFiniteSet(S) /\ t \in Nat /\ b \in Nat
  BY DEF Shared
<1>2. \A x \in S : s[x] \in Nat /\ p[x] \in Nat /\ r[x] \in Nat
  BY DEF Shared
<1>3. IsFiniteSet(S \ {m})
  BY <1>1, FS_RemoveElement
<1>4. SumFunctionOnSet(p, S) \in Nat
  BY <1>1, <1>2, SumType
<1>5. OtherShares(S, r, m) \in Nat
  BY <1>2, <1>3, SumType DEF OtherShares
<1>6. SumFunctionOnSet(r, S) = r[m] + OtherShares(S, r, m)
  BY <1>1, <1>2, SumAlong DEF OtherShares
<1>7. t * SumFunctionOnSet(s, S) = b * SumFunctionOnSet(p, S) + SumFunctionOnSet(r, S)
  <2>1. Divides(s, p, r, S, t, b)
    BY DEF Shared
  <2> QED
    BY <1>1, <1>2, <2>1, SumOfRemainders
<1>8. OtherShares(S, r, m) <= Cardinality(S \ {m}) * b
  <2>1. \A x \in S \ {m} : r[x] \in Nat /\ r[x] <= b
    BY DEF Shared
  <2> QED
    BY <1>1, <1>3, <2>1, SumBounded DEF OtherShares
<1> QED
  BY <1>4, <1>5, <1>6, <1>7, <1>8 DEF AddsUp

\* A total shared out in b-ths, every share rounded down: what is left over is
\* not negative; no share is rounded by a whole unit; and the one that takes
\* what is left is above its exact share by at most a unit for every other
\* share.
LEMMA RoundedShares ==
  ASSUME NEW n \in Nat \ {0}, NEW t \in Nat, NEW b \in Nat \ {0}, NEW s, NEW p,
         \A i \in 1 .. n : s[i] \in Nat, RoundedTo(p, s, 1 .. n, t, b),
         SumFunctionOnSet(s, 1 .. n) = b
  PROVE  /\ \A i \in 1 .. n : p[i] \in Nat
         /\ t - SumFunctionOnSet(p, 1 .. n) \in Nat
         /\ \A i \in 1 .. n : /\ -b < Over(p[i], s[i], t, b)
                              /\ Over(p[i], s[i], t, b) <= 0
         /\ LET over == Over(p[n] + (t - SumFunctionOnSet(p, 1 .. n)), s[n], t, b)
            IN  -b < over /\ over <= (n - 1) * b
<1> DEFINE I == 1 .. n
           r == [i \in I |-> t * s[i] - b * p[i]]
<1>1. ASSUME NEW i \in I
      PROVE  /\ p[i] \in Nat /\ r[i] \in Nat /\ r[i] < b
             /\ t * s[i] = b * p[i] + r[i] /\ Over(p[i], s[i], t, b) = -r[i]
  <2>1. s[i] \in Nat /\ r[i] = t * s[i] - b * p[i]
    OBVIOUS
  <2>2. p[i] = (t * s[i]) \div b
    BY DEF RoundedTo
  <2> HIDE DEF r
  <2>3. /\ p[i] \in Nat /\ r[i] \in Nat /\ r[i] < b
        /\ t * s[i] = b * p[i] + r[i] /\ p[i] * b - t * s[i] = -r[i]
    <3>1. PICK si, pi, x, y : si = s[i] /\ pi = p[i] /\ x = t * si /\ y = b * pi
      OBVIOUS
    <3>2. x \in Nat
      BY <2>1, <3>1
    <3>3. pi = x \div b
      BY <2>2, <3>1
    <3>4. pi \in Nat /\ 0 <= x - y /\ x - y < b
      BY <3>1, <3>2, <3>3, Division
    <3>5. y \in Int /\ pi * b = y
      BY <3>1, <3>4
    <3>6. x - y \in Nat /\ x = y + (x - y) /\ y - x = -(x - y)
      BY <3>2, <3>4, <3>5
    <3> QED
      BY <2>1, <3>1, <3>4, <3>5, <3>6
  <2> QED
    BY <2>3 DEF Over
<1>2. IsFiniteSet(I) /\ n \in I /\ IsFiniteSet(I \ {n}) /\ Cardinality(I \ {n}) = n - 1
  <2>1. IsFiniteSet(I) /\ Cardinality(I) = n /\ n \in I
    BY FS_Interval
  <2> HIDE DEF I
  <2> QED
    BY <2>1, FS_RemoveElement
<1>3. PICK P, Q : P = SumFunctionOnSet(p, I) /\ Q = OtherShares(I, r, n)
  OBVIOUS
<1>d. Divides(s, p, r, I, t, b)
  <2> HIDE DEF I, r
  <2> QED  BY <1>1 DEF Divides
<1>s. \A i \in I : s[i] \in Nat /\ p[i] \in Nat /\ r[i] \in Nat /\ r[i] <= b
  <2> HIDE DEF r
  <2>1. \A i \in I : p[i] \in Nat /\ r[i] \in Nat /\ r[i] < b
    BY <1>1
  <2> QED
    BY <2>1
<1> HIDE DEF I, r
<1>a. AddsUp(I, t, b, s, p, r, n)
  <2>1. Shared(I, t, b, s, p, r)
    BY <1>2, <1>d, <1>s DEF Shared
  <2> QED
    BY <1>2, <2>1, SharedAddsUp
<1>4. P \in Nat /\ Q \in Nat /\ r[n] \in Nat
  BY <1>2, <1>3, <1>a, <1>s DEF AddsUp
<1>r. PICK R : R = r[n] + Q /\ R \in Nat
  BY <1>4
<1>5. t * b = b * P + R
  <2>1. SumFunctionOnSet(s, I) = b
    BY DEF I
  <2> QED
    BY <1>3, <1>a, <1>r, <2>1 DEF AddsUp
<1>6. Q <= (n - 1) * b
  BY <1>2, <1>3, <1>a DEF AddsUp
<1>7. b * (t - P) = R
  <2>1. b * (t + (-P)) = b * t + b * (-P)
    BY <1>4, Distributes
  <2>2. b * (-P) = -(b * P) /\ b * t = t * b /\ t + (-P) = t - P
    BY <1>4
  <2>3. PICK x, y : x = b * P /\ y = t * b
    OBVIOUS
  <2>4. x \in Int /\ y \in Int
    BY <1>4, <2>3
  <2>5. y = x + R
    BY <1>5, <2>3
  <2>6. y + (-x) = R
    BY <1>r, <2>4, <2>5
  <2> QED
    BY <2>1, <2>2, <2>3, <2>6
<1>8. t - P \in Nat
  BY <1>4, <1>7, <1>r, NonnegativeFactor
<1>9. \A i \in I : -b < Over(p[i], s[i], t, b) /\ Over(p[i], s[i], t, b) <= 0
  BY <1>1
<1>10. Over(p[n] + (t - P), s[n], t, b) = Q
  <2>1. PICK pn, sn, rn : pn = p[n] /\ sn = s[n] /\ rn = r[n]
    OBVIOUS
  <2>2. pn \in Nat /\ rn \in Nat /\ sn \in Nat /\ Over(pn, sn, t, b) = -rn
    BY <1>1, <1>2, <1>s, <2>1
  <2>3. b * (pn + (t - P)) = b * pn + b * (t - P)
    BY <1>8, <2>2, Distributes
  <2>4. (pn + (t - P)) * b = b * (pn + (t - P)) /\ pn * b = b * pn
    BY <1>8, <2>2
  <2>5. PICK x, y : x = b * pn /\ y = t * sn
    OBVIOUS
  <2>6. x \in Int /\ y \in Int
    BY <2>2, <2>5, Distributes
  <2>7. x - y = -rn
    BY <2>2, <2>4, <2>5 DEF Over
  <2>8. x + R - y = Q
    <3>1. R = rn + Q
      BY <1>r, <2>1
    <3> QED
      BY <1>4, <2>2, <2>6, <2>7, <3>1
  <2>9. (pn + (t - P)) * b = x + R
    BY <1>7, <2>3, <2>4, <2>5
  <2>10. Over(pn + (t - P), sn, t, b) = Q
    <3>1. PICK z : z = (pn + (t - P)) * b
      OBVIOUS
    <3>2. z = x + R
      BY <2>9, <3>1
    <3>3. z - y = Q
      BY <1>4, <1>r, <2>6, <2>8, <3>2
    <3> QED
      BY <2>5, <3>1, <3>3 DEF Over
  <2> QED
    BY <2>1, <2>10
<1>11. -b < Q /\ Q <= (n - 1) * b
  BY <1>4, <1>6
<1> QED
  BY <1>3, <1>8, <1>9, <1>10, <1>11, <1>s DEF I
=============================================================================
