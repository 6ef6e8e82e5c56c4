------------------------------ MODULE SumProofs ------------------------------
(***************************************************************************)
(* What several of the proofs need of numbers and finite sets: induction   *)
(* over them, sums as Functions!SumFunctionOnSet computes them, and the    *)
(* parties and cells of an election.                                       *)
(*                                                                         *)
(* A sum is a recursive function on the subsets of the set, and it takes   *)
(* the elements in an order of its own. Induction goes by a set of numbers *)
(* for which the claim holds, whose complement has no least element.       *)
(***************************************************************************)
EXTENDS ChoiceParameters, FiniteSetTheorems, WellFoundedInduction, TLAPS

\* A set of numbers with zero and the successor of each of its elements holds
\* every number.
LEMMA NumberInduction ==
  ASSUME NEW P \in SUBSET Nat, 0 \in P, \A n \in P : n + 1 \in P
  PROVE  P = Nat
<1> SUFFICES ASSUME Nat \ P # {} PROVE FALSE
  OBVIOUS
<1> DEFINE R == OpToRel(<, Nat)
<1>1. IsWellFoundedOn(R, Nat)
  BY NatLessThanWellFounded
<1>2. \A m, n \in Nat : m < n => <<m, n>> \in R
  BY DEF OpToRel
<1> HIDE DEF R
<1>3. PICK x \in Nat \ P : \A y \in Nat \ P : ~ (<<y, x>> \in R)
  BY <1>1, WFMin
<1>4. x # 0 /\ x - 1 \in Nat /\ x - 1 < x
  OBVIOUS
<1>5. <<x - 1, x>> \in R
  BY <1>2, <1>4
<1> QED BY <1>3, <1>4, <1>5

\* A collection of subsets of a finite set with the empty set, and with every
\* set that has one element more than one of its members, holds the whole set.
LEMMA SubsetInduction ==
  ASSUME NEW S, IsFiniteSet(S), NEW P \in SUBSET SUBSET S,
         {} \in P, \A T \in P : \A x \in S \ T : T \cup {x} \in P
  PROVE  S \in P
<1> DEFINE Q == {n \in Nat : \A T \in SUBSET S : Cardinality(T) = n => T \in P}
<1>1. \A T \in SUBSET S : IsFiniteSet(T) /\ Cardinality(T) \in Nat
  BY FS_Subset, FS_CardinalityType
<1>2. 0 \in Q
  BY <1>1, FS_EmptySet
<1>3. ASSUME NEW n \in Q PROVE n + 1 \in Q
  <2>1. ASSUME NEW T \in SUBSET S, Cardinality(T) = n + 1 PROVE T \in P
    <3>1. T # {}
      BY <1>1, <2>1, FS_EmptySet
    <3>2. PICK x \in T : TRUE
      BY <3>1
    <3>3. Cardinality(T \ {x}) = n
      BY <1>1, <2>1, FS_RemoveElement
    <3>4. T \ {x} \in P
      BY <3>3
    <3>5. T = (T \ {x}) \cup {x} /\ x \in S \ (T \ {x})
      OBVIOUS
    <3> QED BY <3>4, <3>5
  <2> QED BY <2>1
<1>4. Q = Nat
  <2> HIDE DEF Q
  <2>1. Q \in SUBSET Nat
    BY DEF Q
  <2> QED BY <1>2, <1>3, <2>1, NumberInduction
<1> QED BY <1>1, <1>4
-----------------------------------------------------------------------------
(* The recursion                                                           *)

\* The element that the sum over T takes next.
Summand(T) == CHOOSE x \in T : TRUE

\* The function g sums f over the sets in D.
Adds(g, f, D) == g = [T \in D |-> IF T = {} THEN 0 ELSE f[Summand(T)] + g[T \ {Summand(T)}]]

LEMMA SumIsChosen ==
  ASSUME NEW f, NEW S
  PROVE  SumFunctionOnSet(f, S) = (CHOOSE g : Adds(g, f, SUBSET S))[S]
  BY DEF SumFunctionOnSet, FoldFunctionOnSet, MapThenFoldSet, Adds, Summand

LEMMA SummandFacts ==
  ASSUME NEW T, T # {}, IsFiniteSet(T)
  PROVE  /\ Summand(T) \in T /\ IsFiniteSet(T \ {Summand(T)})
         /\ Cardinality(T) \in Nat /\ Cardinality(T \ {Summand(T)}) = Cardinality(T) - 1
<1>1. Summand(T) \in T
  BY DEF Summand
<1> QED BY <1>1, FS_RemoveElement, FS_CardinalityType

\* A function that sums f over the subsets of a finite set exists.
LEMMA AddsExists ==
  ASSUME NEW S, IsFiniteSet(S), NEW f
  PROVE  \E g : Adds(g, f, SUBSET S)
<1> DEFINE Level(n) == {T \in SUBSET S : Cardinality(T) <= n}
           P == {n \in Nat : \E g : Adds(g, f, Level(n))}
<1>1. \A T \in SUBSET S : IsFiniteSet(T) /\ Cardinality(T) \in Nat
                          /\ Cardinality(T) <= Cardinality(S)
  BY FS_Subset, FS_CardinalityType
<1>2. 0 \in P
  <2>1. \A T \in Level(0) : T = {}
    BY <1>1, FS_EmptySet
  <2>2. Adds([T \in Level(0) |-> 0], f, Level(0))
    BY <2>1 DEF Adds
  <2> QED BY <2>2
<1>3. ASSUME NEW n \in P PROVE n + 1 \in P
  <2>1. PICK g : Adds(g, f, Level(n))
    OBVIOUS
  <2> DEFINE h == [T \in Level(n + 1) |->
                     IF T = {} THEN 0 ELSE f[Summand(T)] + g[T \ {Summand(T)}]]
  <2>2. ASSUME NEW T \in Level(n) PROVE h[T] = g[T]
    <3>1. T \in Level(n + 1)
      BY <1>1
    <3>2. g[T] = IF T = {} THEN 0 ELSE f[Summand(T)] + g[T \ {Summand(T)}]
      <4> HIDE DEF Level
      <4> QED BY <2>1 DEF Adds
    <3> QED BY <3>1, <3>2
  <2>3. ASSUME NEW T \in Level(n + 1), T # {} PROVE h[T \ {Summand(T)}] = g[T \ {Summand(T)}]
    <3>1. IsFiniteSet(T) /\ Cardinality(T) <= n + 1
      BY <1>1
    <3>2. Cardinality(T) \in Nat /\ Cardinality(T \ {Summand(T)}) = Cardinality(T) - 1 /\ n \in Nat
      BY <2>3, <3>1, SummandFacts
    <3>3. Cardinality(T \ {Summand(T)}) <= n
      BY <3>1, <3>2
    <3>4. T \ {Summand(T)} \in Level(n)
      BY <3>3
    <3> QED BY <2>2, <3>4
  <2>4. h = [T \in Level(n + 1) |-> IF T = {} THEN 0 ELSE f[Summand(T)] + h[T \ {Summand(T)}]]
    <3> HIDE DEF Level
    <3> QED BY <2>3
  <2>5. Adds(h, f, Level(n + 1))
    <3> HIDE DEF h
    <3> QED BY <2>4 DEF Adds
  <2> HIDE DEF h, Level
  <2> QED BY <2>5
<1>4. P = Nat
  <2> HIDE DEF P
  <2>1. P \in SUBSET Nat
    BY DEF P
  <2> QED BY <1>2, <1>3, <2>1, NumberInduction
<1>5. Level(Cardinality(S)) = SUBSET S /\ Cardinality(S) \in Nat
  BY <1>1, FS_CardinalityType
<1>6. PICK g : Adds(g, f, Level(Cardinality(S)))
  BY <1>4, <1>5
<1> HIDE DEF Level
<1> QED BY <1>5, <1>6

\* Two such functions agree where both are defined.
LEMMA AddsAgree ==
  ASSUME NEW S, NEW T, NEW f, NEW g, NEW h, IsFiniteSet(S), T \subseteq S,
         Adds(g, f, SUBSET S), Adds(h, f, SUBSET T)
  PROVE  g[T] = h[T]
<1> DEFINE P == {n \in Nat : \A U \in SUBSET T : Cardinality(U) = n => g[U] = h[U]}
<1>1. \A U \in SUBSET T : IsFiniteSet(U) /\ Cardinality(U) \in Nat
  BY FS_Subset, FS_CardinalityType
<1>2. ASSUME NEW U \in SUBSET T
      PROVE  /\ g[U] = IF U = {} THEN 0 ELSE f[Summand(U)] + g[U \ {Summand(U)}]
             /\ h[U] = IF U = {} THEN 0 ELSE f[Summand(U)] + h[U \ {Summand(U)}]
  BY DEF Adds
<1>3. 0 \in P
  <2>1. \A U \in SUBSET T : Cardinality(U) = 0 => U = {}
    BY <1>1, FS_EmptySet
  <2> QED BY <1>2, <2>1
<1>4. ASSUME NEW n \in P PROVE n + 1 \in P
  <2>1. ASSUME NEW U \in SUBSET T, Cardinality(U) = n + 1 PROVE g[U] = h[U]
    <3>1. n \in Nat /\ n + 1 # 0
      OBVIOUS
    <3>a. U # {}
      BY <2>1, <3>1, FS_EmptySet
    <3>2. Cardinality(U \ {Summand(U)}) = n
      BY <1>1, <2>1, <3>1, <3>a, SummandFacts
    <3>3. g[U \ {Summand(U)}] = h[U \ {Summand(U)}]
      BY <3>2
    <3> QED BY <1>2, <3>a, <3>3
  <2> QED BY <2>1
<1>5. P = Nat
  <2> HIDE DEF P
  <2>1. P \in SUBSET Nat
    BY DEF P
  <2> QED BY <1>3, <1>4, <2>1, NumberInduction
<1> QED BY <1>1, <1>5

\* Every such function gives the sums.
LEMMA SumIsAdded ==
  ASSUME NEW S, IsFiniteSet(S), NEW T, T \subseteq S, NEW f, NEW g, Adds(g, f, SUBSET S)
  PROVE  SumFunctionOnSet(f, T) = g[T]
<1>1. IsFiniteSet(T)
  BY FS_Subset
<1> DEFINE h == CHOOSE h : Adds(h, f, SUBSET T)
<1>2. Adds(h, f, SUBSET T)
  BY <1>1, AddsExists
<1>3. SumFunctionOnSet(f, T) = h[T]
  BY SumIsChosen
<1> HIDE DEF h
<1>4. g[T] = h[T]
  <2>1. \A k : Adds(k, f, SUBSET T) => g[T] = k[T]
    BY AddsAgree, SMTT(20)
  <2> QED BY <1>2, <2>1
<1> QED BY <1>3, <1>4

\* The recursion that defines a sum.
LEMMA SumUnfolds ==
  ASSUME NEW S, IsFiniteSet(S), NEW f
  PROVE  SumFunctionOnSet(f, S) =
           IF S = {} THEN 0 ELSE f[Summand(S)] + SumFunctionOnSet(f, S \ {Summand(S)})
<1>1. PICK g : Adds(g, f, SUBSET S)
  BY AddsExists
<1>2. SumFunctionOnSet(f, S) = g[S]
      /\ SumFunctionOnSet(f, S \ {Summand(S)}) = g[S \ {Summand(S)}]
  BY <1>1, SumIsAdded
<1>3. g[S] = IF S = {} THEN 0 ELSE f[Summand(S)] + g[S \ {Summand(S)}]
  BY <1>1 DEF Adds
<1> QED BY <1>2, <1>3
-----------------------------------------------------------------------------
(* Laws                                                                    *)

\* A sum of numbers is a number.
LEMMA SumIsNumber ==
  ASSUME NEW S, IsFiniteSet(S), NEW f, \A x \in S : f[x] \in Nat
  PROVE  \A T \in SUBSET S : SumFunctionOnSet(f, T) \in Nat
<1> DEFINE P == {n \in Nat : \A T \in SUBSET S :
                   Cardinality(T) = n => SumFunctionOnSet(f, T) \in Nat}
<1>1. \A T \in SUBSET S : IsFiniteSet(T) /\ Cardinality(T) \in Nat
  BY FS_Subset, FS_CardinalityType
<1>2. 0 \in P
  <2>1. ASSUME NEW T \in SUBSET S, Cardinality(T) = 0 PROVE SumFunctionOnSet(f, T) \in Nat
    <3>1. T = {}
      BY <1>1, <2>1, FS_EmptySet
    <3> QED BY <1>1, <3>1, SumUnfolds
  <2> QED BY <2>1
<1>3. ASSUME NEW n \in P PROVE n + 1 \in P
  <2>1. ASSUME NEW T \in SUBSET S, Cardinality(T) = n + 1
        PROVE  SumFunctionOnSet(f, T) \in Nat
    <3>1. n \in Nat /\ n + 1 # 0
      OBVIOUS
    <3>2. T # {}
      BY <2>1, <3>1, FS_EmptySet
    <3>3. Cardinality(T \ {Summand(T)}) = n /\ Summand(T) \in S
      BY <1>1, <2>1, <3>1, <3>2, SummandFacts
    <3>4. SumFunctionOnSet(f, T \ {Summand(T)}) \in Nat
      BY <3>3
    <3>5. SumFunctionOnSet(f, T) = f[Summand(T)] + SumFunctionOnSet(f, T \ {Summand(T)})
      BY <1>1, <3>2, SumUnfolds
    <3> QED BY <3>3, <3>4, <3>5
  <2> QED BY <2>1
<1>4. P = Nat
  <2> HIDE DEF P
  <2>1. P \in SUBSET Nat
    BY DEF P
  <2> QED BY <1>2, <1>3, <2>1, NumberInduction
<1> QED BY <1>1, <1>4

\* The order of the summands does not matter: any element may come first.
LEMMA SumTakesAny ==
  ASSUME NEW S, IsFiniteSet(S), NEW f, \A x \in S : f[x] \in Nat, NEW x \in S
  PROVE  SumFunctionOnSet(f, S) = f[x] + SumFunctionOnSet(f, S \ {x})
<1> DEFINE P == {n \in Nat : \A T \in SUBSET S : Cardinality(T) = n =>
                   \A y \in T : SumFunctionOnSet(f, T) = f[y] + SumFunctionOnSet(f, T \ {y})}
<1>1. \A T \in SUBSET S : IsFiniteSet(T) /\ Cardinality(T) \in Nat
  BY FS_Subset, FS_CardinalityType
<1>2. 0 \in P
  BY <1>1, FS_EmptySet
<1>3. ASSUME NEW n \in P PROVE n + 1 \in P
  <2>1. ASSUME NEW T \in SUBSET S, Cardinality(T) = n + 1, NEW y \in T
        PROVE  SumFunctionOnSet(f, T) = f[y] + SumFunctionOnSet(f, T \ {y})
    <3> DEFINE a == Summand(T)
    <3>1. n \in Nat /\ T # {}
      BY <2>1
    <3>2. a \in T /\ Cardinality(T \ {a}) = n /\ Cardinality(T \ {y}) = n
      <4>1. a \in T /\ Cardinality(T \ {a}) = n
        BY <1>1, <2>1, <3>1, SummandFacts
      <4>2. Cardinality(T \ {y}) = n
        <5>1. IsFiniteSet(T) /\ y \in T
          BY <1>1, <2>1
        <5>2. Cardinality(T \ {y}) = Cardinality(T) - 1
          BY <5>1, FS_RemoveElement
        <5> QED BY <2>1, <3>1, <5>2
      <4> QED BY <4>1, <4>2
    <3>3. SumFunctionOnSet(f, T) = f[a] + SumFunctionOnSet(f, T \ {a})
      BY <1>1, <3>1, SumUnfolds
    <3> HIDE DEF a
    <3>4. CASE y = a
      BY <3>3, <3>4
    <3>5. CASE y # a
      <4>1. SumFunctionOnSet(f, T \ {a}) = f[y] + SumFunctionOnSet(f, (T \ {a}) \ {y})
        BY <3>2, <3>5
      <4>2. SumFunctionOnSet(f, T \ {y}) = f[a] + SumFunctionOnSet(f, (T \ {y}) \ {a})
        BY <3>2, <3>5
      <4>3. (T \ {y}) \ {a} = (T \ {a}) \ {y}
        OBVIOUS
      <4> DEFINE r == SumFunctionOnSet(f, (T \ {a}) \ {y})
      <4>4. f[a] \in Nat /\ f[y] \in Nat /\ r \in Nat
        BY <3>2, SumIsNumber
      <4>5. /\ SumFunctionOnSet(f, T \ {a}) = f[y] + r
            /\ SumFunctionOnSet(f, T \ {y}) = f[a] + r
        BY <4>1, <4>2, <4>3
      <4> HIDE DEF r
      <4> QED BY <3>3, <4>4, <4>5
    <3> QED BY <3>4, <3>5
  <2> QED BY <2>1
<1>4. P = Nat
  <2> HIDE DEF P
  <2>1. P \in SUBSET Nat
    BY DEF P
  <2> QED BY <1>2, <1>3, <2>1, NumberInduction
<1> QED BY <1>1, <1>4

\* Nothing adds up to zero.
LEMMA SumOfNone ==
  ASSUME NEW f
  PROVE  SumFunctionOnSet(f, {}) = 0
  BY FS_EmptySet, SumUnfolds

\* One summand more.
LEMMA SumGrows ==
  ASSUME NEW S, IsFiniteSet(S), NEW f, \A x \in S : f[x] \in Nat,
         NEW T \in SUBSET S, NEW x \in S \ T
  PROVE  SumFunctionOnSet(f, T \cup {x}) = f[x] + SumFunctionOnSet(f, T)
<1> DEFINE U == T \cup {x}
<1>1. IsFiniteSet(U) /\ \A y \in U : f[y] \in Nat
  BY FS_Subset
<1>2. x \in U /\ U \ {x} = T
  OBVIOUS
<1> HIDE DEF U
<1>3. SumFunctionOnSet(f, U) = f[x] + SumFunctionOnSet(f, U \ {x})
  BY <1>1, <1>2, SumTakesAny
<1> QED BY <1>2, <1>3 DEF U

\* Zeros add up to zero.
LEMMA SumOfZeros ==
  ASSUME NEW S, IsFiniteSet(S), NEW f, \A x \in S : f[x] = 0
  PROVE  SumFunctionOnSet(f, S) = 0
<1> DEFINE P == {T \in SUBSET S : SumFunctionOnSet(f, T) = 0}
<1>1. {} \in P
  BY SumOfNone
<1>2. ASSUME NEW T \in P, NEW x \in S \ T PROVE T \cup {x} \in P
  <2>1. SumFunctionOnSet(f, T \cup {x}) = f[x] + SumFunctionOnSet(f, T)
    BY SumGrows
  <2> QED BY <2>1
<1> HIDE DEF P
<1>3. S \in P
  <2>1. P \in SUBSET SUBSET S
    BY DEF P
  <2> QED BY <1>1, <1>2, <2>1, SubsetInduction
<1> QED BY <1>3 DEF P

\* Two functions with the same values on the set have the same sum.
LEMMA SumOfSame ==
  ASSUME NEW S, IsFiniteSet(S), NEW f, NEW g,
         \A x \in S : f[x] \in Nat /\ g[x] = f[x]
  PROVE  SumFunctionOnSet(g, S) = SumFunctionOnSet(f, S)
<1> DEFINE P == {T \in SUBSET S : SumFunctionOnSet(g, T) = SumFunctionOnSet(f, T)}
<1>1. {} \in P
  BY SumOfNone
<1>2. ASSUME NEW T \in P, NEW x \in S \ T PROVE T \cup {x} \in P
  <2>1. /\ SumFunctionOnSet(f, T \cup {x}) = f[x] + SumFunctionOnSet(f, T)
        /\ SumFunctionOnSet(g, T \cup {x}) = g[x] + SumFunctionOnSet(g, T)
    BY SumGrows
  <2> QED BY <2>1
<1> HIDE DEF P
<1>3. S \in P
  <2>1. P \in SUBSET SUBSET S
    BY DEF P
  <2> QED BY <1>1, <1>2, <2>1, SubsetInduction
<1> QED BY <1>3 DEF P

\* The sum of sums.
LEMMA SumOfSums ==
  ASSUME NEW S, IsFiniteSet(S), NEW f, NEW g, NEW h,
         \A x \in S : f[x] \in Nat /\ g[x] \in Nat /\ h[x] = f[x] + g[x]
  PROVE  SumFunctionOnSet(h, S) = SumFunctionOnSet(f, S) + SumFunctionOnSet(g, S)
<1> DEFINE P == {T \in SUBSET S : SumFunctionOnSet(h, T)
                                    = SumFunctionOnSet(f, T) + SumFunctionOnSet(g, T)}
<1>1. {} \in P
  BY SumOfNone
<1>2. ASSUME NEW T \in P, NEW x \in S \ T PROVE T \cup {x} \in P
  <2>1. /\ SumFunctionOnSet(f, T \cup {x}) = f[x] + SumFunctionOnSet(f, T)
        /\ SumFunctionOnSet(g, T \cup {x}) = g[x] + SumFunctionOnSet(g, T)
        /\ SumFunctionOnSet(h, T \cup {x}) = h[x] + SumFunctionOnSet(h, T)
    BY SumGrows
  <2>2. SumFunctionOnSet(f, T) \in Nat /\ SumFunctionOnSet(g, T) \in Nat
    BY SumIsNumber
  <2> QED BY <2>1, <2>2
<1> HIDE DEF P
<1>3. S \in P
  <2>1. P \in SUBSET SUBSET S
    BY DEF P
  <2> QED BY <1>1, <1>2, <2>1, SubsetInduction
<1> QED BY <1>3 DEF P

\* Every summand is at most the sum.
LEMMA SummandBound ==
  ASSUME NEW S, IsFiniteSet(S), NEW f, \A x \in S : f[x] \in Nat, NEW x \in S
  PROVE  f[x] <= SumFunctionOnSet(f, S)
<1>1. SumFunctionOnSet(f, S \ {x}) \in Nat
  BY SumIsNumber
<1> QED BY <1>1, SumTakesAny

\* A sum with a single summand other than zero.
LEMMA SumOfOne ==
  ASSUME NEW S, IsFiniteSet(S), NEW f, NEW x \in S, f[x] \in Nat,
         \A y \in S \ {x} : f[y] = 0
  PROVE  SumFunctionOnSet(f, S) = f[x]
<1>1. SumFunctionOnSet(f, S \ {x}) = 0
  BY FS_Subset, SumOfZeros
<1> QED BY <1>1, SumTakesAny

\* Numbers that add up to one: one of them is one and the others are zero.
LEMMA SumIsOne ==
  ASSUME NEW S, IsFiniteSet(S), NEW f, \A x \in S : f[x] \in Nat,
         SumFunctionOnSet(f, S) = 1
  PROVE  \E x \in S : f[x] = 1 /\ \A y \in S \ {x} : f[y] = 0
<1>1. PICK x \in S : f[x] # 0
  BY SumOfZeros
<1>2. SumFunctionOnSet(f, S \ {x}) \in Nat
  BY SumIsNumber
<1>3. f[x] = 1 /\ SumFunctionOnSet(f, S \ {x}) = 0
  BY <1>1, <1>2, SumTakesAny
<1>4. ASSUME NEW y \in S \ {x} PROVE f[y] = 0
  <2>1. f[y] <= SumFunctionOnSet(f, S \ {x})
    BY FS_Subset, SummandBound
  <2> QED BY <1>3, <2>1
<1> QED BY <1>3, <1>4

(***************************************************************************)
(* Finite sets.                                                            *)
(***************************************************************************)

\* The image of a finite set is finite.
LEMMA ImageIsFinite ==
  ASSUME NEW D, IsFiniteSet(D), NEW f, DOMAIN f = D
  PROVE  IsFiniteSet({f[x] : x \in D})
<1> DEFINE g == [x \in D |-> f[x]]
<1>1. g \in Surjection(D, {f[x] : x \in D})
  BY DEF Surjection
<1> QED BY <1>1, FS_Surjection

\* The set has at most one element.
LEMMA AtMostOne ==
  ASSUME NEW S, \A x, y \in S : x = y
  PROVE  IsFiniteSet(S) /\ Cardinality(S) \in {0, 1} /\ (Cardinality(S) = 0 <=> S = {})
<1>1. CASE S = {}
  BY <1>1, FS_EmptySet
<1>2. CASE S # {}
  <2>1. PICK x \in S : S = {x}
    BY <1>2
  <2>2. IsFiniteSet(S) /\ Cardinality(S) = 1
    BY <2>1, FS_Singleton
  <2> QED BY <1>2, <2>2
<1> QED BY <1>1, <1>2

(***************************************************************************)
(* The parties and the cells of an election.                               *)
(***************************************************************************)

LEMMA UptoFacts ==
  ASSUME NEW n \in Nat
  PROVE  IsFiniteSet(Upto(n)) /\ Cardinality(Upto(n)) = n /\ Upto(n) \subseteq Nat
<1>1. IsFiniteSet(0..(n - 1)) /\ Cardinality(0..(n - 1)) = IF 0 > n - 1 THEN 0 ELSE n - 1 - 0 + 1
  BY FS_Interval
<1> QED BY <1>1 DEF Upto

\* The parties and the cells of an election.
LEMMA ListFacts ==
  ASSUME NEW list, IsList(list)
  PROVE  /\ Cardinality(DOMAIN list) \in Nat /\ DOMAIN list = Upto(Cardinality(DOMAIN list))
         /\ DOMAIN list \subseteq Nat /\ \A i \in DOMAIN list : list[i] \in Nat
         /\ IsFiniteSet(Cells(list)) /\ Cells(list) \subseteq Nat \X Nat
         /\ \A i, j : <<i, j>> \in Cells(list) <=> i \in DOMAIN list /\ j \in Upto(list[i])
         /\ \A x \in Cells(list) : x = <<x[1], x[2]>> /\ x[1] \in DOMAIN list
                                   /\ x[2] \in Upto(list[x[1]])
<1>1. /\ Cardinality(DOMAIN list) \in Nat /\ DOMAIN list = Upto(Cardinality(DOMAIN list))
      /\ \A i \in DOMAIN list : list[i] \in Nat
  BY FS_CardinalityType DEF IsList
<1>2. DOMAIN list \subseteq Nat
  BY <1>1, UptoFacts
<1> DEFINE row == [i \in DOMAIN list |-> {i} \X Upto(list[i])]
<1>3. Cells(list) = UNION {row[i] : i \in DOMAIN list}
  BY DEF Cells
<1>4. ASSUME NEW i \in DOMAIN list PROVE IsFiniteSet(row[i])
  <2>1. IsFiniteSet(Upto(list[i]))
    BY <1>1, UptoFacts
  <2> QED BY <2>1, FS_Singleton, FS_Product
<1>5. IsFiniteSet({row[i] : i \in DOMAIN list})
  <2>1. IsFiniteSet(DOMAIN list)
    BY DEF IsList
  <2>2. DOMAIN row = DOMAIN list
    OBVIOUS
  <2> HIDE DEF row
  <2> QED BY <2>1, <2>2, ImageIsFinite
<1>6. IsFiniteSet(Cells(list))
  <2> HIDE DEF row
  <2>1. \A T \in {row[i] : i \in DOMAIN list} : IsFiniteSet(T)
    BY <1>4
  <2> QED BY <1>3, <1>5, <2>1, FS_UNION
<1>7. \A i, j : <<i, j>> \in Cells(list) <=> i \in DOMAIN list /\ j \in Upto(list[i])
  BY <1>3
<1>8. \A x \in Cells(list) : x = <<x[1], x[2]>> /\ x[1] \in DOMAIN list
                            /\ x[2] \in Upto(list[x[1]])
  BY <1>3
<1>9. Cells(list) \subseteq Nat \X Nat
  <2> SUFFICES ASSUME NEW x \in Cells(list) PROVE x \in Nat \X Nat
    OBVIOUS
  <2>1. x[1] \in Nat /\ x[2] \in Nat
    BY <1>1, <1>2, <1>8, UptoFacts
  <2> QED BY <1>8, <2>1
<1> QED BY <1>1, <1>2, <1>6, <1>7, <1>8, <1>9
==============================================================================
