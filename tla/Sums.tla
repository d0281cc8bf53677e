---------------------------------- MODULE Sums ---------------------------------
(***************************************************************************)
(* Facts about the sum of a function over a finite set, and about the part *)
(* of a sequence at given positions, for the proofs of the other modules.  *)
(*                                                                         *)
(* SumFunctionOnSet takes its arguments one after another, in an order     *)
(* that a CHOOSE fixes.  That this recursion has a solution, and only one, *)
(* and that the order does not matter, is shown by looking at a smallest   *)
(* set for which it were not so; and so is every other fact that would     *)
(* otherwise need an induction (BySubsets).                                *)
(***************************************************************************)
EXTENDS Integers, Sequences, FiniteSets, Functions, Sublists, FiniteSetTheorems, TLAPS

(* The sum of f over S is defined and whole.                               *)
Addable(f, S) == IsFiniteSet(S) /\ \A x \in S : f[x] \in Int

(***************************************************************************)
(* Of a nonempty family of finite sets some member has no smaller one in   *)
(* the family.                                                             *)
(***************************************************************************)
LEMMA SmallestSet ==
  ASSUME NEW S, IsFiniteSet(S), NEW Family, Family \subseteq SUBSET S, Family # {}
  PROVE  \E T \in Family : \A U \in Family : U \subseteq T => U = T
<1>1. Family \subseteq FiniteSubsetsOf(S)
  BY FS_FiniteSubsetsOfFinite
<1>2. PICK T \in Family : \A U \in Family : <<U, T>> \notin StrictSubsetOrdering(S)
  BY <1>1, WFMin, FS_StrictSubsetOrderingWellFounded
<1> QED
  BY <1>2 DEF StrictSubsetOrdering

--------------------------------------------------------------------------------
(* The element SumFunctionOnSet takes first, and its recursion.            *)
First(s) == CHOOSE m \in s : TRUE
Rest(s) == s \ {First(s)}
Adds(f, iter, S) ==
  iter = [s \in SUBSET S |-> IF s = {} THEN 0 ELSE f[First(s)] + iter[Rest(s)]]

(***************************************************************************)
(* The sum of a function, unfolded to the recursive function that it is.   *)
(***************************************************************************)
LEMMA SumUnfolded ==
  ASSUME NEW f, NEW S
  PROVE  SumFunctionOnSet(f, S) = (CHOOSE iter : Adds(f, iter, S))[S]
BY DEF SumFunctionOnSet, FoldFunctionOnSet, MapThenFoldSet, Adds, First, Rest

(***************************************************************************)
(* Taking the first element out of a nonempty set leaves a smaller one.    *)
(***************************************************************************)
LEMMA RestSmaller ==
  ASSUME NEW s, s # {}
  PROVE  /\ First(s) \in s
         /\ Rest(s) \subseteq s
         /\ Rest(s) # s
         /\ s = Rest(s) \cup {First(s)}
         /\ First(s) \notin Rest(s)
BY DEF First, Rest

(* Two solutions agree where both are defined.                             *)
LEMMA AddsUnique ==
  ASSUME NEW f, NEW S, IsFiniteSet(S), NEW T, NEW g, NEW h, Adds(f, g, S), Adds(f, h, T)
  PROVE  \A s \in SUBSET S : s \subseteq T => g[s] = h[s]
<1> DEFINE Family == {s \in SUBSET S : s \subseteq T /\ g[s] # h[s]}
<1> SUFFICES ASSUME Family # {}
             PROVE  FALSE
  OBVIOUS
<1>1. PICK s \in Family : \A u \in Family : u \subseteq s => u = s
  <2>1. Family \subseteq SUBSET S
    OBVIOUS
  <2> HIDE DEF Family
  <2> QED
    BY <2>1, SmallestSet
<1>2. s # {}
  BY DEF Adds
<1>3. g[Rest(s)] = h[Rest(s)]
  BY <1>1, <1>2, RestSmaller
<1>4. g[s] = f[First(s)] + g[Rest(s)] /\ h[s] = f[First(s)] + h[Rest(s)]
  BY <1>2 DEF Adds
<1> QED
  BY <1>3, <1>4

(***************************************************************************)
(* Over every finite set there is a function that adds up its elements one *)
(* at a time.                                                              *)
(***************************************************************************)
LEMMA AddsExists ==
  ASSUME NEW f, NEW S, IsFiniteSet(S)
  PROVE  \E iter : Adds(f, iter, S)
<1> DEFINE Family == {T \in SUBSET S : \A iter : ~Adds(f, iter, T)}
<1> SUFFICES ASSUME Family # {}
             PROVE  FALSE
  OBVIOUS
<1>1. PICK T \in Family : \A U \in Family : U \subseteq T => U = T
  <2>1. Family \subseteq SUBSET S
    OBVIOUS
  <2> HIDE DEF Family
  <2> QED
    BY <2>1, SmallestSet
<1> DEFINE solution(s) == CHOOSE iter : Adds(f, iter, s)
           all == [s \in SUBSET T |->
                     IF s = {} THEN 0 ELSE f[First(s)] + solution(Rest(s))[Rest(s)]]
<1>2. \A s \in SUBSET T : s # T => Adds(f, solution(s), s)
  BY <1>1
<1>3. \A s \in SUBSET T : s # T => all[s] = solution(s)[s]
  <2> SUFFICES ASSUME NEW s \in SUBSET T, s # T
               PROVE  all[s] = solution(s)[s]
    OBVIOUS
  <2>1. Adds(f, solution(s), s)
    BY <1>2
  <2>2. CASE s = {}
    BY <2>1, <2>2 DEF Adds
  <2>3. CASE s # {}
    <3>1. Rest(s) \in SUBSET s /\ Rest(s) # T /\ IsFiniteSet(s)
      BY <2>3, RestSmaller, FS_Subset
    <3>2. Adds(f, solution(Rest(s)), Rest(s))
      BY <1>2, <3>1
    <3> HIDE DEF solution
    <3>3. solution(s)[Rest(s)] = solution(Rest(s))[Rest(s)]
      BY <2>1, <3>1, <3>2, AddsUnique
    <3>4. solution(s)[s] = f[First(s)] + solution(s)[Rest(s)]
      BY <2>1, <2>3 DEF Adds
    <3> QED
      BY <2>3, <3>3, <3>4
  <2> QED
    BY <2>2, <2>3
<1>4. Adds(f, all, T)
  <2> HIDE DEF solution
  <2>1. \A s \in SUBSET T : s # {} => Rest(s) \in SUBSET T /\ Rest(s) # T
    BY RestSmaller
  <2>2. \A s \in SUBSET T :
          all[s] = IF s = {} THEN 0 ELSE f[First(s)] + all[Rest(s)]
    BY <1>3, <2>1
  <2> QED
    BY <2>2 DEF Adds
<1> QED
  BY <1>1, <1>4

--------------------------------------------------------------------------------
(* The sum of nothing is 0, and of anything what is taken first and the sum *)
(* of the rest.                                                             *)
LEMMA SumRecursion ==
  ASSUME NEW f, NEW S, IsFiniteSet(S)
  PROVE  SumFunctionOnSet(f, S) =
           IF S = {} THEN 0 ELSE f[First(S)] + SumFunctionOnSet(f, Rest(S))
<1> DEFINE solution(s) == CHOOSE iter : Adds(f, iter, s)
<1>1. Adds(f, solution(S), S) /\ SumFunctionOnSet(f, S) = solution(S)[S]
  BY AddsExists, SumUnfolded
<1>2. CASE S = {}
  BY <1>1, <1>2 DEF Adds
<1>3. CASE S # {}
  <2>1. Rest(S) \in SUBSET S /\ IsFiniteSet(Rest(S))
    BY <1>3, RestSmaller, FS_Subset
  <2>2. /\ Adds(f, solution(Rest(S)), Rest(S))
        /\ SumFunctionOnSet(f, Rest(S)) = solution(Rest(S))[Rest(S)]
    BY <2>1, AddsExists, SumUnfolded
  <2> HIDE DEF solution
  <2>3. solution(S)[Rest(S)] = solution(Rest(S))[Rest(S)]
    BY <1>1, <2>1, <2>2, AddsUnique
  <2>4. solution(S)[S] = f[First(S)] + solution(S)[Rest(S)]
    BY <1>1, <1>3 DEF Adds
  <2> QED
    BY <1>1, <1>3, <2>2, <2>3, <2>4
<1> QED
  BY <1>2, <1>3

(***************************************************************************)
(* The order does not matter: any element may be taken first.              *)
(***************************************************************************)
LEMMA SumRemove ==
  ASSUME NEW f, NEW S, Addable(f, S), NEW x \in S
  PROVE  /\ SumFunctionOnSet(f, S) = f[x] + SumFunctionOnSet(f, S \ {x})
         /\ SumFunctionOnSet(f, S \ {x}) \in Int
<1> DEFINE Good(T) ==
             /\ SumFunctionOnSet(f, T) \in Int
             /\ \A y \in T :
                  /\ SumFunctionOnSet(f, T \ {y}) \in Int
                  /\ SumFunctionOnSet(f, T) = f[y] + SumFunctionOnSet(f, T \ {y})
           Family == {T \in SUBSET S : ~Good(T)}
<1> SUFFICES ASSUME Family # {}
             PROVE  FALSE
  OBVIOUS
<1>1. PICK T \in Family : \A U \in Family : U \subseteq T => U = T
  <2>1. Family \subseteq SUBSET S
    OBVIOUS
  <2> HIDE DEF Family
  <2> QED
    BY <2>1, SmallestSet DEF Addable
<1>2. \A U \in SUBSET T : U # T => Good(U)
  BY <1>1
<1>3. T \in SUBSET S /\ ~Good(T) /\ IsFiniteSet(T) /\ \A y \in T : f[y] \in Int
  BY <1>1, FS_Subset DEF Addable
<1> HIDE DEF Family
<1>4. SumFunctionOnSet(f, T) = IF T = {} THEN 0 ELSE f[First(T)] + SumFunctionOnSet(f, Rest(T))
  BY <1>3, SumRecursion
<1>5. T # {}
  BY <1>3, <1>4
<1>6. /\ First(T) \in T /\ Rest(T) = T \ {First(T)} /\ Rest(T) # T
      /\ Good(Rest(T))
      /\ SumFunctionOnSet(f, T) = f[First(T)] + SumFunctionOnSet(f, Rest(T))
  BY <1>2, <1>4, <1>5, RestSmaller DEF Rest
<1>7. SumFunctionOnSet(f, T) \in Int
  BY <1>3, <1>6
<1>8. ASSUME NEW y \in T
      PROVE  /\ SumFunctionOnSet(f, T \ {y}) \in Int
             /\ SumFunctionOnSet(f, T) = f[y] + SumFunctionOnSet(f, T \ {y})
  <2>1. CASE y = First(T)
    BY <1>6, <2>1
  <2>2. CASE y # First(T)
    <3>1. /\ y \in Rest(T) /\ First(T) \in T \ {y}
          /\ Rest(T) \ {y} = (T \ {y}) \ {First(T)}
      BY <1>6, <2>2
    <3>2. /\ SumFunctionOnSet(f, Rest(T) \ {y}) \in Int
          /\ SumFunctionOnSet(f, Rest(T)) = f[y] + SumFunctionOnSet(f, Rest(T) \ {y})
      BY <1>6, <3>1
    <3>3. Good(T \ {y})
      BY <1>2
    <3>4. SumFunctionOnSet(f, T \ {y}) = f[First(T)] + SumFunctionOnSet(f, Rest(T) \ {y})
      BY <3>1, <3>3
    <3>5. f[First(T)] \in Int /\ f[y] \in Int
      BY <1>3, <1>6
    <3> HIDE DEF Good
    <3> QED
      BY <1>6, <3>2, <3>4, <3>5
  <2> QED
    BY <2>1, <2>2
<1> QED
  BY <1>3, <1>7, <1>8

(* The sum over nothing is 0.                                              *)
LEMMA SumEmpty ==
  ASSUME NEW f
  PROVE  SumFunctionOnSet(f, {}) = 0
BY SumRecursion, FS_EmptySet

(***************************************************************************)
(* A family of sets that has the empty set, and every set it has without   *)
(* one of its elements, has every finite set: a smallest one it lacks      *)
(* would be none. All sums below are looked at in this way.                *)
(***************************************************************************)
LEMMA BySubsets ==
  ASSUME NEW S, IsFiniteSet(S), NEW Good, {} \in Good,
         \A T \in SUBSET S : \A x \in T : T \ {x} \in Good => T \in Good
  PROVE  S \in Good
<1> DEFINE Family == {T \in SUBSET S : T \notin Good}
<1> SUFFICES ASSUME Family # {}
             PROVE  FALSE
  OBVIOUS
<1>1. PICK T \in Family : \A U \in Family : U \subseteq T => U = T
  <2>1. Family \subseteq SUBSET S
    OBVIOUS
  <2> HIDE DEF Family
  <2> QED
    BY <2>1, SmallestSet
<1>2. PICK x \in T : TRUE
  BY <1>1
<1>3. T \ {x} \in Good
  BY <1>1, <1>2
<1> QED
  BY <1>1, <1>2, <1>3

(* The sum of integers is an integer.                                      *)
LEMMA SumType ==
  ASSUME NEW f, NEW S, Addable(f, S)
  PROVE  SumFunctionOnSet(f, S) \in Int
<1>1. CASE S = {}
  BY <1>1, SumEmpty
<1>2. ASSUME NEW x \in S
      PROVE  SumFunctionOnSet(f, S) \in Int
  <2>1. f[x] \in Int
    BY DEF Addable
  <2>2. /\ SumFunctionOnSet(f, S) = f[x] + SumFunctionOnSet(f, S \ {x})
        /\ SumFunctionOnSet(f, S \ {x}) \in Int
    BY SumRemove
  <2> QED
    BY <2>1, <2>2
<1> QED
  BY <1>1, <1>2

(* What can be added up over a set can be added up over its subsets.       *)
LEMMA AddableSubset ==
  ASSUME NEW f, NEW S, Addable(f, S), NEW T \in SUBSET S
  PROVE  Addable(f, T) /\ IsFiniteSet(S)
BY FS_Subset DEF Addable

(* Larger values have a larger sum.                                        *)
LEMMA SumMonotone ==
  ASSUME NEW f, NEW g, NEW S, Addable(f, S), Addable(g, S), \A x \in S : f[x] <= g[x]
  PROVE  SumFunctionOnSet(f, S) <= SumFunctionOnSet(g, S)
<1> DEFINE Good == {T \in SUBSET S : SumFunctionOnSet(f, T) <= SumFunctionOnSet(g, T)}
<1>1. {} \in Good
  BY SumEmpty
<1>2. ASSUME NEW T \in SUBSET S, NEW x \in T, T \ {x} \in Good
      PROVE  T \in Good
  <2>1. Addable(f, T) /\ Addable(g, T)
    BY AddableSubset
  <2>2. f[x] \in Int /\ g[x] \in Int /\ f[x] <= g[x]
    BY DEF Addable
  <2> QED
    BY <1>2, <2>1, <2>2, SumRemove
<1> HIDE DEF Good
<1>3. S \in Good
  BY <1>1, <1>2, BySubsets, AddableSubset
<1> QED
  BY <1>3 DEF Good

(* Equal values have equal sums.                                           *)
LEMMA SumSame ==
  ASSUME NEW f, NEW g, NEW S, Addable(f, S), \A x \in S : f[x] = g[x]
  PROVE  Addable(g, S) /\ SumFunctionOnSet(f, S) = SumFunctionOnSet(g, S)
<1>1. Addable(g, S)
  BY DEF Addable
<1>2. (\A x \in S : f[x] <= g[x]) /\ (\A x \in S : g[x] <= f[x])
  BY <1>1 DEF Addable
<1>3. /\ SumFunctionOnSet(f, S) <= SumFunctionOnSet(g, S)
      /\ SumFunctionOnSet(g, S) <= SumFunctionOnSet(f, S)
  BY <1>1, <1>2, SumMonotone
<1> QED
  BY <1>1, <1>3, SumType

(* The sum of sums is the sum.                                             *)
LEMMA SumAdd ==
  ASSUME NEW f, NEW g, NEW h, NEW S, Addable(f, S), Addable(g, S),
         \A x \in S : h[x] = f[x] + g[x]
  PROVE  /\ Addable(h, S)
         /\ SumFunctionOnSet(h, S) = SumFunctionOnSet(f, S) + SumFunctionOnSet(g, S)
<1> DEFINE Good == {T \in SUBSET S : SumFunctionOnSet(h, T)
                                       = SumFunctionOnSet(f, T) + SumFunctionOnSet(g, T)}
<1>1. Addable(h, S)
  BY DEF Addable
<1>2. {} \in Good
  BY SumEmpty
<1>3. ASSUME NEW T \in SUBSET S, NEW x \in T, T \ {x} \in Good
      PROVE  T \in Good
  <2>1. Addable(f, T) /\ Addable(g, T) /\ Addable(h, T)
    BY <1>1, AddableSubset
  <2>2. f[x] \in Int /\ g[x] \in Int /\ h[x] = f[x] + g[x]
    BY DEF Addable
  <2>3. /\ SumFunctionOnSet(f, T) = f[x] + SumFunctionOnSet(f, T \ {x})
        /\ SumFunctionOnSet(g, T) = g[x] + SumFunctionOnSet(g, T \ {x})
        /\ SumFunctionOnSet(h, T) = h[x] + SumFunctionOnSet(h, T \ {x})
        /\ SumFunctionOnSet(f, T \ {x}) \in Int
        /\ SumFunctionOnSet(g, T \ {x}) \in Int
    BY <2>1, SumRemove
  <2> QED
    BY <1>3, <2>2, <2>3
<1> HIDE DEF Good
<1>4. S \in Good
  BY <1>2, <1>3, BySubsets, AddableSubset
<1> QED
  BY <1>1, <1>4 DEF Good

(* The same for four functions.                                            *)
LEMMA SumAddFour ==
  ASSUME NEW S, NEW a, Addable(a, S), NEW b, Addable(b, S), NEW c, Addable(c, S),
         NEW d, Addable(d, S), NEW h, \A x \in S : h[x] = a[x] + b[x] + c[x] + d[x]
  PROVE  SumFunctionOnSet(h, S) = SumFunctionOnSet(a, S) + SumFunctionOnSet(b, S)
                                  + SumFunctionOnSet(c, S) + SumFunctionOnSet(d, S)
<1>1. PICK ab : ab = [x \in S |-> a[x] + b[x]]
  OBVIOUS
<1>2. PICK abc : abc = [x \in S |-> ab[x] + c[x]]
  OBVIOUS
<1>3. /\ \A x \in S : ab[x] = a[x] + b[x]
      /\ \A x \in S : abc[x] = ab[x] + c[x]
      /\ \A x \in S : h[x] = abc[x] + d[x]
  BY <1>1, <1>2
<1>4. /\ Addable(ab, S)
      /\ SumFunctionOnSet(ab, S) = SumFunctionOnSet(a, S) + SumFunctionOnSet(b, S)
  BY <1>3, SumAdd
<1>5. /\ Addable(abc, S)
      /\ SumFunctionOnSet(abc, S) = SumFunctionOnSet(ab, S) + SumFunctionOnSet(c, S)
  BY <1>3, <1>4, SumAdd
<1>6. SumFunctionOnSet(h, S) = SumFunctionOnSet(abc, S) + SumFunctionOnSet(d, S)
  BY <1>3, <1>5, SumAdd
<1> QED
  BY <1>4, <1>5, <1>6

(* A common factor can be taken out of a sum.                              *)
LEMMA SumScale ==
  ASSUME NEW f, NEW h, NEW S, Addable(f, S), NEW c \in Int, \A x \in S : h[x] = c * f[x]
  PROVE  Addable(h, S) /\ SumFunctionOnSet(h, S) = c * SumFunctionOnSet(f, S)
<1> DEFINE Good == {T \in SUBSET S : SumFunctionOnSet(h, T) = c * SumFunctionOnSet(f, T)}
<1>1. Addable(h, S)
  BY DEF Addable
<1>2. {} \in Good
  BY SumEmpty
<1>3. ASSUME NEW T \in SUBSET S, NEW x \in T, T \ {x} \in Good
      PROVE  T \in Good
  <2>1. Addable(f, T) /\ Addable(h, T)
    BY <1>1, AddableSubset
  <2>2. f[x] \in Int /\ h[x] = c * f[x]
    BY DEF Addable
  <2>3. /\ SumFunctionOnSet(f, T) = f[x] + SumFunctionOnSet(f, T \ {x})
        /\ SumFunctionOnSet(h, T) = h[x] + SumFunctionOnSet(h, T \ {x})
        /\ SumFunctionOnSet(f, T \ {x}) \in Int
        /\ SumFunctionOnSet(h, T \ {x}) = c * SumFunctionOnSet(f, T \ {x})
    BY <1>3, <2>1, SumRemove
  <2>4. c * (f[x] + SumFunctionOnSet(f, T \ {x}))
          = c * f[x] + c * SumFunctionOnSet(f, T \ {x})
    BY <2>2, <2>3
  <2> QED
    BY <2>2, <2>3, <2>4
<1> HIDE DEF Good
<1>4. S \in Good
  BY <1>2, <1>3, BySubsets, AddableSubset
<1> QED
  BY <1>1, <1>4 DEF Good

(* Zeros add up to zero.                                                   *)
LEMMA SumZero ==
  ASSUME NEW f, NEW S, IsFiniteSet(S), \A x \in S : f[x] = 0
  PROVE  Addable(f, S) /\ SumFunctionOnSet(f, S) = 0
<1>1. Addable(f, S) /\ \A x \in S : f[x] = 0 * f[x]
  BY DEF Addable
<1>2. SumFunctionOnSet(f, S) = 0 * SumFunctionOnSet(f, S)
  BY <1>1, SumScale
<1> QED
  BY <1>1, <1>2, SumType

(* Of a function that is zero elsewhere, the sum is its one value.         *)
LEMMA SumAtOne ==
  ASSUME NEW f, NEW S, Addable(f, S), NEW y \in S, \A x \in S \ {y} : f[x] = 0
  PROVE  SumFunctionOnSet(f, S) = f[y]
<1>1. SumFunctionOnSet(f, S \ {y}) = 0
  BY SumZero, AddableSubset DEF Addable
<1>2. f[y] \in Int
  BY DEF Addable
<1> QED
  BY <1>1, <1>2, SumRemove

(* The sum over a set is the sum over a part of it and over the rest.      *)
LEMMA SumSplit ==
  ASSUME NEW f, NEW S, Addable(f, S), NEW T \in SUBSET S
  PROVE  SumFunctionOnSet(f, S) = SumFunctionOnSet(f, T) + SumFunctionOnSet(f, S \ T)
<1> DEFINE Good == {U \in SUBSET S : SumFunctionOnSet(f, U) =
                      SumFunctionOnSet(f, U \cap T) + SumFunctionOnSet(f, U \ T)}
<1>1. {} \in Good
  <2>1. {} \cap T = {} /\ {} \ T = {}
    OBVIOUS
  <2> QED
    BY <2>1, SumEmpty
<1>2. ASSUME NEW U \in SUBSET S, NEW x \in U, U \ {x} \in Good
      PROVE  U \in Good
  <2>1. Addable(f, U) /\ Addable(f, U \cap T) /\ Addable(f, U \ T)
    BY AddableSubset
  <2>2. /\ SumFunctionOnSet(f, U) = f[x] + SumFunctionOnSet(f, U \ {x})
        /\ SumFunctionOnSet(f, U \ {x}) = SumFunctionOnSet(f, (U \ {x}) \cap T)
                                            + SumFunctionOnSet(f, (U \ {x}) \ T)
        /\ f[x] \in Int
    BY <1>2, <2>1, SumRemove DEF Addable
  <2>3. CASE x \in T
    <3>1. /\ (U \ {x}) \cap T = (U \cap T) \ {x} /\ (U \ {x}) \ T = U \ T
          /\ x \in U \cap T
      BY <2>3
    <3>2. /\ SumFunctionOnSet(f, U \cap T) = f[x] + SumFunctionOnSet(f, (U \cap T) \ {x})
          /\ SumFunctionOnSet(f, (U \cap T) \ {x}) \in Int
      BY <2>1, <3>1, SumRemove
    <3>3. SumFunctionOnSet(f, U \ T) \in Int
      BY <2>1, SumType
    <3> HIDE DEF Good
    <3>4. f[x] \in Int
      BY <2>2
    <3>5. SumFunctionOnSet(f, U \ {x}) =
            SumFunctionOnSet(f, (U \cap T) \ {x}) + SumFunctionOnSet(f, U \ T)
      BY <2>2, <3>1, Zenon
    <3>6. SumFunctionOnSet(f, U) = f[x] + SumFunctionOnSet(f, U \ {x})
      BY <2>2
    <3>7. SumFunctionOnSet(f, U) = SumFunctionOnSet(f, U \cap T) + SumFunctionOnSet(f, U \ T)
      BY <3>2, <3>3, <3>4, <3>5, <3>6
    <3> QED
      BY <3>7 DEF Good
  <2>4. CASE x \notin T
    <3>1. /\ (U \ {x}) \cap T = U \cap T /\ (U \ {x}) \ T = (U \ T) \ {x}
          /\ x \in U \ T
      BY <2>4
    <3>2. /\ SumFunctionOnSet(f, U \ T) = f[x] + SumFunctionOnSet(f, (U \ T) \ {x})
          /\ SumFunctionOnSet(f, (U \ T) \ {x}) \in Int
      BY <2>1, <3>1, SumRemove
    <3>3. SumFunctionOnSet(f, U \cap T) \in Int
      BY <2>1, SumType
    <3> HIDE DEF Good
    <3>4. f[x] \in Int
      BY <2>2
    <3>5. SumFunctionOnSet(f, U \ {x}) =
            SumFunctionOnSet(f, U \cap T) + SumFunctionOnSet(f, (U \ T) \ {x})
      BY <2>2, <3>1, Zenon
    <3>6. SumFunctionOnSet(f, U) = f[x] + SumFunctionOnSet(f, U \ {x})
      BY <2>2
    <3>7. SumFunctionOnSet(f, U) = SumFunctionOnSet(f, U \cap T) + SumFunctionOnSet(f, U \ T)
      BY <3>2, <3>3, <3>4, <3>5, <3>6
    <3> QED
      BY <3>7 DEF Good
  <2> QED
    BY <2>3, <2>4
<1> HIDE DEF Good
<1>3. S \in Good
  BY <1>1, <1>2, BySubsets, AddableSubset
<1>4. S \cap T = T
  OBVIOUS
<1> QED
  BY <1>3, <1>4 DEF Good

(* The sum of zeros and ones is the number of ones.                        *)
LEMMA SumOnes ==
  ASSUME NEW f, NEW S, IsFiniteSet(S), \A x \in S : f[x] \in {0, 1}
  PROVE  SumFunctionOnSet(f, S) = Cardinality({x \in S : f[x] = 1})
<1> DEFINE Ones(T) == {x \in T : f[x] = 1}
           Good == {T \in SUBSET S : SumFunctionOnSet(f, T) = Cardinality(Ones(T))}
<1>1. Addable(f, S)
  BY DEF Addable
<1>2. {} \in Good
  BY SumEmpty, FS_EmptySet
<1>3. ASSUME NEW T \in SUBSET S, NEW x \in T, T \ {x} \in Good
      PROVE  T \in Good
  <2>1. Addable(f, T) /\ IsFiniteSet(T \ {x})
    BY <1>1, AddableSubset, FS_Subset
  <2>2. SumFunctionOnSet(f, T) = f[x] + Cardinality(Ones(T \ {x}))
    BY <1>3, <2>1, SumRemove
  <2>3. IsFiniteSet(Ones(T \ {x})) /\ x \notin Ones(T \ {x})
    BY <2>1, FS_Subset
  <2>4. CASE f[x] = 0
    <3>1. Ones(T) = Ones(T \ {x})
      BY <2>4
    <3> HIDE DEF Ones
    <3> QED
      BY <2>2, <2>3, <2>4, <3>1, FS_CardinalityType DEF Good
  <2>5. CASE f[x] = 1
    <3>1. Ones(T) = Ones(T \ {x}) \cup {x}
      BY <2>5
    <3> HIDE DEF Ones
    <3>2. /\ Cardinality(Ones(T)) = Cardinality(Ones(T \ {x})) + 1
          /\ Cardinality(Ones(T \ {x})) \in Nat
      BY <2>3, <3>1, FS_AddElement, FS_CardinalityType
    <3> QED
      BY <2>2, <2>5, <3>2 DEF Good
  <2> QED
    BY <2>4, <2>5
<1> HIDE DEF Good
<1>4. S \in Good
  BY <1>2, <1>3, BySubsets
<1> QED
  BY <1>4 DEF Good

(* f and g are a table and its transpose, with the sums of their rows.     *)
Table(S, T, f, g, rows, columns) ==
  /\ IsFiniteSet(S) /\ IsFiniteSet(T)
  /\ \A x \in S, y \in T : f[x][y] \in Int /\ g[y][x] = f[x][y]
  /\ \A x \in S : rows[x] = SumFunctionOnSet(f[x], T)
  /\ \A y \in T : columns[y] = SumFunctionOnSet(g[y], S)

(***************************************************************************)
(* The rows of a table and its columns add up to the same: taking a row    *)
(* away takes its values from each column.                                 *)
(***************************************************************************)
LEMMA SumExchange ==
  ASSUME NEW S, NEW T, NEW f, NEW g, NEW rows, NEW columns, Table(S, T, f, g, rows, columns)
  PROVE  SumFunctionOnSet(rows, S) = SumFunctionOnSet(columns, T)
<1>1. /\ IsFiniteSet(S) /\ IsFiniteSet(T)
      /\ \A x \in S, y \in T : f[x][y] \in Int /\ g[y][x] = f[x][y]
      /\ \A x \in S : rows[x] = SumFunctionOnSet(f[x], T)
      /\ \A y \in T : columns[y] = SumFunctionOnSet(g[y], S)
  BY DEF Table
<1> DEFINE part(U) == [y \in T |-> SumFunctionOnSet(g[y], U)]
           Good == {U \in SUBSET S : SumFunctionOnSet(rows, U) = SumFunctionOnSet(part(U), T)}
<1>2. \A x \in S : Addable(f[x], T)
  BY <1>1 DEF Addable
<1>3. Addable(rows, S)
  BY <1>1, <1>2, SumType DEF Addable
<1>4. \A y \in T : Addable(g[y], S)
  BY <1>1 DEF Addable
<1>5. {} \in Good
  BY <1>1, SumEmpty, SumZero
<1>6. ASSUME NEW U \in SUBSET S, NEW x \in U, U \ {x} \in Good
      PROVE  U \in Good
  <2>1. Addable(rows, U)
    BY <1>3, AddableSubset
  <2>2. \A y \in T : Addable(g[y], U)
    BY <1>4, AddableSubset
  <2>3. \A y \in T : /\ part(U)[y] = f[x][y] + part(U \ {x})[y]
                     /\ part(U \ {x})[y] \in Int
    <3> SUFFICES ASSUME NEW y \in T
                 PROVE  /\ part(U)[y] = f[x][y] + part(U \ {x})[y]
                        /\ part(U \ {x})[y] \in Int
      OBVIOUS
    <3>1. g[y][x] = f[x][y] /\ f[x][y] \in Int
      BY <1>1
    <3>2. Addable(g[y], U)
      BY <2>2
    <3> QED
      BY <3>1, <3>2, SumRemove
  <2> HIDE DEF part, Good
  <2>4. Addable(f[x], T) /\ Addable(part(U \ {x}), T)
    BY <1>2, <2>3 DEF Addable
  <2>5. SumFunctionOnSet(part(U), T)
          = SumFunctionOnSet(f[x], T) + SumFunctionOnSet(part(U \ {x}), T)
    <3>1. PICK e, h, k : e = f[x] /\ h = part(U \ {x}) /\ k = part(U)
      OBVIOUS
    <3>2. /\ Addable(e, T) /\ Addable(h, T)
          /\ \A y \in T : k[y] = e[y] + h[y]
      BY <2>3, <2>4, <3>1
    <3>3. SumFunctionOnSet(k, T) = SumFunctionOnSet(e, T) + SumFunctionOnSet(h, T)
      BY <3>2, SumAdd
    <3> QED
      BY <3>1, <3>3
  <2>6. SumFunctionOnSet(rows, U) = rows[x] + SumFunctionOnSet(rows, U \ {x})
    BY <2>1, SumRemove
  <2>7. SumFunctionOnSet(rows, U \ {x}) = SumFunctionOnSet(part(U \ {x}), T)
    BY <1>6 DEF Good
  <2>8. rows[x] = SumFunctionOnSet(f[x], T)
    BY <1>1
  <2> QED
    BY <2>5, <2>6, <2>7, <2>8 DEF Good
<1>7. S \in Good
  <2> HIDE DEF Good
  <2> QED
    BY <1>1, <1>5, <1>6, BySubsets
<1>8. \A y \in T : part(S)[y] = columns[y]
  BY <1>1
<1>9. Addable(part(S), T)
  BY <1>1, <1>4, SumType DEF Addable
<1> HIDE DEF part
<1>10. SumFunctionOnSet(part(S), T) = SumFunctionOnSet(columns, T)
  BY <1>8, <1>9, SumSame
<1> QED
  BY <1>7, <1>10

--------------------------------------------------------------------------------
(* The facts about sequences that are used over and over.                  *)
LEMMA SequenceDomain ==
  ASSUME NEW S, NEW s \in Seq(S)
  PROVE  /\ Len(s) \in Nat /\ DOMAIN s = 1 .. Len(s) /\ IsFiniteSet(DOMAIN s)
         /\ Cardinality(DOMAIN s) = Len(s)
         /\ \A k \in DOMAIN s : s[k] \in S
<1>1. /\ Len(s) \in Nat /\ DOMAIN s = 1 .. Len(s)
      /\ \A k \in DOMAIN s : s[k] \in S
  OBVIOUS
<1>2. IsFiniteSet(1 .. Len(s)) /\ Cardinality(1 .. Len(s)) = Len(s)
  BY <1>1, FS_Interval
<1> QED
  BY <1>1, <1>2

(* The sum of natural numbers is one.                                      *)
LEMMA SumNatural ==
  ASSUME NEW f, NEW S, IsFiniteSet(S), \A x \in S : f[x] \in Nat
  PROVE  Addable(f, S) /\ SumFunctionOnSet(f, S) \in Nat
<1> DEFINE zero == [x \in S |-> 0]
<1>1. Addable(f, S) /\ Addable(zero, S) /\ \A x \in S : zero[x] <= f[x]
  BY DEF Addable
<1>2. SumFunctionOnSet(zero, S) = 0
  BY SumZero
<1> HIDE DEF zero
<1>3. SumFunctionOnSet(zero, S) <= SumFunctionOnSet(f, S)
  BY <1>1, SumMonotone
<1> QED
  BY <1>1, <1>2, <1>3, SumType

--------------------------------------------------------------------------------
(* The sum of a field of the rows of S.                                    *)
FieldSum(field, S) == SumFunction([m \in S |-> m[field]])
Summable(field, S) == IsFiniteSet(S) /\ \A m \in S : m[field] \in Int

(***************************************************************************)
(* The sums over the parts of a set of rows are sums of one function.      *)
(***************************************************************************)
LEMMA FieldSumOnPart ==
  ASSUME NEW field, NEW S, Summable(field, S), NEW T \in SUBSET S
  PROVE  LET f == [m \in S |-> m[field]] IN
         Summable(field, T) /\ Addable(f, T) /\ FieldSum(field, T) = SumFunctionOnSet(f, T)
<1>1. PICK f, g : f = [m \in S |-> m[field]] /\ g = [m \in T |-> m[field]]
  OBVIOUS
<1>2. Summable(field, T) /\ Addable(f, T)
  BY <1>1, FS_Subset DEF Summable, Addable
<1>3. SumFunctionOnSet(f, T) = SumFunctionOnSet(g, T)
  <2>1. \A m \in T : f[m] = g[m]
    BY <1>1
  <2> QED
    BY <1>2, <2>1, SumSame
<1>4. FieldSum(field, T) = SumFunctionOnSet(g, T)
  BY <1>1 DEF FieldSum, SumFunction
<1> QED
  BY <1>1, <1>2, <1>3, <1>4

(* No rows add up to nothing, and any to an integer.                       *)
LEMMA FieldSumEmpty ==
  ASSUME NEW field
  PROVE  Summable(field, {}) /\ FieldSum(field, {}) = 0
<1>1. PICK f : f = [m \in {} |-> m[field]]
  OBVIOUS
<1>2. Summable(field, {})
  BY FS_EmptySet DEF Summable
<1>3. FieldSum(field, {}) = SumFunctionOnSet(f, {})
  BY <1>1 DEF FieldSum, SumFunction
<1> QED
  BY <1>2, <1>3, SumEmpty

(* A sum of integers is an integer.                                        *)
LEMMA FieldSumType ==
  ASSUME NEW field, NEW S, Summable(field, S)
  PROVE  FieldSum(field, S) \in Int
<1>1. PICK f : f = [m \in S |-> m[field]]
  OBVIOUS
<1>2. S \in SUBSET S
  OBVIOUS
<1>3. Addable(f, S) /\ FieldSum(field, S) = SumFunctionOnSet(f, S)
  BY <1>1, <1>2, FieldSumOnPart
<1> QED
  BY <1>3, SumType

(* Sets of rows without a common one add up.                               *)
LEMMA FieldSumUnion ==
  ASSUME NEW field, NEW S, Summable(field, S), NEW T, Summable(field, T), S \cap T = {}
  PROVE  /\ Summable(field, S \cup T)
         /\ FieldSum(field, S \cup T) = FieldSum(field, S) + FieldSum(field, T)
<1>1. Summable(field, S \cup T)
  BY FS_Union DEF Summable
<1>2. PICK f : f = [m \in S \cup T |-> m[field]]
  OBVIOUS
<1>3. /\ (S \cup T) \ S = T /\ S \in SUBSET (S \cup T)
      /\ T \in SUBSET (S \cup T) /\ S \cup T \in SUBSET (S \cup T)
  OBVIOUS
<1>4. /\ Addable(f, S \cup T) /\ FieldSum(field, S \cup T) = SumFunctionOnSet(f, S \cup T)
      /\ FieldSum(field, S) = SumFunctionOnSet(f, S)
      /\ FieldSum(field, T) = SumFunctionOnSet(f, T)
  BY <1>1, <1>2, <1>3, FieldSumOnPart
<1>5. SumFunctionOnSet(f, S \cup T)
        = SumFunctionOnSet(f, S) + SumFunctionOnSet(f, (S \cup T) \ S)
  BY <1>3, <1>4, SumSplit
<1> QED
  BY <1>1, <1>3, <1>4, <1>5

(* One row has its own value for a sum, and adds it to the others.         *)
LEMMA FieldSumSingle ==
  ASSUME NEW field, NEW m, m[field] \in Int
  PROVE  Summable(field, {m}) /\ FieldSum(field, {m}) = m[field]
<1>1. PICK f : f = [n \in {m} |-> n[field]]
  OBVIOUS
<1>2. Summable(field, {m})
  BY FS_Singleton DEF Summable
<1>3. {m} \in SUBSET {m}
  OBVIOUS
<1>4. Addable(f, {m}) /\ FieldSum(field, {m}) = SumFunctionOnSet(f, {m})
  BY <1>1, <1>2, <1>3, FieldSumOnPart
<1>5. SumFunctionOnSet(f, {m}) = f[m]
  BY <1>4, SumAtOne
<1> QED
  BY <1>1, <1>2, <1>4, <1>5

(* The sum of two fields is the sum of their sums.                         *)
LEMMA FieldSumAdd ==
  ASSUME NEW field, NEW S, Summable(field, S), NEW m, m \notin S, m[field] \in Int
  PROVE  /\ Summable(field, S \cup {m})
         /\ FieldSum(field, S \cup {m}) = FieldSum(field, S) + m[field]
<1>1. PICK T : T = {m}
  OBVIOUS
<1>2. Summable(field, T) /\ FieldSum(field, T) = m[field] /\ S \cap T = {}
  BY <1>1, FieldSumSingle
<1>3. /\ Summable(field, S \cup T)
      /\ FieldSum(field, S \cup T) = FieldSum(field, S) + FieldSum(field, T)
  BY <1>2, FieldSumUnion
<1> QED
  BY <1>1, <1>2, <1>3

(***************************************************************************)
(* A sum whose elements fall into groups, each with a sum that is not      *)
(* negative, is not negative: take away one whole group after the other.   *)
(***************************************************************************)
LEMMA NonnegativeByGroups ==
  ASSUME NEW field, NEW S, Summable(field, S), NEW key,
         \A m \in S : FieldSum(field, {n \in S : key[n] = key[m]}) >= 0
  PROVE  FieldSum(field, S) >= 0
<1> DEFINE Group(m) == {n \in S : key[n] = key[m]}
           Family == {T \in SUBSET S : /\ \A m \in T : Group(m) \subseteq T
                                       /\ ~(FieldSum(field, T) >= 0)}
<1> SUFFICES ASSUME S \in Family
             PROVE  FALSE
  OBVIOUS
<1>1. PICK T \in Family : \A U \in Family : U \subseteq T => U = T
  <2>1. Family \subseteq SUBSET S /\ Family # {}
    OBVIOUS
  <2> HIDE DEF Family
  <2> QED
    BY <2>1, SmallestSet DEF Summable
<1>2. PICK m \in T : TRUE
  <2>1. FieldSum(field, {}) = 0
    BY FieldSumEmpty, Zenon
  <2>2. ~(FieldSum(field, T) >= 0)
    BY <1>1
  <2> SUFFICES ASSUME T = {}
               PROVE  FALSE
    OBVIOUS
  <2>3. FieldSum(field, T) = 0
    BY <2>1
  <2> QED
    BY <2>2, <2>3
<1>3. Group(m) \subseteq T /\ m \in Group(m) /\ T \in SUBSET S
  BY <1>1, <1>2
<1>4. FieldSum(field, T \ Group(m)) >= 0
  <2>1. \A n \in T \ Group(m) : Group(n) \subseteq T \ Group(m)
    BY <1>1
  <2> QED
    BY <1>1, <1>2, <1>3, <2>1
<1>5. Summable(field, Group(m)) /\ Summable(field, T \ Group(m))
  BY <1>3, FS_Subset DEF Summable
<1>6. T = Group(m) \cup (T \ Group(m)) /\ Group(m) \cap (T \ Group(m)) = {}
  BY <1>3
<1>7. FieldSum(field, T) = FieldSum(field, Group(m)) + FieldSum(field, T \ Group(m))
  <2> HIDE DEF Group
  <2> QED
    BY <1>5, <1>6, FieldSumUnion
<1>8. /\ FieldSum(field, Group(m)) \in Int /\ FieldSum(field, T \ Group(m)) \in Int
      /\ FieldSum(field, Group(m)) >= 0
  BY <1>2, <1>3, <1>5, FieldSumType
<1>9. ~(FieldSum(field, T) >= 0)
  BY <1>1
<1> QED
  BY <1>4, <1>7, <1>8, <1>9

--------------------------------------------------------------------------------
(***************************************************************************)
(* Any integers that are finitely many and not none have a least.          *)
(***************************************************************************)
LEMMA LeastOf ==
  ASSUME NEW K, IsFiniteSet(K), K # {}, \A k \in K : k \in Int
  PROVE  \E k \in K : \A j \in K : k <= j
<1> DEFINE upTo(k) == {j \in K : j <= k}
<1>1. PICK Family : Family = {upTo(k) : k \in K}
  OBVIOUS
<1>2. PICK T \in Family : \A U \in Family : U \subseteq T => U = T
  <2>1. Family \subseteq SUBSET K
    BY <1>1
  <2>2. Family # {}
    BY <1>1
  <2> QED
    BY <2>1, <2>2, SmallestSet
<1>3. PICK k \in K : T = upTo(k)
  BY <1>1, <1>2
<1>4. ASSUME NEW j \in K
      PROVE  k <= j
  <2>1. CASE j < k
    <3>1. \A i \in K : i <= j => i <= k
      <4>1. j \in Int /\ k \in Int /\ \A i \in K : i \in Int
        OBVIOUS
      <4> QED
        BY <2>1, <4>1
    <3>2. upTo(j) \subseteq upTo(k) /\ upTo(j) \in Family
      BY <1>1, <3>1
    <3>3. upTo(j) = upTo(k)
      BY <1>2, <1>3, <3>2
    <3> QED
      BY <2>1, <3>3
  <2> QED
    BY <2>1
<1> QED
  BY <1>4

(* How many of K there are up to k.                                        *)
Rank(K, k) == Cardinality({j \in K : j <= k})

(***************************************************************************)
(* The ranks of K are the numbers from 1, each of one element, and in its  *)
(* order.                                                                  *)
(***************************************************************************)
LEMMA RankInjective ==
  ASSUME NEW K \in SUBSET Int, IsFiniteSet(K)
  PROVE  /\ \A k \in K : Rank(K, k) \in 1 .. Cardinality(K)
         /\ \A j, k \in K : j < k => Rank(K, j) < Rank(K, k)
         /\ \A n \in 1 .. Cardinality(K) : \E k \in K : Rank(K, k) = n
<1> DEFINE upTo(k) == {j \in K : j <= k}
<1>1. Cardinality(K) \in Nat
  BY FS_CardinalityType
<1>2. ASSUME NEW k \in K
      PROVE  Rank(K, k) \in 1 .. Cardinality(K)
  <2>1. upTo(k) \in SUBSET K /\ k \in upTo(k)
    OBVIOUS
  <2> HIDE DEF upTo
  <2>2. IsFiniteSet(upTo(k)) /\ Cardinality(upTo(k)) <= Cardinality(K)
    BY <2>1, FS_Subset
  <2>3. Cardinality(upTo(k)) \in Nat /\ Cardinality(upTo(k)) # 0
    BY <2>1, <2>2, FS_CardinalityType, FS_EmptySet
  <2> QED
    BY <1>1, <2>2, <2>3 DEF Rank, upTo
<1>3. ASSUME NEW j \in K, NEW k \in K, j < k
      PROVE  Rank(K, j) < Rank(K, k)
  <2>1. /\ upTo(k) \in SUBSET K /\ upTo(j) \in SUBSET upTo(k)
        /\ k \in upTo(k) /\ k \notin upTo(j)
    <3>1. j \in Int /\ k \in Int /\ \A i \in K : i \in Int
      OBVIOUS
    <3>2. (\A i \in K : i <= j => i <= k) /\ k <= k /\ ~(k <= j)
      BY <1>3, <3>1
    <3> QED
      BY <3>2
  <2> HIDE DEF upTo
  <2>2. /\ IsFiniteSet(upTo(k)) /\ IsFiniteSet(upTo(j))
        /\ Cardinality(upTo(j)) <= Cardinality(upTo(k))
        /\ Cardinality(upTo(j)) # Cardinality(upTo(k))
    BY <2>1, FS_Subset
  <2>3. Cardinality(upTo(k)) \in Nat /\ Cardinality(upTo(j)) \in Nat
    BY <2>2, FS_CardinalityType
  <2> QED
    BY <2>2, <2>3 DEF Rank, upTo
<1>4. PICK rank : rank = [k \in K |-> Rank(K, k)]
  OBVIOUS
<1>5. rank \in Injection(K, 1 .. Cardinality(K))
  <2>1. \A k \in K : rank[k] \in 1 .. Cardinality(K) /\ rank[k] \in Int
    BY <1>1, <1>2, <1>4
  <2>2. \A j, k \in K : j < k => rank[j] < rank[k]
    BY <1>3, <1>4
  <2>3. rank \in [K -> 1 .. Cardinality(K)]
    BY <1>4, <2>1
  <2>4. ASSUME NEW j \in K, NEW k \in K, rank[j] = rank[k]
        PROVE  j = k
    <3>1. ~(j < k) /\ ~(k < j)
      BY <2>1, <2>2, <2>4
    <3> QED
      BY <3>1
  <2> QED
    BY <2>3, <2>4 DEF Injection, IsInjective
<1>6. rank \in Surjection(K, 1 .. Cardinality(K))
  <2>1. IsFiniteSet(1 .. Cardinality(K)) /\ Cardinality(1 .. Cardinality(K)) = Cardinality(K)
    BY <1>1, FS_Interval
  <2> QED
    BY <1>5, <2>1, FS_Injection
<1>7. \A n \in 1 .. Cardinality(K) : \E k \in K : Rank(K, k) = n
  BY <1>4, <1>6 DEF Surjection
<1> QED
  BY <1>2, <1>3, <1>7

(***************************************************************************)
(* Ascending(K) lists all of K, in increasing order.                       *)
(***************************************************************************)
LEMMA AscendingLists ==
  ASSUME NEW K \in SUBSET Int, IsFiniteSet(K)
  PROVE  LET a == Ascending(K) IN
         /\ a \in [1 .. Cardinality(K) -> K]
         /\ \A m, n \in 1 .. Cardinality(K) : m < n => a[m] < a[n]
         /\ \A k \in K : \E n \in 1 .. Cardinality(K) : a[n] = k
<1> DEFINE increasing(a) == \A m, n \in DOMAIN a : m < n => a[m] < a[n]
<1>1. /\ Cardinality(K) \in Nat
      /\ \A k \in K : k \in Int
      /\ \A n \in 1 .. Cardinality(K) : n \in Int
  BY FS_CardinalityType
<1>2. PICK b : b = [n \in 1 .. Cardinality(K) |-> CHOOSE k \in K : Rank(K, k) = n]
  OBVIOUS
<1>3. \A n \in 1 .. Cardinality(K) : b[n] \in K /\ Rank(K, b[n]) = n
  BY <1>2, RankInjective
<1>4. b \in [1 .. Cardinality(K) -> K] /\ increasing(b)
  <2>1. ASSUME NEW m \in 1 .. Cardinality(K), NEW n \in 1 .. Cardinality(K), m < n
        PROVE  b[m] < b[n]
    <3>1. /\ b[m] \in K /\ b[n] \in K /\ Rank(K, b[m]) = m /\ Rank(K, b[n]) = n
      BY <1>3
    <3>2. b[n] < b[m] => Rank(K, b[n]) < Rank(K, b[m])
      BY <3>1, RankInjective
    <3>3. b[n] # b[m]
      BY <2>1, <3>1
    <3>4. m \in Int /\ n \in Int /\ b[m] \in Int /\ b[n] \in Int
      BY <1>1, <3>1
    <3> QED
      BY <2>1, <3>1, <3>2, <3>3, <3>4
  <2> QED
    BY <1>2, <1>3, <2>1
<1>5. PICK a : a = Ascending(K)
  OBVIOUS
<1>6. a \in [1 .. Cardinality(K) -> K] /\ increasing(a)
  BY <1>4, <1>5 DEF Ascending
<1>7. \A m, n \in 1 .. Cardinality(K) : m < n => a[m] < a[n]
  BY <1>6
<1>8. a \in Injection(1 .. Cardinality(K), K)
  <2>1. ASSUME NEW m \in 1 .. Cardinality(K), NEW n \in 1 .. Cardinality(K), a[m] = a[n]
        PROVE  m = n
    <3>1. a[m] \in Int /\ m \in Int /\ n \in Int
      BY <1>1, <1>6
    <3>2. ~(m < n) /\ ~(n < m)
      BY <1>7, <2>1, <3>1
    <3> QED
      BY <3>1, <3>2
  <2> QED
    BY <1>6, <2>1 DEF Injection, IsInjective
<1>9. a \in Surjection(1 .. Cardinality(K), K)
  <2>1. Cardinality(1 .. Cardinality(K)) = Cardinality(K)
    BY FS_CardinalityType, FS_Interval
  <2> QED
    BY <1>8, <2>1, FS_Injection
<1>10. \A k \in K : \E n \in 1 .. Cardinality(K) : a[n] = k
  BY <1>9 DEF Surjection
<1> QED
  BY <1>5, <1>6, <1>7, <1>10

(***************************************************************************)
(* A sublist is a sequence of the same elements, not longer, and has each  *)
(* of the positions once, in their order.                                  *)
(***************************************************************************)
LEMMA SublistOf ==
  ASSUME NEW S, NEW s \in Seq(S), NEW K \in SUBSET DOMAIN s
  PROVE  LET l == Sublist(s, K)
             a == Ascending(K)
         IN  /\ l \in Seq(S) /\ Len(l) <= Len(s) /\ DOMAIN l = 1 .. Len(l)
             /\ \A n \in DOMAIN l : a[n] \in K /\ l[n] = s[a[n]]
             /\ \A m, n \in DOMAIN l : m < n => a[m] < a[n]
             /\ \A k \in K : \E n \in DOMAIN l : a[n] = k
<1> DEFINE l == Sublist(s, K)
<1>1. K \in SUBSET Int /\ IsFiniteSet(K) /\ Cardinality(K) <= Len(s) /\ Cardinality(K) \in Nat
  BY SequenceDomain, FS_Subset, FS_CardinalityType
<1>2. PICK a : a = Ascending(K)
  OBVIOUS
<1>3. /\ a \in [1 .. Cardinality(K) -> K]
      /\ \A m, n \in 1 .. Cardinality(K) : m < n => a[m] < a[n]
      /\ \A k \in K : \E n \in 1 .. Cardinality(K) : a[n] = k
  BY <1>1, <1>2, AscendingLists
<1>4. l = [n \in 1 .. Cardinality(K) |-> s[a[n]]]
  BY <1>2, <1>3 DEF Sublist
<1>5. \A n \in 1 .. Cardinality(K) : s[a[n]] \in S
  BY <1>3
<1>6. l \in Seq(S) /\ Len(l) = Cardinality(K) /\ DOMAIN l = 1 .. Len(l)
  <2> HIDE DEF l
  <2> QED
    BY <1>1, <1>4, <1>5
<1> HIDE DEF l
<1> QED
  BY <1>1, <1>2, <1>3, <1>4, <1>6 DEF l
================================================================================
