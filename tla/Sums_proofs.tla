---------------------------- MODULE Sums_proofs ----------------------------
(***************************************************************************)
(* Lemmas about sums over finite sets, SumFunctionOnSet of the community   *)
(* modules, in which the router's and the broker's quantities are stated.  *)
(* Induction is over a set of subsets instead of an operator.              *)
(***************************************************************************)
EXTENDS Integers, FiniteSets, Functions, FiniteSetTheorems, WellFoundedInduction, TLAPS

-----------------------------------------------------------------------------
(* Induction.                                                              *)

LEMMA LeastNumber ==
  ASSUME NEW T \in SUBSET Nat, T # {}
  PROVE  \E x \in T : \A y \in T : x <= y
<1> DEFINE less == OpToRel(<, Nat)
<1>1. \A x, y \in Nat : <<y, x>> \in less \/ x <= y
  BY DEF OpToRel
<1>2. IsWellFoundedOn(less, Nat)
  BY NatLessThanWellFounded, Zenon
<1> HIDE DEF less
<1>3. \E x \in T : \A y \in T : ~(<<y, x>> \in less)
  BY <1>2, WFMin
<1> QED
  BY <1>1, <1>3

LEMMA NatSetInduction ==
  ASSUME NEW P \in SUBSET Nat, 0 \in P, \A n \in P : n + 1 \in P
  PROVE  P = Nat
<1> SUFFICES ASSUME Nat \ P # {} PROVE FALSE
  OBVIOUS
<1>1. PICK m \in Nat \ P : \A y \in Nat \ P : m <= y
  BY LeastNumber
<1>2. m # 0 /\ m - 1 \in Nat
  BY <1>1
<1>3. m - 1 \in P
  BY <1>1, <1>2
<1> QED
  BY <1>1, <1>3

(* A set of subsets of S that has the empty one, and one more element with *)
(* each of its members, has S.                                             *)
LEMMA SubsetInduction ==
  ASSUME NEW S, IsFiniteSet(S), NEW P \in SUBSET (SUBSET S),
         {} \in P, \A T \in P : \A x \in S \ T : T \cup {x} \in P
  PROVE  S \in P
<1> DEFINE Q == {n \in Nat : \A T \in SUBSET S : Cardinality(T) = n => T \in P}
<1>1. 0 \in Q
  <2>1. ASSUME NEW T \in SUBSET S, Cardinality(T) = 0 PROVE T \in P
    BY <2>1, FS_Subset, FS_EmptySet
  <2> QED
    BY <2>1
<1>2. ASSUME NEW n \in Q PROVE n + 1 \in Q
  <2>1. ASSUME NEW T \in SUBSET S, Cardinality(T) = n + 1 PROVE T \in P
    <3>1. IsFiniteSet(T)
      BY FS_Subset
    <3>2. PICK x \in T : TRUE
      <4>1. Cardinality({}) = 0 /\ n \in Nat
        BY FS_EmptySet
      <4> QED
        BY <2>1, <4>1
    <3>3. Cardinality(T \ {x}) = n
      <4>1. Cardinality(T \ {x}) = Cardinality(T) - 1
        BY <3>1, <3>2, FS_RemoveElement
      <4> QED
        BY <2>1, <4>1
    <3>4. T \ {x} \in P
      BY <1>2, <3>3
    <3>5. T = (T \ {x}) \cup {x} /\ x \in S \ (T \ {x})
      BY <3>2
    <3> QED
      BY <3>4, <3>5
  <2> QED
    BY <2>1
<1>3. Q = Nat
  <2> HIDE DEF Q
  <2>1. Q \in SUBSET Nat
    BY DEF Q
  <2> QED
    BY <1>1, <1>2, <2>1, NatSetInduction
<1>4. Cardinality(S) \in Nat
  BY FS_CardinalityType
<1> QED
  BY <1>3, <1>4

-----------------------------------------------------------------------------
(* The sum, unfolded.                                                      *)

Choice(s) == CHOOSE x \in s : TRUE
StepOf(f, s, g) == IF s = {} THEN 0 ELSE f[Choice(s)] + g[s \ {Choice(s)}]
Sums(f, S) == CHOOSE g : g = [s \in SUBSET S |-> StepOf(f, s, g)]

LEMMA SumIsIteration ==
  ASSUME NEW f, NEW S
  PROVE  SumFunctionOnSet(f, S) = Sums(f, S)[S]
BY DEF SumFunctionOnSet, FoldFunctionOnSet, MapThenFoldSet, Sums, StepOf, Choice

(* The recursion has a solution on the subsets of a finite set, by         *)
(* induction over how large the subsets are on which it is solved.         *)
LEMMA SumsExist ==
  ASSUME NEW f, NEW S, IsFiniteSet(S)
  PROVE  Sums(f, S) = [s \in SUBSET S |-> StepOf(f, s, Sums(f, S))]
<1> DEFINE Solves(g, n) == \A s \in SUBSET S : Cardinality(s) <= n => g[s] = StepOf(f, s, g)
           P == {n \in Nat : \E g : Solves(g, n)}
<1>0. /\ \A s \in SUBSET S : Cardinality(s) \in Nat /\ (Cardinality(s) = 0 <=> s = {})
      /\ \A s \in SUBSET S : s # {} =>
           /\ Choice(s) \in s /\ Cardinality(s \ {Choice(s)}) = Cardinality(s) - 1
  <2>1. ASSUME NEW s \in SUBSET S
        PROVE  IsFiniteSet(s) /\ Cardinality(s) \in Nat /\ (Cardinality(s) = 0 <=> s = {})
    BY FS_Subset, FS_CardinalityType, FS_EmptySet
  <2>2. ASSUME NEW s \in SUBSET S, s # {}
        PROVE  Choice(s) \in s /\ Cardinality(s \ {Choice(s)}) = Cardinality(s) - 1
    <3>1. Choice(s) \in s
      BY <2>2 DEF Choice
    <3> QED
      BY <2>1, <3>1, FS_RemoveElement
  <2> QED
    BY <2>1, <2>2
<1>1. 0 \in P
  <2>1. Solves([s \in SUBSET S |-> 0], 0)
    BY <1>0 DEF StepOf
  <2> QED
    BY <2>1
<1>2. ASSUME NEW n \in P PROVE n + 1 \in P
  <2>1. PICK g : Solves(g, n)
    BY <1>2
  <2> DEFINE h == [s \in SUBSET S |-> IF Cardinality(s) <= n THEN g[s] ELSE StepOf(f, s, g)]
  <2>2. ASSUME NEW s \in SUBSET S, Cardinality(s) <= n + 1
        PROVE  h[s] = StepOf(f, s, h)
    <3>1. h[s] = StepOf(f, s, g)
      BY <2>1
    <3>2. CASE s = {}
      BY <3>1, <3>2 DEF StepOf
    <3>3. CASE s # {}
      <4>1. Cardinality(s \ {Choice(s)}) <= n /\ s \ {Choice(s)} \in SUBSET S
        BY <1>0, <2>2, <3>3
      <4>2. h[s \ {Choice(s)}] = g[s \ {Choice(s)}]
        BY <4>1
      <4> HIDE DEF h
      <4> QED
        BY <3>1, <3>3, <4>2 DEF StepOf
    <3> QED
      BY <3>2, <3>3
  <2>3. Solves(h, n + 1)
    <3> HIDE DEF h
    <3> QED
      BY <2>2
  <2> HIDE DEF h, Solves
  <2> QED
    BY <2>3
<1>3. P = Nat
  <2> HIDE DEF P
  <2>1. P \in SUBSET Nat
    BY DEF P
  <2> QED
    BY <1>1, <1>2, <2>1, NatSetInduction
<1>4. Cardinality(S) \in Nat /\ \A s \in SUBSET S : Cardinality(s) <= Cardinality(S)
  BY FS_Subset, FS_CardinalityType
<1>5. PICK g : Solves(g, Cardinality(S))
  BY <1>3, <1>4
<1> DEFINE h == [s \in SUBSET S |-> g[s]]
<1>6. h = [s \in SUBSET S |-> StepOf(f, s, h)]
  <2>1. ASSUME NEW s \in SUBSET S PROVE g[s] = StepOf(f, s, h)
    <3>1. g[s] = StepOf(f, s, g)
      BY <1>4, <1>5
    <3>2. s \ {Choice(s)} \in SUBSET S
      OBVIOUS
    <3> QED
      BY <3>1, <3>2 DEF StepOf
  <2> QED
    BY <2>1
<1> HIDE DEF h
<1> QED
  BY <1>6 DEF Sums

LEMMA SmallerByOne ==
  ASSUME NEW S, IsFiniteSet(S), NEW s \in SUBSET S, NEW x \in s
  PROVE  /\ IsFiniteSet(s) /\ Cardinality(s) \in Nat \ {0}
         /\ Cardinality(s \ {x}) = Cardinality(s) - 1 /\ s \ {x} \in SUBSET S
<1>1. IsFiniteSet(s) /\ Cardinality(s) \in Nat
  BY FS_Subset, FS_CardinalityType
<1>2. Cardinality(s) # 0
  BY <1>1, FS_EmptySet
<1>3. Cardinality(s \ {x}) = Cardinality(s) - 1
  BY <1>1, FS_RemoveElement
<1> QED
  BY <1>1, <1>2, <1>3

(* What holds of sets of every size holds of all finite subsets.           *)
LEMMA SizeInduction ==
  ASSUME NEW S, IsFiniteSet(S), NEW P \in SUBSET (SUBSET S), {} \in P,
         \A n \in Nat : (\A T \in SUBSET S : Cardinality(T) = n => T \in P)
                          => (\A T \in SUBSET S : Cardinality(T) = n + 1 => T \in P)
  PROVE  P = SUBSET S
<1> DEFINE Q == {n \in Nat : \A T \in SUBSET S : Cardinality(T) = n => T \in P}
<1>1. 0 \in Q
  <2>1. ASSUME NEW T \in SUBSET S, Cardinality(T) = 0 PROVE T = {}
    BY <2>1, FS_Subset, FS_EmptySet
  <2> QED
    BY <2>1
<1>2. \A n \in Q : n + 1 \in Q
  OBVIOUS
<1>3. Q = Nat
  <2> HIDE DEF Q
  <2>1. Q \in SUBSET Nat
    BY DEF Q
  <2> QED
    BY <1>1, <1>2, <2>1, NatSetInduction
<1>4. \A T \in SUBSET S : Cardinality(T) \in Nat
  BY FS_Subset, FS_CardinalityType
<1> QED
  BY <1>3, <1>4

(* The sum over a subset is the same whatever set the recursion is for.    *)
LEMMA SumsAgree ==
  ASSUME NEW f, NEW S, IsFiniteSet(S), NEW R \in SUBSET S
  PROVE  \A T \in SUBSET R : Sums(f, S)[T] = Sums(f, R)[T]
<1> DEFINE P == {T \in SUBSET R : Sums(f, S)[T] = Sums(f, R)[T]}
<1>0. IsFiniteSet(R)
  BY FS_Subset
<1>1. /\ Sums(f, S) = [s \in SUBSET S |-> StepOf(f, s, Sums(f, S))]
      /\ Sums(f, R) = [s \in SUBSET R |-> StepOf(f, s, Sums(f, R))]
  BY <1>0, SumsExist
<1>2. {} \in P
  BY <1>1 DEF StepOf
<1>3. ASSUME NEW n \in Nat, \A T \in SUBSET R : Cardinality(T) = n => T \in P,
             NEW T \in SUBSET R, Cardinality(T) = n + 1
      PROVE  T \in P
  <2>1. T # {}
    <3>1. Cardinality({}) = 0 /\ n + 1 # 0
      BY FS_EmptySet
    <3> QED
      BY <1>3, <3>1
  <2>2. Choice(T) \in T
    BY <2>1 DEF Choice
  <2>3. Cardinality(T \ {Choice(T)}) = n /\ T \ {Choice(T)} \in SUBSET R
    BY <1>0, <1>3, <2>2, SmallerByOne
  <2>4. T \ {Choice(T)} \in P
    BY <1>3, <2>3
  <2>5. Sums(f, S)[T] = StepOf(f, T, Sums(f, S)) /\ Sums(f, R)[T] = StepOf(f, T, Sums(f, R))
    <3>1. T \in SUBSET S
      OBVIOUS
    <3> QED
      BY <1>1, <3>1
  <2> QED
    BY <2>4, <2>5 DEF StepOf
<1>4. P = SUBSET R
  <2> HIDE DEF P
  <2>1. P \in SUBSET (SUBSET R)
    BY DEF P
  <2> QED
    BY <1>0, <1>2, <1>3, <2>1, SizeInduction
<1> QED
  BY <1>4

LEMMA SumEmpty == ASSUME NEW f PROVE SumFunctionOnSet(f, {}) = 0
<1>1. IsFiniteSet({}) /\ {} \in SUBSET {}
  BY FS_EmptySet
<1>2. Sums(f, {}) = [s \in SUBSET {} |-> StepOf(f, s, Sums(f, {}))]
  BY <1>1, SumsExist
<1> QED
  BY <1>1, <1>2, SumIsIteration DEF StepOf

LEMMA SumOfChoice ==
  ASSUME NEW f, NEW S, IsFiniteSet(S), S # {}
  PROVE  /\ Choice(S) \in S
         /\ SumFunctionOnSet(f, S) = f[Choice(S)] + SumFunctionOnSet(f, S \ {Choice(S)})
<1> DEFINE R == S \ {Choice(S)}
<1>1. Choice(S) \in S
  BY DEF Choice
<1>2. Sums(f, S)[S] = f[Choice(S)] + Sums(f, S)[R]
  <2>1. Sums(f, S) = [s \in SUBSET S |-> StepOf(f, s, Sums(f, S))]
    BY SumsExist
  <2>2. Sums(f, S)[S] = StepOf(f, S, Sums(f, S))
    <3>1. S \in SUBSET S
      OBVIOUS
    <3> QED
      BY <2>1, <3>1
  <2> QED
    BY <2>2 DEF StepOf
<1>3. Sums(f, S)[R] = Sums(f, R)[R]
  BY SumsAgree
<1> QED
  BY <1>1, <1>2, <1>3, SumIsIteration

(* A sum of integers is an integer, and takes any element out.             *)
LEMMA SumRemove ==
  ASSUME NEW S, IsFiniteSet(S), NEW f, \A x \in S : f[x] \in Int
  PROVE  /\ SumFunctionOnSet(f, S) \in Int
         /\ \A x \in S : SumFunctionOnSet(f, S) = f[x] + SumFunctionOnSet(f, S \ {x})
<1> DEFINE Good(T) == /\ SumFunctionOnSet(f, T) \in Int
                      /\ \A x \in T :
                           /\ SumFunctionOnSet(f, T) = f[x] + SumFunctionOnSet(f, T \ {x})
                           /\ SumFunctionOnSet(f, T \ {x}) \in Int
           P == {T \in SUBSET S : Good(T)}
<1>1. {} \in P
  BY SumEmpty
<1>2. ASSUME NEW n \in Nat, \A T \in SUBSET S : Cardinality(T) = n => T \in P,
             NEW T \in SUBSET S, Cardinality(T) = n + 1
      PROVE  T \in P
  <2> DEFINE c == Choice(T)
  <2>0. IsFiniteSet(T) /\ T # {}
    BY <1>2, FS_EmptySet, FS_Subset
  <2>1. c \in T /\ SumFunctionOnSet(f, T) = f[c] + SumFunctionOnSet(f, T \ {c})
    BY <2>0, SumOfChoice
  <2> HIDE DEF c
  <2>2. ASSUME NEW x \in T PROVE T \ {x} \in P
    <3>1. Cardinality(T \ {x}) = n /\ T \ {x} \in SUBSET S
      <4>1. Cardinality(T \ {x}) = Cardinality(T) - 1
        BY SmallerByOne
      <4> QED
        BY <1>2, <4>1
    <3> QED
      BY <1>2, <3>1
  <2>3. \A x \in T : Good(T \ {x})
    BY <2>2
  <2>4. SumFunctionOnSet(f, T) \in Int
    BY <2>1, <2>3
  <2>5. ASSUME NEW x \in T
        PROVE  SumFunctionOnSet(f, T) = f[x] + SumFunctionOnSet(f, T \ {x})
    <3>1. CASE x = c
      BY <2>1, <3>1
    <3>2. CASE x # c
      <4> DEFINE U == (T \ {x}) \ {c}
      <4>1. U = (T \ {c}) \ {x}
        OBVIOUS
      <4>2. SumFunctionOnSet(f, T \ {x}) = f[c] + SumFunctionOnSet(f, U)
        BY <2>1, <2>3, <3>2
      <4>3. SumFunctionOnSet(f, T \ {c}) = f[x] + SumFunctionOnSet(f, (T \ {c}) \ {x})
        BY <2>1, <2>3, <3>2
      <4>4. SumFunctionOnSet(f, U) \in Int
        BY <2>1, <2>3, <3>2
      <4> HIDE DEF U
      <4>5. f[c] \in Int /\ f[x] \in Int
        BY <2>1
      <4> QED
        BY <2>1, <4>1, <4>2, <4>3, <4>4, <4>5
    <3> QED
      BY <3>1, <3>2
  <2> QED
    BY <2>3, <2>4, <2>5
<1>3. P = SUBSET S
  <2> HIDE DEF P
  <2>1. P \in SUBSET (SUBSET S)
    BY DEF P
  <2> QED
    BY <1>1, <1>2, <2>1, SizeInduction
<1> QED
  BY <1>3

-----------------------------------------------------------------------------
(* What the other modules use.                                             *)

LEMMA SumType ==
  ASSUME NEW S, IsFiniteSet(S), NEW f, \A x \in S : f[x] \in Int
  PROVE  SumFunctionOnSet(f, S) \in Int
BY SumRemove

LEMMA SumAdd ==
  ASSUME NEW S, IsFiniteSet(S), NEW x, x \notin S, NEW f, \A y \in S \cup {x} : f[y] \in Int
  PROVE  SumFunctionOnSet(f, S \cup {x}) = SumFunctionOnSet(f, S) + f[x]
<1> DEFINE T == S \cup {x}
<1>1. IsFiniteSet(T) /\ T \ {x} = S /\ x \in T
  BY FS_AddElement
<1>2. SumFunctionOnSet(f, T) = f[x] + SumFunctionOnSet(f, S)
  <2>1. SumFunctionOnSet(f, T) = f[x] + SumFunctionOnSet(f, T \ {x})
    <3> HIDE DEF T
    <3>1. \A y \in T : f[y] \in Int
      BY DEF T
    <3> QED
      BY <1>1, <3>1, SumRemove
  <2> QED
    BY <1>1, <2>1
<1>3. SumFunctionOnSet(f, S) \in Int /\ f[x] \in Int
  BY SumRemove
<1> QED
  BY <1>1, <1>2, <1>3

(* Larger terms make larger sums.                                          *)
LEMMA SumMonotone ==
  ASSUME NEW S, IsFiniteSet(S), NEW f, NEW g,
         \A x \in S : f[x] \in Int /\ g[x] \in Int /\ f[x] <= g[x]
  PROVE  SumFunctionOnSet(f, S) <= SumFunctionOnSet(g, S)
<1> DEFINE P == {T \in SUBSET S : SumFunctionOnSet(f, T) <= SumFunctionOnSet(g, T)}
<1>1. {} \in P
  BY SumEmpty
<1>2. ASSUME NEW T \in P, NEW x \in S \ T PROVE T \cup {x} \in P
  <2>1. IsFiniteSet(T)
    BY FS_Subset
  <2>2. /\ SumFunctionOnSet(f, T \cup {x}) = SumFunctionOnSet(f, T) + f[x]
        /\ SumFunctionOnSet(g, T \cup {x}) = SumFunctionOnSet(g, T) + g[x]
    BY <2>1, SumAdd
  <2>3. SumFunctionOnSet(f, T) \in Int /\ SumFunctionOnSet(g, T) \in Int
    BY <2>1, SumType
  <2> QED
    BY <2>2, <2>3
<1>3. S \in P
  <2> HIDE DEF P
  <2>1. P \in SUBSET (SUBSET S)
    BY DEF P
  <2> QED
    BY <1>1, <1>2, <2>1, SubsetInduction
<1> QED
  BY <1>3

LEMMA SumEqual ==
  ASSUME NEW S, IsFiniteSet(S), NEW f, NEW g, \A x \in S : f[x] \in Int /\ f[x] = g[x]
  PROVE  SumFunctionOnSet(f, S) = SumFunctionOnSet(g, S)
<1>1. /\ SumFunctionOnSet(f, S) \in Int /\ SumFunctionOnSet(g, S) \in Int
      /\ SumFunctionOnSet(f, S) <= SumFunctionOnSet(g, S)
      /\ SumFunctionOnSet(g, S) <= SumFunctionOnSet(f, S)
  BY SumMonotone, SumType
<1> QED
  BY <1>1

LEMMA SumZero ==
  ASSUME NEW S, IsFiniteSet(S), NEW f, \A x \in S : f[x] = 0
  PROVE  SumFunctionOnSet(f, S) = 0
<1> DEFINE P == {T \in SUBSET S : SumFunctionOnSet(f, T) = 0}
<1>1. {} \in P
  BY SumEmpty
<1>2. ASSUME NEW T \in P, NEW x \in S \ T PROVE T \cup {x} \in P
  <2>1. SumFunctionOnSet(f, T \cup {x}) = SumFunctionOnSet(f, T) + f[x]
    <3>1. IsFiniteSet(T) /\ x \notin T /\ \A y \in T \cup {x} : f[y] \in Int
      BY FS_Subset
    <3> QED
      BY <3>1, SumAdd
  <2> QED
    BY <2>1
<1>3. S \in P
  <2> HIDE DEF P
  <2>1. P \in SUBSET (SUBSET S)
    BY DEF P
  <2> QED
    BY <1>1, <1>2, <2>1, SubsetInduction
<1> QED
  BY <1>3

LEMMA SumNatural ==
  ASSUME NEW S, IsFiniteSet(S), NEW f, \A x \in S : f[x] \in Nat
  PROVE  SumFunctionOnSet(f, S) \in Nat
<1> DEFINE z == [x \in S |-> 0]
<1>1. SumFunctionOnSet(z, S) = 0
  BY SumZero
<1>2. SumFunctionOnSet(z, S) <= SumFunctionOnSet(f, S)
  BY SumMonotone
<1>3. SumFunctionOnSet(f, S) \in Int
  BY SumType
<1> QED
  BY <1>1, <1>2, <1>3

(* One term differs: so does the sum.                                      *)
LEMMA SumChange ==
  ASSUME NEW S, IsFiniteSet(S), NEW f, NEW g, NEW x \in S,
         \A y \in S : f[y] \in Int /\ g[y] \in Int, \A y \in S \ {x} : f[y] = g[y]
  PROVE  SumFunctionOnSet(g, S) = SumFunctionOnSet(f, S) + g[x] - f[x]
<1>1. IsFiniteSet(S \ {x})
  BY FS_Subset
<1>2. SumFunctionOnSet(f, S \ {x}) = SumFunctionOnSet(g, S \ {x})
  BY <1>1, SumEqual
<1>3. /\ SumFunctionOnSet(f, S) = f[x] + SumFunctionOnSet(f, S \ {x})
      /\ SumFunctionOnSet(g, S) = g[x] + SumFunctionOnSet(g, S \ {x})
  BY SumRemove
<1>4. SumFunctionOnSet(f, S \ {x}) \in Int
  BY <1>1, SumType
<1> QED
  BY <1>2, <1>3, <1>4

(* Terms that are zero may be left out.                                    *)
LEMMA SumSubset ==
  ASSUME NEW S, IsFiniteSet(S), NEW T \in SUBSET S, NEW f, NEW g,
         \A x \in S : f[x] \in Int, \A x \in T : f[x] = g[x], \A x \in S \ T : f[x] = 0
  PROVE  SumFunctionOnSet(f, S) = SumFunctionOnSet(g, T)
<1> DEFINE P == {U \in SUBSET (S \ T) : SumFunctionOnSet(f, T \cup U) = SumFunctionOnSet(f, T)}
<1>0. IsFiniteSet(T) /\ IsFiniteSet(S \ T)
  BY FS_Subset
<1>1. {} \in P
  <2>1. T \cup {} = T
    OBVIOUS
  <2> QED
    BY <2>1
<1>2. ASSUME NEW U \in P, NEW x \in (S \ T) \ U PROVE U \cup {x} \in P
  <2>1. IsFiniteSet(T \cup U) /\ x \notin T \cup U /\ T \cup (U \cup {x}) = (T \cup U) \cup {x}
    <3>1. T \cup U \in SUBSET S
      OBVIOUS
    <3>2. IsFiniteSet(T \cup U)
      BY <3>1, FS_Subset
    <3> QED
      BY <3>2
  <2>2. SumFunctionOnSet(f, (T \cup U) \cup {x}) = SumFunctionOnSet(f, T \cup U) + f[x]
    BY <2>1, SumAdd
  <2>3. SumFunctionOnSet(f, T) \in Int
    BY <1>0, SumType
  <2>4. SumFunctionOnSet(f, T \cup U) = SumFunctionOnSet(f, T) /\ f[x] = 0
    BY <1>2
  <2>5. SumFunctionOnSet(f, T \cup (U \cup {x})) = SumFunctionOnSet(f, T)
    <3>1. SumFunctionOnSet(f, (T \cup U) \cup {x}) = SumFunctionOnSet(f, T) + 0
      BY <2>2, <2>4
    <3>2. SumFunctionOnSet(f, (T \cup U) \cup {x}) = SumFunctionOnSet(f, T)
      BY <2>3, <3>1
    <3> QED
      BY <2>1, <3>2
  <2> QED
    BY <1>2, <2>5
<1>3. S \ T \in P
  <2> HIDE DEF P
  <2>1. P \in SUBSET (SUBSET (S \ T))
    BY DEF P
  <2> QED
    BY <1>0, <1>1, <1>2, <2>1, SubsetInduction
<1>4. T \cup (S \ T) = S
  OBVIOUS
<1>5. SumFunctionOnSet(f, T) = SumFunctionOnSet(g, T)
  BY <1>0, SumEqual
<1> QED
  BY <1>3, <1>4, <1>5

(* The sum of the differences is the difference of the sums.               *)
LEMMA SumMinus ==
  ASSUME NEW S, IsFiniteSet(S), NEW f, NEW g, NEW h,
         \A x \in S : f[x] \in Int /\ g[x] \in Int /\ h[x] = f[x] - g[x]
  PROVE  SumFunctionOnSet(h, S) = SumFunctionOnSet(f, S) - SumFunctionOnSet(g, S)
<1> DEFINE P == {T \in SUBSET S :
                   SumFunctionOnSet(h, T) = SumFunctionOnSet(f, T) - SumFunctionOnSet(g, T)}
<1>1. {} \in P
  BY SumEmpty
<1>2. ASSUME NEW T \in P, NEW x \in S \ T PROVE T \cup {x} \in P
  <2>1. IsFiniteSet(T) /\ T \cup {x} \in SUBSET S /\ T \in SUBSET S /\ x \notin T
    BY FS_Subset
  <2>2. \A y \in S : f[y] \in Int /\ g[y] \in Int /\ h[y] \in Int
    OBVIOUS
  <2>3. \A k : (\A y \in S : k[y] \in Int)
                 => /\ SumFunctionOnSet(k, T) \in Int
                    /\ SumFunctionOnSet(k, T \cup {x}) = SumFunctionOnSet(k, T) + k[x]
    BY <2>1, SumAdd, SumType
  <2>4. /\ SumFunctionOnSet(f, T \cup {x}) = SumFunctionOnSet(f, T) + f[x]
        /\ SumFunctionOnSet(g, T \cup {x}) = SumFunctionOnSet(g, T) + g[x]
        /\ SumFunctionOnSet(h, T \cup {x}) = SumFunctionOnSet(h, T) + h[x]
        /\ SumFunctionOnSet(f, T) \in Int /\ SumFunctionOnSet(g, T) \in Int
    BY <2>2, <2>3
  <2>5. /\ SumFunctionOnSet(h, T) = SumFunctionOnSet(f, T) - SumFunctionOnSet(g, T)
        /\ h[x] = f[x] - g[x] /\ f[x] \in Int /\ g[x] \in Int
    OBVIOUS
  <2> QED
    BY <2>1, <2>4, <2>5
<1> HIDE DEF P
<1>3. P \in SUBSET (SUBSET S)
  BY DEF P
<1>4. S \in P
  BY <1>1, <1>2, <1>3, SubsetInduction
<1> QED
  BY <1>4 DEF P
=============================================================================
