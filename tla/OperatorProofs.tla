--------------------------- MODULE OperatorProofs ---------------------------
(***************************************************************************)
(* What the operators Valuation is made of compute, for every argument:    *)
(* sums over finite sets, the adapters' treatment of a provider's answer,  *)
(* the replay of a ledger and the loop the code has for it, and the        *)
(* metrics.  Nothing here is about a step.                                 *)
(*                                                                         *)
(* A recursion is reasoned about through its least counterexample: the     *)
(* library's well-founded sets have minimal elements, and the set of the   *)
(* arguments a recursive function fails for would have one.                *)
(***************************************************************************)
EXTENDS Valuation, SequenceTheorems, FiniteSetTheorems, WellFoundedInduction, TLAPS

-----------------------------------------------------------------------------
(* Sums over finite sets.  SumFunction is a recursion over CHOOSE; that it  *)
(* is a sum is shown by the least counterexample, since the library's      *)
(* induction theorems cannot be instantiated here.                         *)

(* Of a set of numbers, the smallest.                                      *)
LEMMA Smallest ==
  ASSUME NEW T \in SUBSET Nat, T # {}
  PROVE  \E x \in T : \A y \in T : x <= y
<1>1. PICK x \in T : \A y \in T : <<y, x>> \notin OpToRel(<, Nat)
  BY WFMin, NatLessThanWellFounded
<1>2. \A y \in T : ~(y < x)
  BY <1>1 DEF OpToRel
<1> QED
  BY <1>2

(* Induction on finite sets, told by the least counterexample: of some     *)
(* subsets of a finite set one has no other below it.                      *)
LEMMA MinimalSubset ==
  ASSUME NEW U, IsFiniteSet(U), NEW Bad \in SUBSET (SUBSET U), Bad # {}
  PROVE  \E T \in Bad : \A V \in SUBSET T : V # T => V \notin Bad
<1>1. \A T \in SUBSET U : IsFiniteSet(T) /\ Cardinality(T) \in Nat
  BY FS_Subset, FS_CardinalityType
<1>2. {Cardinality(T) : T \in Bad} \in SUBSET Nat /\ {Cardinality(T) : T \in Bad} # {}
  BY <1>1
<1>3. PICK T \in Bad : \A V \in Bad : Cardinality(T) <= Cardinality(V)
  <2>1. PICK x \in {Cardinality(T) : T \in Bad} : \A y \in {Cardinality(T) : T \in Bad} : x <= y
    BY <1>2, Smallest
  <2> QED
    BY <2>1
<1>4. ASSUME NEW V \in SUBSET T, V # T, V \in Bad
      PROVE  FALSE
  <2>1. Cardinality(V) <= Cardinality(T) /\ Cardinality(T) <= Cardinality(V)
    BY <1>1, <1>3, <1>4, FS_Subset
  <2>2. Cardinality(V) = Cardinality(T)
    BY <1>1, <1>3, <2>1
  <2> QED
    BY <1>1, <1>3, <1>4, <2>2, FS_Subset
<1> QED
  BY <1>3, <1>4

(* The recursion that SumFunctionOnSet is, on the subsets of a set.        *)
First(s) == CHOOSE x \in s : TRUE
Summed(fun, S, f) ==
  f = [s \in SUBSET S |-> IF s = {} THEN 0 ELSE fun[First(s)] + f[s \ {First(s)}]]
SumOf(fun, S) == CHOOSE f : Summed(fun, S, f)

(* What is taken first is an element, and leaves a proper subset.          *)
LEMMA FirstIn ==
  ASSUME NEW s, s # {}
  PROVE  First(s) \in s /\ s \ {First(s)} \in SUBSET s /\ s \ {First(s)} # s
  BY DEF First

(* Two recursions agree where both are defined.                            *)
LEMMA SummedAgree ==
  ASSUME NEW U, IsFiniteSet(U), NEW S \in SUBSET U, NEW T \in SUBSET S, NEW f, NEW g,
         NEW fun, NEW gun, Summed(fun, S, f), Summed(gun, T, g), \A x \in T : fun[x] = gun[x]
  PROVE  f[T] = g[T]
<1> DEFINE Bad == {s \in SUBSET T : f[s] # g[s]}
<1>1. IsFiniteSet(T)
  BY FS_Subset
<1>2. SUFFICES ASSUME Bad # {} PROVE FALSE
  OBVIOUS
<1>3. PICK s \in Bad : \A v \in SUBSET s : v # s => v \notin Bad
  <2>1. Bad \in SUBSET (SUBSET T)
    OBVIOUS
  <2> HIDE DEF Bad
  <2> QED
    BY <1>1, <1>2, <2>1, MinimalSubset
<1>4. /\ f[s] = IF s = {} THEN 0 ELSE fun[First(s)] + f[s \ {First(s)}]
      /\ g[s] = IF s = {} THEN 0 ELSE gun[First(s)] + g[s \ {First(s)}]
  <2>1. s \in SUBSET S /\ s \in SUBSET T
    BY <1>3
  <2>2. f = [r \in SUBSET S |-> IF r = {} THEN 0 ELSE fun[First(r)] + f[r \ {First(r)}]]
    BY DEF Summed
  <2>3. g = [r \in SUBSET T |-> IF r = {} THEN 0 ELSE gun[First(r)] + g[r \ {First(r)}]]
    BY DEF Summed
  <2>4. f[s] = IF s = {} THEN 0 ELSE fun[First(s)] + f[s \ {First(s)}]
    BY <2>1, <2>2
  <2>5. g[s] = IF s = {} THEN 0 ELSE gun[First(s)] + g[s \ {First(s)}]
    BY <2>1, <2>3
  <2> QED
    BY <2>4, <2>5
<1>5. CASE s = {}
  BY <1>3, <1>4, <1>5
<1>6. CASE s # {}
  <2>1. First(s) \in s /\ s \ {First(s)} \in SUBSET s /\ s \ {First(s)} # s
    BY <1>6, FirstIn
  <2>2. f[s \ {First(s)}] = g[s \ {First(s)}] /\ fun[First(s)] = gun[First(s)]
    BY <1>3, <2>1
  <2> QED
    BY <1>3, <1>4, <1>6, <2>2
<1> QED
  BY <1>5, <1>6

(* The recursion has a solution.                                           *)
LEMMA SummedExists ==
  ASSUME NEW S, IsFiniteSet(S), NEW fun
  PROVE  Summed(fun, S, SumOf(fun, S))
<1> DEFINE Bad == {T \in SUBSET S : ~(\E f : Summed(fun, T, f))}
<1>1. SUFFICES Bad = {}
  <2>1. \E f : Summed(fun, S, f)
    BY <1>1
  <2> QED
    BY <2>1 DEF SumOf
<1>2. SUFFICES ASSUME Bad # {} PROVE FALSE
  OBVIOUS
<1>3. PICK T \in Bad : \A V \in SUBSET T : V # T => V \notin Bad
  <2>1. Bad \in SUBSET (SUBSET S)
    OBVIOUS
  <2> HIDE DEF Bad
  <2> QED
    BY <1>2, <2>1, MinimalSubset
<1>4. \A V \in SUBSET T : V # T => Summed(fun, V, SumOf(fun, V))
  BY <1>3 DEF SumOf
<1> DEFINE h == [s \in SUBSET T |-> IF s = {} THEN 0
                   ELSE fun[First(s)] + SumOf(fun, s \ {First(s)})[s \ {First(s)}]]
<1>5. ASSUME NEW s \in SUBSET T, s # T
      PROVE  h[s] = SumOf(fun, s)[s]
  <2>1. Summed(fun, s, SumOf(fun, s))
    BY <1>4, <1>5
  <2>2. SumOf(fun, s)[s] = IF s = {} THEN 0 ELSE fun[First(s)] + SumOf(fun, s)[s \ {First(s)}]
    <3> DEFINE g == SumOf(fun, s)
    <3>1. g = [r \in SUBSET s |-> IF r = {} THEN 0 ELSE fun[First(r)] + g[r \ {First(r)}]]
      BY <2>1 DEF Summed
    <3> HIDE DEF g
    <3>2. g[s] = IF s = {} THEN 0 ELSE fun[First(s)] + g[s \ {First(s)}]
      BY <3>1
    <3> QED
      BY <3>2 DEF g
  <2>3. CASE s = {}
    BY <2>2, <2>3
  <2>4. CASE s # {}
    <3> DEFINE v == s \ {First(s)}
    <3>1. v \in SUBSET s /\ v \in SUBSET T /\ v # T
      BY <1>5, <2>4, FirstIn
    <3>2. Summed(fun, v, SumOf(fun, v))
      BY <1>4, <3>1
    <3>3. IsFiniteSet(s)
      BY <1>3, FS_Subset
    <3>4. SumOf(fun, s)[v] = SumOf(fun, v)[v]
      <4> HIDE DEF v
      <4> QED
        BY <2>1, <3>1, <3>2, <3>3, SummedAgree
    <3> QED
      BY <2>2, <2>4, <3>4
  <2> QED
    BY <2>3, <2>4
<1>6. Summed(fun, T, h)
  <2>1. ASSUME NEW s \in SUBSET T
        PROVE  h[s] = IF s = {} THEN 0 ELSE fun[First(s)] + h[s \ {First(s)}]
    <3>1. CASE s = {}
      BY <3>1
    <3>2. CASE s # {}
      <4>1. s \ {First(s)} \in SUBSET T /\ s \ {First(s)} # T
        BY <3>2, FirstIn
      <4>2. h[s \ {First(s)}] = SumOf(fun, s \ {First(s)})[s \ {First(s)}]
        BY <1>5, <4>1
      <4> QED
        BY <3>2, <4>2
    <3> QED
      BY <3>1, <3>2
  <2>2. h = [s \in SUBSET T |-> h[s]]
    OBVIOUS
  <2> HIDE DEF h
  <2>3. [s \in SUBSET T |-> h[s]] =
          [s \in SUBSET T |-> IF s = {} THEN 0 ELSE fun[First(s)] + h[s \ {First(s)}]]
    BY <2>1
  <2> QED
    BY <2>2, <2>3 DEF Summed
<1> HIDE DEF h
<1> QED
  BY <1>3, <1>6

(* The sum of a set: of none of its elements, or of one and of the others. *)
LEMMA SumFirst ==
  ASSUME NEW S, IsFiniteSet(S), NEW fun
  PROVE  SumFunctionOnSet(fun, S) =
           IF S = {} THEN 0
           ELSE fun[First(S)] + SumFunctionOnSet(fun, S \ {First(S)})
<1>1. \A T : SumFunctionOnSet(fun, T) = SumOf(fun, T)[T]
  BY DEF SumFunctionOnSet, FoldFunctionOnSet, MapThenFoldSet, SumOf, Summed, First
<1>2. Summed(fun, S, SumOf(fun, S))
  BY SummedExists
<1>3. SumOf(fun, S)[S] = IF S = {} THEN 0 ELSE fun[First(S)] + SumOf(fun, S)[S \ {First(S)}]
  <2> DEFINE g == SumOf(fun, S)
  <2>1. g = [r \in SUBSET S |-> IF r = {} THEN 0 ELSE fun[First(r)] + g[r \ {First(r)}]]
    BY <1>2 DEF Summed
  <2> HIDE DEF g
  <2>2. g[S] = IF S = {} THEN 0 ELSE fun[First(S)] + g[S \ {First(S)}]
    BY <2>1
  <2> QED
    BY <2>2 DEF g
<1>4. ASSUME S # {}
      PROVE  SumOf(fun, S)[S \ {First(S)}] = SumOf(fun, S \ {First(S)})[S \ {First(S)}]
  <2> DEFINE v == S \ {First(S)}
  <2>1. v \in SUBSET S /\ IsFiniteSet(v)
    BY FS_Subset
  <2>2. Summed(fun, v, SumOf(fun, v))
    BY <2>1, SummedExists
  <2> HIDE DEF v
  <2>3. SumOf(fun, S)[v] = SumOf(fun, v)[v]
    BY <1>2, <2>1, <2>2, SummedAgree
  <2> QED
    BY <2>3 DEF v
<1> QED
  BY <1>1, <1>3, <1>4

(* Sums of equal terms are equal.                                          *)
LEMMA SumCong ==
  ASSUME NEW S, IsFiniteSet(S), NEW fun, NEW gun, \A x \in S : fun[x] = gun[x]
  PROVE  SumFunctionOnSet(fun, S) = SumFunctionOnSet(gun, S)
<1>1. SumFunctionOnSet(fun, S) = SumOf(fun, S)[S] /\ SumFunctionOnSet(gun, S) = SumOf(gun, S)[S]
  BY DEF SumFunctionOnSet, FoldFunctionOnSet, MapThenFoldSet, SumOf, Summed, First
<1>2. Summed(fun, S, SumOf(fun, S)) /\ Summed(gun, S, SumOf(gun, S))
  BY SummedExists
<1> QED
  BY <1>1, <1>2, SummedAgree

(* Integers sum to an integer, in whatever order.                          *)
Splits(fun, U) == \A S \in SUBSET U :
  /\ SumFunctionOnSet(fun, S) \in Int
  /\ S = {} => SumFunctionOnSet(fun, S) = 0
  /\ \A x \in S : SumFunctionOnSet(fun, S) = fun[x] + SumFunctionOnSet(fun, S \ {x})

(* Any element can be taken out of a sum of integers first.                *)
LEMMA SumSplit ==
  ASSUME NEW U, IsFiniteSet(U), NEW fun, \A x \in U : fun[x] \in Int
  PROVE  Splits(fun, U)
<1> DEFINE Sum(S) == SumFunctionOnSet(fun, S)
           Fine(S) == Sum(S) \in Int /\ (S = {} => Sum(S) = 0)
                      /\ \A x \in S : Sum(S) = fun[x] + Sum(S \ {x})
           Bad == {S \in SUBSET U : ~Fine(S)}
<1>1. SUFFICES ASSUME Bad # {} PROVE FALSE
  BY DEF Splits
<1>2. PICK S \in Bad : \A V \in SUBSET S : V # S => V \notin Bad
  <2>1. Bad \in SUBSET (SUBSET U)
    OBVIOUS
  <2> HIDE DEF Bad
  <2> QED
    BY <1>1, <2>1, MinimalSubset
<1>3. \A V \in SUBSET S : V # S => Fine(V)
  <2>1. \A V \in SUBSET S : V \in SUBSET U
    BY <1>2
  <2> HIDE DEF Fine
  <2> QED
    BY <1>2, <2>1
<1>4. Sum(S) = IF S = {} THEN 0 ELSE fun[First(S)] + Sum(S \ {First(S)})
  <2>1. IsFiniteSet(S)
    BY <1>2, FS_Subset
  <2> QED
    BY <2>1, SumFirst
<1> HIDE DEF Sum
<1>5. CASE S = {}
  BY <1>2, <1>4, <1>5
<1>6. CASE S # {}
  <2> DEFINE p == First(S)
  <2>1. p \in S /\ fun[p] \in Int
    BY <1>2, <1>6, FirstIn
  <2> HIDE DEF p
  <2>2. Sum(S) = fun[p] + Sum(S \ {p})
    BY <1>4, <1>6 DEF p
  <2>3. Fine(S \ {p})
    BY <1>3, <2>1
  <2>4. ASSUME NEW x \in S
        PROVE  Sum(S) = fun[x] + Sum(S \ {x})
    <3>1. CASE x = p
      BY <2>2, <3>1
    <3>2. CASE x # p
      <4>1. x \in S \ {p} /\ p \in S \ {x} /\ fun[x] \in Int
        BY <1>2, <2>1, <3>2
      <4>2. Sum(S \ {p}) = fun[x] + Sum((S \ {p}) \ {x})
        BY <2>3, <4>1
      <4>3. Fine(S \ {x}) /\ Fine((S \ {p}) \ {x})
        BY <1>3, <2>1, <4>1
      <4>4. Sum(S \ {x}) = fun[p] + Sum((S \ {x}) \ {p})
        BY <4>1, <4>3
      <4>5. (S \ {x}) \ {p} = (S \ {p}) \ {x}
        OBVIOUS
      <4>6. PICK k \in Int : k = Sum((S \ {p}) \ {x})
        BY <4>3
      <4>7. Sum(S \ {p}) = fun[x] + k
        BY <4>2, <4>6
      <4>8. Sum(S \ {x}) = fun[p] + k
        BY <4>4, <4>5, <4>6
      <4> QED
        BY <2>1, <2>2, <4>1, <4>7, <4>8
    <3> QED
      BY <3>1, <3>2
  <2>5. Sum(S) \in Int
    <3>1. Sum(S \ {p}) \in Int
      BY <2>3
    <3> QED
      BY <2>1, <2>2, <3>1
  <2>6. Fine(S)
    BY <1>6, <2>4, <2>5
  <2> QED
    BY <1>2, <2>6
<1> QED
  BY <1>5, <1>6

(* A bounded set of numbers has a largest.                                 *)
LEMMA Largest ==
  ASSUME NEW T \in SUBSET Nat, T # {}, NEW n \in Nat, \A x \in T : x <= n
  PROVE  Max(T) \in T /\ \A y \in T : y <= Max(T)
<1> DEFINE R == {n - x : x \in T}
<1>1. R \in SUBSET Nat /\ R # {}
  OBVIOUS
<1> HIDE DEF R
<1>2. PICK r \in R : \A y \in R : r <= y
  BY <1>1, Smallest
<1>3. PICK x \in T : r = n - x
  BY DEF R
<1>4. \A y \in T : n - x <= n - y
  BY <1>2, <1>3 DEF R
<1>5. \A y \in T : x >= y
  <2> TAKE y \in T
  <2>1. n - x <= n - y /\ x \in Nat /\ y \in Nat
    BY <1>4
  <2> QED
    BY <2>1
<1>6. \E z \in T : \A y \in T : z >= y
  BY <1>5
<1>7. Max(T) \in T /\ \A y \in T : Max(T) >= y
  BY <1>6 DEF Max
<1> QED
  BY <1>7

(* The smallest of a set of numbers, as Min names it.                      *)
LEMMA MinFacts ==
  ASSUME NEW T \in SUBSET Nat, T # {}
  PROVE  Min(T) \in T /\ \A y \in T : Min(T) <= y
BY Smallest DEF Min

(* Sums of integers over the parts of a finite set.                        *)
Part(fun, S) == SumFunction([y \in S |-> fun[y]])
PartsSplit(fun, U) == \A S \in SUBSET U :
  /\ Part(fun, S) \in Int
  /\ S = {} => Part(fun, S) = 0
  /\ \A x \in S : Part(fun, S) = fun[x] + Part(fun, S \ {x})

(* The same of a function summed over part of its domain.                  *)
LEMMA SumFacts ==
  ASSUME NEW U, IsFiniteSet(U), NEW fun, \A x \in U : fun[x] \in Int
  PROVE  PartsSplit(fun, U)
<1>1. ASSUME NEW S \in SUBSET U
      PROVE  SumFunction([y \in S |-> fun[y]]) = SumFunctionOnSet(fun, S)
  <2> DEFINE part == [y \in S |-> fun[y]]
  <2>1. IsFiniteSet(S) /\ \A x \in S : part[x] = fun[x]
    BY FS_Subset
  <2>2. DOMAIN part = S
    OBVIOUS
  <2> HIDE DEF part
  <2>3. SumFunctionOnSet(part, S) = SumFunctionOnSet(fun, S)
    BY <2>1, SumCong
  <2>4. SumFunction(part) = SumFunctionOnSet(part, S)
    BY <2>2 DEF SumFunction
  <2> QED
    BY <2>3, <2>4 DEF part
<1>2. Splits(fun, U)
  BY SumSplit
<1> SUFFICES ASSUME NEW S \in SUBSET U
             PROVE  /\ Part(fun, S) \in Int
                    /\ S = {} => Part(fun, S) = 0
                    /\ \A x \in S : Part(fun, S) = fun[x] + Part(fun, S \ {x})
  BY DEF PartsSplit
<1>3. \A x \in S : S \ {x} \in SUBSET U
  OBVIOUS
<1>4. /\ SumFunctionOnSet(fun, S) \in Int
      /\ S = {} => SumFunctionOnSet(fun, S) = 0
      /\ \A x \in S : SumFunctionOnSet(fun, S) = fun[x] + SumFunctionOnSet(fun, S \ {x})
  BY <1>2 DEF Splits
<1>5. Part(fun, S) = SumFunctionOnSet(fun, S)
  BY <1>1 DEF Part
<1>6. \A x \in S : Part(fun, S \ {x}) = SumFunctionOnSet(fun, S \ {x})
  BY <1>1, <1>3 DEF Part
<1> QED
  BY <1>4, <1>5, <1>6

(* A term more.                                                            *)
LEMMA SumAdd ==
  ASSUME NEW U, IsFiniteSet(U), NEW fun, \A x \in U : fun[x] \in Int,
         NEW S \in SUBSET U, NEW x \in U \ S
  PROVE  Part(fun, S) \in Int /\ Part(fun, S \cup {x}) = Part(fun, S) + fun[x]
<1>1. S \cup {x} \in SUBSET U /\ (S \cup {x}) \ {x} = S /\ x \in S \cup {x} /\ fun[x] \in Int
  OBVIOUS
<1>2. PartsSplit(fun, U)
  BY SumFacts
<1>3. Part(fun, S \cup {x}) = fun[x] + Part(fun, (S \cup {x}) \ {x})
  BY <1>1, <1>2 DEF PartsSplit
<1>4. Part(fun, S) \in Int
  BY <1>2 DEF PartsSplit
<1>5. Part(fun, S \cup {x}) = fun[x] + Part(fun, S)
  BY <1>1, <1>3
<1>6. Part(fun, S \cup {x}) = Part(fun, S) + fun[x]
  BY <1>1, <1>4, <1>5
<1> QED
  BY <1>4, <1>6

(* Terms that are zero do not count.                                       *)
LEMMA SumZero ==
  ASSUME NEW U, IsFiniteSet(U), NEW fun, \A x \in U : fun[x] \in Int,
         NEW S \in SUBSET U, \A x \in U \ S : fun[x] = 0
  PROVE  Part(fun, S) = Part(fun, U)
<1> DEFINE Bad == {T \in SUBSET U : S \subseteq T /\ Part(fun, T) # Part(fun, S)}
<1>1. SUFFICES ASSUME Bad # {} PROVE FALSE
  BY <1>1
<1>2. PICK T \in Bad : \A V \in SUBSET T : V # T => V \notin Bad
  <2>1. Bad \in SUBSET (SUBSET U)
    OBVIOUS
  <2> HIDE DEF Bad
  <2> QED
    BY <1>1, <2>1, MinimalSubset
<1>3. PartsSplit(fun, U)
  BY SumFacts
<1>4. PICK x \in T : x \notin S
  <2>1. T # S /\ S \subseteq T
    BY <1>2
  <2> QED
    BY <2>1
<1>5. T \ {x} \in SUBSET T /\ T \ {x} # T /\ S \subseteq T \ {x} /\ T \ {x} \in SUBSET U
  BY <1>2, <1>4
<1>6. Part(fun, T \ {x}) = Part(fun, S)
  BY <1>2, <1>5
<1>7. Part(fun, T) = 0 + Part(fun, T \ {x}) /\ Part(fun, T \ {x}) \in Int
  BY <1>2, <1>3, <1>4, <1>5 DEF PartsSplit
<1> QED
  BY <1>2, <1>6, <1>7

(* When one term changes the sum changes by as much.                       *)
LEMMA SumChange ==
  ASSUME NEW U, IsFiniteSet(U), NEW fun, \A x \in U : fun[x] \in Int,
         NEW gun, NEW x \in U, NEW delta \in Int, gun[x] = fun[x] + delta,
         \A y \in U \ {x} : gun[y] = fun[y]
  PROVE  Part(gun, U) = Part(fun, U) + delta
<1>1. \A y \in U : gun[y] \in Int
  <2> TAKE y \in U
  <2>1. CASE y = x
    BY <2>1
  <2>2. CASE y # x
    BY <2>2
  <2> QED
    BY <2>1, <2>2
<1>2. PartsSplit(fun, U) /\ PartsSplit(gun, U)
  BY <1>1, SumFacts
<1>3. U \in SUBSET U /\ U \ {x} \in SUBSET U
  OBVIOUS
<1>4. Part(fun, U) = fun[x] + Part(fun, U \ {x}) /\ Part(fun, U \ {x}) \in Int
  BY <1>2, <1>3 DEF PartsSplit
<1>5. Part(gun, U) = gun[x] + Part(gun, U \ {x})
  BY <1>2, <1>3 DEF PartsSplit
<1>6. Part(gun, U \ {x}) = Part(fun, U \ {x})
  <2>1. [y \in U \ {x} |-> gun[y]] = [y \in U \ {x} |-> fun[y]]
    OBVIOUS
  <2> QED
    BY <2>1 DEF Part
<1>7. PICK k \in Int : k = Part(fun, U \ {x})
  BY <1>4
<1>8. fun[x] \in Int /\ Part(gun, U) = (fun[x] + delta) + k /\ Part(fun, U) = fun[x] + k
  BY <1>4, <1>5, <1>6, <1>7
<1>9. Part(gun, U) = Part(fun, U) + delta
  BY <1>8
<1> QED
  BY <1>9

(* Numbers that are not negative sum to nothing only if all are nothing.   *)
LEMMA SumOfNaturals ==
  ASSUME NEW U, IsFiniteSet(U), NEW fun, \A x \in U : fun[x] \in Nat
  PROVE  Part(fun, U) \in Nat /\ (Part(fun, U) = 0 <=> \A x \in U : fun[x] = 0)
<1>1. PartsSplit(fun, U)
  BY SumFacts
<1>2. \A S \in SUBSET U : Part(fun, S) \in Nat
  <2> DEFINE Bad == {T \in SUBSET U : Part(fun, T) \notin Nat}
  <2>1. SUFFICES ASSUME Bad # {} PROVE FALSE
    OBVIOUS
  <2>2. PICK T \in Bad : \A V \in SUBSET T : V # T => V \notin Bad
    <3>1. Bad \in SUBSET (SUBSET U)
      OBVIOUS
    <3> HIDE DEF Bad
    <3> QED
      BY <2>1, <3>1, MinimalSubset
  <2>3. T # {}
    BY <1>1, <2>2 DEF PartsSplit
  <2>4. PICK x \in T : TRUE
    BY <2>3
  <2>5. Part(fun, T) = fun[x] + Part(fun, T \ {x})
    BY <1>1, <2>2 DEF PartsSplit
  <2>6. Part(fun, T \ {x}) \in Nat /\ fun[x] \in Nat
    <3>1. T \ {x} \in SUBSET T /\ T \ {x} # T /\ T \ {x} \in SUBSET U /\ x \in U
      BY <2>2, <2>4
    <3> QED
      BY <2>2, <3>1
  <2>7. Part(fun, T) \in Nat
    BY <2>5, <2>6
  <2> QED
    BY <2>2, <2>7
<1>3. ASSUME Part(fun, U) = 0, NEW x \in U
      PROVE  fun[x] = 0
  <2>1. U \in SUBSET U /\ U \ {x} \in SUBSET U
    OBVIOUS
  <2>2. Part(fun, U) = fun[x] + Part(fun, U \ {x})
    BY <1>1, <2>1 DEF PartsSplit
  <2>3. Part(fun, U \ {x}) \in Nat /\ fun[x] \in Nat
    BY <1>2, <2>1
  <2> QED
    BY <1>3, <2>2, <2>3
<1>4. ASSUME \A x \in U : fun[x] = 0
      PROVE  Part(fun, U) = 0
  <2>1. {} \in SUBSET U /\ (\A x \in U : fun[x] \in Int) /\ \A x \in U \ {} : fun[x] = 0
    BY <1>4
  <2>2. Part(fun, {}) = Part(fun, U)
    BY <2>1, SumZero
  <2> QED
    BY <1>1, <2>1, <2>2 DEF PartsSplit
<1>5. Part(fun, U) \in Nat
  BY <1>2
<1> QED
  BY <1>3, <1>4, <1>5

-----------------------------------------------------------------------------
(* Recursion and induction over the first numbers.                         *)

(* A recursion over the first numbers, whose step is a function.           *)
Stays(step, N, S) == \A n \in 1..N : \A s \in S : step[<<n, s>>] \in S
Follows(f, start, step, N) == f[0] = start /\ \A n \in 1..N : f[n] = step[<<n, f[n - 1]>>]

(* Such a recursion has a solution, which stays in the set of its values.  *)
LEMMA Recursion ==
  ASSUME NEW N \in Nat, NEW S, NEW start \in S, NEW step, Stays(step, N, S)
  PROVE  \E f \in [0..N -> S] : Follows(f, start, step, N)
<1> USE DEF Stays, Follows
<1> DEFINE Solves(f, n) == f[0] = start /\ \A i \in 1..n : f[i] = step[<<i, f[i - 1]>>]
           Bad == {n \in 0..N : \A f \in [0..n -> S] : ~Solves(f, n)}
<1>1. SUFFICES Bad = {}
  <2>1. N \in 0..N
    OBVIOUS
  <2> QED
    BY <1>1, <2>1
<1>2. SUFFICES ASSUME Bad # {} PROVE FALSE
  OBVIOUS
<1>3. Bad \in SUBSET Nat
  OBVIOUS
<1>4. PICK n \in Bad : \A m \in Bad : n <= m
  BY <1>2, <1>3, Smallest
<1>5. n \in 0..N /\ n \in Nat /\ \A f \in [0..n -> S] : ~Solves(f, n)
  BY <1>4
<1>6. CASE n = 0
  <2> DEFINE f == [i \in 0..0 |-> start]
  <2>1. f \in [0..n -> S] /\ Solves(f, n)
    BY <1>6
  <2> QED
    BY <1>5, <2>1
<1>7. CASE n # 0
  <2>1. n - 1 \in 0..N /\ n - 1 \notin Bad /\ n \in 1..N
    <3>1. n - 1 \in 0..N /\ n \in 1..N /\ ~(n <= n - 1)
      BY <1>5, <1>7
    <3> HIDE DEF Bad
    <3> QED
      BY <1>4, <3>1
  <2>2. PICK g \in [0..(n - 1) -> S] : Solves(g, n - 1)
    BY <2>1
  <2> DEFINE f == [i \in 0..n |-> IF i = n THEN step[<<n, g[n - 1]>>] ELSE g[i]]
  <2>3. step[<<n, g[n - 1]>>] \in S
    BY <2>1
  <2>4. f \in [0..n -> S]
    BY <1>5, <2>3
  <2>5. f[0] = start
    BY <1>5, <1>7, <2>2
  <2>6. \A i \in 1..n : f[i] = step[<<i, f[i - 1]>>]
    <3> TAKE i \in 1..n
    <3>1. i - 1 \in 0..(n - 1) /\ f[i - 1] = g[i - 1]
      BY <1>5, <1>7
    <3>2. CASE i = n
      <4>1. f[i] = step[<<n, g[n - 1]>>] /\ f[n - 1] = g[n - 1]
        BY <3>1, <3>2
      <4> HIDE DEF f
      <4> QED
        BY <3>2, <4>1
    <3>3. CASE i # n
      <4>1. i \in 1..(n - 1) /\ f[i] = g[i]
        BY <1>5, <3>3
      <4> QED
        BY <2>2, <3>1, <4>1
    <3> QED
      BY <3>2, <3>3
  <2> QED
    BY <1>5, <2>4, <2>5, <2>6
<1> QED
  BY <1>6, <1>7

(* Induction over the first numbers, with the set of those it holds for.   *)
LEMMA Induction ==
  ASSUME NEW N \in Nat, NEW Good, 0 \in Good, \A n \in 1..N : n - 1 \in Good => n \in Good
  PROVE  \A n \in 0..N : n \in Good
<1> DEFINE Bad == {n \in 0..N : n \notin Good}
<1>1. SUFFICES ASSUME Bad # {} PROVE FALSE
  OBVIOUS
<1>2. Bad \in SUBSET Nat
  OBVIOUS
<1>3. PICK n \in Bad : \A m \in Bad : n <= m
  BY <1>1, <1>2, Smallest
<1>4. n \in Nat /\ n \in 0..N /\ n \notin Good /\ n # 0
  BY <1>3
<1>5. n - 1 \in 0..N /\ n \in 1..N /\ ~(n <= n - 1)
  BY <1>4
<1>6. n - 1 \notin Bad
  <2> HIDE DEF Bad
  <2> QED
    BY <1>3, <1>5
<1> QED
  BY <1>4, <1>5, <1>6

-----------------------------------------------------------------------------
(* What the adapters make of the providers' answers: the series that was   *)
(* asked for, or an error that names what befell the request.              *)

(* The sessions of a history within an interval, and their prices.         *)
Within(history, start, end) ==
  [d \in DOMAIN history \cap (start..end) |-> history[d]]

IsHistory(history) ==
  IsFiniteSet(DOMAIN history) /\ \A d \in DOMAIN history : d \in Nat /\ history[d] \in Nat \ {0}

(* Rows that hide no session of the interval and show none there is not:   *)
(* they may have lost a close, or a date.                                  *)
Faithful(rows, history, start, end) ==
  /\ rows \in Seq([date : Int, close : Nat])
  /\ \A i \in DOMAIN rows : rows[i].date \in start..end =>
       rows[i].date \in DOMAIN history /\ rows[i].close \in {0, history[rows[i].date]}
  /\ \/ \E i \in DOMAIN rows : rows[i].date = Undated
     \/ \A d \in DOMAIN history \cap (start..end) : \E i \in DOMAIN rows : rows[i].date = d

(* The rows of all sessions of the interval.                               *)
Clean(rows) ==
  /\ \A i \in DOMAIN rows : rows[i].date # Undated /\ rows[i].close > 0
  /\ \A i, j \in DOMAIN rows : rows[i].date = rows[j].date => i = j

(* What an adapter may make of a history.                                  *)
Honest(r, history, start, end) ==
  /\ r.error \in {"none", "not_found", "invalid"}
  /\ r.error = "none" => /\ r.bars = Within(history, start, end)
                         /\ DOMAIN history \cap (start..end) # {}
  /\ r.error = "not_found" => DOMAIN history \cap (start..end) = {}

(* Whatever rows hide nothing are the history's, or refused.               *)
LEMMA NormalizeFacts ==
  ASSUME NEW history, IsHistory(history), NEW start \in Nat, NEW end \in Nat,
         NEW rows, Faithful(rows, history, start, end)
  PROVE  /\ Honest(Normalize(rows, start, end), history, start, end)
         /\ Clean(rows) => Normalize(rows, start, end).error # "invalid"
<1> DEFINE kept  == {i \in DOMAIN rows : rows[i].date \in start..end}
           found == {rows[i].date : i \in kept}
           Close(d) == rows[CHOOSE i \in kept : rows[i].date = d].close
           spoilt == \/ \E i \in DOMAIN rows : rows[i].date = Undated
                     \/ \E i, j \in kept : i # j /\ rows[i].date = rows[j].date
                     \/ \E i \in kept : rows[i].close <= 0
<1>0. \A i \in DOMAIN rows : rows[i] \in [date : Int, close : Nat]
  <2>1. rows \in Seq([date : Int, close : Nat]) /\ DOMAIN rows = 1..Len(rows)
    BY DEF Faithful
  <2> QED
    BY <2>1, ElementOfSeq
<1>1. Normalize(rows, start, end) =
        IF spoilt THEN Raise("invalid")
        ELSE IF found = {} THEN Raise("not_found") ELSE Bars([d \in found |-> Close(d)])
  BY DEF Normalize
<1>2. CASE spoilt
  <2>1. ~Clean(rows)
    <3>1. \A i \in DOMAIN rows : rows[i] \in [date : Int, close : Nat]
      BY <1>0
    <3> QED
      BY <1>2, <3>1 DEF Clean
  <2> QED
    BY <1>1, <1>2, <2>1 DEF Honest, Raise
<1>3. CASE ~spoilt
  <2>1. found = DOMAIN history \cap (start..end)
    BY <1>3 DEF Faithful
  <2>2. ASSUME NEW d \in found
        PROVE  Close(d) = history[d]
    <3>1. \E i \in kept : rows[i].date = d
      OBVIOUS
    <3> DEFINE i == CHOOSE i \in kept : rows[i].date = d
    <3>2. i \in kept /\ rows[i].date = d
      BY <3>1
    <3> HIDE DEF i
    <3>3. rows[i].close \in {0, history[d]} /\ rows[i].close \in Nat
      <4>1. rows[i] \in [date : Int, close : Nat]
        BY <1>0, <3>2
      <4>2. rows[i].close \in {0, history[rows[i].date]}
        BY <3>2 DEF Faithful
      <4> QED
        BY <3>2, <4>1, <4>2
    <3>4. ~(rows[i].close <= 0)
      BY <1>3, <3>2
    <3>5. rows[i].close = history[d]
      BY <3>3, <3>4
    <3> QED
      BY <3>5 DEF i
  <2>3. [d \in found |-> Close(d)] = Within(history, start, end)
    <3> HIDE DEF found, Close
    <3> QED
      BY <2>1, <2>2 DEF Within
  <2> HIDE DEF spoilt, found, Close, kept
  <2>4. CASE found = {}
    BY <1>1, <1>3, <2>1, <2>4 DEF Honest, Raise
  <2>5. CASE found # {}
    BY <1>1, <1>3, <2>1, <2>3, <2>5 DEF Honest, Bars
  <2> QED
    BY <2>4, <2>5
<1> QED
  BY <1>2, <1>3

(* A list shows each of its sessions once, with its price.                 *)
LEMMA ListFacts ==
  ASSUME NEW history, IsHistory(history), NEW sessions \in SUBSET (DOMAIN history),
         NEW rows \in Lists(history, sessions)
  PROVE  /\ rows \in Seq([date : Int, close : Nat]) /\ Len(rows) = Cardinality(sessions)
         /\ \A i \in DOMAIN rows : /\ rows[i].date \in sessions
                                   /\ rows[i].close = history[rows[i].date]
         /\ \A d \in sessions : \E i \in DOMAIN rows : rows[i].date = d
         /\ Clean(rows)
<1>1. IsFiniteSet(sessions) /\ Cardinality(sessions) \in Nat
  BY FS_Subset, FS_CardinalityType DEF IsHistory
<1> DEFINE n == Cardinality(sessions)
<1>2. PICK order \in [1..n -> sessions] :
        /\ \A i, j \in 1..n : i # j => order[i] # order[j]
        /\ rows = Listed(history, order)
  BY DEF Lists, SetToSeqs
<1> HIDE DEF n
<1>3. n \in Nat /\ n = Cardinality(sessions)
  BY <1>1 DEF n
<1>4. rows = [i \in 1..n |-> [date |-> order[i], close |-> history[order[i]]]]
  BY <1>2 DEF Listed
<1>5. \A i \in 1..n : /\ order[i] \in sessions /\ order[i] \in Nat
                      /\ history[order[i]] \in Nat \ {0}
  BY <1>2 DEF IsHistory
<1>6. rows \in Seq([date : Int, close : Nat]) /\ Len(rows) = n /\ DOMAIN rows = 1..n
  <2>1. \A i \in 1..n : [date |-> order[i], close |-> history[order[i]]] \in [date : Int, close : Nat]
    BY <1>5
  <2>2. rows \in [1..n -> [date : Int, close : Nat]]
    BY <1>4, <2>1
  <2>3. rows \in Seq([date : Int, close : Nat])
    <3> DEFINE Row == [date : Int, close : Nat]
    <3>1. rows \in [1..n -> Row]
      BY <2>2
    <3> HIDE DEF Row
    <3>2. rows \in Seq(Row)
      BY <1>3, <3>1, SeqDef
    <3> QED
      BY <3>2 DEF Row
  <2>4. Len(rows) \in Nat /\ DOMAIN rows = 1..Len(rows) /\ DOMAIN rows = 1..n
    BY <2>2, <2>3, LenProperties
  <2>5. Len(rows) = n
    BY <1>3, <2>4
  <2> QED
    BY <2>3, <2>4, <2>5
<1>7. \A d \in sessions : \E i \in 1..n : order[i] = d
  <2>1. order \in Injection(1..n, sessions)
    BY <1>2 DEF Injection, IsInjective
  <2>2. Cardinality(1..n) = n
    BY <1>3, FS_Interval
  <2>3. order \in Surjection(1..n, sessions)
    BY <1>1, <1>3, <2>1, <2>2, FS_Injection
  <2> QED
    BY <2>3 DEF Surjection
<1>8. Clean(rows)
  BY <1>2, <1>4, <1>5, <1>6 DEF Clean, Undated
<1> QED
  BY <1>3, <1>4, <1>5, <1>6, <1>7, <1>8

(* What a provider lists of a window is faithful and clean.                *)
LEMMA ListsAreFaithful ==
  ASSUME NEW history, IsHistory(history), NEW start \in Nat, NEW end \in Nat,
         NEW window \in SUBSET (DOMAIN history), DOMAIN history \cap (start..end) \subseteq window,
         NEW rows \in Lists(history, window)
  PROVE  Faithful(rows, history, start, end) /\ Clean(rows)
<1>1. /\ rows \in Seq([date : Int, close : Nat]) /\ Len(rows) = Cardinality(window)
      /\ \A i \in DOMAIN rows : /\ rows[i].date \in window
                                /\ rows[i].close = history[rows[i].date]
      /\ \A d \in window : \E i \in DOMAIN rows : rows[i].date = d
      /\ Clean(rows)
  BY ListFacts
<1> QED
  BY <1>1 DEF Faithful

(* So is one with a defect, but for the defect.                            *)
LEMMA DefectsAreFaithful ==
  ASSUME NEW history, NEW start \in Nat, NEW end \in Nat,
         NEW rows, Faithful(rows, history, start, end), NEW bad \in Defects(rows)
  PROVE  Faithful(bad, history, start, end)
<1> DEFINE Row == [date : Int, close : Nat]
<1>1. rows \in Seq(Row) /\ DOMAIN rows = 1..Len(rows) /\ Len(rows) \in Nat
  BY LenProperties DEF Faithful
<1>2. PICK i \in DOMAIN rows :
        \/ bad = [rows EXCEPT ![i] = [rows[i] EXCEPT !.date = Undated]]
        \/ bad = [rows EXCEPT ![i] = [rows[i] EXCEPT !.close = 0]]
        \/ bad = Append(rows, rows[i])
  BY DEF Defects, ReplaceAt
<1>3. rows[i] \in Row /\ \A j \in DOMAIN rows : rows[j] \in Row
  BY <1>1, <1>2, ElementOfSeq
<1>4. ASSUME NEW e \in Row, bad = [rows EXCEPT ![i] = e]
      PROVE  /\ bad \in Seq(Row) /\ DOMAIN bad = DOMAIN rows
             /\ bad[i] = e /\ \A j \in DOMAIN rows : j # i => bad[j] = rows[j]
  <2> HIDE DEF Row
  <2>1. bad \in Seq(Row)
    BY <1>1, <1>2, <1>4, ExceptSeq
  <2> QED
    BY <1>1, <1>2, <1>4, <2>1
<1>5. CASE bad = [rows EXCEPT ![i] = [rows[i] EXCEPT !.date = Undated]]
  <2> DEFINE e == [rows[i] EXCEPT !.date = Undated]
  <2>1. e \in Row /\ e.date = Undated /\ Undated \notin start..end
    BY <1>3 DEF Undated
  <2> HIDE DEF e
  <2>2. bad = [rows EXCEPT ![i] = e]
    BY <1>5 DEF e
  <2>3. /\ bad \in Seq(Row) /\ DOMAIN bad = DOMAIN rows
        /\ bad[i] = e /\ \A j \in DOMAIN rows : j # i => bad[j] = rows[j]
    BY <1>4, <2>1, <2>2
  <2> HIDE DEF Row
  <2>4. \A j \in DOMAIN bad : bad[j].date \in start..end =>
          bad[j].date \in DOMAIN history /\ bad[j].close \in {0, history[bad[j].date]}
    BY <2>1, <2>3 DEF Faithful
  <2> QED
    BY <1>2, <2>1, <2>3, <2>4 DEF Faithful, Row
<1>6. CASE bad = [rows EXCEPT ![i] = [rows[i] EXCEPT !.close = 0]]
  <2> DEFINE e == [rows[i] EXCEPT !.close = 0]
  <2>1. e \in Row /\ e.date = rows[i].date /\ e.close = 0
    BY <1>3
  <2> HIDE DEF e
  <2>2. bad = [rows EXCEPT ![i] = e]
    BY <1>6 DEF e
  <2>3. /\ bad \in Seq(Row) /\ DOMAIN bad = DOMAIN rows
        /\ bad[i] = e /\ \A j \in DOMAIN rows : j # i => bad[j] = rows[j]
    BY <1>4, <2>1, <2>2
  <2> HIDE DEF Row
  <2>4. \A j \in DOMAIN bad : bad[j].date = rows[j].date
    BY <2>1, <2>3
  <2>5. \A j \in DOMAIN bad : bad[j].date \in start..end =>
          bad[j].date \in DOMAIN history /\ bad[j].close \in {0, history[bad[j].date]}
    BY <1>2, <2>1, <2>3 DEF Faithful
  <2>6. \/ \E j \in DOMAIN bad : bad[j].date = Undated
        \/ \A d \in DOMAIN history \cap (start..end) : \E j \in DOMAIN bad : bad[j].date = d
    BY <2>3, <2>4 DEF Faithful
  <2> QED
    BY <2>3, <2>5, <2>6 DEF Faithful, Row
<1>7. CASE bad = Append(rows, rows[i])
  <2> HIDE DEF Row
  <2>1. /\ bad \in Seq(Row) /\ DOMAIN bad = 1..(Len(rows) + 1)
        /\ bad[Len(rows) + 1] = rows[i] /\ \A j \in 1..Len(rows) : bad[j] = rows[j]
    BY <1>1, <1>3, <1>7
  <2>2. ASSUME NEW j \in DOMAIN bad
        PROVE  \E k \in DOMAIN rows : bad[j] = rows[k]
    <3>1. j = Len(rows) + 1 \/ j \in 1..Len(rows)
      BY <1>1, <2>1
    <3>2. CASE j = Len(rows) + 1
      BY <1>2, <2>1, <3>2
    <3>3. CASE j \in 1..Len(rows)
      BY <1>1, <2>1, <3>3
    <3> QED
      BY <3>1, <3>2, <3>3
  <2>3. \A k \in DOMAIN rows : k \in DOMAIN bad /\ bad[k] = rows[k]
    BY <1>1, <2>1
  <2>4. \A j \in DOMAIN bad : bad[j].date \in start..end =>
          bad[j].date \in DOMAIN history /\ bad[j].close \in {0, history[bad[j].date]}
    BY <2>2 DEF Faithful
  <2>5. \/ \E j \in DOMAIN bad : bad[j].date = Undated
        \/ \A d \in DOMAIN history \cap (start..end) : \E j \in DOMAIN bad : bad[j].date = d
    BY <2>3 DEF Faithful
  <2> QED
    BY <2>1, <2>4, <2>5 DEF Faithful, Row
<1> QED
  BY <1>2, <1>5, <1>6, <1>7

(* Less than a full list is everything: what is cut off is older than as   *)
(* many sessions as the limit.                                             *)
LEMMA NewestFacts ==
  ASSUME NEW S \in SUBSET Nat, IsFiniteSet(S)
  PROVE  /\ Newest(S) \subseteq S
         /\ Cardinality(Newest(S)) < MaxPoints => Newest(S) = S
<1> DEFINE Above(d) == {e \in S : e > d}
           Cut == S \ Newest(S)
<1>1. \A d \in S : IsFiniteSet(Above(d)) /\ Cardinality(Above(d)) \in Nat
  BY FS_Subset, FS_CardinalityType
<1>2. SUFFICES ASSUME Cut # {} PROVE Cardinality(Newest(S)) >= MaxPoints
  <2>1. MaxPoints \in Nat /\ Newest(S) \subseteq S
    BY MaxPointsAssumption DEF Newest
  <2>2. Cardinality(Newest(S)) \in Nat
    BY <2>1, FS_Subset, FS_CardinalityType
  <2>3. CASE Cut # {}
    BY <1>2, <2>1, <2>2, <2>3
  <2>4. CASE Cut = {}
    BY <2>1, <2>4
  <2> QED
    BY <2>3, <2>4
<1>3. PICK d \in Cut : \A e \in Cut : Cardinality(Above(d)) <= Cardinality(Above(e))
  <2>1. {Cardinality(Above(e)) : e \in Cut} \in SUBSET Nat
    BY <1>1
  <2>2. {Cardinality(Above(e)) : e \in Cut} # {}
    BY <1>2
  <2>3. PICK x \in {Cardinality(Above(e)) : e \in Cut} :
          \A y \in {Cardinality(Above(e)) : e \in Cut} : x <= y
    BY <2>1, <2>2, Smallest
  <2> QED
    BY <2>3
<1>4. Above(d) \subseteq Newest(S)
  <2> SUFFICES ASSUME NEW e \in S, e > d, e \in Cut
               PROVE  FALSE
    OBVIOUS
  <2>0. d \in Nat /\ e \in Nat /\ S \subseteq Nat
    BY <1>3
  <2>1. Above(e) \subseteq Above(d) /\ e \in Above(d) /\ e \notin Above(e)
    <3>1. \A f \in S : f > e => f > d
      BY <2>0
    <3>2. ~(e > e)
      BY <2>0
    <3> HIDE DEF Cut
    <3> QED
      BY <3>1, <3>2
  <2>2. Cardinality(Above(e)) < Cardinality(Above(d))
    <3> HIDE DEF Above
    <3>1. Cardinality(Above(e)) <= Cardinality(Above(d)) /\ Cardinality(Above(e)) # Cardinality(Above(d))
      BY <1>1, <2>1, FS_Subset
    <3> QED
      BY <1>1, <3>1
  <2>3. Cardinality(Above(d)) <= Cardinality(Above(e))
    BY <1>3
  <2> QED
    BY <1>1, <2>2, <2>3
<1>5. Cardinality(Above(d)) >= MaxPoints
  BY <1>1, <1>3, MaxPointsAssumption DEF Newest
<1>6. IsFiniteSet(Newest(S)) /\ Newest(S) \subseteq S
  BY FS_Subset DEF Newest
<1>7. Cardinality(Above(d)) <= Cardinality(Newest(S)) /\ Cardinality(Newest(S)) \in Nat
  BY <1>4, <1>6, FS_Subset, FS_CardinalityType
<1> QED
  BY <1>1, <1>5, <1>7, MaxPointsAssumption

(* The errors of a request, each with what must have befallen the symbol.  *)
Errors == {"rate_limited", "not_found", "unavailable", "timeout", "invalid"}

Explained(r, c, history, start, end) ==
  /\ r.error \in Errors \cup {"none"}
  /\ r.error = "none" => /\ r.bars = Within(history, start, end)
                         /\ DOMAIN history \cap (start..end) # {}
  /\ r.error = "not_found" => c = "unknown" \/ DOMAIN history \cap (start..end) = {}
  /\ r.error = "invalid" => c = "broken" \/ Cardinality(DOMAIN history) >= MaxPoints
  /\ r.error = "rate_limited" => c = "limited"
  /\ r.error = "unavailable" => c = "down"
  /\ r.error = "timeout" => c = "slow"

(* The windows of an answer are the interval's sessions at least.          *)
LEMMA WindowFacts ==
  ASSUME NEW history, NEW start, NEW end, NEW window \in Windows(history, start, end)
  PROVE  window \in SUBSET (DOMAIN history) /\ DOMAIN history \cap (start..end) \subseteq window
BY DEF Windows

(* A spoilt list is no shorter than the list.                              *)
LEMMA DefectLength ==
  ASSUME NEW rows \in Seq([date : Int, close : Nat]), NEW bad \in Defects(rows)
  PROVE  Len(bad) \in Nat /\ Len(rows) \in Nat /\ Len(bad) >= Len(rows)
<1>1. PICK i \in DOMAIN rows :
        \/ bad = [rows EXCEPT ![i] = [rows[i] EXCEPT !.date = Undated]]
        \/ bad = [rows EXCEPT ![i] = [rows[i] EXCEPT !.close = 0]]
        \/ bad = Append(rows, rows[i])
  BY DEF Defects, ReplaceAt
<1> DEFINE Row == [date : Int, close : Nat]
<1>2. DOMAIN rows = 1..Len(rows) /\ Len(rows) \in Nat /\ rows[i] \in Row
  BY <1>1, LenProperties, ElementOfSeq
<1>3. /\ [rows[i] EXCEPT !.date = Undated] \in Row
      /\ [rows[i] EXCEPT !.close = 0] \in Row
  BY <1>2 DEF Undated
<1>4. \A e \in Row : Len([rows EXCEPT ![i] = e]) = Len(rows)
  BY <1>1, <1>2, ExceptSeq
<1>5. Len(Append(rows, rows[i])) = Len(rows) + 1
  BY <1>2, AppendProperties
<1> QED
  BY <1>1, <1>2, <1>3, <1>4, <1>5

(* The usable rows of a response, from both adapters.                      *)
LEMMA RowsFacts ==
  ASSUME NEW history, IsHistory(history), NEW start \in Nat, NEW end \in Nat, NEW c,
         NEW rows, Faithful(rows, history, start, end), Clean(rows) \/ c = "broken"
  PROVE  Explained(Normalize(rows, start, end), c, history, start, end)
<1>1. /\ Honest(Normalize(rows, start, end), history, start, end)
      /\ Clean(rows) => Normalize(rows, start, end).error # "invalid"
  BY NormalizeFacts
<1> QED
  BY <1>1 DEF Honest, Explained, Errors

(* Rows that hide nothing and are none.                                    *)
LEMMA NoRows ==
  ASSUME NEW history, NEW start, NEW end, Faithful(<< >>, history, start, end)
  PROVE  DOMAIN history \cap (start..end) = {}
BY DEF Faithful

(* The statuses and codes the conditions have.                             *)
LEMMA StatusFacts ==
  /\ StatusError(200) = "none" /\ StatusError(403) = "invalid" /\ StatusError(404) = "not_found"
  /\ StatusError(429) = "rate_limited" /\ StatusError(503) = "unavailable"
  /\ CodeError(400) = "not_found" /\ CodeError(404) = "not_found"
  /\ CodeError(429) = "rate_limited" /\ CodeError(500) = "unavailable"
  /\ CodeError(401) = "invalid"
<1>1. StatusError(200) = "none" /\ StatusError(403) = "invalid" /\ StatusError(404) = "not_found"
  BY DEF StatusError
<1>2. StatusError(429) = "rate_limited" /\ StatusError(503) = "unavailable"
  BY DEF StatusError
<1>3. /\ CodeError(400) = "not_found" /\ CodeError(404) = "not_found"
      /\ CodeError(429) = "rate_limited" /\ CodeError(500) = "unavailable"
      /\ CodeError(401) = "invalid"
  BY DEF CodeError
<1> QED
  BY <1>1, <1>2, <1>3

(* The fields of the answers.                                              *)
LEMMA RaisedFacts ==
  /\ \A shaped, rows : /\ Frame(shaped, rows).raised = "none"
                       /\ Frame(shaped, rows).shaped = shaped /\ Frame(shaped, rows).rows = rows
  /\ \A error, http : Raised(error, http).raised = error /\ Raised(error, http).http = http
BY DEF Frame, Raised

(* And of Twelve Data's.                                                   *)
LEMMA ResponseFacts ==
  /\ \A http, body, code, values :
       /\ Response(http, body, code, values).sent = "response"
       /\ Response(http, body, code, values).http = http
       /\ Response(http, body, code, values).body = body
       /\ Response(http, body, code, values).code = code
       /\ Response(http, body, code, values).values = values
  /\ \A http : Status(http) = Response(http, "other", 0, << >>)
  /\ \A code : ErrorBody(code) = Response(200, "error", code, << >>)
  /\ \A sent : NoResponse(sent).sent = sent
BY DEF Response, Status, ErrorBody, NoResponse

(* The answers of yfinance that are no frame of rows.                      *)
LEMMA YFinanceErrors ==
  ASSUME NEW history, NEW start, NEW end, NEW c \in Conditions \ {"healthy", "broken"},
         NEW a \in YFinanceAnswers(c, history, start, end)
  PROVE  \/ c = "unknown" /\ YFinance(a, start, end) = Raise("not_found")
         \/ c = "limited" /\ YFinance(a, start, end) = Raise("rate_limited")
         \/ c = "down" /\ YFinance(a, start, end) = Raise("unavailable")
         \/ c = "slow" /\ YFinance(a, start, end) = Raise("timeout")
<1>1. CASE c = "unknown"
  <2>1. \/ a.raised = "missing"
        \/ a.raised = "http" /\ a.http = 404
        \/ a.raised = "none" /\ a.rows = << >>
    <3>1. a = Raised("missing", 0) \/ a = Raised("http", 404) \/ a = Frame(TRUE, << >>)
      BY <1>1 DEF YFinanceAnswers
    <3> QED
      BY <3>1 DEF Frame, Raised
  <2>2. YFinance(a, start, end) = Raise("not_found")
    BY <2>1, StatusFacts DEF YFinance
  <2> QED
    BY <1>1, <2>2
<1>2. CASE c = "limited"
  <2>1. a.raised = "limited" \/ (a.raised = "http" /\ a.http = 429)
    BY <1>2, RaisedFacts DEF YFinanceAnswers
  <2>2. YFinance(a, start, end) = Raise("rate_limited")
    BY <2>1, StatusFacts DEF YFinance
  <2> QED
    BY <1>2, <2>2
<1>3. CASE c = "down"
  <2>1. a.raised = "request" \/ (a.raised = "http" /\ a.http = 503)
    BY <1>3, RaisedFacts DEF YFinanceAnswers
  <2>2. YFinance(a, start, end) = Raise("unavailable")
    BY <2>1, StatusFacts DEF YFinance
  <2> QED
    BY <1>3, <2>2
<1>4. CASE c = "slow"
  <2>1. a.raised = "timeout"
    BY <1>4, RaisedFacts DEF YFinanceAnswers
  <2>2. YFinance(a, start, end) = Raise("timeout")
    BY <2>1 DEF YFinance
  <2> QED
    BY <1>4, <2>2
<1> QED
  BY <1>1, <1>2, <1>3, <1>4 DEF Conditions

(* The answers of Twelve Data that are no list of values.                  *)
LEMMA TwelveDataErrors ==
  ASSUME NEW history, NEW start, NEW end, NEW c \in Conditions \ {"healthy", "broken"},
         NEW a \in TwelveDataAnswers(c, history, start, end)
  PROVE  \/ c = "unknown" /\ TwelveData(a, start, end) = Raise("not_found")
         \/ c = "limited" /\ TwelveData(a, start, end) = Raise("rate_limited")
         \/ c = "down" /\ TwelveData(a, start, end) = Raise("unavailable")
         \/ c = "slow" /\ TwelveData(a, start, end) = Raise("timeout")
<1>1. CASE c = "unknown"
  <2>1. /\ a.sent = "response"
        /\ a.http = 404 \/ (a.http = 200 /\ a.body = "error" /\ a.code \in {400, 404})
    BY <1>1, ResponseFacts DEF TwelveDataAnswers
  <2>2. TwelveData(a, start, end) = Raise("not_found")
    BY <2>1, StatusFacts DEF TwelveData
  <2> QED
    BY <1>1, <2>2
<1>2. CASE c = "limited"
  <2>1. /\ a.sent = "response"
        /\ a.http = 429 \/ (a.http = 200 /\ a.body = "error" /\ a.code = 429)
    BY <1>2, ResponseFacts DEF TwelveDataAnswers
  <2>2. TwelveData(a, start, end) = Raise("rate_limited")
    BY <2>1, StatusFacts DEF TwelveData
  <2> QED
    BY <1>2, <2>2
<1>3. CASE c = "down"
  <2>1. \/ a.sent = "network"
        \/ /\ a.sent = "response"
           /\ a.http = 503 \/ (a.http = 200 /\ a.body = "error" /\ a.code = 500)
    BY <1>3, ResponseFacts DEF TwelveDataAnswers
  <2>2. TwelveData(a, start, end) = Raise("unavailable")
    BY <2>1, StatusFacts DEF TwelveData
  <2> QED
    BY <1>3, <2>2
<1>4. CASE c = "slow"
  <2>1. a.sent = "timeout"
    BY <1>4, ResponseFacts DEF TwelveDataAnswers
  <2>2. TwelveData(a, start, end) = Raise("timeout")
    BY <2>1 DEF TwelveData
  <2> QED
    BY <1>4, <2>2
<1> QED
  BY <1>1, <1>2, <1>3, <1>4 DEF Conditions

(* Nothing comes out of the adapter of yfinance but the bars of the        *)
(* interval or an error with its cause.                                    *)
LEMMA YFinanceFacts ==
  ASSUME NEW history, IsHistory(history), NEW start \in Nat, NEW end \in Nat,
         NEW c \in Conditions, NEW a \in YFinanceAnswers(c, history, start, end)
  PROVE  Explained(YFinance(a, start, end), c, history, start, end)
<1> DEFINE lists == UNION {Lists(history, w) : w \in Windows(history, start, end)}
<1>1. \A l \in lists : Faithful(l, history, start, end) /\ Clean(l)
  BY WindowFacts, ListsAreFaithful
<1>2. ASSUME NEW rows, a = Frame(TRUE, rows), Faithful(rows, history, start, end),
             Clean(rows) \/ c = "broken"
      PROVE  Explained(YFinance(a, start, end), c, history, start, end)
  <2>1. a.raised = "none" /\ a.rows = rows /\ a.shaped = TRUE
    BY <1>2, RaisedFacts
  <2>2. CASE rows = << >>
    <3>1. DOMAIN history \cap (start..end) = {}
      BY <1>2, <2>2, NoRows
    <3>2. YFinance(a, start, end) = Raise("not_found")
      BY <2>1, <2>2 DEF YFinance
    <3> QED
      BY <3>1, <3>2 DEF Explained, Raise, Errors
  <2>3. CASE rows # << >>
    <3>1. YFinance(a, start, end) = Normalize(rows, start, end)
      BY <2>1, <2>3 DEF YFinance
    <3>2. Explained(Normalize(rows, start, end), c, history, start, end)
      BY <1>2, RowsFacts
    <3> QED
      BY <3>1, <3>2
  <2> QED
    BY <2>2, <2>3
<1> HIDE DEF lists
<1>3. CASE c = "healthy"
  <2>1. PICK l \in lists : a = Frame(TRUE, l)
    BY <1>3 DEF YFinanceAnswers, lists
  <2> QED
    BY <1>1, <1>2, <2>1
<1>4. CASE c = "broken"
  <2>1. \/ a.raised = "data"
        \/ a.raised = "http" /\ a.http = 403
        \/ \E l \in lists : l # << >> /\ a = Frame(FALSE, l)
        \/ \E l \in lists : \E bad \in Defects(l) : a = Frame(TRUE, bad)
    <3>1. \/ a = Raised("data", 0) \/ a = Raised("http", 403)
          \/ \E l \in lists : l # << >> /\ a = Frame(FALSE, l)
          \/ \E l \in lists : \E bad \in Defects(l) : a = Frame(TRUE, bad)
      BY <1>4 DEF YFinanceAnswers, lists
    <3>2. CASE a = Raised("data", 0) \/ a = Raised("http", 403)
      <4>1. a.raised = "data" \/ (a.raised = "http" /\ a.http = 403)
        BY <3>2 DEF Raised
      <4> QED
        BY <4>1
    <3> QED
      BY <3>1, <3>2
  <2>2. CASE a.raised = "data" \/ (a.raised = "http" /\ a.http = 403)
    <3>1. YFinance(a, start, end) = Raise("invalid")
      BY <2>2, StatusFacts DEF YFinance
    <3> QED
      BY <1>4, <3>1 DEF Explained, Raise, Errors
  <2>3. CASE \E l \in lists : l # << >> /\ a = Frame(FALSE, l)
    <3>0. a.raised = "none" /\ a.rows # << >> /\ ~a.shaped
      BY <2>3 DEF Frame
    <3>1. YFinance(a, start, end) = Raise("invalid")
      BY <3>0 DEF YFinance
    <3> QED
      BY <1>4, <3>1 DEF Explained, Raise, Errors
  <2>4. CASE \E l \in lists : \E bad \in Defects(l) : a = Frame(TRUE, bad)
    <3>0. PICK l \in lists : \E bad \in Defects(l) : a = Frame(TRUE, bad)
      BY <2>4
    <3>1. PICK bad \in Defects(l) : a = Frame(TRUE, bad)
      BY <3>0
    <3>2. Faithful(bad, history, start, end)
      BY <1>1, DefectsAreFaithful
    <3> QED
      BY <1>2, <1>4, <3>1, <3>2
  <2> QED
    BY <2>1, <2>2, <2>3, <2>4
<1>5. CASE c \notin {"healthy", "broken"}
  <2>1. \/ c = "unknown" /\ YFinance(a, start, end) = Raise("not_found")
        \/ c = "limited" /\ YFinance(a, start, end) = Raise("rate_limited")
        \/ c = "down" /\ YFinance(a, start, end) = Raise("unavailable")
        \/ c = "slow" /\ YFinance(a, start, end) = Raise("timeout")
    BY <1>5, YFinanceErrors
  <2> QED
    BY <2>1 DEF Explained, Raise, Errors
<1> QED
  BY <1>3, <1>4, <1>5

(* Nor out of the adapter of Twelve Data.                                  *)
LEMMA TwelveDataFacts ==
  ASSUME NEW history, IsHistory(history), NEW start \in Nat, NEW end \in Nat,
         NEW c \in Conditions, NEW a \in TwelveDataAnswers(c, history, start, end)
  PROVE  Explained(TwelveData(a, start, end), c, history, start, end)
<1> DEFINE lists == UNION {Lists(history, Newest(w)) : w \in Windows(history, start, end)}
<1>1. ASSUME NEW l \in lists
      PROVE  /\ l \in Seq([date : Int, close : Nat]) /\ Len(l) \in Nat
             /\ Len(l) < MaxPoints => Faithful(l, history, start, end) /\ Clean(l)
             /\ Len(l) <= Cardinality(DOMAIN history) /\ Cardinality(DOMAIN history) \in Nat
  <2>1. PICK w \in Windows(history, start, end) : l \in Lists(history, Newest(w))
    BY <1>1
  <2>2. w \in SUBSET (DOMAIN history) /\ DOMAIN history \cap (start..end) \subseteq w
    BY WindowFacts
  <2>3. w \in SUBSET Nat /\ IsFiniteSet(w) /\ IsFiniteSet(DOMAIN history)
    BY <2>2, FS_Subset DEF IsHistory
  <2>4. /\ Newest(w) \subseteq w
        /\ Cardinality(Newest(w)) < MaxPoints => Newest(w) = w
    BY <2>3, NewestFacts
  <2>5. Newest(w) \in SUBSET (DOMAIN history)
    BY <2>2, <2>4
  <2>6. l \in Seq([date : Int, close : Nat]) /\ Len(l) = Cardinality(Newest(w))
    BY <2>1, <2>5, ListFacts
  <2>7. Len(l) < MaxPoints => Faithful(l, history, start, end) /\ Clean(l)
    BY <2>1, <2>2, <2>4, <2>6, ListsAreFaithful
  <2>8. Len(l) <= Cardinality(DOMAIN history) /\ Cardinality(DOMAIN history) \in Nat
    BY <2>3, <2>5, <2>6, FS_Subset, FS_CardinalityType
  <2> QED
    BY <2>6, <2>7, <2>8, LenProperties
<1> HIDE DEF lists
<1>2. ASSUME NEW rows, a = Response(200, "ok", 0, rows), Len(rows) \in Nat,
             Len(rows) < MaxPoints => Faithful(rows, history, start, end),
             \/ c = "broken"
             \/ /\ Len(rows) < MaxPoints => Clean(rows)
                /\ Len(rows) <= Cardinality(DOMAIN history) /\ Cardinality(DOMAIN history) \in Nat
      PROVE  Explained(TwelveData(a, start, end), c, history, start, end)
  <2>1. a.sent = "response" /\ a.http = 200 /\ a.body = "ok" /\ a.values = rows
    BY <1>2, ResponseFacts
  <2>2. TwelveData(a, start, end) = IF Len(rows) >= MaxPoints THEN Raise("invalid")
                                    ELSE Normalize(rows, start, end)
    BY <2>1 DEF TwelveData, StatusError
  <2>3. CASE Len(rows) >= MaxPoints
    <3>1. c = "broken" \/ Cardinality(DOMAIN history) >= MaxPoints
      BY <1>2, <2>3, MaxPointsAssumption
    <3> QED
      BY <2>2, <2>3, <3>1 DEF Explained, Raise, Errors
  <2>4. CASE ~(Len(rows) >= MaxPoints)
    <3>1. Len(rows) < MaxPoints
      BY <1>2, <2>4, MaxPointsAssumption
    <3>2. Explained(Normalize(rows, start, end), c, history, start, end)
      BY <1>2, <3>1, RowsFacts
    <3> QED
      BY <2>2, <2>4, <3>2
  <2> QED
    BY <2>3, <2>4
<1>3. CASE c = "healthy"
  <2>1. PICK l \in lists : a = Response(200, "ok", 0, l)
    BY <1>3 DEF TwelveDataAnswers, lists
  <2> QED
    BY <1>1, <1>2, <2>1
<1>4. CASE c = "broken"
  <2>1. \/ /\ a.sent = "response"
           /\ \/ a.http = 200 /\ a.body = "other"
              \/ a.http = 403
              \/ a.http = 200 /\ a.body = "error" /\ a.code = 401
        \/ \E l \in lists : \E bad \in Defects(l) : a = Response(200, "ok", 0, bad)
    BY <1>4, ResponseFacts DEF TwelveDataAnswers, lists
  <2>2. CASE /\ a.sent = "response"
             /\ \/ a.http = 200 /\ a.body = "other"
                \/ a.http = 403
                \/ a.http = 200 /\ a.body = "error" /\ a.code = 401
    <3>1. TwelveData(a, start, end) = Raise("invalid")
      BY <2>2, StatusFacts DEF TwelveData
    <3> QED
      BY <1>4, <3>1 DEF Explained, Raise, Errors
  <2>3. CASE \E l \in lists : \E bad \in Defects(l) : a = Response(200, "ok", 0, bad)
    <3>0. PICK l \in lists : \E bad \in Defects(l) : a = Response(200, "ok", 0, bad)
      BY <2>3
    <3>1. PICK bad \in Defects(l) : a = Response(200, "ok", 0, bad)
      BY <3>0
    <3>2. Len(bad) \in Nat /\ Len(l) \in Nat /\ Len(bad) >= Len(l)
      BY <1>1, DefectLength
    <3>3. Len(bad) < MaxPoints => Faithful(bad, history, start, end)
      <4>1. Len(bad) < MaxPoints => Len(l) < MaxPoints
        BY <3>2, MaxPointsAssumption
      <4> QED
        BY <1>1, <4>1, DefectsAreFaithful
    <3> QED
      BY <1>2, <1>4, <3>1, <3>2, <3>3
  <2> QED
    BY <2>1, <2>2, <2>3
<1>5. CASE c \notin {"healthy", "broken"}
  <2>1. \/ c = "unknown" /\ TwelveData(a, start, end) = Raise("not_found")
        \/ c = "limited" /\ TwelveData(a, start, end) = Raise("rate_limited")
        \/ c = "down" /\ TwelveData(a, start, end) = Raise("unavailable")
        \/ c = "slow" /\ TwelveData(a, start, end) = Raise("timeout")
    BY <1>5, TwelveDataErrors
  <2> QED
    BY <2>1 DEF Explained, Raise, Errors
<1> QED
  BY <1>3, <1>4, <1>5

(* What get_price_bars returns or raises for a symbol: no bars but all of  *)
(* the interval's, and no error without its cause.                         *)
LEMMA AnswerFacts ==
  ASSUME NEW history, IsHistory(history), NEW adapter \in Adapters,
         NEW r \in Answers(adapter, history)
  PROVE  /\ Explained(r, r.at, history, Start, End) /\ r.at \in Conditions
         /\ r.stale \in BOOLEAN
         /\ r.error = "none" => (r.stale <=> r.at \in Transient)
<1> DEFINE live == UNION {{[at |-> IF f.error = "none" THEN "healthy" ELSE c, stale |-> FALSE,
                       error |-> f.error, bars |-> f.bars] :
                        f \in Fetched(adapter, c, history, Start, End)} : c \in Conditions}
<1>1. ASSUME NEW x \in live
      PROVE  /\ Explained(x, x.at, history, Start, End) /\ x.at \in Conditions
             /\ x.stale = FALSE
             /\ x.error = "none" => x.at = "healthy"
  <2>0. PICK c \in Conditions : \E f \in Fetched(adapter, c, history, Start, End) :
          x = [at |-> IF f.error = "none" THEN "healthy" ELSE c, stale |-> FALSE,
               error |-> f.error, bars |-> f.bars]
    BY <1>1
  <2>1. PICK f \in Fetched(adapter, c, history, Start, End) :
          x = [at |-> IF f.error = "none" THEN "healthy" ELSE c, stale |-> FALSE,
               error |-> f.error, bars |-> f.bars]
    BY <2>0
  <2>2. Explained(f, c, history, Start, End)
    <3>1. Start \in Nat /\ End \in Nat
      BY IntervalAssumption
    <3> QED
      BY <2>1, <3>1, YFinanceFacts, TwelveDataFacts DEF Fetched
  <2>3. x.error = f.error /\ x.bars = f.bars /\ x.stale = FALSE
        /\ x.at = IF f.error = "none" THEN "healthy" ELSE c
    BY <2>1
  <2>4. Explained(x, x.at, history, Start, End)
    BY <2>2, <2>3 DEF Explained
  <2> QED
    BY <2>1, <2>3, <2>4 DEF Conditions
<1> HIDE DEF live
<1>2. \/ r \in live
      \/ \E c \in Transient : \E x \in live : x.error = "none" /\
           r = [at |-> c, stale |-> TRUE, error |-> "none", bars |-> x.bars]
  BY DEF Answers, live
<1>3. CASE r \in live
  <2>1. /\ Explained(r, r.at, history, Start, End) /\ r.at \in Conditions
        /\ r.stale = FALSE
        /\ r.error = "none" => r.at = "healthy"
    BY <1>1, <1>3
  <2> QED
    BY <2>1 DEF Transient
<1>4. CASE \E c \in Transient : \E x \in live : x.error = "none" /\
             r = [at |-> c, stale |-> TRUE, error |-> "none", bars |-> x.bars]
  <2>1. PICK c \in Transient, x \in live : x.error = "none" /\
             r = [at |-> c, stale |-> TRUE, error |-> "none", bars |-> x.bars]
    BY <1>4
  <2>2. Explained(x, x.at, history, Start, End)
    BY <1>1
  <2>3. r.at = c /\ r.stale = TRUE /\ r.error = "none" /\ r.bars = x.bars
    BY <2>1
  <2>4. Explained(r, r.at, history, Start, End)
    BY <2>1, <2>2, <2>3 DEF Explained
  <2> QED
    BY <2>3, <2>4 DEF Transient, Conditions
<1> QED
  BY <1>2, <1>3, <1>4

-----------------------------------------------------------------------------
(* The replay of a ledger, one row at a time.                              *)

(* What is known of a row, and the order of the rows.                      *)
LEMMA LedgerFacts ==
  ASSUME NEW ledger \in Ledgers
  PROVE  /\ IsFiniteSet(ledger)
         /\ \A t \in ledger :
              /\ t.kind \in {"BUY", "SELL", "DEPOSIT", "WITHDRAWAL"}
              /\ t.sym \in Symbols <=> t.kind \in {"BUY", "SELL"}
              /\ t.qty \in Nat /\ t.price \in Nat /\ t.cash \in Nat /\ t.fees \in Nat
              /\ t.at \in Nat /\ t.created \in Nat /\ t.id \in Nat
              /\ SignedQuantity(t) \in Int
<1>1. \A t \in ledger :
        /\ t.kind \in {"BUY", "SELL", "DEPOSIT", "WITHDRAWAL"}
        /\ t.sym \in Symbols <=> t.kind \in {"BUY", "SELL"}
        /\ {t.id, t.at, t.created, t.qty, t.price, t.cash, t.fees} \subseteq Nat
  BY LedgersAssumption
<1>2. \A t \in ledger : SignedQuantity(t) \in Int
  BY <1>1 DEF SignedQuantity
<1> QED
  BY <1>1, <1>2, LedgersAssumption

(* occurred_at, created_at and id order the rows of a ledger totally.      *)
LEMMA OrderFacts ==
  ASSUME NEW ledger \in Ledgers
  PROVE  /\ \A t \in ledger : ~LedgerOrder(t, t)
         /\ \A t, u \in ledger : t = u \/ LedgerOrder(t, u) \/ LedgerOrder(u, t)
         /\ \A t, u \in ledger : LedgerOrder(t, u) => ~LedgerOrder(u, t) /\ t.at <= u.at
         /\ \A t, u, v \in ledger : LedgerOrder(t, u) /\ LedgerOrder(u, v) => LedgerOrder(t, v)
<1>1. \A t \in ledger : t.at \in Nat /\ t.created \in Nat /\ t.id \in Nat
  BY LedgerFacts
<1>2. \A t, u \in ledger : t.id = u.id => t = u
  BY LedgersAssumption
<1>3. \A t \in ledger : ~LedgerOrder(t, t)
  BY <1>1 DEF LedgerOrder
<1>4. \A t, u \in ledger : t = u \/ LedgerOrder(t, u) \/ LedgerOrder(u, t)
  <2> TAKE t, u \in ledger
  <2>1. /\ t.at \in Nat /\ t.created \in Nat /\ t.id \in Nat
        /\ u.at \in Nat /\ u.created \in Nat /\ u.id \in Nat
    BY <1>1
  <2>2. t.id = u.id => t = u
    BY <1>2
  <2> QED
    BY <2>1, <2>2 DEF LedgerOrder
<1>5. \A t, u \in ledger : LedgerOrder(t, u) => ~LedgerOrder(u, t) /\ t.at <= u.at
  <2> TAKE t, u \in ledger
  <2>1. /\ t.at \in Nat /\ t.created \in Nat /\ t.id \in Nat
        /\ u.at \in Nat /\ u.created \in Nat /\ u.id \in Nat
    BY <1>1
  <2> QED
    BY <2>1 DEF LedgerOrder
<1>6. \A t, u, v \in ledger : LedgerOrder(t, u) /\ LedgerOrder(u, v) => LedgerOrder(t, v)
  <2> TAKE t, u, v \in ledger
  <2>1. /\ t.at \in Nat /\ t.created \in Nat /\ t.id \in Nat
        /\ u.at \in Nat /\ u.created \in Nat /\ u.id \in Nat
        /\ v.at \in Nat /\ v.created \in Nat /\ v.id \in Nat
    BY <1>1
  <2> QED
    BY <2>1 DEF LedgerOrder
<1> QED
  BY <1>3, <1>4, <1>5, <1>6

(* Nothing is held of nothing, and a row adds what it trades.              *)
LEMMA QuantityFacts ==
  ASSUME NEW ledger \in Ledgers, NEW rows \in SUBSET ledger, NEW s
  PROVE  /\ Quantity(rows, s) \in Int
         /\ rows = {} => Quantity(rows, s) = 0
         /\ \A t \in ledger \ rows :
              Quantity(rows \cup {t}, s) =
                Quantity(rows, s) + (IF t.sym = s THEN SignedQuantity(t) ELSE 0)
<1> DEFINE signed == [t \in ledger |-> SignedQuantity(t)]
           Of(S) == {u \in S : u.sym = s}
<1>1. IsFiniteSet(ledger) /\ \A t \in ledger : signed[t] \in Int
  BY LedgerFacts
<1>2. \A S \in SUBSET ledger : Quantity(S, s) = Part(signed, Of(S)) /\ Of(S) \in SUBSET ledger
  <2> TAKE S \in SUBSET ledger
  <2>1. [t \in Of(S) |-> SignedQuantity(t)] = [t \in Of(S) |-> signed[t]]
    OBVIOUS
  <2> QED
    BY <2>1 DEF Quantity, Part
<1> HIDE DEF signed
<1>3. PartsSplit(signed, ledger)
  BY <1>1, SumFacts
<1>4. Quantity(rows, s) \in Int /\ (rows = {} => Quantity(rows, s) = 0)
  <2>1. Part(signed, Of(rows)) \in Int /\ (Of(rows) = {} => Part(signed, Of(rows)) = 0)
    BY <1>2, <1>3 DEF PartsSplit
  <2> QED
    BY <1>2, <2>1
<1>5. ASSUME NEW t \in ledger \ rows
      PROVE  Quantity(rows \cup {t}, s) =
               Quantity(rows, s) + (IF t.sym = s THEN SignedQuantity(t) ELSE 0)
  <2>0. rows \cup {t} \in SUBSET ledger
    OBVIOUS
  <2>1. CASE t.sym = s
    <3>1. Of(rows \cup {t}) = Of(rows) \cup {t} /\ t \in ledger \ Of(rows)
      BY <2>1
    <3>2. Part(signed, Of(rows) \cup {t}) = Part(signed, Of(rows)) + signed[t]
      <4> DEFINE R == Of(rows)
      <4>1. R \in SUBSET ledger /\ t \in ledger \ R
        BY <3>1
      <4> HIDE DEF R
      <4>2. Part(signed, R \cup {t}) = Part(signed, R) + signed[t]
        BY <1>1, <4>1, SumAdd
      <4> QED
        BY <4>2 DEF R
    <3>3. signed[t] = SignedQuantity(t)
      BY DEF signed
    <3> QED
      BY <1>2, <2>0, <2>1, <3>1, <3>2, <3>3
  <2>2. CASE t.sym # s
    <3>1. Of(rows \cup {t}) = Of(rows)
      BY <2>2
    <3>2. Quantity(rows \cup {t}, s) = Part(signed, Of(rows \cup {t}))
      BY <1>2, <2>0
    <3>3. Quantity(rows, s) = Part(signed, Of(rows))
      BY <1>2
    <3>4. Quantity(rows \cup {t}, s) = Quantity(rows, s)
      BY <3>1, <3>2, <3>3
    <3> QED
      BY <1>4, <2>2, <3>4
  <2> QED
    BY <2>1, <2>2
<1> QED
  BY <1>4, <1>5

(* A SELL of an accepted ledger finds what it sells.                       *)
LEMMA SellsAreCovered ==
  ASSUME NEW ledger \in Ledgers, NEW t \in ledger, t.kind = "SELL"
  PROVE  Quantity({u \in ledger : LedgerOrder(u, t)}, t.sym) >= t.qty
<1> DEFINE before == {u \in ledger : LedgerOrder(u, t)}
<1>1. UpTo(ledger, t) = before \cup {t} /\ t \in ledger \ before
  BY OrderFacts DEF UpTo
<1>2. Quantity(UpTo(ledger, t), t.sym) >= 0
  BY LedgersAssumption DEF Replays
<1>3. before \in SUBSET ledger
  OBVIOUS
<1> HIDE DEF before
<1>4. /\ Quantity(before, t.sym) \in Int
      /\ Quantity(before \cup {t}, t.sym) = Quantity(before, t.sym) + SignedQuantity(t)
  BY <1>1, <1>3, QuantityFacts
<1>5. SignedQuantity(t) = -t.qty /\ t.qty \in Nat
  BY LedgerFacts DEF SignedQuantity
<1>6. Quantity(before, t.sym) >= t.qty
  BY <1>1, <1>2, <1>4, <1>5
<1> QED
  BY <1>6 DEF before

(* What is held is what was held before the interval and traded in it.     *)
LEMMA HeldIsRequired ==
  ASSUME txs \in Ledgers, NEW rows, NEW s \in Symbols,
         rows \subseteq {t \in txs : t.at <= End}, {t \in txs : t.at < Start} \subseteq rows,
         Quantity(rows, s) # 0
  PROVE  s \in Required
<1> SUFFICES ASSUME s \notin Required PROVE FALSE
  OBVIOUS
<1>1. Quantity({t \in txs : t.at < Start}, s) = 0
  BY DEF Required
<1>2. \A t \in rows : t.sym = s => t.at < Start
  <2>1. \A t \in txs : t.at \in Nat
    BY LedgerFacts
  <2>2. \A t \in txs : t.sym = s => t.at \notin Start..End
    BY DEF Required
  <2> QED
    BY <2>1, <2>2, IntervalAssumption
<1>3. {u \in rows : u.sym = s} = {u \in {t \in txs : t.at < Start} : u.sym = s}
  BY <1>2
<1>4. Quantity(rows, s) = Quantity({t \in txs : t.at < Start}, s)
  BY <1>3 DEF Quantity
<1> QED
  BY <1>1, <1>4

-----------------------------------------------------------------------------
(* The loop of derive_positions: sorted rows, one pass each.               *)

(* The place of a row of a part of a ledger, and the first rows.           *)
Place(rows, t) == Cardinality(UpTo(rows, t))
Until(rows, n) == {t \in rows : Place(rows, t) <= n}

(* Later rows have higher places.                                          *)
LEMMA PlaceFacts ==
  ASSUME NEW ledger \in Ledgers, NEW rows \in SUBSET ledger
  PROVE  /\ IsFiniteSet(rows) /\ Cardinality(rows) \in Nat
         /\ \A t \in rows : Place(rows, t) \in 1..Cardinality(rows)
         /\ \A t, u \in rows : LedgerOrder(t, u) => Place(rows, t) < Place(rows, u)
<1>1. IsFiniteSet(rows) /\ Cardinality(rows) \in Nat
  BY LedgerFacts, FS_Subset, FS_CardinalityType
<1>2. \A t \in rows : /\ UpTo(rows, t) \in SUBSET rows /\ t \in UpTo(rows, t)
                      /\ IsFiniteSet(UpTo(rows, t)) /\ Place(rows, t) \in Nat
  <2> TAKE t \in rows
  <2>1. UpTo(rows, t) \in SUBSET rows /\ t \in UpTo(rows, t)
    BY DEF UpTo
  <2> QED
    BY <1>1, <2>1, FS_Subset, FS_CardinalityType DEF Place
<1>3. \A t \in rows : Place(rows, t) \in 1..Cardinality(rows)
  <2> TAKE t \in rows
  <2>1. Place(rows, t) <= Cardinality(rows)
    BY <1>1, <1>2, FS_Subset DEF Place
  <2>2. Place(rows, t) # 0
    BY <1>2, FS_EmptySet DEF Place
  <2> QED
    BY <1>1, <1>2, <2>1, <2>2
<1>4. ASSUME NEW t \in rows, NEW u \in rows, LedgerOrder(t, u)
      PROVE  Place(rows, t) < Place(rows, u)
  <2>1. UpTo(rows, t) \in SUBSET UpTo(rows, u)
    BY <1>4, OrderFacts DEF UpTo
  <2>2. u \notin UpTo(rows, t)
    BY <1>4, OrderFacts DEF UpTo
  <2>3. UpTo(rows, t) # UpTo(rows, u)
    BY <1>2, <2>2
  <2>4. Place(rows, t) <= Place(rows, u) /\ Place(rows, t) # Place(rows, u)
    BY <1>2, <2>1, <2>3, FS_Subset DEF Place
  <2> QED
    BY <1>2, <2>4
<1> QED
  BY <1>1, <1>3, <1>4

(* Every place is that of one row, which sorted() puts there.              *)
LEMMA NthFacts ==
  ASSUME NEW ledger \in Ledgers, NEW rows \in SUBSET ledger, NEW n \in 1..Cardinality(rows)
  PROVE  /\ Nth(rows, n) \in rows /\ Place(rows, Nth(rows, n)) = n
         /\ \A t \in rows : Place(rows, t) = n => t = Nth(rows, n)
<1> DEFINE N == Cardinality(rows)
           place == [t \in rows |-> Place(rows, t)]
<1>1. /\ IsFiniteSet(rows) /\ N \in Nat /\ \A t \in rows : Place(rows, t) \in 1..N
      /\ \A t, u \in rows : LedgerOrder(t, u) => Place(rows, t) < Place(rows, u)
  BY PlaceFacts
<1>2. \A t, u \in rows : Place(rows, t) = Place(rows, u) => t = u
  <2>1. \A t, u \in rows : t = u \/ LedgerOrder(t, u) \/ LedgerOrder(u, t)
    BY OrderFacts
  <2> QED
    BY <1>1, <2>1
<1>3. place \in Injection(rows, 1..N)
  BY <1>1, <1>2 DEF Injection, IsInjective
<1>4. IsFiniteSet(1..N) /\ Cardinality(1..N) = N
  BY <1>1, FS_Interval
<1>5. place \in Surjection(rows, 1..N)
  BY <1>1, <1>3, <1>4, FS_Injection
<1>6. \E t \in rows : Place(rows, t) = n
  BY <1>5 DEF Surjection
<1> QED
  BY <1>2, <1>6 DEF Nth, Place

(* The rows up to a place are those up to the row there.                   *)
LEMMA UntilFacts ==
  ASSUME NEW ledger \in Ledgers, NEW rows \in SUBSET ledger
  PROVE  /\ Until(rows, 0) = {} /\ Until(rows, Cardinality(rows)) = rows
         /\ \A n \in 1..Cardinality(rows) :
              /\ Until(rows, n - 1) \in SUBSET ledger
              /\ Nth(rows, n) \in ledger \ Until(rows, n - 1)
              /\ Until(rows, n) = Until(rows, n - 1) \cup {Nth(rows, n)}
              /\ Until(rows, n) = UpTo(rows, Nth(rows, n))
<1>1. /\ Cardinality(rows) \in Nat /\ \A t \in rows : Place(rows, t) \in 1..Cardinality(rows)
      /\ \A t, u \in rows : LedgerOrder(t, u) => Place(rows, t) < Place(rows, u)
  BY PlaceFacts
<1>2. Until(rows, 0) = {} /\ Until(rows, Cardinality(rows)) = rows
  BY <1>1 DEF Until
<1>3. ASSUME NEW n \in 1..Cardinality(rows)
      PROVE  /\ Until(rows, n - 1) \in SUBSET ledger
             /\ Nth(rows, n) \in ledger \ Until(rows, n - 1)
             /\ Until(rows, n) = Until(rows, n - 1) \cup {Nth(rows, n)}
             /\ Until(rows, n) = UpTo(rows, Nth(rows, n))
  <2> DEFINE t == Nth(rows, n)
  <2>1. t \in rows /\ Place(rows, t) = n /\ \A u \in rows : Place(rows, u) = n => u = t
    BY NthFacts
  <2> HIDE DEF t
  <2>2. Until(rows, n) = Until(rows, n - 1) \cup {t} /\ t \notin Until(rows, n - 1)
    BY <1>1, <2>1 DEF Until
  <2>3. \A u \in rows : Place(rows, u) <= n <=> u = t \/ LedgerOrder(u, t)
    <3> TAKE u \in rows
    <3>1. u = t \/ LedgerOrder(t, u) \/ LedgerOrder(u, t)
      BY <2>1, OrderFacts
    <3> QED
      BY <1>1, <2>1, <3>1
  <2>4. Until(rows, n) = UpTo(rows, t)
    BY <2>3 DEF Until, UpTo
  <2> QED
    BY <2>1, <2>2, <2>4 DEF t, Until
<1> QED
  BY <1>2, <1>3

(* The locals of the loop, over some symbols.                              *)
LoopState(names) ==
  [quantities : UNION {[D -> Int] : D \in SUBSET names}, raised : BOOLEAN]

(* One pass of its body.                                                   *)
Trades(t) == t.kind \in {"BUY", "SELL"}

(* What it does to the dict and whether it raises.                         *)
LEMMA StepFacts ==
  ASSUME NEW names, NEW l \in LoopState(names), NEW t, t.sym \in names,
         SignedQuantity(t) \in Int
  PROVE  LET updated == Current(l, t.sym) + SignedQuantity(t)
             next == Step(l, t)
         IN  /\ next \in LoopState(names) /\ Current(l, t.sym) \in Int
             /\ l.raised \/ ~Trades(t) => next = l
             /\ ~l.raised /\ Trades(t) =>
                  /\ next.raised <=> t.kind = "SELL" /\ updated < 0
                  /\ ~next.raised =>
                       next.quantities = [s \in DOMAIN l.quantities \cup {t.sym} |->
                                            IF s = t.sym THEN updated ELSE l.quantities[s]]
<1> DEFINE updated == Current(l, t.sym) + SignedQuantity(t)
           next == Step(l, t)
           q == [s \in DOMAIN l.quantities \cup {t.sym} |->
                   IF s = t.sym THEN updated ELSE l.quantities[s]]
<1>1. PICK D \in SUBSET names : l.quantities \in [D -> Int]
  BY DEF LoopState
<1>2. l = [quantities |-> l.quantities, raised |-> l.raised] /\ l.raised \in BOOLEAN
  BY DEF LoopState
<1>3. Current(l, t.sym) \in Int /\ updated \in Int
  BY <1>1 DEF Current
<1> HIDE DEF updated
<1>4. q \in [D \cup {t.sym} -> Int] /\ D \cup {t.sym} \in SUBSET names
  BY <1>1, <1>3
<1>5. [l EXCEPT !.quantities = q] = [quantities |-> q, raised |-> l.raised]
  BY <1>2
<1>6. [l EXCEPT !.raised = TRUE] = [quantities |-> l.quantities, raised |-> TRUE]
  <2> DEFINE a == l.quantities
             b == l.raised
             m == [l EXCEPT !.raised = TRUE]
             k == [quantities |-> a, raised |-> TRUE]
  <2>1. l = [quantities |-> a, raised |-> b]
    BY <1>2
  <2> HIDE DEF a, b
  <2>2. m = k
    <3>1. ASSUME NEW c PROVE [l EXCEPT !.raised = c] = [quantities |-> a, raised |-> c]
      BY <2>1
    <3> QED
      BY <3>1, Zenon
  <2> QED
    BY <2>2 DEF a
<1>7. Assign(l, t.sym, updated) = [l EXCEPT !.quantities = q]
  BY <1>2 DEF Assign
<1> HIDE DEF q
<1>8. CASE l.raised \/ ~Trades(t)
  <2>1. next = l
    BY <1>8 DEF Step, Trades
  <2> QED
    BY <1>3, <1>8, <2>1 DEF updated
<1>9. CASE ~l.raised /\ t.kind = "SELL" /\ updated < 0
  <2>1. next = [quantities |-> l.quantities, raised |-> TRUE]
    BY <1>6, <1>9 DEF Step, updated
  <2> HIDE DEF next
  <2>2. next \in LoopState(names) /\ next.raised
    BY <1>1, <2>1 DEF LoopState
  <2> QED
    BY <1>3, <1>9, <2>2 DEF Trades, updated, next
<1>10. CASE ~l.raised /\ Trades(t) /\ ~(t.kind = "SELL" /\ updated < 0)
  <2>1. next = [quantities |-> q, raised |-> FALSE]
    <3>1. CASE t.kind = "BUY"
      BY <1>2, <1>5, <1>7, <1>10, <3>1 DEF Step, Trades, updated
    <3>2. CASE t.kind = "SELL"
      BY <1>2, <1>5, <1>7, <1>10, <3>2 DEF Step, Trades, updated
    <3> QED
      BY <1>10, <3>1, <3>2 DEF Trades
  <2> HIDE DEF next
  <2>2. next \in LoopState(names) /\ ~next.raised /\ next.quantities = q
    BY <1>4, <2>1 DEF LoopState
  <2> QED
    BY <1>3, <1>10, <2>2 DEF q, Trades, updated, next
<1> QED
  BY <1>8, <1>9, <1>10 DEF Trades

(* The locals after each row.                                              *)
LEMMA LoopRuns ==
  ASSUME NEW ledger \in Ledgers, NEW rows \in SUBSET ledger
  PROVE  \E after \in [0..Cardinality(rows) -> LoopState({t.sym : t \in rows})] :
           /\ Loop(rows) = after[Cardinality(rows)]
           /\ after[0] = Empty
           /\ \A n \in 1..Cardinality(rows) : after[n] = Step(after[n - 1], Nth(rows, n))
<1> DEFINE N == Cardinality(rows)
           names == {t.sym : t \in rows}
           S == LoopState(names)
           step == [p \in (1..N) \X S |-> Step(p[2], Nth(rows, p[1]))]
           Rule(f) == f = [n \in 0..N |-> IF n = 0 THEN Empty ELSE Step(f[n - 1], Nth(rows, n))]
<1>1. N \in Nat
  BY PlaceFacts
<1>2. Empty \in S
  <2>1. << >> \in [{} -> Int]
    OBVIOUS
  <2> QED
    BY <2>1 DEF Empty, LoopState
<1>3. \A n \in 1..N : \A s \in S : step[<<n, s>>] = Step(s, Nth(rows, n))
  OBVIOUS
<1>4. \A n \in 1..N : \A s \in S : Step(s, Nth(rows, n)) \in S
  <2> TAKE n \in 1..N
  <2> TAKE s \in S
  <2>1. Nth(rows, n).sym \in names /\ SignedQuantity(Nth(rows, n)) \in Int
    BY NthFacts, LedgerFacts
  <2> HIDE DEF names
  <2> QED
    BY <2>1, StepFacts
<1>5. \A n \in 0..N : n = 0 \/ n \in 1..N
  BY <1>1
<1>6. \A n \in 1..N : n - 1 \in 0..N /\ n \in 0..N
  BY <1>1
<1>7. Loop(rows) = (CHOOSE f : Rule(f))[N]
  BY DEF Loop
<1> HIDE DEF step, N, S
<1>8. PICK f \in [0..N -> S] : Follows(f, Empty, step, N)
  <2>1. Stays(step, N, S)
    BY <1>3, <1>4 DEF Stays
  <2> QED
    BY <1>1, <1>2, <2>1, Recursion
<1>9. Rule(f)
  <2>1. \A n \in 0..N : f[n] = IF n = 0 THEN Empty ELSE Step(f[n - 1], Nth(rows, n))
    BY <1>3, <1>5, <1>6, <1>8 DEF Follows
  <2> QED
    BY <2>1
<1> DEFINE after == CHOOSE v : Rule(v)
<1>10. Rule(after) /\ Loop(rows) = after[N]
  BY <1>7, <1>9
<1> HIDE DEF after
<1>11. after[0] = Empty /\ \A n \in 1..N : after[n] = Step(after[n - 1], Nth(rows, n))
  BY <1>1, <1>6, <1>10
<1>12. \A n \in 0..N : after[n] \in S
  <2> DEFINE Good == {n \in 0..N : after[n] \in S}
  <2>1. 0 \in Good
    BY <1>1, <1>2, <1>11
  <2>2. \A n \in 1..N : n - 1 \in Good => n \in Good
    BY <1>1, <1>4, <1>6, <1>11
  <2> HIDE DEF Good
  <2>3. \A n \in 0..N : n \in Good
    BY <1>1, <2>1, <2>2, Induction
  <2> QED
    BY <2>3 DEF Good
<1>13. after \in [0..N -> S]
  BY <1>10, <1>12
<1> QED
  BY <1>10, <1>11, <1>13 DEF N, S

(* Nothing is held of what was not traded.                                 *)
LEMMA NotTraded ==
  ASSUME NEW ledger \in Ledgers, NEW rows \in SUBSET ledger, NEW s,
         \A t \in rows : Trades(t) => t.sym # s
  PROVE  Quantity(rows, s) = 0
<1> DEFINE U == {u \in rows : u.sym = s}
           signed == [t \in U |-> SignedQuantity(t)]
<1>1. IsFiniteSet(U)
  BY LedgerFacts, FS_Subset
<1>2. \A t \in U : signed[t] = 0
  <2> TAKE t \in U
  <2>1. ~Trades(t)
    OBVIOUS
  <2> QED
    BY <2>1 DEF SignedQuantity, Trades
<1>3. Quantity(rows, s) = SumFunction(signed)
  BY DEF Quantity
<1>4. DOMAIN signed = U
  OBVIOUS
<1> HIDE DEF U, signed
<1>5. {} \in SUBSET U /\ (\A t \in U : signed[t] \in Int) /\ \A t \in U \ {} : signed[t] = 0
  BY <1>2
<1>6. Part(signed, {}) = Part(signed, U) /\ PartsSplit(signed, U)
  BY <1>1, <1>5, SumZero, SumFacts
<1>7. Part(signed, U) = 0
  BY <1>5, <1>6 DEF PartsSplit
<1>8. [y \in U |-> signed[y]] = signed
  BY <1>4 DEF signed
<1> QED
  BY <1>3, <1>7, <1>8 DEF Part

(* What the locals are once the first rows have been applied.              *)
Short(rows, t) == t.kind = "SELL" /\ Quantity(UpTo(rows, t), t.sym) < 0
Names(rows) == {t.sym : t \in {u \in rows : Trades(u)}}
Replayed(rows, n, l) ==
  /\ l.raised <=> \E t \in Until(rows, n) : Short(rows, t)
  /\ ~l.raised => /\ DOMAIN l.quantities = Names(Until(rows, n))
                  /\ \A s \in DOMAIN l.quantities :
                       l.quantities[s] = Quantity(Until(rows, n), s)

(* One pass keeps the locals what they are said to be.                     *)
LEMMA ReplayStep ==
  ASSUME NEW ledger \in Ledgers, NEW rows \in SUBSET ledger, NEW n \in 1..Cardinality(rows),
         NEW l \in LoopState({t.sym : t \in rows}), Replayed(rows, n - 1, l)
  PROVE  Replayed(rows, n, Step(l, Nth(rows, n)))
<1> DEFINE t == Nth(rows, n)
           before == Until(rows, n - 1)
           next == Step(l, t)
           updated == Current(l, t.sym) + SignedQuantity(t)
           names == {u.sym : u \in rows}
<1> SUFFICES Replayed(rows, n, next)
  OBVIOUS
<1>1. /\ before \in SUBSET ledger /\ t \in ledger \ before
      /\ Until(rows, n) = before \cup {t} /\ UpTo(rows, t) = before \cup {t}
  BY UntilFacts
<1>2. t.sym \in names /\ SignedQuantity(t) \in Int
  BY <1>1, NthFacts, LedgerFacts
<1> HIDE DEF t, names
<1>3. /\ Current(l, t.sym) \in Int
      /\ l.raised \/ ~Trades(t) => next = l
      /\ ~l.raised /\ Trades(t) =>
           /\ next.raised <=> t.kind = "SELL" /\ updated < 0
           /\ ~next.raised =>
                next.quantities = [s \in DOMAIN l.quantities \cup {t.sym} |->
                                     IF s = t.sym THEN updated ELSE l.quantities[s]]
  BY <1>2, StepFacts DEF names
<1>4. \A s : Quantity(before \cup {t}, s) =
               Quantity(before, s) + (IF t.sym = s THEN SignedQuantity(t) ELSE 0)
  <2> TAKE s
  <2>1. before \in SUBSET ledger /\ t \in ledger \ before
    BY <1>1
  <2> HIDE DEF before
  <2>2. \A u \in ledger \ before :
          Quantity(before \cup {u}, s) =
            Quantity(before, s) + (IF u.sym = s THEN SignedQuantity(u) ELSE 0)
    BY <2>1, QuantityFacts
  <2> QED
    BY <2>1, <2>2
<1>5. \A s : Quantity(before, s) \in Int
  BY <1>1, QuantityFacts
<1>6. /\ l.raised <=> \E u \in before : Short(rows, u)
      /\ ~l.raised => /\ DOMAIN l.quantities = Names(before)
                      /\ \A s \in DOMAIN l.quantities : l.quantities[s] = Quantity(before, s)
  BY DEF Replayed
<1> HIDE DEF next, before
<1>7. ASSUME ~l.raised
      PROVE  Current(l, t.sym) = Quantity(before, t.sym)
  <2>1. CASE t.sym \in DOMAIN l.quantities
    BY <1>6, <1>7, <2>1 DEF Current
  <2>2. CASE t.sym \notin DOMAIN l.quantities
    <3>1. \A u \in before : Trades(u) => u.sym # t.sym
      BY <1>6, <1>7, <2>2 DEF Names
    <3>2. Quantity(before, t.sym) = 0
      BY <1>1, <3>1, NotTraded
    <3> QED
      BY <2>2, <3>2 DEF Current
  <2> QED
    BY <2>1, <2>2
<1>8. CASE l.raised
  BY <1>1, <1>3, <1>6, <1>8 DEF Replayed
<1>9. CASE ~l.raised /\ ~Trades(t)
  <2>1. ~Short(rows, t) /\ Names(before \cup {t}) = Names(before)
    BY <1>9 DEF Short, Names, Trades
  <2>2. \A s : Quantity(before \cup {t}, s) = Quantity(before, s)
    <3>1. SignedQuantity(t) = 0
      BY <1>9 DEF SignedQuantity, Trades
    <3> TAKE s
    <3>2. Quantity(before \cup {t}, s) = Quantity(before, s) + 0 /\ Quantity(before, s) \in Int
      BY <1>4, <1>5, <3>1
    <3> QED
      BY <3>2
  <2> QED
    BY <1>1, <1>3, <1>6, <1>9, <2>1, <2>2 DEF Replayed
<1>10. CASE ~l.raised /\ Trades(t)
  <2>1. updated = Quantity(before \cup {t}, t.sym)
    BY <1>2, <1>4, <1>5, <1>7, <1>10
  <2>2. Short(rows, t) <=> t.kind = "SELL" /\ updated < 0
    BY <1>1, <2>1 DEF Short
  <2>3. Names(before \cup {t}) = Names(before) \cup {t.sym}
    BY <1>10 DEF Names
  <2>4. \A s : s # t.sym => Quantity(before \cup {t}, s) = Quantity(before, s)
    <3> SUFFICES ASSUME NEW s, s # t.sym
                 PROVE  Quantity(before \cup {t}, s) = Quantity(before, s)
      OBVIOUS
    <3>1. Quantity(before \cup {t}, s) = Quantity(before, s) + 0 /\ Quantity(before, s) \in Int
      BY <1>4, <1>5
    <3> QED
      BY <3>1
  <2> HIDE DEF updated
  <2>5. next.raised <=> \E u \in before \cup {t} : Short(rows, u)
    BY <1>3, <1>6, <1>10, <2>2
  <2>6. ASSUME ~next.raised
        PROVE  /\ DOMAIN next.quantities = Names(before \cup {t})
               /\ \A s \in DOMAIN next.quantities :
                    next.quantities[s] = Quantity(before \cup {t}, s)
    <3>1. next.quantities = [s \in DOMAIN l.quantities \cup {t.sym} |->
                               IF s = t.sym THEN updated ELSE l.quantities[s]]
      BY <1>3, <1>10, <2>6
    <3>2. DOMAIN next.quantities = Names(before) \cup {t.sym}
      BY <1>6, <1>10, <3>1
    <3>3. \A s \in DOMAIN next.quantities : next.quantities[s] = Quantity(before \cup {t}, s)
      <4> TAKE s \in DOMAIN next.quantities
      <4>1. CASE s = t.sym
        BY <2>1, <3>1, <4>1
      <4>2. CASE s # t.sym
        BY <1>6, <1>10, <2>4, <3>1, <4>2
      <4> QED
        BY <4>1, <4>2
    <3> QED
      BY <2>3, <3>2, <3>3
  <2> QED
    BY <1>1, <2>5, <2>6 DEF Replayed
<1> QED
  BY <1>8, <1>9, <1>10

(* The loop and the operators say the same.                                *)
THEOREM LoopIsReplay ==
  ASSUME NEW ledger \in Ledgers, NEW rows \in SUBSET ledger
  PROVE  /\ Raises(rows) <=> ~Replays(rows)
         /\ ~Raises(rows) => Returned(rows) = DerivePositions(rows)
<1> DEFINE N == Cardinality(rows)
           names == {t.sym : t \in rows}
<1>1. PICK after \in [0..N -> LoopState(names)] :
        /\ Loop(rows) = after[N]
        /\ after[0] = Empty
        /\ \A n \in 1..N : after[n] = Step(after[n - 1], Nth(rows, n))
  BY LoopRuns
<1>2. N \in Nat
  BY PlaceFacts
<1>3. Until(rows, 0) = {} /\ Until(rows, N) = rows
  BY UntilFacts
<1> DEFINE Good == {n \in 0..N : Replayed(rows, n, after[n])}
<1>4. 0 \in Good
  BY <1>1, <1>2, <1>3 DEF Replayed, Empty, Names
<1>5. \A n \in 1..N : n - 1 \in Good => n \in Good
  <2> SUFFICES ASSUME NEW n \in 1..N, n - 1 \in Good PROVE n \in Good
    OBVIOUS
  <2>1. n \in 0..N /\ n - 1 \in 0..N
    BY <1>2
  <2>2. after[n - 1] \in LoopState(names) /\ Replayed(rows, n - 1, after[n - 1])
    BY <1>1, <2>1
  <2>3. Replayed(rows, n, Step(after[n - 1], Nth(rows, n)))
    BY <2>2, ReplayStep
  <2> QED
    BY <1>1, <2>1, <2>3
<1> HIDE DEF Good
<1>6. \A n \in 0..N : n \in Good
  BY <1>2, <1>4, <1>5, Induction
<1>7. N \in 0..N
  BY <1>2
<1>8. Replayed(rows, N, Loop(rows))
  BY <1>1, <1>6, <1>7 DEF Good
<1> HIDE DEF N
<1>9. Raises(rows) <=> \E t \in rows : Short(rows, t)
  BY <1>3, <1>8 DEF Replayed, Raises
<1>10. \A t \in rows : Short(rows, t) <=> t.kind = "SELL" /\ ~(Quantity(UpTo(rows, t), t.sym) >= 0)
  <2> TAKE t \in rows
  <2>1. UpTo(rows, t) \in SUBSET ledger
    BY DEF UpTo
  <2>2. Quantity(UpTo(rows, t), t.sym) \in Int
    BY <2>1, QuantityFacts
  <2> QED
    BY <2>2 DEF Short
<1>11. Raises(rows) <=> ~Replays(rows)
  BY <1>9, <1>10 DEF Replays
<1>12. ASSUME ~Raises(rows)
       PROVE  Returned(rows) = DerivePositions(rows)
  <2> DEFINE q == Loop(rows).quantities
  <2>1. DOMAIN q = Names(rows) /\ \A s \in DOMAIN q : q[s] = Quantity(rows, s)
    BY <1>3, <1>8, <1>12 DEF Replayed, Raises
  <2>2. Returned(rows) = [s \in {u \in DOMAIN q : q[u] # 0} |-> q[s]]
    BY DEF Returned
  <2> HIDE DEF q
  <2>3. DerivePositions(rows) =
          [s \in {u \in Names(rows) : Quantity(rows, u) # 0} |-> Quantity(rows, s)]
    BY DEF DerivePositions, Names, Trades
  <2>4. {u \in DOMAIN q : q[u] # 0} = {u \in Names(rows) : Quantity(rows, u) # 0}
    BY <2>1
  <2> QED
    BY <2>1, <2>2, <2>3, <2>4
<1> QED
  BY <1>11, <1>12

-----------------------------------------------------------------------------
(* The metrics, on positive fractions.                                     *)

(* Positive fractions.                                                     *)
Ratio == [num : Nat \ {0}, den : Nat \ {0}]
IsGrowth(growth) == /\ Len(growth) \in Nat /\ DOMAIN growth = 1..Len(growth)
                    /\ \A i \in DOMAIN growth : growth[i] \in Ratio

(* Products of positive numbers.                                           *)
LEMMA Positive == \A a, b \in Nat \ {0} : a * b \in Nat \ {0}
OBVIOUS

(* A factor keeps the order.                                               *)
LEMMA Monotone == \A a, b, c \in Nat : a <= b => a * c <= b * c
OBVIOUS

(* A positive factor can be taken away.                                    *)
LEMMA Cancel == \A a, b \in Int : \A c \in Nat \ {0} : a * c <= b * c => a <= b
OBVIOUS

(* Products and quotients of positive fractions.                           *)
LEMMA RatioFacts ==
  ASSUME NEW f \in Ratio, NEW g \in Ratio
  PROVE  /\ f.num \in Nat \ {0} /\ f.den \in Nat \ {0}
         /\ Product(f, g) \in Ratio /\ Over(f, g) \in Ratio
         /\ Product(f, g).num = f.num * g.num /\ Product(f, g).den = f.den * g.den
         /\ Over(f, g).num = f.num * g.den /\ Over(f, g).den = f.den * g.num
         /\ Least(f, g) \in {f, g} /\ Greatest(f, g) \in {f, g}
<1>1. /\ f.num \in Nat \ {0} /\ f.den \in Nat \ {0} /\ g.num \in Nat \ {0} /\ g.den \in Nat \ {0}
  BY DEF Ratio
<1>2. /\ f.num * g.num \in Nat \ {0} /\ f.den * g.den \in Nat \ {0}
      /\ f.num * g.den \in Nat \ {0} /\ f.den * g.num \in Nat \ {0}
  BY <1>1, Positive
<1> QED
  BY <1>1, <1>2 DEF Ratio, Product, Over, Fraction, Least, Greatest

(* Their order is total and transitive.                                    *)
LEMMA RatioOrder ==
  /\ \A f \in Ratio : ~Less(f, f)
  /\ \A f, g \in Ratio : Less(f, g) => ~Less(g, f)
  /\ \A f, g, h \in Ratio : ~Less(g, f) /\ ~Less(h, g) => ~Less(h, f)
<1>1. \A f \in Ratio : f.num \in Nat \ {0} /\ f.den \in Nat \ {0}
  BY DEF Ratio
<1>2. \A f, g \in Ratio : f.num * g.den \in Int /\ g.num * f.den \in Int
  BY <1>1
<1>3. ASSUME NEW f \in Ratio, NEW g \in Ratio, NEW h \in Ratio, ~Less(g, f), ~Less(h, g)
      PROVE  ~Less(h, f)
  <2> DEFINE a == f.num
             b == f.den
             c == g.num
             d == g.den
             x == h.num
             y == h.den
  <2>1. /\ a \in Nat \ {0} /\ b \in Nat \ {0} /\ c \in Nat \ {0} /\ d \in Nat \ {0}
        /\ x \in Nat \ {0} /\ y \in Nat \ {0}
    BY <1>1
  <2>2. a * d <= c * b /\ c * y <= x * d
    BY <1>2, <1>3, <2>1 DEF Less
  <2>3. SUFFICES a * y <= x * b
    BY <1>1, <2>1 DEF Less
  <2> HIDE DEF a, b, c, d, x, y
  <2>4. (a * d) * y <= (c * b) * y /\ (c * y) * b <= (x * d) * b
    BY <2>1, <2>2, Monotone
  <2>5. (a * y) * d = (a * d) * y /\ (c * b) * y = (c * y) * b /\ (x * b) * d = (x * d) * b
    BY <2>1
  <2>6. (a * y) * d <= (x * b) * d
    <3>1. /\ (a * d) * y \in Int /\ (c * b) * y \in Int /\ (c * y) * b \in Int
          /\ (x * d) * b \in Int
      BY <2>1
    <3> QED
      BY <2>4, <2>5, <3>1
  <2>7. a * y \in Int /\ x * b \in Int
    BY <2>1
  <2> QED
    BY <2>1, <2>6, <2>7, Cancel
<1> QED
  BY <1>1, <1>2, <1>3 DEF Less

(* Over falls as what it divides by grows.                                 *)
LEMMA OverFalls ==
  ASSUME NEW f \in Ratio, NEW g \in Ratio, NEW h \in Ratio, ~Less(h, g)
  PROVE  ~Less(Over(f, g), Over(f, h))
<1> DEFINE a == f.num
           b == f.den
           c == g.num
           d == g.den
           x == h.num
           y == h.den
<1>1. /\ a \in Nat \ {0} /\ b \in Nat \ {0} /\ c \in Nat \ {0} /\ d \in Nat \ {0}
      /\ x \in Nat \ {0} /\ y \in Nat \ {0}
  BY DEF Ratio
<1>2. c * y <= x * d
  BY <1>1 DEF Less
<1>3. /\ Over(f, g).num = a * d /\ Over(f, g).den = b * c
      /\ Over(f, h).num = a * y /\ Over(f, h).den = b * x
  BY RatioFacts
<1>4. SUFFICES (a * y) * (b * c) <= (a * d) * (b * x)
  <2> HIDE DEF a, b, c, d, x, y
  <2>1. (a * y) * (b * c) \in Int /\ (a * d) * (b * x) \in Int
    BY <1>1
  <2> QED
    BY <1>3, <2>1 DEF Less
<1> HIDE DEF a, b, c, d, x, y
<1>5. a * b \in Nat /\ c * y \in Nat /\ x * d \in Nat
  BY <1>1
<1>6. (c * y) * (a * b) <= (x * d) * (a * b)
  BY <1>2, <1>5, Monotone
<1>7. (a * y) * (b * c) = (c * y) * (a * b) /\ (a * d) * (b * x) = (x * d) * (a * b)
  BY <1>1
<1> QED
  BY <1>6, <1>7

(* The wealth after each period.                                           *)
LEMMA WealthFacts ==
  ASSUME NEW growth, IsGrowth(growth)
  PROVE  /\ Wealth(growth) \in [0..Len(growth) -> Ratio]
         /\ Wealth(growth)[0] = One
         /\ \A i \in 1..Len(growth) :
              Wealth(growth)[i] = Product(Wealth(growth)[i - 1], growth[i])
<1> DEFINE N == Len(growth)
           Rule(w) == w = [i \in 0..N |-> IF i = 0 THEN One ELSE Product(w[i - 1], growth[i])]
           step == [p \in (1..N) \X Ratio |-> Product(p[2], growth[p[1]])]
<1>1. N \in Nat /\ \A i \in 1..N : growth[i] \in Ratio
  BY DEF IsGrowth
<1>2. One \in Ratio
  BY DEF One, Fraction, Ratio
<1>3. \A n \in 1..N : \A s \in Ratio : step[<<n, s>>] = Product(s, growth[n])
  OBVIOUS
<1>4. \A n \in 1..N : \A s \in Ratio : step[<<n, s>>] \in Ratio
  BY <1>1, <1>3, RatioFacts
<1> HIDE DEF step, N
<1>5. PICK f \in [0..N -> Ratio] : Follows(f, One, step, N)
  <2>1. Stays(step, N, Ratio)
    BY <1>4 DEF Stays
  <2> QED
    BY <1>1, <1>2, <2>1, Recursion
<1>6. \A n \in 1..N : n - 1 \in 0..N /\ n \in 0..N
  BY <1>1
<1>7. \A n \in 0..N : n = 0 \/ n \in 1..N
  BY <1>1
<1>8. Rule(f)
  <2>1. \A n \in 0..N : f[n] = IF n = 0 THEN One ELSE Product(f[n - 1], growth[n])
    BY <1>3, <1>5, <1>6, <1>7 DEF Follows
  <2> QED
    BY <2>1
<1>9. Wealth(growth) = CHOOSE w : Rule(w)
  BY DEF Wealth, N
<1> DEFINE w == CHOOSE v : Rule(v)
<1>10. Rule(w)
  BY <1>8
<1> HIDE DEF w
<1>11. w[0] = One /\ \A i \in 1..N : w[i] = Product(w[i - 1], growth[i])
  BY <1>1, <1>6, <1>10
<1>12. \A n \in 0..N : w[n] \in Ratio
  <2> DEFINE Good == {n \in 0..N : w[n] \in Ratio}
  <2>1. 0 \in Good
    BY <1>1, <1>2, <1>11
  <2>2. \A n \in 1..N : n - 1 \in Good => n \in Good
    BY <1>1, <1>6, <1>11, RatioFacts
  <2> HIDE DEF Good
  <2>3. \A n \in 0..N : n \in Good
    BY <1>1, <2>1, <2>2, Induction
  <2> QED
    BY <2>3 DEF Good
<1>13. w \in [0..N -> Ratio]
  BY <1>10, <1>12
<1> QED
  BY <1>9, <1>11, <1>13 DEF w, N

(* The pass of the maximum drawdown.                                       *)
PassRule(growth, pass) ==
  pass = [i \in 0..Len(growth) |->
            IF i = 0 THEN [peak |-> One, worst |-> One]
            ELSE LET peak == Greatest(pass[i - 1].peak, Wealth(growth)[i])
                 IN  [peak |-> peak, worst |-> Least(pass[i - 1].worst,
                                                     Over(Wealth(growth)[i], peak))]]
PassStep(state, wealth) ==
  [peak |-> Greatest(state.peak, wealth),
   worst |-> Least(state.worst, Over(wealth, Greatest(state.peak, wealth)))]
PassState == [peak : Ratio, worst : Ratio]

(* One period of the pass.                                                 *)
LEMMA PassStepFacts ==
  ASSUME NEW state \in PassState, NEW wealth \in Ratio
  PROVE  /\ PassStep(state, wealth) \in PassState
         /\ PassStep(state, wealth).peak = Greatest(state.peak, wealth)
         /\ PassStep(state, wealth).worst =
              Least(state.worst, Over(wealth, Greatest(state.peak, wealth)))
<1>1. state.peak \in Ratio /\ state.worst \in Ratio
  BY DEF PassState
<1>2. Greatest(state.peak, wealth) \in Ratio
  BY <1>1, RatioFacts
<1>3. Over(wealth, Greatest(state.peak, wealth)) \in Ratio
  BY <1>2, RatioFacts
<1>4. Least(state.worst, Over(wealth, Greatest(state.peak, wealth))) \in Ratio
  BY <1>1, <1>3, RatioFacts
<1> QED
  BY <1>2, <1>4 DEF PassStep, PassState

(* Drawdown is what the pass has found at its end.                         *)
LEMMA PassFacts ==
  ASSUME NEW growth, IsGrowth(growth)
  PROVE  \E pass \in [0..Len(growth) -> PassState] :
           /\ Drawdown(growth) = pass[Len(growth)].worst
           /\ pass[0].peak = One /\ pass[0].worst = One
           /\ \A i \in 1..Len(growth) : pass[i] = PassStep(pass[i - 1], Wealth(growth)[i])
<1> DEFINE N == Len(growth)
           w == Wealth(growth)
           first == [peak |-> One, worst |-> One]
           step == [p \in (1..N) \X PassState |-> PassStep(p[2], w[p[1]])]
           Rule(pass) == PassRule(growth, pass)
<1>1. N \in Nat /\ \A i \in 0..N : w[i] \in Ratio
  BY WealthFacts DEF IsGrowth
<1>2. first \in PassState /\ first.peak = One /\ first.worst = One
  BY DEF One, Fraction, Ratio, PassState
<1>3. \A n \in 1..N : \A s \in PassState : step[<<n, s>>] = PassStep(s, w[n])
  OBVIOUS
<1>6. \A n \in 1..N : n - 1 \in 0..N /\ n \in 0..N
  BY <1>1
<1>7. \A n \in 0..N : n = 0 \/ n \in 1..N
  BY <1>1
<1>4. \A n \in 1..N : \A s \in PassState : step[<<n, s>>] \in PassState
  BY <1>1, <1>3, <1>6, PassStepFacts
<1> HIDE DEF step, N, w, first
<1>5. PICK f \in [0..N -> PassState] : Follows(f, first, step, N)
  <2>1. Stays(step, N, PassState)
    BY <1>4 DEF Stays
  <2> QED
    BY <1>1, <1>2, <2>1, Recursion
<1>8. \A pass : Rule(pass) <=>
        pass = [i \in 0..N |-> IF i = 0 THEN first ELSE PassStep(pass[i - 1], w[i])]
  BY DEF PassRule, PassStep, N, w, first
<1>9. Rule(f)
  <2>1. \A n \in 0..N : f[n] = IF n = 0 THEN first ELSE PassStep(f[n - 1], w[n])
    BY <1>3, <1>5, <1>6, <1>7 DEF Follows
  <2> QED
    BY <1>8, <2>1
<1> DEFINE pass == CHOOSE v : Rule(v)
<1>10. Drawdown(growth) = pass[N].worst
  BY DEF Drawdown, PassRule, N
<1>11. Rule(pass)
  BY <1>9
<1> HIDE DEF pass, Rule
<1>12. pass[0] = first /\ \A i \in 1..N : pass[i] = PassStep(pass[i - 1], w[i])
  BY <1>1, <1>6, <1>8, <1>11
<1>13. \A n \in 0..N : pass[n] \in PassState
  <2> DEFINE Good == {n \in 0..N : pass[n] \in PassState}
  <2>1. 0 \in Good
    BY <1>1, <1>2, <1>12
  <2>2. \A n \in 1..N : n - 1 \in Good => n \in Good
    BY <1>1, <1>6, <1>12, PassStepFacts
  <2> HIDE DEF Good
  <2>3. \A n \in 0..N : n \in Good
    BY <1>1, <2>1, <2>2, Induction
  <2> QED
    BY <2>3 DEF Good
<1>14. pass \in [0..N -> PassState]
  BY <1>8, <1>11, <1>13
<1> QED
  BY <1>2, <1>10, <1>12, <1>14 DEF N, w

(* Greatest and Least are.                                                 *)
LEMMA Extremes ==
  ASSUME NEW f \in Ratio, NEW g \in Ratio
  PROVE  /\ ~Less(Greatest(f, g), f) /\ ~Less(Greatest(f, g), g)
         /\ ~Less(f, Least(f, g)) /\ ~Less(g, Least(f, g))
BY RatioOrder DEF Greatest, Least

(* The peak of the first wealths, and their worst decline.                 *)
PeakOf(w, k, p) == (\E i \in 0..k : p = w[i]) /\ \A i \in 0..k : ~Less(p, w[i])
WorstOf(w, k, q) ==
  /\ \E i, j \in 0..k : i <= j /\ q = Over(w[j], w[i])
  /\ \A i, j \in 0..k : i <= j => ~Less(Over(w[j], w[i]), q)

(* The peak after one more period.                                         *)
LEMMA PeakStep ==
  ASSUME NEW N \in Nat, NEW w \in [0..N -> Ratio], NEW k \in 1..N,
         NEW p \in Ratio, PeakOf(w, k - 1, p)
  PROVE  PeakOf(w, k, Greatest(p, w[k]))
<1> DEFINE top == Greatest(p, w[k])
<1>1. /\ k \in Nat /\ w[k] \in Ratio /\ k \in 0..k
      /\ \A i \in 0..k : w[i] \in Ratio /\ (i = k \/ i \in 0..(k - 1))
      /\ \A i \in 0..(k - 1) : i \in 0..k
  OBVIOUS
<1>2. top \in {p, w[k]} /\ top \in Ratio /\ ~Less(top, p) /\ ~Less(top, w[k])
  BY <1>1, RatioFacts, Extremes
<1> HIDE DEF top
<1>3. \E i \in 0..k : top = w[i]
  BY <1>1, <1>2 DEF PeakOf
<1>4. \A i \in 0..k : ~Less(top, w[i])
  <2> TAKE i \in 0..k
  <2>1. CASE i = k
    BY <1>2, <2>1
  <2>2. CASE i # k
    <3>1. ~Less(p, w[i]) /\ w[i] \in Ratio
      BY <1>1, <2>2 DEF PeakOf
    <3> QED
      BY <1>2, <3>1, RatioOrder
  <2> QED
    BY <2>1, <2>2
<1> QED
  BY <1>3, <1>4 DEF PeakOf, top

(* The worst decline after one more period: it ends there, from the peak.  *)
LEMMA WorstStep ==
  ASSUME NEW N \in Nat, NEW w \in [0..N -> Ratio], NEW k \in 1..N,
         NEW p \in Ratio, PeakOf(w, k, p), NEW q \in Ratio, WorstOf(w, k - 1, q)
  PROVE  WorstOf(w, k, Least(q, Over(w[k], p)))
<1> DEFINE low == Least(q, Over(w[k], p))
<1>1. /\ k \in Nat /\ w[k] \in Ratio /\ k \in 0..k
      /\ \A i \in 0..k : w[i] \in Ratio /\ (i = k \/ i \in 0..(k - 1)) /\ i <= k /\ (k <= i => i = k)
      /\ \A i \in 0..(k - 1) : i \in 0..k
  OBVIOUS
<1>2. Over(w[k], p) \in Ratio
  BY <1>1, RatioFacts
<1>3. low \in {q, Over(w[k], p)} /\ low \in Ratio /\ ~Less(q, low) /\ ~Less(Over(w[k], p), low)
  BY <1>2, RatioFacts, Extremes
<1> HIDE DEF low
<1>4. \E i, j \in 0..k : i <= j /\ low = Over(w[j], w[i])
  <2>1. CASE low = q
    BY <1>1, <2>1 DEF WorstOf
  <2>2. CASE low = Over(w[k], p)
    BY <1>1, <2>2 DEF PeakOf
  <2> QED
    BY <1>3, <2>1, <2>2
<1>5. \A i, j \in 0..k : i <= j => ~Less(Over(w[j], w[i]), low)
  <2> SUFFICES ASSUME NEW i \in 0..k, NEW j \in 0..k, i <= j
               PROVE  ~Less(Over(w[j], w[i]), low)
    OBVIOUS
  <2>1. w[i] \in Ratio /\ w[j] \in Ratio /\ Over(w[j], w[i]) \in Ratio
    BY <1>1, RatioFacts
  <2>2. CASE j = k
    <3>1. ~Less(p, w[i])
      BY DEF PeakOf
    <3>2. ~Less(Over(w[k], w[i]), Over(w[k], p))
      BY <1>1, <2>1, <3>1, OverFalls
    <3> QED
      BY <1>2, <1>3, <2>1, <2>2, <3>2, RatioOrder
  <2>3. CASE j # k
    <3>1. i \in 0..(k - 1) /\ j \in 0..(k - 1)
      BY <1>1, <2>3
    <3>2. ~Less(Over(w[j], w[i]), q)
      BY <3>1 DEF WorstOf
    <3> QED
      BY <1>3, <2>1, <3>2, RatioOrder
  <2> QED
    BY <2>2, <2>3
<1> QED
  BY <1>4, <1>5 DEF WorstOf, low

(* The drawdown is the worst decline between two moments.                  *)
THEOREM DrawdownFacts ==
  ASSUME NEW growth, IsGrowth(growth)
  PROVE  WorstOf(Wealth(growth), Len(growth), Drawdown(growth)) /\ Drawdown(growth) \in Ratio
<1> DEFINE N == Len(growth)
           w == Wealth(growth)
<1>1. N \in Nat /\ w \in [0..N -> Ratio] /\ w[0] = One
  BY WealthFacts DEF IsGrowth
<1>2. PICK pass \in [0..N -> PassState] :
        /\ Drawdown(growth) = pass[N].worst
        /\ pass[0].peak = One /\ pass[0].worst = One
        /\ \A i \in 1..N : pass[i] = PassStep(pass[i - 1], w[i])
  BY PassFacts
<1> HIDE DEF w, N
<1>3. \A i \in 0..N : pass[i].peak \in Ratio /\ pass[i].worst \in Ratio /\ pass[i] \in PassState
  BY DEF PassState
<1> DEFINE Good == {i \in 0..N : PeakOf(w, i, pass[i].peak) /\ WorstOf(w, i, pass[i].worst)}
<1>4. 0 \in Good
  <2>1. One \in Ratio /\ Over(One, One) = One
    BY DEF One, Fraction, Ratio, Over
  <2>2. 0 \in 0..N /\ 0..0 = {0}
    BY <1>1
  <2>3. PeakOf(w, 0, One)
    BY <1>1, <2>1, <2>2, RatioOrder DEF PeakOf
  <2>4. WorstOf(w, 0, One)
    BY <1>1, <2>1, <2>2, RatioOrder DEF WorstOf
  <2> QED
    BY <1>2, <2>2, <2>3, <2>4
<1>5. \A i \in 1..N : i - 1 \in Good => i \in Good
  <2> SUFFICES ASSUME NEW i \in 1..N, i - 1 \in Good PROVE i \in Good
    OBVIOUS
  <2>1. i \in 0..N /\ i - 1 \in 0..N /\ w[i] \in Ratio
    BY <1>1
  <2>2. /\ pass[i].peak = Greatest(pass[i - 1].peak, w[i])
        /\ pass[i].worst = Least(pass[i - 1].worst, Over(w[i], pass[i].peak))
    <3>1. pass[i] = PassStep(pass[i - 1], w[i]) /\ pass[i - 1] \in PassState
      BY <1>2, <1>3, <2>1
    <3>2. pass[i].peak = Greatest(pass[i - 1].peak, w[i])
      BY <2>1, <3>1, PassStepFacts
    <3>3. pass[i].worst = Least(pass[i - 1].worst, Over(w[i], Greatest(pass[i - 1].peak, w[i])))
      BY <2>1, <3>1, PassStepFacts
    <3> QED
      BY <3>2, <3>3
  <2>3. PeakOf(w, i, pass[i].peak)
    BY <1>1, <1>3, <2>1, <2>2, PeakStep
  <2>4. WorstOf(w, i, pass[i].worst)
    BY <1>1, <1>3, <2>1, <2>2, <2>3, WorstStep
  <2> QED
    BY <2>1, <2>3, <2>4
<1> HIDE DEF Good
<1>6. \A i \in 0..N : i \in Good
  BY <1>1, <1>4, <1>5, Induction
<1>7. N \in 0..N
  BY <1>1
<1> QED
  BY <1>2, <1>3, <1>6, <1>7 DEF Good, N, w

(* A period multiplies the value of its start and divides by it.           *)
LEMMA Telescope == \A a, b, c, d, e \in Nat : a * c = d * b => (a * e) * c = e * (b * d)
<1> TAKE a, b, c, d, e \in Nat
<1>1. (a * e) * c = e * (a * c) /\ e * (d * b) = e * (b * d)
  OBVIOUS
<1> QED
  BY <1>1

(* Numbers over a common denominator.                                      *)
LEMMA Quotient == \A k, d \in Nat \ {0} : (k * d) \div d = k
OBVIOUS

(* A square is nothing exactly between equals.                             *)
LEMMA SquareFacts == \A a, b \in Int : /\ (a - b) * (a - b) \in Nat
                                       /\ (a - b) * (a - b) = 0 <=> a = b
OBVIOUS

(* Fractions are equal exactly when they are over a common denominator.    *)
LEMMA Fractions ==
  ASSUME NEW a \in Nat \ {0}, NEW b \in Nat \ {0}, NEW c \in Nat \ {0}, NEW d \in Nat \ {0},
         NEW k \in Nat \ {0}, NEW m \in Nat \ {0}, k * b = m * d
  PROVE  (a - b) * k = (c - d) * m <=> a * d = c * b
<1>1. ((a - b) * k) * (b * d) = ((a * d - b * d) * (k * b))
  OBVIOUS
<1>2. ((c - d) * m) * (b * d) = ((c * b - b * d) * (m * d))
  OBVIOUS
<1> QED
  BY <1>1, <1>2

(* Factors in another order.                                               *)
LEMMA Exchange == \A a, b, c \in Nat \ {0} : (a * b) * c = (a * c) * b
OBVIOUS

(* The common denominator is a multiple of each.                           *)
LEMMA CommonFacts ==
  ASSUME NEW growth, IsGrowth(growth)
  PROVE  /\ Common(growth) \in Nat \ {0}
         /\ \A i \in DOMAIN growth :
              \E k \in Nat \ {0} : /\ Common(growth) = k * growth[i].den
                                   /\ Common(growth) \div growth[i].den = k
<1> DEFINE N == Len(growth)
           P == Nat \ {0}
           step == [p \in (1..N) \X P |-> p[2] * growth[p[1]].den]
           Rule(f) == f = [i \in 0..N |-> IF i = 0 THEN 1 ELSE f[i - 1] * growth[i].den]
<1>1. N \in Nat /\ DOMAIN growth = 1..N /\ \A i \in 1..N : growth[i] \in Ratio
  BY DEF IsGrowth
<1>2. \A i \in 1..N : growth[i].den \in P
  BY <1>1, RatioFacts
<1>3. \A n \in 1..N : \A s \in P : step[<<n, s>>] = s * growth[n].den
  OBVIOUS
<1>4. \A n \in 1..N : \A s \in P : s * growth[n].den \in P
  BY <1>2, Positive
<1>5. \A n \in 0..N : n = 0 \/ n \in 1..N
  BY <1>1
<1>6. \A n \in 1..N : n - 1 \in 0..N /\ n \in 0..N
  BY <1>1
<1>7. Common(growth) = (CHOOSE f : Rule(f))[N]
  BY DEF Common
<1> HIDE DEF step, N
<1>8. PICK f \in [0..N -> P] : Follows(f, 1, step, N)
  <2>1. Stays(step, N, P) /\ 1 \in P
    BY <1>3, <1>4 DEF Stays
  <2> HIDE DEF P
  <2> QED
    BY <1>1, <2>1, Recursion
<1>9. Rule(f)
  <2>1. \A n \in 0..N : f[n] = IF n = 0 THEN 1 ELSE f[n - 1] * growth[n].den
    BY <1>3, <1>5, <1>6, <1>8 DEF Follows
  <2> QED
    BY <2>1
<1> DEFINE c == CHOOSE v : Rule(v)
<1>10. Rule(c) /\ Common(growth) = c[N]
  BY <1>7, <1>9
<1> HIDE DEF c
<1>11. c[0] = 1 /\ \A n \in 1..N : c[n] = c[n - 1] * growth[n].den
  BY <1>1, <1>6, <1>10
<1> DEFINE Multiple(n) == /\ c[n] \in P
                          /\ \A i \in 1..n : \E k \in P : c[n] = k * growth[i].den
           Good == {n \in 0..N : Multiple(n)}
<1>12. 0 \in Good
  BY <1>1, <1>11
<1>13. \A n \in 1..N : n - 1 \in Good => n \in Good
  <2> SUFFICES ASSUME NEW n \in 1..N, n - 1 \in Good PROVE n \in Good
    OBVIOUS
  <2>1. c[n - 1] \in P /\ growth[n].den \in P /\ c[n] = c[n - 1] * growth[n].den
    BY <1>2, <1>11
  <2>2. c[n] \in P
    BY <2>1, Positive
  <2>3. ASSUME NEW i \in 1..n
        PROVE  \E k \in P : c[n] = k * growth[i].den
    <3>1. CASE i = n
      BY <2>1, <3>1
    <3>2. CASE i # n
      <4>1. i \in 1..(n - 1) /\ i \in 1..N
        BY <1>1, <3>2
      <4>2. PICK k \in P : c[n - 1] = k * growth[i].den
        BY <4>1
      <4>3. k * growth[n].den \in P /\ growth[i].den \in P
        BY <1>2, <2>1, <4>1, Positive
      <4>4. (k * growth[i].den) * growth[n].den = (k * growth[n].den) * growth[i].den
        BY <2>1, <4>3, Exchange
      <4> QED
        BY <2>1, <4>2, <4>3, <4>4
    <3> QED
      BY <3>1, <3>2
  <2> QED
    BY <1>6, <2>2, <2>3
<1> HIDE DEF Good
<1>14. \A n \in 0..N : n \in Good
  BY <1>1, <1>12, <1>13, Induction
<1>15. N \in 0..N
  BY <1>1
<1>16. Multiple(N)
  BY <1>14, <1>15 DEF Good
<1>17. ASSUME NEW i \in DOMAIN growth
       PROVE  \E k \in P : Common(growth) = k * growth[i].den
                           /\ Common(growth) \div growth[i].den = k
  <2>1. i \in 1..N /\ growth[i].den \in P
    BY <1>1, <1>2
  <2>2. PICK k \in P : c[N] = k * growth[i].den
    BY <1>16, <2>1
  <2>3. c[N] \div growth[i].den = k
    BY <2>1, <2>2, Quotient
  <2> QED
    BY <1>10, <2>2, <2>3
<1> QED
  BY <1>10, <1>16, <1>17

(* The scaled returns are equal exactly where the returns are.             *)
LEMMA ScaledFacts ==
  ASSUME NEW growth, IsGrowth(growth)
  PROVE  /\ \A i \in DOMAIN growth : Scaled(growth, i) \in Int
         /\ \A i, j \in DOMAIN growth :
              Scaled(growth, i) = Scaled(growth, j) <=> Same(growth[i], growth[j])
<1>1. \A i \in DOMAIN growth : growth[i].num \in Nat \ {0} /\ growth[i].den \in Nat \ {0}
  BY RatioFacts DEF IsGrowth
<1>2. ASSUME NEW i \in DOMAIN growth
      PROVE  \E k \in Nat \ {0} : /\ Common(growth) = k * growth[i].den
                                  /\ Scaled(growth, i) = (growth[i].num - growth[i].den) * k
  BY CommonFacts DEF Scaled
<1>3. \A i \in DOMAIN growth : Scaled(growth, i) \in Int
  <2> TAKE i \in DOMAIN growth
  <2>1. PICK k \in Nat \ {0} : Scaled(growth, i) = (growth[i].num - growth[i].den) * k
    BY <1>2
  <2> QED
    BY <1>1, <2>1
<1>4. ASSUME NEW i \in DOMAIN growth, NEW j \in DOMAIN growth
      PROVE  Scaled(growth, i) = Scaled(growth, j) <=> Same(growth[i], growth[j])
  <2>1. PICK k \in Nat \ {0} : /\ Common(growth) = k * growth[i].den
                               /\ Scaled(growth, i) = (growth[i].num - growth[i].den) * k
    BY <1>2
  <2>2. PICK m \in Nat \ {0} : /\ Common(growth) = m * growth[j].den
                               /\ Scaled(growth, j) = (growth[j].num - growth[j].den) * m
    BY <1>2
  <2>3. k * growth[i].den = m * growth[j].den
    BY <2>1, <2>2
  <2> QED
    BY <1>1, <2>1, <2>2, <2>3, Fractions DEF Same
<1> QED
  BY <1>3, <1>4

(* The spread is nothing exactly when all returns are equal.               *)
THEOREM SpreadFacts ==
  ASSUME NEW growth, IsGrowth(growth)
  PROVE  /\ Spread(growth) \in Nat
         /\ Spread(growth) = 0 <=> \A i, j \in DOMAIN growth : Same(growth[i], growth[j])
<1> DEFINE pairs == {p \in (DOMAIN growth) \X (DOMAIN growth) : p[1] < p[2]}
           square == [p \in pairs |-> (Scaled(growth, p[1]) - Scaled(growth, p[2])) *
                                      (Scaled(growth, p[1]) - Scaled(growth, p[2]))]
<1>1. Len(growth) \in Nat /\ DOMAIN growth = 1..Len(growth)
  BY DEF IsGrowth
<1>2. IsFiniteSet(pairs)
  <2>1. IsFiniteSet(1..Len(growth))
    BY <1>1, FS_Interval
  <2>2. IsFiniteSet((DOMAIN growth) \X (DOMAIN growth))
    BY <1>1, <2>1, FS_Product
  <2> QED
    BY <2>2, FS_Subset
<1>3. \A p \in pairs : /\ p[1] \in DOMAIN growth /\ p[2] \in DOMAIN growth
                       /\ square[p] \in Nat
                       /\ square[p] = 0 <=> Scaled(growth, p[1]) = Scaled(growth, p[2])
  <2> TAKE p \in pairs
  <2>1. p[1] \in DOMAIN growth /\ p[2] \in DOMAIN growth
    OBVIOUS
  <2>2. Scaled(growth, p[1]) \in Int /\ Scaled(growth, p[2]) \in Int
    BY <2>1, ScaledFacts
  <2> QED
    BY <2>1, <2>2, SquareFacts
<1>4. Spread(growth) = Part(square, pairs)
  <2>1. [p \in pairs |-> square[p]] = square
    OBVIOUS
  <2>2. Spread(growth) = SumFunction(square)
    BY DEF Spread
  <2> HIDE DEF square
  <2> QED
    BY <2>1, <2>2 DEF Part
<1> HIDE DEF square
<1>5. /\ Part(square, pairs) \in Nat
      /\ Part(square, pairs) = 0 <=> \A p \in pairs : square[p] = 0
  <2>1. \A p \in pairs : square[p] \in Nat
    BY <1>3
  <2> HIDE DEF pairs
  <2> QED
    BY <1>2, <2>1, SumOfNaturals
<1>6. Spread(growth) = 0 <=> \A p \in pairs : Scaled(growth, p[1]) = Scaled(growth, p[2])
  <2> HIDE DEF pairs
  <2> QED
    BY <1>3, <1>4, <1>5
<1>7. (\A p \in pairs : Scaled(growth, p[1]) = Scaled(growth, p[2])) <=>
        \A i, j \in DOMAIN growth : Scaled(growth, i) = Scaled(growth, j)
  <2>1. ASSUME \A p \in pairs : Scaled(growth, p[1]) = Scaled(growth, p[2]),
               NEW i \in DOMAIN growth, NEW j \in DOMAIN growth
        PROVE  Scaled(growth, i) = Scaled(growth, j)
    <3>1. i = j \/ i < j \/ j < i
      BY <1>1
    <3>2. CASE i < j
      <4>1. <<i, j>> \in pairs
        BY <3>2
      <4> HIDE DEF pairs
      <4> QED
        BY <2>1, <4>1
    <3>3. CASE j < i
      <4>1. <<j, i>> \in pairs
        BY <3>3
      <4> HIDE DEF pairs
      <4> QED
        BY <2>1, <4>1
    <3> QED
      BY <3>1, <3>2, <3>3
  <2> QED
    BY <1>3, <2>1
<1>8. (\A i, j \in DOMAIN growth : Scaled(growth, i) = Scaled(growth, j)) <=>
        \A i, j \in DOMAIN growth : Same(growth[i], growth[j])
  BY ScaledFacts
<1> QED
  BY <1>4, <1>5, <1>6, <1>7, <1>8

(* What is missing, for want of two returns or of two that differ.         *)
LEMMA MissingFacts ==
  ASSUME NEW growth, IsGrowth(growth)
  PROVE  Missing(growth) # {} <=>
           Len(growth) < 2 \/ \A i, j \in DOMAIN growth : Same(growth[i], growth[j])
<1>1. Missing(growth) # {} <=> Len(growth) < 2 \/ Spread(growth) = 0
  BY DEF Missing, NoVolatility, NoSharpe
<1> QED
  BY <1>1, SpreadFacts
=============================================================================
