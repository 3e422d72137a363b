------------------------- MODULE FlowControlProofs -------------------------
(***************************************************************************)
(* The coordinator and its sessions for any finite number of transfers, any  *)
(* files and any limits: exact counters (AccountingExact), kept limits       *)
(* (LimitsHold), no lost wakeup (NoLostWakeup), and, over any number of      *)
(* resumes, acknowledgements that are never refused (AcksAreLegal) and       *)
(* release only what was received (ReleasedIsReceived).                      *)
(***************************************************************************)
EXTENDS FlowControl, FiniteSetTheorems, WellFoundedInduction, TLAPS

----------------------------------------------------------------------------
(* Sums over finite sets                                                     *)

(* A set of numbers that is not empty has a smallest one.                    *)
LEMMA Smallest ==
  ASSUME NEW S \in SUBSET Nat, S # {}
  PROVE  \E m \in S : \A k \in S : m <= k
<1> DEFINE R == OpToRel(<, Nat)
<1>1. \A x, y \in Nat : x < y => <<x, y>> \in R
  BY DEF OpToRel
<1>2. IsWellFoundedOn(R, Nat)
  BY NatLessThanWellFounded
<1> HIDE DEF R
<1>3. PICK m \in S : \A k \in S : ~ (<<k, m>> \in R)
  BY <1>2, WFMin
<1>4. ASSUME NEW k \in S
      PROVE  m <= k
  <2>1. k \in Nat /\ m \in Nat
    OBVIOUS
  <2>2. ~(k < m)
    BY <1>1, <1>3, <2>1
  <2> QED
    BY <2>1, <2>2
<1> QED
  BY <1>4

(* The element a fold takes out of a set first.                              *)
First(s) == CHOOSE x \in s : TRUE

(* What is left to add once the sums of the smaller sets are known.          *)
SumStep(fun, g, s) == IF s = {} THEN 0 ELSE fun[First(s)] + g[s \ {First(s)}]

(* g holds the sum of fun over every set in D.                               *)
Sums(fun, g, D) == g = [s \in D |-> SumStep(fun, g, s)]

(* SumFunctionOnSet is the value at S of a function of S's subsets that      *)
(* satisfies the recursion.                                                  *)
LEMMA SumIsChosen ==
  ASSUME NEW fun, NEW S
  PROVE  SumFunctionOnSet(fun, S) = (CHOOSE g : Sums(fun, g, SUBSET S))[S]
BY DEF SumFunctionOnSet, FoldFunctionOnSet, MapThenFoldSet, Sums, SumStep, First

(* The subsets of S that have at most n elements.                            *)
UpTo(S, n) == {s \in SUBSET S : Cardinality(s) <= n}

(* The recursion goes to a smaller set.                                      *)
LEMMA FirstIsTaken ==
  ASSUME NEW S, IsFiniteSet(S), NEW s \in SUBSET S, s # {}
  PROVE  /\ First(s) \in s
         /\ s \ {First(s)} \in SUBSET S
         /\ Cardinality(s) \in Nat /\ Cardinality(s) > 0
         /\ Cardinality(s \ {First(s)}) = Cardinality(s) - 1
<1>1. First(s) \in s
  BY DEF First
<1>2. IsFiniteSet(s)
  BY FS_Subset
<1> QED
  BY <1>1, <1>2, FS_RemoveElement, FS_CardinalityType, FS_EmptySet

(* There is a function that satisfies the recursion, for sets of any size.   *)
LEMMA SumsExistUpTo ==
  ASSUME NEW S, IsFiniteSet(S), NEW fun, NEW n \in Nat
  PROVE  \E g : Sums(fun, g, UpTo(S, n))
<1> DEFINE Bad == {k \in Nat : ~ \E g : Sums(fun, g, UpTo(S, k))}
<1> SUFFICES ASSUME Bad # {} PROVE FALSE
  OBVIOUS
<1>1. PICK m \in Bad : \A k \in Bad : m <= k
  BY Smallest
<1>2. CASE m = 0
  <2>1. UpTo(S, 0) = {{}}
    <3>1. ASSUME NEW s \in UpTo(S, 0) PROVE s = {}
      <4>1. IsFiniteSet(s) /\ Cardinality(s) <= 0 /\ Cardinality(s) \in Nat
        BY FS_Subset, FS_CardinalityType DEF UpTo
      <4> QED
        BY <4>1, FS_EmptySet
    <3>2. {} \in UpTo(S, 0)
      BY FS_EmptySet DEF UpTo
    <3> QED
      BY <3>1, <3>2
  <2>2. Sums(fun, [s \in {{}} |-> 0], {{}})
    BY DEF Sums, SumStep
  <2> QED
    BY <1>1, <1>2, <2>1, <2>2
<1>3. CASE m # 0
  <2>1. m - 1 \in Nat /\ m - 1 \notin Bad
    BY <1>1, <1>3
  <2>2. PICK g : Sums(fun, g, UpTo(S, m - 1))
    BY <2>1
  <2> DEFINE h == [s \in UpTo(S, m) |-> SumStep(fun, g, s)]
  <2>3. ASSUME NEW s \in UpTo(S, m - 1)
        PROVE  h[s] = g[s]
    <3>1. s \in UpTo(S, m)
      <4>1. Cardinality(s) \in Nat
        BY FS_Subset, FS_CardinalityType DEF UpTo
      <4> QED
        BY <4>1, <2>1 DEF UpTo
    <3> QED
      BY <2>2, <3>1 DEF Sums
  <2>4. ASSUME NEW s \in UpTo(S, m)
        PROVE  SumStep(fun, h, s) = SumStep(fun, g, s)
    <3>1. CASE s = {}
      BY <3>1 DEF SumStep
    <3>2. CASE s # {}
      <4>1. s \in SUBSET S /\ Cardinality(s) <= m
        BY DEF UpTo
      <4>2. s \ {First(s)} \in UpTo(S, m - 1)
        BY <4>1, <3>2, FirstIsTaken DEF UpTo
      <4> HIDE DEF h
      <4> QED
        BY <4>2, <2>3 DEF SumStep
    <3> QED
      BY <3>1, <3>2
  <2>5. Sums(fun, h, UpTo(S, m))
    BY <2>4 DEF Sums
  <2> QED
    BY <1>1, <2>5
<1> QED
  BY <1>2, <1>3

(* A finite set has a function that satisfies the recursion of its sums.     *)
LEMMA SumsExist ==
  ASSUME NEW S, IsFiniteSet(S), NEW fun
  PROVE  \E g : Sums(fun, g, SUBSET S)
<1> DEFINE n == Cardinality(S)
<1>1. n \in Nat
  BY FS_CardinalityType
<1>2. UpTo(S, n) = SUBSET S
  BY FS_Subset DEF UpTo
<1>3. PICK g : Sums(fun, g, UpTo(S, n))
  BY <1>1, SumsExistUpTo
<1> QED
  BY <1>2, <1>3

(* Two functions that satisfy the recursion agree on the sets both know.     *)
LEMMA SumsAgree ==
  ASSUME NEW S, IsFiniteSet(S), NEW T \in SUBSET S, NEW fun, NEW g, NEW h,
         Sums(fun, g, SUBSET S), Sums(fun, h, SUBSET T)
  PROVE  g[T] = h[T]
<1> DEFINE Bad == {Cardinality(s) : s \in {u \in SUBSET T : g[u] # h[u]}}
<1>1. \A s \in SUBSET T : IsFiniteSet(s) /\ Cardinality(s) \in Nat /\ s \in SUBSET S
  BY FS_Subset, FS_CardinalityType
<1>2. CASE Bad = {}
  <2>1. T \in SUBSET T
    OBVIOUS
  <2> QED
    BY <1>2, <2>1
<1>3. CASE Bad # {}
  <2>2. PICK m \in Bad : \A k \in Bad : m <= k
    <3>1. Bad \in SUBSET Nat
      BY <1>1
    <3> HIDE DEF Bad
    <3> QED
      BY <1>3, <3>1, Smallest
  <2>3. PICK s \in SUBSET T : g[s] # h[s] /\ Cardinality(s) = m
    BY <2>2
  <2>4. g[s] = SumStep(fun, g, s) /\ h[s] = SumStep(fun, h, s)
    BY <1>1 DEF Sums
  <2>5. s # {}
    BY <2>3, <2>4 DEF SumStep
  <2>6. /\ s \ {First(s)} \in SUBSET T
        /\ Cardinality(s \ {First(s)}) = m - 1
        /\ m \in Nat /\ m - 1 \in Nat
    <3>1. IsFiniteSet(T)
      BY FS_Subset
    <3> HIDE DEF Bad
    <3> QED
      BY <1>1, <2>3, <2>5, <3>1, FirstIsTaken
  <2>7. Cardinality(s \ {First(s)}) \notin Bad
    BY <2>2, <2>6
  <2>8. g[s \ {First(s)}] = h[s \ {First(s)}]
    BY <2>6, <2>7
  <2> QED
    BY <2>3, <2>4, <2>5, <2>8 DEF SumStep
<1> QED
  BY <1>2, <1>3

(* The sum of a set is the first element's value and the sum of the rest.    *)
LEMMA SumRecursion ==
  ASSUME NEW S, IsFiniteSet(S), NEW fun
  PROVE  SumFunctionOnSet(fun, S) =
           IF S = {} THEN 0
           ELSE fun[First(S)] + SumFunctionOnSet(fun, S \ {First(S)})
<1> DEFINE G(T) == CHOOSE g : Sums(fun, g, SUBSET T)
<1>1. Sums(fun, G(S), SUBSET S)
  BY SumsExist
<1>2. SumFunctionOnSet(fun, S) = G(S)[S]
  BY SumIsChosen
<1>3. CASE S = {}
  <2> HIDE DEF G
  <2>1. G(S)[S] = SumStep(fun, G(S), S)
    BY <1>1 DEF Sums
  <2> QED
    BY <1>2, <1>3, <2>1 DEF SumStep
<1>4. CASE S # {}
  <2> DEFINE T == S \ {First(S)}
  <2>1. T \in SUBSET S /\ IsFiniteSet(T)
    BY FS_Subset
  <2> HIDE DEF T
  <2>2. Sums(fun, G(T), SUBSET T)
    BY <2>1, SumsExist
  <2>3. SumFunctionOnSet(fun, T) = G(T)[T]
    BY SumIsChosen
  <2> HIDE DEF G
  <2>4. G(S)[T] = G(T)[T]
    BY <1>1, <2>1, <2>2, SumsAgree
  <2>5. G(S)[S] = SumStep(fun, G(S), S)
    BY <1>1 DEF Sums
  <2> USE DEF T
  <2>6. G(S)[S] = fun[First(S)] + G(S)[T]
    BY <2>5, <1>4 DEF SumStep
  <2> QED
    BY <1>2, <1>4, <2>3, <2>4, <2>6
<1> QED
  BY <1>3, <1>4

(* Whatever holds for the empty set and is passed on from the set without    *)
(* its first element holds for a finite set: Hard is where it would not.     *)
LEMMA SmallestHardSet ==
  ASSUME NEW S, IsFiniteSet(S), NEW Hard \in SUBSET SUBSET S, Hard # {}
  PROVE  \E s \in Hard : /\ IsFiniteSet(s)
                         /\ \A x \in s : s \ {x} \in SUBSET S /\ s \ {x} \notin Hard
<1>1. \A s \in SUBSET S : IsFiniteSet(s) /\ Cardinality(s) \in Nat
  BY FS_Subset, FS_CardinalityType
<1> DEFINE Cards == {Cardinality(s) : s \in Hard}
<1>2. Cards \in SUBSET Nat /\ Cards # {}
  BY <1>1
<1>3. PICK m \in Cards : \A k \in Cards : m <= k
  <2> HIDE DEF Cards
  <2> QED
    BY <1>2, Smallest
<1>4. PICK s \in Hard : Cardinality(s) = m
  BY <1>3
<1>5. ASSUME NEW x \in s
      PROVE  s \ {x} \in SUBSET S /\ s \ {x} \notin Hard
  <2>1. Cardinality(s \ {x}) = Cardinality(s) - 1
    BY <1>1, FS_RemoveElement
  <2>2. Cardinality(s) \in Nat
    BY <1>1
  <2>3. ~ (m <= Cardinality(s \ {x}))
    BY <1>4, <2>1, <2>2
  <2> QED
    BY <1>3, <2>3
<1> QED
  BY <1>1, <1>5

(* A sum of integers is an integer.                                          *)
LEMMA SumType ==
  ASSUME NEW S, IsFiniteSet(S), NEW fun, \A x \in S : fun[x] \in Int
  PROVE  SumFunctionOnSet(fun, S) \in Int
<1> DEFINE Hard == {s \in SUBSET S : SumFunctionOnSet(fun, s) \notin Int}
<1>1. Hard = {}
  <2> SUFFICES ASSUME Hard # {} PROVE FALSE
    OBVIOUS
  <2>1. PICK s \in Hard : /\ IsFiniteSet(s)
                          /\ \A x \in s : s \ {x} \in SUBSET S /\ s \ {x} \notin Hard
    <3>1. Hard \in SUBSET SUBSET S
      OBVIOUS
    <3> HIDE DEF Hard
    <3> QED
      BY <3>1, SmallestHardSet
  <2>2. SumFunctionOnSet(fun, s) = IF s = {} THEN 0 ELSE fun[First(s)] + SumFunctionOnSet(fun, s \ {First(s)})
    BY <2>1, SumRecursion
  <2>3. CASE s = {}
    BY <2>2, <2>3
  <2>4. CASE s # {}
    <3>1. First(s) \in s
      BY <2>4 DEF First
    <3>2. SumFunctionOnSet(fun, s \ {First(s)}) \in Int
      BY <2>1, <3>1
    <3>3. fun[First(s)] \in Int
      BY <3>1
    <3> QED
      BY <2>2, <2>4, <3>2, <3>3
  <2> QED
    BY <2>3, <2>4
<1> QED
  BY <1>1

(* A sum of natural numbers is one.                                          *)
LEMMA SumIsNat ==
  ASSUME NEW S, IsFiniteSet(S), NEW fun, \A x \in S : fun[x] \in Nat
  PROVE  SumFunctionOnSet(fun, S) \in Nat
<1> DEFINE Hard == {s \in SUBSET S : SumFunctionOnSet(fun, s) \notin Nat}
<1>1. Hard = {}
  <2> SUFFICES ASSUME Hard # {} PROVE FALSE
    OBVIOUS
  <2>1. PICK s \in Hard : /\ IsFiniteSet(s)
                          /\ \A x \in s : s \ {x} \in SUBSET S /\ s \ {x} \notin Hard
    <3>1. Hard \in SUBSET SUBSET S
      OBVIOUS
    <3> HIDE DEF Hard
    <3> QED
      BY <3>1, SmallestHardSet
  <2>2. SumFunctionOnSet(fun, s) = IF s = {} THEN 0 ELSE fun[First(s)] + SumFunctionOnSet(fun, s \ {First(s)})
    BY <2>1, SumRecursion
  <2>3. CASE s = {}
    BY <2>2, <2>3
  <2>4. CASE s # {}
    <3>1. First(s) \in s
      BY <2>4 DEF First
    <3>2. SumFunctionOnSet(fun, s \ {First(s)}) \in Nat
      BY <2>1, <3>1
    <3>3. fun[First(s)] \in Nat
      BY <3>1
    <3> QED
      BY <2>2, <2>4, <3>2, <3>3
  <2> QED
    BY <2>3, <2>4
<1> QED
  BY <1>1

(* Any element may be taken out first.                                       *)
LEMMA SumWithout ==
  ASSUME NEW S, IsFiniteSet(S), NEW fun, \A x \in S : fun[x] \in Int, NEW x \in S
  PROVE  SumFunctionOnSet(fun, S) = fun[x] + SumFunctionOnSet(fun, S \ {x})
<1> DEFINE Rest(s, y) == SumFunctionOnSet(fun, s \ {y})
           Hard == {s \in SUBSET S : \E y \in s : SumFunctionOnSet(fun, s) # fun[y] + Rest(s, y)}
<1>1. Hard = {}
  <2> SUFFICES ASSUME Hard # {} PROVE FALSE
    OBVIOUS
  <2>1. PICK s \in Hard : /\ IsFiniteSet(s)
                          /\ \A y \in s : s \ {y} \in SUBSET S /\ s \ {y} \notin Hard
    <3>1. Hard \in SUBSET SUBSET S
      OBVIOUS
    <3> HIDE DEF Hard
    <3> QED
      BY <3>1, SmallestHardSet
  <2>2. PICK y \in s : SumFunctionOnSet(fun, s) # fun[y] + Rest(s, y)
    BY <2>1
  <2> DEFINE a == First(s)
  <2>3. a \in s
    BY <2>2 DEF First
  <2>4. SumFunctionOnSet(fun, s) = fun[a] + Rest(s, a)
    BY <2>1, <2>2, SumRecursion
  <2> HIDE DEF a
  <2>5. a # y
    BY <2>2, <2>4
  <2>6. Rest(s, a) = fun[y] + SumFunctionOnSet(fun, (s \ {a}) \ {y})
    BY <2>1, <2>2, <2>3, <2>5
  <2>7. Rest(s, y) = fun[a] + SumFunctionOnSet(fun, (s \ {y}) \ {a})
    BY <2>1, <2>2, <2>3, <2>5
  <2>8. (s \ {y}) \ {a} = (s \ {a}) \ {y}
    OBVIOUS
  <2>9. /\ SumFunctionOnSet(fun, (s \ {a}) \ {y}) \in Int
        /\ fun[a] \in Int /\ fun[y] \in Int
    <3>1. IsFiniteSet((s \ {a}) \ {y}) /\ s \in SUBSET S
      BY <2>1, FS_Subset
    <3> QED
      BY <2>2, <2>3, <3>1, SumType
  <2> DEFINE both == SumFunctionOnSet(fun, (s \ {a}) \ {y})
  <2>10. Rest(s, y) = fun[a] + both /\ Rest(s, a) = fun[y] + both /\ both \in Int
    BY <2>6, <2>7, <2>8, <2>9
  <2> HIDE DEF Rest, both
  <2>11. fun[y] + Rest(s, y) = fun[a] + Rest(s, a)
    BY <2>9, <2>10
  <2> QED
    BY <2>2, <2>4, <2>11
<1> QED
  BY <1>1

(* A sum looks only at the values of the set's elements.                     *)
LEMMA SumSame ==
  ASSUME NEW S, IsFiniteSet(S), NEW fun, NEW other, \A x \in S : fun[x] = other[x]
  PROVE  SumFunctionOnSet(fun, S) = SumFunctionOnSet(other, S)
<1> DEFINE Hard == {s \in SUBSET S : SumFunctionOnSet(fun, s) # SumFunctionOnSet(other, s)}
<1>1. Hard = {}
  <2> SUFFICES ASSUME Hard # {} PROVE FALSE
    OBVIOUS
  <2>1. PICK s \in Hard : /\ IsFiniteSet(s)
                          /\ \A x \in s : s \ {x} \in SUBSET S /\ s \ {x} \notin Hard
    <3>1. Hard \in SUBSET SUBSET S
      OBVIOUS
    <3> HIDE DEF Hard
    <3> QED
      BY <3>1, SmallestHardSet
  <2>2. /\ SumFunctionOnSet(fun, s) = IF s = {} THEN 0 ELSE fun[First(s)] + SumFunctionOnSet(fun, s \ {First(s)})
        /\ SumFunctionOnSet(other, s) = IF s = {} THEN 0 ELSE other[First(s)] + SumFunctionOnSet(other, s \ {First(s)})
    BY <2>1, SumRecursion
  <2>3. CASE s = {}
    BY <2>2, <2>3
  <2>4. CASE s # {}
    <3>1. First(s) \in s
      BY <2>4 DEF First
    <3>2. SumFunctionOnSet(fun, s \ {First(s)}) = SumFunctionOnSet(other, s \ {First(s)})
      BY <2>1, <3>1
    <3>3. fun[First(s)] = other[First(s)]
      BY <3>1
    <3> QED
      BY <2>2, <2>4, <3>2, <3>3
  <2> QED
    BY <2>3, <2>4
<1> QED
  BY <1>1

(* A part of a set of natural numbers adds up to no more than the set.       *)
LEMMA SumOfPart ==
  ASSUME NEW S, IsFiniteSet(S), NEW T \in SUBSET S, NEW fun, \A x \in S : fun[x] \in Nat
  PROVE  SumFunctionOnSet(fun, T) <= SumFunctionOnSet(fun, S)
<1> DEFINE Hard == {s \in SUBSET S :
                      ~ (SumFunctionOnSet(fun, s \cap T) <= SumFunctionOnSet(fun, s))}
<1>1. Hard = {}
  <2> SUFFICES ASSUME Hard # {} PROVE FALSE
    OBVIOUS
  <2>1. PICK s \in Hard : /\ IsFiniteSet(s)
                          /\ \A x \in s : s \ {x} \in SUBSET S /\ s \ {x} \notin Hard
    <3>1. Hard \in SUBSET SUBSET S
      OBVIOUS
    <3> HIDE DEF Hard
    <3> QED
      BY <3>1, SmallestHardSet
  <2> DEFINE a == First(s)
             rest == s \ {a}
             all == SumFunctionOnSet(fun, rest)
             part == SumFunctionOnSet(fun, rest \cap T)
  <2>2. CASE s = {}
    <3>1. SumFunctionOnSet(fun, {}) = 0
      BY FS_EmptySet, SumRecursion
    <3>2. s \cap T = {}
      BY <2>2
    <3> QED
      BY <2>2, <3>1, <3>2
  <2>3. CASE s # {}
    <3>1. a \in s /\ a \in S
      BY <2>3 DEF First
    <3>2. IsFiniteSet(rest) /\ IsFiniteSet(rest \cap T) /\ IsFiniteSet(s \cap T)
      BY <2>1, FS_Subset
    <3>3. SumFunctionOnSet(fun, s) = fun[a] + all
      BY <2>1, <2>3, SumRecursion
    <3>4. part <= all
      BY <2>1, <3>1
    <3>5. fun[a] \in Nat /\ all \in Nat /\ part \in Nat
      BY <3>1, <3>2, SumIsNat
    <3>6. CASE a \in T
      <4>1. (s \cap T) \ {a} = rest \cap T /\ a \in s \cap T
        BY <3>1, <3>6
      <4>2. SumFunctionOnSet(fun, s \cap T) = fun[a] + part
        BY <3>2, <4>1, SumWithout
      <4> HIDE DEF a, rest, all, part
      <4> QED
        BY <3>3, <3>4, <3>5, <4>2
    <3>7. CASE a \notin T
      <4>1. s \cap T = rest \cap T
        BY <3>7
      <4> HIDE DEF a, rest, all
      <4> QED
        BY <3>3, <3>4, <3>5, <4>1
    <3> QED
      BY <3>6, <3>7
  <2> QED
    BY <2>2, <2>3
<1>2. S \in SUBSET S /\ S \cap T = T
  OBVIOUS
<1> QED
  BY <1>1, <1>2

(* Zeros add up to nothing.                                                  *)
LEMMA SumOfZeros ==
  ASSUME NEW S, IsFiniteSet(S), NEW fun, \A x \in S : fun[x] = 0
  PROVE  SumFunctionOnSet(fun, S) = 0
<1> DEFINE Hard == {s \in SUBSET S : SumFunctionOnSet(fun, s) # 0}
<1>1. Hard = {}
  <2> SUFFICES ASSUME Hard # {} PROVE FALSE
    OBVIOUS
  <2>1. PICK s \in Hard : /\ IsFiniteSet(s)
                          /\ \A x \in s : s \ {x} \in SUBSET S /\ s \ {x} \notin Hard
    <3>1. Hard \in SUBSET SUBSET S
      OBVIOUS
    <3> HIDE DEF Hard
    <3> QED
      BY <3>1, SmallestHardSet
  <2>2. SumFunctionOnSet(fun, s) = IF s = {} THEN 0 ELSE fun[First(s)] + SumFunctionOnSet(fun, s \ {First(s)})
    BY <2>1, SumRecursion
  <2>3. s # {}
    BY <2>2
  <2>4. First(s) \in s
    BY <2>3 DEF First
  <2>5. SumFunctionOnSet(fun, s \ {First(s)}) = 0 /\ fun[First(s)] = 0
    BY <2>1, <2>4
  <2> QED
    BY <2>2, <2>3, <2>5
<1> QED
  BY <1>1

(* One term of a sum changes.                                                *)
LEMMA SumChange ==
  ASSUME NEW S, IsFiniteSet(S), NEW x \in S, NEW fun, NEW new,
         \A y \in S : fun[y] \in Int /\ new[y] \in Int,
         \A y \in S \ {x} : new[y] = fun[y]
  PROVE  SumFunctionOnSet(new, S) = SumFunctionOnSet(fun, S) - fun[x] + new[x]
<1> DEFINE rest == SumFunctionOnSet(fun, S \ {x})
<1>1. IsFiniteSet(S \ {x})
  BY FS_Subset
<1>2. SumFunctionOnSet(new, S \ {x}) = rest /\ rest \in Int
  BY <1>1, SumSame, SumType
<1>3. SumFunctionOnSet(fun, S) = fun[x] + rest
  BY SumWithout
<1>4. SumFunctionOnSet(new, S) = new[x] + rest
  BY <1>2, SumWithout
<1> HIDE DEF rest
<1> QED
  BY <1>2, <1>3, <1>4

----------------------------------------------------------------------------
(* The bytes of a window                                                     *)

(* A set of chunks, as a window holds it.                                    *)
Chunks(S) == IsFiniteSet(S) /\ \A c \in S : c.size \in Nat

(* The bytes of a window are counted over any set that holds its chunks.     *)
LEMMA BytesIsSum ==
  ASSUME NEW S, Chunks(S), NEW T \in SUBSET S
  PROVE  Bytes(T) = SumFunctionOnSet([c \in S |-> c.size], T)
<1> DEFINE fun == [c \in T |-> c.size]
           big == [c \in S |-> c.size]
<1>1. IsFiniteSet(T)
  BY FS_Subset DEF Chunks
<1>2. DOMAIN fun = T
  OBVIOUS
<1>3. Bytes(T) = SumFunctionOnSet(fun, T)
  BY <1>2 DEF Bytes, SumFunction
<1>4. \A c \in T : fun[c] = big[c]
  OBVIOUS
<1> HIDE DEF fun, big
<1>5. SumFunctionOnSet(fun, T) = SumFunctionOnSet(big, T)
  BY <1>1, <1>4, SumSame
<1> USE DEF big
<1> QED
  BY <1>3, <1>5

(* The bytes of chunks are a number.                                         *)
LEMMA BytesType ==
  ASSUME NEW S, Chunks(S)
  PROVE  Bytes(S) \in Nat
<1> DEFINE fun == [c \in S |-> c.size]
<1>1. \A c \in S : fun[c] \in Nat
  BY DEF Chunks
<1>2. Bytes(S) = SumFunctionOnSet(fun, S)
  BY BytesIsSum
<1> HIDE DEF fun
<1> QED
  BY <1>1, <1>2, SumIsNat DEF Chunks

(* No chunks have no bytes.                                                  *)
LEMMA BytesOfNone == Bytes({}) = 0
<1>1. Chunks({})
  BY FS_EmptySet DEF Chunks
<1>2. Bytes({}) = SumFunctionOnSet([c \in {} |-> c.size], {})
  BY <1>1, BytesIsSum
<1> QED
  BY <1>2, FS_EmptySet, SumOfZeros

(* A part of the chunks has no more bytes than all of them.                  *)
LEMMA BytesOfPart ==
  ASSUME NEW S, Chunks(S), NEW T \in SUBSET S
  PROVE  Bytes(T) <= Bytes(S)
<1> DEFINE fun == [c \in S |-> c.size]
<1>1. \A c \in S : fun[c] \in Nat
  BY DEF Chunks
<1>2. Bytes(S) = SumFunctionOnSet(fun, S) /\ Bytes(T) = SumFunctionOnSet(fun, T)
  BY BytesIsSum
<1> HIDE DEF fun
<1> QED
  BY <1>1, <1>2, SumOfPart DEF Chunks

(* One more chunk adds its size.                                             *)
LEMMA BytesOfOneMore ==
  ASSUME NEW S, Chunks(S), NEW c, c \notin S, c.size \in Nat
  PROVE  Chunks(S \cup {c}) /\ Bytes(S \cup {c}) = Bytes(S) + c.size
<1> DEFINE T == S \cup {c}
           fun == [d \in T |-> d.size]
<1>1. Chunks(T)
  BY FS_AddElement DEF Chunks
<1>2. Bytes(T) = SumFunctionOnSet(fun, T) /\ Bytes(S) = SumFunctionOnSet(fun, S)
  BY <1>1, BytesIsSum
<1>3. \A d \in T : fun[d] \in Int
  BY <1>1 DEF Chunks
<1>4. c \in T /\ T \ {c} = S /\ fun[c] = c.size
  OBVIOUS
<1>5. IsFiniteSet(T) /\ Bytes(S) \in Nat
  BY <1>1, BytesType DEF Chunks
<1> HIDE DEF fun, T
<1>6. SumFunctionOnSet(fun, T) = fun[c] + SumFunctionOnSet(fun, S)
  BY <1>3, <1>4, <1>5, SumWithout
<1>7. Bytes(T) = Bytes(S) + c.size
  BY <1>2, <1>4, <1>5, <1>6
<1> QED
  BY <1>1, <1>7 DEF T

----------------------------------------------------------------------------
(* The inductive invariant: the types of the state                           *)

ChunksOf(t) ==
  {c \in [file : Files(t), end : Nat, size : Nat] :
     c.size > 0 /\ c.size <= c.end /\ c.end <= Sizes[t][c.file]}
AcksOf(t) == [file : Files(t), ver : Nat, dur : Nat]
Offsets(t) == [Files(t) -> Int]
WindowsOf(t) ==
  [open : BOOLEAN, chunks : SUBSET ChunksOf(t), next : Offsets(t), acked : Offsets(t),
   durable : Offsets(t)]
ChannelsOf(t) == [up : BOOLEAN, data : Seq(ChunksOf(t)), acks : Seq(AcksOf(t))]
EntriesOf == [ver : Int, dur : Nat, bytes : Nat, chunks : Nat]
StagesOf(t) ==
  [file : 1..(Total(t) + 1), off : Nat, durable : [Files(t) -> Nat],
   entries : [Files(t) -> EntriesOf]]
WorkersOf(t) == [state : WorkerStates, file : 1..(Total(t) + 1), off : Nat]

WorkerType == DOMAIN worker = Transfers /\ \A t \in Transfers : worker[t] \in WorkersOf(t)
WindowType ==
  /\ DOMAIN window = Transfers
  /\ \A t \in Transfers : window[t] \in WindowsOf(t) /\ IsFiniteSet(window[t].chunks)
ChannelType == DOMAIN chan = Transfers /\ \A t \in Transfers : chan[t] \in ChannelsOf(t)
StageType == DOMAIN recv = Transfers /\ \A t \in Transfers : recv[t] \in StagesOf(t)
SharedType ==
  /\ {held, reader, aborts, asleep} \subseteq SUBSET Transfers
  /\ cancel \in [Transfers -> {"no", "cancel", "close"}]
  /\ inflight \in Int
  /\ peers \in [Peers -> Int]
  /\ closed \in BOOLEAN
  /\ left \in [Kinds -> Nat]

FlowTypes == WorkerType /\ WindowType /\ ChannelType /\ StageType /\ SharedType

(* The counters                                                              *)

ClosedIsEmpty == \A t \in Transfers : ~window[t].open => window[t].chunks = {}

(* Threads: which phases hold a window, a reader and a channel; who sleeps.  *)

Waits == {"admitting", "slot", "draining"}
Before == {"accepted", "admitting", "admitted"}
Running == {"dialing", "baseline", "sending", "slot", "draining", "disconnected"}

PhaseFits(t) ==
  /\ t \in asleep => worker[t].state \in Waits
  /\ worker[t].state \in Before => t \notin held
  /\ worker[t].state \in Running => t \in held
  /\ chan[t].up \/ t \in reader => t \in held /\ worker[t].state # "dialing"
  /\ window[t].open => t \in held \/ worker[t].state = "admitted"
  /\ worker[t].state = "slot" => worker[t].file <= Total(t)

(* Positions in the transfer's files                                         *)

InFile(t, f, off) == f <= Total(t) => off < Sizes[t][f]

PositionFits(t) ==
  /\ InFile(t, worker[t].file, worker[t].off)
  /\ InFile(t, recv[t].file, recv[t].off)
  /\ recv[t].file <= Total(t) => recv[t].durable[recv[t].file] <= recv[t].off
  /\ \A f \in Files(t) : f > recv[t].file => recv[t].durable[f] = 0

(* A fresh window has tracked nothing; a baseline has sent nothing.          *)
Fresh(t) ==
  window[t].open =>
    /\ window[t].chunks = {}
    /\ \A f \in Files(t) : window[t].acked[f] = Unknown /\ window[t].durable[f] = Unknown
Quiet(t) ==
  /\ chan[t].data = <<>> /\ chan[t].acks = <<>>
  /\ worker[t].file = recv[t].file /\ worker[t].off = recv[t].off
  /\ \A f \in Files(t) :
       /\ recv[t].entries[f].chunks = 0
       /\ f = recv[t].file => recv[t].durable[f] = recv[t].off

FreshFits(t) ==
  /\ worker[t].state \in {"admitted", "dialing", "baseline"} => Fresh(t)
  /\ worker[t].state = "baseline" => Quiet(t)

(* The bytes on their way: the data of the channel joins the receiver's      *)
(* position to the worker's.                                                 *)

Follows(t, c, d) ==
  IF c.end = Sizes[t][c.file]
    THEN d.file = c.file + 1 /\ d.end = d.size
    ELSE d.file = c.file /\ d.end = c.end + d.size
Passed(c, f, off) == c.file < f \/ (c.file = f /\ c.end <= off)
Ahead(c, f, off) == c.file > f \/ (c.file = f /\ c.end - c.size >= off)

HeadFits(t) ==
  chan[t].data # <<>> =>
    /\ Head(chan[t].data).file = recv[t].file
    /\ Head(chan[t].data).end = recv[t].off + Head(chan[t].data).size
EndFits(t) ==
  chan[t].up =>
    LET d == chan[t].data
    IN IF d = <<>> THEN worker[t].file = recv[t].file /\ worker[t].off = recv[t].off
       ELSE IF d[Len(d)].end = Sizes[t][d[Len(d)].file]
         THEN worker[t].file = d[Len(d)].file + 1 /\ worker[t].off = 0
         ELSE worker[t].file = d[Len(d)].file /\ worker[t].off = d[Len(d)].end
Between(t, d) ==
  \A i \in 1..Len(d) :
    /\ Ahead(d[i], recv[t].file, recv[t].off)
    /\ chan[t].up => Passed(d[i], worker[t].file, worker[t].off)
InOrder(t, d) ==
  /\ \A i, j \in 1..Len(d) : i < j => Ahead(d[j], d[i].file, d[i].end)
  /\ \A i, j \in 1..Len(d) : j = i + 1 => Follows(t, d[i], d[j])
DataFits(t) == Between(t, chan[t].data) /\ InOrder(t, chan[t].data)

PipeFits(t) == HeadFits(t) /\ EndFits(t) /\ DataFits(t)

(* What the window knows of the bytes sent.                                  *)
TrackFits(t) ==
  window[t].open /\ worker[t].state \in {"sending", "slot"} =>
    /\ \A c \in window[t].chunks : Passed(c, worker[t].file, worker[t].off)
    /\ \A f \in Files(t) : f > worker[t].file => window[t].acked[f] = Unknown
    /\ \A f \in Files(t) :
         f = worker[t].file => worker[t].off = 0 \/ window[t].acked[f] # Unknown

(* What was acknowledged was received.                                       *)
Received(t, f, off) ==
  off <= 0 \/ f < recv[t].file \/ (f = recv[t].file /\ off <= recv[t].off)
WindowReceived(t) ==
  window[t].open => \A f \in Files(t) : Received(t, f, window[t].acked[f])

(* The acknowledgements on their way, and the progress still to be           *)
(* acknowledged.                                                             *)
AckFits(t) ==
  LET a == chan[t].acks
  IN /\ ~chan[t].up => a = <<>>
     /\ \A i \in 1..Len(a) :
          /\ Received(t, a[i].file, a[i].ver)
          /\ a[i].dur <= recv[t].durable[a[i].file]
     /\ \A i, j \in 1..Len(a) : i < j /\ a[i].file = a[j].file => a[i].dur <= a[j].dur
BatchFits(t) ==
  \A f \in Files(t) : recv[t].entries[f].chunks > 0 =>
    /\ recv[t].entries[f].ver \in Nat
    /\ recv[t].entries[f].dur = recv[t].durable[f]
    /\ Received(t, f, recv[t].entries[f].ver)

(* The end of a chunk the window still tracks, or has released.              *)
Known(t, f, end) ==
  \/ end <= window[t].acked[f]
  \/ \E c \in window[t].chunks : c.file = f /\ c.end = end

WindowFits(t) ==
  window[t].open /\ chan[t].up =>
    /\ \A i \in 1..Len(chan[t].data) : chan[t].data[i] \in window[t].chunks
    /\ \A i \in 1..Len(chan[t].acks) :
         LET a == chan[t].acks[i]
         IN Known(t, a.file, a.ver) /\ window[t].durable[a.file] <= a.dur
    /\ \A f \in Files(t) :
         /\ recv[t].entries[f].chunks > 0 => Known(t, f, recv[t].entries[f].ver)
         /\ window[t].durable[f] <= recv[t].durable[f]

ByteFits(t) ==
  /\ PositionFits(t) /\ FreshFits(t) /\ PipeFits(t) /\ TrackFits(t) /\ WindowReceived(t)
  /\ AckFits(t) /\ BatchFits(t) /\ WindowFits(t)

BytesFit == \A t \in Transfers : ByteFits(t)
PhasesFit == \A t \in Transfers : PhaseFits(t)

FlowInv ==
  /\ FlowTypes /\ ClosedIsEmpty /\ AccountingExact /\ LimitsHold /\ PhasesFit
  /\ NoLostWakeup /\ BytesFit

----------------------------------------------------------------------------
(* What does not look at the window or at the worker's phase                 *)

(* The stage and the channel of a transfer and its worker's position.        *)
StaysPut(t) ==
  /\ worker'[t].file = worker[t].file /\ worker'[t].off = worker[t].off
  /\ recv'[t] = recv[t]
  /\ chan'[t] = chan[t]

(* They carry the positions, the data, the acknowledgements on their way and *)
(* the progress to acknowledge.                                              *)
LEMMA PutStays ==
  ASSUME NEW t \in Transfers, StaysPut(t)
  PROVE  /\ PositionFits(t) => PositionFits(t)'
         /\ PipeFits(t) => PipeFits(t)'
         /\ AckFits(t) => AckFits(t)'
         /\ BatchFits(t) => BatchFits(t)'
<1>1. PositionFits(t) => PositionFits(t)'
  BY DEF StaysPut, PositionFits, InFile, Total, Files
<1>2. PipeFits(t) => PipeFits(t)'
  <2>1. HeadFits(t) => HeadFits(t)'
    BY DEF StaysPut, HeadFits
  <2>2. EndFits(t) => EndFits(t)'
    BY DEF StaysPut, EndFits
  <2>3. Between(t, chan[t].data) => Between(t, chan[t].data)'
    BY DEF StaysPut, Between
  <2>4. InOrder(t, chan[t].data) => InOrder(t, chan[t].data)'
    BY DEF StaysPut, InOrder
  <2> QED
    BY <2>1, <2>2, <2>3, <2>4 DEF PipeFits, DataFits
<1>3. AckFits(t) => AckFits(t)'
  BY DEF StaysPut, AckFits, Received
<1>4. BatchFits(t) => BatchFits(t)'
  BY DEF StaysPut, BatchFits, Received, Files
<1> QED
  BY <1>1, <1>2, <1>3, <1>4

----------------------------------------------------------------------------
(* Steps that send nothing and acknowledge nothing                           *)

(* The worker of a transfer stays where it is in the files, at most its      *)
(* phase changes; its window is left alone or closed; its channel is left    *)
(* alone or goes down, with or without the data in it.                       *)
PhaseRetreats(t) ==
  \/ worker'[t].state = worker[t].state
  \/ worker'[t].state \notin {"admitted", "dialing", "baseline", "sending", "slot"}
  \/ worker'[t].state = "slot" /\ worker[t].state \in {"sending", "slot"}
  \/ worker'[t].state = "dialing" /\ worker[t].state = "admitted"
ChannelRetreats(t) ==
  \/ chan'[t] = chan[t]
  \/ ~chan'[t].up /\ chan'[t].acks = <<>> /\ chan'[t].data \in {<<>>, chan[t].data}
Retreats(t) ==
  /\ worker'[t].file = worker[t].file /\ worker'[t].off = worker[t].off
  /\ PhaseRetreats(t)
  /\ recv'[t] = recv[t]
  /\ window'[t] = window[t] \/ ~window'[t].open
  /\ ChannelRetreats(t)

(* Such a step keeps all that is known of the transfer's bytes.              *)
LEMMA RetreatKeeps ==
  ASSUME NEW t \in Transfers, ByteFits(t), Retreats(t)
  PROVE  ByteFits(t)'
<1>1. PositionFits(t)'
  BY DEF ByteFits, Retreats, PositionFits, InFile, Total, Files
<1>2. FreshFits(t)'
  <2>1. worker[t].state \in {"admitted", "dialing", "baseline"}
          => Fresh(t)'
    BY DEF ByteFits, Retreats, FreshFits, Fresh, Files
  <2>2. worker'[t].state \in {"admitted", "dialing", "baseline"}
          => worker[t].state \in {"admitted", "dialing", "baseline"}
    BY DEF Retreats, PhaseRetreats
  <2>3. worker'[t].state = "baseline" => worker[t].state = "baseline"
    BY DEF Retreats, PhaseRetreats
  <2>4. ASSUME worker[t].state = "baseline" PROVE Quiet(t)'
    <3>1. Quiet(t)
      BY <2>4 DEF ByteFits, FreshFits
    <3> QED
      BY <3>1 DEF Retreats, ChannelRetreats, Quiet, Files
  <2> QED
    BY <2>1, <2>2, <2>3, <2>4 DEF FreshFits
<1>3. PipeFits(t)'
  <2>1. CASE chan'[t].data = chan[t].data /\ (chan'[t].up => chan[t].up)
    <3>1. HeadFits(t)'
      BY <2>1 DEF ByteFits, PipeFits, HeadFits, Retreats
    <3>2. EndFits(t)'
      BY <2>1 DEF ByteFits, PipeFits, EndFits, Retreats
    <3>3. DataFits(t)'
      <4>1. Between(t, chan[t].data)'
        BY <2>1 DEF ByteFits, PipeFits, DataFits, Retreats, Between
      <4>2. InOrder(t, chan[t].data)'
        BY <2>1 DEF ByteFits, PipeFits, DataFits, InOrder
      <4> QED
        BY <4>1, <4>2 DEF DataFits
    <3> QED
      BY <3>1, <3>2, <3>3 DEF PipeFits
  <2>2. CASE chan'[t].data = <<>> /\ ~chan'[t].up
    <3>1. 1..Len(<<>>) = {}
      OBVIOUS
    <3> QED
      BY <2>2, <3>1 DEF PipeFits, HeadFits, EndFits, DataFits, Between, InOrder
  <2> QED
    BY <2>1, <2>2 DEF Retreats, ChannelRetreats
<1>4. TrackFits(t)'
  <2>1. worker'[t].state \in {"sending", "slot"} => worker[t].state \in {"sending", "slot"}
    BY DEF Retreats, PhaseRetreats
  <2> QED
    BY <2>1 DEF ByteFits, Retreats, TrackFits, Passed, Files
<1>5. WindowReceived(t)'
  BY DEF ByteFits, Retreats, WindowReceived, Received, Files
<1>6. AckFits(t)'
  <2>1. CASE chan'[t] = chan[t]
    BY <2>1 DEF ByteFits, Retreats, AckFits, Received
  <2>2. CASE chan'[t].acks = <<>>
    <3>1. 1..Len(<<>>) = {}
      OBVIOUS
    <3> QED
      BY <2>2, <3>1 DEF AckFits
  <2> QED
    BY <2>1, <2>2 DEF Retreats, ChannelRetreats
<1>7. BatchFits(t)'
  BY DEF ByteFits, Retreats, BatchFits, Received, Files
<1>8. WindowFits(t)'
  <2>1. CASE window'[t] = window[t] /\ chan'[t] = chan[t]
    BY <2>1 DEF ByteFits, Retreats, WindowFits, Known, Files
  <2>2. CASE ~ (window'[t].open /\ chan'[t].up)
    BY <2>2 DEF WindowFits
  <2> QED
    BY <2>1, <2>2 DEF Retreats, ChannelRetreats
<1> QED
  BY <1>1, <1>2, <1>3, <1>4, <1>5, <1>6, <1>7, <1>8 DEF ByteFits

----------------------------------------------------------------------------
(* Admission and the resume baseline                                         *)

(* A transfer whose worker has not dialled has no channel.                   *)
LEMMA AdmissionKeeps ==
  ASSUME NEW t \in Transfers, PhaseFits(t), ByteFits(t), StaysPut(t),
         worker[t].state \in Before,
         worker'[t].state = "admitted", window'[t] = NewWindow(t)
  PROVE  ByteFits(t)'
<1>1. ~chan'[t].up
  BY DEF PhaseFits, StaysPut
<1>2. PositionFits(t)' /\ PipeFits(t)' /\ AckFits(t)' /\ BatchFits(t)'
  BY PutStays DEF ByteFits
<1>3. Fresh(t)'
  BY DEF Fresh, NewWindow, NoOffsets, Files
<1>4. FreshFits(t)' /\ TrackFits(t)' /\ WindowFits(t)'
  BY <1>1, <1>3 DEF FreshFits, TrackFits, WindowFits
<1>5. WindowReceived(t)'
  BY DEF WindowReceived, Received, NewWindow, NoOffsets, Unknown, Files
<1> QED
  BY <1>2, <1>4, <1>5 DEF ByteFits

(* The constants, as the proofs need them.                                   *)
LEMMA SizesType ==
  ASSUME NEW t \in Transfers
  PROVE  /\ Total(t) \in Nat
         /\ Files(t) = 1..Total(t)
         /\ \A f \in Files(t) : Sizes[t][f] \in Nat /\ Sizes[t][f] > 0
<1>1. Sizes[t] \in Seq(Nat \ {0})
  BY FlowAssumption
<1>2. Total(t) = Len(Sizes[t]) /\ Files(t) = DOMAIN Sizes[t]
  BY DEF Total, Files
<1>3. Len(Sizes[t]) \in Nat /\ DOMAIN Sizes[t] = 1..Len(Sizes[t])
  BY <1>1
<1>4. \A f \in 1..Len(Sizes[t]) : Sizes[t][f] \in Nat \ {0}
  BY <1>1
<1> QED
  BY <1>2, <1>3, <1>4

(* Where the receiver resumes: at a durable position of its current file     *)
(* that is no later than what it wrote; the other files are as they were.    *)
LEMMA ProgressIs ==
  ASSUME NEW t \in Transfers, StageType, PositionFits(t), NEW written \in BOOLEAN
  PROVE  LET durable == Progress(t, written)
         IN /\ durable \in [Files(t) -> Nat]
            /\ \A f \in Files(t) : f # recv[t].file => durable[f] = recv[t].durable[f]
            /\ recv[t].file <= Total(t) => durable[recv[t].file] <= recv[t].off
<1> DEFINE f == recv[t].file
           n == Total(t)
           old == recv[t].durable
<1>1. f \in 1..(n + 1) /\ recv[t].off \in Nat /\ old \in [Files(t) -> Nat]
  BY DEF StageType, StagesOf
<1>2. n \in Nat /\ Files(t) = 1..n /\ n = Len(Sizes[t])
  BY SizesType DEF Total
<1>3. f <= n => old[f] <= recv[t].off
  BY DEF PositionFits
<1>4. CASE f > n
  <2>1. Progress(t, written) = [old EXCEPT ![Smaller(f, n)] = old[Smaller(f, n)]]
    BY <1>2, <1>4 DEF Progress
  <2>2. Progress(t, written) = old
    BY <1>1, <2>1
  <2> QED
    BY <1>1, <1>2, <1>4, <2>2
<1>5. CASE f <= n
  <2>1. Smaller(f, n) = f /\ ~ (f > n)
    BY <1>1, <1>2, <1>5 DEF Smaller
  <2>2. CASE written
    <3>1. Progress(t, written) = [old EXCEPT ![f] = recv[t].off]
      BY <1>2, <2>1, <2>2 DEF Progress
    <3> QED
      BY <1>1, <1>2, <1>5, <3>1
  <2>3. CASE ~written
    <3>1. Progress(t, written) = old
      BY <1>2, <2>1, <2>3 DEF Progress
    <3> QED
      BY <1>1, <1>2, <1>3, <1>5, <3>1
  <2> QED
    BY <2>2, <2>3
<1> QED
  BY <1>1, <1>2, <1>4, <1>5

(* The stage the receiver restores.                                          *)
LEMMA RestoredIs ==
  ASSUME NEW t \in Transfers, StageType, PositionFits(t), NEW written \in BOOLEAN,
         recv'[t] = Restored(t, Progress(t, written))
  PROVE  /\ recv'[t] \in StagesOf(t)
         /\ recv'[t].file = recv[t].file
         /\ InFile(t, recv'[t].file, recv'[t].off)
         /\ \A f \in Files(t) : recv'[t].entries[f].chunks = 0
         /\ \A f \in Files(t) : f = recv[t].file => recv'[t].durable[f] = recv'[t].off
         /\ \A f \in Files(t) : f > recv[t].file => recv'[t].durable[f] = 0
<1> DEFINE durable == Progress(t, written)
           f == recv[t].file
<1>1. /\ durable \in [Files(t) -> Nat]
      /\ \A g \in Files(t) : g # f => durable[g] = recv[t].durable[g]
      /\ f <= Total(t) => durable[f] <= recv[t].off
  BY ProgressIs
<1>2. /\ Total(t) \in Nat /\ Files(t) = 1..Total(t) /\ Total(t) = Len(Sizes[t])
      /\ \A g \in Files(t) : Sizes[t][g] \in Nat
  BY SizesType DEF Total
<1>3. recv[t] \in StagesOf(t)
  BY DEF StageType
<1> HIDE DEF durable
<1>4. recv'[t] = [recv[t] EXCEPT
         !.durable = durable,
         !.off = IF f > Total(t) THEN 0 ELSE durable[f],
         !.entries = [g \in Files(t) |->
                        IF durable[g] > 0
                          THEN [NoProgress EXCEPT !.ver = durable[g], !.dur = durable[g]]
                          ELSE NoProgress]]
  BY <1>2 DEF Restored, durable
<1>12. /\ recv'[t].file = f /\ recv'[t].durable = durable
       /\ recv'[t].off = IF f > Total(t) THEN 0 ELSE durable[f]
  BY <1>3, <1>4 DEF StagesOf
<1>5. recv'[t].entries = [g \in Files(t) |->
                        IF durable[g] > 0
                          THEN [NoProgress EXCEPT !.ver = durable[g], !.dur = durable[g]]
                          ELSE NoProgress]
  BY <1>3, <1>4 DEF StagesOf
<1>6. f \in 1..(Total(t) + 1) /\ recv[t].off \in Nat
  BY <1>3 DEF StagesOf
<1>7. ASSUME NEW g \in Files(t)
      PROVE  recv'[t].entries[g] \in EntriesOf /\ recv'[t].entries[g].chunks = 0
  <2>1. durable[g] \in Nat
    BY <1>1
  <2>2. recv'[t].entries[g] = IF durable[g] > 0
                                THEN [NoProgress EXCEPT !.ver = durable[g], !.dur = durable[g]]
                                ELSE NoProgress
    BY <1>5
  <2>3. \/ recv'[t].entries[g] = [ver |-> durable[g], dur |-> durable[g], bytes |-> 0, chunks |-> 0]
        \/ recv'[t].entries[g] = [ver |-> -1, dur |-> 0, bytes |-> 0, chunks |-> 0]
    BY <2>2 DEF NoProgress, Unknown
  <2> QED
    BY <2>1, <2>3 DEF EntriesOf
<1>8. recv'[t].off \in Nat /\ InFile(t, f, recv'[t].off)
  <2>1. CASE f > Total(t)
    BY <1>2, <1>12, <1>6, <2>1 DEF InFile
  <2>2. CASE f <= Total(t)
    <3>1. f \in Files(t) /\ durable[f] \in Nat
      BY <1>1, <1>2, <1>6, <2>2
    <3>2. recv[t].off < Sizes[t][f]
      BY <2>2 DEF PositionFits, InFile
    <3>3. recv'[t].off = durable[f]
      BY <1>2, <1>12, <1>6, <2>2
    <3> QED
      BY <1>1, <1>2, <1>6, <2>2, <3>1, <3>2, <3>3 DEF InFile
  <2> QED
    BY <1>2, <1>6, <2>1, <2>2
<1>9. recv'[t] \in StagesOf(t)
  <2>1. recv'[t].entries \in [Files(t) -> EntriesOf]
    BY <1>5, <1>7
  <2>2. recv'[t] = [file |-> f, off |-> recv'[t].off, durable |-> durable,
                    entries |-> recv'[t].entries]
    BY <1>3, <1>4, <1>12 DEF StagesOf
  <2> QED
    BY <1>1, <1>6, <1>8, <2>1, <2>2 DEF StagesOf
<1>10. \A g \in Files(t) : g = f => recv'[t].durable[g] = recv'[t].off
  BY <1>2, <1>12
<1>11. \A g \in Files(t) : g > f => recv'[t].durable[g] = 0
  BY <1>1, <1>2, <1>12, <1>6 DEF PositionFits
<1> QED
  BY <1>12, <1>7, <1>8, <1>9, <1>10, <1>11

(* The channel is open: nothing is on its way, and the worker goes on where  *)
(* the receiver resumes.                                                     *)
LEMMA DialKeeps ==
  ASSUME NEW t \in Transfers, StageType, ByteFits(t), NEW written \in BOOLEAN,
         worker[t].state = "dialing",
         window'[t] = window[t],
         chan'[t] = [NoChannel EXCEPT !.up = TRUE],
         recv'[t] = Restored(t, Progress(t, written)),
         worker'[t] = [state |-> "baseline", file |-> recv[t].file, off |-> recv'[t].off]
  PROVE  ByteFits(t)'
<1>1. /\ recv'[t].file = recv[t].file
      /\ InFile(t, recv'[t].file, recv'[t].off)
      /\ \A f \in Files(t) : recv'[t].entries[f].chunks = 0
      /\ \A f \in Files(t) : f = recv[t].file => recv'[t].durable[f] = recv'[t].off
      /\ \A f \in Files(t) : f > recv[t].file => recv'[t].durable[f] = 0
      /\ recv'[t] \in StagesOf(t)
  BY RestoredIs DEF ByteFits
<1>2. chan'[t].up /\ chan'[t].data = <<>> /\ chan'[t].acks = <<>>
  BY DEF NoChannel
<1>3. /\ worker'[t].state = "baseline" /\ worker'[t].file = recv'[t].file
      /\ worker'[t].off = recv'[t].off
  BY <1>1
<1>4. 1..Len(<<>>) = {}
  OBVIOUS
<1>5. Fresh(t)
  BY DEF ByteFits, FreshFits
<1>6. recv'[t].file \in 1..(Total(t) + 1) /\ recv'[t].off \in Nat
      /\ recv'[t].durable \in [Files(t) -> Nat]
  BY <1>1 DEF StagesOf
<1>7. Total(t) \in Nat /\ Files(t) = 1..Total(t)
  BY SizesType
<1>8. PositionFits(t)'
  <2>1. recv'[t].file <= Total(t) => recv'[t].durable[recv'[t].file] <= recv'[t].off
    <3> SUFFICES ASSUME recv'[t].file <= Total(t)
                 PROVE  recv'[t].durable[recv'[t].file] <= recv'[t].off
      OBVIOUS
    <3>1. recv'[t].file \in Files(t)
      BY <1>6, <1>7
    <3>2. recv'[t].durable[recv'[t].file] = recv'[t].off
      BY <1>1, <3>1
    <3> QED
      BY <1>6, <3>2
  <2> QED
    BY <1>1, <1>3, <2>1 DEF PositionFits, InFile, Total, Files
<1>9. FreshFits(t)'
  <2>1. Fresh(t)'
    BY <1>5 DEF Fresh, Files
  <2>2. Quiet(t)'
    BY <1>1, <1>2, <1>3 DEF Quiet, Files
  <2> QED
    BY <2>1, <2>2 DEF FreshFits
<1>10. PipeFits(t)'
  BY <1>2, <1>3, <1>4 DEF PipeFits, HeadFits, EndFits, DataFits, Between, InOrder
<1>11. TrackFits(t)'
  BY <1>3 DEF TrackFits
<1>12. WindowReceived(t)'
  BY <1>5 DEF WindowReceived, Fresh, Received, Unknown, Files
<1>13. AckFits(t)' /\ BatchFits(t)'
  BY <1>1, <1>2, <1>4 DEF AckFits, BatchFits, Files
<1>14. WindowFits(t)'
  <2> SUFFICES ASSUME window[t].open
               PROVE  \A f \in Files(t) :
                        /\ ~ (recv'[t].entries[f].chunks > 0)
                        /\ window[t].durable[f] <= recv'[t].durable[f]
    BY <1>2, <1>4 DEF WindowFits, Files
  <2> QED
    BY <1>1, <1>5, <1>6 DEF Fresh, Unknown
<1> QED
  BY <1>8, <1>9, <1>10, <1>11, <1>12, <1>13, <1>14 DEF ByteFits

(* The baseline the window starts from is what the receiver holds.           *)
LEMMA BaselineKeeps ==
  ASSUME NEW t \in Transfers, WorkerType, WindowType, StageType, ByteFits(t), StaysPut(t),
         worker[t].state = "baseline", worker'[t].state = "sending",
         \/ /\ window'[t] = window[t]
            /\ worker[t].file > Total(t) \/ worker[t].off = 0
         \/ /\ worker[t].file <= Total(t)
            /\ window'[t] = [window[t] EXCEPT !.next[worker[t].file] = worker[t].off,
                                              !.acked[worker[t].file] = worker[t].off,
                                              !.durable[worker[t].file] = worker[t].off]
  PROVE  ByteFits(t)'
<1> DEFINE f == worker[t].file
           off == worker[t].off
<1>1. PositionFits(t)' /\ PipeFits(t)' /\ AckFits(t)' /\ BatchFits(t)'
  BY PutStays DEF ByteFits
<1>2. Fresh(t) /\ Quiet(t)
  BY DEF ByteFits, FreshFits
<1>3. FreshFits(t)'
  BY DEF FreshFits
<1>4. Total(t) \in Nat /\ Files(t) = 1..Total(t)
  BY SizesType
<1>5. f \in 1..(Total(t) + 1) /\ off \in Nat
  BY DEF WorkerType, WorkersOf
<1>6. window[t] \in WindowsOf(t) /\ recv[t] \in StagesOf(t)
  BY DEF WindowType, StageType
<1>7. /\ window'[t].open = window[t].open /\ window'[t].chunks = window[t].chunks
      /\ \A g \in Files(t) :
           \/ /\ window'[t].acked[g] = window[t].acked[g]
              /\ window'[t].durable[g] = window[t].durable[g]
              /\ g = f => off = 0
           \/ g = f /\ window'[t].acked[g] = off /\ window'[t].durable[g] = off
  <2>1. CASE window'[t] = window[t] /\ (f > Total(t) \/ off = 0)
    BY <1>4, <1>5, <2>1
  <2>2. CASE /\ f <= Total(t)
             /\ window'[t] = [window[t] EXCEPT !.next[f] = off, !.acked[f] = off,
                                               !.durable[f] = off]
    <3>1. /\ window'[t].open = window[t].open /\ window'[t].chunks = window[t].chunks
          /\ window'[t].acked = [window[t].acked EXCEPT ![f] = off]
          /\ window'[t].durable = [window[t].durable EXCEPT ![f] = off]
      BY <1>6, <2>2 DEF WindowsOf
    <3>2. window[t].acked \in Offsets(t) /\ window[t].durable \in Offsets(t)
      BY <1>6 DEF WindowsOf
    <3> QED
      BY <3>1, <3>2 DEF Offsets
  <2> QED
    BY <2>1, <2>2
<1>8. worker'[t].file = f /\ worker'[t].off = off /\ recv'[t] = recv[t] /\ chan'[t] = chan[t]
  BY DEF StaysPut
<1>9. TrackFits(t)'
  <2> SUFFICES ASSUME window[t].open
               PROVE  /\ \A c \in window[t].chunks : Passed(c, f, off)
                      /\ \A g \in Files(t) : g > f => window'[t].acked[g] = Unknown
                      /\ \A g \in Files(t) : g = f => off = 0 \/ window'[t].acked[g] # Unknown
    BY <1>7, <1>8 DEF TrackFits, Files
  <2>1. /\ window[t].chunks = {}
        /\ \A g \in Files(t) : window[t].acked[g] = Unknown
    BY <1>2 DEF Fresh
  <2>2. off # Unknown
    BY <1>5 DEF Unknown
  <2> QED
    BY <1>4, <1>5, <1>7, <2>1, <2>2
<1>10. WindowReceived(t)'
  <2> SUFFICES ASSUME window[t].open, NEW g \in Files(t)
               PROVE  Received(t, g, window'[t].acked[g])
    BY <1>7, <1>8 DEF WindowReceived, Received, Files
  <2>1. window[t].acked[g] = Unknown
    BY <1>2 DEF Fresh
  <2>2. f = recv[t].file /\ off = recv[t].off
    BY <1>2 DEF Quiet
  <2>3. CASE window'[t].acked[g] = window[t].acked[g]
    BY <2>1, <2>3 DEF Received, Unknown
  <2>4. CASE g = f /\ window'[t].acked[g] = off
    BY <1>5, <2>2, <2>4 DEF Received
  <2> QED
    BY <1>7, <2>3, <2>4
<1>11. WindowFits(t)'
  <2>1. chan[t].data = <<>> /\ chan[t].acks = <<>> /\ f = recv[t].file /\ off = recv[t].off
    BY <1>2 DEF Quiet
  <2>2. 1..Len(<<>>) = {}
    OBVIOUS
  <2>3. ASSUME window[t].open, NEW g \in Files(t)
        PROVE  ~ (recv[t].entries[g].chunks > 0) /\ window'[t].durable[g] <= recv[t].durable[g]
    <3>1. recv[t].entries[g].chunks = 0 /\ (g = f => recv[t].durable[g] = off)
      BY <1>2, <2>1 DEF Quiet
    <3>2. recv[t].durable[g] \in Nat
      BY <1>6 DEF StagesOf
    <3>3. window[t].durable[g] = Unknown
      BY <1>2, <2>3 DEF Fresh
    <3> QED
      BY <1>5, <1>7, <3>1, <3>2, <3>3 DEF Unknown
  <2> QED
    BY <1>7, <1>8, <2>1, <2>2, <2>3 DEF WindowFits, Files
<1> QED
  BY <1>1, <1>3, <1>9, <1>10, <1>11 DEF ByteFits

----------------------------------------------------------------------------
(* A chunk is sent                                                           *)

(* The chunk at the worker's position.                                       *)
LEMMA ChunkIs ==
  ASSUME NEW t \in Transfers, WorkerType, PositionFits(t), worker[t].file <= Total(t)
  PROVE  LET c == ChunkAt(t)
         IN /\ c \in ChunksOf(t)
            /\ c.file = worker[t].file /\ c.end = worker[t].off + c.size
<1> DEFINE f == worker[t].file
           off == worker[t].off
           size == Smaller(ChunkSize, Sizes[t][f] - off)
<1>1. f \in 1..(Total(t) + 1) /\ off \in Nat
  BY DEF WorkerType, WorkersOf
<1>2. Total(t) \in Nat /\ Files(t) = 1..Total(t) /\ \A g \in Files(t) : Sizes[t][g] \in Nat
  BY SizesType
<1>3. f \in Files(t) /\ Sizes[t][f] \in Nat
  BY <1>1, <1>2
<1>4. off < Sizes[t][f]
  BY DEF PositionFits, InFile
<1>5. ChunkSize \in Nat /\ ChunkSize > 0
  BY FlowAssumption
<1>6. size \in Nat /\ size > 0 /\ off + size <= Sizes[t][f]
  BY <1>1, <1>3, <1>4, <1>5 DEF Smaller
<1> HIDE DEF size
<1>7. ChunkAt(t) = [file |-> f, end |-> off + size, size |-> size]
  BY DEF ChunkAt, size
<1> QED
  BY <1>1, <1>3, <1>6, <1>7 DEF ChunksOf

(* What the window of transfer t has become when chunk c is tracked.         *)
LEMMA TrackedIs ==
  ASSUME NEW t \in Transfers, WorkerType, WindowType, PositionFits(t),
         worker[t].file <= Total(t)
  PROVE  LET c == ChunkAt(t)
             w == Tracked(t)
         IN /\ w \in WindowsOf(t)
            /\ w.open = window[t].open
            /\ w.chunks = window[t].chunks \cup {c}
            /\ \A g \in Files(t) :
                 /\ g # c.file => /\ w.acked[g] = window[t].acked[g]
                                  /\ w.durable[g] = window[t].durable[g]
                 /\ g = c.file =>
                      /\ w.acked[g] = IF window[t].acked[g] = Unknown THEN worker[t].off
                                      ELSE window[t].acked[g]
                      /\ w.durable[g] = IF window[t].durable[g] = Unknown THEN 0
                                        ELSE window[t].durable[g]
<1> DEFINE c == ChunkAt(t)
           off == worker[t].off
           next == [window[t].next EXCEPT ![c.file] = c.end]
           acked == [window[t].acked EXCEPT ![c.file] =
                       IF window[t].acked[c.file] = Unknown THEN off ELSE window[t].acked[c.file]]
           durable == [window[t].durable EXCEPT ![c.file] =
                         IF window[t].durable[c.file] = Unknown THEN 0
                         ELSE window[t].durable[c.file]]
<1>1. c \in ChunksOf(t)
  BY ChunkIs
<1>2. window[t] \in WindowsOf(t)
  BY DEF WindowType
<1>3. off \in Nat
  BY DEF WorkerType, WorkersOf
<1>4. c.file \in Files(t) /\ c.end \in Nat
  BY <1>1 DEF ChunksOf
<1>5. Tracked(t) = [open |-> window[t].open, chunks |-> window[t].chunks \cup {c},
                    next |-> next, acked |-> acked, durable |-> durable]
  <2>1. window[t] = [open |-> window[t].open, chunks |-> window[t].chunks,
                     next |-> window[t].next, acked |-> window[t].acked,
                     durable |-> window[t].durable]
    BY <1>2 DEF WindowsOf
  <2> HIDE DEF c
  <2>2. Tracked(t) = [window[t] EXCEPT
          !.chunks = window[t].chunks \cup {c},
          !.next[c.file] = c.end,
          !.acked[c.file] = IF window[t].acked[c.file] = Unknown THEN off
                            ELSE window[t].acked[c.file],
          !.durable[c.file] = IF window[t].durable[c.file] = Unknown THEN 0
                              ELSE window[t].durable[c.file]]
    BY DEF Tracked, c
  <2> QED
    BY <2>1, <2>2
<1>6. window[t].next \in Offsets(t) /\ window[t].acked \in Offsets(t)
      /\ window[t].durable \in Offsets(t)
  BY <1>2 DEF WindowsOf
<1> HIDE DEF c
<1>7. next \in Offsets(t) /\ acked \in Offsets(t) /\ durable \in Offsets(t)
  BY <1>3, <1>4, <1>6 DEF Offsets
<1>8. /\ \A g \in Files(t) :
                 /\ g # c.file => /\ acked[g] = window[t].acked[g]
                                  /\ durable[g] = window[t].durable[g]
                 /\ g = c.file =>
                      /\ acked[g] = IF window[t].acked[g] = Unknown THEN worker[t].off
                                      ELSE window[t].acked[g]
                      /\ durable[g] = IF window[t].durable[g] = Unknown THEN 0
                                        ELSE window[t].durable[g]
  BY <1>4, <1>6 DEF Offsets
<1> HIDE DEF next, acked, durable
<1>9. window[t].chunks \cup {c} \in SUBSET ChunksOf(t) /\ window[t].open \in BOOLEAN
  BY <1>1, <1>2 DEF WindowsOf, c
<1>10. Tracked(t) \in WindowsOf(t)
  BY <1>5, <1>7, <1>9 DEF WindowsOf
<1> QED
  BY <1>5, <1>8, <1>10 DEF c

(* The worker's position after the chunk.                                    *)
LEMMA AdvancedIs ==
  ASSUME NEW t \in Transfers, WorkerType, PositionFits(t), worker[t].file <= Total(t)
  PROVE  LET c == ChunkAt(t)
             w == Advanced(t)
         IN /\ w \in WorkersOf(t)
            /\ w.state = "sending"
            /\ IF c.end = Sizes[t][c.file] THEN w.file = c.file + 1 /\ w.off = 0
               ELSE w.file = c.file /\ w.off = c.end
            /\ InFile(t, w.file, w.off)
<1> DEFINE c == ChunkAt(t)
<1>1. c \in ChunksOf(t) /\ c.file = worker[t].file
  BY ChunkIs
<1>2. worker[t] = [state |-> worker[t].state, file |-> worker[t].file, off |-> worker[t].off]
  BY DEF WorkerType, WorkersOf
<1>3. /\ c.file \in Files(t) /\ c.end \in Nat /\ c.size \in Nat /\ c.size > 0
      /\ c.end <= Sizes[t][c.file]
  BY <1>1 DEF ChunksOf
<1>4. /\ Total(t) \in Nat /\ Files(t) = 1..Total(t)
      /\ \A g \in Files(t) : Sizes[t][g] \in Nat /\ Sizes[t][g] > 0
  BY SizesType
<1> HIDE DEF c
<1>5. Advanced(t) = IF c.end = Sizes[t][c.file]
                      THEN [worker[t] EXCEPT !.file = worker[t].file + 1, !.off = 0, !.state = "sending"]
                      ELSE [worker[t] EXCEPT !.off = c.end, !.state = "sending"]
  BY DEF Advanced, c
<1>6. CASE c.end = Sizes[t][c.file]
  <2>1. Advanced(t) = [state |-> "sending", file |-> c.file + 1, off |-> 0]
    BY <1>1, <1>2, <1>5, <1>6 DEF c
  <2>2. InFile(t, c.file + 1, 0)
    BY <1>3, <1>4 DEF InFile
  <2>3. c.file + 1 \in 1..(Total(t) + 1)
    BY <1>3, <1>4
  <2> QED
    BY <1>6, <2>1, <2>2, <2>3 DEF c, WorkersOf, WorkerStates
<1>7. CASE c.end # Sizes[t][c.file]
  <2>1. Advanced(t) = [state |-> "sending", file |-> c.file, off |-> c.end]
    BY <1>1, <1>2, <1>5, <1>7 DEF c
  <2>2. InFile(t, c.file, c.end)
    BY <1>3, <1>4, <1>7 DEF InFile
  <2>3. c.file \in 1..(Total(t) + 1)
    BY <1>3, <1>4
  <2> QED
    BY <1>3, <1>7, <2>1, <2>2, <2>3 DEF c, WorkersOf, WorkerStates
<1> QED
  BY <1>6, <1>7

(* The data reaches as far as the worker has sent.                           *)
LEMMA PipeGrows ==
  ASSUME NEW t \in Transfers, WorkerType, ChannelType, StageType, PositionFits(t), PipeFits(t),
         worker[t].file <= Total(t), chan[t].up,
         chan'[t].data = Append(chan[t].data, ChunkAt(t)),
         worker'[t] = Advanced(t), recv'[t] = recv[t]
  PROVE  PipeFits(t)'
<1> DEFINE c == ChunkAt(t)
           d == chan[t].data
           n == Len(d)
           more == Append(d, c)
           rf == recv[t].file
           ro == recv[t].off
           wf == worker[t].file
           wo == worker[t].off
<1>1. c \in ChunksOf(t) /\ c.file = wf /\ c.end = wo + c.size
  BY ChunkIs
<1>2. d \in Seq(ChunksOf(t)) /\ n \in Nat
  BY DEF ChannelType, ChannelsOf
<1>3. /\ rf \in Nat /\ ro \in Nat /\ wf \in Nat /\ wo \in Nat
  <2>1. Total(t) \in Nat
    BY SizesType
  <2> QED
    BY <2>1 DEF WorkerType, WorkersOf, StageType, StagesOf
<1>4. \A x \in ChunksOf(t) : /\ x.file \in Nat /\ x.end \in Nat /\ x.size \in Nat
                             /\ x.size > 0 /\ x.size <= x.end
  <2>1. Files(t) \subseteq Nat
    BY SizesType
  <2> QED
    BY <2>1 DEF ChunksOf
<1>5. \A i \in 1..n : d[i] \in ChunksOf(t)
  BY <1>2
<1>0. chan'[t].data = more
  OBVIOUS
<1> HIDE DEF c
<1>6. /\ Len(more) = n + 1
      /\ \A i \in 1..n : more[i] = d[i]
      /\ more[n + 1] = c
  BY <1>1, <1>2
<1>7. HeadFits(t) /\ EndFits(t) /\ Between(t, d) /\ InOrder(t, d)
  BY DEF PipeFits, DataFits
<1>8. IF c.end = Sizes[t][c.file] THEN worker'[t].file = c.file + 1 /\ worker'[t].off = 0
      ELSE worker'[t].file = c.file /\ worker'[t].off = c.end
  BY AdvancedIs DEF c
<1>9. IF d = <<>> THEN wf = rf /\ wo = ro
      ELSE IF d[n].end = Sizes[t][d[n].file]
         THEN wf = d[n].file + 1 /\ wo = 0
         ELSE wf = d[n].file /\ wo = d[n].end
  BY <1>7 DEF EndFits
<1>10. CASE d = <<>> 
  <2>1. n = 0 /\ more[1] = c /\ Len(more) = 1
    BY <1>2, <1>6, <1>10
  <2>2. wf = rf /\ wo = ro
    BY <1>9, <1>10
  <2>3. more # <<>> /\ Head(more) = c
    BY <1>1, <1>10
  <2> HIDE DEF more, d, n
  <2>4. HeadFits(t)'
    BY <1>1, <2>2, <2>3 DEF HeadFits, more, d, c
  <2>5. EndFits(t)'
    BY <1>8, <2>1, <2>3 DEF EndFits, more, d, c
  <2>6. Ahead(c, rf, ro)
    BY <1>1, <1>3, <1>4, <2>2 DEF Ahead
  <2>7. Passed(c, worker'[t].file, worker'[t].off)
    BY <1>1, <1>4, <1>8 DEF Passed
  <2>8. Between(t, chan[t].data)'
    <3> SUFFICES ASSUME NEW i \in 1..1
                 PROVE  Ahead(c, rf, ro) /\ Passed(c, worker'[t].file, worker'[t].off)
      BY <1>0, <2>1 DEF Between
    <3> QED
      BY <2>6, <2>7
  <2>9. InOrder(t, chan[t].data)'
    <3> SUFFICES ASSUME NEW i \in 1..1, NEW j \in 1..1, i < j PROVE FALSE
      BY <1>0, <2>1 DEF InOrder
    <3> QED
      OBVIOUS
  <2> QED
    BY <2>4, <2>5, <2>8, <2>9 DEF PipeFits, DataFits
<1>11. CASE d # <<>>
  <2>1. n > 0 /\ n \in 1..n
    BY <1>2, <1>11
  <2>2. more # <<>> /\ Head(more) = Head(d)
    BY <1>1, <1>2, <1>11
  <2>3. d[n] \in ChunksOf(t)
    BY <1>5, <2>1
  <2> HIDE DEF more, d
  <2>4. HeadFits(t)'
    BY <1>7, <1>11, <2>2 DEF HeadFits, more, d, c
  <2>5. EndFits(t)'
    BY <1>6, <1>8, <2>2 DEF EndFits, more, d, c
  <2>6. Ahead(c, rf, ro)
    <3>1. Ahead(d[n], rf, ro)
      BY <1>7, <2>1 DEF Between
    <3> QED
      BY <1>1, <1>3, <1>4, <1>9, <1>11, <2>3, <3>1 DEF Ahead
  <2>7. Passed(c, worker'[t].file, worker'[t].off)
    BY <1>1, <1>4, <1>8 DEF Passed
  <2>8. ASSUME NEW i \in 1..n
        PROVE  /\ Ahead(d[i], rf, ro)
               /\ Passed(d[i], worker'[t].file, worker'[t].off)
               /\ Ahead(c, d[i].file, d[i].end)
    <3>1. Ahead(d[i], rf, ro) /\ Passed(d[i], wf, wo)
      BY <1>7 DEF Between, d
    <3>2. d[i] \in ChunksOf(t)
      BY <1>5
    <3>3. Passed(d[i], worker'[t].file, worker'[t].off)
      BY <1>1, <1>3, <1>4, <1>8, <3>1, <3>2 DEF Passed
    <3>4. Ahead(c, d[i].file, d[i].end)
      BY <1>1, <1>3, <1>4, <3>1, <3>2 DEF Ahead, Passed
    <3> QED
      BY <3>1, <3>3, <3>4
  <2>9. Follows(t, d[n], c)
    BY <1>1, <1>3, <1>4, <1>9, <1>11, <2>3 DEF Follows
  <2>10. Between(t, chan[t].data)'
    <3> SUFFICES ASSUME NEW i \in 1..(n + 1)
                 PROVE  Ahead(more[i], rf, ro) /\ Passed(more[i], worker'[t].file, worker'[t].off)
      BY <1>0, <1>6 DEF Between
    <3>1. i \in 1..n \/ i = n + 1
      BY <1>2
    <3> QED
      BY <1>6, <2>6, <2>7, <2>8, <3>1
  <2>11. InOrder(t, chan[t].data)'
    <3>1. ASSUME NEW i \in 1..(n + 1), NEW j \in 1..(n + 1), i < j
          PROVE  /\ Ahead(more[j], more[i].file, more[i].end)
                 /\ j = i + 1 => Follows(t, more[i], more[j])
      <4>1. i \in 1..n /\ (j \in 1..n \/ j = n + 1)
        BY <1>2, <3>1
      <4>2. CASE j \in 1..n
        <5>1. Ahead(d[j], d[i].file, d[i].end) /\ (j = i + 1 => Follows(t, d[i], d[j]))
          BY <1>7, <3>1, <4>1, <4>2 DEF InOrder
        <5> QED
          BY <1>6, <4>1, <4>2, <5>1
      <4>3. CASE j = n + 1
        <5>1. Ahead(c, d[i].file, d[i].end)
          BY <2>8, <4>1
        <5>2. j = i + 1 => i = n
          BY <1>2, <4>1, <4>3
        <5> QED
          BY <1>6, <2>9, <4>1, <4>3, <5>1, <5>2
      <4> QED
        BY <4>1, <4>2, <4>3
    <3>2. \A i, j \in 1..(n + 1) : j = i + 1 => i < j
      BY <1>2
    <3> QED
      BY <1>0, <1>6, <3>1, <3>2 DEF InOrder
  <2> QED
    BY <2>4, <2>5, <2>10, <2>11 DEF PipeFits, DataFits
<1> QED
  BY <1>10, <1>11

(* What the window knows only grows when it tracks a chunk.                  *)
LEMMA KnownGrows ==
  ASSUME NEW t \in Transfers, WorkerType, WindowType, PositionFits(t),
         worker[t].file <= Total(t), window'[t] = Tracked(t)
  PROVE  /\ window'[t].open = window[t].open
         /\ \A c \in window[t].chunks : c \in window'[t].chunks
         /\ ChunkAt(t) \in window'[t].chunks
         /\ \A g \in Files(t), end \in Int : Known(t, g, end) => Known(t, g, end)'
         /\ \A g \in Files(t) : \/ window'[t].durable[g] = window[t].durable[g]
                                \/ window'[t].durable[g] = 0
<1> DEFINE c == ChunkAt(t)
<1>1. /\ window'[t].open = window[t].open
      /\ window'[t].chunks = window[t].chunks \cup {c}
      /\ \A g \in Files(t) :
           /\ g # c.file => /\ window'[t].acked[g] = window[t].acked[g]
                            /\ window'[t].durable[g] = window[t].durable[g]
           /\ g = c.file =>
                /\ window'[t].acked[g] = IF window[t].acked[g] = Unknown THEN worker[t].off
                                         ELSE window[t].acked[g]
                /\ window'[t].durable[g] = IF window[t].durable[g] = Unknown THEN 0
                                           ELSE window[t].durable[g]
  BY TrackedIs
<1>2. worker[t].off \in Nat
  BY DEF WorkerType, WorkersOf
<1>3. \A g \in Files(t) : window[t].acked[g] \in Int
  BY DEF WindowType, WindowsOf, Offsets
<1> HIDE DEF c
<1>4. ASSUME NEW g \in Files(t)
      PROVE  window[t].acked[g] <= window'[t].acked[g] /\ window'[t].acked[g] \in Int
  BY <1>1, <1>2, <1>3 DEF Unknown
<1>5. ASSUME NEW g \in Files(t), NEW end \in Int, Known(t, g, end)
      PROVE  Known(t, g, end)'
  <2>1. CASE end <= window[t].acked[g]
    <3>1. end <= window'[t].acked[g]
      BY <1>3, <1>4, <2>1
    <3> QED
      BY <3>1 DEF Known
  <2>2. CASE \E x \in window[t].chunks : x.file = g /\ x.end = end
    BY <1>1, <2>2 DEF Known
  <2> QED
    BY <1>5, <2>1, <2>2 DEF Known
<1>6. \A g \in Files(t) : window'[t].durable[g] = window[t].durable[g] \/ window'[t].durable[g] = 0
  BY <1>1
<1> QED
  BY <1>1, <1>5, <1>6 DEF c

(* The chunk is tracked, and on its way if the channel is up.                *)
LEMMA SendKeeps ==
  ASSUME NEW t \in Transfers, WorkerType, WindowType, ChannelType, StageType,
         ByteFits(t), worker[t].state \in {"sending", "slot"}, worker[t].file <= Total(t),
         window[t].open, window'[t] = Tracked(t), recv'[t] = recv[t],
         \/ /\ chan[t].up
            /\ worker'[t] = Advanced(t)
            /\ chan'[t] = [chan[t] EXCEPT !.data = Append(chan[t].data, ChunkAt(t))]
         \/ /\ ~chan[t].up
            /\ worker'[t] = [worker[t] EXCEPT !.state = "disconnected"]
            /\ chan'[t] = chan[t]
  PROVE  ByteFits(t)'
<1> DEFINE c == ChunkAt(t)
           wf == worker[t].file
           wo == worker[t].off
<1>1. c \in ChunksOf(t) /\ c.file = wf /\ c.end = wo + c.size
  BY ChunkIs DEF ByteFits
<1>2. worker[t] \in WorkersOf(t) /\ wf \in Nat /\ wo \in Nat /\ wf \in Files(t)
  <2>1. Total(t) \in Nat /\ Files(t) = 1..Total(t)
    BY SizesType
  <2> QED
    BY <2>1 DEF WorkerType, WorkersOf
<1>3. c.end \in Nat /\ c.size \in Nat /\ c.size > 0
  BY <1>1 DEF ChunksOf
<1>4. /\ window'[t].open
      /\ window'[t].chunks = window[t].chunks \cup {c}
      /\ \A g \in Files(t) :
           /\ g # c.file => /\ window'[t].acked[g] = window[t].acked[g]
                            /\ window'[t].durable[g] = window[t].durable[g]
           /\ g = c.file =>
                /\ window'[t].acked[g] = IF window[t].acked[g] = Unknown THEN wo
                                         ELSE window[t].acked[g]
                /\ window'[t].durable[g] = IF window[t].durable[g] = Unknown THEN 0
                                           ELSE window[t].durable[g]
  BY TrackedIs DEF ByteFits
<1>5. chan'[t].acks = chan[t].acks /\ chan'[t].up = chan[t].up
  BY DEF ChannelType, ChannelsOf
<1> HIDE DEF c
<1>6. AckFits(t)' /\ BatchFits(t)'
  <2>1. AckFits(t)'
    BY <1>5 DEF ByteFits, AckFits, Received
  <2>2. BatchFits(t)'
    BY DEF ByteFits, BatchFits, Received, Files
  <2> QED
    BY <2>1, <2>2
<1>7. TrackFits(t)
  BY DEF ByteFits
<1>8. WindowReceived(t)'
  <2> SUFFICES ASSUME NEW g \in Files(t)
               PROVE  Received(t, g, window'[t].acked[g])
    BY DEF WindowReceived, Received, Files
  <2>1. Received(t, g, window[t].acked[g])
    BY DEF ByteFits, WindowReceived
  <2>2. g = c.file /\ window[t].acked[g] = Unknown => wo = 0
    BY <1>1, <1>7 DEF TrackFits
  <2> QED
    BY <1>4, <2>1, <2>2 DEF Received
<1>9. WindowFits(t)'
  <2> SUFFICES ASSUME chan[t].up PROVE WindowFits(t)'
    BY <1>5 DEF WindowFits
  <2>1. /\ \A x \in window[t].chunks : x \in window'[t].chunks
        /\ c \in window'[t].chunks
        /\ \A g \in Files(t), end \in Int : Known(t, g, end) => Known(t, g, end)'
        /\ \A g \in Files(t) : \/ window'[t].durable[g] = window[t].durable[g]
                               \/ window'[t].durable[g] = 0
    BY KnownGrows DEF ByteFits, c
  <2>2. WindowFits(t)
    BY DEF ByteFits
  <2>3. ASSUME NEW i \in 1..Len(chan'[t].data)
        PROVE  chan'[t].data[i] \in window'[t].chunks
    <3>1. chan'[t].data = Append(chan[t].data, c) /\ chan[t].data \in Seq(ChunksOf(t))
      BY DEF ChannelType, ChannelsOf, c
    <3>2. \/ i \in 1..Len(chan[t].data) /\ chan'[t].data[i] = chan[t].data[i]
          \/ chan'[t].data[i] = c
      BY <1>1, <3>1
    <3>3. \A j \in 1..Len(chan[t].data) : chan[t].data[j] \in window[t].chunks
      BY <2>2 DEF WindowFits
    <3> QED
      BY <2>1, <3>2, <3>3
  <2>4. ASSUME NEW i \in 1..Len(chan[t].acks)
        PROVE  LET a == chan[t].acks[i]
               IN Known(t, a.file, a.ver)' /\ window'[t].durable[a.file] <= a.dur
    <3> DEFINE a == chan[t].acks[i]
    <3>1. Known(t, a.file, a.ver) /\ window[t].durable[a.file] <= a.dur
      BY <2>2 DEF WindowFits
    <3>2. a \in AcksOf(t)
      BY DEF ChannelType, ChannelsOf
    <3> HIDE DEF a
    <3>3. a.file \in Files(t) /\ a.ver \in Int /\ a.dur \in Nat
      BY <3>2 DEF AcksOf
    <3>4. Known(t, a.file, a.ver)'
      <4>1. \A g \in Files(t), end \in Int : Known(t, g, end) => Known(t, g, end)'
        BY <2>1
      <4>2. ASSUME NEW g \in Files(t), NEW end \in Int, Known(t, g, end), a.file = g, a.ver = end,
                   a' = a
            PROVE  Known(t, a.file, a.ver)'
        BY <4>1, <4>2 DEF Known
      <4> QED
        BY <1>5, <3>1, <3>3, <4>2 DEF a
    <3>5. window'[t].durable[a.file] <= a.dur
      BY <2>1, <3>1, <3>3
    <3> QED
      BY <1>5, <3>4, <3>5 DEF a
  <2>5. ASSUME NEW g \in Files(t)
        PROVE  /\ recv[t].entries[g].chunks > 0 => Known(t, g, recv[t].entries[g].ver)'
               /\ window'[t].durable[g] <= recv[t].durable[g]
    <3>1. recv[t] \in StagesOf(t)
      BY DEF StageType
    <3>2. recv[t].durable[g] \in Nat /\ recv[t].entries[g].ver \in Int
      BY <3>1 DEF StagesOf, EntriesOf
    <3>3. /\ recv[t].entries[g].chunks > 0 => Known(t, g, recv[t].entries[g].ver)
          /\ window[t].durable[g] <= recv[t].durable[g]
      BY <2>2 DEF WindowFits
    <3>4. window'[t].durable[g] <= recv[t].durable[g]
      BY <2>1, <3>2, <3>3
    <3>5. recv[t].entries[g].chunks > 0 => Known(t, g, recv[t].entries[g].ver)'
      <4>1. \A end \in Int : Known(t, g, end) => Known(t, g, end)'
        BY <2>1
      <4> QED
        BY <3>2, <3>3, <4>1 DEF Known
    <3> QED
      BY <3>4, <3>5
  <2> QED
    BY <1>4, <1>5, <2>3, <2>4, <2>5 DEF WindowFits, Known, Files
<1>10. CASE chan[t].up
  <2>1. worker'[t] = Advanced(t) /\ chan'[t].data = Append(chan[t].data, c)
    BY <1>10 DEF ChannelType, ChannelsOf, c
  <2>2. PipeFits(t)'
    BY <1>10, <2>1, PipeGrows DEF ByteFits, c
  <2>3. /\ worker'[t].state = "sending"
        /\ IF c.end = Sizes[t][c.file] THEN worker'[t].file = c.file + 1 /\ worker'[t].off = 0
           ELSE worker'[t].file = c.file /\ worker'[t].off = c.end
        /\ InFile(t, worker'[t].file, worker'[t].off)
    BY <2>1, AdvancedIs DEF ByteFits, c
  <2>4. PositionFits(t)'
    BY <2>3 DEF ByteFits, PositionFits, InFile, Total, Files
  <2>5. FreshFits(t)'
    BY <2>3 DEF FreshFits
  <2>6. TrackFits(t)'
    <3>1. ASSUME NEW x \in window'[t].chunks
          PROVE  Passed(x, worker'[t].file, worker'[t].off)
      <4>1. CASE x = c
        BY <1>1, <1>2, <1>3, <2>3, <4>1 DEF Passed
      <4>2. CASE x \in window[t].chunks
        <5>1. Passed(x, wf, wo)
          BY <1>7, <4>2 DEF TrackFits
        <5>2. x.file \in Nat /\ x.end \in Nat
          <6>1. x \in ChunksOf(t) /\ Files(t) \subseteq Nat
            BY <4>2, SizesType DEF WindowType, WindowsOf
          <6> QED
            BY <6>1 DEF ChunksOf
        <5> QED
          BY <1>1, <1>2, <1>3, <2>3, <5>1, <5>2 DEF Passed
      <4> QED
        BY <1>4, <4>1, <4>2
    <3>2. ASSUME NEW g \in Files(t), g > worker'[t].file
          PROVE  window'[t].acked[g] = Unknown
      <4>1. g > wf /\ g # c.file
        <5>1. Files(t) \subseteq Nat
          BY SizesType
        <5> QED
          BY <1>1, <1>2, <2>3, <3>2, <5>1
      <4> QED
        BY <1>4, <1>7, <4>1 DEF TrackFits
    <3>3. ASSUME NEW g \in Files(t), g = worker'[t].file
          PROVE  worker'[t].off = 0 \/ window'[t].acked[g] # Unknown
      <4>1. CASE worker'[t].off = 0
        BY <4>1
      <4>2. CASE worker'[t].off # 0
        <5>1. g = c.file
          BY <2>3, <3>3, <4>2
        <5>2. wo # Unknown
          BY <1>2 DEF Unknown
        <5> QED
          BY <1>4, <5>1, <5>2
      <4> QED
        BY <4>1, <4>2
    <3> QED
      BY <3>1, <3>2, <3>3 DEF TrackFits, Files
  <2> QED
    BY <1>6, <1>8, <1>9, <2>2, <2>4, <2>5, <2>6 DEF ByteFits
<1>11. CASE ~chan[t].up
  <2>1. chan'[t] = chan[t] /\ worker'[t] = [worker[t] EXCEPT !.state = "disconnected"]
    BY <1>11
  <2>2. worker'[t].state = "disconnected" /\ worker'[t].file = wf /\ worker'[t].off = wo
    BY <1>2, <2>1 DEF WorkersOf
  <2>3. PositionFits(t)' /\ PipeFits(t)'
    BY <2>1, <2>2, PutStays DEF ByteFits, StaysPut
  <2>4. FreshFits(t)' /\ TrackFits(t)'
    BY <2>2 DEF FreshFits, TrackFits
  <2> QED
    BY <1>6, <1>8, <1>9, <2>3, <2>4 DEF ByteFits
<1> QED
  BY <1>10, <1>11

----------------------------------------------------------------------------
(* A chunk is received                                                       *)

(* What is left of the batch entry of the chunk's file, and whether it is    *)
(* acknowledged now.                                                         *)
Batched(t, c, durable, entry) ==
  /\ entry \in EntriesOf
  /\ entry.ver = c.end /\ entry.dur = durable

(* Chunk c is received, its file's durable position is now durable, its batch*)
(* entry is entry, and it is acknowledged or not.                            *)
Receives(t, c, durable, entry, due) ==
  LET done == c.end = Sizes[t][c.file]
  IN /\ done => durable = c.end
     /\ durable \in {recv[t].durable[c.file], c.end}
     /\ Batched(t, c, durable, entry)
     /\ recv'[t] = [file |-> IF done THEN recv[t].file + 1 ELSE recv[t].file,
                    off |-> IF done THEN 0 ELSE c.end,
                    durable |-> [recv[t].durable EXCEPT ![c.file] = durable],
                    entries |-> [recv[t].entries EXCEPT ![c.file] = entry]]
     /\ chan'[t] = [up |-> chan[t].up, data |-> Tail(chan[t].data),
                    acks |-> IF due /\ chan[t].up
                               THEN Append(chan[t].acks,
                                           [file |-> c.file, ver |-> c.end, dur |-> durable])
                               ELSE chan[t].acks]

(* A batch entry after its acknowledgement.                                  *)
LEMMA EntryEmitted ==
  ASSUME NEW e \in EntriesOf
  PROVE  /\ Emitted(e) \in EntriesOf /\ Emitted(e).ver = e.ver /\ Emitted(e).dur = e.dur
         /\ Emitted(e).chunks = 0
BY DEF Emitted, EntriesOf

(* ReceiveChunk does that for the chunk at the head of the channel.          *)
LEMMA ReceiveIs ==
  ASSUME NEW t \in Transfers, ChannelType, StageType, ReceiveChunk(t)
  PROVE  /\ chan[t].data # <<>> /\ Head(chan[t].data) \in ChunksOf(t)
         /\ \E durable \in Nat, entry \in EntriesOf, due \in BOOLEAN :
              Receives(t, Head(chan[t].data), durable, entry, due)
<1> DEFINE c == Head(chan[t].data)
           r == recv[t]
           done == c.end = Sizes[t][c.file]
           old == IF r.entries[c.file].ver = Unknown
                    THEN [NoProgress EXCEPT !.ver = c.end - c.size]
                    ELSE r.entries[c.file]
           Entry(durable) == [old EXCEPT !.ver = c.end, !.dur = durable,
                                         !.bytes = old.bytes + c.size, !.chunks = old.chunks + 1]
           Due(e) == done \/ e.bytes >= AckBytes \/ e.chunks >= AckChunks
           Kept(e) == IF Due(e) THEN Emitted(e) ELSE e
<1>1. chan[t].data # <<>> /\ chan[t] \in ChannelsOf(t) /\ chan[t].data \in Seq(ChunksOf(t))
  BY DEF ReceiveChunk, ChannelType, ChannelsOf
<1>2. c \in ChunksOf(t)
  BY <1>1
<1>3. /\ c.file \in Files(t) /\ c.end \in Nat /\ c.size \in Nat /\ c.size <= c.end
  BY <1>2 DEF ChunksOf
<1>4. r \in StagesOf(t)
  BY DEF StageType
<1>5. r.entries[c.file] \in EntriesOf /\ r.durable[c.file] \in Nat
  BY <1>3, <1>4 DEF StagesOf
<1> HIDE DEF c
<1>6. old \in EntriesOf
  BY <1>3, <1>5 DEF EntriesOf, NoProgress, Unknown
<1>7. PICK durable \in {r.durable[c.file], c.end} :
        /\ done => durable = c.end
        /\ recv' = [recv EXCEPT ![t] =
             [r EXCEPT !.file = IF done THEN r.file + 1 ELSE r.file,
                       !.off = IF done THEN 0 ELSE c.end,
                       !.durable[c.file] = durable,
                       !.entries[c.file] = Kept(Entry(durable))]]
        /\ chan' = [chan EXCEPT ![t].data = Tail(chan[t].data),
             ![t].acks = IF Due(Entry(durable)) THEN PutAck(t, c.file, Entry(durable)) ELSE chan[t].acks]
  BY DEF ReceiveChunk, c
<1> DEFINE e == Entry(durable)
           due == Due(e)
           kept == Kept(e)
<1>8. durable \in Nat
  BY <1>3, <1>5
<1>9. e \in EntriesOf /\ e.ver = c.end /\ e.dur = durable
  <2> HIDE DEF old
  <2> DEFINE bytes == old.bytes + c.size
             chunks == old.chunks + 1
  <2>1. bytes \in Nat /\ chunks \in Nat
    BY <1>3, <1>6 DEF EntriesOf
  <2>2. e = [old EXCEPT !.ver = c.end, !.dur = durable, !.bytes = bytes, !.chunks = chunks]
    OBVIOUS
  <2> HIDE DEF Entry, bytes, chunks
  <2>3. c.end \in Int
    BY <1>3
  <2> QED
    BY <1>6, <1>8, <2>1, <2>2, <2>3 DEF EntriesOf
<1> HIDE DEF old, Entry
<1>11. Emitted(e) \in EntriesOf /\ Emitted(e).ver = e.ver /\ Emitted(e).dur = e.dur
  BY <1>9, EntryEmitted
<1>12. Batched(t, c, durable, kept)
  BY <1>9, <1>11 DEF Batched
<1> HIDE DEF Due
<1>13. recv'[t] = [r EXCEPT !.file = IF done THEN r.file + 1 ELSE r.file,
                            !.off = IF done THEN 0 ELSE c.end,
                            !.durable[c.file] = durable,
                            !.entries[c.file] = kept]
  <2>1. t \in DOMAIN recv
    BY DEF StageType
  <2> HIDE DEF Kept, done, r
  <2> QED
    BY <1>7, <2>1
<1>14. recv'[t] = [file |-> IF done THEN r.file + 1 ELSE r.file,
                   off |-> IF done THEN 0 ELSE c.end,
                   durable |-> [r.durable EXCEPT ![c.file] = durable],
                   entries |-> [r.entries EXCEPT ![c.file] = kept]]
  <2> HIDE DEF kept, done
  <2> QED
    BY <1>4, <1>13 DEF StagesOf
<1>15. PutAck(t, c.file, e) = IF chan[t].up
                                THEN Append(chan[t].acks, [file |-> c.file, ver |-> c.end, dur |-> durable])
                                ELSE chan[t].acks
  BY <1>9 DEF PutAck, Emit
<1>16. chan'[t] = [chan[t] EXCEPT !.data = Tail(chan[t].data),
                     !.acks = IF due THEN PutAck(t, c.file, e) ELSE chan[t].acks]
  <2>1. t \in DOMAIN chan
    BY DEF ChannelType
  <2> QED
    BY <1>7, <2>1
<1>17. chan'[t] = [up |-> chan[t].up, data |-> Tail(chan[t].data),
                   acks |-> IF due THEN PutAck(t, c.file, e) ELSE chan[t].acks]
  <2> HIDE DEF due, e
  <2> QED
    BY <1>1, <1>16 DEF ChannelsOf
<1>18. due \in BOOLEAN
  BY DEF Due
<1> HIDE DEF due, e, kept
<1>19. chan'[t] = [up |-> chan[t].up, data |-> Tail(chan[t].data),
                   acks |-> IF due /\ chan[t].up
                              THEN Append(chan[t].acks, [file |-> c.file, ver |-> c.end, dur |-> durable])
                              ELSE chan[t].acks]
  BY <1>15, <1>17
<1>20. Receives(t, c, durable, kept, due)
  BY <1>7, <1>12, <1>14, <1>19 DEF Receives
<1> QED
  <2>1. kept \in EntriesOf
    BY <1>12 DEF Batched
  <2> QED
    BY <1>1, <1>2, <1>8, <1>18, <1>20, <2>1 DEF c

(* The chunk at the head joins the receiver's position.                      *)
LEMMA HeadIs ==
  ASSUME NEW t \in Transfers, ChannelType, StageType, PipeFits(t), chan[t].data # <<>>
  PROVE  LET c == Head(chan[t].data)
         IN /\ c \in ChunksOf(t)
            /\ c.file \in Files(t) /\ c.file \in Nat /\ c.end \in Nat /\ c.size \in Nat
            /\ c.size > 0 /\ c.end <= Sizes[t][c.file] /\ Sizes[t][c.file] \in Nat
            /\ c.file = recv[t].file /\ c.end = recv[t].off + c.size
            /\ recv[t] \in StagesOf(t) /\ recv[t].off \in Nat
<1> DEFINE c == Head(chan[t].data)
<1>1. c \in ChunksOf(t)
  BY DEF ChannelType, ChannelsOf
<1>2. c.file = recv[t].file /\ c.end = recv[t].off + c.size
  BY DEF PipeFits, HeadFits
<1> HIDE DEF c
<1>3. /\ c.file \in Files(t) /\ c.end \in Nat /\ c.size \in Nat
      /\ c.size > 0 /\ c.end <= Sizes[t][c.file]
  BY <1>1 DEF ChunksOf
<1>4. Files(t) \subseteq Nat /\ \A g \in Files(t) : Sizes[t][g] \in Nat
  BY SizesType
<1>5. recv[t] \in StagesOf(t) /\ recv[t].off \in Nat
  BY DEF StageType, StagesOf
<1> QED
  BY <1>1, <1>2, <1>3, <1>4, <1>5 DEF c

(* What was received stays received.                                         *)
LEMMA ReceivedGrows ==
  ASSUME NEW t \in Transfers, ChannelType, StageType, PipeFits(t), chan[t].data # <<>>,
         NEW durable, NEW entry, NEW due,
         Receives(t, Head(chan[t].data), durable, entry, due)
  PROVE  /\ \A g \in Files(t), v \in Int : Received(t, g, v) => Received(t, g, v)'
         /\ \A g \in Files(t), v \in Int :
              g = Head(chan[t].data).file /\ v = Head(chan[t].data).end => Received(t, g, v)'
<1> DEFINE c == Head(chan[t].data)
<1>1. /\ c.file \in Nat /\ c.end \in Nat /\ c.size \in Nat /\ c.file = recv[t].file
      /\ c.end = recv[t].off + c.size /\ recv[t].off \in Nat
  BY HeadIs
<1> HIDE DEF c
<1>2. /\ recv'[t].file = IF c.end = Sizes[t][c.file] THEN recv[t].file + 1 ELSE recv[t].file
      /\ recv'[t].off = IF c.end = Sizes[t][c.file] THEN 0 ELSE c.end
  BY DEF Receives, c
<1>3. Files(t) \subseteq Nat
  BY SizesType
<1>4. ASSUME NEW g \in Files(t), NEW v \in Int, Received(t, g, v)
      PROVE  Received(t, g, v)'
  <2>1. v <= 0 \/ g < recv'[t].file \/ (g = recv'[t].file /\ v <= recv'[t].off)
    BY <1>1, <1>2, <1>3, <1>4 DEF Received
  <2> QED
    BY <2>1 DEF Received
<1>5. \/ c.file < recv'[t].file
      \/ c.file = recv'[t].file /\ c.end <= recv'[t].off
  BY <1>1, <1>2
<1>6. ASSUME NEW g \in Files(t), NEW v \in Int, g = c.file, v = c.end
      PROVE  Received(t, g, v)'
  BY <1>5, <1>6 DEF Received
<1> QED
  BY <1>4, <1>6 DEF c

(* The data is shorter by the chunk received.                                *)
LEMMA PipeShortens ==
  ASSUME NEW t \in Transfers, ChannelType, StageType, PipeFits(t), chan[t].data # <<>>,
         worker'[t] = worker[t],
         NEW durable, NEW entry, NEW due,
         Receives(t, Head(chan[t].data), durable, entry, due)
  PROVE  PipeFits(t)'
<1> DEFINE d == chan[t].data
           c == Head(d)
           n == Len(d)
           rest == Tail(d)
           rf == recv'[t].file
           ro == recv'[t].off
<1>1. /\ c.file \in Nat /\ c.end \in Nat /\ c.size \in Nat /\ c.size > 0
      /\ c.file = recv[t].file /\ c.end = recv[t].off + c.size /\ recv[t].off \in Nat
      /\ c.end <= Sizes[t][c.file] /\ Sizes[t][c.file] \in Nat
  BY HeadIs
<1>2. d \in Seq(ChunksOf(t)) /\ d # <<>>
  BY DEF ChannelType, ChannelsOf
<1>3. /\ n \in Nat /\ n > 0 /\ c = d[1]
      /\ Len(rest) = n - 1
      /\ \A i \in 1..(n - 1) : rest[i] = d[i + 1]
      /\ rest = <<>> <=> n = 1
      /\ rest # <<>> => Head(rest) = d[2]
  <2>1. /\ n \in Nat /\ n > 0 /\ c = d[1]
        /\ rest \in Seq(ChunksOf(t)) /\ Len(rest) = n - 1
        /\ \A i \in 1..(n - 1) : rest[i] = d[i + 1]
    BY <1>2
  <2> HIDE DEF rest, c, n, d
  <2>2. rest = <<>> <=> n = 1
    BY <2>1
  <2>3. ASSUME rest # <<>> PROVE Head(rest) = d[2]
    <3>1. Head(rest) = rest[1] /\ 1 \in 1..(n - 1) /\ 1 + 1 = 2
      BY <2>1, <2>2, <2>3
    <3> QED
      BY <2>1, <3>1
  <2> QED
    BY <2>1, <2>2, <2>3
<1>4. /\ rf = IF c.end = Sizes[t][c.file] THEN recv[t].file + 1 ELSE recv[t].file
      /\ ro = IF c.end = Sizes[t][c.file] THEN 0 ELSE c.end
      /\ chan'[t].data = rest /\ chan'[t].up = chan[t].up
  BY DEF Receives
<1>5. \A i \in 1..n : d[i] \in ChunksOf(t)
  BY <1>2
<1>6. \A x \in ChunksOf(t) : /\ x.file \in Nat /\ x.end \in Nat /\ x.size \in Nat
                             /\ x.size > 0 /\ x.size <= x.end /\ x.end <= Sizes[t][x.file]
  <2>1. Files(t) \subseteq Nat
    BY SizesType
  <2> QED
    BY <2>1 DEF ChunksOf
<1>7. EndFits(t) /\ Between(t, d) /\ InOrder(t, d)
  BY DEF PipeFits, DataFits
<1> HIDE DEF d, c, n, rest, rf, ro
<1>8. HeadFits(t)'
  <2> SUFFICES ASSUME rest # <<>>
               PROVE  Head(rest).file = rf /\ Head(rest).end = ro + Head(rest).size
    BY <1>4 DEF HeadFits, rf, ro
  <2>1. n \in Nat /\ n >= 2 /\ 1 \in 1..n /\ 2 \in 1..n
    BY <1>3
  <2>2. Follows(t, d[1], d[2])
    BY <1>7, <2>1 DEF InOrder, n
  <2>3. d[2].size \in Nat /\ d[2].end \in Nat
    BY <1>5, <1>6, <2>1
  <2>4. Head(rest) = d[2] /\ c = d[1]
    BY <1>3
  <2> QED
    BY <1>1, <1>4, <2>2, <2>3, <2>4 DEF Follows
<1>9. EndFits(t)'
  <2> SUFFICES ASSUME chan[t].up
               PROVE  IF rest = <<>> THEN worker[t].file = rf /\ worker[t].off = ro
                      ELSE IF rest[Len(rest)].end = Sizes[t][rest[Len(rest)].file]
                        THEN worker[t].file = rest[Len(rest)].file + 1 /\ worker[t].off = 0
                        ELSE worker[t].file = rest[Len(rest)].file
                               /\ worker[t].off = rest[Len(rest)].end
    BY <1>4 DEF EndFits, rf, ro
  <2>1. IF d[n].end = Sizes[t][d[n].file]
          THEN worker[t].file = d[n].file + 1 /\ worker[t].off = 0
          ELSE worker[t].file = d[n].file /\ worker[t].off = d[n].end
    BY <1>2, <1>7 DEF EndFits, d, n
  <2>2. CASE n = 1
    BY <1>1, <1>3, <1>4, <2>1, <2>2
  <2>3. CASE n # 1
    <3>1. n - 1 \in 1..(n - 1) /\ n - 1 + 1 = n
      BY <1>3, <2>3
    <3>2. rest # <<>> /\ rest[Len(rest)] = d[n]
      BY <1>3, <2>3, <3>1
    <3> QED
      BY <2>1, <3>2
  <2> QED
    BY <2>2, <2>3
<1>10. Between(t, chan[t].data)'
  <2> SUFFICES ASSUME NEW i \in 1..(n - 1)
               PROVE  /\ Ahead(rest[i], rf, ro)
                      /\ chan[t].up => Passed(rest[i], worker[t].file, worker[t].off)
    BY <1>3, <1>4 DEF Between, rf, ro
  <2>1. i + 1 \in 1..n /\ 1 \in 1..n /\ 1 < i + 1 /\ rest[i] = d[i + 1] /\ c = d[1]
    BY <1>3
  <2>2. Ahead(d[i + 1], d[1].file, d[1].end)
    BY <1>7, <2>1 DEF InOrder, n
  <2>3. Ahead(rest[i], c.file, c.end) /\ rest[i] \in ChunksOf(t)
    BY <1>5, <2>1, <2>2
  <2>4. Ahead(rest[i], rf, ro)
    <3> DEFINE x == rest[i]
    <3>1. /\ x.file \in Nat /\ x.end \in Nat /\ x.size \in Nat
          /\ x.size > 0 /\ x.size <= x.end /\ x.end <= Sizes[t][x.file]
      BY <1>6, <2>3
    <3>2. x.file > c.file \/ (x.file = c.file /\ x.end - x.size >= c.end)
      BY <2>3 DEF Ahead
    <3> HIDE DEF x
    <3>3. CASE c.end = Sizes[t][c.file]
      <4>1. x.file > c.file
        BY <1>1, <3>1, <3>2, <3>3
      <4>2. x.end - x.size >= 0
        BY <3>1
      <4>3. Ahead(x, c.file + 1, 0)
        BY <1>1, <3>1, <4>1, <4>2 DEF Ahead
      <4> QED
        BY <1>1, <1>4, <3>3, <4>3 DEF x
    <3>4. CASE c.end # Sizes[t][c.file]
      BY <1>1, <1>4, <2>3, <3>4 DEF x
    <3> QED
      BY <3>3, <3>4
  <2>5. chan[t].up => Passed(rest[i], worker[t].file, worker[t].off)
    BY <1>7, <2>1 DEF Between, n
  <2> QED
    BY <2>4, <2>5
<1>11. InOrder(t, chan[t].data)'
  <2> SUFFICES ASSUME NEW i \in 1..(n - 1), NEW j \in 1..(n - 1)
               PROVE  /\ i < j => Ahead(rest[j], rest[i].file, rest[i].end)
                      /\ j = i + 1 => Follows(t, rest[i], rest[j])
    BY <1>3, <1>4 DEF InOrder
  <2>1. /\ i + 1 \in 1..n /\ j + 1 \in 1..n /\ rest[i] = d[i + 1] /\ rest[j] = d[j + 1]
        /\ i < j => i + 1 < j + 1
        /\ j = i + 1 => j + 1 = (i + 1) + 1
    BY <1>3
  <2> QED
    BY <1>7, <2>1 DEF InOrder, n
<1> QED
  BY <1>8, <1>9, <1>10, <1>11 DEF PipeFits, DataFits

(* One more element keeps the type of a sequence.                            *)
LEMMA AppendType ==
  ASSUME NEW S, NEW q \in Seq(S), NEW x \in S
  PROVE  Append(q, x) \in Seq(S)
OBVIOUS

LEMMA AppendAt ==
  ASSUME NEW S, NEW q \in Seq(S), NEW x, NEW i \in 1..Len(Append(q, x))
  PROVE  Append(q, x)[i] = x \/ (i \in 1..Len(q) /\ Append(q, x)[i] = q[i])
<1>1. Len(q) \in Nat /\ Len(Append(q, x)) = Len(q) + 1 /\ Append(q, x)[Len(q) + 1] = x
  OBVIOUS
<1>2. CASE i = Len(q) + 1
  BY <1>1, <1>2
<1>3. CASE i # Len(q) + 1
  <2>1. i \in 1..Len(q)
    BY <1>1, <1>3
  <2> QED BY <2>1
<1> QED BY <1>2, <1>3

(* The acknowledgements on their way, by file and offset.                    *)
LEMMA AckType ==
  ASSUME NEW t \in Transfers, ChannelType
  PROVE  /\ chan[t].acks \in Seq(AcksOf(t)) /\ Len(chan[t].acks) \in Nat
         /\ \A i \in 1..Len(chan[t].acks) :
              /\ chan[t].acks[i].file \in Files(t)
              /\ chan[t].acks[i].ver \in Nat /\ chan[t].acks[i].dur \in Nat
<1>1. chan[t].acks \in Seq(AcksOf(t))
  BY DEF ChannelType, ChannelsOf
<1>2. \A i \in 1..Len(chan[t].acks) : chan[t].acks[i] \in AcksOf(t)
  BY <1>1
<1> QED
  BY <1>1, <1>2 DEF AcksOf

(* An acknowledgement of what the receiver holds may join those on their way:*)
(* the durable positions of a file only move forward.                        *)
LEMMA AckJoins ==
  ASSUME NEW t \in Transfers, ChannelType, StageType, AckFits(t), chan[t].up,
         NEW ack \in AcksOf(t), ack.dur = recv'[t].durable[ack.file],
         Received(t, ack.file, ack.ver)',
         ack' = ack,
         \A g \in Files(t), v \in Int : Received(t, g, v) => Received(t, g, v)',
         \A g \in Files(t) : /\ recv'[t].durable[g] \in Nat
                             /\ recv[t].durable[g] <= recv'[t].durable[g],
         chan'[t].acks = Append(chan[t].acks, ack), chan'[t].up
  PROVE  AckFits(t)'
<1> DEFINE a == chan[t].acks
           n == Len(a)
           more == Append(a, ack)
<1>1. /\ a \in Seq(AcksOf(t)) /\ n \in Nat
      /\ \A i \in 1..n : a[i].file \in Files(t) /\ a[i].ver \in Nat /\ a[i].dur \in Nat
  BY AckType
<1>2. /\ Len(more) = n + 1 /\ more[n + 1] = ack
      /\ \A i \in 1..n : more[i] = a[i]
  BY <1>1
<1>3. ack.file \in Files(t) /\ ack.ver \in Nat /\ ack.dur \in Nat
  BY DEF AcksOf
<1>4. chan'[t].acks = more
  OBVIOUS
<1>5. \A g \in Files(t) : recv[t].durable[g] \in Nat
  BY DEF StageType, StagesOf
<1> HIDE DEF a, n, more
<1>6. ASSUME NEW i \in 1..n
      PROVE  /\ Received(t, a[i].file, a[i].ver)
             /\ a[i].dur <= recv[t].durable[a[i].file]
             /\ a[i].dur <= recv'[t].durable[a[i].file]
  <2>1. Received(t, a[i].file, a[i].ver) /\ a[i].dur <= recv[t].durable[a[i].file]
    BY DEF AckFits, a, n
  <2> QED
    BY <1>1, <1>5, <2>1
<1>7. ASSUME NEW i \in 1..(n + 1)
      PROVE  /\ \/ more[i].ver <= 0 \/ more[i].file < recv'[t].file
                \/ more[i].file = recv'[t].file /\ more[i].ver <= recv'[t].off
             /\ more[i].dur <= recv'[t].durable[more[i].file]
  <2>1. CASE i \in 1..n
    <3>1. more[i] = a[i] /\ a[i].file \in Files(t) /\ a[i].ver \in Int
      BY <1>1, <1>2, <2>1
    <3>2. \A g \in Files(t), v \in Int : g = a[i].file /\ v = a[i].ver => Received(t, g, v)'
      BY <1>6, <2>1
    <3>3. \/ more[i].ver <= 0 \/ more[i].file < recv'[t].file
          \/ more[i].file = recv'[t].file /\ more[i].ver <= recv'[t].off
      BY <3>1, <3>2 DEF Received
    <3> QED
      BY <1>6, <2>1, <3>1, <3>3
  <2>2. CASE i = n + 1
    <3>1. ack.dur <= recv'[t].durable[ack.file]
      BY <1>3
    <3>2. \/ ack.ver <= 0 \/ ack.file < recv'[t].file
          \/ ack.file = recv'[t].file /\ ack.ver <= recv'[t].off
      BY DEF Received
    <3> QED
      BY <1>2, <2>2, <3>1, <3>2
  <2> QED
    BY <1>1, <2>1, <2>2
<1>8. ASSUME NEW i \in 1..(n + 1), NEW j \in 1..(n + 1), i < j, more[i].file = more[j].file
      PROVE  more[i].dur <= more[j].dur
  <2>1. i \in 1..n /\ more[i] = a[i]
    BY <1>1, <1>2, <1>8
  <2>2. CASE j \in 1..n
    BY <1>2, <1>8, <2>1, <2>2 DEF AckFits, a, n
  <2>3. CASE j = n + 1
    <3>1. a[i].dur <= recv'[t].durable[a[i].file]
      BY <1>6, <2>1
    <3>2. a[i].file = ack.file
      BY <1>2, <1>8, <2>1, <2>3
    <3> QED
      BY <1>2, <2>1, <2>3, <3>1, <3>2
  <2> QED
    BY <1>1, <2>2, <2>3
<1> QED
  BY <1>2, <1>4, <1>7, <1>8 DEF AckFits, Received

(* The same for the window: the acknowledgement is of a chunk it knows.      *)
LEMMA AckKnown ==
  ASSUME NEW t \in Transfers, ChannelType,
         window'[t] = window[t],
         NEW ack \in AcksOf(t), Known(t, ack.file, ack.ver),
         window[t].durable[ack.file] <= ack.dur,
         chan'[t].acks \in {chan[t].acks, Append(chan[t].acks, ack)},
         \A i \in 1..Len(chan[t].acks) :
           LET a == chan[t].acks[i]
           IN Known(t, a.file, a.ver) /\ window[t].durable[a.file] <= a.dur
  PROVE  \A i \in 1..Len(chan'[t].acks) :
           LET a == chan'[t].acks[i]
           IN Known(t, a.file, a.ver) /\ window[t].durable[a.file] <= a.dur
<1> DEFINE a == chan[t].acks
<1>1. a \in Seq(AcksOf(t)) /\ Len(a) \in Nat
  BY AckType
<1> SUFFICES ASSUME NEW i \in 1..Len(chan'[t].acks)
             PROVE  LET b == chan'[t].acks[i]
                    IN Known(t, b.file, b.ver) /\ window[t].durable[b.file] <= b.dur
  OBVIOUS
<1>2. chan'[t].acks[i] = ack \/ (i \in 1..Len(a) /\ chan'[t].acks[i] = a[i])
  <2>1. CASE chan'[t].acks = a
    BY <2>1
  <2>2. CASE chan'[t].acks = Append(a, ack)
    <3>1. i \in 1..Len(Append(a, ack))
      BY <2>2
    <3>2. Append(a, ack)[i] = ack \/ (i \in 1..Len(a) /\ Append(a, ack)[i] = a[i])
      BY <1>1, <3>1, AppendAt
    <3> QED BY <2>2, <3>2
  <2> QED BY <2>1, <2>2
<1> QED
  BY <1>2

(* A chunk is received, and acknowledged when the batch is due.              *)
LEMMA ReceiveKeeps ==
  ASSUME NEW t \in Transfers, WindowType, ChannelType, StageType, ByteFits(t),
         chan[t].data # <<>>, worker'[t] = worker[t], window'[t] = window[t],
         NEW durable \in Nat, NEW entry \in EntriesOf, NEW due \in BOOLEAN,
         Receives(t, Head(chan[t].data), durable, entry, due)
  PROVE  ByteFits(t)'
<1> DEFINE c == Head(chan[t].data)
           done == c.end = Sizes[t][c.file]
           ack == [file |-> c.file, ver |-> c.end, dur |-> durable]
<1>1. /\ c \in ChunksOf(t)
      /\ c.file \in Files(t) /\ c.file \in Nat /\ c.end \in Nat /\ c.size \in Nat
      /\ c.size > 0 /\ c.end <= Sizes[t][c.file] /\ Sizes[t][c.file] \in Nat
      /\ c.file = recv[t].file /\ c.end = recv[t].off + c.size
      /\ recv[t] \in StagesOf(t) /\ recv[t].off \in Nat
  BY HeadIs DEF ByteFits
<1>2. PipeFits(t)'
  BY PipeShortens DEF ByteFits
<1>3. /\ \A g \in Files(t), v \in Int : Received(t, g, v) => Received(t, g, v)'
      /\ \A g \in Files(t), v \in Int : g = c.file /\ v = c.end => Received(t, g, v)'
  BY ReceivedGrows DEF ByteFits
<1>4. /\ Total(t) \in Nat /\ Files(t) = 1..Total(t)
      /\ \A g \in Files(t) : Sizes[t][g] \in Nat /\ Sizes[t][g] > 0
  BY SizesType
<1>5. recv[t].durable \in [Files(t) -> Nat] /\ recv[t].entries \in [Files(t) -> EntriesOf]
  BY <1>1 DEF StagesOf
<1>6. PICK i \in 1..Len(chan[t].data) : chan[t].data[i] = c
  <2>1. chan[t].data \in Seq(ChunksOf(t))
    BY DEF ChannelType, ChannelsOf
  <2> QED
    BY <2>1
<1> HIDE DEF c
<1>7. /\ done => durable = c.end
      /\ durable \in {recv[t].durable[c.file], c.end}
      /\ entry.ver = c.end /\ entry.dur = durable
      /\ recv'[t].file = IF done THEN recv[t].file + 1 ELSE recv[t].file
      /\ recv'[t].off = IF done THEN 0 ELSE c.end
      /\ recv'[t].durable = [recv[t].durable EXCEPT ![c.file] = durable]
      /\ recv'[t].entries = [recv[t].entries EXCEPT ![c.file] = entry]
  BY DEF Receives, Batched, c
<1>8. /\ chan'[t].up = chan[t].up /\ chan'[t].data = Tail(chan[t].data)
      /\ chan'[t].acks = IF due /\ chan[t].up THEN Append(chan[t].acks, ack) ELSE chan[t].acks
  BY DEF Receives, c
<1> HIDE DEF done
<1>9. \A g \in Files(t) : IF g = c.file
                            THEN recv'[t].durable[g] = durable /\ recv'[t].entries[g] = entry
                            ELSE /\ recv'[t].durable[g] = recv[t].durable[g]
                                 /\ recv'[t].entries[g] = recv[t].entries[g]
  BY <1>5, <1>7
<1>10. PositionFits(t)
  BY DEF ByteFits
<1>11. recv[t].durable[c.file] <= recv[t].off /\ recv[t].durable[c.file] \in Nat
  BY <1>1, <1>4, <1>5, <1>10 DEF PositionFits
<1>12. durable <= c.end /\ recv[t].durable[c.file] <= durable
  BY <1>1, <1>7, <1>11
<1>13. \A g \in Files(t) : /\ recv'[t].durable[g] \in Nat
                           /\ recv[t].durable[g] <= recv'[t].durable[g]
  BY <1>5, <1>9, <1>12
<1>14. PositionFits(t)'
  <2>1. InFile(t, worker'[t].file, worker'[t].off)
    BY <1>10 DEF PositionFits
  <2>2. InFile(t, recv'[t].file, recv'[t].off)
    <3>1. CASE done
      BY <1>1, <1>4, <1>7, <3>1 DEF InFile
    <3>2. CASE ~done
      BY <1>1, <1>4, <1>7, <3>2 DEF InFile, done
    <3> QED
      BY <3>1, <3>2
  <2>3. \A g \in Files(t) : g > recv'[t].file => recv'[t].durable[g] = 0
    <3> SUFFICES ASSUME NEW g \in Files(t), g > recv'[t].file
                 PROVE  recv'[t].durable[g] = 0
      OBVIOUS
    <3>1. g > recv[t].file /\ g # c.file
      BY <1>1, <1>4, <1>7
    <3> QED
      BY <1>9, <1>10, <3>1 DEF PositionFits
  <2>4. ASSUME recv'[t].file <= Total(t)
        PROVE  recv'[t].durable[recv'[t].file] <= recv'[t].off
    <3>1. CASE done
      <4>1. recv'[t].file = recv[t].file + 1 /\ recv'[t].file \in Files(t)
        BY <1>1, <1>4, <1>7, <2>4, <3>1
      <4>2. recv'[t].file > recv[t].file /\ recv'[t].file # c.file
        BY <1>1, <4>1
      <4>3. recv[t].durable[recv'[t].file] = 0
        BY <1>10, <4>1, <4>2 DEF PositionFits
      <4>4. recv'[t].durable[recv'[t].file] = 0
        BY <1>9, <4>1, <4>2, <4>3
      <4> QED
        BY <1>7, <3>1, <4>4
    <3>2. CASE ~done
      BY <1>1, <1>7, <1>9, <1>12, <3>2
    <3> QED
      BY <3>1, <3>2
  <2> QED
    BY <2>1, <2>2, <2>3, <2>4 DEF PositionFits, InFile, Total, Files
<1>15. FreshFits(t)'
  <2>1. worker[t].state # "baseline"
    BY DEF ByteFits, FreshFits, Quiet
  <2>2. worker[t].state \in {"admitted", "dialing"} => Fresh(t)
    BY DEF ByteFits, FreshFits
  <2> QED
    BY <2>1, <2>2 DEF FreshFits, Fresh, Files
<1>16. TrackFits(t)'
  BY DEF ByteFits, TrackFits, Passed, Files
<1>17. WindowReceived(t)'
  <2> SUFFICES ASSUME window[t].open, NEW g \in Files(t)
               PROVE  Received(t, g, window[t].acked[g])'
    BY DEF WindowReceived, Files
  <2>1. Received(t, g, window[t].acked[g]) /\ window[t].acked[g] \in Int
    BY DEF ByteFits, WindowReceived, WindowType, WindowsOf, Offsets
  <2>2. \A v \in Int : v = window[t].acked[g] => Received(t, g, v)'
    BY <1>3, <2>1
  <2> QED
    BY <2>1, <2>2 DEF Received
<1>18. ack \in AcksOf(t) /\ ack.file = c.file /\ ack.ver = c.end /\ ack.dur = durable
  BY <1>1 DEF AcksOf
<1> HIDE DEF ack
<1>19. AckFits(t)'
  <2>1. CASE due /\ chan[t].up
    <3>1. /\ chan'[t].acks = Append(chan[t].acks, ack) /\ chan'[t].up
          /\ ack.dur = recv'[t].durable[ack.file]
      BY <1>1, <1>8, <1>9, <1>18, <2>1
    <3>2. \/ ack.ver <= 0 \/ ack.file < recv'[t].file
          \/ ack.file = recv'[t].file /\ ack.ver <= recv'[t].off
      <4>1. \A g \in Files(t), v \in Int : g = ack.file /\ v = ack.ver => Received(t, g, v)'
        BY <1>3, <1>18
      <4>2. ack.file \in Files(t) /\ ack.ver \in Int
        BY <1>1, <1>18
      <4> QED
        BY <4>1, <4>2 DEF Received
    <3>3. AckFits(t)
      BY DEF ByteFits
    <3>4. \A b \in AcksOf(t) : b = ack =>
            /\ b.dur = recv'[t].durable[b.file] /\ chan'[t].acks = Append(chan[t].acks, b)
            /\ \/ b.ver <= 0 \/ b.file < recv'[t].file
               \/ b.file = recv'[t].file /\ b.ver <= recv'[t].off
      BY <3>1, <3>2
    <3>5. PICK b \in AcksOf(t) : b = ack
      BY <1>18
    <3>6. Received(t, b.file, b.ver)'
      BY <3>4, <3>5 DEF Received
    <3> QED
      BY <1>3, <1>13, <2>1, <3>1, <3>3, <3>4, <3>5, <3>6, AckJoins
  <2>2. CASE ~ (due /\ chan[t].up)
    <3>1. chan'[t].acks = chan[t].acks
      BY <1>8, <2>2
    <3>2. ~chan'[t].up => chan'[t].acks = <<>>
      BY <1>8, <3>1 DEF ByteFits, AckFits
    <3>3. ASSUME NEW j \in 1..Len(chan[t].acks)
          PROVE  LET b == chan[t].acks[j]
                 IN /\ \/ b.ver <= 0 \/ b.file < recv'[t].file
                       \/ b.file = recv'[t].file /\ b.ver <= recv'[t].off
                    /\ b.dur <= recv'[t].durable[b.file]
      <4> DEFINE b == chan[t].acks[j]
      <4>1. b.file \in Files(t) /\ b.ver \in Nat /\ b.dur \in Nat
        BY AckType
      <4>2. Received(t, b.file, b.ver) /\ b.dur <= recv[t].durable[b.file]
        BY DEF ByteFits, AckFits
      <4> HIDE DEF b
      <4>3. \A g \in Files(t), v \in Int : g = b.file /\ v = b.ver => Received(t, g, v)'
        BY <1>3, <4>2
      <4>4. \/ b.ver <= 0 \/ b.file < recv'[t].file
            \/ b.file = recv'[t].file /\ b.ver <= recv'[t].off
        BY <4>1, <4>3 DEF Received
      <4>5. b.dur <= recv'[t].durable[b.file]
        BY <1>5, <1>13, <4>1, <4>2
      <4> QED
        BY <4>4, <4>5 DEF b
    <3>4. \A i1, j \in 1..Len(chan[t].acks) :
            i1 < j /\ chan[t].acks[i1].file = chan[t].acks[j].file
              => chan[t].acks[i1].dur <= chan[t].acks[j].dur
      BY DEF ByteFits, AckFits
    <3> QED
      BY <3>1, <3>2, <3>3, <3>4 DEF AckFits, Received
  <2> QED
    BY <2>1, <2>2
<1>20. BatchFits(t)'
  <2>1. ASSUME NEW g \in Files(t), recv'[t].entries[g].chunks > 0
        PROVE  /\ recv'[t].entries[g].ver \in Nat
               /\ recv'[t].entries[g].dur = recv'[t].durable[g]
               /\ Received(t, g, recv[t].entries[g].ver)'
    <3>1. CASE g = c.file
      <4>1. recv'[t].entries[g].ver = c.end /\ recv'[t].entries[g].dur = recv'[t].durable[g]
        BY <1>7, <1>9, <3>1
      <4>2. \A v \in Int : v = c.end => Received(t, g, v)'
        BY <1>3, <3>1
      <4> QED
        BY <1>1, <4>1, <4>2 DEF Received
    <3>2. CASE g # c.file
      <4>1. recv'[t].entries[g] = recv[t].entries[g] /\ recv'[t].durable[g] = recv[t].durable[g]
        BY <1>9, <3>2
      <4>2. /\ recv[t].entries[g].ver \in Nat
            /\ recv[t].entries[g].dur = recv[t].durable[g]
            /\ Received(t, g, recv[t].entries[g].ver)
        BY <2>1, <4>1 DEF ByteFits, BatchFits
      <4>3. \A v \in Int : v = recv[t].entries[g].ver => Received(t, g, v)'
        BY <1>3, <4>2
      <4> QED
        BY <4>1, <4>2, <4>3 DEF Received
    <3> QED
      BY <3>1, <3>2
  <2> QED
    BY <2>1 DEF BatchFits, Files
<1>21. WindowFits(t)'
  <2> SUFFICES ASSUME window[t].open, chan[t].up PROVE WindowFits(t)'
    BY <1>8 DEF WindowFits
  <2>1. /\ \A j \in 1..Len(chan[t].data) : chan[t].data[j] \in window[t].chunks
        /\ \A j \in 1..Len(chan[t].acks) :
             LET a == chan[t].acks[j]
             IN Known(t, a.file, a.ver) /\ window[t].durable[a.file] <= a.dur
        /\ \A g \in Files(t) :
             /\ recv[t].entries[g].chunks > 0 => Known(t, g, recv[t].entries[g].ver)
             /\ window[t].durable[g] <= recv[t].durable[g]
    BY DEF ByteFits, WindowFits
  <2>2. c \in window[t].chunks
    BY <1>6, <2>1
  <2>3. Known(t, c.file, c.end)
    BY <2>2 DEF Known
  <2>4. \A j \in 1..Len(chan'[t].data) : chan'[t].data[j] \in window[t].chunks
    <3>1. chan[t].data \in Seq(ChunksOf(t))
      BY DEF ChannelType, ChannelsOf
    <3>2. \A j \in 1..Len(chan'[t].data) : /\ j + 1 \in 1..Len(chan[t].data)
                                          /\ chan'[t].data[j] = chan[t].data[j + 1]
      BY <1>8, <3>1
    <3> QED
      BY <2>1, <3>2
  <2>5. \A g \in Files(t) : window[t].durable[g] \in Int
    BY DEF WindowType, WindowsOf, Offsets
  <2>6. \A g \in Files(t) : window[t].durable[g] <= recv'[t].durable[g]
    BY <1>5, <1>13, <2>1, <2>5
  <2>7. window[t].durable[ack.file] <= ack.dur /\ Known(t, ack.file, ack.ver)
    BY <1>1, <1>9, <1>18, <2>3, <2>6
  <2>8. chan'[t].acks \in {chan[t].acks, Append(chan[t].acks, ack)}
    BY <1>8
  <2>9. \A j \in 1..Len(chan'[t].acks) :
          LET a == chan'[t].acks[j]
          IN Known(t, a.file, a.ver) /\ window[t].durable[a.file] <= a.dur
    BY <1>18, <2>1, <2>7, <2>8, AckKnown
  <2>10. ASSUME NEW g \in Files(t), recv'[t].entries[g].chunks > 0
         PROVE  Known(t, g, recv'[t].entries[g].ver)
    BY <1>7, <1>9, <2>1, <2>3, <2>10
  <2> QED
    BY <2>4, <2>6, <2>9, <2>10 DEF WindowFits, Known, Files
<1> QED
  BY <1>2, <1>14, <1>15, <1>16, <1>17, <1>19, <1>20, <1>21 DEF ByteFits

(* The progress of a file that waited is acknowledged.                       *)
LEMMA PollKeeps ==
  ASSUME NEW t \in Transfers, WindowType, ChannelType, StageType, ByteFits(t),
         worker'[t] = worker[t], window'[t] = window[t], chan[t].up,
         NEW f \in Files(t), recv[t].entries[f].chunks > 0,
         recv'[t] = [recv[t] EXCEPT !.entries[f] = Emitted(recv[t].entries[f])],
         chan'[t] = [chan[t] EXCEPT !.acks = PutAck(t, f, recv[t].entries[f])]
  PROVE  ByteFits(t)' /\ recv'[t] \in StagesOf(t) /\ chan'[t] \in ChannelsOf(t)
<1> DEFINE e == recv[t].entries[f]
           ack == [file |-> f, ver |-> e.ver, dur |-> e.dur]
<1>1. recv[t] \in StagesOf(t) /\ chan[t] \in ChannelsOf(t)
  BY DEF StageType, ChannelType
<1>2. recv[t].entries \in [Files(t) -> EntriesOf] /\ recv[t].durable \in [Files(t) -> Nat]
  BY <1>1 DEF StagesOf
<1>3. e \in EntriesOf /\ e.chunks > 0
  BY <1>2
<1>4. e.ver \in Nat /\ e.dur \in Nat /\ e.dur = recv[t].durable[f] /\ Received(t, f, e.ver)
  BY <1>2 DEF ByteFits, BatchFits
<1>5. Emitted(e) \in EntriesOf /\ Emitted(e).chunks = 0
  BY <1>3, EntryEmitted
<1>6. PutAck(t, f, e) = Append(chan[t].acks, ack)
  BY DEF PutAck, Emit
<1> HIDE DEF e
<1>7. /\ recv'[t].file = recv[t].file /\ recv'[t].off = recv[t].off
      /\ recv'[t].durable = recv[t].durable
      /\ recv'[t].entries = [recv[t].entries EXCEPT ![f] = Emitted(e)]
  BY <1>1 DEF StagesOf, e
<1>8. \A g \in Files(t) : /\ g # f => recv'[t].entries[g] = recv[t].entries[g]
                          /\ g = f => recv'[t].entries[g].chunks = 0
  BY <1>2, <1>5, <1>7
<1>9. /\ chan'[t].up /\ chan'[t].data = chan[t].data
      /\ chan'[t].acks = Append(chan[t].acks, ack)
  BY <1>1, <1>6 DEF ChannelsOf, e
<1>10. ack \in AcksOf(t) /\ ack.file = f /\ ack.ver = e.ver /\ ack.dur = e.dur
  BY <1>4 DEF AcksOf
<1> HIDE DEF ack
<1>11. PositionFits(t)'
  BY <1>7 DEF ByteFits, PositionFits, InFile, Total, Files
<1>12. FreshFits(t)'
  <2>1. worker[t].state # "baseline"
    <3>1. ASSUME worker[t].state = "baseline" PROVE FALSE
      <4>1. recv[t].entries[f].chunks = 0
        BY <3>1 DEF ByteFits, FreshFits, Quiet
      <4> QED
        BY <1>3, <4>1 DEF e
    <3> QED
      BY <3>1
  <2>2. worker[t].state \in {"admitted", "dialing"} => Fresh(t)
    BY DEF ByteFits, FreshFits
  <2> QED
    BY <2>1, <2>2 DEF FreshFits, Fresh, Files
<1>13. PipeFits(t)'
  <2>1. HeadFits(t)'
    BY <1>7, <1>9 DEF ByteFits, PipeFits, HeadFits
  <2>2. EndFits(t)'
    BY <1>7, <1>9 DEF ByteFits, PipeFits, EndFits
  <2>3. Between(t, chan[t].data)'
    BY <1>7, <1>9 DEF ByteFits, PipeFits, DataFits, Between
  <2>4. InOrder(t, chan[t].data)'
    BY <1>9 DEF ByteFits, PipeFits, DataFits, InOrder
  <2> QED
    BY <2>1, <2>2, <2>3, <2>4 DEF PipeFits, DataFits
<1>14. TrackFits(t)'
  BY DEF ByteFits, TrackFits, Passed, Files
<1>15. WindowReceived(t)'
  BY <1>7 DEF ByteFits, WindowReceived, Received, Files
<1>16. AckFits(t)'
  <2>1. AckFits(t)
    BY DEF ByteFits
  <2>2. PICK b \in AcksOf(t) : b = ack
    BY <1>10
  <2>3. Received(t, b.file, b.ver)'
    <3>1. \/ b.ver <= 0 \/ b.file < recv'[t].file
          \/ b.file = recv'[t].file /\ b.ver <= recv'[t].off
      BY <1>4, <1>7, <1>10, <2>2 DEF Received
    <3> QED
      BY <3>1 DEF Received
  <2>4. b.dur = recv'[t].durable[b.file] /\ chan'[t].acks = Append(chan[t].acks, b)
    BY <1>4, <1>7, <1>9, <1>10, <2>2
  <2>5. \A g \in Files(t), v \in Int : Received(t, g, v) => Received(t, g, v)'
    BY <1>7 DEF Received
  <2>6. \A g \in Files(t) : /\ recv'[t].durable[g] \in Nat
                            /\ recv[t].durable[g] <= recv'[t].durable[g]
    BY <1>2, <1>7
  <2> QED
    BY <1>9, <2>1, <2>3, <2>4, <2>5, <2>6, AckJoins
<1>17. BatchFits(t)'
  <2>1. ASSUME NEW g \in Files(t), recv'[t].entries[g].chunks > 0
        PROVE  /\ recv'[t].entries[g].ver \in Nat
               /\ recv'[t].entries[g].dur = recv'[t].durable[g]
               /\ Received(t, g, recv[t].entries[g].ver)'
    <3>1. g # f
      BY <1>8, <2>1
    <3>2. recv'[t].entries[g] = recv[t].entries[g]
      BY <1>8, <3>1
    <3> QED
      BY <1>7, <2>1, <3>2 DEF ByteFits, BatchFits, Received
  <2> QED
    BY <2>1 DEF BatchFits, Files
<1>18. WindowFits(t)'
  <2> SUFFICES ASSUME window[t].open PROVE WindowFits(t)'
    BY DEF WindowFits
  <2>1. /\ \A j \in 1..Len(chan[t].data) : chan[t].data[j] \in window[t].chunks
        /\ \A j \in 1..Len(chan[t].acks) :
             LET a == chan[t].acks[j]
             IN Known(t, a.file, a.ver) /\ window[t].durable[a.file] <= a.dur
        /\ \A g \in Files(t) :
             /\ recv[t].entries[g].chunks > 0 => Known(t, g, recv[t].entries[g].ver)
             /\ window[t].durable[g] <= recv[t].durable[g]
    BY DEF ByteFits, WindowFits
  <2>2. window[t].durable[ack.file] <= ack.dur /\ Known(t, ack.file, ack.ver)
    BY <1>3, <1>4, <1>10, <2>1 DEF e
  <2>3. \A j \in 1..Len(chan'[t].acks) :
          LET a == chan'[t].acks[j]
          IN Known(t, a.file, a.ver) /\ window[t].durable[a.file] <= a.dur
    BY <1>9, <1>10, <2>1, <2>2, AckKnown
  <2>4. ASSUME NEW g \in Files(t), recv'[t].entries[g].chunks > 0
        PROVE  Known(t, g, recv'[t].entries[g].ver)
    <3>1. g # f
      BY <1>8, <2>4
    <3>2. recv'[t].entries[g] = recv[t].entries[g]
      BY <1>8, <3>1
    <3> QED
      BY <2>1, <2>4, <3>2
  <2> QED
    <3>1. \A g \in Files(t) : window[t].durable[g] <= recv'[t].durable[g]
      BY <1>7, <2>1
    <3>2. \A j \in 1..Len(chan'[t].data) : chan'[t].data[j] \in window[t].chunks
      BY <1>9, <2>1
    <3> QED
      BY <2>3, <2>4, <3>1, <3>2 DEF WindowFits, Known, Files
<1>19. recv'[t] \in StagesOf(t)
  <2>1. recv'[t].entries \in [Files(t) -> EntriesOf]
    BY <1>2, <1>5, <1>7
  <2> QED
    BY <1>1, <2>1 DEF StagesOf
<1>20. chan'[t] \in ChannelsOf(t)
  <2>1. chan'[t].acks \in Seq(AcksOf(t))
    <3>1. chan[t].acks \in Seq(AcksOf(t))
      BY AckType
    <3>2. chan'[t].acks = Append(chan[t].acks, ack)
      BY <1>9
    <3>3. ack \in AcksOf(t)
      BY <1>10
    <3>4. Append(chan[t].acks, ack) \in Seq(AcksOf(t))
      BY <3>1, <3>3, AppendType
    <3> QED
      BY <3>2, <3>4
  <2> QED
    BY <1>1, <2>1 DEF ChannelsOf
<1> QED
  BY <1>11, <1>12, <1>13, <1>14, <1>15, <1>16, <1>17, <1>18, <1>19, <1>20 DEF ByteFits

----------------------------------------------------------------------------
(* An acknowledgement is applied                                             *)

(* What the window has become when an acknowledgement is applied.            *)
ReleasedTo(t, ack, w) ==
  /\ w \in WindowsOf(t) /\ w.open = window[t].open
  /\ w.chunks \in SUBSET window[t].chunks
  /\ \A g \in Files(t) : g # ack.file => /\ w.acked[g] = window[t].acked[g]
                                         /\ w.durable[g] = window[t].durable[g]
  /\ \/ window[t].acked[ack.file] = Unknown /\ w = window[t]
     \/ /\ ack.ver < window[t].acked[ack.file]
        /\ w.chunks = window[t].chunks
        /\ w.acked = window[t].acked /\ w.durable[ack.file] = ack.dur
     \/ /\ window[t].acked[ack.file] # Unknown
        /\ ack.ver >= window[t].acked[ack.file]
        /\ w.chunks = {c \in window[t].chunks : ~ (c.file = ack.file /\ c.end <= ack.ver)}
        /\ w.acked[ack.file] = ack.ver /\ w.durable[ack.file] = ack.dur

(* Released leaves the window as it is, corrects the durable position, or    *)
(* releases the chunks the acknowledgement covers.                           *)
LEMMA ReleasedIs ==
  ASSUME NEW t \in Transfers, WindowType, NEW ack \in AcksOf(t), NEW w,
         w = Released(window[t], ack)
  PROVE  ReleasedTo(t, ack, w)
<1> DEFINE v == window[t]
           f == ack.file
<1>1. v \in WindowsOf(t)
  BY DEF WindowType
<1>2. f \in Files(t) /\ ack.ver \in Nat /\ ack.dur \in Nat
  BY DEF AcksOf
<1>3. v.acked \in Offsets(t) /\ v.durable \in Offsets(t)
  BY <1>1 DEF WindowsOf
<1>4. v.acked[f] \in Int
  BY <1>2, <1>3 DEF Offsets
<1> HIDE DEF v
<1>5. CASE v.acked[f] = Unknown
  <2>1. w = v
    BY <1>5 DEF Released, v
  <2> QED
    BY <1>1, <1>5, <2>1 DEF v, ReleasedTo
<1>6. CASE v.acked[f] # Unknown /\ ack.ver < v.acked[f]
  <2>1. w = [v EXCEPT !.durable[f] = ack.dur]
    BY <1>6 DEF Released, v
  <2>2. /\ w.open = v.open /\ w.chunks = v.chunks /\ w.next = v.next /\ w.acked = v.acked
        /\ w.durable = [v.durable EXCEPT ![f] = ack.dur]
    BY <1>1, <2>1 DEF WindowsOf
  <2>3. w.durable \in Offsets(t) /\ w.durable[f] = ack.dur
        /\ \A g \in Files(t) : g # f => w.durable[g] = v.durable[g]
    BY <1>2, <1>3, <2>2 DEF Offsets
  <2>4. w \in WindowsOf(t)
    <3>1. w = [open |-> v.open, chunks |-> v.chunks, next |-> v.next, acked |-> v.acked,
               durable |-> w.durable]
      BY <1>1, <2>1, <2>2 DEF WindowsOf
    <3> QED
      BY <1>1, <2>3, <3>1 DEF WindowsOf
  <2> QED
    BY <1>6, <2>2, <2>3, <2>4 DEF v, ReleasedTo
<1>7. CASE v.acked[f] # Unknown /\ ~ (ack.ver < v.acked[f])
  <2> DEFINE kept == {c \in v.chunks : ~ (c.file = f /\ c.end <= ack.ver)}
  <2>1. w = [v EXCEPT !.chunks = kept, !.acked[f] = ack.ver, !.durable[f] = ack.dur]
    BY <1>7 DEF Released, v
  <2>2. /\ w.open = v.open /\ w.chunks = kept /\ w.next = v.next
        /\ w.acked = [v.acked EXCEPT ![f] = ack.ver]
        /\ w.durable = [v.durable EXCEPT ![f] = ack.dur]
    <3> HIDE DEF kept
    <3> QED
      BY <1>1, <2>1 DEF WindowsOf
  <2>3. /\ w.durable \in Offsets(t) /\ w.durable[f] = ack.dur
        /\ w.acked \in Offsets(t) /\ w.acked[f] = ack.ver
        /\ \A g \in Files(t) : g # f => w.durable[g] = v.durable[g] /\ w.acked[g] = v.acked[g]
    BY <1>2, <1>3, <2>2 DEF Offsets
  <2>4. kept \in SUBSET v.chunks
    OBVIOUS
  <2>5. w \in WindowsOf(t)
    <3> HIDE DEF kept
    <3>1. w = [open |-> v.open, chunks |-> kept, next |-> v.next, acked |-> w.acked,
               durable |-> w.durable]
      BY <1>1, <2>1, <2>2 DEF WindowsOf
    <3>2. kept \in SUBSET ChunksOf(t)
      BY <1>1, <2>4 DEF WindowsOf
    <3> QED
      BY <1>1, <2>3, <3>1, <3>2 DEF WindowsOf
  <2>6. ack.ver >= v.acked[f]
    BY <1>2, <1>4, <1>7
  <2> QED
    BY <1>7, <2>2, <2>3, <2>4, <2>5, <2>6 DEF v, ReleasedTo
<1> QED
  BY <1>5, <1>6, <1>7

(* The acknowledgement at the head of the channel.                           *)
LEMMA HeadAckIs ==
  ASSUME NEW t \in Transfers, ChannelType, AckFits(t), chan[t].acks # <<>>
  PROVE  LET ack == Head(chan[t].acks)
         IN /\ ack \in AcksOf(t) /\ ack.file \in Files(t) /\ ack.ver \in Nat /\ ack.dur \in Nat
            /\ chan[t].up /\ ack = chan[t].acks[1] /\ 1 \in 1..Len(chan[t].acks)
<1>1. chan[t].acks \in Seq(AcksOf(t))
  BY DEF ChannelType, ChannelsOf
<1>2. Head(chan[t].acks) \in AcksOf(t) /\ Head(chan[t].acks) = chan[t].acks[1]
      /\ 1 \in 1..Len(chan[t].acks)
  BY <1>1
<1>3. chan[t].up
  BY DEF AckFits
<1> QED
  BY <1>2, <1>3 DEF AcksOf

(* The window accepts it: its end is one the window tracks or has released,  *)
(* and its durable position is not behind the window's.                      *)
LEMMA HeadAckLegal ==
  ASSUME NEW t \in Transfers, WindowType, ChannelType, ByteFits(t), window[t].open,
         chan[t].acks # <<>>
  PROVE  ~Rejected(window[t], Head(chan[t].acks))
<1> DEFINE ack == Head(chan[t].acks)
<1>1. /\ ack.file \in Files(t) /\ ack.ver \in Nat /\ ack.dur \in Nat
      /\ chan[t].up /\ ack = chan[t].acks[1] /\ 1 \in 1..Len(chan[t].acks)
  BY HeadAckIs DEF ByteFits
<1>2. Known(t, ack.file, ack.ver) /\ window[t].durable[ack.file] <= ack.dur
  BY <1>1 DEF ByteFits, WindowFits
<1>3. window[t].acked[ack.file] \in Int /\ window[t].durable[ack.file] \in Int
  BY <1>1 DEF WindowType, WindowsOf, Offsets
<1> HIDE DEF ack
<1>4. ~ (ack.dur < window[t].durable[ack.file])
  BY <1>1, <1>2, <1>3
<1>5. ack.ver > window[t].acked[ack.file] => ack.ver \in UnackedEnds(window[t], ack.file)
  BY <1>1, <1>2, <1>3 DEF Known, UnackedEnds
<1> QED
  BY <1>4, <1>5 DEF Rejected, ack

(* What is released was received; what is on its way stays known.            *)
LEMMA ApplyKeeps ==
  ASSUME NEW t \in Transfers, WorkerType, WindowType, ChannelType, StageType, ByteFits(t),
         window[t].open, chan[t].acks # <<>>,
         worker'[t] = worker[t], recv'[t] = recv[t],
         window'[t] = Released(window[t], Head(chan[t].acks)),
         chan'[t] = [chan[t] EXCEPT !.acks = Tail(chan[t].acks)]
  PROVE  ByteFits(t)' /\ window'[t] \in WindowsOf(t) /\ chan'[t] \in ChannelsOf(t)
<1> DEFINE a == chan[t].acks
           ack == Head(a)
           n == Len(a)
           w == window'[t]
<1>1. /\ ack \in AcksOf(t) /\ ack.file \in Files(t) /\ ack.ver \in Nat /\ ack.dur \in Nat
      /\ chan[t].up /\ ack = a[1] /\ 1 \in 1..n
  BY HeadAckIs DEF ByteFits
<1>2. /\ w \in WindowsOf(t) /\ w.open = window[t].open
      /\ w.chunks \in SUBSET window[t].chunks
      /\ \A g \in Files(t) : g # ack.file => /\ w.acked[g] = window[t].acked[g]
                                             /\ w.durable[g] = window[t].durable[g]
      /\ \/ window[t].acked[ack.file] = Unknown /\ w = window[t]
         \/ /\ ack.ver < window[t].acked[ack.file]
            /\ w.chunks = window[t].chunks
            /\ w.acked = window[t].acked /\ w.durable[ack.file] = ack.dur
         \/ /\ window[t].acked[ack.file] # Unknown
            /\ ack.ver >= window[t].acked[ack.file]
            /\ w.chunks = {c \in window[t].chunks : ~ (c.file = ack.file /\ c.end <= ack.ver)}
            /\ w.acked[ack.file] = ack.ver /\ w.durable[ack.file] = ack.dur
  <2>1. w = Released(window[t], ack)
    OBVIOUS
  <2> HIDE DEF w, ack
  <2>2. ReleasedTo(t, ack, w)
    BY <1>1, <2>1, ReleasedIs
  <2> QED
    BY <2>2 DEF ReleasedTo
<1>3. chan[t] \in ChannelsOf(t) /\ a \in Seq(AcksOf(t)) /\ n \in Nat
  BY DEF ChannelType, ChannelsOf
<1>4. chan'[t].up = chan[t].up /\ chan'[t].data = chan[t].data /\ chan'[t].acks = Tail(a)
  BY <1>3 DEF ChannelsOf
<1>5. /\ Len(Tail(a)) = n - 1 /\ Tail(a) \in Seq(AcksOf(t))
      /\ \A i \in 1..(n - 1) : Tail(a)[i] = a[i + 1]
  BY <1>3
<1>6. chan'[t] \in ChannelsOf(t)
  BY <1>3, <1>4, <1>5 DEF ChannelsOf
<1>7. \A g \in Files(t) : window[t].acked[g] \in Int /\ window[t].durable[g] \in Int
  BY DEF WindowType, WindowsOf, Offsets
<1> HIDE DEF a, ack, n, w
<1>8. AckFits(t) /\ WindowFits(t) /\ TrackFits(t) /\ FreshFits(t)
  BY DEF ByteFits
<1>9. PositionFits(t)' /\ BatchFits(t)'
  <2>1. PositionFits(t)'
    BY DEF ByteFits, PositionFits, InFile, Total, Files
  <2>2. BatchFits(t)'
    BY DEF ByteFits, BatchFits, Received, Files
  <2> QED
    BY <2>1, <2>2
<1>10. PipeFits(t)'
  <2>1. HeadFits(t)'
    BY <1>4 DEF ByteFits, PipeFits, HeadFits
  <2>2. EndFits(t)'
    BY <1>4 DEF ByteFits, PipeFits, EndFits
  <2>3. Between(t, chan[t].data)'
    BY <1>4 DEF ByteFits, PipeFits, DataFits, Between
  <2>4. InOrder(t, chan[t].data)'
    BY <1>4 DEF ByteFits, PipeFits, DataFits, InOrder
  <2> QED
    BY <2>1, <2>2, <2>3, <2>4 DEF PipeFits, DataFits
<1>11. Received(t, ack.file, ack.ver)
  BY <1>1, <1>8 DEF AckFits, a, n
<1>12. \A x \in window[t].chunks : /\ x.file \in Nat /\ x.end \in Nat /\ x.size \in Nat
                                   /\ x.size > 0 /\ x.size <= x.end
  <2>1. window[t].chunks \subseteq ChunksOf(t) /\ Files(t) \subseteq Nat
    BY SizesType DEF WindowType, WindowsOf
  <2> QED
    BY <2>1 DEF ChunksOf
<1>13. FreshFits(t)'
  <2>1. worker[t].state # "baseline"
    <3>1. a # <<>>
      BY DEF a
    <3> QED
      BY <1>8, <3>1 DEF FreshFits, Quiet, a
  <2>2. CASE worker[t].state \in {"admitted", "dialing"}
    <3>1. /\ window[t].chunks = {}
          /\ \A g \in Files(t) : window[t].acked[g] = Unknown
      BY <1>8, <2>2 DEF FreshFits, Fresh
    <3>2. w = window[t]
      <4>1. ~ (ack.ver < window[t].acked[ack.file]) /\ window[t].acked[ack.file] = Unknown
        BY <1>1, <3>1 DEF Unknown
      <4> QED
        BY <1>2, <4>1
    <3> QED
      BY <1>8, <2>1, <3>2 DEF FreshFits, Fresh, Files, w
  <2>3. CASE worker[t].state \notin {"admitted", "dialing"}
    BY <2>1, <2>3 DEF FreshFits
  <2> QED
    BY <2>2, <2>3
<1>14. TrackFits(t)'
  <2> SUFFICES ASSUME worker[t].state \in {"sending", "slot"}
               PROVE  /\ \A c \in w.chunks : Passed(c, worker[t].file, worker[t].off)
                      /\ \A f \in Files(t) : f > worker[t].file => w.acked[f] = Unknown
                      /\ \A f \in Files(t) :
                           f = worker[t].file => worker[t].off = 0 \/ w.acked[f] # Unknown
    BY DEF TrackFits, Files, w
  <2>1. /\ \A c \in window[t].chunks : Passed(c, worker[t].file, worker[t].off)
        /\ \A f \in Files(t) : f > worker[t].file => window[t].acked[f] = Unknown
        /\ \A f \in Files(t) :
             f = worker[t].file => worker[t].off = 0 \/ window[t].acked[f] # Unknown
    BY <1>8 DEF TrackFits
  <2>2. \A f \in Files(t) : w.acked[f] = Unknown <=> window[t].acked[f] = Unknown
    BY <1>1, <1>2 DEF Unknown
  <2> QED
    BY <1>2, <2>1, <2>2
<1>15. WindowReceived(t)'
  <2> SUFFICES ASSUME NEW g \in Files(t) PROVE Received(t, g, w.acked[g])
    BY DEF WindowReceived, Received, Files, w
  <2>1. Received(t, g, window[t].acked[g])
    BY DEF ByteFits, WindowReceived
  <2>2. CASE w.acked[g] = window[t].acked[g]
    BY <2>1, <2>2
  <2>3. CASE g = ack.file /\ w.acked[g] = ack.ver
    BY <1>11, <2>3
  <2> QED
    BY <1>2, <2>2, <2>3
<1>16. AckFits(t)'
  <2>1. \A i \in 1..(n - 1) : i + 1 \in 1..n
    BY <1>3
  <2>2. \A i \in 1..n : Received(t, a[i].file, a[i].ver) /\ a[i].dur <= recv[t].durable[a[i].file]
    BY <1>8 DEF AckFits, a, n
  <2>3. \A i, j \in 1..n : i < j /\ a[i].file = a[j].file => a[i].dur <= a[j].dur
    BY <1>8 DEF AckFits, a, n
  <2>4. \A i \in 1..(n - 1) :
          Received(t, Tail(a)[i].file, Tail(a)[i].ver)
            /\ Tail(a)[i].dur <= recv[t].durable[Tail(a)[i].file]
    BY <1>5, <2>1, <2>2
  <2>5. ASSUME NEW i \in 1..(n - 1), NEW j \in 1..(n - 1), i < j, Tail(a)[i].file = Tail(a)[j].file
        PROVE  Tail(a)[i].dur <= Tail(a)[j].dur
    <3>1. i + 1 \in 1..n /\ j + 1 \in 1..n /\ i + 1 < j + 1
      BY <1>3, <2>5
    <3> QED
      BY <1>5, <2>3, <2>5, <3>1
  <2> QED
    BY <1>1, <1>4, <1>5, <2>4, <2>5 DEF AckFits, Received
<1>17. ASSUME NEW g \in Files(t), NEW end \in Int, Known(t, g, end)
       PROVE  \/ end <= w.acked[g]
              \/ \E c \in w.chunks : c.file = g /\ c.end = end
  <2>1. w.acked[g] >= window[t].acked[g] /\ w.acked[g] \in Int
    BY <1>1, <1>2, <1>7
  <2>2. CASE end <= window[t].acked[g]
    BY <1>7, <2>1, <2>2
  <2>3. CASE \E c \in window[t].chunks : c.file = g /\ c.end = end
    <3>1. PICK c \in window[t].chunks : c.file = g /\ c.end = end
      BY <2>3
    <3>2. CASE c \in w.chunks
      BY <3>1, <3>2
    <3>3. CASE c \notin w.chunks
      <4>1. g = ack.file /\ w.acked[ack.file] = ack.ver /\ end <= ack.ver
        BY <1>2, <3>1, <3>3
      <4> QED
        BY <4>1
    <3> QED
      BY <3>2, <3>3
  <2> QED
    BY <1>17, <2>2, <2>3 DEF Known
<1>18. WindowFits(t)'
  <2>1. /\ \A i \in 1..Len(chan[t].data) : chan[t].data[i] \in window[t].chunks
        /\ \A i \in 1..n :
             Known(t, a[i].file, a[i].ver) /\ window[t].durable[a[i].file] <= a[i].dur
        /\ \A g \in Files(t) :
             /\ recv[t].entries[g].chunks > 0 => Known(t, g, recv[t].entries[g].ver)
             /\ window[t].durable[g] <= recv[t].durable[g]
    BY <1>1, <1>8 DEF WindowFits, a, n
  <2>2. ASSUME NEW i \in 1..Len(chan[t].data)
        PROVE  chan[t].data[i] \in w.chunks
    <3> DEFINE x == chan[t].data[i]
    <3>1. x \in window[t].chunks
      BY <2>1
    <3>2. Ahead(x, recv[t].file, recv[t].off)
      BY DEF ByteFits, PipeFits, DataFits, Between
    <3>3. x.file \in Nat /\ x.end \in Nat /\ x.size \in Nat /\ x.size > 0 /\ x.size <= x.end
      BY <1>12, <3>1
    <3>4. recv[t].file \in Nat /\ recv[t].off \in Nat /\ ack.file \in Nat
      <4>1. Files(t) \subseteq Nat /\ Total(t) \in Nat
        BY SizesType
      <4> QED
        BY <1>1, <4>1 DEF StageType, StagesOf
    <3> HIDE DEF x
    <3>5. ~ (x.file = ack.file /\ x.end <= ack.ver)
      BY <1>1, <1>11, <3>2, <3>3, <3>4 DEF Ahead, Received
    <3> QED
      BY <1>2, <3>1, <3>5 DEF x
  <2>3. \A i \in 1..n : a[i].file \in Files(t) /\ a[i].ver \in Nat /\ a[i].dur \in Nat
    BY AckType DEF a, n
  <2>4. ASSUME NEW i \in 1..(n - 1)
        PROVE  LET b == Tail(a)[i]
               IN /\ \/ b.ver <= w.acked[b.file]
                     \/ \E c \in w.chunks : c.file = b.file /\ c.end = b.ver
                  /\ w.durable[b.file] <= b.dur
    <3> DEFINE b == a[i + 1]
    <3>1. i + 1 \in 1..n /\ 1 < i + 1 /\ Tail(a)[i] = b
      BY <1>3, <1>5
    <3>2. /\ b.file \in Files(t) /\ b.ver \in Int /\ b.dur \in Nat
          /\ Known(t, b.file, b.ver) /\ window[t].durable[b.file] <= b.dur
      BY <2>1, <2>3, <3>1
    <3>3. b.file = ack.file => ack.dur <= b.dur
      BY <1>1, <1>8, <3>1 DEF AckFits, a, n
    <3> HIDE DEF b
    <3>4. w.durable[b.file] <= b.dur
      BY <1>2, <3>2, <3>3
    <3> QED
      BY <1>17, <3>1, <3>2, <3>4
  <2>5. ASSUME NEW g \in Files(t)
        PROVE  /\ recv[t].entries[g].chunks > 0 =>
                    \/ recv[t].entries[g].ver <= w.acked[g]
                    \/ \E c \in w.chunks : c.file = g /\ c.end = recv[t].entries[g].ver
               /\ w.durable[g] <= recv[t].durable[g]
    <3>1. recv[t].entries[g].ver \in Int
      BY DEF StageType, StagesOf, EntriesOf
    <3>2. ack.dur <= recv[t].durable[ack.file]
      BY <1>1, <1>8 DEF AckFits, a, n
    <3>3. w.durable[g] <= recv[t].durable[g]
      BY <1>2, <2>1, <3>2
    <3> QED
      BY <1>17, <2>1, <3>1, <3>3
  <2> QED
    BY <1>4, <1>5, <2>2, <2>4, <2>5 DEF WindowFits, Known, Files, w
<1> QED
  BY <1>2, <1>6, <1>9, <1>10, <1>13, <1>14, <1>15, <1>16, <1>18 DEF ByteFits, w

----------------------------------------------------------------------------
(* What the steps do to the shared state                                     *)

(* The worker changes its phase and nothing else.                            *)
LEMMA GoToIs ==
  ASSUME NEW t \in Transfers, WorkerType, NEW s \in WorkerStates, GoTo(t, s)
  PROVE  /\ WorkerType'
         /\ worker'[t].state = s /\ worker'[t].file = worker[t].file
         /\ worker'[t].off = worker[t].off
         /\ worker'[t] = [worker[t] EXCEPT !.state = s]
         /\ \A u \in Transfers \ {t} : worker'[u] = worker[u]
<1>1. worker' = [worker EXCEPT ![t].state = s]
  BY DEF GoTo
<1>2. DOMAIN worker = Transfers /\ worker[t] \in WorkersOf(t)
  BY DEF WorkerType
<1>3. worker'[t] = [worker[t] EXCEPT !.state = s] /\ DOMAIN worker' = Transfers
      /\ \A u \in Transfers \ {t} : worker'[u] = worker[u]
  BY <1>1, <1>2
<1>4. /\ worker'[t].state = s /\ worker'[t].file = worker[t].file
      /\ worker'[t].off = worker[t].off
      /\ worker'[t] \in WorkersOf(t)
  BY <1>2, <1>3 DEF WorkersOf
<1>5. WorkerType'
  <2>1. ASSUME NEW u \in Transfers PROVE worker'[u] \in WorkersOf(u)
    BY <1>3, <1>4 DEF WorkerType
  <2> QED
    BY <1>3, <2>1 DEF WorkerType, WorkersOf, Total
<1> QED
  BY <1>3, <1>4, <1>5

(* A window is closed if it is open.                                         *)
Closes(t) == CloseTransfer(t) \/ UNCHANGED <<window, inflight, peers, asleep>>

(* The chunks of a window can be counted.                                    *)
LEMMA WindowChunks ==
  ASSUME NEW t \in Transfers, WindowType
  PROVE  Chunks(window[t].chunks) /\ Bytes(window[t].chunks) \in Nat
<1>1. Chunks(window[t].chunks)
  BY DEF WindowType, WindowsOf, ChunksOf, Chunks
<1> QED
  BY <1>1, BytesType

(* The count of a transfer's peer can be moved.                              *)
LEMMA PeerType ==
  ASSUME NEW t \in Transfers, SharedType
  PROVE  /\ PeerOf[t] \in Peers /\ peers[PeerOf[t]] \in Int
         /\ \A n \in Int : [peers EXCEPT ![PeerOf[t]] = n] \in [Peers -> Int]
<1>1. PeerOf[t] \in Peers
  BY FlowAssumption
<1> QED
  BY <1>1 DEF SharedType

(* A close leaves the other windows alone, and wakes everybody or nobody.    *)
LEMMA ClosesIs ==
  ASSUME NEW t \in Transfers, WindowType, SharedType, Closes(t)
  PROVE  /\ WindowType'
         /\ window'[t] = window[t] \/ (~window'[t].open /\ window'[t].chunks = {})
         /\ \A u \in Transfers \ {t} : window'[u] = window[u]
         /\ inflight' \in Int /\ peers' \in [Peers -> Int]
         /\ asleep' \in {asleep, {}}
<1>1. CASE UNCHANGED <<window, inflight, peers, asleep>>
  <2>1. WindowType'
    BY <1>1 DEF WindowType, WindowsOf, ChunksOf, Offsets, Files
  <2> QED
    BY <1>1, <2>1 DEF SharedType
<1>2. CASE /\ window' = [window EXCEPT ![t].open = FALSE, ![t].chunks = {}]
           /\ inflight' = inflight - Bytes(window[t].chunks)
           /\ peers' = [peers EXCEPT ![PeerOf[t]] = @ - 1]
           /\ NotifyAll
  <2>1. DOMAIN window = Transfers /\ window[t] \in WindowsOf(t)
    BY DEF WindowType
  <2>2. /\ DOMAIN window' = Transfers
        /\ window'[t] = [window[t] EXCEPT !.open = FALSE, !.chunks = {}]
        /\ \A u \in Transfers \ {t} : window'[u] = window[u]
    BY <1>2, <2>1
  <2>3. ~window'[t].open /\ window'[t].chunks = {} /\ window'[t] \in WindowsOf(t)
    BY <2>1, <2>2 DEF WindowsOf
  <2>4. WindowType'
    <3>1. ASSUME NEW u \in Transfers PROVE window'[u] \in WindowsOf(u) /\ IsFiniteSet(window'[u].chunks)
      BY <2>2, <2>3, FS_EmptySet DEF WindowType
    <3> QED
      BY <2>2, <3>1 DEF WindowType, WindowsOf, ChunksOf, Offsets, Files
  <2>5. inflight' \in Int
    BY <1>2, WindowChunks DEF SharedType
  <2>6. peers' \in [Peers -> Int]
    BY <1>2, PeerType DEF SharedType
  <2> QED
    BY <1>2, <2>2, <2>3, <2>4, <2>5, <2>6 DEF NotifyAll
<1> QED
  BY <1>1, <1>2 DEF Closes, CloseTransfer

(* A function of transfers that changes at one of them.                      *)
LEMMA OneWindow ==
  ASSUME NEW t \in Transfers, WindowType, NEW w \in WindowsOf(t), IsFiniteSet(w.chunks),
         window' = [window EXCEPT ![t] = w]
  PROVE  WindowType' /\ window'[t] = w /\ \A u \in Transfers \ {t} : window'[u] = window[u]
<1>1. /\ DOMAIN window' = Transfers /\ window'[t] = w
      /\ \A u \in Transfers \ {t} : window'[u] = window[u]
  BY DEF WindowType
<1>2. \A u \in Transfers : window'[u] \in WindowsOf(u) /\ IsFiniteSet(window'[u].chunks)
  BY <1>1 DEF WindowType
<1>3. WindowType'
  BY <1>1, <1>2 DEF WindowType, WindowsOf, ChunksOf, Offsets, Files
<1> QED
  BY <1>1, <1>3

(* The same for a worker.                                                    *)
LEMMA OneWorker ==
  ASSUME NEW t \in Transfers, WorkerType, NEW w \in WorkersOf(t),
         worker' = [worker EXCEPT ![t] = w]
  PROVE  WorkerType' /\ worker'[t] = w /\ \A u \in Transfers \ {t} : worker'[u] = worker[u]
<1>1. /\ DOMAIN worker' = Transfers /\ worker'[t] = w
      /\ \A u \in Transfers \ {t} : worker'[u] = worker[u]
  BY DEF WorkerType
<1>2. \A u \in Transfers : worker'[u] \in WorkersOf(u)
  BY <1>1 DEF WorkerType
<1>3. WorkerType'
  BY <1>1, <1>2 DEF WorkerType, WorkersOf, Total
<1> QED
  BY <1>1, <1>3

(* The same for a channel.                                                   *)
LEMMA OneChannel ==
  ASSUME NEW t \in Transfers, ChannelType, NEW c \in ChannelsOf(t),
         chan' = [chan EXCEPT ![t] = c]
  PROVE  ChannelType' /\ chan'[t] = c /\ \A u \in Transfers \ {t} : chan'[u] = chan[u]
<1>1. /\ DOMAIN chan' = Transfers /\ chan'[t] = c
      /\ \A u \in Transfers \ {t} : chan'[u] = chan[u]
  BY DEF ChannelType
<1>2. \A u \in Transfers : chan'[u] \in ChannelsOf(u)
  BY <1>1 DEF ChannelType
<1>3. ChannelType'
  BY <1>1, <1>2 DEF ChannelType, ChannelsOf, ChunksOf, AcksOf, Files
<1> QED
  BY <1>1, <1>3

(* The same for a stage.                                                     *)
LEMMA OneStage ==
  ASSUME NEW t \in Transfers, StageType, NEW r \in StagesOf(t),
         recv' = [recv EXCEPT ![t] = r]
  PROVE  StageType' /\ recv'[t] = r /\ \A u \in Transfers \ {t} : recv'[u] = recv[u]
<1>1. /\ DOMAIN recv' = Transfers /\ recv'[t] = r
      /\ \A u \in Transfers \ {t} : recv'[u] = recv[u]
  BY DEF StageType
<1>2. \A u \in Transfers : recv'[u] \in StagesOf(u)
  BY <1>1 DEF StageType
<1>3. StageType'
  BY <1>1, <1>2 DEF StageType, StagesOf, Total, Files
<1> QED
  BY <1>1, <1>3

(* What is left alone keeps its type.                                        *)
LEMMA SameTypes ==
  /\ WorkerType /\ UNCHANGED worker => WorkerType'
  /\ WindowType /\ UNCHANGED window => WindowType'
  /\ ChannelType /\ UNCHANGED chan => ChannelType'
  /\ StageType /\ UNCHANGED recv => StageType'
<1>1. WorkerType /\ UNCHANGED worker => WorkerType'
  BY DEF WorkerType, WorkersOf, Total
<1>2. WindowType /\ UNCHANGED window => WindowType'
  BY DEF WindowType, WindowsOf, ChunksOf, Offsets, Files
<1>3. ChannelType /\ UNCHANGED chan => ChannelType'
  BY DEF ChannelType, ChannelsOf, ChunksOf, AcksOf, Files
<1>4. StageType /\ UNCHANGED recv => StageType'
  BY DEF StageType, StagesOf, Total, Files
<1> QED
  BY <1>1, <1>2, <1>3, <1>4

----------------------------------------------------------------------------
(* The shared counters                                                       *)

Counters == ClosedIsEmpty /\ AccountingExact /\ LimitsHold

(* The limits are numbers.                                                   *)
LEMMA LimitTypes ==
  /\ MaxTransfers \in Nat /\ MaxPerPeer \in Nat /\ MaxBytes \in Nat /\ MaxChunks \in Nat
  /\ MaxTransfers > 0 /\ MaxPerPeer > 0 /\ MaxBytes > 0 /\ MaxChunks > 0
BY FlowAssumption

(* The transfers to a peer that hold a window.                               *)
OpenTo(p) == {t \in Registered : PeerOf[t] = p}

(* The sets the counters count are finite.                                   *)
LEMMA CountedSets ==
  /\ IsFiniteSet(Registered) /\ Cardinality(Registered) \in Nat
  /\ \A p : IsFiniteSet(OpenTo(p)) /\ Cardinality(OpenTo(p)) \in Nat
<1>1. Registered \in SUBSET Transfers /\ \A p : OpenTo(p) \in SUBSET Transfers
  BY DEF Registered, OpenTo
<1>2. IsFiniteSet(Transfers)
  BY FlowAssumption
<1>3. \A T \in SUBSET Transfers : IsFiniteSet(T) /\ Cardinality(T) \in Nat
  BY <1>2, FS_Subset, FS_CardinalityType
<1> QED
  BY <1>1, <1>3

(* A step that changes the chunks of one window moves the budget by as much. *)
LEMMA BytesMove ==
  ASSUME NEW t \in Transfers, WindowType, WindowType', AccountingExact,
         \A u \in Transfers \ {t} : window'[u] = window[u],
         inflight' = inflight - Bytes(window[t].chunks) + Bytes(window'[t].chunks)
  PROVE  inflight' = SumFunction([u \in Transfers |-> Bytes(window'[u].chunks)])
<1> DEFINE old == [u \in Transfers |-> Bytes(window[u].chunks)]
           new == [u \in Transfers |-> Bytes(window'[u].chunks)]
<1>1. \A u \in Transfers : Bytes(window[u].chunks) \in Nat
  BY WindowChunks
<1>2. \A u \in Transfers : Bytes(window'[u].chunks) \in Nat
  <2>1. \A u \in Transfers : Chunks(window'[u].chunks)
    BY DEF WindowType, WindowsOf, ChunksOf, Chunks
  <2> QED
    BY <2>1, BytesType
<1>3. inflight = SumFunctionOnSet(old, Transfers)
  BY DEF AccountingExact, SumFunction
<1>4. /\ \A u \in Transfers : old[u] \in Int /\ new[u] \in Int
      /\ \A u \in Transfers \ {t} : new[u] = old[u]
      /\ old[t] = Bytes(window[t].chunks) /\ new[t] = Bytes(window'[t].chunks)
  BY <1>1, <1>2
<1>5. SumFunction(new) = SumFunctionOnSet(new, Transfers)
  BY DEF SumFunction
<1> HIDE DEF old, new
<1>6. SumFunctionOnSet(new, Transfers) = SumFunctionOnSet(old, Transfers) - old[t] + new[t]
  BY <1>4, FlowAssumption, SumChange
<1> USE DEF new
<1> QED
  BY <1>3, <1>4, <1>5, <1>6

(* As long as no window opens or closes the counters count the same windows. *)
LEMMA SameRegistered ==
  ASSUME \A u \in Transfers : window'[u].open = window[u].open
  PROVE  Registered' = Registered /\ \A p : OpenTo(p)' = OpenTo(p)
BY DEF Registered, OpenTo

(* The windows stay as they are.                                             *)
LEMMA CountersStay ==
  ASSUME Counters, UNCHANGED <<window, inflight, peers>>
  PROVE  Counters'
BY DEF Counters, ClosedIsEmpty, AccountingExact, LimitsHold, Registered

(* One open window changes what it tracks and stays open.                    *)
LEMMA CountersMove ==
  ASSUME NEW t \in Transfers, WindowType, WindowType', Counters, window'[t].open = window[t].open,
         \A u \in Transfers \ {t} : window'[u] = window[u],
         ~window[t].open => window'[t].chunks = window[t].chunks,
         inflight' = inflight - Bytes(window[t].chunks) + Bytes(window'[t].chunks),
         inflight' <= MaxBytes, peers' = peers
  PROVE  Counters'
<1>1. \A u \in Transfers : window'[u].open = window[u].open
  OBVIOUS
<1>2. Registered' = Registered /\ \A p : OpenTo(p)' = OpenTo(p)
  BY <1>1, SameRegistered
<1>3. ClosedIsEmpty'
  BY DEF Counters, ClosedIsEmpty
<1>4. AccountingExact'
  <2>1. inflight' = SumFunction([u \in Transfers |-> Bytes(window'[u].chunks)])
    BY BytesMove DEF Counters
  <2>2. \A p \in Peers : peers'[p] = Cardinality(OpenTo(p)')
    BY <1>2 DEF Counters, AccountingExact, OpenTo
  <2> QED
    BY <2>1, <2>2 DEF AccountingExact, OpenTo
<1>5. LimitsHold'
  BY <1>2 DEF Counters, LimitsHold
<1> QED
  BY <1>3, <1>4, <1>5 DEF Counters

(* A window opens while there is room.                                       *)
LEMMA CountersOpen ==
  ASSUME NEW t \in Transfers, WindowType, SharedType, Counters, Room(t), ~window[t].open,
         window' = [window EXCEPT ![t] = NewWindow(t)],
         peers' = [peers EXCEPT ![PeerOf[t]] = peers[PeerOf[t]] + 1], inflight' = inflight
  PROVE  Counters'
<1> DEFINE p0 == PeerOf[t]
<1>1. /\ DOMAIN window' = Transfers /\ window'[t].open /\ window'[t].chunks = {}
      /\ \A u \in Transfers \ {t} : window'[u] = window[u]
  BY DEF WindowType, NewWindow
<1>2. window[t].chunks = {}
  BY DEF Counters, ClosedIsEmpty
<1>3. p0 \in Peers /\ DOMAIN peers = Peers /\ \A p \in Peers : peers[p] \in Int
  BY PeerType DEF SharedType
<1>4. /\ Registered' = Registered \cup {t} /\ t \notin Registered
      /\ OpenTo(p0)' = OpenTo(p0) \cup {t} /\ t \notin OpenTo(p0)
      /\ \A p : p # p0 => OpenTo(p)' = OpenTo(p)
  BY <1>1 DEF Registered, OpenTo
<1>5. /\ Cardinality(Registered') = Cardinality(Registered) + 1
      /\ Cardinality(OpenTo(p0)') = Cardinality(OpenTo(p0)) + 1
      /\ Cardinality(Registered) \in Nat /\ Cardinality(OpenTo(p0)) \in Nat
  BY <1>4, CountedSets, FS_AddElement
<1>6. \A p \in Peers : peers'[p] = IF p = p0 THEN peers[p] + 1 ELSE peers[p]
  BY <1>3
<1>7. \A p \in Peers : peers[p] = Cardinality(OpenTo(p)) /\ peers[p] <= MaxPerPeer
  BY DEF Counters, AccountingExact, LimitsHold, OpenTo
<1> HIDE DEF p0
<1>8. ClosedIsEmpty'
  BY <1>1 DEF Counters, ClosedIsEmpty
<1>9. AccountingExact'
  <2>1. [u \in Transfers |-> Bytes(window'[u].chunks)] = [u \in Transfers |-> Bytes(window[u].chunks)]
    BY <1>1, <1>2
  <2>2. inflight' = SumFunction([u \in Transfers |-> Bytes(window'[u].chunks)])
    BY <2>1 DEF Counters, AccountingExact
  <2>3. \A p \in Peers : peers'[p] = Cardinality(OpenTo(p)')
    BY <1>3, <1>4, <1>5, <1>6, <1>7
  <2> QED
    BY <2>2, <2>3 DEF AccountingExact, OpenTo
<1>10. LimitsHold'
  <2>1. Cardinality(Registered) < MaxTransfers /\ peers[p0] < MaxPerPeer
    BY DEF Room, p0
  <2>2. \A p \in Peers : peers'[p] <= MaxPerPeer
    BY <1>3, <1>6, <1>7, <2>1, LimitTypes
  <2>3. Cardinality(Registered') <= MaxTransfers
    BY <1>5, <2>1, LimitTypes
  <2> QED
    BY <2>2, <2>3 DEF Counters, LimitsHold
<1> QED
  BY <1>8, <1>9, <1>10 DEF Counters

(* A window that is open closes and gives back what it holds.                *)
LEMMA CountersClose ==
  ASSUME NEW t \in Transfers, WindowType, WindowType', SharedType, Counters, Closes(t)
  PROVE  Counters'
<1>1. CASE UNCHANGED <<window, inflight, peers>>
  BY <1>1, CountersStay
<1>2. CASE /\ window[t].open
           /\ window' = [window EXCEPT ![t].open = FALSE, ![t].chunks = {}]
           /\ inflight' = inflight - Bytes(window[t].chunks)
           /\ peers' = [peers EXCEPT ![PeerOf[t]] = peers[PeerOf[t]] - 1]
  <2> DEFINE p0 == PeerOf[t]
  <2>1. /\ ~window'[t].open /\ window'[t].chunks = {}
        /\ \A u \in Transfers \ {t} : window'[u] = window[u]
    BY <1>2 DEF WindowType, WindowsOf
  <2>2. /\ Registered' = Registered \ {t} /\ t \in Registered
        /\ OpenTo(p0)' = OpenTo(p0) \ {t} /\ t \in OpenTo(p0)
        /\ \A p : p # p0 => OpenTo(p)' = OpenTo(p)
    BY <1>2, <2>1 DEF Registered, OpenTo
  <2>3. /\ Cardinality(Registered') = Cardinality(Registered) - 1
        /\ Cardinality(OpenTo(p0)') = Cardinality(OpenTo(p0)) - 1
        /\ Cardinality(Registered) \in Nat /\ Cardinality(OpenTo(p0)) \in Nat
    BY <2>2, CountedSets, FS_RemoveElement
  <2>4. p0 \in Peers /\ DOMAIN peers = Peers /\ \A p \in Peers : peers[p] \in Int
    BY PeerType DEF SharedType
  <2>5. \A p \in Peers : peers'[p] = IF p = p0 THEN peers[p] - 1 ELSE peers[p]
    BY <1>2, <2>4
  <2>6. \A p \in Peers : peers[p] = Cardinality(OpenTo(p)) /\ peers[p] <= MaxPerPeer
    BY DEF Counters, AccountingExact, LimitsHold, OpenTo
  <2>7. inflight \in Int /\ Bytes(window[t].chunks) \in Nat
    BY WindowChunks DEF SharedType
  <2> HIDE DEF p0
  <2>8. ClosedIsEmpty'
    BY <2>1 DEF Counters, ClosedIsEmpty
  <2>9. AccountingExact'
    <3>1. inflight' = inflight - Bytes(window[t].chunks) + Bytes(window'[t].chunks)
      <4>1. inflight' = inflight - Bytes(window[t].chunks) /\ Bytes(window'[t].chunks) = 0
        BY <1>2, <2>1, BytesOfNone
      <4> QED
        BY <2>7, <4>1
    <3>2. inflight' = SumFunction([u \in Transfers |-> Bytes(window'[u].chunks)])
      BY <2>1, <3>1, BytesMove DEF Counters
    <3>3. \A p \in Peers : peers'[p] = Cardinality(OpenTo(p)')
      BY <2>2, <2>3, <2>4, <2>5, <2>6
    <3> QED
      BY <3>2, <3>3 DEF AccountingExact, OpenTo
  <2>10. LimitsHold'
    <3>1. inflight' <= MaxBytes
      BY <1>2, <2>7, LimitTypes DEF Counters, LimitsHold
    <3>2. \A p \in Peers : peers'[p] <= MaxPerPeer
      BY <2>4, <2>5, <2>6, LimitTypes
    <3>3. Cardinality(Registered') <= MaxTransfers
      BY <2>3, LimitTypes DEF Counters, LimitsHold
    <3> QED
      BY <3>1, <3>2, <3>3 DEF LimitsHold
  <2> QED
    BY <2>8, <2>9, <2>10 DEF Counters
<1> QED
  BY <1>1, <1>2 DEF Closes, CloseTransfer

(* The shutdown closes every window at once.                                 *)
LEMMA CountersEnd ==
  ASSUME WindowType, Shutdown
  PROVE  Counters'
<1>1. \A t \in Transfers : ~window'[t].open /\ window'[t].chunks = {}
  BY DEF Shutdown, WindowType, WindowsOf
<1>2. Registered' = {} /\ \A p : OpenTo(p)' = {}
  BY <1>1 DEF Registered, OpenTo
<1>3. inflight' = 0 /\ peers' = [p \in Peers |-> 0]
  BY DEF Shutdown
<1>4. AccountingExact'
  <2> DEFINE new == [u \in Transfers |-> Bytes(window'[u].chunks)]
  <2>1. \A u \in Transfers : new[u] = 0
    BY <1>1, BytesOfNone
  <2>2. SumFunction(new) = SumFunctionOnSet(new, Transfers)
    BY DEF SumFunction
  <2> HIDE DEF new
  <2>3. SumFunction(new) = 0
    BY <2>1, <2>2, FlowAssumption, SumOfZeros
  <2> USE DEF new
  <2>4. \A p \in Peers : peers'[p] = Cardinality(OpenTo(p)')
    BY <1>2, <1>3, FS_EmptySet
  <2> QED
    BY <1>3, <2>3, <2>4 DEF AccountingExact, OpenTo
<1>5. LimitsHold'
  BY <1>2, <1>3, FS_EmptySet, LimitTypes DEF LimitsHold
<1> QED
  BY <1>1, <1>4, <1>5 DEF Counters, ClosedIsEmpty

----------------------------------------------------------------------------
(* Who sleeps, and what a step leaves alone                                  *)

(* A sleeping worker waits for something that does not hold.                 *)
SleepFits(t) ==
  CASE worker[t].state = "admitting" -> ~Room(t) /\ ~closed
    [] worker[t].state = "slot" -> window[t].open /\ ~SlotFree(t)
    [] worker[t].state = "draining" -> window[t].open /\ window[t].chunks # {}

(* As long as windows only open, no room appears.                            *)
LEMMA RoomShrinks ==
  ASSUME SharedType, SharedType', Registered \subseteq Registered',
         \A p \in Peers : peers[p] <= peers'[p]
  PROVE  \A u \in Transfers : Room(u)' => Room(u)
<1>1. Registered' \in SUBSET Transfers /\ IsFiniteSet(Transfers)
  BY FlowAssumption DEF Registered
<1>2. IsFiniteSet(Registered')
  BY <1>1, FS_Subset
<1>3. /\ Cardinality(Registered) <= Cardinality(Registered')
      /\ Cardinality(Registered) \in Nat /\ Cardinality(Registered') \in Nat
  BY <1>2, FS_Subset, FS_CardinalityType
<1> SUFFICES ASSUME NEW u \in Transfers, Room(u)' PROVE Room(u)
  OBVIOUS
<1>4. Cardinality(Registered') < MaxTransfers /\ peers'[PeerOf[u]] < MaxPerPeer
  BY DEF Room
<1>5. PeerOf[u] \in Peers
  BY FlowAssumption
<1>6. peers[PeerOf[u]] \in Int /\ peers'[PeerOf[u]] \in Int
  BY <1>5 DEF SharedType
<1>7. Cardinality(Registered) < MaxTransfers
  BY <1>3, <1>4, LimitTypes
<1>8. peers[PeerOf[u]] < MaxPerPeer
  BY <1>4, <1>5, <1>6, LimitTypes
<1> QED
  BY <1>7, <1>8 DEF Room

(* What a step of one transfer leaves to another.                            *)
Rests(u) ==
  /\ worker'[u] = worker[u] /\ window'[u] = window[u]
  /\ chan'[u] = chan[u] /\ recv'[u] = recv[u]
  /\ u \in asleep' => u \in asleep
  /\ u \in held' <=> u \in held
  /\ u \in reader' => u \in reader

(* What the sleepers wait for has not come, or all are woken.                *)
Wakes ==
  \/ asleep' = {}
  \/ /\ closed' = closed /\ inflight <= inflight'
     /\ \A u \in Transfers : Room(u)' => Room(u)

(* A transfer that rests keeps what is known of it.                          *)
LEMMA RestsKeeps ==
  ASSUME NEW u \in Transfers, PhaseFits(u), ByteFits(u), Rests(u)
  PROVE  PhaseFits(u)' /\ ByteFits(u)'
<1>1. Retreats(u)
  BY DEF Rests, Retreats, PhaseRetreats, ChannelRetreats
<1>2. PhaseFits(u)'
  BY DEF Rests, PhaseFits
<1> QED
  BY <1>1, <1>2, RetreatKeeps

(* A sleeper of a transfer that rests still waits for what does not hold.    *)
LEMMA SleeperStays ==
  ASSUME NEW u \in Transfers, WorkerType, SharedType, SharedType', PhaseFits(u),
         u \in asleep, SleepFits(u), Rests(u),
         closed' = closed, inflight <= inflight', Room(u)' => Room(u)
  PROVE  SleepFits(u)'
<1>1. worker[u].state \in Waits
  BY DEF PhaseFits
<1>2. CASE worker[u].state = "admitting"
  BY <1>2 DEF SleepFits, Rests
<1>3. CASE worker[u].state = "draining"
  BY <1>3 DEF SleepFits, Rests
<1>4. CASE worker[u].state = "slot"
  <2> DEFINE k == ChunkAt(u).size
  <2>1. ChunkAt(u)' = ChunkAt(u)
    BY DEF ChunkAt, Rests
  <2>2. window[u].open /\ ~SlotFree(u)
    BY <1>4 DEF SleepFits
  <2>3. k \in Int
    <3>1. worker[u].file <= Total(u) /\ worker[u].off \in Nat /\ worker[u].file \in 1..(Total(u) + 1)
      BY <1>4 DEF PhaseFits, WorkerType, WorkersOf
    <3>2. worker[u].file \in Files(u) /\ Sizes[u][worker[u].file] \in Nat
      BY <3>1, SizesType
    <3>3. ChunkSize \in Nat
      BY FlowAssumption
    <3> QED
      BY <3>1, <3>2, <3>3 DEF ChunkAt, Smaller
  <2>4. inflight \in Int /\ inflight' \in Int
    BY DEF SharedType
  <2> HIDE DEF k
  <2>5. inflight' + k <= MaxBytes => inflight + k <= MaxBytes
    <3>1. \A a, b, c, m \in Int : a <= b /\ b + c <= m => a + c <= m
      OBVIOUS
    <3>2. MaxBytes \in Int
      BY LimitTypes
    <3> QED
      BY <2>3, <2>4, <3>1, <3>2
  <2>6. ~SlotFree(u)'
    <3>1. ~ (Cardinality(window[u].chunks) < MaxChunks /\ inflight + k <= MaxBytes)
      BY <2>2 DEF SlotFree, k
    <3>2. ~ (Cardinality(window'[u].chunks) < MaxChunks /\ inflight' + k <= MaxBytes)
      BY <2>5, <3>1 DEF Rests
    <3> QED
      BY <2>1, <3>2 DEF SlotFree, k
  <2> QED
    BY <1>4, <2>2, <2>6 DEF SleepFits, Rests
<1> QED
  BY <1>1, <1>2, <1>3, <1>4 DEF Waits

(* A step of one transfer: what it does to this transfer and to the shared   *)
(* counters is all that is left to show.                                     *)
LEMMA OneMoves ==
  ASSUME FlowInv, FlowTypes', NEW t \in Transfers,
         \A u \in Transfers \ {t} : Rests(u),
         PhaseFits(t)', ByteFits(t)', Counters', Wakes, t \in asleep' => SleepFits(t)'
  PROVE  FlowInv'
<1>1. ASSUME NEW u \in Transfers
      PROVE  PhaseFits(u)' /\ ByteFits(u)' /\ (u \in asleep' => SleepFits(u)')
  <2>1. CASE u = t
    BY <2>1
  <2>2. CASE u # t
    <3>1. PhaseFits(u) /\ ByteFits(u) /\ Rests(u)
      BY <2>2 DEF FlowInv, PhasesFit, BytesFit
    <3>2. PhaseFits(u)' /\ ByteFits(u)'
      BY <3>1, RestsKeeps
    <3>3. ASSUME u \in asleep' PROVE SleepFits(u)'
      <4>1. u \in asleep
        BY <3>1, <3>3 DEF Rests
      <4>2. SleepFits(u)
        BY <4>1 DEF FlowInv, NoLostWakeup, SleepFits
      <4>3. closed' = closed /\ inflight <= inflight' /\ (Room(u)' => Room(u))
        BY <3>3 DEF Wakes
      <4> QED
        BY <3>1, <4>1, <4>2, <4>3, SleeperStays DEF FlowInv, FlowTypes
    <3> QED
      BY <3>2, <3>3
  <2> QED
    BY <2>1, <2>2
<1>2. asleep' \subseteq Transfers
  BY DEF FlowTypes, SharedType
<1>3. NoLostWakeup'
  <2> SUFFICES ASSUME NEW u \in asleep' PROVE SleepFits(u)'
    BY DEF NoLostWakeup, SleepFits
  <2> QED
    BY <1>1, <1>2
<1>4. PhasesFit' /\ BytesFit'
  BY <1>1 DEF PhasesFit, BytesFit
<1> QED
  BY <1>3, <1>4 DEF FlowInv, Counters

----------------------------------------------------------------------------
(* Steps in which the worker changes its phase                               *)

(* A worker's change of phase, with what it says about the phase it enters.  *)
LEMMA PhaseStep ==
  ASSUME FlowInv, NEW t \in Transfers, NEW s \in WorkerStates, GoTo(t, s),
         UNCHANGED <<window, inflight, peers, closed, chan, recv, reader, cancel, aborts>>,
         held' \subseteq Transfers, \A u \in Transfers \ {t} : u \in held' <=> u \in held,
         left' \in [Kinds -> Nat], asleep' \subseteq asleep \cup {t},
         PhaseRetreats(t), PhaseFits(t)', t \in asleep' => SleepFits(t)'
  PROVE  FlowInv'
<1>1. WorkerType /\ WindowType /\ ChannelType /\ StageType /\ SharedType
  BY DEF FlowInv, FlowTypes
<1>2. /\ WorkerType'
      /\ worker'[t].file = worker[t].file /\ worker'[t].off = worker[t].off
      /\ \A u \in Transfers \ {t} : worker'[u] = worker[u]
  BY <1>1, GoToIs
<1>3. FlowTypes'
  <2>1. WindowType' /\ ChannelType' /\ StageType'
    BY <1>1, SameTypes
  <2>2. SharedType'
    <3>1. asleep' \subseteq Transfers
      BY <1>1 DEF SharedType
    <3> QED
      BY <1>1, <3>1 DEF SharedType
  <2> QED
    BY <1>2, <2>1, <2>2 DEF FlowTypes
<1>4. ASSUME NEW u \in Transfers \ {t} PROVE Rests(u)
  BY <1>2 DEF Rests
<1>5. ByteFits(t)'
  <2>1. Retreats(t)
    BY <1>2 DEF Retreats, ChannelRetreats
  <2> QED
    BY <2>1, RetreatKeeps DEF FlowInv, BytesFit
<1>6. Counters'
  BY CountersStay DEF FlowInv, Counters
<1>7. Wakes
  <2>1. \A u \in Transfers : Room(u)' => Room(u)
    BY DEF Room, Registered
  <2>2. inflight \in Int
    BY <1>1 DEF SharedType
  <2> QED
    BY <2>1, <2>2 DEF Wakes
<1> QED
  BY <1>3, <1>4, <1>5, <1>6, <1>7, OneMoves

(* A fault is taken from what may still happen.                              *)
LEMMA SpendIs ==
  ASSUME SharedType, NEW kind \in Kinds, Spend(kind)
  PROVE  left' \in [Kinds -> Nat]
<1>1. left \in [Kinds -> Nat] /\ left[kind] \in Nat /\ left[kind] > 0
  BY DEF SharedType, Spend
<1>2. left' = [left EXCEPT ![kind] = left[kind] - 1] /\ left[kind] - 1 \in Nat
  BY <1>1 DEF Spend
<1> QED
  BY <1>1, <1>2

(* What is known of a transfer and of the shared state.                      *)
LEMMA Parts ==
  ASSUME FlowInv, NEW t \in Transfers
  PROVE  /\ WorkerType /\ WindowType /\ ChannelType /\ StageType /\ SharedType
         /\ worker[t] \in WorkersOf(t) /\ worker[t].state \in WorkerStates
         /\ PhaseFits(t) /\ ByteFits(t) /\ Counters
         /\ t \in asleep => SleepFits(t)
<1>1. WorkerType /\ WindowType /\ ChannelType /\ StageType /\ SharedType
  BY DEF FlowInv, FlowTypes
<1>2. worker[t] \in WorkersOf(t) /\ worker[t].state \in WorkerStates
  BY <1>1 DEF WorkerType, WorkersOf
<1>3. PhaseFits(t) /\ ByteFits(t) /\ Counters
  BY DEF FlowInv, PhasesFit, BytesFit, Counters
<1>4. t \in asleep => SleepFits(t)
  BY DEF FlowInv, NoLostWakeup, SleepFits
<1> QED
  BY <1>1, <1>2, <1>3, <1>4

(* The worker leaves its phase for an end or for the next dial, and no       *)
(* longer sleeps.                                                            *)
LEMMA LeaveKeeps ==
  ASSUME FlowInv, NEW t \in Transfers,
         NEW s \in {"completed", "failed", "cancelled", "disconnected"}, GoTo(t, s),
         s = "disconnected" => t \in held,
         worker[t].state = "admitted" => ~window[t].open,
         worker[t].state = "dialing" => ~chan[t].up /\ t \notin reader,
         UNCHANGED <<window, inflight, peers, closed, chan, recv, reader, cancel, aborts, held>>,
         left' \in [Kinds -> Nat],
         asleep' = asleep \ {t} \/ (asleep' = asleep /\ t \notin asleep)
  PROVE  FlowInv'
<1>1. s \in WorkerStates
  BY DEF WorkerStates
<1>2. worker'[t].state = s
  BY <1>1, Parts, GoToIs
<1>3. PhaseRetreats(t)
  BY <1>2 DEF PhaseRetreats
<1>4. PhaseFits(t)'
  <2>1. PhaseFits(t)
    BY Parts
  <2> QED
    BY <1>2, <2>1 DEF PhaseFits, Before, Running
<1>5. held' \subseteq Transfers
  BY Parts DEF SharedType
<1> QED
  BY <1>1, <1>3, <1>4, <1>5, PhaseStep

(* _admit_window sees the cancel.                                            *)
LEMMA AdmissionPollKeeps ==
  ASSUME FlowInv, NEW t \in Transfers, AdmissionPoll(t)
  PROVE  FlowInv'
BY LeaveKeeps, Parts DEF AdmissionPoll, Leave, coordinator, SharedType

(* The preflight deadline passes in open_transfer.                           *)
LEMMA AdmissionTimeoutKeeps ==
  ASSUME FlowInv, NEW t \in Transfers, AdmissionTimeout(t)
  PROVE  FlowInv'
<1>1. left' \in [Kinds -> Nat]
  BY Parts, SpendIs DEF AdmissionTimeout, Kinds
<1> QED
  BY <1>1, LeaveKeeps DEF AdmissionTimeout, Leave, coordinator

(* open_transfer finds a cancel or the coordinator shut down.                *)
LEMMA AdmissionClosedKeeps ==
  ASSUME FlowInv, NEW t \in Transfers, AdmissionClosed(t)
  PROVE  FlowInv'
BY LeaveKeeps, Parts DEF AdmissionClosed, At, Leave, coordinator, SharedType

(* The session is cancelled before it dials.                                 *)
LEMMA DialCancelledKeeps ==
  ASSUME FlowInv, NEW t \in Transfers, DialCancelled(t)
  PROVE  FlowInv'
<1>1. ~chan[t].up /\ t \notin reader
  BY Parts DEF DialCancelled, At, PhaseFits
<1> QED
  BY <1>1, LeaveKeeps, Parts DEF DialCancelled, At, Leave, coordinator, SharedType

(* The dial fails.                                                           *)
LEMMA DialFailsKeeps ==
  ASSUME FlowInv, NEW t \in Transfers, DialFails(t)
  PROVE  FlowInv'
<1>1. ~chan[t].up /\ t \notin reader /\ t \in held
  BY Parts DEF DialFails, At, PhaseFits, Running
<1>2. left' \in [Kinds -> Nat]
  BY Parts, SpendIs DEF DialFails, Kinds
<1> QED
  BY <1>1, <1>2, LeaveKeeps DEF DialFails, At, Leave, coordinator

(* A worker that sends or waits finds its window closed or a cancel.         *)
LEMMA SendInterruptedKeeps ==
  ASSUME FlowInv, NEW t \in Transfers, SendInterrupted(t)
  PROVE  FlowInv'
<1>1. t \in held
  BY Parts DEF SendInterrupted, At, PhaseFits, Running
<1> QED
  BY <1>1, LeaveKeeps, Parts DEF SendInterrupted, At, Interrupted, Leave, coordinator, SharedType

(* The window_ack deadline of a waiting worker passes.                       *)
LEMMA WindowTimeoutKeeps ==
  ASSUME FlowInv, NEW t \in Transfers, WindowTimeout(t)
  PROVE  FlowInv'
<1>1. left' \in [Kinds -> Nat]
  BY Parts, SpendIs DEF WindowTimeout, Kinds
<1> QED
  BY <1>1, LeaveKeeps DEF WindowTimeout, Leave, coordinator

(* The session stores its window.                                            *)
LEMMA HoldWindowKeeps ==
  ASSUME FlowInv, NEW t \in Transfers, HoldWindow(t)
  PROVE  FlowInv'
<1>1. /\ worker[t].state = "admitted" /\ t \notin asleep /\ held' = held \cup {t}
      /\ GoTo(t, "dialing") /\ asleep' = asleep /\ left' = left
      /\ UNCHANGED <<window, inflight, peers, closed, chan, recv, reader, cancel, aborts>>
  BY DEF HoldWindow, At, coordinator
<1>2. "dialing" \in WorkerStates
  BY DEF WorkerStates
<1>3. worker'[t].state = "dialing"
  BY <1>1, <1>2, Parts, GoToIs
<1>4. PhaseRetreats(t)
  BY <1>1, <1>3 DEF PhaseRetreats
<1>5. PhaseFits(t)'
  <2>1. PhaseFits(t)
    BY Parts
  <2>2. ~chan[t].up /\ t \notin reader
    BY <1>1, <2>1 DEF PhaseFits, Before
  <2> QED
    BY <1>1, <1>3, <2>1, <2>2 DEF PhaseFits, Before, Running
<1>6. held' \subseteq Transfers /\ left' \in [Kinds -> Nat]
  BY <1>1, Parts DEF SharedType
<1> QED
  BY <1>1, <1>2, <1>4, <1>5, <1>6, PhaseStep

(* wait_until_empty: the last chunk is acknowledged, or the worker sleeps.   *)
LEMMA DrainKeeps ==
  ASSUME FlowInv, NEW t \in Transfers, Drain(t)
  PROVE  FlowInv'
<1>1. /\ worker[t].state \in {"sending", "draining"} /\ t \notin asleep /\ window[t].open
      /\ left' = left
      /\ UNCHANGED <<window, inflight, peers, closed, chan, recv, reader, cancel, aborts, held>>
  BY DEF Drain, At, coordinator
<1>2. held' \subseteq Transfers /\ left' \in [Kinds -> Nat]
  BY <1>1, Parts DEF SharedType
<1>3. CASE window[t].chunks = {} /\ GoTo(t, "completed") /\ asleep' = asleep
  BY <1>1, <1>2, <1>3, LeaveKeeps
<1>4. CASE window[t].chunks # {} /\ GoTo(t, "draining") /\ asleep' = asleep \cup {t}
  <2>1. "draining" \in WorkerStates
    BY DEF WorkerStates
  <2>2. worker'[t].state = "draining"
    BY <1>4, <2>1, Parts, GoToIs
  <2>3. PhaseFits(t)'
    <3>1. PhaseFits(t)
      BY Parts
    <3> QED
      BY <1>1, <1>4, <2>2, <3>1 DEF PhaseFits, Before, Running, Waits
  <2>4. PhaseRetreats(t) /\ SleepFits(t)'
    BY <1>1, <1>4, <2>2 DEF PhaseRetreats, SleepFits
  <2> QED
    BY <1>1, <1>2, <1>4, <2>1, <2>3, <2>4, PhaseStep
<1> QED
  BY <1>3, <1>4 DEF Drain, Leave, Sleep

----------------------------------------------------------------------------
(* Admission, the dial and the baseline                                      *)

(* open_transfer: a window is registered, or the worker sleeps.              *)
LEMMA OpenTransferKeeps ==
  ASSUME FlowInv, NEW t \in Transfers, OpenTransfer(t)
  PROVE  FlowInv'
<1>1. /\ worker[t].state \in {"accepted", "admitting"} /\ t \notin asleep /\ ~closed
      /\ UNCHANGED <<held, reader, cancel, aborts, inflight, closed, chan, recv, left>>
  BY DEF OpenTransfer, At
<1>2. /\ WorkerType /\ WindowType /\ ChannelType /\ StageType /\ SharedType
      /\ PhaseFits(t) /\ ByteFits(t) /\ Counters
  BY Parts
<1>3. ~window[t].open /\ t \notin held
  BY <1>1, <1>2 DEF PhaseFits, Before
<1>4. CASE /\ Room(t) /\ window' = [window EXCEPT ![t] = NewWindow(t)]
           /\ peers' = [peers EXCEPT ![PeerOf[t]] = peers[PeerOf[t]] + 1]
           /\ GoTo(t, "admitted") /\ asleep' = asleep
  <2>1. "admitted" \in WorkerStates
    BY DEF WorkerStates
  <2>2. /\ WorkerType' /\ worker'[t].state = "admitted"
        /\ worker'[t].file = worker[t].file /\ worker'[t].off = worker[t].off
        /\ \A u \in Transfers \ {t} : worker'[u] = worker[u]
    BY <1>2, <1>4, <2>1, GoToIs
  <2>3. NewWindow(t) \in WindowsOf(t) /\ IsFiniteSet(NewWindow(t).chunks)
    BY FS_EmptySet DEF NewWindow, WindowsOf, NoOffsets, Offsets, Unknown
  <2>4. /\ WindowType' /\ window'[t] = NewWindow(t)
        /\ \A u \in Transfers \ {t} : window'[u] = window[u]
    BY <1>2, <1>4, <2>3, OneWindow
  <2>5. PeerOf[t] \in Peers /\ peers[PeerOf[t]] \in Int
    BY <1>2, PeerType
  <2>6. FlowTypes'
    <3>1. ChannelType' /\ StageType'
      BY <1>1, <1>2, SameTypes
    <3>2. peers' \in [Peers -> Int]
      <4>1. peers[PeerOf[t]] + 1 \in Int
        BY <2>5
      <4> QED
        BY <1>2, <1>4, <4>1 DEF SharedType
    <3>3. SharedType'
      BY <1>1, <1>2, <1>4, <3>2 DEF SharedType
    <3> QED
      BY <2>2, <2>4, <3>1, <3>3 DEF FlowTypes
  <2>7. \A u \in Transfers \ {t} : Rests(u)
    BY <1>1, <1>4, <2>2, <2>4 DEF Rests
  <2>8. PhaseFits(t)'
    BY <1>1, <1>2, <1>3, <1>4, <2>2 DEF PhaseFits, Before, Running
  <2>9. ByteFits(t)'
    <3>1. StaysPut(t) /\ worker[t].state \in Before
      BY <1>1, <2>2 DEF StaysPut, Before
    <3> QED
      BY <1>2, <2>2, <2>4, <3>1, AdmissionKeeps
  <2>10. Counters'
    BY <1>1, <1>2, <1>3, <1>4, CountersOpen
  <2>11. Wakes
    <3>1. Registered \subseteq Registered'
      BY <1>3, <2>4 DEF Registered, NewWindow
    <3>2. \A p \in Peers : peers[p] <= peers'[p]
      BY <1>2, <1>4, <2>5 DEF SharedType
    <3>3. SharedType' /\ inflight \in Int
      BY <1>2, <2>6 DEF FlowTypes, SharedType
    <3>4. \A u \in Transfers : Room(u)' => Room(u)
      BY <1>2, <3>1, <3>2, <3>3, RoomShrinks
    <3> QED
      BY <1>1, <3>3, <3>4 DEF Wakes
  <2> QED
    BY <1>1, <1>4, <2>6, <2>7, <2>8, <2>9, <2>10, <2>11, OneMoves
<1>5. CASE /\ ~Room(t) /\ GoTo(t, "admitting") /\ asleep' = asleep \cup {t}
           /\ UNCHANGED <<window, peers>>
  <2>1. "admitting" \in WorkerStates
    BY DEF WorkerStates
  <2>2. worker'[t].state = "admitting"
    BY <1>2, <1>5, <2>1, GoToIs
  <2>3. PhaseFits(t)' /\ PhaseRetreats(t)
    BY <1>1, <1>2, <1>3, <1>5, <2>2 DEF PhaseFits, Before, Running, Waits, PhaseRetreats
  <2>4. ~Room(t)'
    BY <1>5 DEF Room, Registered
  <2>5. SleepFits(t)'
    BY <1>1, <2>2, <2>4 DEF SleepFits
  <2>6. held' \subseteq Transfers /\ left' \in [Kinds -> Nat]
    BY <1>1, <1>2 DEF SharedType
  <2> QED
    BY <1>1, <1>5, <2>1, <2>3, <2>5, <2>6, PhaseStep
<1> QED
  BY <1>4, <1>5 DEF OpenTransfer, Sleep

(* A channel without anything in it.                                         *)
LEMMA FreshChannels ==
  ASSUME NEW t \in Transfers
  PROVE  NoChannel \in ChannelsOf(t) /\ [NoChannel EXCEPT !.up = TRUE] \in ChannelsOf(t)
<1>1. <<>> \in Seq(ChunksOf(t)) /\ <<>> \in Seq(AcksOf(t))
  OBVIOUS
<1>2. NoChannel \in ChannelsOf(t)
  BY <1>1 DEF NoChannel, ChannelsOf
<1> QED
  BY <1>2 DEF ChannelsOf

(* The dial opens the channel and restores the receiver.                     *)
LEMMA DialStepKeeps ==
  ASSUME FlowInv, NEW t \in Transfers, Dial(t)
  PROVE  FlowInv'
<1>1. /\ worker[t].state = "dialing" /\ t \notin asleep
      /\ UNCHANGED <<window, inflight, peers, closed, held, cancel, aborts, asleep, left>>
      /\ reader' = reader \cup {t}
      /\ chan' = [chan EXCEPT ![t] = [NoChannel EXCEPT !.up = TRUE]]
      /\ worker' = [worker EXCEPT ![t] = [state |-> "baseline", file |-> recv[t].file,
                                          off |-> recv'[t].off]]
  BY DEF Dial, At, coordinator
<1>2. /\ WorkerType /\ WindowType /\ ChannelType /\ StageType /\ SharedType
      /\ PhaseFits(t) /\ ByteFits(t) /\ Counters
  BY Parts
<1>3. PICK written \in BOOLEAN : recv' = [recv EXCEPT ![t] = Restored(t, Progress(t, written))]
  BY DEF Dial
<1>4. DOMAIN recv = Transfers /\ recv[t] \in StagesOf(t)
  BY <1>2 DEF StageType
<1>5. recv'[t] = Restored(t, Progress(t, written))
  BY <1>3, <1>4
<1>6. recv'[t] \in StagesOf(t)
  BY <1>2, <1>5, RestoredIs DEF ByteFits
<1>7. StageType' /\ \A u \in Transfers \ {t} : recv'[u] = recv[u]
  BY <1>2, <1>3, <1>5, <1>6, OneStage
<1> DEFINE c == [NoChannel EXCEPT !.up = TRUE]
           w == [state |-> "baseline", file |-> recv[t].file, off |-> recv'[t].off]
<1>8. c \in ChannelsOf(t)
  BY FreshChannels DEF c
<1>9. w \in WorkersOf(t)
  BY <1>4, <1>6 DEF WorkersOf, WorkerStates, StagesOf
<1>10. ChannelType' /\ chan'[t] = c /\ \A u \in Transfers \ {t} : chan'[u] = chan[u]
  <2> HIDE DEF c
  <2>1. chan' = [chan EXCEPT ![t] = c]
    BY <1>1 DEF c
  <2> QED
    BY <1>2, <1>8, <2>1, OneChannel
<1>11. WorkerType' /\ worker'[t] = w /\ \A u \in Transfers \ {t} : worker'[u] = worker[u]
  <2> HIDE DEF w
  <2>1. worker' = [worker EXCEPT ![t] = w]
    BY <1>1 DEF w
  <2> QED
    BY <1>2, <1>9, <2>1, OneWorker
<1>12. FlowTypes'
  <2>1. WindowType'
    BY <1>1, <1>2, SameTypes
  <2>2. SharedType'
    BY <1>1, <1>2 DEF SharedType
  <2> QED
    BY <1>7, <1>10, <1>11, <2>1, <2>2 DEF FlowTypes
<1>13. \A u \in Transfers \ {t} : Rests(u)
  BY <1>1, <1>7, <1>10, <1>11 DEF Rests
<1>14. PhaseFits(t)'
  <2>1. worker'[t].state = "baseline"
    BY <1>11
  <2> QED
    BY <1>1, <1>2, <2>1 DEF PhaseFits, Before, Running
<1>15. ByteFits(t)'
  BY <1>1, <1>2, <1>5, <1>10, <1>11, DialKeeps
<1>16. Counters'
  BY <1>1, <1>2, CountersStay
<1>17. Wakes
  BY <1>1, <1>2 DEF Wakes, Room, Registered, SharedType
<1> QED
  BY <1>1, <1>12, <1>13, <1>14, <1>15, <1>16, <1>17, OneMoves

(* The resume baseline: the window starts at the receiver's position.        *)
LEMMA BaselineStepKeeps ==
  ASSUME FlowInv, NEW t \in Transfers, Baseline(t)
  PROVE  FlowInv'
<1> DEFINE f == worker[t].file
           off == worker[t].off
<1>1. /\ worker[t].state = "baseline" /\ t \notin asleep
      /\ UNCHANGED <<inflight, peers, closed, held, reader, cancel, aborts, asleep, chan, recv, left>>
  BY DEF Baseline, At
<1>2. /\ WorkerType /\ WindowType /\ ChannelType /\ StageType /\ SharedType
      /\ PhaseFits(t) /\ ByteFits(t) /\ Counters
      /\ worker[t] \in WorkersOf(t)
  BY Parts
<1>3. t \in held
  BY <1>1, <1>2 DEF PhaseFits, Running
<1>4. CASE GoTo(t, "failed") /\ UNCHANGED window
  BY <1>1, <1>2, <1>4, LeaveKeeps DEF SharedType
<1>5. CASE /\ GoTo(t, "sending")
           /\ \/ UNCHANGED window /\ (f > Total(t) \/ off = 0)
              \/ /\ f <= Total(t)
                 /\ window' = [window EXCEPT ![t].next[f] = off, ![t].acked[f] = off,
                                             ![t].durable[f] = off]
  <2>1. "sending" \in WorkerStates
    BY DEF WorkerStates
  <2>2. /\ WorkerType' /\ worker'[t].state = "sending"
        /\ worker'[t].file = worker[t].file /\ worker'[t].off = worker[t].off
        /\ \A u \in Transfers \ {t} : worker'[u] = worker[u]
    BY <1>2, <1>5, <2>1, GoToIs
  <2>3. DOMAIN window = Transfers /\ window[t] \in WindowsOf(t) /\ IsFiniteSet(window[t].chunks)
    BY <1>2 DEF WindowType
  <2> DEFINE w == [window[t] EXCEPT !.next[f] = off, !.acked[f] = off, !.durable[f] = off]
  <2>4. /\ WindowType' /\ \A u \in Transfers \ {t} : window'[u] = window[u]
        /\ window'[t].open = window[t].open /\ window'[t].chunks = window[t].chunks
        /\ \/ window'[t] = window[t] /\ (f > Total(t) \/ off = 0)
           \/ f <= Total(t) /\ window'[t] = w
    <3>1. CASE UNCHANGED window /\ (f > Total(t) \/ off = 0)
      BY <1>2, <3>1, SameTypes
    <3>2. CASE /\ f <= Total(t)
               /\ window' = [window EXCEPT ![t].next[f] = off, ![t].acked[f] = off,
                                           ![t].durable[f] = off]
      <4>1. w \in WindowsOf(t) /\ w.open = window[t].open /\ w.chunks = window[t].chunks
        <5>1. off \in Int
          BY <1>2 DEF WorkersOf
        <5> QED
          BY <2>3, <5>1 DEF WindowsOf, Offsets
      <4>2. window' = [window EXCEPT ![t] = w]
        BY <2>3, <3>2
      <4> HIDE DEF w
      <4>3. IsFiniteSet(w.chunks)
        BY <2>3, <4>1
      <4>4. WindowType' /\ window'[t] = w /\ \A u \in Transfers \ {t} : window'[u] = window[u]
        BY <1>2, <4>1, <4>2, <4>3, OneWindow
      <4> QED
        BY <3>2, <4>1, <4>4
    <3> QED
      BY <1>5, <3>1, <3>2
  <2>5. FlowTypes'
    <3>1. ChannelType' /\ StageType'
      BY <1>1, <1>2, SameTypes
    <3>2. SharedType'
      BY <1>1, <1>2 DEF SharedType
    <3> QED
      BY <2>2, <2>4, <3>1, <3>2 DEF FlowTypes
  <2>6. \A u \in Transfers \ {t} : Rests(u)
    BY <1>1, <2>2, <2>4 DEF Rests
  <2>7. PhaseFits(t)'
    BY <1>1, <1>2, <2>2, <2>4 DEF PhaseFits, Before, Running
  <2>8. ByteFits(t)'
    <3>1. StaysPut(t)
      BY <1>1, <2>2 DEF StaysPut
    <3> QED
      BY <1>1, <1>2, <2>2, <2>4, <3>1, BaselineKeeps
  <2>9. Counters'
    <3>1. inflight' <= MaxBytes /\ peers' = peers
      BY <1>1, <1>2 DEF Counters, LimitsHold
    <3>2. inflight' = inflight - Bytes(window[t].chunks) + Bytes(window'[t].chunks)
      <4>1. inflight \in Int /\ Bytes(window[t].chunks) \in Nat
        BY <1>2, WindowChunks DEF SharedType
      <4> QED
        BY <1>1, <2>4, <4>1
    <3> QED
      BY <1>2, <2>4, <3>1, <3>2, CountersMove
  <2>10. Wakes
    <3>1. Registered' = Registered
      BY <2>4 DEF Registered
    <3> QED
      BY <1>1, <1>2, <3>1 DEF Wakes, Room, SharedType
  <2> QED
    BY <1>1, <2>5, <2>6, <2>7, <2>8, <2>9, <2>10, OneMoves
<1>6. f \in 1..(Total(t) + 1) /\ Total(t) \in Nat
  BY <1>2, SizesType DEF WorkersOf
<1> QED
  BY <1>4, <1>5, <1>6 DEF Baseline, Leave, Total

----------------------------------------------------------------------------
(* Payload                                                                   *)

(* The chunk to send next is not tracked yet.                                *)
LEMMA NextIsUntracked ==
  ASSUME NEW t \in Transfers, WorkerType, WindowType, ByteFits(t), window[t].open,
         worker[t].state \in {"sending", "slot"}, worker[t].file <= Total(t)
  PROVE  ChunkAt(t) \notin window[t].chunks
<1> DEFINE c == ChunkAt(t)
<1>1. c \in ChunksOf(t) /\ c.file = worker[t].file /\ c.end = worker[t].off + c.size
  BY ChunkIs DEF ByteFits
<1>2. \A d \in window[t].chunks : Passed(d, worker[t].file, worker[t].off)
  BY DEF ByteFits, TrackFits
<1>3. c.size \in Nat /\ c.size > 0 /\ worker[t].off \in Nat /\ worker[t].file \in Nat
  <2>1. Total(t) \in Nat
    BY SizesType
  <2> QED
    BY <1>1, <2>1 DEF ChunksOf, WorkerType, WorkersOf
<1> HIDE DEF c
<1>4. ~Passed(c, worker[t].file, worker[t].off)
  BY <1>1, <1>3 DEF Passed
<1> QED
  BY <1>2, <1>4 DEF c

(* track_sent: the chunk takes its bytes from the shared budget and goes to  *)
(* the channel, or the worker sleeps.                                        *)
LEMMA TrackSentKeeps ==
  ASSUME FlowInv, NEW t \in Transfers, TrackSent(t)
  PROVE  FlowInv'
<1>1. /\ worker[t].state \in {"sending", "slot"} /\ t \notin asleep
      /\ worker[t].file <= Total(t) /\ window[t].open
      /\ UNCHANGED <<peers, closed, held, reader, cancel, aborts, recv, left>>
  BY DEF TrackSent, At
<1>2. /\ WorkerType /\ WindowType /\ ChannelType /\ StageType /\ SharedType
      /\ PhaseFits(t) /\ ByteFits(t) /\ Counters
      /\ worker[t] \in WorkersOf(t)
  BY Parts
<1>3. t \in held
  BY <1>1, <1>2 DEF PhaseFits, Running
<1> DEFINE c == ChunkAt(t)
<1>4. c \in ChunksOf(t) /\ c.size \in Nat
  BY <1>1, <1>2, ChunkIs DEF ByteFits, ChunksOf
<1>5. CASE /\ SlotFree(t) /\ asleep' = asleep
           /\ window' = [window EXCEPT ![t] = Tracked(t)]
           /\ inflight' = inflight + c.size
           /\ worker' = [worker EXCEPT ![t] =
                           IF chan[t].up THEN Advanced(t)
                           ELSE [worker[t] EXCEPT !.state = "disconnected"]]
           /\ chan' = IF chan[t].up THEN [chan EXCEPT ![t].data = Append(@, c)] ELSE chan
  <2> DEFINE v == IF chan[t].up THEN Advanced(t) ELSE [worker[t] EXCEPT !.state = "disconnected"]
             k == [chan[t] EXCEPT !.data = Append(chan[t].data, c)]
             w == Tracked(t)
  <2>1. w \in WindowsOf(t) /\ w.open = window[t].open /\ w.chunks = window[t].chunks \cup {c}
    BY <1>1, <1>2, TrackedIs DEF ByteFits
  <2>2. Chunks(window[t].chunks) /\ Bytes(window[t].chunks) \in Nat
    BY <1>2, WindowChunks
  <2>3. Chunks(w.chunks) /\ Bytes(w.chunks) = Bytes(window[t].chunks) + c.size
    <3>1. c \notin window[t].chunks
      BY <1>1, <1>2, NextIsUntracked
    <3> HIDE DEF c, w
    <3> QED
      BY <1>4, <2>1, <2>2, <3>1, BytesOfOneMore
  <2>4. WindowType' /\ window'[t] = w /\ \A u \in Transfers \ {t} : window'[u] = window[u]
    <3>1. IsFiniteSet(w.chunks)
      BY <2>3 DEF Chunks
    <3>2. window' = [window EXCEPT ![t] = w]
      BY <1>5
    <3> HIDE DEF w
    <3> QED
      BY <1>2, <2>1, <3>1, <3>2, OneWindow
  <2>5. /\ v \in WorkersOf(t) /\ v.state \in {"sending", "disconnected"}
    <3>1. Advanced(t) \in WorkersOf(t) /\ Advanced(t).state = "sending"
      BY <1>1, <1>2, AdvancedIs DEF ByteFits
    <3>2. [worker[t] EXCEPT !.state = "disconnected"] \in WorkersOf(t)
      BY <1>2 DEF WorkersOf, WorkerStates
    <3>3. [worker[t] EXCEPT !.state = "disconnected"].state = "disconnected"
      BY <1>2 DEF WorkersOf
    <3> QED
      BY <3>1, <3>2, <3>3
  <2>6. WorkerType' /\ worker'[t] = v /\ \A u \in Transfers \ {t} : worker'[u] = worker[u]
    <3>1. worker' = [worker EXCEPT ![t] = v]
      BY <1>5
    <3> HIDE DEF v
    <3> QED
      BY <1>2, <2>5, <3>1, OneWorker
  <2>7. /\ ChannelType' /\ \A u \in Transfers \ {t} : chan'[u] = chan[u]
        /\ chan'[t].up = chan[t].up
        /\ chan[t].up => chan'[t] = k
        /\ ~chan[t].up => chan'[t] = chan[t]
    <3>1. DOMAIN chan = Transfers /\ chan[t] \in ChannelsOf(t)
      BY <1>2 DEF ChannelType
    <3>2. CASE chan[t].up
      <4>1. Append(chan[t].data, c) \in Seq(ChunksOf(t))
        <5>1. chan[t].data \in Seq(ChunksOf(t))
          BY <3>1 DEF ChannelsOf
        <5> HIDE DEF c
        <5> QED
          BY <1>4, <5>1
      <4>2. k \in ChannelsOf(t) /\ k.up = chan[t].up
        <5> HIDE DEF c
        <5> QED
          BY <3>1, <4>1 DEF ChannelsOf
      <4>3. chan' = [chan EXCEPT ![t] = k]
        BY <1>5, <3>2
      <4> HIDE DEF k
      <4> QED
        BY <1>2, <3>2, <4>2, <4>3, OneChannel
    <3>3. CASE ~chan[t].up
      <4>1. chan' = chan
        BY <1>5, <3>3
      <4> QED
        BY <1>2, <3>3, <4>1, SameTypes
    <3> QED
      BY <3>2, <3>3
  <2>8. inflight \in Int /\ inflight' \in Int /\ inflight <= inflight' /\ inflight' <= MaxBytes
    <3>1. inflight \in Int
      BY <1>2 DEF SharedType
    <3> HIDE DEF c
    <3>2. inflight + c.size <= MaxBytes
      BY <1>5 DEF SlotFree, c
    <3> QED
      BY <1>4, <1>5, <3>1, <3>2
  <2>9. FlowTypes'
    <3>1. StageType'
      BY <1>1, <1>2, SameTypes
    <3>2. SharedType'
      BY <1>1, <1>2, <1>5, <2>8 DEF SharedType
    <3> QED
      BY <2>4, <2>6, <2>7, <3>1, <3>2 DEF FlowTypes
  <2>10. \A u \in Transfers \ {t} : Rests(u)
    BY <1>1, <1>5, <2>4, <2>6, <2>7 DEF Rests
  <2>11. PhaseFits(t)'
    <3>1. worker'[t].state \in {"sending", "disconnected"}
      BY <2>5, <2>6
    <3> HIDE DEF v, k, w, c
    <3> QED
      BY <1>1, <1>2, <1>3, <1>5, <2>7, <3>1 DEF PhaseFits, Before, Running, Waits
  <2>12. ByteFits(t)'
    BY <1>1, <1>2, <2>4, <2>6, <2>7, SendKeeps
  <2>13. Counters'
    <3>1. inflight' = inflight - Bytes(window[t].chunks) + Bytes(window'[t].chunks)
      <4> HIDE DEF c, w
      <4> QED
        BY <1>4, <1>5, <2>2, <2>3, <2>4, <2>8
    <3>2. window'[t].open = window[t].open
      BY <2>1, <2>4
    <3> QED
      BY <1>1, <1>2, <2>4, <2>8, <3>1, <3>2, CountersMove
  <2>14. Wakes
    <3>1. Registered' = Registered
      BY <2>1, <2>4 DEF Registered
    <3> QED
      BY <1>1, <2>8, <3>1 DEF Wakes, Room
  <2> QED
    BY <1>1, <1>5, <2>9, <2>10, <2>11, <2>12, <2>13, <2>14, OneMoves
<1>6. CASE ~SlotFree(t) /\ GoTo(t, "slot") /\ asleep' = asleep \cup {t} /\ UNCHANGED <<window, inflight, chan>>
  <2>1. "slot" \in WorkerStates
    BY DEF WorkerStates
  <2>2. /\ worker'[t].state = "slot"
        /\ worker'[t].file = worker[t].file /\ worker'[t].off = worker[t].off
    BY <1>2, <1>6, <2>1, GoToIs
  <2>3. PhaseRetreats(t)
    BY <1>1, <2>2 DEF PhaseRetreats
  <2>4. PhaseFits(t)'
    BY <1>1, <1>2, <1>3, <1>6, <2>2 DEF PhaseFits, Before, Running, Waits, Total
  <2>5. SleepFits(t)'
    <3>1. ChunkAt(t)' = ChunkAt(t)
      BY <2>2 DEF ChunkAt
    <3>2. ~SlotFree(t)'
      BY <1>6, <3>1 DEF SlotFree
    <3> QED
      BY <1>1, <1>6, <2>2, <3>2 DEF SleepFits
  <2>6. held' \subseteq Transfers /\ left' \in [Kinds -> Nat]
    BY <1>1, <1>2 DEF SharedType
  <2> QED
    BY <1>1, <1>6, <2>1, <2>3, <2>4, <2>5, <2>6, PhaseStep
<1> QED
  BY <1>5, <1>6 DEF TrackSent, Sleep

----------------------------------------------------------------------------
(* The receiver, faults and the close of all sessions                        *)

(* A channel or a stage changes at one transfer.                             *)
LEMMA ChannelTypeAt ==
  ASSUME ChannelType, NEW t \in Transfers, DOMAIN chan' = Transfers, chan'[t] \in ChannelsOf(t),
         \A u \in Transfers \ {t} : chan'[u] = chan[u]
  PROVE  ChannelType'
<1>1. \A u \in Transfers : chan'[u] \in ChannelsOf(u)
  BY DEF ChannelType
<1> QED
  BY <1>1 DEF ChannelType, ChannelsOf, ChunksOf, AcksOf, Files

(* The same for a stage.                                                     *)
LEMMA StageTypeAt ==
  ASSUME StageType, NEW t \in Transfers, DOMAIN recv' = Transfers, recv'[t] \in StagesOf(t),
         \A u \in Transfers \ {t} : recv'[u] = recv[u]
  PROVE  StageType'
<1>1. \A u \in Transfers : recv'[u] \in StagesOf(u)
  BY DEF StageType
<1> QED
  BY <1>1 DEF StageType, StagesOf, Total, Files

(* Workers, readers and the coordinator rest.                                *)
LEMMA CoordinatorRests ==
  ASSUME FlowInv, ChannelType', StageType', SharedType',
         UNCHANGED <<worker, window, inflight, peers, closed, held, reader, asleep>>,
         \A u \in Transfers : chan'[u].up => chan[u].up,
         BytesFit'
  PROVE  FlowInv'
<1>1. FlowTypes'
  <2>1. WorkerType /\ WindowType
    BY DEF FlowInv, FlowTypes
  <2>2. WorkerType' /\ WindowType'
    BY <2>1, SameTypes
  <2> QED
    BY <2>2 DEF FlowTypes
<1>2. Counters'
  BY CountersStay DEF FlowInv, Counters
<1>3. PhasesFit'
  <2> SUFFICES ASSUME NEW u \in Transfers PROVE PhaseFits(u)'
    BY DEF PhasesFit
  <2>1. PhaseFits(u)
    BY DEF FlowInv, PhasesFit
  <2> QED
    BY <2>1 DEF PhaseFits
<1>4. NoLostWakeup'
  BY DEF FlowInv, NoLostWakeup, Room, Registered, SlotFree, ChunkAt
<1> QED
  BY <1>1, <1>2, <1>3, <1>4 DEF FlowInv, Counters

(* One transfer's stage and channel move.                                    *)
LEMMA ReceiverStep ==
  ASSUME FlowInv, NEW t \in Transfers, ChannelType', StageType', SharedType',
         UNCHANGED <<worker, window, inflight, peers, closed, held, reader, asleep>>,
         \A u \in Transfers \ {t} : chan'[u] = chan[u] /\ recv'[u] = recv[u],
         chan'[t].up => chan[t].up, ByteFits(t)'
  PROVE  FlowInv'
<1>1. BytesFit'
  <2>1. ASSUME NEW u \in Transfers \ {t} PROVE ByteFits(u)'
    <3>1. Retreats(u)
      BY DEF Retreats, PhaseRetreats, ChannelRetreats
    <3> QED
      BY <3>1, RetreatKeeps DEF FlowInv, BytesFit
  <2> QED
    BY <2>1 DEF BytesFit
<1>2. \A u \in Transfers : chan'[u].up => chan[u].up
  OBVIOUS
<1> QED
  BY <1>1, <1>2, CoordinatorRests

(* record_verified: a chunk is received and perhaps acknowledged.            *)
LEMMA ReceiveChunkKeeps ==
  ASSUME FlowInv, NEW t \in Transfers, ReceiveChunk(t)
  PROVE  FlowInv'
<1>1. /\ WorkerType /\ WindowType /\ ChannelType /\ StageType /\ SharedType
      /\ ByteFits(t)
  BY Parts
<1>2. /\ UNCHANGED <<worker, window, inflight, peers, closed, held, reader, asleep>>
      /\ UNCHANGED <<cancel, aborts, left>>
  BY DEF ReceiveChunk, coordinator, session
<1>3. /\ DOMAIN chan' = Transfers /\ DOMAIN recv' = Transfers
      /\ \A u \in Transfers \ {t} : chan'[u] = chan[u] /\ recv'[u] = recv[u]
  <2>1. DOMAIN chan = Transfers /\ DOMAIN recv = Transfers
    BY <1>1 DEF ChannelType, StageType
  <2>2. DOMAIN chan' = Transfers /\ \A u \in Transfers \ {t} : chan'[u] = chan[u]
    BY <2>1 DEF ReceiveChunk
  <2>3. DOMAIN recv' = Transfers /\ \A u \in Transfers \ {t} : recv'[u] = recv[u]
    BY <2>1 DEF ReceiveChunk
  <2> QED
    BY <2>2, <2>3
<1> DEFINE c == Head(chan[t].data)
<1>4. chan[t].data # <<>> /\ c \in ChunksOf(t)
  BY <1>1, ReceiveIs
<1>5. PICK durable \in Nat, entry \in EntriesOf, due \in BOOLEAN :
        Receives(t, c, durable, entry, due)
  BY <1>1, ReceiveIs
<1>6. ByteFits(t)'
  BY <1>1, <1>2, <1>4, <1>5, ReceiveKeeps
<1>7. /\ c.file \in Files(t) /\ c.end \in Nat /\ c.file = recv[t].file
      /\ recv[t] \in StagesOf(t) /\ chan[t] \in ChannelsOf(t)
  <2>1. PipeFits(t)
    BY <1>1 DEF ByteFits
  <2> QED
    BY <1>1, <1>4, <2>1, HeadIs DEF ChannelType
<1> HIDE DEF c
<1>8. recv'[t] \in StagesOf(t)
  <2> DEFINE done == c.end = Sizes[t][c.file]
  <2>1. recv'[t] = [file |-> IF done THEN recv[t].file + 1 ELSE recv[t].file,
                    off |-> IF done THEN 0 ELSE c.end,
                    durable |-> [recv[t].durable EXCEPT ![c.file] = durable],
                    entries |-> [recv[t].entries EXCEPT ![c.file] = entry]]
    BY <1>5 DEF Receives
  <2> HIDE DEF done
  <2>2. (IF done THEN recv[t].file + 1 ELSE recv[t].file) \in 1..(Total(t) + 1)
    BY <1>7, SizesType
  <2>3. (IF done THEN 0 ELSE c.end) \in Nat
    BY <1>7
  <2>4. [recv[t].durable EXCEPT ![c.file] = durable] \in [Files(t) -> Nat]
    BY <1>7 DEF StagesOf
  <2>5. [recv[t].entries EXCEPT ![c.file] = entry] \in [Files(t) -> EntriesOf]
    BY <1>7 DEF StagesOf
  <2> QED
    BY <2>1, <2>2, <2>3, <2>4, <2>5 DEF StagesOf
<1>9. chan'[t] \in ChannelsOf(t) /\ chan'[t].up = chan[t].up
  <2> DEFINE ack == [file |-> c.file, ver |-> c.end, dur |-> durable]
  <2>1. chan'[t] = [up |-> chan[t].up, data |-> Tail(chan[t].data),
                    acks |-> IF due /\ chan[t].up THEN Append(chan[t].acks, ack)
                             ELSE chan[t].acks]
    BY <1>5 DEF Receives
  <2>2. ack \in AcksOf(t)
    BY <1>7 DEF AcksOf
  <2>3. /\ chan[t].acks \in Seq(AcksOf(t)) /\ chan[t].data \in Seq(ChunksOf(t))
        /\ chan[t].up \in BOOLEAN
    BY <1>7 DEF ChannelsOf
  <2> HIDE DEF ack
  <2>4. Append(chan[t].acks, ack) \in Seq(AcksOf(t)) /\ Tail(chan[t].data) \in Seq(ChunksOf(t))
    BY <1>4, <2>2, <2>3
  <2> QED
    BY <2>1, <2>3, <2>4 DEF ChannelsOf
<1>10. ChannelType' /\ StageType'
  BY <1>1, <1>3, <1>8, <1>9, ChannelTypeAt, StageTypeAt
<1>11. SharedType'
  BY <1>1, <1>2 DEF SharedType
<1> QED
  BY <1>2, <1>3, <1>6, <1>9, <1>10, <1>11, ReceiverStep

(* poll: waiting progress is acknowledged.                                   *)
LEMMA PollAckKeeps ==
  ASSUME FlowInv, NEW t \in Transfers, PollAck(t)
  PROVE  FlowInv'
<1>1. /\ WorkerType /\ WindowType /\ ChannelType /\ StageType /\ SharedType
      /\ ByteFits(t)
  BY Parts
<1>2. /\ UNCHANGED <<worker, window, inflight, peers, closed, held, reader, asleep>>
      /\ UNCHANGED <<cancel, aborts, left>> /\ chan[t].up
  BY DEF PollAck, coordinator, session
<1>3. PICK f \in Files(t) :
        /\ recv[t].entries[f].chunks > 0
        /\ recv' = [recv EXCEPT ![t].entries[f] = Emitted(@)]
        /\ chan' = [chan EXCEPT ![t].acks = PutAck(t, f, recv[t].entries[f])]
  BY DEF PollAck
<1>4. DOMAIN chan = Transfers /\ DOMAIN recv = Transfers /\ recv[t] \in StagesOf(t)
      /\ chan[t] \in ChannelsOf(t)
  BY <1>1 DEF ChannelType, StageType
<1>5. /\ DOMAIN chan' = Transfers /\ DOMAIN recv' = Transfers
      /\ \A u \in Transfers \ {t} : chan'[u] = chan[u] /\ recv'[u] = recv[u]
      /\ recv'[t] = [recv[t] EXCEPT !.entries[f] = Emitted(recv[t].entries[f])]
      /\ chan'[t] = [chan[t] EXCEPT !.acks = PutAck(t, f, recv[t].entries[f])]
  BY <1>3, <1>4 DEF StagesOf
<1>6. ByteFits(t)' /\ recv'[t] \in StagesOf(t) /\ chan'[t] \in ChannelsOf(t)
  BY <1>1, <1>2, <1>3, <1>5, PollKeeps
<1>7. ChannelType' /\ StageType'
  BY <1>1, <1>5, <1>6, ChannelTypeAt, StageTypeAt
<1>8. SharedType'
  BY <1>1, <1>2 DEF SharedType
<1> QED
  BY <1>2, <1>5, <1>6, <1>7, <1>8, ReceiverStep

(* The channel breaks with all that is in it.                                *)
LEMMA BreakKeeps ==
  ASSUME FlowInv, NEW t \in Transfers, Break(t)
  PROVE  FlowInv'
<1>1. WorkerType /\ WindowType /\ ChannelType /\ StageType /\ SharedType /\ ByteFits(t)
  BY Parts
<1>2. /\ UNCHANGED <<worker, window, inflight, peers, closed, held, reader, asleep>>
      /\ UNCHANGED <<cancel, aborts, recv>> /\ chan[t].up
      /\ chan' = [chan EXCEPT ![t] = NoChannel]
  BY DEF Break, coordinator, session
<1>3. left' \in [Kinds -> Nat]
  BY <1>1, SpendIs DEF Break, Kinds
<1>4. ChannelType' /\ chan'[t] = NoChannel /\ \A u \in Transfers \ {t} : chan'[u] = chan[u]
  BY <1>1, <1>2, FreshChannels, OneChannel
<1>5. StageType' /\ SharedType'
  BY <1>1, <1>2, <1>3, SameTypes DEF SharedType
<1>6. ByteFits(t)'
  <2>1. Retreats(t)
    BY <1>2, <1>4 DEF Retreats, PhaseRetreats, ChannelRetreats, NoChannel
  <2> QED
    BY <1>1, <2>1, RetreatKeeps
<1> QED
  BY <1>2, <1>4, <1>5, <1>6, ReceiverStep

(* A cancel is requested; the window is aborted later.                       *)
LEMMA RequestCancelKeeps ==
  ASSUME FlowInv, NEW t \in Transfers, RequestCancel(t)
  PROVE  FlowInv'
<1>1. WorkerType /\ WindowType /\ ChannelType /\ StageType /\ SharedType /\ ByteFits(t)
  BY Parts
<1>2. /\ UNCHANGED <<worker, window, inflight, peers, closed, held, reader, asleep>>
      /\ UNCHANGED <<chan, recv>>
      /\ cancel' = [cancel EXCEPT ![t] = "cancel"] /\ aborts' = aborts \cup {t}
  BY DEF RequestCancel, coordinator
<1>3. left' \in [Kinds -> Nat]
  BY <1>1, SpendIs DEF RequestCancel, Kinds
<1>4. ChannelType' /\ StageType' /\ SharedType'
  BY <1>1, <1>2, <1>3, SameTypes DEF SharedType
<1>5. ByteFits(t)'
  <2>1. Retreats(t)
    BY <1>2 DEF Retreats, PhaseRetreats, ChannelRetreats
  <2> QED
    BY <1>1, <2>1, RetreatKeeps
<1> QED
  BY <1>2, <1>4, <1>5, ReceiverStep

(* Every session is told to close.                                           *)
LEMMA CloseSessionsKeeps ==
  ASSUME FlowInv, CloseSessions
  PROVE  FlowInv'
<1>1. ChannelType /\ StageType /\ SharedType
  BY DEF FlowInv, FlowTypes
<1>2. /\ UNCHANGED <<worker, window, inflight, peers, closed, held, reader, asleep>>
      /\ recv' = recv /\ aborts' = Transfers /\ cancel' = [t \in Transfers |-> "close"]
      /\ chan' = [t \in Transfers |-> [chan[t] EXCEPT !.up = FALSE, !.acks = <<>>]]
  BY DEF CloseSessions, coordinator
<1>3. left' \in [Kinds -> Nat]
  BY <1>1, SpendIs DEF CloseSessions, Kinds
<1>4. ASSUME NEW u \in Transfers
      PROVE  /\ chan'[u] \in ChannelsOf(u) /\ ~chan'[u].up /\ chan'[u].acks = <<>>
             /\ chan'[u].data = chan[u].data
  <2>1. chan[u] \in ChannelsOf(u) /\ chan'[u] = [chan[u] EXCEPT !.up = FALSE, !.acks = <<>>]
    BY <1>1, <1>2 DEF ChannelType
  <2>2. <<>> \in Seq(AcksOf(u))
    OBVIOUS
  <2> QED
    BY <2>1, <2>2 DEF ChannelsOf
<1>5. ChannelType'
  BY <1>2, <1>4 DEF ChannelType, ChannelsOf, ChunksOf, AcksOf, Files
<1>6. StageType' /\ SharedType'
  BY <1>1, <1>2, <1>3, SameTypes DEF SharedType
<1>7. BytesFit'
  <2> SUFFICES ASSUME NEW u \in Transfers PROVE ByteFits(u)'
    BY DEF BytesFit
  <2>1. Retreats(u)
    BY <1>2, <1>4 DEF Retreats, PhaseRetreats, ChannelRetreats
  <2> QED
    BY <2>1, RetreatKeeps DEF FlowInv, BytesFit
<1>8. \A u \in Transfers : chan'[u].up => chan[u].up
  BY <1>4
<1> QED
  BY <1>2, <1>5, <1>6, <1>7, <1>8, CoordinatorRests

----------------------------------------------------------------------------
(* Acknowledgements, aborts and the shutdown                                 *)

(* apply_ack: the bytes of the chunks it releases go back to the budget, and *)
(* everybody is woken who could now go on.                                   *)
LEMMA ApplyAckKeeps ==
  ASSUME FlowInv, NEW t \in Transfers, ApplyAck(t)
  PROVE  FlowInv'
<1> DEFINE ack == Head(chan[t].acks)
           w == Released(window[t], ack)
           woken == window[t].acked[ack.file] # Unknown /\ ack.ver >= window[t].acked[ack.file]
<1>1. /\ t \in reader /\ chan[t].acks # <<>> /\ window[t].open
      /\ window' = [window EXCEPT ![t] = w]
      /\ inflight' = inflight - (Bytes(window[t].chunks) - Bytes(w.chunks))
      /\ woken => asleep' = {}
      /\ ~woken => asleep' = asleep
      /\ chan' = [chan EXCEPT ![t].acks = Tail(@)]
      /\ UNCHANGED <<peers, closed, worker, held, reader, cancel, aborts, recv, left>>
  BY DEF ApplyAck, session, NotifyAll
<1>2. /\ WorkerType /\ WindowType /\ ChannelType /\ StageType /\ SharedType
      /\ PhaseFits(t) /\ ByteFits(t) /\ Counters
      /\ t \in asleep => SleepFits(t)
  BY Parts
<1>3. ack \in AcksOf(t) /\ ack.ver \in Nat
  BY <1>1, <1>2, HeadAckIs DEF ByteFits
<1>4. DOMAIN window = Transfers /\ DOMAIN chan = Transfers /\ chan[t] \in ChannelsOf(t)
  BY <1>2 DEF WindowType, ChannelType
<1>5. /\ w \in WindowsOf(t) /\ w.open = window[t].open /\ w.chunks \in SUBSET window[t].chunks
      /\ ~woken => w.chunks = window[t].chunks
  <2> HIDE DEF ack, w
  <2>1. ReleasedTo(t, ack, w)
    BY <1>2, <1>3, ReleasedIs DEF w
  <2>2. window[t].acked[ack.file] \in Int
    BY <1>2, <1>3 DEF WindowType, WindowsOf, Offsets, AcksOf
  <2> QED
    BY <1>3, <2>1, <2>2 DEF ReleasedTo
<1>6. Chunks(window[t].chunks) /\ Bytes(window[t].chunks) \in Nat /\ inflight \in Int
  BY <1>2, WindowChunks DEF SharedType
<1>7. Chunks(w.chunks) /\ Bytes(w.chunks) \in Nat /\ Bytes(w.chunks) <= Bytes(window[t].chunks)
  <2> HIDE DEF w
  <2>1. Chunks(w.chunks)
    BY <1>5, <1>6, FS_Subset DEF Chunks
  <2> QED
    BY <1>5, <1>6, <2>1, BytesType, BytesOfPart
<1>8. WindowType' /\ window'[t] = w /\ \A u \in Transfers \ {t} : window'[u] = window[u]
  <2>1. IsFiniteSet(w.chunks)
    BY <1>7 DEF Chunks
  <2> HIDE DEF w
  <2> QED
    BY <1>1, <1>2, <1>5, <2>1, OneWindow
<1>9. /\ DOMAIN chan' = Transfers /\ \A u \in Transfers \ {t} : chan'[u] = chan[u]
      /\ chan'[t] = [chan[t] EXCEPT !.acks = Tail(chan[t].acks)]
      /\ chan'[t].up = chan[t].up
  BY <1>1, <1>4 DEF ChannelsOf
<1>10. ByteFits(t)' /\ chan'[t] \in ChannelsOf(t)
  <2>1. worker'[t] = worker[t] /\ recv'[t] = recv[t]
    BY <1>1
  <2> QED
    BY <1>1, <1>2, <1>8, <1>9, <2>1, ApplyKeeps
<1> HIDE DEF ack, w, woken
<1>11. inflight' \in Int /\ inflight' <= MaxBytes
       /\ inflight' = inflight - Bytes(window[t].chunks) + Bytes(window'[t].chunks)
  <2>1. inflight <= MaxBytes
    BY <1>2 DEF Counters, LimitsHold
  <2> QED
    BY <1>1, <1>6, <1>7, <1>8, <2>1, LimitTypes
<1>12. FlowTypes'
  <2>1. ChannelType'
    BY <1>2, <1>9, <1>10, ChannelTypeAt
  <2>2. WorkerType' /\ StageType'
    BY <1>1, <1>2, SameTypes
  <2>3. asleep' \subseteq Transfers
    BY <1>1, <1>2 DEF SharedType
  <2>4. SharedType'
    BY <1>1, <1>2, <1>11, <2>3 DEF SharedType
  <2> QED
    BY <1>8, <2>1, <2>2, <2>4 DEF FlowTypes
<1>13. \A u \in Transfers \ {t} : Rests(u)
  BY <1>1, <1>8, <1>9 DEF Rests
<1>14. PhaseFits(t)'
  BY <1>1, <1>2, <1>5, <1>8, <1>9 DEF PhaseFits
<1>15. Counters'
  BY <1>1, <1>2, <1>5, <1>8, <1>11, CountersMove
<1>16. ~woken => inflight' = inflight /\ window'[t].chunks = window[t].chunks
  BY <1>1, <1>5, <1>6, <1>8
<1>17. Registered' = Registered
  BY <1>5, <1>8 DEF Registered
<1>18. Wakes
  BY <1>1, <1>6, <1>16, <1>17 DEF Wakes, Room
<1>19. t \in asleep' => SleepFits(t)'
  <2> SUFFICES ASSUME t \in asleep' PROVE SleepFits(t)'
    OBVIOUS
  <2>1. ~woken /\ asleep' = asleep
    BY <1>1
  <2>2. SleepFits(t) /\ inflight' = inflight /\ window'[t].chunks = window[t].chunks
        /\ window'[t].open = window[t].open
    BY <1>2, <1>5, <1>8, <1>16, <2>1
  <2>3. (ChunkAt(t)' = ChunkAt(t)) /\ (Room(t)' <=> Room(t))
    BY <1>1, <1>17 DEF ChunkAt, Room
  <2>4. SlotFree(t)' <=> SlotFree(t)
    BY <2>2, <2>3 DEF SlotFree
  <2>5. PhaseFits(t) /\ worker[t].state \in Waits
    BY <1>2, <2>1 DEF PhaseFits
  <2> QED
    BY <1>1, <2>2, <2>3, <2>4, <2>5 DEF SleepFits, Waits
<1> QED
  BY <1>12, <1>13, <1>14, <1>10, <1>15, <1>18, <1>19, OneMoves

(* Whoever closes the window of a transfer gives back what it holds and      *)
(* wakes everybody.                                                          *)
LEMMA CloseStep ==
  ASSUME FlowInv, NEW t \in Transfers, Closes(t), UNCHANGED <<closed, recv, cancel, left>>,
         WorkerType', ChannelType',
         held' \subseteq Transfers, reader' \subseteq Transfers, aborts' \subseteq Transfers,
         \A u \in Transfers \ {t} :
           /\ worker'[u] = worker[u] /\ chan'[u] = chan[u]
           /\ u \in held' <=> u \in held
           /\ u \in reader' => u \in reader,
         worker'[t].file = worker[t].file, worker'[t].off = worker[t].off,
         PhaseRetreats(t), ChannelRetreats(t), PhaseFits(t)',
         t \in asleep => worker'[t] = worker[t]
  PROVE  FlowInv'
<1>1. /\ WorkerType /\ WindowType /\ ChannelType /\ StageType /\ SharedType
      /\ PhaseFits(t) /\ ByteFits(t) /\ Counters
      /\ t \in asleep => SleepFits(t)
  BY Parts
<1>2. /\ WindowType'
      /\ window'[t] = window[t] \/ (~window'[t].open /\ window'[t].chunks = {})
      /\ \A u \in Transfers \ {t} : window'[u] = window[u]
      /\ inflight' \in Int /\ peers' \in [Peers -> Int]
      /\ asleep' \in {asleep, {}}
  BY <1>1, ClosesIs
<1>3. FlowTypes'
  <2>1. StageType'
    BY <1>1, SameTypes
  <2>2. SharedType'
    BY <1>1, <1>2 DEF SharedType
  <2> QED
    BY <1>2, <2>1, <2>2 DEF FlowTypes
<1>4. \A u \in Transfers \ {t} : Rests(u)
  BY <1>2 DEF Rests
<1>5. ByteFits(t)'
  <2>1. Retreats(t)
    BY <1>2 DEF Retreats
  <2> QED
    BY <1>1, <2>1, RetreatKeeps
<1>6. Counters'
  BY <1>1, <1>2, CountersClose
<1>7. asleep' = {} \/ UNCHANGED <<window, inflight, peers, asleep>>
  BY DEF Closes, CloseTransfer, NotifyAll
<1>8. Wakes
  <2> SUFFICES ASSUME asleep' # {} PROVE Wakes
    BY DEF Wakes
  <2>1. UNCHANGED <<window, inflight, peers>> /\ inflight \in Int
    BY <1>1, <1>7 DEF SharedType
  <2>2. \A u \in Transfers : Room(u)' => Room(u)
    BY <2>1 DEF Room, Registered
  <2> QED
    BY <2>1, <2>2 DEF Wakes
<1>9. t \in asleep' => SleepFits(t)'
  <2> SUFFICES ASSUME t \in asleep' PROVE SleepFits(t)'
    OBVIOUS
  <2>1. UNCHANGED <<window, inflight, peers>> /\ t \in asleep /\ worker'[t] = worker[t]
    BY <1>7
  <2>2. SleepFits(t) /\ worker[t].state \in Waits
    BY <1>1, <2>1 DEF PhaseFits
  <2>3. Room(t)' <=> Room(t)
    BY <2>1 DEF Room, Registered
  <2>4. SlotFree(t)' <=> SlotFree(t)
    BY <2>1 DEF SlotFree, ChunkAt
  <2> QED
    BY <2>1, <2>2, <2>3, <2>4 DEF SleepFits, Waits
<1> QED
  BY <1>3, <1>4, <1>5, <1>6, <1>8, <1>9, OneMoves

(* The canceller aborts the window the session holds.                        *)
LEMMA AbortWindowKeeps ==
  ASSUME FlowInv, NEW t \in Transfers, AbortWindow(t)
  PROVE  FlowInv'
<1>1. WorkerType /\ WindowType /\ ChannelType /\ StageType /\ SharedType /\ PhaseFits(t)
  BY Parts
<1>2. /\ Closes(t) /\ aborts' = aborts \ {t}
      /\ UNCHANGED <<closed, worker, held, reader, cancel, chan, recv, left>>
  BY DEF AbortWindow, Closes
<1>3. WorkerType' /\ ChannelType'
  BY <1>1, <1>2, SameTypes
<1>4. PhaseFits(t)'
  <2>1. window'[t].open => window[t].open
    BY <1>1, <1>2, ClosesIs
  <2>2. asleep' \subseteq asleep
    BY <1>1, <1>2, ClosesIs
  <2> QED
    BY <1>1, <1>2, <2>1, <2>2 DEF PhaseFits
<1>5. PhaseRetreats(t) /\ ChannelRetreats(t)
  BY <1>2 DEF PhaseRetreats, ChannelRetreats
<1>6. held' \subseteq Transfers /\ reader' \subseteq Transfers /\ aborts' \subseteq Transfers
  BY <1>1, <1>2 DEF SharedType
<1> QED
  BY <1>2, <1>3, <1>4, <1>5, <1>6, CloseStep

(* The channel reader ends and aborts the window.                            *)
LEMMA ReaderEndsKeeps ==
  ASSUME FlowInv, NEW t \in Transfers, ReaderEnds(t)
  PROVE  FlowInv'
<1>1. WorkerType /\ WindowType /\ ChannelType /\ StageType /\ SharedType /\ PhaseFits(t)
  BY Parts
<1>2. /\ Closes(t) /\ reader' = reader \ {t}
      /\ UNCHANGED <<closed, worker, held, aborts, cancel, chan, recv, left>>
  BY DEF ReaderEnds, Closes
<1>3. WorkerType' /\ ChannelType'
  BY <1>1, <1>2, SameTypes
<1>4. PhaseFits(t)'
  <2>1. window'[t].open => window[t].open
    BY <1>1, <1>2, ClosesIs
  <2>2. asleep' \subseteq asleep
    BY <1>1, <1>2, ClosesIs
  <2> QED
    BY <1>1, <1>2, <2>1, <2>2 DEF PhaseFits
<1>5. PhaseRetreats(t) /\ ChannelRetreats(t)
  BY <1>2 DEF PhaseRetreats, ChannelRetreats
<1>6. held' \subseteq Transfers /\ reader' \subseteq Transfers /\ aborts' \subseteq Transfers
  BY <1>1, <1>2 DEF SharedType
<1> QED
  BY <1>2, <1>3, <1>4, <1>5, <1>6, CloseStep

(* _teardown_channel: the window is aborted, the channel closed.             *)
LEMMA TeardownKeeps ==
  ASSUME FlowInv, NEW t \in Transfers, Teardown(t)
  PROVE  FlowInv'
<1>1. /\ WorkerType /\ WindowType /\ ChannelType /\ StageType /\ SharedType /\ PhaseFits(t)
      /\ worker[t] \in WorkersOf(t)
  BY Parts
<1>2. /\ Closes(t) /\ held' = held \ {t} /\ reader' = reader \ {t}
      /\ chan' = [chan EXCEPT ![t].up = FALSE, ![t].acks = <<>>]
      /\ worker[t].state \in {"completed", "failed", "cancelled", "disconnected"}
      /\ t \notin asleep
      /\ UNCHANGED <<closed, cancel, aborts, recv, left>>
  BY DEF Teardown, Closes, At
<1>3. t \notin held => ~window[t].open
  BY <1>1, <1>2 DEF PhaseFits
<1>4. ~window'[t].open
  <2>1. window'[t] = window[t] \/ ~window'[t].open
    BY <1>1, <1>2, ClosesIs
  <2>2. t \in held => CloseTransfer(t)
    BY DEF Teardown
  <2>3. t \in held /\ window[t].open => ~window'[t].open
    BY <1>1, <2>2 DEF CloseTransfer, WindowType, WindowsOf
  <2> QED
    BY <1>3, <2>1, <2>3
<1>5. /\ DOMAIN chan' = Transfers /\ \A u \in Transfers \ {t} : chan'[u] = chan[u]
      /\ chan'[t] \in ChannelsOf(t) /\ ~chan'[t].up /\ chan'[t].acks = <<>>
      /\ chan'[t].data = chan[t].data
  <2>1. DOMAIN chan = Transfers /\ chan[t] \in ChannelsOf(t)
    BY <1>1 DEF ChannelType
  <2>2. /\ DOMAIN chan' = Transfers /\ \A u \in Transfers \ {t} : chan'[u] = chan[u]
        /\ chan'[t] = [chan[t] EXCEPT !.up = FALSE, !.acks = <<>>]
    BY <1>2, <2>1
  <2>3. <<>> \in Seq(AcksOf(t))
    OBVIOUS
  <2> QED
    BY <2>1, <2>2, <2>3 DEF ChannelsOf
<1>6. ChannelType'
  BY <1>1, <1>5, ChannelTypeAt
<1>7. /\ WorkerType' /\ worker'[t].file = worker[t].file /\ worker'[t].off = worker[t].off
      /\ \A u \in Transfers \ {t} : worker'[u] = worker[u]
      /\ \/ worker'[t].state = worker[t].state /\ worker[t].state # "disconnected"
         \/ worker'[t].state \in {"cancelled", "accepted"}
  <2>1. CASE worker[t].state # "disconnected"
    <3>1. worker' = worker
      BY <2>1 DEF Teardown
    <3> QED
      BY <1>1, <2>1, <3>1, SameTypes
  <2>2. CASE worker[t].state = "disconnected"
    <3> DEFINE s == IF CheckCancelled(t) THEN "cancelled" ELSE "accepted"
    <3>1. GoTo(t, s)
      BY <2>2 DEF Teardown
    <3>2. s \in WorkerStates /\ s \in {"cancelled", "accepted"}
      BY DEF WorkerStates
    <3> HIDE DEF s
    <3> QED
      BY <1>1, <3>1, <3>2, GoToIs
  <2> QED
    BY <2>1, <2>2
<1>8. PhaseRetreats(t) /\ ChannelRetreats(t)
  BY <1>5, <1>7 DEF PhaseRetreats, ChannelRetreats
<1>9. PhaseFits(t)'
  <2>1. t \notin asleep'
    BY <1>1, <1>2, ClosesIs
  <2>2. t \notin held' /\ t \notin reader' /\ worker'[t].state \notin Running
    BY <1>2, <1>7 DEF Running
  <2> QED
    BY <1>4, <1>5, <2>1, <2>2 DEF PhaseFits, Running
<1>10. held' \subseteq Transfers /\ reader' \subseteq Transfers /\ aborts' \subseteq Transfers
  BY <1>1, <1>2 DEF SharedType
<1> QED
  BY <1>2, <1>5, <1>6, <1>7, <1>8, <1>9, <1>10, CloseStep

(* The shutdown closes every window and wakes everybody.                     *)
LEMMA ShutdownKeeps ==
  ASSUME FlowInv, Shutdown
  PROVE  FlowInv'
<1>1. WorkerType /\ WindowType /\ ChannelType /\ StageType /\ SharedType
  BY DEF FlowInv, FlowTypes
<1>2. /\ closed' = TRUE /\ inflight' = 0 /\ peers' = [p \in Peers |-> 0] /\ asleep' = {}
      /\ window' = [t \in Transfers |-> [window[t] EXCEPT !.open = FALSE, !.chunks = {}]]
      /\ UNCHANGED <<worker, held, reader, cancel, aborts, chan, recv, left>>
  BY DEF Shutdown, NotifyAll, session
<1>3. ASSUME NEW u \in Transfers
      PROVE  window'[u] \in WindowsOf(u) /\ IsFiniteSet(window'[u].chunks) /\ ~window'[u].open
  <2>1. /\ window[u] \in WindowsOf(u)
        /\ window'[u] = [window[u] EXCEPT !.open = FALSE, !.chunks = {}]
    BY <1>1, <1>2 DEF WindowType
  <2>2. window'[u] \in WindowsOf(u) /\ window'[u].chunks = {} /\ ~window'[u].open
    BY <2>1 DEF WindowsOf
  <2> QED
    BY <2>2, FS_EmptySet
<1>4. FlowTypes'
  <2>1. WindowType'
    BY <1>2, <1>3 DEF WindowType, WindowsOf, ChunksOf, Offsets, Files
  <2>2. WorkerType' /\ ChannelType' /\ StageType'
    BY <1>1, <1>2, SameTypes
  <2>3. inflight' \in Int /\ peers' \in [Peers -> Int]
    <3>1. [p \in Peers |-> 0] \in [Peers -> Int]
      OBVIOUS
    <3>2. inflight' = 0 /\ peers' = [p \in Peers |-> 0]
      BY <1>2
    <3> QED
      BY <3>1, <3>2
  <2>4. SharedType'
    BY <1>1, <1>2, <2>3 DEF SharedType
  <2> QED
    BY <2>1, <2>2, <2>4 DEF FlowTypes
<1>5. Counters'
  BY <1>1, CountersEnd
<1>6. ASSUME NEW u \in Transfers PROVE PhaseFits(u)' /\ ByteFits(u)'
  <2>1. PhaseFits(u) /\ ByteFits(u)
    BY Parts
  <2>2. Retreats(u)
    BY <1>2, <1>3 DEF Retreats, PhaseRetreats, ChannelRetreats
  <2>3. PhaseFits(u)'
    BY <1>2, <1>3, <2>1 DEF PhaseFits
  <2> QED
    BY <2>1, <2>2, <2>3, RetreatKeeps
<1>7. NoLostWakeup'
  BY <1>2 DEF NoLostWakeup
<1> QED
  BY <1>4, <1>5, <1>6, <1>7 DEF FlowInv, Counters, PhasesFit, BytesFit

----------------------------------------------------------------------------
(* The invariant holds                                                       *)

(* Before the first step nothing is open, nothing is sent.                   *)
LEMMA InitFlow ==
  ASSUME Init
  PROVE  FlowInv
<1>1. /\ worker = [t \in Transfers |-> [state |-> "accepted", file |-> 1, off |-> 0]]
      /\ window = [t \in Transfers |-> NoWindow(t)]
      /\ held = {} /\ reader = {} /\ aborts = {} /\ asleep = {}
      /\ cancel = [t \in Transfers |-> "no"]
      /\ inflight = 0 /\ peers = [p \in Peers |-> 0] /\ closed = FALSE
      /\ chan = [t \in Transfers |-> NoChannel]
      /\ recv = [t \in Transfers |->
                   [file |-> 1, off |-> 0, durable |-> [f \in Files(t) |-> 0],
                    entries |-> [f \in Files(t) |-> NoProgress]]]
      /\ left \in Budgets
  BY DEF Init
<1>2. ASSUME NEW t \in Transfers
      PROVE  /\ worker[t].state = "accepted" /\ worker[t].file = 1 /\ worker[t].off = 0
             /\ worker[t] \in WorkersOf(t)
  <2>1. worker[t] = [state |-> "accepted", file |-> 1, off |-> 0]
    BY <1>1
  <2>2. 1 \in 1..(Total(t) + 1)
    BY SizesType
  <2> QED
    BY <2>1, <2>2 DEF WorkersOf, WorkerStates
<1>3. ASSUME NEW t \in Transfers
      PROVE  /\ window[t] \in WindowsOf(t) /\ IsFiniteSet(window[t].chunks)
             /\ ~window[t].open /\ window[t].chunks = {}
  <2>1. NoOffsets(t) \in Offsets(t)
    BY DEF NoOffsets, Offsets, Unknown
  <2>2. NewWindow(t) \in WindowsOf(t) /\ NewWindow(t).chunks = {}
    BY <2>1 DEF NewWindow, WindowsOf
  <2>3. window[t] = [NewWindow(t) EXCEPT !.open = FALSE]
    BY <1>1 DEF NoWindow
  <2>4. window[t] \in WindowsOf(t) /\ window[t].chunks = {} /\ ~window[t].open
    BY <2>2, <2>3 DEF WindowsOf
  <2> QED
    BY <2>4, FS_EmptySet
<1>4. ASSUME NEW t \in Transfers
      PROVE  /\ chan[t] \in ChannelsOf(t) /\ ~chan[t].up /\ chan[t].data = <<>>
             /\ chan[t].acks = <<>>
  <2>1. chan[t] = NoChannel
    BY <1>1
  <2> QED
    BY <2>1, FreshChannels DEF NoChannel
<1>5. ASSUME NEW t \in Transfers
      PROVE  /\ recv[t] \in StagesOf(t) /\ recv[t].file = 1 /\ recv[t].off = 0
             /\ \A f \in Files(t) : recv[t].durable[f] = 0 /\ recv[t].entries[f].chunks = 0
  <2>1. recv[t] = [file |-> 1, off |-> 0, durable |-> [f \in Files(t) |-> 0],
                   entries |-> [f \in Files(t) |-> NoProgress]]
    BY <1>1
  <2>2. 1 \in 1..(Total(t) + 1)
    BY SizesType
  <2>3. NoProgress \in EntriesOf /\ NoProgress.chunks = 0
    BY DEF NoProgress, EntriesOf, Unknown
  <2>4. /\ [f \in Files(t) |-> NoProgress] \in [Files(t) -> EntriesOf]
        /\ [f \in Files(t) |-> 0] \in [Files(t) -> Nat]
    BY <2>3
  <2> HIDE DEF NoProgress
  <2> QED
    BY <2>1, <2>2, <2>3, <2>4 DEF StagesOf
<1>6. FlowTypes
  <2>1. WorkerType
    BY <1>1, <1>2 DEF WorkerType
  <2>2. WindowType
    BY <1>1, <1>3 DEF WindowType
  <2>3. ChannelType
    BY <1>1, <1>4 DEF ChannelType
  <2>4. StageType
    BY <1>1, <1>5 DEF StageType
  <2>5. SharedType
    <3>1. [p \in Peers |-> 0] \in [Peers -> Int]
      OBVIOUS
    <3>2. [t \in Transfers |-> "no"] \in [Transfers -> {"no", "cancel", "close"}]
      OBVIOUS
    <3>3. left \in [Kinds -> Nat]
      BY <1>1, FlowAssumption
    <3>4. {held, reader, aborts, asleep} \subseteq SUBSET Transfers
      <4>1. held = {} /\ reader = {} /\ aborts = {} /\ asleep = {}
        BY <1>1
      <4> QED
        BY <4>1
    <3>5. inflight \in Int /\ closed \in BOOLEAN
      <4>1. inflight = 0
        BY <1>1
      <4>2. closed \in BOOLEAN
        <5>1. closed = FALSE
          BY Zenon DEF Init
        <5> QED
          BY Zenon, <5>1
      <4> QED
        BY <4>1, <4>2
    <3>6. peers \in [Peers -> Int] /\ cancel \in [Transfers -> {"no", "cancel", "close"}]
      BY <1>1, <3>1, <3>2
    <3> QED
      BY <3>3, <3>4, <3>5, <3>6 DEF SharedType
  <2> QED
    BY <2>1, <2>2, <2>3, <2>4, <2>5 DEF FlowTypes
<1>7. Counters
  <2>1. Registered = {} /\ \A p : OpenTo(p) = {}
    BY <1>3 DEF Registered, OpenTo
  <2>2. AccountingExact
    <3> DEFINE new == [u \in Transfers |-> Bytes(window[u].chunks)]
    <3>1. \A u \in Transfers : new[u] = 0
      BY <1>3, BytesOfNone
    <3>2. SumFunction(new) = SumFunctionOnSet(new, Transfers)
      BY DEF SumFunction
    <3> HIDE DEF new
    <3>3. SumFunction(new) = 0
      BY <3>1, <3>2, FlowAssumption, SumOfZeros
    <3> USE DEF new
    <3>4. \A p \in Peers : peers[p] = Cardinality(OpenTo(p))
      <4>1. \A p \in Peers : peers[p] = 0
        BY <1>1
      <4> QED
        BY <2>1, <4>1, FS_EmptySet
    <3>5. inflight = 0
      BY <1>1
    <3> QED
      BY <3>3, <3>4, <3>5 DEF AccountingExact, OpenTo
  <2>3. LimitsHold
    <3>1. inflight = 0 /\ \A p \in Peers : peers[p] = 0
      BY <1>1
    <3> QED
      BY <2>1, <3>1, FS_EmptySet, LimitTypes DEF LimitsHold
  <2>4. ClosedIsEmpty
    BY <1>3 DEF ClosedIsEmpty
  <2> QED
    BY <2>2, <2>3, <2>4 DEF Counters
<1>8. NoLostWakeup
  BY <1>1 DEF NoLostWakeup
<1>9. ASSUME NEW t \in Transfers PROVE PhaseFits(t)
  <2>1. t \notin asleep /\ t \notin held /\ t \notin reader
    BY <1>1
  <2> QED
    BY <1>2, <1>3, <1>4, <2>1 DEF PhaseFits, Waits, Before, Running
<1>10. ASSUME NEW t \in Transfers PROVE ByteFits(t)
  <2>1. PositionFits(t)
    BY <1>2, <1>5, SizesType DEF PositionFits, InFile
  <2>2. FreshFits(t) /\ TrackFits(t) /\ WindowReceived(t) /\ WindowFits(t)
    BY <1>2, <1>3 DEF FreshFits, TrackFits, WindowReceived, WindowFits
  <2>3. 1..Len(<<>>) = {}
    OBVIOUS
  <2>4. PipeFits(t)
    BY <1>4, <2>3 DEF PipeFits, HeadFits, EndFits, DataFits, Between, InOrder
  <2>5. AckFits(t)
    BY <1>4, <2>3 DEF AckFits
  <2>6. BatchFits(t)
    BY <1>5 DEF BatchFits
  <2> QED
    BY <2>1, <2>2, <2>4, <2>5, <2>6 DEF ByteFits
<1> QED
  BY <1>6, <1>7, <1>8, <1>9, <1>10 DEF FlowInv, Counters, PhasesFit, BytesFit

(* Every step keeps the invariant.                                           *)
LEMMA NextFlow ==
  ASSUME FlowInv, [Next]_vars
  PROVE  FlowInv'
<1>1. CASE UNCHANGED vars
  <2>1. ChannelType /\ StageType /\ SharedType
    BY DEF FlowInv, FlowTypes
  <2>2. /\ UNCHANGED <<worker, window, inflight, peers, closed, held, reader, asleep>>
        /\ UNCHANGED <<chan, recv, cancel, aborts, left>>
    BY <1>1 DEF vars
  <2>3. ChannelType' /\ StageType' /\ SharedType'
    BY <2>1, <2>2, SameTypes DEF SharedType
  <2>4. BytesFit'
    <3> SUFFICES ASSUME NEW u \in Transfers PROVE ByteFits(u)'
      BY DEF BytesFit
    <3>1. Retreats(u)
      BY <2>2 DEF Retreats, PhaseRetreats, ChannelRetreats
    <3> QED
      BY <3>1, RetreatKeeps DEF FlowInv, BytesFit
  <2> QED
    BY <2>2, <2>3, <2>4, CoordinatorRests
<1>2. ASSUME NEW t \in Transfers, Worker(t) PROVE FlowInv'
  <2>1. CASE OpenTransfer(t)
    BY <2>1, OpenTransferKeeps
  <2>2. CASE AdmissionPoll(t)
    BY <2>2, AdmissionPollKeeps
  <2>3. CASE AdmissionClosed(t)
    BY <2>3, AdmissionClosedKeeps
  <2>4. CASE HoldWindow(t)
    BY <2>4, HoldWindowKeeps
  <2>5. CASE Dial(t)
    BY <2>5, DialStepKeeps
  <2>6. CASE DialCancelled(t)
    BY <2>6, DialCancelledKeeps
  <2>7. CASE Baseline(t)
    BY <2>7, BaselineStepKeeps
  <2>8. CASE TrackSent(t)
    BY <2>8, TrackSentKeeps
  <2>9. CASE Drain(t)
    BY <2>9, DrainKeeps
  <2>10. CASE SendInterrupted(t)
    BY <2>10, SendInterruptedKeeps
  <2>11. CASE Teardown(t)
    BY <2>11, TeardownKeeps
  <2> QED
    BY <1>2, <2>1, <2>2, <2>3, <2>4, <2>5, <2>6, <2>7, <2>8, <2>9, <2>10, <2>11 DEF Worker
<1>3. ASSUME NEW t \in Transfers, Receiver(t) PROVE FlowInv'
  BY <1>3, ReceiveChunkKeeps, PollAckKeeps DEF Receiver
<1>4. ASSUME NEW t \in Transfers, Reader(t) PROVE FlowInv'
  BY <1>4, ApplyAckKeeps, ReaderEndsKeeps DEF Reader
<1>5. CASE System
  BY <1>2, <1>3, <1>4, <1>5, AbortWindowKeeps, ShutdownKeeps DEF System
<1>6. CASE Environment
  BY <1>6, AdmissionTimeoutKeeps, DialFailsKeeps, WindowTimeoutKeeps, RequestCancelKeeps,
     BreakKeeps, CloseSessionsKeeps DEF Environment
<1> QED
  BY <1>1, <1>5, <1>6 DEF Next

----------------------------------------------------------------------------
(* What follows                                                              *)

(* The inductive invariant of the coordinator and its sessions: the shared   *)
(* counters are exact, and the bytes of every transfer are joined end to end *)
(* from the sender's worker over the channel to the receiver's stage and     *)
(* back through its acknowledgements to the window.                          *)
THEOREM FlowInvariant == Spec => []FlowInv
<1>1. Init => FlowInv
  BY InitFlow
<1>2. FlowInv /\ [Next]_vars => FlowInv'
  BY NextFlow
<1> QED
  BY <1>1, <1>2, PTL DEF Spec

(* Every state has the shape the code gives it; the counters never go below  *)
(* zero (_release_window_locked, close_transfer).                            *)
THEOREM FlowTypesHold == Spec => []TypeOK
<1>1. FlowInv => TypeOK
  <2> SUFFICES ASSUME FlowInv PROVE TypeOK
    OBVIOUS
  <2>1. FlowTypes /\ AccountingExact
    BY DEF FlowInv
  <2>2. inflight \in Nat
    <3> DEFINE fun == [t \in Transfers |-> Bytes(window[t].chunks)]
    <3>1. \A t \in Transfers : fun[t] \in Nat
      BY <2>1, WindowChunks DEF FlowTypes
    <3>2. inflight = SumFunctionOnSet(fun, Transfers)
      BY <2>1 DEF AccountingExact, SumFunction
    <3> HIDE DEF fun
    <3> QED
      BY <3>1, <3>2, FlowAssumption, SumIsNat
  <2>3. peers \in [Peers -> Nat]
    <3>1. \A p \in Peers : peers[p] \in Nat
      BY <2>1, CountedSets DEF AccountingExact, OpenTo
    <3> QED
      BY <2>1, <3>1 DEF FlowTypes, SharedType
  <2>4. ASSUME NEW t \in Transfers
        PROVE  /\ worker[t].state \in WorkerStates
               /\ worker[t].file \in 1..(Total(t) + 1) /\ worker[t].off \in Nat
               /\ window[t].open \in BOOLEAN
    BY <2>1 DEF FlowTypes, WorkerType, WorkersOf, WindowType, WindowsOf
  <2> QED
    BY <2>1, <2>2, <2>3, <2>4 DEF TypeOK, FlowTypes, SharedType
<1> QED
  BY <1>1, FlowInvariant, PTL

(* _inflight_bytes and _peer_counts are exactly what the registered windows  *)
(* hold, whoever closes a window and whenever an acknowledgement arrives.    *)
THEOREM CountersAreExact == Spec => []AccountingExact
<1>1. FlowInv => AccountingExact
  BY DEF FlowInv
<1> QED
  BY <1>1, FlowInvariant, PTL

(* The shared budget and both limits on open transfers are never exceeded,   *)
(* for any number of transfers, peers and files.                             *)
THEOREM LimitsAreKept == Spec => []LimitsHold
<1>1. FlowInv => LimitsHold
  BY DEF FlowInv
<1> QED
  BY <1>1, FlowInvariant, PTL

(* No worker sleeps in open_transfer, track_sent or wait_until_empty on a    *)
(* condition that already holds.                                             *)
THEOREM WakeupsAreNotLost == Spec => []NoLostWakeup
<1>1. FlowInv => NoLostWakeup
  BY DEF FlowInv
<1> QED
  BY <1>1, FlowInvariant, PTL

(* apply_ack never refuses what the receiver's CumulativeAckBatcher emits,   *)
(* after any number of resumes.                                              *)
THEOREM AcksAreTaken == Spec => []AcksAreLegal
<1>1. FlowInv => AcksAreLegal
  <2> SUFFICES ASSUME FlowInv, NEW t \in Transfers, window[t].open, chan[t].acks # <<>>
               PROVE  ~Rejected(window[t], Head(chan[t].acks))
    BY DEF AcksAreLegal
  <2> QED
    BY Parts, HeadAckLegal
<1> QED
  BY <1>1, FlowInvariant, PTL

(* A byte leaves the window only after the receiver has written it.          *)
THEOREM ReleasesAreReceived == Spec => []ReleasedIsReceived
<1>1. FlowInv => ReleasedIsReceived
  <2> SUFFICES ASSUME FlowInv, NEW t \in Transfers, window[t].open, NEW f \in Files(t)
               PROVE  \/ window[t].acked[f] <= 0
                      \/ f < recv[t].file
                      \/ f = recv[t].file /\ window[t].acked[f] <= recv[t].off
    BY DEF ReleasedIsReceived
  <2>1. WindowReceived(t)
    BY Parts DEF ByteFits
  <2> QED
    BY <2>1 DEF WindowReceived, Received
<1> QED
  BY <1>1, FlowInvariant, PTL
=============================================================================
