----------------------------- MODULE SumLemmas -----------------------------
(***************************************************************************)
(* Facts about SumFunctionOnSet (module Functions) over finite sets.       *)
(*                                                                         *)
(* The operator is a fold: a function on the subsets of the set that       *)
(* CHOOSEs the next element.  The lemmas lead from this definition to the  *)
(* facts the proofs about the contract need.  Induction over finite sets   *)
(* takes the form of a minimal counterexample (MinimalSubset), since the   *)
(* library's induction theorem has an operator for its parameter.          *)
(***************************************************************************)
EXTENDS Integers, FiniteSets, Functions, TLAPS,
        FiniteSetTheorems, WellFoundedInduction

Pick(s) == CHOOSE x \in s : TRUE

\* h computes the sum of f over each subset of T
SumsUp(f, T, h) ==
  h = [s \in SUBSET T |-> IF s = {} THEN 0 ELSE f[Pick(s)] + h[s \ {Pick(s)}]]

-----------------------------------------------------------------------------
(* A non-empty set of subsets of a finite set has a minimal element.       *)
LEMMA MinimalSubset ==
  ASSUME NEW S, IsFiniteSet(S), NEW TT \in SUBSET SUBSET S, TT # {}
  PROVE  \E T \in TT : \A s \in SUBSET T : s # T => s \notin TT
<1>1. IsWellFoundedOn(StrictSubsetOrdering(S), SUBSET S)
  BY FS_StrictSubsetOrderingWellFounded, FS_FiniteSubsetsOfFinite
<1>2. PICK T \in TT : \A s \in TT : ~ (<<s, T>> \in StrictSubsetOrdering(S))
  BY <1>1, WFMin
<1>3. ASSUME NEW s \in SUBSET T, s # T, s \in TT
      PROVE  FALSE
  BY <1>2, <1>3 DEF StrictSubsetOrdering
<1> QED
  BY <1>2, <1>3

(* The fold, unfolded once.                                                *)
LEMMA SumDef ==
  ASSUME NEW f, NEW S
  PROVE  SumFunctionOnSet(f, S) = (CHOOSE h : SumsUp(f, S, h))[S]
BY Zenon DEF SumFunctionOnSet, FoldFunctionOnSet, MapThenFoldSet, SumsUp, Pick

LEMMA PickIn == ASSUME NEW s, s # {} PROVE Pick(s) \in s
BY DEF Pick

(* At most one function sums up f over the subsets of a finite set.        *)
LEMMA SumsUpUnique ==
  ASSUME NEW f, NEW T, IsFiniteSet(T), NEW g, NEW h,
         SumsUp(f, T, g), SumsUp(f, T, h)
  PROVE  g = h
<1> DEFINE TT == {s \in SUBSET T : g[s] # h[s]}
<1>1. TT = {}
  <2> SUFFICES ASSUME TT # {} PROVE FALSE
    OBVIOUS
  <2> TT \in SUBSET SUBSET T
    OBVIOUS
  <2> HIDE DEF TT
  <2>1. PICK s \in TT : \A r \in SUBSET s : r # s => r \notin TT
    BY MinimalSubset
  <2> USE DEF TT
  <2>2. s # {}
    BY DEF SumsUp
  <2>3. Pick(s) \in s
    BY <2>2, PickIn
  <2>4. g[s \ {Pick(s)}] = h[s \ {Pick(s)}]
    BY <2>1, <2>3
  <2>5. g[s] = f[Pick(s)] + g[s \ {Pick(s)}]
    BY <2>2 DEF SumsUp
  <2>6. h[s] = f[Pick(s)] + h[s \ {Pick(s)}]
    BY <2>2 DEF SumsUp
  <2> QED
    BY <2>4, <2>5, <2>6
<1>2. g = [s \in SUBSET T |-> g[s]] /\ h = [s \in SUBSET T |-> h[s]]
  BY DEF SumsUp
<1> QED
  BY <1>1, <1>2

(* Where such a function exists, the fold obeys its recursion equation.    *)
LEMMA SumStepIfExists ==
  ASSUME NEW f, NEW T, IsFiniteSet(T), T # {}, NEW g, SumsUp(f, T, g)
  PROVE  SumFunctionOnSet(f, T)
           = f[Pick(T)] + SumFunctionOnSet(f, T \ {Pick(T)})
<1> DEFINE R == T \ {Pick(T)}
           h == [s \in SUBSET R |-> g[s]]
<1>1. SumFunctionOnSet(f, T) = g[T]
  BY SumsUpUnique, SumDef
<1>2. g[T] = f[Pick(T)] + g[R]
  BY DEF SumsUp
<1>3. IsFiniteSet(R)
  BY FS_Subset
<1>4. SumsUp(f, R, h)
  <2>1. ASSUME NEW s \in SUBSET R
        PROVE  h[s] = IF s = {} THEN 0 ELSE f[Pick(s)] + h[s \ {Pick(s)}]
    BY DEF SumsUp
  <2> QED
    BY <2>1 DEF SumsUp
<1>5. SumFunctionOnSet(f, R) = h[R]
  BY <1>3, <1>4, SumsUpUnique, SumDef
<1> QED
  BY <1>1, <1>2, <1>5

(* Over every finite set such a function exists: the folds over the subsets*)
(* themselves are its values.                                              *)
LEMMA SumsUpExists ==
  ASSUME NEW f, NEW S, IsFiniteSet(S)
  PROVE  \E h : SumsUp(f, S, h)
<1> DEFINE Bad == {T \in SUBSET S : ~ \E h : SumsUp(f, T, h)}
<1>1. Bad = {}
  <2> SUFFICES ASSUME Bad # {} PROVE FALSE
    OBVIOUS
  <2> Bad \in SUBSET SUBSET S
    OBVIOUS
  <2> HIDE DEF Bad
  <2>1. PICK T \in Bad : \A s \in SUBSET T : s # T => s \notin Bad
    BY MinimalSubset
  <2> USE DEF Bad
  <2>2. IsFiniteSet(T)
    BY FS_Subset
  <2> DEFINE Body(s) == f[Pick(s)] + SumFunctionOnSet(f, s \ {Pick(s)})
             g == [s \in SUBSET T |-> IF s = {} THEN 0 ELSE Body(s)]
  <2>3. ASSUME NEW s \in SUBSET T, s # T, s # {}
        PROVE  SumFunctionOnSet(f, s) = Body(s)
    <3>1. PICK h : SumsUp(f, s, h)
      BY <2>1, <2>3
    <3>2. IsFiniteSet(s)
      BY <2>2, FS_Subset
    <3> QED
      BY <2>3, <3>1, <3>2, SumStepIfExists
  <2>4. SumFunctionOnSet(f, {}) = 0
    <3> DEFINE z == [s \in SUBSET {} |-> 0]
    <3>1. SumsUp(f, {}, z)
      BY DEF SumsUp
    <3>2. IsFiniteSet({})
      BY FS_EmptySet
    <3>3. SumFunctionOnSet(f, {}) = z[{}]
      BY <3>1, <3>2, SumsUpUnique, SumDef
    <3> QED
      BY <3>3
  <2>5. ASSUME NEW s \in SUBSET T, s # T
        PROVE  g[s] = SumFunctionOnSet(f, s)
    <3>1. CASE s = {}
      BY <2>4, <3>1
    <3>2. CASE s # {}
      BY <2>3, <2>5, <3>2
    <3> QED
      BY <3>1, <3>2
  <2>6. ASSUME NEW s \in SUBSET T, s # {}
        PROVE  g[s] = f[Pick(s)] + g[s \ {Pick(s)}]
    <3>1. Pick(s) \in s
      BY <2>6, PickIn
    <3>2. g[s \ {Pick(s)}] = SumFunctionOnSet(f, s \ {Pick(s)})
      BY <2>5, <3>1
    <3> QED
      BY <2>6, <3>2
  <2>7. g[{}] = 0
    OBVIOUS
  <2>8. SumsUp(f, T, g)
    <3> HIDE DEF Body
    <3>1. \A s \in SUBSET T :
            g[s] = IF s = {} THEN 0 ELSE f[Pick(s)] + g[s \ {Pick(s)}]
      BY <2>6, <2>7
    <3>2. g = [s \in SUBSET T |-> g[s]]
      OBVIOUS
    <3> HIDE DEF g
    <3> QED
      BY <3>1, <3>2 DEF SumsUp
  <2> QED
    BY <2>8
<1>2. S \notin Bad
  BY <1>1
<1> QED
  BY <1>2

-----------------------------------------------------------------------------
(* The sum over the empty set.                                             *)
LEMMA SumEmpty ==
  ASSUME NEW f
  PROVE  SumFunctionOnSet(f, {}) = 0
<1>1. IsFiniteSet({})
  BY FS_EmptySet
<1>2. PICK h : SumsUp(f, {}, h)
  BY <1>1, SumsUpExists
<1>3. SumFunctionOnSet(f, {}) = h[{}]
  BY <1>1, <1>2, SumsUpUnique, SumDef
<1> QED
  BY <1>2, <1>3 DEF SumsUp

(* The recursion equation of the fold.                                     *)
LEMMA SumStep ==
  ASSUME NEW f, NEW T, IsFiniteSet(T), T # {}
  PROVE  SumFunctionOnSet(f, T)
           = f[Pick(T)] + SumFunctionOnSet(f, T \ {Pick(T)})
BY SumsUpExists, SumStepIfExists

(* A sum of integers is an integer.                                        *)
LEMMA SumInt ==
  ASSUME NEW S, IsFiniteSet(S), NEW f, \A x \in S : f[x] \in Int
  PROVE  SumFunctionOnSet(f, S) \in Int
<1> DEFINE Bad == {T \in SUBSET S : SumFunctionOnSet(f, T) \notin Int}
<1>1. Bad = {}
  <2> SUFFICES ASSUME Bad # {} PROVE FALSE
    OBVIOUS
  <2> Bad \in SUBSET SUBSET S
    OBVIOUS
  <2> HIDE DEF Bad
  <2>1. PICK T \in Bad : \A s \in SUBSET T : s # T => s \notin Bad
    BY MinimalSubset
  <2> USE DEF Bad
  <2>2. IsFiniteSet(T)
    BY FS_Subset
  <2>3. T # {}
    BY SumEmpty
  <2>4. Pick(T) \in T
    BY <2>3, PickIn
  <2>5. SumFunctionOnSet(f, T \ {Pick(T)}) \in Int
    BY <2>1, <2>4
  <2> QED
    BY <2>2, <2>3, <2>4, <2>5, SumStep
<1> QED
  BY <1>1

(* Any element may be taken out of a sum, not only the one the fold picks. *)
LEMMA SumRemove ==
  ASSUME NEW S, IsFiniteSet(S), NEW f \in [S -> Int], NEW a \in S
  PROVE  SumFunctionOnSet(f, S) = f[a] + SumFunctionOnSet(f, S \ {a})
<1> DEFINE Sum(s) == SumFunctionOnSet(f, s)
           Bad == {T \in SUBSET S : \E x \in T : Sum(T) # f[x] + Sum(T \ {x})}
<1>1. Bad = {}
  <2> SUFFICES ASSUME Bad # {} PROVE FALSE
    OBVIOUS
  <2> Bad \in SUBSET SUBSET S
    OBVIOUS
  <2> HIDE DEF Bad
  <2>1. PICK T \in Bad : \A s \in SUBSET T : s # T => s \notin Bad
    BY MinimalSubset
  <2> USE DEF Bad
  <2>2. PICK x \in T : Sum(T) # f[x] + Sum(T \ {x})
    OBVIOUS
  <2> DEFINE c == Pick(T)
  <2>3. IsFiniteSet(T) /\ T # {}
    BY FS_Subset
  <2>4. c \in T
    BY <2>3, PickIn
  <2>5. Sum(T) = f[c] + Sum(T \ {c})
    BY <2>3, SumStep
  <2>6. c # x
    BY <2>2, <2>5
  <2> DEFINE R == T \ {c, x}
  <2> HIDE DEF c
  <2>7. Sum(T \ {c}) = f[x] + Sum(R)
    <3>1. T \ {c} \notin Bad
      BY <2>1, <2>4
    <3>2. x \in T \ {c} /\ (T \ {c}) \ {x} = R
      BY <2>6
    <3> QED
      BY <3>1, <3>2
  <2>8. Sum(T \ {x}) = f[c] + Sum(R)
    <3>1. T \ {x} \notin Bad
      BY <2>1
    <3>2. c \in T \ {x} /\ (T \ {x}) \ {c} = R
      BY <2>4, <2>6
    <3> QED
      BY <3>1, <3>2
  <2>9. Sum(R) \in Int
    <3>1. IsFiniteSet(R) /\ R \subseteq S
      BY <2>3, FS_Subset
    <3> QED
      BY <3>1, SumInt
  <2>10. f[c] \in Int /\ f[x] \in Int
    BY <2>4
  <2> QED
    BY <2>2, <2>5, <2>7, <2>8, <2>9, <2>10
<1>2. S \notin Bad
  BY <1>1
<1> QED
  BY <1>2

(* The sum depends only on the values over the set.                        *)
LEMMA SumCongruent ==
  ASSUME NEW S, IsFiniteSet(S), NEW f, NEW g,
         \A x \in S : f[x] = g[x]
  PROVE  SumFunctionOnSet(f, S) = SumFunctionOnSet(g, S)
<1> DEFINE Bad == {T \in SUBSET S :
                     SumFunctionOnSet(f, T) # SumFunctionOnSet(g, T)}
<1>1. Bad = {}
  <2> SUFFICES ASSUME Bad # {} PROVE FALSE
    OBVIOUS
  <2> Bad \in SUBSET SUBSET S
    OBVIOUS
  <2> HIDE DEF Bad
  <2>1. PICK T \in Bad : \A s \in SUBSET T : s # T => s \notin Bad
    BY MinimalSubset
  <2> USE DEF Bad
  <2>2. IsFiniteSet(T)
    BY FS_Subset
  <2>3. T # {}
    BY SumEmpty
  <2>4. Pick(T) \in T
    BY <2>3, PickIn
  <2>5. SumFunctionOnSet(f, T \ {Pick(T)}) = SumFunctionOnSet(g, T \ {Pick(T)})
    BY <2>1, <2>4
  <2>6. f[Pick(T)] = g[Pick(T)]
    BY <2>4
  <2> QED
    BY <2>2, <2>3, <2>5, <2>6, SumStep
<1> QED
  BY <1>1

(* Changing one value changes the sum by the difference.                   *)
LEMMA SumUpdate ==
  ASSUME NEW S, IsFiniteSet(S), NEW f \in [S -> Int], NEW g \in [S -> Int],
         NEW a \in S, \A x \in S \ {a} : g[x] = f[x]
  PROVE  SumFunctionOnSet(g, S) = SumFunctionOnSet(f, S) - f[a] + g[a]
<1> DEFINE R == S \ {a}
<1>1. IsFiniteSet(R)
  BY FS_Subset
<1>2. SumFunctionOnSet(g, R) = SumFunctionOnSet(f, R)
  BY <1>1, SumCongruent
<1>3. SumFunctionOnSet(f, R) \in Int
  BY <1>1, SumInt
<1>4. SumFunctionOnSet(f, S) = f[a] + SumFunctionOnSet(f, R)
  BY SumRemove
<1>5. SumFunctionOnSet(g, S) = g[a] + SumFunctionOnSet(g, R)
  BY SumRemove
<1> QED
  BY <1>2, <1>3, <1>4, <1>5

(* A sum of natural numbers is a natural number.                           *)
LEMMA SumNat ==
  ASSUME NEW S, IsFiniteSet(S), NEW f \in [S -> Nat]
  PROVE  SumFunctionOnSet(f, S) \in Nat
<1> DEFINE Bad == {T \in SUBSET S : SumFunctionOnSet(f, T) \notin Nat}
<1>1. Bad = {}
  <2> SUFFICES ASSUME Bad # {} PROVE FALSE
    OBVIOUS
  <2> Bad \in SUBSET SUBSET S
    OBVIOUS
  <2> HIDE DEF Bad
  <2>1. PICK T \in Bad : \A s \in SUBSET T : s # T => s \notin Bad
    BY MinimalSubset
  <2> USE DEF Bad
  <2>2. IsFiniteSet(T)
    BY FS_Subset
  <2>3. T # {}
    BY SumEmpty
  <2>4. Pick(T) \in T
    BY <2>3, PickIn
  <2>5. SumFunctionOnSet(f, T \ {Pick(T)}) \in Nat
    BY <2>1, <2>4
  <2> QED
    BY <2>2, <2>3, <2>4, <2>5, SumStep
<1> QED
  BY <1>1

(* No term of a sum of natural numbers exceeds the sum.                    *)
LEMMA SumTerm ==
  ASSUME NEW S, IsFiniteSet(S), NEW f \in [S -> Nat], NEW a \in S
  PROVE  f[a] <= SumFunctionOnSet(f, S)
<1> DEFINE R == S \ {a}
           g == [x \in R |-> f[x]]
<1>1. IsFiniteSet(R)
  BY FS_Subset
<1>2. SumFunctionOnSet(g, R) = SumFunctionOnSet(f, R)
  BY <1>1, SumCongruent
<1>3. SumFunctionOnSet(g, R) \in Nat
  BY <1>1, SumNat
<1>4. f \in [S -> Int]
  OBVIOUS
<1>5. SumFunctionOnSet(f, S) = f[a] + SumFunctionOnSet(f, R)
  BY <1>4, SumRemove
<1>6. f[a] \in Nat
  OBVIOUS
<1> QED
  BY <1>2, <1>3, <1>5, <1>6

(* A sum of zeros is zero.                                                 *)
LEMMA SumZero ==
  ASSUME NEW S, IsFiniteSet(S), NEW f, \A x \in S : f[x] = 0
  PROVE  SumFunctionOnSet(f, S) = 0
<1> DEFINE Bad == {T \in SUBSET S : SumFunctionOnSet(f, T) # 0}
<1>1. Bad = {}
  <2> SUFFICES ASSUME Bad # {} PROVE FALSE
    OBVIOUS
  <2> Bad \in SUBSET SUBSET S
    OBVIOUS
  <2> HIDE DEF Bad
  <2>1. PICK T \in Bad : \A s \in SUBSET T : s # T => s \notin Bad
    BY MinimalSubset
  <2> USE DEF Bad
  <2>2. IsFiniteSet(T)
    BY FS_Subset
  <2>3. T # {}
    BY SumEmpty
  <2>4. Pick(T) \in T
    BY <2>3, PickIn
  <2>5. SumFunctionOnSet(f, T \ {Pick(T)}) = 0
    BY <2>1, <2>4
  <2>6. f[Pick(T)] = 0
    BY <2>4
  <2> QED
    BY <2>2, <2>3, <2>5, <2>6, SumStep
<1> QED
  BY <1>1

LEMMA Distribute ==
  ASSUME NEW k \in Int, NEW m \in Int, NEW n \in Int
  PROVE  k * (m + n) = k * m + k * n
OBVIOUS

(* Sums are linear: what is credited per unit of g is credited in all per  *)
(* unit of the sum of g.                                                   *)
LEMMA SumLinear ==
  ASSUME NEW S, IsFiniteSet(S), NEW f \in [S -> Int], NEW g \in [S -> Int],
         NEW k \in Int, NEW h, \A x \in S : h[x] = f[x] + k * g[x]
  PROVE  SumFunctionOnSet(h, S)
           = SumFunctionOnSet(f, S) + k * SumFunctionOnSet(g, S)
<1> DEFINE Linear(T) == SumFunctionOnSet(h, T)
                          = SumFunctionOnSet(f, T) + k * SumFunctionOnSet(g, T)
           Bad == {T \in SUBSET S : ~ Linear(T)}
<1>1. Bad = {}
  <2> SUFFICES ASSUME Bad # {} PROVE FALSE
    OBVIOUS
  <2> Bad \in SUBSET SUBSET S
    OBVIOUS
  <2> HIDE DEF Bad
  <2>1. PICK T \in Bad : \A s \in SUBSET T : s # T => s \notin Bad
    BY MinimalSubset
  <2> USE DEF Bad
  <2>2. IsFiniteSet(T)
    BY FS_Subset
  <2>3. T # {}
    <3>1. k * 0 = 0
      OBVIOUS
    <3>2. Linear({})
      BY <3>1, SumEmpty
    <3> QED
      BY <3>2
  <2> DEFINE c == Pick(T)
             R == T \ {c}
  <2>4. c \in T
    BY <2>3, PickIn
  <2>5. Linear(R)
    BY <2>1, <2>4
  <2>6. IsFiniteSet(R)
    BY <2>2, FS_Subset
  <2>7. /\ SumFunctionOnSet(f, R) \in Int
        /\ SumFunctionOnSet(g, R) \in Int
    BY <2>6, SumInt
  <2>8. h[c] = f[c] + k * g[c] /\ f[c] \in Int /\ g[c] \in Int
    BY <2>4
  <2>9. /\ SumFunctionOnSet(f, T) = f[c] + SumFunctionOnSet(f, R)
        /\ SumFunctionOnSet(g, T) = g[c] + SumFunctionOnSet(g, R)
        /\ SumFunctionOnSet(h, T) = h[c] + SumFunctionOnSet(h, R)
    BY <2>2, <2>3, SumStep
  <2>10. k * SumFunctionOnSet(g, T) = k * g[c] + k * SumFunctionOnSet(g, R)
    BY <2>7, <2>8, <2>9, Distribute
  <2> HIDE DEF c, R
  <2>11. k * g[c] \in Int /\ k * SumFunctionOnSet(g, R) \in Int
    BY <2>7, <2>8
  <2> QED
    BY <2>5, <2>7, <2>8, <2>9, <2>10, <2>11
<1> QED
  BY <1>1
=============================================================================
