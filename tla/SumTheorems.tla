----------------------------- MODULE SumTheorems -----------------------------
(***************************************************************************)
(* Sums of a function over finite sets, as the modules of this project     *)
(* write them (SumFunctionOnSet and SumFunction of the module Functions).  *)
(* The recursive function behind a sum is shown to exist, and everything   *)
(* else about sums follows by induction over sets of natural numbers.      *)
(***************************************************************************)
EXTENDS Integers, Sequences, FiniteSetTheorems, TLAPS

-----------------------------------------------------------------------------
(* Induction, as a fact about sets of natural numbers. *)

\* A set of natural numbers with 0 and the successor of each member is Nat.
LEMMA NatSetInduction ==
    ASSUME NEW T \in SUBSET Nat, 0 \in T, \A n \in T : n + 1 \in T
    PROVE  T = Nat
  <1> SUFFICES ASSUME T # Nat PROVE FALSE
    OBVIOUS
  <1>1. Nat \ T \subseteq Nat /\ Nat \ T # {}
    OBVIOUS
  <1>2. PICK x \in Nat \ T : \A y \in Nat \ T : ~(<<y, x>> \in OpToRel(<, Nat))
    BY <1>1, WFMin, NatLessThanWellFounded
  <1>3. \A y \in Nat \ T : ~(y < x)
    BY <1>2 DEF OpToRel
  <1>4. x # 0 /\ x - 1 \in Nat
    OBVIOUS
  <1>5. x - 1 \in T
    BY <1>3, <1>4
  <1>6. x = (x - 1) + 1
    OBVIOUS
  <1> QED
    BY <1>5, <1>6

\* A family of subsets of a finite set with the empty set and, with each member, the
\* member enlarged by one element has the whole set as a member.
LEMMA FiniteSetInduction ==
    ASSUME NEW X, IsFiniteSet(X), NEW F \in SUBSET (SUBSET X), {} \in F,
           \A s \in F : \A x \in X \ s : s \cup {x} \in F
    PROVE  X \in F
  <1> DEFINE T == {n \in Nat : n <= Cardinality(X) => \E s \in F : Cardinality(s) = n}
  <1>1. \A s \in SUBSET X : IsFiniteSet(s) /\ Cardinality(s) \in Nat
    BY FS_Subset, FS_CardinalityType
  <1>2. 0 \in T
    BY FS_EmptySet
  <1>3. ASSUME NEW n \in T PROVE n + 1 \in T
    <2> SUFFICES ASSUME n + 1 <= Cardinality(X) PROVE \E s \in F : Cardinality(s) = n + 1
      OBVIOUS
    <2>1. PICK s \in F : Cardinality(s) = n
      BY <1>1
    <2>2. s # X
      BY <1>1, <2>1
    <2>3. PICK x \in X : x \notin s
      BY <2>2
    <2>4. Cardinality(s \cup {x}) = n + 1
      BY <1>1, <2>1, <2>3, FS_AddElement
    <2> QED
      BY <2>3, <2>4
  <1>4. T = Nat
    <2> HIDE DEF T
    <2>1. T \in SUBSET Nat
      BY DEF T
    <2> QED
      BY <1>2, <1>3, <2>1, NatSetInduction
  <1>5. PICK s \in F : Cardinality(s) = Cardinality(X)
    BY <1>1, <1>4
  <1>6. s = X
    BY <1>5, FS_Subset
  <1> QED
    BY <1>6

-----------------------------------------------------------------------------
(* The recursive function of a sum. *)

\* What the recursion of SumFunctionOnSet computes at s from a function g.
Unfolded(f, g, s) ==
    IF s = {} THEN 0 ELSE LET x == CHOOSE x \in s : TRUE IN f[x] + g[s \ {x}]

\* g is the function the recursion defines on the subsets of X.
Partial(f, X, g) == g = [s \in SUBSET X |-> Unfolded(f, g, s)]

LEMMA SumIsChoice ==
    ASSUME NEW f, NEW X
    PROVE  SumFunctionOnSet(f, X) = (CHOOSE g : Partial(f, X, g))[X]
  BY DEF SumFunctionOnSet, FoldFunctionOnSet, MapThenFoldSet, Partial, Unfolded

\* Such a function exists when X is finite: it is built for one cardinality after the other.
LEMMA PartialExists ==
    ASSUME NEW f, NEW X, IsFiniteSet(X)
    PROVE  \E g : Partial(f, X, g)
  <1> DEFINE UpTo(n, g) == \A s \in SUBSET X : Cardinality(s) <= n => g[s] = Unfolded(f, g, s)
             T == {n \in Nat : \E g : UpTo(n, g)}
  <1>1. \A s \in SUBSET X : IsFiniteSet(s) /\ Cardinality(s) \in Nat
    BY FS_Subset, FS_CardinalityType
  <1>2. 0 \in T
    <2>1. \A s \in SUBSET X : Cardinality(s) <= 0 => s = {}
      BY <1>1, FS_EmptySet
    <2>2. UpTo(0, [s \in SUBSET X |-> 0])
      BY <2>1 DEF Unfolded
    <2> QED
      BY <2>2
  <1>3. ASSUME NEW n \in T PROVE n + 1 \in T
    <2>1. PICK g : UpTo(n, g)
      OBVIOUS
    <2> DEFINE h == [s \in SUBSET X |-> IF Cardinality(s) <= n THEN g[s] ELSE Unfolded(f, g, s)]
    <2>2. ASSUME NEW s \in SUBSET X, Cardinality(s) <= n + 1, s # {}, NEW x \in s
          PROVE  h[s \ {x}] = g[s \ {x}]
      <3>1. s \ {x} \in SUBSET X /\ Cardinality(s \ {x}) = Cardinality(s) - 1
        BY <1>1, FS_RemoveElement
      <3> QED
        BY <1>1, <2>2, <3>1
    <2>3. ASSUME NEW s \in SUBSET X, Cardinality(s) <= n + 1
          PROVE  Unfolded(f, h, s) = Unfolded(f, g, s)
      <3>1. CASE s = {}
        BY <3>1 DEF Unfolded
      <3>2. CASE s # {}
        <4>1. (CHOOSE x \in s : TRUE) \in s
          BY <3>2
        <4>2. h[s \ {CHOOSE x \in s : TRUE}] = g[s \ {CHOOSE x \in s : TRUE}]
          BY <2>2, <2>3, <3>2, <4>1
        <4> HIDE DEF h
        <4> QED
          BY <3>2, <4>2 DEF Unfolded
      <3> QED
        BY <3>1, <3>2
    <2>4. ASSUME NEW s \in SUBSET X, Cardinality(s) <= n + 1
          PROVE  h[s] = Unfolded(f, h, s)
      <3>1. h[s] = Unfolded(f, g, s)
        BY <2>1
      <3> QED
        BY <2>3, <2>4, <3>1
    <2>5. UpTo(n + 1, h)
      <3> HIDE DEF h
      <3> QED
        BY <2>4
    <2> HIDE DEF h, UpTo
    <2> QED
      BY <2>5
  <1>4. T = Nat
    <2> HIDE DEF T
    <2>1. \A n \in T : n + 1 \in T
      BY <1>3
    <2>2. T \in SUBSET Nat
      BY DEF T
    <2> QED
      BY <1>2, <2>1, <2>2, NatSetInduction
  <1>5. PICK g : UpTo(Cardinality(X), g)
    BY <1>1, <1>4
  <1>6. \A s \in SUBSET X : g[s] = Unfolded(f, g, s)
    BY <1>1, <1>5, FS_Subset
  <1> DEFINE h == [s \in SUBSET X |-> g[s]]
  <1>7. \A s \in SUBSET X : h[s] = g[s]
    OBVIOUS
  <1>8. \A s \in SUBSET X : Unfolded(f, h, s) = Unfolded(f, g, s)
    <2> HIDE DEF h
    <2>1. \A s \in SUBSET X : s # {} => (CHOOSE x \in s : TRUE) \in s
      OBVIOUS
    <2> QED
      BY <1>7, <2>1 DEF Unfolded
  <1>9. h = [s \in SUBSET X |-> Unfolded(f, h, s)]
    BY <1>6, <1>7, <1>8
  <1> QED
    BY <1>9 DEF Partial

\* So a sum is read from a function that satisfies the recursion.
LEMMA SumIsPartial ==
    ASSUME NEW f, NEW X, IsFiniteSet(X)
    PROVE  \E g : Partial(f, X, g) /\ SumFunctionOnSet(f, X) = g[X]
  <1> DEFINE g == CHOOSE h : Partial(f, X, h)
  <1>1. Partial(f, X, g)
    BY PartialExists
  <1> QED
    BY <1>1, SumIsChoice

\* Functions that satisfy the recursion agree wherever both are defined and the
\* summed functions agree.
LEMMA PartialsAgree ==
    ASSUME NEW X, IsFiniteSet(X), NEW f, NEW e, NEW g, NEW Y, NEW h,
           Partial(f, X, g), Partial(e, Y, h), X \subseteq Y, \A x \in X : f[x] = e[x]
    PROVE  \A s \in SUBSET X : g[s] = h[s]
  <1> DEFINE T == {n \in Nat : \A s \in SUBSET X : Cardinality(s) <= n => g[s] = h[s]}
  <1>1. \A s \in SUBSET X : IsFiniteSet(s) /\ Cardinality(s) \in Nat
    BY FS_Subset, FS_CardinalityType
  <1>2. \A s \in SUBSET X : g[s] = Unfolded(f, g, s) /\ h[s] = Unfolded(e, h, s)
    BY DEF Partial
  <1>3. 0 \in T
    <2>1. \A s \in SUBSET X : Cardinality(s) <= 0 => s = {}
      BY <1>1, FS_EmptySet
    <2> QED
      BY <1>2, <2>1 DEF Unfolded
  <1>4. ASSUME NEW n \in T PROVE n + 1 \in T
    <2>1. ASSUME NEW s \in SUBSET X, Cardinality(s) <= n + 1 PROVE g[s] = h[s]
      <3>1. CASE s = {}
        BY <1>2, <3>1 DEF Unfolded
      <3>2. CASE s # {}
        <4>1. PICK x \in s : x = CHOOSE y \in s : TRUE
          BY <3>2
        <4>2. s \ {x} \in SUBSET X /\ Cardinality(s \ {x}) = Cardinality(s) - 1
          BY <1>1, FS_RemoveElement
        <4>3. g[s \ {x}] = h[s \ {x}]
          BY <1>1, <1>4, <2>1, <4>2
        <4>4. g[s] = f[x] + g[s \ {x}] /\ h[s] = e[x] + h[s \ {x}]
          BY <1>2, <3>2, <4>1 DEF Unfolded
        <4> QED
          BY <4>3, <4>4
      <3> QED
        BY <3>1, <3>2
    <2> QED
      BY <2>1
  <1>5. T = Nat
    <2> HIDE DEF T
    <2>1. T \in SUBSET Nat
      BY DEF T
    <2> QED
      BY <1>3, <1>4, <2>1, NatSetInduction
  <1> QED
    BY <1>1, <1>5

-----------------------------------------------------------------------------
(* Sums. *)

\* Functions that agree on a set have the same sum over it.
THEOREM SumAgree ==
    ASSUME NEW X, IsFiniteSet(X), NEW f, NEW e, \A x \in X : f[x] = e[x]
    PROVE  SumFunctionOnSet(f, X) = SumFunctionOnSet(e, X)
  <1>1. PICK g : Partial(f, X, g) /\ SumFunctionOnSet(f, X) = g[X]
    BY SumIsPartial
  <1>2. PICK h : Partial(e, X, h) /\ SumFunctionOnSet(e, X) = h[X]
    BY SumIsPartial
  <1>3. \A s \in SUBSET X : g[s] = h[s]
    BY <1>1, <1>2, PartialsAgree
  <1> QED
    BY <1>1, <1>2, <1>3

\* Every sum over a part of a set is read from the one function of that set.
LEMMA SumsFromOne ==
    ASSUME NEW X, IsFiniteSet(X), NEW f
    PROVE  \E g : /\ Partial(f, X, g)
                  /\ \A s \in SUBSET X : SumFunctionOnSet(f, s) = g[s]
  <1>1. PICK g : Partial(f, X, g)
    BY PartialExists
  <1>2. ASSUME NEW s \in SUBSET X PROVE SumFunctionOnSet(f, s) = g[s]
    <2>1. IsFiniteSet(s)
      BY FS_Subset
    <2>2. PICK h : Partial(f, s, h) /\ SumFunctionOnSet(f, s) = h[s]
      BY <2>1, SumIsPartial
    <2>3. \A r \in SUBSET s : h[r] = g[r]
      BY <1>1, <2>1, <2>2, PartialsAgree
    <2> QED
      BY <2>2, <2>3
  <1> QED
    BY <1>1, <1>2

\* The sum over no element is 0.
THEOREM SumEmpty ==
    ASSUME NEW f
    PROVE  SumFunctionOnSet(f, {}) = 0
  <1>1. PICK g : Partial(f, {}, g) /\ SumFunctionOnSet(f, {}) = g[{}]
    BY FS_EmptySet, SumIsPartial
  <1>2. g[{}] = Unfolded(f, g, {})
    BY <1>1 DEF Partial
  <1> QED
    BY <1>1, <1>2 DEF Unfolded

\* One step of the recursion, on sums.
LEMMA SumUnfolds ==
    ASSUME NEW X, IsFiniteSet(X), X # {}, NEW f
    PROVE  \E x \in X : SumFunctionOnSet(f, X) = f[x] + SumFunctionOnSet(f, X \ {x})
  <1>1. PICK g : /\ Partial(f, X, g)
                 /\ \A s \in SUBSET X : SumFunctionOnSet(f, s) = g[s]
    BY SumsFromOne
  <1>2. PICK x \in X : x = CHOOSE y \in X : TRUE
    OBVIOUS
  <1>3. g[X] = f[x] + g[X \ {x}]
    BY <1>1, <1>2 DEF Partial, Unfolded
  <1>4. X \ {x} \in SUBSET X
    OBVIOUS
  <1> QED
    BY <1>1, <1>3, <1>4

\* The sum of integers is an integer.
THEOREM SumInt ==
    ASSUME NEW X, IsFiniteSet(X), NEW f, \A x \in X : f[x] \in Int
    PROVE  SumFunctionOnSet(f, X) \in Int
  <1> DEFINE T == {n \in Nat : \A s \in SUBSET X : Cardinality(s) <= n => SumFunctionOnSet(f, s) \in Int}
  <1>1. \A s \in SUBSET X : IsFiniteSet(s) /\ Cardinality(s) \in Nat
    BY FS_Subset, FS_CardinalityType
  <1>2. 0 \in T
    <2>1. \A s \in SUBSET X : Cardinality(s) <= 0 => s = {}
      BY <1>1, FS_EmptySet
    <2> QED
      BY <2>1, SumEmpty
  <1>3. ASSUME NEW n \in T PROVE n + 1 \in T
    <2>1. ASSUME NEW s \in SUBSET X, Cardinality(s) <= n + 1 PROVE SumFunctionOnSet(f, s) \in Int
      <3>1. CASE s = {}
        BY <3>1, SumEmpty
      <3>2. CASE s # {}
        <4>1. PICK x \in s : SumFunctionOnSet(f, s) = f[x] + SumFunctionOnSet(f, s \ {x})
          BY <1>1, <3>2, SumUnfolds
        <4>2. s \ {x} \in SUBSET X /\ Cardinality(s \ {x}) = Cardinality(s) - 1
          BY <1>1, FS_RemoveElement
        <4>3. SumFunctionOnSet(f, s \ {x}) \in Int
          BY <1>1, <1>3, <2>1, <4>2
        <4> QED
          BY <4>1, <4>3
      <3> QED
        BY <3>1, <3>2
    <2> QED
      BY <2>1
  <1>4. T = Nat
    <2> HIDE DEF T
    <2>1. T \in SUBSET Nat
      BY DEF T
    <2> QED
      BY <1>2, <1>3, <2>1, NatSetInduction
  <1> QED
    BY <1>1, <1>4

\* An element may be taken out of a sum, whichever the recursion takes first.
THEOREM SumRemove ==
    ASSUME NEW X, IsFiniteSet(X), NEW f, \A x \in X : f[x] \in Int, NEW p \in X
    PROVE  SumFunctionOnSet(f, X) = f[p] + SumFunctionOnSet(f, X \ {p})
  <1> DEFINE S(s) == SumFunctionOnSet(f, s)
             T == {n \in Nat : \A s \in SUBSET X : Cardinality(s) <= n =>
                                   \A q \in s : S(s) = f[q] + S(s \ {q})}
  <1>1. \A s \in SUBSET X : IsFiniteSet(s) /\ Cardinality(s) \in Nat
    BY FS_Subset, FS_CardinalityType
  <1>2. \A s \in SUBSET X : S(s) \in Int
    BY <1>1, SumInt
  <1>3. 0 \in T
    <2>1. \A s \in SUBSET X : Cardinality(s) <= 0 => s = {}
      BY <1>1, FS_EmptySet
    <2> QED
      BY <2>1
  <1>4. ASSUME NEW n \in T PROVE n + 1 \in T
    <2>1. ASSUME NEW s \in SUBSET X, Cardinality(s) <= n + 1, NEW q \in s
          PROVE  S(s) = f[q] + S(s \ {q})
      <3>1. PICK x \in s : S(s) = f[x] + S(s \ {x})
        BY <1>1, SumUnfolds
      <3>2. CASE x = q
        BY <3>1, <3>2
      <3>3. CASE x # q
        <4>1. /\ s \ {x} \in SUBSET X /\ s \ {q} \in SUBSET X
              /\ (s \ {x}) \ {q} = (s \ {q}) \ {x} /\ (s \ {q}) \ {x} \in SUBSET X
              /\ q \in s \ {x} /\ x \in s \ {q}
          BY <3>3
        <4>2. Cardinality(s \ {x}) <= n /\ Cardinality(s \ {q}) <= n
          BY <1>1, <2>1, FS_RemoveElement
        <4>3. S(s \ {x}) = f[q] + S((s \ {x}) \ {q})
          BY <1>4, <4>1, <4>2
        <4>4. S(s \ {q}) = f[x] + S((s \ {q}) \ {x})
          BY <1>4, <4>1, <4>2
        <4>5. S((s \ {x}) \ {q}) = S((s \ {q}) \ {x})
          BY <4>1
        <4>6. f[q] \in Int /\ f[x] \in Int /\ S((s \ {q}) \ {x}) \in Int
          BY <1>2, <4>1
        <4> QED
          BY <3>1, <4>3, <4>4, <4>5, <4>6
      <3> QED
        BY <3>2, <3>3
    <2> QED
      BY <2>1
  <1>5. T = Nat
    <2> HIDE DEF T
    <2>1. T \in SUBSET Nat
      BY DEF T
    <2> QED
      BY <1>3, <1>4, <2>1, NatSetInduction
  <1> QED
    BY <1>1, <1>5

\* An element added to a set adds its value to the sum.
THEOREM SumAdd ==
    ASSUME NEW X, IsFiniteSet(X), NEW f, NEW p, p \notin X, \A x \in X \cup {p} : f[x] \in Int
    PROVE  SumFunctionOnSet(f, X \cup {p}) = SumFunctionOnSet(f, X) + f[p]
  <1>1. IsFiniteSet(X \cup {p}) /\ (X \cup {p}) \ {p} = X
    BY FS_AddElement
  <1>2. SumFunctionOnSet(f, X \cup {p}) = f[p] + SumFunctionOnSet(f, (X \cup {p}) \ {p})
    BY <1>1, SumRemove
  <1>3. SumFunctionOnSet(f, (X \cup {p}) \ {p}) = SumFunctionOnSet(f, X)
    BY <1>1
  <1>4. SumFunctionOnSet(f, X) \in Int /\ f[p] \in Int
    BY SumInt
  <1> QED
    BY <1>2, <1>3, <1>4

\* The values of f that a sum over X reads are integers.
Summable(f, X) == \A x \in X : f[x] \in Int

\* SumAdd, for a goal with other functions in it: the values stay behind a definition.
THEOREM SumExtends ==
    ASSUME NEW X, IsFiniteSet(X), NEW f, NEW p, p \notin X, Summable(f, X \cup {p})
    PROVE  SumFunctionOnSet(f, X \cup {p}) = SumFunctionOnSet(f, X) + f[p]
  BY SumAdd DEF Summable

\* The sum over one element is its value.
THEOREM SumSingleton ==
    ASSUME NEW f, NEW p, f[p] \in Int
    PROVE  SumFunctionOnSet(f, {p}) = f[p]
  <1>1. IsFiniteSet({p}) /\ p \in {p} /\ \A x \in {p} : f[x] \in Int
    BY FS_Singleton
  <1>2. SumFunctionOnSet(f, {p}) = f[p] + SumFunctionOnSet(f, {p} \ {p})
    BY <1>1, SumRemove
  <1>3. {p} \ {p} = {}
    OBVIOUS
  <1>4. SumFunctionOnSet(f, {}) = 0
    BY SumEmpty
  <1> QED
    BY <1>2, <1>3, <1>4

\* A value that changes at one element changes the sum by as much.
THEOREM SumChange ==
    ASSUME NEW X, IsFiniteSet(X), NEW p \in X, NEW f, NEW e,
           \A x \in X : f[x] \in Int, e[p] \in Int, \A x \in X \ {p} : e[x] = f[x]
    PROVE  SumFunctionOnSet(e, X) = SumFunctionOnSet(f, X) - f[p] + e[p]
  <1>1. IsFiniteSet(X \ {p})
    BY FS_RemoveElement
  <1>2. \A x \in X : e[x] \in Int
    OBVIOUS
  <1>3. SumFunctionOnSet(f, X) = f[p] + SumFunctionOnSet(f, X \ {p})
    BY SumRemove
  <1>4. SumFunctionOnSet(e, X) = e[p] + SumFunctionOnSet(e, X \ {p})
    BY <1>2, SumRemove
  <1>5. SumFunctionOnSet(f, X \ {p}) = SumFunctionOnSet(e, X \ {p})
    BY <1>1, SumAgree
  <1>6. SumFunctionOnSet(f, X \ {p}) \in Int
    BY <1>1, SumInt
  <1> QED
    BY <1>3, <1>4, <1>5, <1>6

\* The same within a set.
LEMMA SumGrows ==
    ASSUME NEW X, IsFiniteSet(X), NEW f, \A x \in X : f[x] \in Int
    PROVE  \A s \in SUBSET X :
              /\ IsFiniteSet(s) /\ SumFunctionOnSet(f, s) \in Int
              /\ \A x \in X \ s : SumFunctionOnSet(f, s \cup {x}) = SumFunctionOnSet(f, s) + f[x]
  <1> SUFFICES ASSUME NEW s \in SUBSET X
               PROVE  /\ IsFiniteSet(s) /\ SumFunctionOnSet(f, s) \in Int
                      /\ \A x \in X \ s : SumFunctionOnSet(f, s \cup {x}) = SumFunctionOnSet(f, s) + f[x]
    OBVIOUS
  <1>1. IsFiniteSet(s)
    BY FS_Subset
  <1>2. SumFunctionOnSet(f, s) \in Int
    BY <1>1, SumInt
  <1> QED
    BY <1>1, <1>2, SumAdd

\* The sum of a function that is 0 on the set is 0.
THEOREM SumZero ==
    ASSUME NEW X, IsFiniteSet(X), NEW f, \A x \in X : f[x] = 0
    PROVE  SumFunctionOnSet(f, X) = 0
  <1> DEFINE F == {s \in SUBSET X : SumFunctionOnSet(f, s) = 0}
  <1>1. {} \in F
    BY SumEmpty
  <1>2. ASSUME NEW s \in F, NEW x \in X \ s PROVE s \cup {x} \in F
    <2>1. IsFiniteSet(s) /\ x \notin s /\ \A y \in s \cup {x} : f[y] \in Int
      BY FS_Subset
    <2> HIDE DEF F
    <2>2. SumFunctionOnSet(f, s \cup {x}) = SumFunctionOnSet(f, s) + f[x]
      BY <2>1, SumAdd
    <2> QED
      BY <2>2 DEF F
  <1> HIDE DEF F
  <1>3. F \in SUBSET (SUBSET X)
    BY DEF F
  <1>4. X \in F
    BY <1>1, <1>2, <1>3, FiniteSetInduction
  <1> QED
    BY <1>4 DEF F

\* A sum is monotone in its function.
THEOREM SumMonotone ==
    ASSUME NEW X, IsFiniteSet(X), NEW f, NEW e,
           \A x \in X : f[x] \in Int /\ e[x] \in Int /\ f[x] <= e[x]
    PROVE  SumFunctionOnSet(f, X) <= SumFunctionOnSet(e, X)
  <1> DEFINE F == {s \in SUBSET X : SumFunctionOnSet(f, s) <= SumFunctionOnSet(e, s)}
  <1>1. {} \in F
    BY SumEmpty
  <1>2. ASSUME NEW s \in F, NEW x \in X \ s PROVE s \cup {x} \in F
    <2>1. IsFiniteSet(s) /\ x \notin s /\ \A y \in s \cup {x} : f[y] \in Int /\ e[y] \in Int
      BY FS_Subset
    <2> HIDE DEF F
    <2>2. SumFunctionOnSet(f, s \cup {x}) = SumFunctionOnSet(f, s) + f[x]
      BY <2>1, SumAdd
    <2>3. SumFunctionOnSet(e, s \cup {x}) = SumFunctionOnSet(e, s) + e[x]
      BY <2>1, SumAdd
    <2>4. SumFunctionOnSet(f, s) \in Int /\ SumFunctionOnSet(e, s) \in Int
      BY <2>1, SumInt
    <2> QED
      BY <2>2, <2>3, <2>4 DEF F
  <1> HIDE DEF F
  <1>3. F \in SUBSET (SUBSET X)
    BY DEF F
  <1>4. X \in F
    BY <1>1, <1>2, <1>3, FiniteSetInduction
  <1> QED
    BY <1>4 DEF F

\* The sum of a pointwise sum.
THEOREM SumPlus ==
    ASSUME NEW X, IsFiniteSet(X), NEW f, NEW e, NEW h,
           \A x \in X : f[x] \in Int, \A x \in X : e[x] \in Int, \A x \in X : h[x] = f[x] + e[x]
    PROVE  SumFunctionOnSet(h, X) = SumFunctionOnSet(f, X) + SumFunctionOnSet(e, X)
  <1> DEFINE F == {s \in SUBSET X : SumFunctionOnSet(h, s) =
                                    SumFunctionOnSet(f, s) + SumFunctionOnSet(e, s)}
  <1>1. \A s \in SUBSET X :
            /\ SumFunctionOnSet(f, s) \in Int /\ SumFunctionOnSet(e, s) \in Int
            /\ \A x \in X \ s :
                  /\ SumFunctionOnSet(f, s \cup {x}) = SumFunctionOnSet(f, s) + f[x]
                  /\ SumFunctionOnSet(e, s \cup {x}) = SumFunctionOnSet(e, s) + e[x]
                  /\ SumFunctionOnSet(h, s \cup {x}) = SumFunctionOnSet(h, s) + h[x]
    <2>1. \A x \in X : h[x] \in Int
      OBVIOUS
    <2> QED
      BY <2>1, SumGrows
  <1>2. {} \in F
    BY SumEmpty
  <1>3. ASSUME NEW s \in F, NEW x \in X \ s PROVE s \cup {x} \in F
    <2>1. /\ SumFunctionOnSet(f, s) \in Int /\ SumFunctionOnSet(e, s) \in Int
          /\ SumFunctionOnSet(f, s \cup {x}) = SumFunctionOnSet(f, s) + f[x]
          /\ SumFunctionOnSet(e, s \cup {x}) = SumFunctionOnSet(e, s) + e[x]
          /\ SumFunctionOnSet(h, s \cup {x}) = SumFunctionOnSet(h, s) + h[x]
      BY <1>1
    <2> QED
      BY <2>1
  <1> HIDE DEF F
  <1>4. F \in SUBSET (SUBSET X)
    BY DEF F
  <1>5. X \in F
    BY <1>2, <1>3, <1>4, FiniteSetInduction
  <1> QED
    BY <1>5 DEF F

\* A sum of natural numbers is one, and at least each of its summands.
THEOREM SumNat ==
    ASSUME NEW X, IsFiniteSet(X), NEW f, \A x \in X : f[x] \in Nat
    PROVE  /\ SumFunctionOnSet(f, X) \in Nat
           /\ \A x \in X : f[x] <= SumFunctionOnSet(f, X)
  <1> DEFINE zero == [x \in X |-> 0]
  <1>1. ASSUME NEW s \in SUBSET X PROVE SumFunctionOnSet(f, s) \in Nat
    <2>1. IsFiniteSet(s)
      BY FS_Subset
    <2>2. SumFunctionOnSet(zero, s) = 0
      BY <2>1, SumZero
    <2>3. SumFunctionOnSet(zero, s) <= SumFunctionOnSet(f, s)
      BY <2>1, SumMonotone
    <2>4. SumFunctionOnSet(f, s) \in Int
      BY <2>1, SumInt
    <2> HIDE DEF zero
    <2> QED
      BY <2>2, <2>3, <2>4
  <1>2. ASSUME NEW x \in X PROVE f[x] <= SumFunctionOnSet(f, X)
    <2>1. SumFunctionOnSet(f, X) = f[x] + SumFunctionOnSet(f, X \ {x})
      BY SumRemove
    <2>2. SumFunctionOnSet(f, X \ {x}) \in Nat
      BY <1>1
    <2> QED
      BY <2>1, <2>2
  <1> QED
    BY <1>1, <1>2

\* The sum over a part of a set is no more than the sum over the set.
THEOREM SumSubset ==
    ASSUME NEW X, IsFiniteSet(X), NEW f, \A x \in X : f[x] \in Nat, NEW Y \in SUBSET X
    PROVE  SumFunctionOnSet(f, Y) <= SumFunctionOnSet(f, X)
  <1> DEFINE rest == X \ Y
             F == {s \in SUBSET rest : SumFunctionOnSet(f, Y) <= SumFunctionOnSet(f, Y \cup s)}
  <1>1. IsFiniteSet(Y) /\ IsFiniteSet(rest)
    BY FS_Subset
  <1>2. SumFunctionOnSet(f, Y) \in Int
    BY <1>1, SumInt
  <1>3. {} \in F
    <2>1. Y \cup {} = Y
      OBVIOUS
    <2> QED
      BY <1>2, <2>1
  <1>4. ASSUME NEW s \in F, NEW x \in rest \ s PROVE s \cup {x} \in F
    <2>1. IsFiniteSet(s) /\ IsFiniteSet(Y \cup s) /\ x \notin Y \cup s
      BY <1>1, FS_Subset, FS_Union
    <2>2. \A y \in (Y \cup s) \cup {x} : f[y] \in Int
      OBVIOUS
    <2>3. SumFunctionOnSet(f, Y) <= SumFunctionOnSet(f, Y \cup s) /\ f[x] \in Nat
      OBVIOUS
    <2> HIDE DEF F
    <2>4. SumFunctionOnSet(f, (Y \cup s) \cup {x}) = SumFunctionOnSet(f, Y \cup s) + f[x]
      BY <2>1, <2>2, SumAdd
    <2>5. SumFunctionOnSet(f, Y \cup s) \in Int
      BY <2>1, <2>2, SumInt
    <2>6. (Y \cup s) \cup {x} = Y \cup (s \cup {x})
      OBVIOUS
    <2>7. SumFunctionOnSet(f, Y) <= SumFunctionOnSet(f, (Y \cup s) \cup {x})
      BY <1>2, <2>3, <2>4, <2>5
    <2> QED
      BY <2>6, <2>7 DEF F
  <1> HIDE DEF F, rest
  <1>5. F \in SUBSET (SUBSET rest)
    BY DEF F
  <1>6. rest \in F
    BY <1>1, <1>3, <1>4, <1>5, FiniteSetInduction
  <1>7. Y \cup rest = X
    BY DEF rest
  <1> QED
    BY <1>6, <1>7 DEF F

-----------------------------------------------------------------------------
(* Sums of whole functions, and of sequences of numbers. *)

\* The sum of a function is the sum over its domain.
LEMMA SumFunctionIs ==
    ASSUME NEW f
    PROVE  SumFunction(f) = SumFunctionOnSet(f, DOMAIN f)
  BY DEF SumFunction, SumFunctionOnSet, FoldFunction, FoldFunctionOnSet

\* That sum is an integer.
LEMMA FunctionSum ==
    ASSUME NEW D, IsFiniteSet(D), NEW f \in [D -> Int]
    PROVE  SumFunction(f) \in Int /\ SumFunction(f) = SumFunctionOnSet(f, D)
  <1>1. SumFunction(f) = SumFunctionOnSet(f, D)
    BY SumFunctionIs
  <1>2. \A x \in D : f[x] \in Int
    OBVIOUS
  <1> QED
    BY <1>1, <1>2, SumInt

\* A function added to another, point by point.
PointwiseSum(D, f, e, h) ==
    /\ IsFiniteSet(D) /\ f \in [D -> Int] /\ e \in [D -> Int] /\ h \in [D -> Int]
    /\ \A x \in D : h[x] = f[x] + e[x]

\* The sum of the sums is the sum.
LEMMA FunctionsAdd ==
    ASSUME NEW D, NEW f, NEW e, NEW h, PointwiseSum(D, f, e, h)
    PROVE  SumFunction(h) = SumFunction(f) + SumFunction(e)
  <1> USE DEF PointwiseSum
  <1>1. (\A x \in D : f[x] \in Int) /\ (\A x \in D : e[x] \in Int)
    OBVIOUS
  <1>2. SumFunctionOnSet(h, D) = SumFunctionOnSet(f, D) + SumFunctionOnSet(e, D)
    BY <1>1, SumPlus
  <1> QED
    BY <1>2, FunctionSum

\* A function changed at one point.
LEMMA FunctionChanged ==
    ASSUME NEW D, IsFiniteSet(D), NEW f \in [D -> Int], NEW e \in [D -> Int], NEW p \in D,
           \A x \in D \ {p} : e[x] = f[x]
    PROVE  SumFunction(e) = SumFunction(f) - f[p] + e[p]
  <1>1. (\A x \in D : f[x] \in Int) /\ e[p] \in Int
    OBVIOUS
  <1>2. SumFunctionOnSet(e, D) = SumFunctionOnSet(f, D) - f[p] + e[p]
    BY <1>1, SumChange
  <1> QED
    BY <1>2, FunctionSum

\* The sum of nothing but zeros.
LEMMA FunctionZero ==
    ASSUME NEW D, IsFiniteSet(D), NEW f \in [D -> Int], \A x \in D : f[x] = 0
    PROVE  SumFunction(f) = 0
  BY SumZero, FunctionSum

\* Of two functions with the same sum, one below the other, both are the same.
PointwiseBelow(D, f, e) ==
    /\ IsFiniteSet(D) /\ f \in [D -> Int] /\ e \in [D -> Int]
    /\ \A x \in D : f[x] <= e[x]

\* Then they are the same function.
LEMMA FunctionsMeet ==
    ASSUME NEW D, NEW f, NEW e, PointwiseBelow(D, f, e), SumFunction(f) = SumFunction(e)
    PROVE  \A x \in D : f[x] = e[x]
  <1> USE DEF PointwiseBelow
  <1> DEFINE d == [x \in D |-> e[x] - f[x]]
  <1>1. d \in [D -> Int] /\ \A x \in D : e[x] = f[x] + d[x]
    OBVIOUS
  <1>2. \A x \in D : d[x] \in Nat
    OBVIOUS
  <1> HIDE DEF d
  <1>3. SumFunction(e) = SumFunction(f) + SumFunction(d)
    BY <1>1, FunctionsAdd DEF PointwiseSum
  <1>4. SumFunction(f) \in Int /\ SumFunction(d) \in Int /\ SumFunction(d) = SumFunctionOnSet(d, D)
    BY <1>1, FunctionSum
  <1>5. SumFunctionOnSet(d, D) = 0
    BY <1>3, <1>4
  <1>6. \A x \in D : d[x] <= 0
    BY <1>2, <1>5, SumNat
  <1>7. \A x \in D : d[x] = 0
    BY <1>2, <1>6
  <1> QED
    BY <1>1, <1>7

\* A sequence of numbers with one more at its end.
LEMMA RangeSum ==
    ASSUME NEW n \in Nat, NEW e, Summable(e, 1..(n + 1))
    PROVE  SumFunctionOnSet(e, 1..(n + 1)) = SumFunctionOnSet(e, 1..n) + e[n + 1]
  <1>1. 1..(n + 1) = (1..n) \cup {n + 1} /\ n + 1 \notin 1..n
    OBVIOUS
  <1>2. IsFiniteSet(1..n)
    BY FS_Interval
  <1> DEFINE X == 1..n
             z == n + 1
  <1>3. 1..z = X \cup {z} /\ z \notin X /\ IsFiniteSet(X) /\ Summable(e, X \cup {z})
    BY <1>1, <1>2
  <1> HIDE DEF X, z
  <1>4. SumFunctionOnSet(e, X \cup {z}) = SumFunctionOnSet(e, X) + e[z]
    BY <1>3, SumExtends
  <1> QED
    BY <1>3, <1>4 DEF X, z

\* The sum of a longer sequence.
LEMMA SequenceSum ==
    ASSUME NEW n \in Nat, NEW f \in [1..n -> Int], NEW e \in [1..(n + 1) -> Int],
           \A i \in 1..n : e[i] = f[i]
    PROVE  SumFunction(e) = SumFunction(f) + e[n + 1]
  <1>1. IsFiniteSet(1..n) /\ IsFiniteSet(1..(n + 1))
    BY FS_Interval
  <1>2. SumFunction(e) = SumFunctionOnSet(e, 1..(n + 1)) /\ SumFunction(f) = SumFunctionOnSet(f, 1..n)
    BY <1>1, FunctionSum
  <1>3. Summable(e, 1..(n + 1))
    BY DEF Summable
  <1>4. SumFunctionOnSet(e, 1..(n + 1)) = SumFunctionOnSet(e, 1..n) + e[n + 1]
    BY <1>3, RangeSum
  <1>5. SumFunctionOnSet(e, 1..n) = SumFunctionOnSet(f, 1..n)
    BY <1>1, SumAgree
  <1> QED
    BY <1>2, <1>4, <1>5

-----------------------------------------------------------------------------
(* Sequences put together from pieces, and functions given by their values. *)

\* A function given by its values is typed when its values are.
LEMMA FunctionTyped ==
    ASSUME NEW D, NEW S, NEW f, DOMAIN f = D, f = [i \in DOMAIN f |-> f[i]],
           \A i \in D : f[i] \in S
    PROVE  f \in [D -> S]
  OBVIOUS

\* Adding to one entry of a BatchConsumption count leaves a count.
LEMMA CountedTyped ==
    ASSUME NEW S, NEW f \in [S -> Nat], NEW s \in S, NEW n \in Nat
    PROVE  [f EXCEPT ![s] = @ + n] \in [S -> Nat]
  OBVIOUS

\* Values outside a part of a set do not count when they are zero.
LEMMA SumZerosElsewhere ==
    ASSUME NEW X, IsFiniteSet(X), NEW f, \A x \in X : f[x] \in Int, NEW Y \in SUBSET X,
           \A x \in X \ Y : f[x] = 0
    PROVE  SumFunctionOnSet(f, Y) = SumFunctionOnSet(f, X)
  <1> DEFINE rest == X \ Y
             F == {s \in SUBSET rest : SumFunctionOnSet(f, Y) = SumFunctionOnSet(f, Y \cup s)}
  <1>1. IsFiniteSet(Y) /\ IsFiniteSet(rest)
    BY FS_Subset
  <1>2. SumFunctionOnSet(f, Y) \in Int
    BY <1>1, SumInt
  <1>3. {} \in F
    <2>1. Y \cup {} = Y
      OBVIOUS
    <2> QED
      BY <2>1
  <1>4. ASSUME NEW s \in F, NEW x \in rest \ s PROVE s \cup {x} \in F
    <2>1. IsFiniteSet(s) /\ IsFiniteSet(Y \cup s) /\ x \notin Y \cup s
      BY <1>1, FS_Subset, FS_Union
    <2>2. \A y \in (Y \cup s) \cup {x} : f[y] \in Int
      OBVIOUS
    <2>3. SumFunctionOnSet(f, Y) = SumFunctionOnSet(f, Y \cup s) /\ f[x] = 0
      OBVIOUS
    <2> HIDE DEF F
    <2>4. SumFunctionOnSet(f, (Y \cup s) \cup {x}) = SumFunctionOnSet(f, Y \cup s) + f[x]
      BY <2>1, <2>2, SumAdd
    <2>5. (Y \cup s) \cup {x} = Y \cup (s \cup {x})
      OBVIOUS
    <2>6. SumFunctionOnSet(f, Y) = SumFunctionOnSet(f, (Y \cup s) \cup {x})
      BY <1>2, <2>3, <2>4
    <2> QED
      BY <2>5, <2>6 DEF F
  <1> HIDE DEF F, rest
  <1>5. F \in SUBSET (SUBSET rest)
    BY DEF F
  <1>6. rest \in F
    BY <1>1, <1>3, <1>4, <1>5, FiniteSetInduction
  <1>7. Y \cup rest = X
    BY DEF rest
  <1> QED
    BY <1>6, <1>7 DEF F

\* h is f and then e.
Joined(f, m, e, n, h) ==
    /\ Summable(f, 1..m) /\ Summable(e, 1..n)
    /\ \A i \in 1..m : h[i] = f[i]
    /\ \A i \in 1..n : h[m + i] = e[i]

\* The sum over two sequences one after the other.
LEMMA SumOfBoth ==
    ASSUME NEW m \in Nat, NEW n \in Nat, NEW f, NEW e, NEW h, Joined(f, m, e, n, h)
    PROVE  SumFunctionOnSet(h, 1..(m + n)) = SumFunctionOnSet(f, 1..m) + SumFunctionOnSet(e, 1..n)
  <1> USE DEF Joined
  <1> DEFINE T == {j \in Nat : j <= n =>
                      SumFunctionOnSet(h, 1..(m + j)) =
                          SumFunctionOnSet(f, 1..m) + SumFunctionOnSet(e, 1..j)}
  <1>1. IsFiniteSet(1..m) /\ \A i \in 1..m : f[i] \in Int
    BY FS_Interval DEF Summable
  <1>2. SumFunctionOnSet(f, 1..m) \in Int
    BY <1>1, SumInt
  <1>3. 0 \in T
    <2>1. 1..0 = {} /\ m + 0 = m
      OBVIOUS
    <2>2. SumFunctionOnSet(e, 1..0) = 0
      BY <2>1, SumEmpty
    <2>3. SumFunctionOnSet(h, 1..m) = SumFunctionOnSet(f, 1..m)
      BY <1>1, SumAgree
    <2> QED
      BY <1>2, <2>1, <2>2, <2>3
  <1>4. ASSUME NEW j \in T PROVE j + 1 \in T
    <2> SUFFICES ASSUME j + 1 <= n
                 PROVE  SumFunctionOnSet(h, 1..(m + (j + 1))) =
                            SumFunctionOnSet(f, 1..m) + SumFunctionOnSet(e, 1..(j + 1))
      OBVIOUS
    <2>1. j \in Nat /\ j <= n /\ SumFunctionOnSet(h, 1..(m + j)) =
              SumFunctionOnSet(f, 1..m) + SumFunctionOnSet(e, 1..j)
      OBVIOUS
    <2>2. Summable(e, 1..(j + 1))
      BY <2>1 DEF Summable
    <2>3. Summable(h, 1..((m + j) + 1))
      <3> SUFFICES ASSUME NEW i \in 1..((m + j) + 1) PROVE h[i] \in Int
        BY DEF Summable
      <3>1. CASE i <= m
        BY <1>1, <3>1
      <3>2. CASE i > m
        <4>1. i - m \in 1..n /\ i = m + (i - m)
          BY <2>1, <3>2
        <4>2. e[i - m] \in Int
          BY <4>1 DEF Summable
        <4>3. h[m + (i - m)] = e[i - m]
          BY <4>1
        <4> QED
          BY <4>1, <4>2, <4>3
      <3> QED
        BY <3>1, <3>2
    <2>4. SumFunctionOnSet(e, 1..(j + 1)) = SumFunctionOnSet(e, 1..j) + e[j + 1]
      BY <2>1, <2>2, RangeSum
    <2>5. SumFunctionOnSet(h, 1..((m + j) + 1)) = SumFunctionOnSet(h, 1..(m + j)) + h[(m + j) + 1]
      <3>1. m + j \in Nat
        BY <2>1
      <3> QED
        BY <2>3, <3>1, RangeSum
    <2>6. h[(m + j) + 1] = e[j + 1] /\ e[j + 1] \in Int
      <3>1. j + 1 \in 1..n /\ (m + j) + 1 = m + (j + 1)
        BY <2>1
      <3>2. h[m + (j + 1)] = e[j + 1]
        BY <3>1
      <3> QED
        BY <3>1, <3>2 DEF Summable
    <2>7. SumFunctionOnSet(e, 1..j) \in Int
      <3>1. IsFiniteSet(1..j) /\ \A i \in 1..j : e[i] \in Int
        BY <2>1, FS_Interval DEF Summable
      <3> QED
        BY <3>1, SumInt
    <2>8. (m + j) + 1 = m + (j + 1)
      BY <2>1
    <2> QED
      BY <1>2, <2>1, <2>4, <2>5, <2>6, <2>7, <2>8
  <1>5. T = Nat
    <2>1. T \in SUBSET Nat
      OBVIOUS
    <2> HIDE DEF T
    <2> QED
      BY <1>3, <1>4, <2>1, NatSetInduction
  <1> QED
    BY <1>5

\* The lists of FlattenSeq, one for every number of pieces.
Flattens(f, n, g) == g = [i \in 1..n |-> IF i = 1 THEN f[i] ELSE g[i - 1] \o f[i]]

\* There is such a list of lists.
LEMMA FlattensExists ==
    ASSUME NEW f, NEW n \in Nat
    PROVE  \E g : Flattens(f, n, g)
  <1> DEFINE T == {k \in Nat : \E g : Flattens(f, k, g)}
  <1>1. 0 \in T
    <2>1. Flattens(f, 0, [i \in 1..0 |-> 0])
      BY DEF Flattens
    <2> QED
      BY <2>1
  <1>2. ASSUME NEW k \in T PROVE k + 1 \in T
    <2>1. PICK g : Flattens(f, k, g)
      OBVIOUS
    <2>2. k \in Nat
      OBVIOUS
    <2> DEFINE h == [i \in 1..(k + 1) |-> IF i = 1 THEN f[i] ELSE g[i - 1] \o f[i]]
    <2>3. \A i \in 1..k : h[i] = g[i]
      <3>1. \A i \in 1..k : g[i] = IF i = 1 THEN f[i] ELSE g[i - 1] \o f[i]
        BY <2>1 DEF Flattens
      <3>2. \A i \in 1..k : i \in 1..(k + 1)
        BY <2>2
      <3> QED
        BY <3>1, <3>2
    <2>4. \A i \in 1..(k + 1) : i = 1 \/ i - 1 \in 1..k
      BY <2>2
    <2>5. h = [i \in 1..(k + 1) |-> IF i = 1 THEN f[i] ELSE h[i - 1] \o f[i]]
      <3>1. \A i \in 1..(k + 1) : i # 1 => h[i - 1] = g[i - 1]
        BY <2>3, <2>4
      <3> QED
        BY <3>1
    <2>6. Flattens(f, k + 1, h)
      BY <2>5 DEF Flattens
    <2> QED
      BY <2>2, <2>6
  <1>3. T = Nat
    <2>1. T \in SUBSET Nat
      OBVIOUS
    <2> HIDE DEF T
    <2> QED
      BY <1>1, <1>2, <2>1, NatSetInduction
  <1> QED
    BY <1>3
=============================================================================
