----------------------------- MODULE DataLemmas ------------------------------
(***************************************************************************)
(* Facts about the data that the models are built from: induction over     *)
(* numbers and over finite sets, in the form of statements about sets; the *)
(* community modules' sums over finite sets; the operators of Lists, that  *)
(* is, the members of the sequences that pushing, popping and retaining    *)
(* build; and the ways up in a tree.                                       *)
(***************************************************************************)
EXTENDS Lists, Ancestry, Integers, Functions, FunctionTheorems, FiniteSetTheorems,
        SequenceTheorems, WellFoundedInduction, TLAPS

-----------------------------------------------------------------------------
(* Induction. *)

(* The proper subsets of a finite set are a well-founded order. *)
LEMMA SubsetsWellFounded ==
  ASSUME NEW S, IsFiniteSet(S)
  PROVE  IsWellFoundedOn(StrictSubsetOrdering(S), SUBSET S)
<1>1. FiniteSubsetsOf(S) = SUBSET S
  BY FS_FiniteSubsetsOfFinite
<1> QED BY <1>1, FS_StrictSubsetOrderingWellFounded

(* Induction over the subsets of a finite set. *)
LEMMA SetInduction ==
  ASSUME NEW S, IsFiniteSet(S), NEW F \in SUBSET SUBSET S, {} \in F,
         \A T \in F : \A x \in S \ T : T \cup {x} \in F
  PROVE  S \in F
<1> DEFINE G == (SUBSET S) \ F
<1> SUFFICES ASSUME G # {} PROVE FALSE
  OBVIOUS
<1>1. IsWellFoundedOn(StrictSubsetOrdering(S), SUBSET S)
  BY SubsetsWellFounded
<1>2. G \subseteq SUBSET S
  OBVIOUS
<1>3. \E M \in G : \A N \in G : ~(<<N, M>> \in StrictSubsetOrdering(S))
  <2> HIDE DEF G
  <2> QED BY <1>1, <1>2, WFMin
<1>4. PICK M \in G : \A N \in G : ~(<<N, M>> \in StrictSubsetOrdering(S))
  BY <1>3
<1>5. PICK x \in M : TRUE
  BY <1>4
<1>6. M \ {x} \in SUBSET S /\ M \ {x} # M
  BY <1>4, <1>5
<1>7. <<M \ {x}, M>> \in StrictSubsetOrdering(S)
  BY <1>4, <1>6 DEF StrictSubsetOrdering
<1>8. M \ {x} \in F
  BY <1>4, <1>6, <1>7
<1>9. M \in F
  <2>1. (M \ {x}) \cup {x} = M /\ x \in S \ (M \ {x})
    BY <1>4, <1>5
  <2> QED BY <2>1, <1>8
<1> QED BY <1>4, <1>9

(* Induction over the natural numbers, of a set. *)
LEMMA NatSetInduction ==
  ASSUME NEW F \in SUBSET Nat, 0 \in F, \A n \in F : n + 1 \in F
  PROVE  F = Nat
<1> DEFINE G == Nat \ F
<1> SUFFICES ASSUME G # {} PROVE FALSE
  OBVIOUS
<1>1. G \subseteq Nat
  OBVIOUS
<1>2. PICK n \in G : \A m \in G : ~(<<m, n>> \in OpToRel(<, Nat))
  <2> HIDE DEF G
  <2> QED BY <1>1, WFMin, NatLessThanWellFounded
<1> n \in Nat /\ n \notin F
  BY <1>2
<1>3. n # 0 /\ n - 1 \in Nat /\ n - 1 < n
  OBVIOUS
<1>4. <<n - 1, n>> \in OpToRel(<, Nat)
  BY <1>2, <1>3 DEF OpToRel
<1>5. n - 1 \in F
  BY <1>2, <1>3, <1>4
<1>6. (n - 1) + 1 = n
  OBVIOUS
<1> QED BY <1>2, <1>5, <1>6

SumStep(f, g, s) ==
  IF s = {} THEN 0 ELSE f[CHOOSE x \in s : TRUE] + g[s \ {CHOOSE x \in s : TRUE}]

LEMMA SumUnfolds ==
  ASSUME NEW f, NEW S, IsFiniteSet(S)
  PROVE  \E g : /\ g = [s \in SUBSET S |-> SumStep(f, g, s)]
                /\ SumFunctionOnSet(f, S) = g[S]
<1> DEFINE D(k) == {s \in SUBSET S : Cardinality(s) <= k}
           F == {k \in Nat : \E g : g = [s \in D(k) |-> SumStep(f, g, s)]}
<1>1. 0 \in F
  <2>1. \A s \in D(0) : s = {}
    BY FS_Subset, FS_EmptySet, FS_CardinalityType
  <2>2. [s \in D(0) |-> 0] = [s \in D(0) |-> SumStep(f, [t \in D(0) |-> 0], s)]
    BY <2>1 DEF SumStep
  <2> QED BY <2>2
<1>2. ASSUME NEW k \in F PROVE k + 1 \in F
  <2>1. PICK g : g = [s \in D(k) |-> SumStep(f, g, s)]
    BY <1>2
  <2> DEFINE h == [s \in D(k + 1) |-> SumStep(f, g, s)]
  <2>2. \A s \in D(k) : h[s] = g[s]
    <3>1. \A s \in D(k) : s \in D(k + 1)
      BY FS_Subset, FS_CardinalityType
    <3> QED BY <3>1, <2>1
  <2>3. ASSUME NEW s \in D(k + 1) PROVE SumStep(f, g, s) = SumStep(f, h, s)
    <3>1. CASE s = {}
      BY <3>1 DEF SumStep
    <3>2. CASE s # {}
      <4> DEFINE x == CHOOSE x \in s : TRUE
      <4>1. x \in s
        BY <3>2
      <4>2. IsFiniteSet(s) /\ Cardinality(s) \in Nat
        BY FS_Subset, FS_CardinalityType
      <4>3. s \ {x} \in D(k)
        <5>1. Cardinality(s \ {x}) = Cardinality(s) - 1
          BY <4>1, <4>2, FS_RemoveElement
        <5>2. k \in Nat /\ Cardinality(s) <= k + 1 /\ s \ {x} \in SUBSET S
          OBVIOUS
        <5> HIDE DEF x
        <5> QED BY <4>2, <5>1, <5>2
      <4>4. h[s \ {x}] = g[s \ {x}]
        BY <4>3, <2>2
      <4> HIDE DEF h
      <4> QED BY <3>2, <4>4 DEF SumStep
    <3> QED BY <3>1, <3>2
  <2>4. h = [s \in D(k + 1) |-> SumStep(f, h, s)]
    <3>1. h = [s \in D(k + 1) |-> SumStep(f, g, s)]
      OBVIOUS
    <3> HIDE DEF h
    <3> QED BY <3>1, <2>3
  <2>5. k + 1 \in Nat
    OBVIOUS
  <2>6. \E gg : gg = [s \in D(k + 1) |-> SumStep(f, gg, s)]
    <3> HIDE DEF h
    <3> QED BY <2>4
  <2> HIDE DEF D
  <2> QED BY <2>5, <2>6
<1>3. F = Nat
  <2> HIDE DEF F
  <2>1. F \in SUBSET Nat
    BY DEF F
  <2> QED BY <1>1, <1>2, <2>1, NatSetInduction
<1>4. \E g : g = [s \in SUBSET S |-> SumStep(f, g, s)]
  <2>1. Cardinality(S) \in Nat
    BY FS_CardinalityType
  <2>2. D(Cardinality(S)) = SUBSET S
    BY FS_Subset
  <2>3. Cardinality(S) \in F
    BY <2>1, <1>3
  <2> QED BY <2>2, <2>3
<1> DEFINE iter == CHOOSE g : g = [s \in SUBSET S |-> SumStep(f, g, s)]
<1>5. SumFunctionOnSet(f, S) = iter[S]
  BY DEF SumFunctionOnSet, FoldFunctionOnSet, MapThenFoldSet, SumStep
<1>6. iter = [s \in SUBSET S |-> SumStep(f, iter, s)]
  BY <1>4
<1> HIDE DEF iter
<1> QED BY <1>5, <1>6

(* Every set that holds all proper subsets of a member holds that member.  *)
LEMMA SubsetInduction ==
  ASSUME NEW S, IsFiniteSet(S), NEW F,
         \A T \in SUBSET S : (\A U \in (SUBSET T) \ {T} : U \in F) => T \in F
  PROVE  \A T \in SUBSET S : T \in F
<1> DEFINE G == (SUBSET S) \ F
<1> SUFFICES ASSUME G # {} PROVE FALSE
  OBVIOUS
<1>1. IsWellFoundedOn(StrictSubsetOrdering(S), SUBSET S)
  BY SubsetsWellFounded
<1>2. PICK M \in G : \A N \in G : ~(<<N, M>> \in StrictSubsetOrdering(S))
  <2>1. G \subseteq SUBSET S
    OBVIOUS
  <2> HIDE DEF G
  <2> QED BY <1>1, <2>1, WFMin
<1>3. M \in SUBSET S /\ M \notin F
  BY <1>2
<1>4. PICK U \in (SUBSET M) \ {M} : U \notin F
  BY <1>3
<1>5. U \in G
  BY <1>3, <1>4
<1>6. <<U, M>> \in StrictSubsetOrdering(S)
  BY <1>3, <1>4 DEF StrictSubsetOrdering
<1> QED BY <1>2, <1>5, <1>6

LEMMA FiniteInductive ==
  ASSUME NEW S, IsFiniteSet(S)
  PROVE  \A F : (\A T \in SUBSET S : (\A U \in (SUBSET T) \ {T} : U \in F) => T \in F)
                  => \A T \in SUBSET S : T \in F
BY SubsetInduction

(* A non-empty set of numbers has a least member. *)
LEMMA LeastOf ==
  ASSUME NEW G \in SUBSET Nat, G # {}
  PROVE  \E n \in G : \A m \in G : n <= m
<1>1. PICK n \in G : \A m \in G : ~(<<m, n>> \in OpToRel(<, Nat))
  BY WFMin, NatLessThanWellFounded
<1>2. ASSUME NEW m \in G PROVE n <= m
  <2>1. m \in Nat /\ n \in Nat
    OBVIOUS
  <2>2. ~(m < n)
    BY <1>1, <2>1 DEF OpToRel
  <2> QED BY <2>1, <2>2
<1> QED BY <1>2

-----------------------------------------------------------------------------
(* Sums. *)

LEMMA SumOfSubset ==
  ASSUME NEW f, NEW S, IsFiniteSet(S), NEW g,
         g = [s \in SUBSET S |-> SumStep(f, g, s)], NEW T \in SUBSET S
  PROVE  SumFunctionOnSet(f, T) = g[T]
<1>1. IsFiniteSet(T)
  BY FS_Subset
<1>2. PICK h : /\ h = [s \in SUBSET T |-> SumStep(f, h, s)]
               /\ SumFunctionOnSet(f, T) = h[T]
  BY <1>1, SumUnfolds
<1> DEFINE F == {U \in SUBSET T : h[U] = g[U]}
<1>3. ASSUME NEW U \in SUBSET T, \A V \in (SUBSET U) \ {U} : V \in F
      PROVE  U \in F
  <2>1. h[U] = SumStep(f, h, U) /\ g[U] = SumStep(f, g, U)
    BY <1>2
  <2>2. CASE U = {}
    BY <2>1, <2>2 DEF SumStep
  <2>3. CASE U # {}
    <3> DEFINE x == CHOOSE x \in U : TRUE
    <3>1. x \in U
      BY <2>3
    <3>2. U \ {x} \in (SUBSET U) \ {U}
      BY <3>1
    <3>3. h[U \ {x}] = g[U \ {x}]
      BY <3>2, <1>3
    <3> QED BY <2>1, <2>3, <3>3 DEF SumStep
  <2> QED BY <2>2, <2>3
<1>4. T \in F
  <2> HIDE DEF F
  <2> QED BY <1>1, <1>3, SubsetInduction
<1> QED BY <1>2, <1>4

LEMMA SumEmpty ==
  ASSUME NEW f
  PROVE  SumFunctionOnSet(f, {}) = 0
<1>1. PICK g : g = [s \in SUBSET {} |-> SumStep(f, g, s)] /\ SumFunctionOnSet(f, {}) = g[{}]
  BY SumUnfolds, FS_EmptySet
<1> QED BY <1>1 DEF SumStep

LEMMA SumType ==
  ASSUME NEW f, NEW S, IsFiniteSet(S), \A x \in S : f[x] \in Int
  PROVE  SumFunctionOnSet(f, S) \in Int
<1>1. PICK g : g = [s \in SUBSET S |-> SumStep(f, g, s)] /\ SumFunctionOnSet(f, S) = g[S]
  BY SumUnfolds
<1> DEFINE F == {U \in SUBSET S : g[U] \in Int}
<1>2. ASSUME NEW U \in SUBSET S, \A V \in (SUBSET U) \ {U} : V \in F
      PROVE  U \in F
  <2>1. g[U] = SumStep(f, g, U)
    BY <1>1
  <2>2. CASE U = {}
    BY <2>1, <2>2 DEF SumStep
  <2>3. CASE U # {}
    <3> DEFINE x == CHOOSE x \in U : TRUE
    <3>1. x \in U
      BY <2>3
    <3>2. U \ {x} \in (SUBSET U) \ {U}
      BY <3>1
    <3>3. g[U \ {x}] \in Int /\ f[x] \in Int
      BY <3>1, <3>2, <1>2
    <3>4. g[U] = f[x] + g[U \ {x}]
      BY <2>1, <2>3 DEF SumStep
    <3> HIDE DEF x
    <3> QED BY <3>3, <3>4
  <2> QED BY <2>2, <2>3
<1>3. S \in F
  <2> HIDE DEF F
  <2> QED BY <1>2, SubsetInduction
<1> QED BY <1>1, <1>3

(* The sum does not depend on the order in which members are taken. *)
LEMMA SumRemove ==
  ASSUME NEW f, NEW S, IsFiniteSet(S), \A x \in S : f[x] \in Int, NEW y \in S
  PROVE  SumFunctionOnSet(f, S) = f[y] + SumFunctionOnSet(f, S \ {y})
<1>1. PICK g : g = [s \in SUBSET S |-> SumStep(f, g, s)] /\ SumFunctionOnSet(f, S) = g[S]
  BY SumUnfolds
<1>2. ASSUME NEW T \in SUBSET S PROVE g[T] = SumFunctionOnSet(f, T) /\ g[T] \in Int
  <2>1. g[T] = SumFunctionOnSet(f, T)
    <3>1. g = [s \in SUBSET S |-> SumStep(f, g, s)]
      BY <1>1
    <3> QED BY <3>1, SumOfSubset
  <2>2. IsFiniteSet(T) /\ \A x \in T : f[x] \in Int
    BY FS_Subset
  <2> QED BY <2>1, <2>2, SumType
<1> DEFINE F == {U \in SUBSET S : \A x \in U : g[U] = f[x] + g[U \ {x}]}
<1>3. ASSUME NEW U \in SUBSET S, \A V \in (SUBSET U) \ {U} : V \in F
      PROVE  U \in F
  <2> SUFFICES ASSUME NEW x \in U PROVE g[U] = f[x] + g[U \ {x}]
    OBVIOUS
  <2> DEFINE c == CHOOSE z \in U : TRUE
  <2>1. c \in U
    OBVIOUS
  <2>2. g[U] = f[c] + g[U \ {c}]
    BY <1>1 DEF SumStep
  <2> HIDE DEF c
  <2>3. CASE c = x
    BY <2>2, <2>3
  <2>4. CASE c # x
    <3>1. U \ {c} \in F /\ U \ {x} \in F /\ x \in U \ {c} /\ c \in U \ {x}
      BY <2>1, <2>4, <1>3
    <3>2. g[U \ {c}] = f[x] + g[(U \ {c}) \ {x}]
      BY <3>1
    <3>3. g[U \ {x}] = f[c] + g[(U \ {x}) \ {c}]
      BY <3>1
    <3>4. (U \ {x}) \ {c} = (U \ {c}) \ {x}
      OBVIOUS
    <3>5. g[(U \ {c}) \ {x}] \in Int /\ f[x] \in Int /\ f[c] \in Int
      BY <1>2, <2>1
    <3>6. g[U \ {x}] = f[c] + g[(U \ {c}) \ {x}]
      BY <3>3, <3>4
    <3> DEFINE rest == g[(U \ {c}) \ {x}]
    <3>7. /\ g[U] = f[c] + (f[x] + rest) /\ g[U \ {x}] = f[c] + rest
          /\ rest \in Int /\ f[x] \in Int /\ f[c] \in Int
      BY <2>2, <3>2, <3>5, <3>6
    <3> HIDE DEF rest
    <3> QED BY <3>7
  <2> QED BY <2>3, <2>4
<1>4. S \in F
  <2> HIDE DEF F
  <2> QED BY <1>3, SubsetInduction
<1>5. g[S] = f[y] + g[S \ {y}]
  BY <1>4
<1> QED BY <1>1, <1>2, <1>5

LEMMA SumAdd ==
  ASSUME NEW f, NEW S, IsFiniteSet(S), NEW y, y \notin S,
         \A x \in S \cup {y} : f[x] \in Int
  PROVE  SumFunctionOnSet(f, S \cup {y}) = f[y] + SumFunctionOnSet(f, S)
<1>1. IsFiniteSet(S \cup {y})
  BY FS_AddElement
<1>2. (S \cup {y}) \ {y} = S
  OBVIOUS
<1> QED BY <1>1, <1>2, SumRemove

(* Only the values of the members count. *)
LEMMA SumSame ==
  ASSUME NEW f, NEW g, NEW S, IsFiniteSet(S), \A x \in S : f[x] \in Int /\ g[x] = f[x]
  PROVE  SumFunctionOnSet(g, S) = SumFunctionOnSet(f, S)
<1> DEFINE F == {U \in SUBSET S : SumFunctionOnSet(g, U) = SumFunctionOnSet(f, U)}
<1>1. {} \in F
  BY SumEmpty
<1>2. ASSUME NEW T \in F, NEW x \in S \ T PROVE T \cup {x} \in F
  <2>1. IsFiniteSet(T)
    BY FS_Subset
  <2>2. SumFunctionOnSet(f, T \cup {x}) = f[x] + SumFunctionOnSet(f, T)
    BY <2>1, SumAdd
  <2>3. SumFunctionOnSet(g, T \cup {x}) = g[x] + SumFunctionOnSet(g, T)
    BY <2>1, SumAdd
  <2> QED BY <2>2, <2>3
<1>3. S \in F
  <2> HIDE DEF F
  <2>1. F \in SUBSET SUBSET S
    BY DEF F
  <2> QED BY <1>1, <1>2, <2>1, SetInduction
<1> QED BY <1>3

LEMMA SumUnion ==
  ASSUME NEW f, NEW A, NEW B, IsFiniteSet(A), IsFiniteSet(B), A \cap B = {},
         \A x \in A \cup B : f[x] \in Int
  PROVE  SumFunctionOnSet(f, A \cup B) = SumFunctionOnSet(f, A) + SumFunctionOnSet(f, B)
<1> DEFINE F == {U \in SUBSET B : SumFunctionOnSet(f, A \cup U) = SumFunctionOnSet(f, A) + SumFunctionOnSet(f, U)}
<1>1. {} \in F
  <2>1. SumFunctionOnSet(f, A) \in Int /\ A \cup {} = A
    BY SumType
  <2> QED BY <2>1, SumEmpty
<1>2. ASSUME NEW T \in F, NEW x \in B \ T PROVE T \cup {x} \in F
  <2>1. IsFiniteSet(T) /\ IsFiniteSet(A \cup T)
    BY FS_Subset, FS_Union
  <2>2. SumFunctionOnSet(f, T \cup {x}) = f[x] + SumFunctionOnSet(f, T)
    BY <2>1, SumAdd
  <2>3. SumFunctionOnSet(f, (A \cup T) \cup {x}) = f[x] + SumFunctionOnSet(f, A \cup T)
    BY <2>1, SumAdd
  <2>4. (A \cup T) \cup {x} = A \cup (T \cup {x})
    OBVIOUS
  <2>5. SumFunctionOnSet(f, A) \in Int /\ SumFunctionOnSet(f, T) \in Int /\ f[x] \in Int
    BY <2>1, SumType
  <2>6. SumFunctionOnSet(f, A \cup T) = SumFunctionOnSet(f, A) + SumFunctionOnSet(f, T)
    OBVIOUS
  <2>7. SumFunctionOnSet(f, A \cup (T \cup {x})) = SumFunctionOnSet(f, A) + SumFunctionOnSet(f, T \cup {x})
    <3>1. SumFunctionOnSet(f, A \cup (T \cup {x})) = f[x] + (SumFunctionOnSet(f, A) + SumFunctionOnSet(f, T))
      BY <2>3, <2>4, <2>6
    <3>2. ASSUME NEW p \in Int, NEW q \in Int, NEW r \in Int
          PROVE  r + (p + q) = p + (r + q)
      OBVIOUS
    <3> QED BY <2>2, <2>5, <3>1, <3>2
  <2> QED BY <2>7
<1>3. B \in F
  <2> HIDE DEF F
  <2>1. F \in SUBSET SUBSET B
    BY DEF F
  <2> QED BY <1>1, <1>2, <2>1, SetInduction
<1> QED BY <1>3

LEMMA SumZero ==
  ASSUME NEW f, NEW S, IsFiniteSet(S), \A x \in S : f[x] = 0
  PROVE  SumFunctionOnSet(f, S) = 0
<1> DEFINE F == {U \in SUBSET S : SumFunctionOnSet(f, U) = 0}
<1>1. {} \in F
  BY SumEmpty
<1>2. ASSUME NEW T \in F, NEW x \in S \ T PROVE T \cup {x} \in F
  <2>1. IsFiniteSet(T)
    BY FS_Subset
  <2>2. SumFunctionOnSet(f, T \cup {x}) = f[x] + SumFunctionOnSet(f, T)
    BY <2>1, SumAdd
  <2> QED BY <2>2
<1>3. S \in F
  <2> HIDE DEF F
  <2>1. F \in SUBSET SUBSET S
    BY DEF F
  <2> QED BY <1>1, <1>2, <2>1, SetInduction
<1> QED BY <1>3

LEMMA SumNat ==
  ASSUME NEW f, NEW S, IsFiniteSet(S), \A x \in S : f[x] \in Nat
  PROVE  SumFunctionOnSet(f, S) \in Nat /\ \A y \in S : f[y] <= SumFunctionOnSet(f, S)
<1> DEFINE F == {U \in SUBSET S : SumFunctionOnSet(f, U) \in Nat}
<1>1. {} \in F
  BY SumEmpty
<1>2. ASSUME NEW T \in F, NEW x \in S \ T PROVE T \cup {x} \in F
  <2>1. IsFiniteSet(T)
    BY FS_Subset
  <2>2. SumFunctionOnSet(f, T \cup {x}) = f[x] + SumFunctionOnSet(f, T)
    BY <2>1, SumAdd
  <2>3. SumFunctionOnSet(f, T) \in Nat /\ f[x] \in Nat
    OBVIOUS
  <2> QED BY <2>2, <2>3
<1>3. ASSUME NEW T \in SUBSET S PROVE SumFunctionOnSet(f, T) \in Nat
  <2> DEFINE G == F \cap SUBSET T
  <2>1. {} \in G
    BY <1>1
  <2>2. ASSUME NEW U \in G, NEW x \in T \ U PROVE U \cup {x} \in G
    BY <1>2
  <2>3. T \in G
    <3> HIDE DEF F
    <3>1. G \in SUBSET SUBSET T /\ IsFiniteSet(T)
      BY FS_Subset
    <3> HIDE DEF G
    <3> QED BY <2>1, <2>2, <3>1, SetInduction
  <2> QED BY <2>3
<1>4. ASSUME NEW y \in S PROVE f[y] <= SumFunctionOnSet(f, S)
  <2>1. SumFunctionOnSet(f, S) = f[y] + SumFunctionOnSet(f, S \ {y})
    BY SumRemove
  <2>2. SumFunctionOnSet(f, S \ {y}) \in Nat /\ f[y] \in Nat
    BY <1>3
  <2> QED BY <2>1, <2>2
<1> QED BY <1>3, <1>4

(* One value changes by k. *)
LEMMA SumChange ==
  ASSUME NEW f, NEW g, NEW S, IsFiniteSet(S), \A x \in S : f[x] \in Int,
         NEW y \in S, NEW k \in Int, g[y] = f[y] + k, \A x \in S \ {y} : g[x] = f[x]
  PROVE  SumFunctionOnSet(g, S) = SumFunctionOnSet(f, S) + k
<1>1. IsFiniteSet(S \ {y})
  BY FS_RemoveElement
<1>2. SumFunctionOnSet(f, S) = f[y] + SumFunctionOnSet(f, S \ {y})
  BY SumRemove
<1>3. SumFunctionOnSet(g, S) = g[y] + SumFunctionOnSet(g, S \ {y})
  <2>1. \A x \in S : g[x] \in Int
    OBVIOUS
  <2> QED BY <2>1, SumRemove
<1>4. SumFunctionOnSet(g, S \ {y}) = SumFunctionOnSet(f, S \ {y})
  BY <1>1, SumSame
<1>5. SumFunctionOnSet(f, S \ {y}) \in Int /\ f[y] \in Int
  BY <1>1, SumType
<1> QED BY <1>2, <1>3, <1>4, <1>5

-----------------------------------------------------------------------------
(* Lists. *)

(* The positions of a sequence, and any part of them, are finite. *)
LEMMA FinitePart ==
  ASSUME NEW n \in Nat, NEW K \in SUBSET (1 .. n)
  PROVE  IsFiniteSet(K) /\ Cardinality(K) \in Nat
<1>1. IsFiniteSet(1 .. n)
  BY FS_Interval
<1>2. IsFiniteSet(K)
  BY <1>1, FS_Subset
<1> QED
  BY <1>2, FS_CardinalityType

(* A rank lies between 1 and the size of the set. *)
LEMMA RankRange ==
  ASSUME NEW n \in Nat, NEW K \in SUBSET (1 .. n), NEW k \in K
  PROVE  RankIn(K, k) \in 1 .. Cardinality(K)
<1> DEFINE L == {j \in K : j <= k}
<1>1. IsFiniteSet(K) /\ Cardinality(K) \in Nat
  BY FinitePart
<1>2. L \in SUBSET K /\ L \in SUBSET (1 .. n) /\ k \in L
  <2>1. k \in Nat /\ k <= k
    OBVIOUS
  <2> QED
    BY <2>1
<1>3. IsFiniteSet(L) /\ Cardinality(L) \in Nat
  BY <1>2, FinitePart
<1>4. Cardinality(L) <= Cardinality(K)
  BY <1>1, <1>2, FS_Subset
<1>5. Cardinality(L) # 0
  BY <1>2, <1>3, FS_EmptySet
<1> QED
  BY <1>1, <1>3, <1>4, <1>5 DEF RankIn

(* A larger member has a larger rank. *)
LEMMA RankMonotonic ==
  ASSUME NEW n \in Nat, NEW K \in SUBSET (1 .. n), NEW j \in K, NEW k \in K, j < k
  PROVE  RankIn(K, j) < RankIn(K, k)
<1> DEFINE J == {x \in K : x <= j}
           L == {x \in K : x <= k}
<1>1. J \in SUBSET L /\ k \in L /\ k \notin J /\ L \in SUBSET (1 .. n)
  <2>1. j \in Nat /\ k \in Nat /\ k <= k /\ ~(k <= j)
    OBVIOUS
  <2>2. \A x \in K : x \in Nat /\ (x <= j => x <= k)
    OBVIOUS
  <2> QED
    BY <2>1, <2>2
<1>2. IsFiniteSet(L) /\ Cardinality(L) \in Nat
  BY <1>1, FinitePart
<1>3. IsFiniteSet(J) /\ Cardinality(J) \in Nat
  BY <1>1, FinitePart
<1>4. Cardinality(J) <= Cardinality(L) /\ Cardinality(J) # Cardinality(L)
  BY <1>1, <1>2, FS_Subset
<1> QED
  BY <1>2, <1>3, <1>4 DEF RankIn

(* Two members never share a rank. *)
LEMMA RankInjective ==
  ASSUME NEW n \in Nat, NEW K \in SUBSET (1 .. n), NEW j \in K, NEW k \in K,
         RankIn(K, j) = RankIn(K, k)
  PROVE  j = k
<1>1. RankIn(K, j) \in Nat
  <2>1. RankIn(K, j) \in 1 .. Cardinality(K)
    BY RankRange
  <2> QED
    BY <2>1
<1>2. j \in Nat /\ k \in Nat
  OBVIOUS
<1>3. ASSUME j < k PROVE FALSE
  <2>1. RankIn(K, j) < RankIn(K, k)
    BY <1>3, RankMonotonic
  <2> QED
    BY <1>1, <2>1
<1>4. ASSUME k < j PROVE FALSE
  <2>1. RankIn(K, k) < RankIn(K, j)
    BY <1>4, RankMonotonic
  <2> QED
    BY <1>1, <2>1
<1> QED
  BY <1>2, <1>3, <1>4

(* Every number up to the size of the set is the rank of a member. *)
LEMMA RankSurjective ==
  ASSUME NEW n \in Nat, NEW K \in SUBSET (1 .. n), NEW r \in 1 .. Cardinality(K)
  PROVE  \E k \in K : RankIn(K, k) = r
<1> DEFINE R == 1 .. Cardinality(K)
           rank == [k \in K |-> RankIn(K, k)]
<1>1. IsFiniteSet(K) /\ Cardinality(K) \in Nat
  BY FinitePart
<1>2. rank \in [K -> R]
  BY RankRange
<1>3. rank \in Injection(K, R)
  <2>1. \A a, b \in K : rank[a] = rank[b] => a = b
    BY RankInjective
  <2> QED
    BY <1>2, <2>1, Fun_IsInj
<1>4. IsFiniteSet(R) /\ Cardinality(R) = Cardinality(K)
  BY <1>1, FS_Interval
<1>5. rank \in Surjection(K, R)
  BY <1>3, <1>4, FS_Injection
<1> HIDE DEF R, rank
<1>6. \A t \in R : \E k \in K : rank[k] = t
  BY <1>5, Fun_SurjectionProperties
<1> QED
  BY <1>6 DEF R, rank

(* Retain is a sequence of exactly the members of s that lie in X. *)
LEMMA RetainMembers ==
  ASSUME NEW S, NEW s \in Seq(S), NEW X
  PROVE  /\ Retain(s, X) \in Seq(S \cap X)
         /\ Elements(Retain(s, X)) = Elements(s) \cap X
<1> DEFINE K == {i \in DOMAIN s : s[i] \in X}
           c == Cardinality(K)
           at(n) == CHOOSE k \in K : RankIn(K, k) = n
<1>1. DOMAIN s = 1 .. Len(s) /\ Len(s) \in Nat /\ \A i \in 1 .. Len(s) : s[i] \in S
  BY LenProperties, ElementOfSeq
<1>2. K \in SUBSET (1 .. Len(s))
  BY <1>1
<1>3. c \in Nat
  BY <1>1, <1>2, FinitePart
<1>4. \A n \in 1 .. c : at(n) \in K /\ RankIn(K, at(n)) = n
  BY <1>1, <1>2, RankSurjective
<1>5. Retain(s, X) = [n \in 1 .. c |-> s[at(n)]]
  BY DEF Retain
<1>6. \A n \in 1 .. c : s[at(n)] \in S \cap X
  BY <1>1, <1>2, <1>4
<1> HIDE DEF c, at
<1>7. Retain(s, X) \in [1 .. c -> S \cap X]
  BY <1>5, <1>6
<1>8. Retain(s, X) \in Seq(S \cap X)
  BY <1>3, <1>7, SeqDef
<1>9. DOMAIN Retain(s, X) = 1 .. c
  BY <1>5
<1>10. ASSUME NEW x \in Elements(Retain(s, X))
       PROVE  x \in Elements(s) \cap X
  <2>1. PICK n \in 1 .. c : x = s[at(n)]
    BY <1>5, <1>9, <1>10 DEF Elements
  <2> QED
    BY <1>1, <1>2, <1>4, <1>6, <2>1 DEF Elements
<1>11. ASSUME NEW x \in Elements(s) \cap X
       PROVE  x \in Elements(Retain(s, X))
  <2>1. PICK k \in K : x = s[k]
    BY <1>11 DEF Elements
  <2> DEFINE n == RankIn(K, k)
  <2>2. n \in 1 .. c
    BY <1>1, <1>2, RankRange DEF c
  <2>3. at(n) = k
    BY <1>1, <1>2, <1>4, <2>2, RankInjective
  <2>4. Retain(s, X)[n] = x
    BY <1>5, <2>1, <2>2, <2>3
  <2> QED
    BY <1>9, <2>2, <2>4 DEF Elements
<1> QED
  BY <1>8, <1>10, <1>11

(* Retain does not create a second copy of anything. *)
LEMMA RetainDistinct ==
  ASSUME NEW S, NEW s \in Seq(S), NEW X, Distinct(s)
  PROVE  Distinct(Retain(s, X))
<1> DEFINE K == {i \in DOMAIN s : s[i] \in X}
           c == Cardinality(K)
           at(n) == CHOOSE k \in K : RankIn(K, k) = n
<1>1. DOMAIN s = 1 .. Len(s) /\ Len(s) \in Nat
  BY LenProperties
<1>2. K \in SUBSET (1 .. Len(s))
  BY <1>1
<1>3. \A n \in 1 .. c : at(n) \in K /\ RankIn(K, at(n)) = n
  BY <1>1, <1>2, RankSurjective
<1>4. Retain(s, X) = [n \in 1 .. c |-> s[at(n)]]
  BY DEF Retain
<1> HIDE DEF c, at
<1>5. SUFFICES ASSUME NEW a \in 1 .. c, NEW b \in 1 .. c, s[at(a)] = s[at(b)]
               PROVE  a = b
  BY <1>4 DEF Distinct
<1>6. at(a) = at(b)
  BY <1>3, <1>5 DEF Distinct
<1> QED
  BY <1>3, <1>6

(* What pushing, taking the first and taking the last member do to the     *)
(* members of a sequence.                                                  *)
LEMMA ConcatMembers ==
  ASSUME NEW S, NEW s \in Seq(S), NEW t \in Seq(S)
  PROVE  /\ s \o t \in Seq(S)
         /\ Elements(s \o t) = Elements(s) \cup Elements(t)
<1>1. /\ s \o t \in Seq(S)
      /\ Len(s \o t) = Len(s) + Len(t)
      /\ \A i \in 1 .. Len(s) + Len(t) :
           (s \o t)[i] = IF i <= Len(s) THEN s[i] ELSE t[i - Len(s)]
  BY ConcatProperties
<1>2. /\ DOMAIN s = 1 .. Len(s) /\ Len(s) \in Nat
      /\ DOMAIN t = 1 .. Len(t) /\ Len(t) \in Nat
      /\ DOMAIN (s \o t) = 1 .. Len(s) + Len(t)
  BY <1>1, LenProperties
<1>3. ASSUME NEW i \in DOMAIN s
      PROVE  s[i] \in Elements(s \o t)
  <2>1. i \in 1 .. Len(s) + Len(t) /\ (s \o t)[i] = s[i]
    BY <1>1, <1>2
  <2> QED
    BY <1>2, <2>1 DEF Elements
<1>4. ASSUME NEW i \in DOMAIN t
      PROVE  t[i] \in Elements(s \o t)
  <2> DEFINE k == Len(s) + i
  <2>1. k \in 1 .. Len(s) + Len(t) /\ ~(k <= Len(s)) /\ k - Len(s) = i
    BY <1>2
  <2>2. (s \o t)[k] = t[i]
    BY <1>1, <2>1
  <2> QED
    BY <1>2, <2>1, <2>2 DEF Elements
<1>5. ASSUME NEW i \in 1 .. Len(s) + Len(t)
      PROVE  (s \o t)[i] \in Elements(s) \cup Elements(t)
  <2>1. CASE i <= Len(s)
    <3>1. i \in DOMAIN s /\ (s \o t)[i] = s[i]
      BY <1>1, <1>2, <2>1
    <3> QED
      BY <3>1 DEF Elements
  <2>2. CASE ~(i <= Len(s))
    <3>1. i - Len(s) \in DOMAIN t /\ (s \o t)[i] = t[i - Len(s)]
      BY <1>1, <1>2, <2>2
    <3> QED
      BY <3>1 DEF Elements
  <2> QED
    BY <2>1, <2>2
<1>6. Elements(s) \cup Elements(t) \subseteq Elements(s \o t)
  BY <1>3, <1>4 DEF Elements
<1>7. Elements(s \o t) \subseteq Elements(s) \cup Elements(t)
  BY <1>2, <1>5 DEF Elements
<1> QED
  BY <1>1, <1>6, <1>7

LEMMA ConcatDistinct ==
  ASSUME NEW S, NEW s \in Seq(S), NEW t \in Seq(S),
         Distinct(s), Distinct(t), Elements(s) \cap Elements(t) = {}
  PROVE  Distinct(s \o t)
<1>1. /\ Len(s \o t) = Len(s) + Len(t)
      /\ \A i \in 1 .. Len(s) + Len(t) :
           (s \o t)[i] = IF i <= Len(s) THEN s[i] ELSE t[i - Len(s)]
  BY ConcatProperties
<1>2. /\ DOMAIN s = 1 .. Len(s) /\ Len(s) \in Nat
      /\ DOMAIN t = 1 .. Len(t) /\ Len(t) \in Nat
      /\ DOMAIN (s \o t) = 1 .. Len(s) + Len(t)
  BY <1>1, ConcatProperties, LenProperties
<1>3. SUFFICES ASSUME NEW i \in 1 .. Len(s) + Len(t),
                      NEW j \in 1 .. Len(s) + Len(t),
                      (s \o t)[i] = (s \o t)[j]
               PROVE  i = j
  BY <1>2 DEF Distinct
<1>4. ASSUME NEW k \in 1 .. Len(s) + Len(t)
      PROVE  \/ k \in DOMAIN s /\ (s \o t)[k] = s[k] /\ (s \o t)[k] \in Elements(s)
             \/ /\ k - Len(s) \in DOMAIN t
                /\ (s \o t)[k] = t[k - Len(s)]
                /\ (s \o t)[k] \in Elements(t)
  <2>1. CASE k <= Len(s)
    <3>1. k \in DOMAIN s /\ (s \o t)[k] = s[k]
      BY <1>1, <1>2, <2>1
    <3> QED
      BY <3>1 DEF Elements
  <2>2. CASE ~(k <= Len(s))
    <3>1. k - Len(s) \in DOMAIN t /\ (s \o t)[k] = t[k - Len(s)]
      BY <1>1, <1>2, <2>2
    <3> QED
      BY <3>1 DEF Elements
  <2> QED
    BY <2>1, <2>2
<1>5. CASE i \in DOMAIN s /\ (s \o t)[i] = s[i] /\ (s \o t)[i] \in Elements(s)
  <2>1. j \in DOMAIN s /\ (s \o t)[j] = s[j]
    BY <1>3, <1>4, <1>5
  <2> QED
    BY <1>3, <1>5, <2>1 DEF Distinct
<1>6. CASE /\ i - Len(s) \in DOMAIN t
           /\ (s \o t)[i] = t[i - Len(s)]
           /\ (s \o t)[i] \in Elements(t)
  <2>1. j - Len(s) \in DOMAIN t /\ (s \o t)[j] = t[j - Len(s)]
    BY <1>3, <1>4, <1>6
  <2>2. i - Len(s) = j - Len(s)
    BY <1>3, <1>6, <2>1 DEF Distinct
  <2> QED
    BY <1>2, <2>2
<1> QED
  BY <1>4, <1>5, <1>6

LEMMA SingletonMembers ==
  ASSUME NEW S, NEW e \in S
  PROVE  <<e>> \in Seq(S) /\ Elements(<<e>>) = {e} /\ Distinct(<<e>>)
<1>1. <<e>> \in Seq(S) /\ Len(<<e>>) = 1 /\ <<e>>[1] = e
  OBVIOUS
<1>2. DOMAIN <<e>> = {1}
  OBVIOUS
<1> QED
  BY <1>1, <1>2 DEF Elements, Distinct

(* Taking the first member of a list without repetitions. *)
LEMMA HeadMembers ==
  ASSUME NEW S, NEW s \in Seq(S), s # <<>>, Distinct(s)
  PROVE  /\ Head(s) \in Elements(s)
         /\ Tail(s) \in Seq(S)
         /\ Elements(Tail(s)) = Elements(s) \ {Head(s)}
         /\ Distinct(Tail(s))
<1>1. /\ DOMAIN s = 1 .. Len(s) /\ Len(s) \in Nat \ {0}
      /\ Tail(s) \in Seq(S) /\ Len(Tail(s)) = Len(s) - 1
      /\ \A i \in 1 .. Len(Tail(s)) : Tail(s)[i] = s[i + 1]
      /\ Head(s) = s[1]
  BY LenProperties, EmptySeq, HeadTailProperties
<1>2. DOMAIN Tail(s) = 1 .. Len(s) - 1
  BY <1>1, LenProperties
<1>3. Head(s) \in Elements(s)
  BY <1>1 DEF Elements
<1>4. \A i \in DOMAIN Tail(s) : i + 1 \in DOMAIN s /\ Tail(s)[i] = s[i + 1] /\ i + 1 # 1
  BY <1>1, <1>2
<1>5. Distinct(Tail(s))
  <2>1. \A i, j \in DOMAIN Tail(s) : i + 1 = j + 1 => i = j
    BY <1>2
  <2> QED
    BY <1>4, <2>1 DEF Distinct
<1>6. Elements(Tail(s)) \subseteq Elements(s) \ {Head(s)}
  BY <1>1, <1>4 DEF Elements, Distinct
<1>7. ASSUME NEW k \in DOMAIN s, s[k] # Head(s)
      PROVE  s[k] \in Elements(Tail(s))
  <2>1. k - 1 \in DOMAIN Tail(s) /\ k - 1 + 1 = k
    BY <1>1, <1>2, <1>7
  <2>2. Tail(s)[k - 1] = s[k]
    BY <1>4, <2>1
  <2> QED
    BY <2>1, <2>2 DEF Elements
<1>8. Elements(s) \ {Head(s)} \subseteq Elements(Tail(s))
  BY <1>7 DEF Elements
<1> QED
  BY <1>1, <1>3, <1>5, <1>6, <1>8

(* Taking the last member of a list without repetitions. *)
LEMMA LastMembers ==
  ASSUME NEW S, NEW s \in Seq(S), s # <<>>, Distinct(s)
  PROVE  /\ s[Len(s)] \in Elements(s)
         /\ SubSeq(s, 1, Len(s) - 1) \in Seq(S)
         /\ Elements(SubSeq(s, 1, Len(s) - 1)) = Elements(s) \ {s[Len(s)]}
         /\ Distinct(SubSeq(s, 1, Len(s) - 1))
<1> DEFINE f == SubSeq(s, 1, Len(s) - 1)
<1>1. /\ DOMAIN s = 1 .. Len(s) /\ Len(s) \in Nat \ {0}
      /\ \A i \in 1 .. Len(s) : s[i] \in S
  BY LenProperties, EmptySeq, ElementOfSeq
<1>2. /\ f \in Seq(S) /\ Len(f) = Len(s) - 1
      /\ \A i \in 1 .. Len(s) - 1 : f[i] = s[i]
  <2>1. /\ 1 \in Int /\ Len(s) - 1 \in Int
        /\ \A i \in 1 .. Len(s) - 1 : s[i] \in S
    BY <1>1
  <2>2. /\ f \in Seq(S)
        /\ Len(f) = IF 1 <= Len(s) - 1 THEN Len(s) - 1 - 1 + 1 ELSE 0
        /\ \A i \in 1 .. Len(s) - 1 - 1 + 1 : f[i] = s[1 + i - 1]
    BY <2>1, SubSeqProperties
  <2>3. Len(s) - 1 - 1 + 1 = Len(s) - 1 /\ \A i \in 1 .. Len(s) - 1 : 1 + i - 1 = i
    BY <1>1
  <2> QED
    BY <1>1, <2>2, <2>3
<1>3. DOMAIN f = 1 .. Len(s) - 1
  BY <1>2, LenProperties
<1> HIDE DEF f
<1>4. \A i \in DOMAIN f : i \in DOMAIN s /\ f[i] = s[i] /\ i # Len(s)
  BY <1>1, <1>2, <1>3
<1>5. Len(s) \in DOMAIN s /\ s[Len(s)] \in Elements(s)
  BY <1>1 DEF Elements
<1>6. Distinct(f)
  BY <1>4 DEF Distinct
<1>7. Elements(f) \subseteq Elements(s) \ {s[Len(s)]}
  BY <1>4, <1>5 DEF Elements, Distinct
<1>8. \A k \in DOMAIN s : s[k] # s[Len(s)] => k \in DOMAIN f
  BY <1>1, <1>3
<1>9. Elements(s) \ {s[Len(s)]} \subseteq Elements(f)
  BY <1>4, <1>8 DEF Elements
<1> QED
  BY <1>2, <1>5, <1>6, <1>7, <1>9 DEF f

-----------------------------------------------------------------------------
(* Ancestry. *)

(* Line is what its recursive definition says: the sets that hold the      *)
(* parent of each of their members have a smallest one around any node.    *)
LineStep(T, g, m) == {m} \cup (IF T[m].parent \in DOMAIN T THEN g[T[m].parent] ELSE {})
LEMMA LineUnfolds ==
  ASSUME NEW T
  PROVE  \E g : /\ g = [m \in DOMAIN T |-> LineStep(T, g, m)]
                /\ \A n \in DOMAIN T : Line(T, n) = g[n]
<1> DEFINE Closed(S) == \A x \in S : T[x].parent \in DOMAIN T => T[x].parent \in S
           W == [m \in DOMAIN T |-> {x \in DOMAIN T : \A S \in SUBSET DOMAIN T :
                                       m \in S /\ Closed(S) => x \in S}]
<1>1. ASSUME NEW m \in DOMAIN T PROVE W[m] = LineStep(T, W, m)
  <2> DEFINE p == T[m].parent
             U == LineStep(T, W, m)
  <2>1. CASE p \notin DOMAIN T
    <3>1. U = {m}
      BY <2>1 DEF LineStep
    <3>2. {m} \in SUBSET DOMAIN T /\ Closed({m})
      BY <2>1
    <3>3. W[m] \subseteq {m} /\ m \in W[m]
      BY <3>2
    <3> QED BY <3>1, <3>3
  <2>2. CASE p \in DOMAIN T
    <3>1. U = {m} \cup W[p]
      BY <2>2 DEF LineStep
    <3>2. U \in SUBSET DOMAIN T
      BY <2>2, <3>1
    <3>3. Closed(U)
      <4> SUFFICES ASSUME NEW x \in U, T[x].parent \in DOMAIN T PROVE T[x].parent \in U
        OBVIOUS
      <4>1. p \in W[p]
        BY <2>2
      <4>2. CASE x = m
        BY <4>1, <4>2, <3>1
      <4>3. CASE x \in W[p]
        <5>1. \A S \in SUBSET DOMAIN T : p \in S /\ Closed(S) => T[x].parent \in S
          BY <2>2, <4>3
        <5>2. T[x].parent \in W[p]
          BY <2>2, <5>1
        <5> QED BY <3>1, <5>2
      <4> QED BY <3>1, <4>2, <4>3
    <3>4. W[m] \subseteq U
      BY <3>1, <3>2, <3>3
    <3>5. U \subseteq W[m]
      <4>1. \A S \in SUBSET DOMAIN T : m \in S /\ Closed(S) => p \in S
        BY <2>2
      <4>2. W[p] \subseteq W[m]
        BY <2>2, <4>1
      <4>3. m \in W[m]
        OBVIOUS
      <4> QED BY <3>1, <4>2, <4>3
    <3> QED BY <3>4, <3>5
  <2> QED BY <2>1, <2>2
<1>2. W = [m \in DOMAIN T |-> LineStep(T, W, m)]
  <2>1. DOMAIN W = DOMAIN T /\ W = [m \in DOMAIN T |-> W[m]]
    OBVIOUS
  <2> HIDE DEF W
  <2> QED BY <1>1, <2>1
<1>3. \E g : g = [m \in DOMAIN T |-> LineStep(T, g, m)]
  <2> HIDE DEF W
  <2> QED BY <1>2
<1> DEFINE line == CHOOSE g : g = [m \in DOMAIN T |-> LineStep(T, g, m)]
<1>4. \A n \in DOMAIN T : Line(T, n) = line[n]
  BY DEF Line, LineStep
<1>5. line = [m \in DOMAIN T |-> LineStep(T, line, m)]
  BY <1>3
<1> HIDE DEF line
<1> QED BY <1>4, <1>5

LEMMA LineEq ==
  ASSUME NEW T, NEW n \in DOMAIN T
  PROVE  Line(T, n) = {n} \cup (IF T[n].parent \in DOMAIN T THEN Line(T, T[n].parent) ELSE {})
<1>1. PICK g : /\ g = [m \in DOMAIN T |-> LineStep(T, g, m)]
               /\ \A m \in DOMAIN T : Line(T, m) = g[m]
  BY LineUnfolds
<1>2. Line(T, n) = LineStep(T, g, n)
  BY <1>1
<1> QED BY <1>1, <1>2 DEF LineStep

LEMMA LineOutside ==
  ASSUME NEW T, NEW n, n \notin DOMAIN T
  PROVE  Line(T, n) = {}
BY DEF Line

(* The greatest number of a finite set of numbers: what FoldLeft picks. *)
LEMMA GreatestIsIn ==
  ASSUME NEW n \in Nat, NEW s \in SUBSET (1 .. n), s # {}
  PROVE  \E i \in s : \A j \in s : i >= j
<1> DEFINE G == {k \in Nat : \A j \in s : j <= k}
<1>1. n \in G /\ G \in SUBSET Nat
  OBVIOUS
<1>2. PICK k \in G : \A m \in G : k <= m
  <2> HIDE DEF G
  <2> QED BY <1>1, LeastOf
<1>3. k \in s
  <2> SUFFICES ASSUME k \notin s PROVE FALSE
    OBVIOUS
  <2>1. \A j \in s : j \in Nat /\ j <= k /\ j # k /\ j >= 1
    BY <1>2
  <2>2. k - 1 \in Nat /\ \A j \in s : j <= k - 1
    <3>1. k \in Nat
      BY <1>2
    <3>2. PICK j \in s : TRUE
      OBVIOUS
    <3>3. k >= 1
      BY <2>1, <3>1
    <3>4. \A i \in s : i <= k - 1
      BY <2>1, <3>1
    <3> QED BY <3>1, <3>3, <3>4
  <2>3. k - 1 \in G
    BY <2>2
  <2> QED BY <1>2, <2>2, <2>3
<1> QED BY <1>2, <1>3

(* The member of a set that the folds of the community modules take last. *)
PickLast(s) == CHOOSE i \in s : \A j \in s : i >= j
PickAny(s) == CHOOSE x \in s : TRUE

LEMMA PickLastPicks ==
  ASSUME NEW n \in Nat, NEW s \in SUBSET (1 .. n), s # {}
  PROVE  PickLast(s) \in s
<1>1. \E i \in s : \A j \in s : i >= j
  BY GreatestIsIn
<1> QED BY <1>1 DEF PickLast
=============================================================================
