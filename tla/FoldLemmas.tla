----------------------------- MODULE FoldLemmas ------------------------------
(***************************************************************************)
(* What holds of every fold over a finite set, and so of the community     *)
(* modules' FoldSet and, with indices as the set, FoldLeft.  The operator  *)
(* folded, the choice of the next element and the statement that is kept   *)
(* are parameters of the module: a proof takes an instance per fold.  The  *)
(* module extends none, so that an instance brings in these facts alone.   *)
(***************************************************************************)

CONSTANTS
  Op(_, _, _),    \* Op(p, a, x): what element x makes of a
  Pick(_),        \* the element of a set that is folded last
  Good(_, _, _)   \* Good(p, s, a): a is right when the elements of s are folded

Step(p, base, g, s) == IF s = {} THEN base ELSE Op(p, g[s \ {Pick(s)}], Pick(s))

Fold(p, base, S) ==
  LET iter[s \in SUBSET S] == Step(p, base, iter, s)
  IN  iter[S]

(* Induction over the subsets of S, which DataLemmas proves of finite sets. *)
Inductive(S) ==
  \A F : (\A T \in SUBSET S : (\A U \in (SUBSET T) \ {T} : U \in F) => T \in F)
           => \A T \in SUBSET S : T \in F

(* g is the fold's function on the subsets of T. *)
Folds(p, base, g, T) == g = [s \in SUBSET T |-> Step(p, base, g, s)]

(* Two such functions agree where both are defined. *)
LEMMA FoldsAgree ==
  ASSUME NEW p, NEW base, NEW S, Inductive(S),
         \A s \in SUBSET S : s # {} => Pick(s) \in s
  PROVE  \A W \in SUBSET S : \A T \in SUBSET S, U \in SUBSET S : \A g, h :
           W \subseteq T /\ W \subseteq U /\ Folds(p, base, g, T) /\ Folds(p, base, h, U)
             => g[W] = h[W]
<1> DEFINE Agree(W) == \A T \in SUBSET S, U \in SUBSET S : \A g, h :
             W \subseteq T /\ W \subseteq U /\ Folds(p, base, g, T) /\ Folds(p, base, h, U)
               => g[W] = h[W]
           F == {W \in SUBSET S : Agree(W)}
<1>1. ASSUME NEW W \in SUBSET S, \A V \in (SUBSET W) \ {W} : V \in F
      PROVE  W \in F
  <2> SUFFICES ASSUME NEW T \in SUBSET S, NEW U \in SUBSET S, NEW g, NEW h,
                      W \subseteq T, W \subseteq U,
                      Folds(p, base, g, T), Folds(p, base, h, U)
               PROVE  g[W] = h[W]
    OBVIOUS
  <2>1. g[W] = Step(p, base, g, W) /\ h[W] = Step(p, base, h, W)
    BY DEF Folds
  <2>2. CASE W = {}
    BY <2>1, <2>2 DEF Step
  <2>3. CASE W # {}
    <3> DEFINE V == W \ {Pick(W)}
    <3>1. V \in (SUBSET W) \ {W}
      BY <2>3
    <3>2. Agree(V) /\ V \subseteq T /\ V \subseteq U
      BY <3>1, <1>1
    <3>3. g[V] = h[V]
      <4> HIDE DEF V
      <4> QED BY <3>2
    <3> QED BY <2>1, <2>3, <3>3 DEF Step
  <2> QED BY <2>2, <2>3
<1>2. \A W \in SUBSET S : W \in F
  <2> HIDE DEF F
  <2> QED BY <1>1 DEF Inductive
<1> QED BY <1>2

(* The recursive function that Fold chooses exists. *)
LEMMA FoldUnfolds ==
  ASSUME NEW p, NEW base, NEW S, Inductive(S),
         \A s \in SUBSET S : s # {} => Pick(s) \in s
  PROVE  \E g : Folds(p, base, g, S) /\ Fold(p, base, S) = g[S]
<1> DEFINE F == {T \in SUBSET S : \E g : Folds(p, base, g, T)}
           v(U) == CHOOSE g : Folds(p, base, g, U)
<1>1. ASSUME NEW T \in SUBSET S, \A U \in (SUBSET T) \ {T} : U \in F
      PROVE  T \in F
  <2> DEFINE k == [u \in (SUBSET T) \ {T} |-> v(u)[u]]
             h == [s \in SUBSET T |-> Step(p, base, k, s)]
  <2>1. \A U \in (SUBSET T) \ {T} : Folds(p, base, v(U), U)
    BY <1>1
  <2>2. ASSUME NEW U \in (SUBSET T) \ {T} PROVE h[U] = k[U]
    <3> DEFINE V == U \ {Pick(U)}
    <3>1. v(U)[U] = Step(p, base, v(U), U)
      BY <2>1 DEF Folds
    <3>2. CASE U = {}
      BY <3>1, <3>2 DEF Step
    <3>3. CASE U # {}
      <4>1. V \in (SUBSET T) \ {T} /\ V \in SUBSET S /\ U \in SUBSET S /\ V \subseteq U
        OBVIOUS
      <4>2. v(U)[V] = v(V)[V]
        <5>1. Folds(p, base, v(U), U) /\ Folds(p, base, v(V), V)
          <6> HIDE DEF V, v
          <6> QED BY <2>1, <4>1
        <5> HIDE DEF V, v
        <5> QED BY <4>1, <5>1, FoldsAgree
      <4>3. k[V] = v(U)[V]
        BY <4>1, <4>2
      <4>4. Step(p, base, k, U) = Step(p, base, v(U), U)
        <5> HIDE DEF k, v
        <5> QED BY <4>3, <3>3 DEF Step
      <4>5. h[U] = Step(p, base, k, U) /\ k[U] = v(U)[U]
        OBVIOUS
      <4> HIDE DEF k, v, h
      <4> QED BY <3>1, <4>4, <4>5
    <3> QED BY <3>2, <3>3
  <2>3. ASSUME NEW s \in SUBSET T PROVE Step(p, base, k, s) = Step(p, base, h, s)
    <3>1. CASE s = {}
      BY <3>1 DEF Step
    <3>2. CASE s # {}
      <4>1. s \ {Pick(s)} \in (SUBSET T) \ {T}
        BY <3>2
      <4>2. h[s \ {Pick(s)}] = k[s \ {Pick(s)}]
        <5> HIDE DEF h, k
        <5> QED BY <4>1, <2>2
      <4> HIDE DEF h, k
      <4> QED BY <3>2, <4>2 DEF Step
    <3> QED BY <3>1, <3>2
  <2>4. h = [s \in SUBSET T |-> Step(p, base, h, s)]
    <3>1. h = [s \in SUBSET T |-> Step(p, base, k, s)]
      OBVIOUS
    <3> HIDE DEF h, k
    <3> QED BY <3>1, <2>3
  <2>5. \E g : Folds(p, base, g, T)
    <3> HIDE DEF h
    <3> QED BY <2>4 DEF Folds
  <2> QED BY <2>5
<1>2. \A T \in SUBSET S : T \in F
  <2> HIDE DEF F
  <2> QED BY <1>1 DEF Inductive
<1>3. \E g : Folds(p, base, g, S)
  BY <1>2
<1> DEFINE iter == CHOOSE g : g = [s \in SUBSET S |-> Step(p, base, g, s)]
<1>4. Fold(p, base, S) = iter[S]
  BY DEF Fold
<1>5. Folds(p, base, iter, S)
  BY <1>3 DEF Folds
<1> HIDE DEF iter
<1> QED BY <1>4, <1>5

(* What is right of base, and stays right with every element, is right of  *)
(* the fold.                                                               *)
LEMMA FoldKeeps ==
  ASSUME NEW p, NEW base, NEW S, Inductive(S),
         \A s \in SUBSET S : s # {} => Pick(s) \in s,
         Good(p, {}, base),
         \A s \in SUBSET S : s # {} =>
           \A a : Good(p, s \ {Pick(s)}, a) => Good(p, s, Op(p, a, Pick(s)))
  PROVE  Good(p, S, Fold(p, base, S))
<1>1. PICK g : Folds(p, base, g, S) /\ Fold(p, base, S) = g[S]
  BY FoldUnfolds
<1> DEFINE F == {s \in SUBSET S : Good(p, s, g[s])}
<1>2. ASSUME NEW T \in SUBSET S, \A U \in (SUBSET T) \ {T} : U \in F
      PROVE  T \in F
  <2>1. g[T] = Step(p, base, g, T)
    BY <1>1 DEF Folds
  <2>2. CASE T = {}
    BY <2>1, <2>2 DEF Step
  <2>3. CASE T # {}
    <3> DEFINE x == Pick(T)
    <3>1. x \in T /\ T \ {x} \in (SUBSET T) \ {T}
      BY <2>3
    <3>2. Good(p, T \ {x}, g[T \ {x}])
      BY <3>1, <1>2
    <3>3. Good(p, T, Op(p, g[T \ {x}], x))
      BY <3>2, <2>3
    <3> QED BY <2>1, <2>3, <3>3 DEF Step
  <2> QED BY <2>2, <2>3
<1>3. \A T \in SUBSET S : T \in F
  <2> HIDE DEF F
  <2> QED BY <1>2 DEF Inductive
<1>4. S \in SUBSET S
  OBVIOUS
<1> QED BY <1>1, <1>3, <1>4

(* A fold over nothing. *)
LEMMA FoldNone ==
  ASSUME NEW p, NEW base, Inductive({})
  PROVE  Fold(p, base, {}) = base
<1>1. PICK g : Folds(p, base, g, {}) /\ Fold(p, base, {}) = g[{}]
  BY FoldUnfolds
<1>2. g[{}] = Step(p, base, g, {})
  BY <1>1 DEF Folds
<1> QED BY <1>1, <1>2 DEF Step

(* A fold is a step on the fold of the other elements. *)
LEMMA FoldStep ==
  ASSUME NEW p, NEW base, NEW S, Inductive(S), Inductive(S \ {Pick(S)}), S # {},
         \A s \in SUBSET S : s # {} => Pick(s) \in s
  PROVE  Fold(p, base, S) = Op(p, Fold(p, base, S \ {Pick(S)}), Pick(S))
<1> DEFINE T == S \ {Pick(S)}
<1>1. PICK g : Folds(p, base, g, S) /\ Fold(p, base, S) = g[S]
  BY FoldUnfolds
<1>2. T \in SUBSET S /\ \A s \in SUBSET T : s # {} => Pick(s) \in s
  OBVIOUS
<1>3. PICK h : Folds(p, base, h, T) /\ Fold(p, base, T) = h[T]
  <2> HIDE DEF T
  <2>1. Inductive(T)
    BY DEF T
  <2> QED BY <1>2, <2>1, FoldUnfolds
<1>4. g[T] = h[T]
  <2> HIDE DEF T
  <2> QED BY <1>1, <1>2, <1>3, FoldsAgree
<1>5. g[S] = Step(p, base, g, S)
  BY <1>1 DEF Folds
<1>6. g[S] = Op(p, g[T], Pick(S))
  BY <1>5 DEF Step
<1> HIDE DEF T
<1>7. Fold(p, base, S) = Op(p, Fold(p, base, T), Pick(S))
  BY <1>1, <1>3, <1>4, <1>6
<1> QED BY <1>7 DEF T

(* Two folds with the same steps are the same. *)
LEMMA FoldSame ==
  ASSUME NEW p, NEW q, NEW base, NEW S, Inductive(S),
         \A s \in SUBSET S : s # {} => Pick(s) \in s,
         \A x \in S : \A a : Op(p, a, x) = Op(q, a, x)
  PROVE  Fold(p, base, S) = Fold(q, base, S)
<1>1. PICK g : Folds(p, base, g, S) /\ Fold(p, base, S) = g[S]
  BY FoldUnfolds
<1>2. PICK h : Folds(q, base, h, S) /\ Fold(q, base, S) = h[S]
  BY FoldUnfolds
<1>3. \A s \in SUBSET S : Step(p, base, g, s) = Step(q, base, g, s)
  BY DEF Step
<1>4. Folds(q, base, g, S)
  <2>1. g = [s \in SUBSET S |-> Step(p, base, g, s)]
    BY <1>1 DEF Folds
  <2>2. [s \in SUBSET S |-> Step(p, base, g, s)] = [s \in SUBSET S |-> Step(q, base, g, s)]
    BY <1>3
  <2> QED BY <2>1, <2>2 DEF Folds
<1>5. g[S] = h[S]
  BY <1>2, <1>4, FoldsAgree
<1> QED BY <1>1, <1>2, <1>5
=============================================================================
