--------------------------- MODULE ScanTreeProofs ---------------------------
(***************************************************************************)
(* Proofs about the tree of directories, for every disk, every number of   *)
(* scanner threads and any mix of the user's operations: the variables     *)
(* keep their types, a path has one root and a parent one child for each   *)
(* directory, and the sizes add up at every node after every operation.    *)
(***************************************************************************)
EXTENDS ScanTree, DataLemmas

-----------------------------------------------------------------------------
(* Forests: what FileTree's operators take for granted of a tree. *)

(* The parent of a node is live and its directory is the one above, so     *)
(* that the way up from any node ends at a root.                           *)
Shaped(T) ==
  /\ DOMAIN T \subseteq Id /\ IsFiniteSet(DOMAIN T)
  /\ \A n \in DOMAIN T :
       /\ T[n].parent \in DOMAIN T \cup {NoNode}
       /\ T[n].parent # NoNode => n.dir \in Subdirs[T[n].parent.dir]

(* Induction from the roots down. *)
LEMMA DownInduction ==
  ASSUME ScanTreeAssumption, NEW T, Shaped(T), NEW F,
         \A n \in DOMAIN T : (T[n].parent # NoNode => T[n].parent \in F) => n \in F
  PROVE  DOMAIN T \subseteq F
<1> DEFINE Out == DOMAIN T \ F
           ranks == {PathRank[n.dir] : n \in Out}
<1> SUFFICES ASSUME Out # {} PROVE FALSE
  OBVIOUS
<1>1. ASSUME NEW n \in DOMAIN T
      PROVE  n.dir \in Dir /\ PathRank[n.dir] \in Nat
  BY <1>1 DEF Shaped, Id, ScanTreeAssumption
<1>2. ranks \in SUBSET Nat /\ ranks # {}
  BY <1>1
<1>3. PICK r \in ranks : \A s \in ranks : r <= s
  <2> HIDE DEF ranks
  <2> QED BY <1>2, LeastOf
<1>4. PICK n \in Out : r = PathRank[n.dir]
  BY <1>3
<1>5. T[n].parent # NoNode /\ T[n].parent \in Out
  BY <1>4 DEF Shaped
<1>6. PathRank[T[n].parent.dir] < PathRank[n.dir]
  <2>1. n.dir \in Subdirs[T[n].parent.dir] /\ T[n].parent.dir \in Dir
    BY <1>1, <1>4, <1>5 DEF Shaped
  <2> QED BY <2>1 DEF ScanTreeAssumption
<1>7. PathRank[T[n].parent.dir] \in ranks
  BY <1>5
<1>8. PathRank[n.dir] <= PathRank[T[n].parent.dir]
  BY <1>3, <1>4, <1>7
<1> QED BY <1>1, <1>4, <1>5, <1>6, <1>8

LEMMA NoNodeDead ==
  ASSUME ScanTreeAssumption, NEW T, Shaped(T)
  PROVE  NoNode \notin DOMAIN T
BY DEF Shaped, Id, ScanTreeAssumption

LEMMA LineLive ==
  ASSUME ScanTreeAssumption, NEW T, Shaped(T), NEW n
  PROVE  Line(T, n) \subseteq DOMAIN T /\ (n \in DOMAIN T => n \in Line(T, n))
<1> DEFINE F == {m \in DOMAIN T : Line(T, m) \subseteq DOMAIN T}
<1>1. ASSUME NEW m \in DOMAIN T, T[m].parent # NoNode => T[m].parent \in F
      PROVE  m \in F
  <2>1. CASE T[m].parent \in DOMAIN T
    <3>1. T[m].parent \in F
      BY <1>1, <2>1, NoNodeDead
    <3> QED BY <2>1, <3>1, LineEq
  <2>2. CASE T[m].parent \notin DOMAIN T
    BY <2>2, LineEq
  <2> QED BY <2>1, <2>2
<1>2. DOMAIN T \subseteq F
  <2> HIDE DEF F
  <2> QED BY <1>1, DownInduction
<1>3. n \in DOMAIN T => n \in Line(T, n)
  BY LineEq
<1> QED BY <1>2, <1>3, LineOutside

(* The nodes above n are nearer to the root: their paths come before n's.  *)
LEMMA LineRises ==
  ASSUME ScanTreeAssumption, NEW T, Shaped(T), NEW n \in DOMAIN T, NEW m \in Line(T, n), m # n
  PROVE  PathRank[m.dir] < PathRank[n.dir]
<1> DEFINE F == {x \in DOMAIN T : \A y \in Line(T, x) : y = x \/ PathRank[y.dir] < PathRank[x.dir]}
<1>1. ASSUME NEW x \in DOMAIN T, T[x].parent # NoNode => T[x].parent \in F
      PROVE  x \in F
  <2> SUFFICES ASSUME NEW y \in Line(T, x), y # x PROVE PathRank[y.dir] < PathRank[x.dir]
    OBVIOUS
  <2> DEFINE p == T[x].parent
  <2>1. p \in DOMAIN T /\ y \in Line(T, p) /\ p # NoNode
    <3>1. p \in DOMAIN T /\ y \in Line(T, p)
      BY LineEq
    <3> QED BY <3>1, NoNodeDead
  <2>2. p \in F
    BY <2>1, <1>1
  <2>3. PathRank[p.dir] < PathRank[x.dir]
    BY <2>1 DEF Shaped, Id, ScanTreeAssumption
  <2>4. y \in DOMAIN T
    BY <2>1, LineLive
  <2>5. PathRank[y.dir] \in Nat /\ PathRank[p.dir] \in Nat /\ PathRank[x.dir] \in Nat
    BY <2>1, <2>4 DEF Shaped, Id, ScanTreeAssumption
  <2>6. y = p \/ PathRank[y.dir] < PathRank[p.dir]
    BY <2>1, <2>2
  <2> QED BY <2>3, <2>5, <2>6
<1>2. DOMAIN T \subseteq F
  <2> HIDE DEF F
  <2> QED BY <1>1, DownInduction
<1> QED BY <1>2

(* The way up from a node on the way up from n is the rest of that way.    *)
LEMMA LineNested ==
  ASSUME ScanTreeAssumption, NEW T, Shaped(T), NEW n \in DOMAIN T, NEW m \in Line(T, n)
  PROVE  Line(T, m) \subseteq Line(T, n)
<1> DEFINE F == {x \in DOMAIN T : \A y \in Line(T, x) : Line(T, y) \subseteq Line(T, x)}
<1>1. ASSUME NEW x \in DOMAIN T, T[x].parent # NoNode => T[x].parent \in F
      PROVE  x \in F
  <2> SUFFICES ASSUME NEW y \in Line(T, x), y # x PROVE Line(T, y) \subseteq Line(T, x)
    OBVIOUS
  <2>1. T[x].parent \in DOMAIN T /\ y \in Line(T, T[x].parent) /\ T[x].parent # NoNode
    <3>1. T[x].parent \in DOMAIN T /\ y \in Line(T, T[x].parent)
      BY LineEq
    <3> QED BY <3>1, NoNodeDead
  <2>2. Line(T, y) \subseteq Line(T, T[x].parent)
    BY <2>1, <1>1
  <2> QED BY <2>1, <2>2, LineEq
<1>2. DOMAIN T \subseteq F
  <2> HIDE DEF F
  <2> QED BY <1>1, DownInduction
<1> QED BY <1>2

(* A node has a child on the way up from n exactly when it is above n; and *)
(* then it has one.                                                        *)
LEMMA ChildOnLine ==
  ASSUME ScanTreeAssumption, NEW T, Shaped(T), NEW n \in DOMAIN T, NEW m \in Line(T, n), m # n
  PROVE  \E c \in Children(T, m) : Children(T, m) \cap Line(T, n) = {c}
<1> DEFINE F == {x \in DOMAIN T : \A y \in Line(T, x) : y # x =>
                   \E c \in Children(T, y) : Children(T, y) \cap Line(T, x) = {c}}
<1>1. ASSUME NEW x \in DOMAIN T, T[x].parent # NoNode => T[x].parent \in F
      PROVE  x \in F
  <2> SUFFICES ASSUME NEW y \in Line(T, x), y # x
               PROVE  \E c \in Children(T, y) : Children(T, y) \cap Line(T, x) = {c}
    OBVIOUS
  <2> DEFINE p == T[x].parent
  <2>1. p \in DOMAIN T /\ y \in Line(T, p) /\ p # NoNode
    <3>1. p \in DOMAIN T /\ y \in Line(T, p)
      BY LineEq
    <3> QED BY <3>1, NoNodeDead
  <2>2. Line(T, x) = {x} \cup Line(T, p)
    BY <2>1, LineEq
  <2>3. CASE y = p
    <3>1. x \in Children(T, y)
      BY <2>3 DEF Children
    <3>2. \A c \in Children(T, y) : c \notin Line(T, p)
      <4> SUFFICES ASSUME NEW c \in Children(T, p), c \in Line(T, p) PROVE FALSE
        BY <2>3
      <4>1. c \in DOMAIN T /\ T[c].parent = p
        BY DEF Children
      <4>2. PathRank[p.dir] < PathRank[c.dir] /\ PathRank[p.dir] \in Nat /\ PathRank[c.dir] \in Nat
        BY <2>1, <4>1 DEF Shaped, Id, ScanTreeAssumption
      <4>3. c = p \/ PathRank[c.dir] < PathRank[p.dir]
        BY <2>1, LineRises
      <4> QED BY <4>2, <4>3
    <3> QED BY <2>2, <3>1, <3>2
  <2>4. CASE y # p
    <3>1. p \in F
      BY <2>1, <1>1
    <3>2. PICK c \in Children(T, y) : Children(T, y) \cap Line(T, p) = {c}
      BY <2>1, <2>4, <3>1
    <3>3. x \notin Children(T, y)
      BY <2>4 DEF Children
    <3> QED BY <2>2, <3>2, <3>3
  <2> QED BY <2>3, <2>4
<1>2. DOMAIN T \subseteq F
  <2> HIDE DEF F
  <2> QED BY <1>1, DownInduction
<1> QED BY <1>2

LEMMA NoChildOffLine ==
  ASSUME ScanTreeAssumption, NEW T, Shaped(T), NEW n \in DOMAIN T,
         NEW m \in DOMAIN T, m \notin Line(T, n) \/ m = n
  PROVE  Children(T, m) \cap Line(T, n) = {}
<1> SUFFICES ASSUME NEW c \in Children(T, m), c \in Line(T, n) PROVE FALSE
  OBVIOUS
<1>1. c \in DOMAIN T /\ T[c].parent = m /\ m # NoNode
  BY NoNodeDead DEF Children
<1>2. Line(T, c) \subseteq Line(T, n)
  BY LineNested
<1>3. m \in Line(T, c)
  BY <1>1, LineEq, LineLive
<1>4. CASE m = n
  <2>1. PathRank[n.dir] < PathRank[c.dir] /\ PathRank[n.dir] \in Nat /\ PathRank[c.dir] \in Nat
    BY <1>1, <1>4 DEF Shaped, Id, ScanTreeAssumption
  <2>2. c = n \/ PathRank[c.dir] < PathRank[n.dir]
    BY LineRises
  <2> QED BY <2>1, <2>2
<1> QED BY <1>2, <1>3, <1>4

-----------------------------------------------------------------------------
(* Sums over a forest. *)

Forest(T) == Shaped(T) /\ \A n \in DOMAIN T : T[n] \in Node
ChildSum(T, m) == SumFunctionOnSet(Totals(T), Children(T, m))

(* The sizes add up; they do except that n's total is short of k.          *)
AddsUp(T) == \A m \in DOMAIN T : T[m].total = T[m].own + ChildSum(T, m)
AddsUpBut(T, n, k) ==
  \A m \in DOMAIN T : T[m].total + (IF m = n THEN k ELSE 0) = T[m].own + ChildSum(T, m)

LEMMA ChildSumType ==
  ASSUME NEW T, Forest(T), NEW m
  PROVE  /\ IsFiniteSet(Children(T, m))
         /\ \A c \in Children(T, m) : Totals(T)[c] \in Nat
         /\ ChildSum(T, m) \in Nat
         /\ \A c \in Children(T, m) : T[c].total <= ChildSum(T, m)
<1>1. Children(T, m) \subseteq DOMAIN T
  BY DEF Children
<1>2. IsFiniteSet(Children(T, m))
  BY <1>1, FS_Subset DEF Forest, Shaped
<1>3. \A c \in Children(T, m) : Totals(T)[c] = T[c].total /\ T[c].total \in Nat
  BY <1>1 DEF Forest, Node, Totals
<1> QED BY <1>2, <1>3, SumNat DEF ChildSum

(* What changes neither sizes nor parents keeps the sums.                  *)
LEMMA SameSizes ==
  ASSUME NEW T, NEW U, Forest(T), AddsUp(T), DOMAIN U = DOMAIN T,
         \A m \in DOMAIN T : U[m].parent = T[m].parent /\ U[m].own = T[m].own
                               /\ U[m].total = T[m].total
  PROVE  AddsUp(U)
<1> SUFFICES ASSUME NEW m \in DOMAIN T
             PROVE  U[m].total = U[m].own + ChildSum(U, m)
  BY DEF AddsUp
<1>1. Children(U, m) = Children(T, m)
  BY DEF Children
<1>2. Totals(U) = Totals(T)
  BY DEF Totals
<1> QED BY <1>1, <1>2 DEF AddsUp, ChildSum

(* An amount that one node is short of, added all the way up from it, puts *)
(* every sum right: each node above it has one child on the way.           *)
LEMMA CarryUp ==
  ASSUME ScanTreeAssumption, NEW T, Forest(T), NEW n \in DOMAIN T \cup {NoNode}, NEW k \in Int,
         AddsUpBut(T, n, k), NEW U, DOMAIN U = DOMAIN T,
         \A m \in DOMAIN T :
           /\ U[m].parent = T[m].parent /\ U[m].own = T[m].own
           /\ U[m].total = IF m \in Line(T, n) THEN T[m].total + k ELSE T[m].total
  PROVE  AddsUp(U)
<1> SUFFICES ASSUME NEW m \in DOMAIN T
             PROVE  U[m].total = U[m].own + ChildSum(U, m)
  BY DEF AddsUp
<1> DEFINE C == Children(T, m)
           f == Totals(T)
           g == Totals(U)
<1>1. Children(U, m) = C /\ C \subseteq DOMAIN T
  BY DEF Children
<1>2. \A c \in C : f[c] = T[c].total /\ g[c] = U[c].total
  BY <1>1 DEF Totals
<1>3. IsFiniteSet(C) /\ (\A c \in C : f[c] \in Int) /\ ChildSum(T, m) \in Int
  BY ChildSumType
<1>4. T[m].total \in Int /\ T[m].own \in Int
  BY DEF Forest, Node
<1>5. ChildSum(T, m) = SumFunctionOnSet(f, C) /\ ChildSum(U, m) = SumFunctionOnSet(g, C)
  BY <1>1 DEF ChildSum
<1>6. CASE n \in DOMAIN T /\ m \in Line(T, n) /\ m # n
  <2>1. PICK c \in C : C \cap Line(T, n) = {c}
    BY <1>6, ChildOnLine DEF Forest
  <2>2. g[c] = f[c] + k /\ \A x \in C \ {c} : g[x] = f[x]
    <3>1. \A x \in C : x \in DOMAIN T /\ (x \in Line(T, n) <=> x = c)
      BY <1>1, <2>1
    <3> QED BY <1>2, <3>1
  <2>3. SumFunctionOnSet(g, C) = SumFunctionOnSet(f, C) + k
    <3> HIDE DEF C, f, g
    <3> QED BY <1>3, <2>1, <2>2, SumChange
  <2>4. T[m].total = T[m].own + ChildSum(T, m)
    BY <1>3, <1>4, <1>6 DEF AddsUpBut
  <2> QED BY <1>3, <1>4, <1>5, <1>6, <2>3, <2>4
<1>7. CASE n \notin DOMAIN T \/ m \notin Line(T, n) \/ m = n
  <2>1. \A c \in C : c \notin Line(T, n)
    <3>1. CASE n \in DOMAIN T
      BY <1>7, <3>1, NoChildOffLine DEF Forest
    <3>2. CASE n \notin DOMAIN T
      BY <3>2, LineOutside
    <3> QED BY <3>1, <3>2
  <2>2. \A c \in C : g[c] = f[c]
    BY <1>1, <1>2, <2>1
  <2>3. SumFunctionOnSet(g, C) = SumFunctionOnSet(f, C)
    <3> HIDE DEF C, f, g
    <3> QED BY <1>3, <2>2, SumSame
  <2>4. m \in Line(T, n) <=> m = n
    BY <1>7, LineLive, LineOutside DEF Forest
  <2>5. U[m].total = T[m].total + (IF m = n THEN k ELSE 0)
    BY <1>4, <2>4
  <2>6. T[m].total + (IF m = n THEN k ELSE 0) = T[m].own + ChildSum(T, m)
    BY DEF AddsUpBut
  <2> QED BY <1>5, <2>3, <2>5, <2>6
<1> QED BY <1>6, <1>7

(* Sizes do not shrink on the way up, so that no subtraction of a node's   *)
(* total from the nodes above it is cut off at zero.                       *)
LEMMA TotalsRise ==
  ASSUME ScanTreeAssumption, NEW T, Forest(T), AddsUp(T), NEW n \in DOMAIN T, NEW m \in Line(T, n)
  PROVE  T[m].total >= T[n].total
<1> DEFINE F == {x \in DOMAIN T : \A y \in Line(T, x) : T[y].total >= T[x].total}
<1>1. ASSUME NEW x \in DOMAIN T, T[x].parent # NoNode => T[x].parent \in F
      PROVE  x \in F
  <2> SUFFICES ASSUME NEW y \in Line(T, x) PROVE T[y].total >= T[x].total
    OBVIOUS
  <2>0. y \in DOMAIN T /\ T[y].total \in Nat /\ T[x].total \in Nat
    BY LineLive DEF Forest, Node
  <2> DEFINE p == T[x].parent
  <2>1. CASE y = x
    BY <2>0, <2>1
  <2>2. CASE y # x
    <3>1. p \in DOMAIN T /\ y \in Line(T, p) /\ p # NoNode
      <4>1. p \in DOMAIN T /\ y \in Line(T, p)
        BY <2>2, LineEq
      <4> QED BY <4>1, NoNodeDead DEF Forest
    <3>2. T[y].total >= T[p].total
      BY <3>1, <1>1
    <3>3. x \in Children(T, p)
      BY DEF Children
    <3>4. T[x].total <= ChildSum(T, p) /\ ChildSum(T, p) \in Nat
      BY <3>3, ChildSumType
    <3>5. T[p].total = T[p].own + ChildSum(T, p) /\ T[p].own \in Nat /\ T[p].total \in Nat
      BY <3>1 DEF AddsUp, Forest, Node
    <3> HIDE DEF p
    <3> QED BY <2>0, <3>2, <3>4, <3>5
  <2> QED BY <2>1, <2>2
<1>2. DOMAIN T \subseteq F
  <2> HIDE DEF F
  <2> QED BY <1>1, DownInduction DEF Forest
<1> QED BY <1>2

-----------------------------------------------------------------------------
(* What each operation of FileTree does to a forest whose sizes add up. *)

(* The nodes keep their places and their generations.                      *)
SamePlaces(T, U) ==
  /\ DOMAIN U = DOMAIN T
  /\ \A m \in DOMAIN T : U[m].parent = T[m].parent /\ U[m].gen = T[m].gen

LEMMA ShapeKept ==
  ASSUME NEW T, Shaped(T), NEW U, SamePlaces(T, U)
  PROVE  Shaped(U)
BY DEF Shaped, SamePlaces

LEMMA MinusType ==
  ASSUME NEW a \in Nat, NEW b \in Nat
  PROVE  Minus(a, b) \in Nat /\ (a >= b => Minus(a, b) = a - b)
BY DEF Minus

LEMMA PropagateTotalsKeeps ==
  ASSUME ScanTreeAssumption, NEW T, Forest(T), NEW n \in DOMAIN T, NEW size \in Nat,
         AddsUpBut(T, n, size)
  PROVE  /\ Forest(PropagateTotals(T, n, size)) /\ AddsUp(PropagateTotals(T, n, size))
         /\ SamePlaces(T, PropagateTotals(T, n, size))
<1> DEFINE U == PropagateTotals(T, n, size)
<1>1. DOMAIN U = DOMAIN T
  BY DEF PropagateTotals
<1>2. ASSUME NEW m \in DOMAIN T
      PROVE  /\ U[m] \in Node /\ U[m].parent = T[m].parent /\ U[m].gen = T[m].gen
             /\ U[m].own = T[m].own
             /\ U[m].total = IF m \in Line(T, n) THEN T[m].total + size ELSE T[m].total
  <2>1. T[m] \in Node
    BY DEF Forest
  <2>2. U[m] = IF m \in Line(T, n) THEN [T[m] EXCEPT !.total = @ + size] ELSE T[m]
    BY DEF PropagateTotals
  <2> HIDE DEF U
  <2> QED BY <2>1, <2>2 DEF Node
<1> HIDE DEF U
<1>3. AddsUp(U)
  BY <1>1, <1>2, CarryUp
<1>4. SamePlaces(T, U)
  BY <1>1, <1>2 DEF SamePlaces
<1>5. Forest(U)
  BY <1>1, <1>2, <1>4, ShapeKept DEF Forest
<1> QED BY <1>3, <1>4, <1>5 DEF U

LEMMA SubtractFromAncestorsKeeps ==
  ASSUME ScanTreeAssumption, NEW T, Forest(T), NEW n \in DOMAIN T \cup {NoNode}, NEW size \in Nat,
         AddsUpBut(T, n, -size), \A m \in Line(T, n) : T[m].total >= size
  PROVE  /\ Forest(SubtractFromAncestors(T, n, size)) /\ AddsUp(SubtractFromAncestors(T, n, size))
         /\ SamePlaces(T, SubtractFromAncestors(T, n, size))
<1> DEFINE U == SubtractFromAncestors(T, n, size)
<1>1. DOMAIN U = DOMAIN T
  BY DEF SubtractFromAncestors
<1>2. ASSUME NEW m \in DOMAIN T
      PROVE  /\ U[m] \in Node /\ U[m].parent = T[m].parent /\ U[m].gen = T[m].gen
             /\ U[m].own = T[m].own
             /\ U[m].total = IF m \in Line(T, n) THEN T[m].total + (-size) ELSE T[m].total
  <2>1. T[m] \in Node /\ T[m].total \in Nat
    BY DEF Forest, Node
  <2>2. U[m] = IF m \in Line(T, n) THEN [T[m] EXCEPT !.total = Minus(@, size)] ELSE T[m]
    BY DEF SubtractFromAncestors
  <2>3. Minus(T[m].total, size) \in Nat
        /\ (m \in Line(T, n) => Minus(T[m].total, size) = T[m].total + (-size))
    BY <2>1, MinusType
  <2> HIDE DEF U
  <2> QED BY <2>1, <2>2, <2>3 DEF Node
<1> HIDE DEF U
<1>3. AddsUp(U)
  <2>1. -size \in Int
    OBVIOUS
  <2> QED BY <1>1, <1>2, <2>1, CarryUp
<1>4. SamePlaces(T, U)
  BY <1>1, <1>2 DEF SamePlaces
<1>5. Forest(U)
  BY <1>1, <1>2, <1>4, ShapeKept DEF Forest
<1> QED BY <1>3, <1>4, <1>5 DEF U

(* The operations on outstanding work change nothing else.                 *)
LEMMA WorkKeeps ==
  ASSUME NEW T, Forest(T), AddsUp(T), NEW U, DOMAIN U = DOMAIN T,
         \A m \in DOMAIN T : \E w \in Nat : U[m] = [T[m] EXCEPT !.work = w]
  PROVE  Forest(U) /\ AddsUp(U) /\ SamePlaces(T, U)
<1>1. ASSUME NEW m \in DOMAIN T
      PROVE  /\ U[m] \in Node /\ U[m].parent = T[m].parent /\ U[m].gen = T[m].gen
             /\ U[m].own = T[m].own /\ U[m].total = T[m].total
  <2>1. T[m] \in Node
    BY DEF Forest
  <2>2. PICK w \in Nat : U[m] = [T[m] EXCEPT !.work = w]
    OBVIOUS
  <2> QED BY <2>1, <2>2 DEF Node
<1>2. AddsUp(U)
  BY <1>1, SameSizes
<1>3. SamePlaces(T, U)
  BY <1>1 DEF SamePlaces
<1> QED BY <1>1, <1>2, <1>3, ShapeKept DEF Forest

LEMMA FinishWorkUnitKeeps ==
  ASSUME NEW T, Forest(T), AddsUp(T), NEW n
  PROVE  /\ Forest(FinishWorkUnit(T, n)) /\ AddsUp(FinishWorkUnit(T, n))
         /\ SamePlaces(T, FinishWorkUnit(T, n))
<1> DEFINE U == FinishWorkUnit(T, n)
<1>1. DOMAIN U = DOMAIN T
  BY DEF FinishWorkUnit
<1>2. ASSUME NEW m \in DOMAIN T
      PROVE  \E w \in Nat : U[m] = [T[m] EXCEPT !.work = w]
  <2>1. T[m] \in Node /\ T[m].work \in Nat
    BY DEF Forest, Node
  <2>2. Minus(T[m].work, 1) \in Nat
    BY <2>1, MinusType
  <2>3. U[m] = [T[m] EXCEPT !.work = Minus(@, 1)] \/ U[m] = T[m]
    BY DEF FinishWorkUnit
  <2>4. T[m] = [T[m] EXCEPT !.work = T[m].work]
    BY <2>1 DEF Node
  <2> HIDE DEF U
  <2> QED BY <2>1, <2>2, <2>3, <2>4
<1> HIDE DEF U
<1>3. Forest(U) /\ AddsUp(U) /\ SamePlaces(T, U)
  BY <1>1, <1>2, WorkKeeps
<1> QED BY <1>3 DEF U

LEMMA ReopenAncestorsKeeps ==
  ASSUME NEW T, Forest(T), AddsUp(T), NEW n
  PROVE  /\ Forest(ReopenAncestors(T, n)) /\ AddsUp(ReopenAncestors(T, n))
         /\ SamePlaces(T, ReopenAncestors(T, n))
<1> DEFINE U == ReopenAncestors(T, n)
<1>1. DOMAIN U = DOMAIN T
  BY DEF ReopenAncestors
<1>2. ASSUME NEW m \in DOMAIN T
      PROVE  \E w \in Nat : U[m] = [T[m] EXCEPT !.work = w]
  <2>1. T[m] \in Node /\ T[m].work \in Nat /\ T[m].work + 1 \in Nat
    BY DEF Forest, Node
  <2>3. U[m] = [T[m] EXCEPT !.work = @ + 1] \/ U[m] = T[m]
    BY DEF ReopenAncestors
  <2>4. T[m] = [T[m] EXCEPT !.work = T[m].work]
    BY <2>1 DEF Node
  <2> HIDE DEF U
  <2> QED BY <2>1, <2>3, <2>4
<1> HIDE DEF U
<1>3. Forest(U) /\ AddsUp(U) /\ SamePlaces(T, U)
  BY <1>1, <1>2, WorkKeeps
<1> QED BY <1>3 DEF U

LEMMA AddOutstandingWorkKeeps ==
  ASSUME NEW T, Forest(T), AddsUp(T), NEW n, NEW units \in Nat
  PROVE  /\ Forest(AddOutstandingWork(T, n, units)) /\ AddsUp(AddOutstandingWork(T, n, units))
         /\ SamePlaces(T, AddOutstandingWork(T, n, units))
<1> DEFINE U == AddOutstandingWork(T, n, units)
<1>1. DOMAIN U = DOMAIN T
  BY DEF AddOutstandingWork
<1>2. ASSUME NEW m \in DOMAIN T
      PROVE  \E w \in Nat : U[m] = [T[m] EXCEPT !.work = w]
  <2>1. T[m] \in Node /\ T[m].work \in Nat /\ T[m].work + units \in Nat
    BY DEF Forest, Node
  <2>3. U[m] = [T[m] EXCEPT !.work = @ + units] \/ U[m] = T[m]
    BY DEF AddOutstandingWork
  <2>4. T[m] = [T[m] EXCEPT !.work = T[m].work]
    BY <2>1 DEF Node
  <2> HIDE DEF U
  <2> QED BY <2>1, <2>3, <2>4
<1> HIDE DEF U
<1>3. Forest(U) /\ AddsUp(U) /\ SamePlaces(T, U)
  BY <1>1, <1>2, WorkKeeps
<1> QED BY <1>3 DEF U

LEMMA RecordMeasurementKeeps ==
  ASSUME ScanTreeAssumption, NEW T, Forest(T), AddsUp(T), NEW n \in DOMAIN T, NEW size \in Nat,
         NEW dense \in BOOLEAN, NEW lazy \in BOOLEAN
  PROVE  /\ Forest(RecordMeasurement(T, n, size, dense, lazy))
         /\ AddsUp(RecordMeasurement(T, n, size, dense, lazy))
         /\ SamePlaces(T, RecordMeasurement(T, n, size, dense, lazy))
<1> DEFINE U == [m \in DOMAIN T |->
                   IF m = n THEN [T[m] EXCEPT !.own = @ + size, !.dense = @ \/ dense,
                                              !.lazy = @ \/ lazy]
                   ELSE T[m]]
<1>1. DOMAIN U = DOMAIN T
  OBVIOUS
<1>2. ASSUME NEW m \in DOMAIN T
      PROVE  /\ U[m] \in Node /\ U[m].parent = T[m].parent /\ U[m].gen = T[m].gen
             /\ U[m].own = T[m].own + (IF m = n THEN size ELSE 0)
             /\ U[m].total = T[m].total
  <2>1. T[m] \in Node
    BY DEF Forest
  <2>2. U[m] = IF m = n THEN [T[m] EXCEPT !.own = @ + size, !.dense = @ \/ dense, !.lazy = @ \/ lazy]
               ELSE T[m]
    OBVIOUS
  <2> HIDE DEF U
  <2>3. (T[m].dense \/ dense) \in BOOLEAN /\ (T[m].lazy \/ lazy) \in BOOLEAN
    OBVIOUS
  <2>4. CASE m = n
    <3>1. U[m] = [T[m] EXCEPT !.own = T[m].own + size, !.dense = T[m].dense \/ dense,
                              !.lazy = T[m].lazy \/ lazy]
      BY <2>2, <2>4
    <3>2. T[m].own + size \in Nat
      BY <2>1 DEF Node
    <3> DEFINE x == T[m].dense \/ dense
               y == T[m].lazy \/ lazy
    <3> HIDE DEF x, y
    <3>3. x \in BOOLEAN /\ y \in BOOLEAN
      BY <2>3 DEF x, y
    <3>4. U[m] = [T[m] EXCEPT !.own = T[m].own + size, !.dense = x, !.lazy = y]
      BY <3>1 DEF x, y
    <3> QED BY <2>1, <2>4, <3>2, <3>3, <3>4 DEF Node
  <2>5. CASE m # n
    BY <2>1, <2>2, <2>5 DEF Node
  <2> QED BY <2>4, <2>5
<1> HIDE DEF U
<1>3. SamePlaces(T, U)
  BY <1>1, <1>2 DEF SamePlaces
<1>4. Forest(U)
  BY <1>1, <1>2, <1>3, ShapeKept DEF Forest
<1>5. AddsUpBut(U, n, size)
  <2> SUFFICES ASSUME NEW m \in DOMAIN T
               PROVE  U[m].total + (IF m = n THEN size ELSE 0) = U[m].own + ChildSum(U, m)
    BY <1>1 DEF AddsUpBut
  <2>1. Children(U, m) = Children(T, m) /\ Totals(U) = Totals(T)
    BY <1>1, <1>2 DEF Children, Totals
  <2>2. ChildSum(U, m) = ChildSum(T, m) /\ ChildSum(T, m) \in Nat
    BY <2>1, ChildSumType DEF ChildSum
  <2>3. T[m].total = T[m].own + ChildSum(T, m) /\ T[m].own \in Nat
    BY DEF AddsUp, Forest, Node
  <2> QED BY <1>2, <2>2, <2>3
<1>6. /\ Forest(PropagateTotals(U, n, size)) /\ AddsUp(PropagateTotals(U, n, size))
      /\ SamePlaces(U, PropagateTotals(U, n, size))
  BY <1>1, <1>4, <1>5, PropagateTotalsKeeps
<1>7. SamePlaces(T, PropagateTotals(U, n, size))
  BY <1>3, <1>6 DEF SamePlaces
<1>8. RecordMeasurement(T, n, size, dense, lazy) = PropagateTotals(U, n, size)
  BY DEF RecordMeasurement, U
<1> QED BY <1>6, <1>7, <1>8

(* New nodes without a size, below p or as roots.                          *)
LEMMA Grow ==
  ASSUME ScanTreeAssumption, NEW T, Forest(T), AddsUp(T), NEW p \in DOMAIN T \cup {NoNode},
         NEW ids \in SUBSET Id, IsFiniteSet(ids), ids \cap DOMAIN T = {},
         p # NoNode => \A i \in ids : i.dir \in Subdirs[p.dir],
         NEW U, DOMAIN U = DOMAIN T \cup ids, \A m \in DOMAIN U : U[m] \in Node,
         \A m \in DOMAIN T : /\ U[m].parent = T[m].parent /\ U[m].own = T[m].own
                             /\ U[m].total = T[m].total,
         \A m \in ids : U[m].parent = p /\ U[m].own = 0 /\ U[m].total = 0
  PROVE  Forest(U) /\ AddsUp(U)
<1>1. Shaped(U)
  <2>1. IsFiniteSet(DOMAIN U)
    <3>1. IsFiniteSet(DOMAIN T)
      BY DEF Forest, Shaped
    <3>2. IsFiniteSet(DOMAIN T \cup ids)
      BY <3>1, FS_Union
    <3> QED BY <3>2
  <2> QED BY <2>1 DEF Forest, Shaped
<1>2. Forest(U)
  BY <1>1 DEF Forest
<1>3. ASSUME NEW m \in DOMAIN U
      PROVE  U[m].total = U[m].own + ChildSum(U, m)
  <2> DEFINE C == Children(T, m)
             f == Totals(T)
             g == Totals(U)
             D == IF m = p THEN ids ELSE {}
  <2>1. Children(U, m) = C \cup D
    BY NoNodeDead DEF Children, Forest, Shaped
  <2>2. C \subseteq DOMAIN T /\ D \subseteq ids /\ C \cap D = {}
    BY DEF Children
  <2>3. (\A c \in C : g[c] = f[c] /\ f[c] \in Int) /\ (\A c \in D : g[c] = 0)
    BY <2>2 DEF Totals, Forest, Node
  <2>4. IsFiniteSet(C) /\ IsFiniteSet(D)
    BY <2>2, FS_Subset, FS_EmptySet DEF Forest, Shaped
  <2>5. ChildSum(U, m) = SumFunctionOnSet(g, C \cup D)
    BY <2>1 DEF ChildSum
  <2> HIDE DEF C, D, f, g
  <2>6. SumFunctionOnSet(g, C \cup D) = SumFunctionOnSet(g, C) + SumFunctionOnSet(g, D)
    BY <2>2, <2>3, <2>4, SumUnion
  <2>7. SumFunctionOnSet(g, D) = 0 /\ SumFunctionOnSet(g, C) = SumFunctionOnSet(f, C)
    BY <2>3, <2>4, SumZero, SumSame
  <2>8. SumFunctionOnSet(f, C) \in Int
    BY <2>3, <2>4, SumType
  <2>9. CASE m \in DOMAIN T
    BY <2>5, <2>6, <2>7, <2>8, <2>9 DEF AddsUp, ChildSum, C, f
  <2>10. CASE m \in ids
    <3>1. C = {}
      BY <2>10, NoNodeDead DEF C, Children, Forest, Shaped, Id, ScanTreeAssumption
    <3> QED BY <2>5, <2>6, <2>7, <2>10, <3>1, SumEmpty
  <2> QED BY <2>9, <2>10
<1> QED BY <1>2, <1>3 DEF AddsUp

LEMMA NewNodeType ==
  ASSUME NEW p \in Id \cup {NoNode}, NEW depth \in Nat
  PROVE  NewNode(p, depth) \in Node
BY DEF NewNode, Node

(* U is T with the new nodes ids below p; the parents and generations of   *)
(* the other nodes stay.                                                   *)
GrownBy(T, U, p, ids) ==
  /\ DOMAIN U = DOMAIN T \cup ids
  /\ \A m \in DOMAIN T : U[m].parent = T[m].parent /\ U[m].gen = T[m].gen
  /\ \A m \in ids : U[m].parent = p /\ U[m].gen = 0

LEMMA InsertRootKeeps ==
  ASSUME ScanTreeAssumption, NEW T, Forest(T), AddsUp(T), NEW n \in Id, n \notin DOMAIN T,
         NEW purpose \in {"Filesystem", "Measurement"}
  PROVE  /\ Forest(InsertRoot(T, n, purpose)) /\ AddsUp(InsertRoot(T, n, purpose))
         /\ GrownBy(T, InsertRoot(T, n, purpose), NoNode, {n})
<1> DEFINE U == InsertRoot(T, n, purpose)
<1>1. DOMAIN U = DOMAIN T \cup {n}
  BY DEF InsertRoot
<1>2. U[n] = [NewNode(NoNode, 0) EXCEPT !.purpose = purpose]
  BY DEF InsertRoot
<1>3. \A m \in DOMAIN T : U[m] = T[m]
  BY DEF InsertRoot
<1> HIDE DEF U
<1>4. U[n] \in Node /\ U[n].parent = NoNode /\ U[n].own = 0 /\ U[n].total = 0 /\ U[n].gen = 0
  BY <1>2, NewNodeType DEF NewNode, Node
<1>5. \A m \in DOMAIN U : U[m] \in Node
  BY <1>1, <1>3, <1>4 DEF Forest
<1>6. IsFiniteSet({n}) /\ {n} \in SUBSET Id /\ {n} \cap DOMAIN T = {}
  <2>1. IsFiniteSet({n})
    BY FS_Singleton
  <2> QED BY <2>1
<1>7. Forest(U) /\ AddsUp(U)
  <2> DEFINE ids == {n}
  <2>1. \A m \in ids : U[m].parent = NoNode /\ U[m].own = 0 /\ U[m].total = 0
    BY <1>4
  <2>2. \A m \in DOMAIN T : /\ U[m].parent = T[m].parent /\ U[m].own = T[m].own
                            /\ U[m].total = T[m].total
    BY <1>3
  <2> HIDE DEF ids
  <2>3. NoNode \in DOMAIN T \cup {NoNode}
    OBVIOUS
  <2>4. DOMAIN U = DOMAIN T \cup ids /\ IsFiniteSet(ids) /\ ids \in SUBSET Id /\ ids \cap DOMAIN T = {}
    BY <1>1, <1>6 DEF ids
  <2> QED BY <1>5, <2>1, <2>2, <2>3, <2>4, Grow
<1>8. GrownBy(T, U, NoNode, {n})
  BY <1>1, <1>3, <1>4 DEF GrownBy
<1> QED BY <1>7, <1>8 DEF U

LEMMA InsertChildrenKeeps ==
  ASSUME ScanTreeAssumption, NEW T, Forest(T), AddsUp(T), NEW p \in DOMAIN T,
         NEW ids \in SUBSET Id, IsFiniteSet(ids), ids \cap DOMAIN T = {},
         \A i \in ids : i.dir \in Subdirs[p.dir]
  PROVE  /\ Forest(InsertChildren(T, p, ids)) /\ AddsUp(InsertChildren(T, p, ids))
         /\ GrownBy(T, InsertChildren(T, p, ids), p, ids)
         /\ \A m \in DOMAIN T : InsertChildren(T, p, ids)[m].purpose = T[m].purpose
<1> DEFINE U == InsertChildren(T, p, ids)
<1>1. DOMAIN U = DOMAIN T \cup ids
  BY DEF InsertChildren
<1>2. \A m \in ids : U[m] = NewNode(p, T[p].depth + 1)
  BY DEF InsertChildren
<1>3. ASSUME NEW m \in DOMAIN T
      PROVE  \E w \in Nat : U[m] = [T[m] EXCEPT !.work = w]
  <2>1. T[m] \in Node /\ T[m].work \in Nat /\ Cardinality(ids) \in Nat
    BY FS_CardinalityType DEF Forest, Node
  <2>2. T[m].work + Cardinality(ids) \in Nat
    BY <2>1
  <2>3. U[m] = [T[m] EXCEPT !.work = @ + Cardinality(ids)] \/ U[m] = T[m]
    BY DEF InsertChildren
  <2>4. T[m] = [T[m] EXCEPT !.work = T[m].work]
    BY <2>1 DEF Node
  <2> HIDE DEF U
  <2> QED BY <2>1, <2>2, <2>3, <2>4
<1> HIDE DEF U
<1>4. ASSUME NEW m \in DOMAIN T
      PROVE  /\ U[m] \in Node /\ U[m].parent = T[m].parent /\ U[m].gen = T[m].gen
             /\ U[m].own = T[m].own /\ U[m].total = T[m].total /\ U[m].purpose = T[m].purpose
  <2>1. T[m] \in Node
    BY DEF Forest
  <2>2. PICK w \in Nat : U[m] = [T[m] EXCEPT !.work = w]
    BY <1>3
  <2> QED BY <2>1, <2>2 DEF Node
<1>5. ASSUME NEW m \in ids
      PROVE  /\ U[m] \in Node /\ U[m].parent = p /\ U[m].gen = 0
             /\ U[m].own = 0 /\ U[m].total = 0
  <2>1. T[p].depth + 1 \in Nat /\ p \in Id
    BY DEF Forest, Shaped, Node
  <2>2. NewNode(p, T[p].depth + 1) \in Node
    BY <2>1, NewNodeType
  <2> QED BY <1>2, <2>2 DEF NewNode
<1>6. Forest(U) /\ AddsUp(U)
  <2>1. \A m \in DOMAIN U : U[m] \in Node
    BY <1>1, <1>4, <1>5
  <2>2. p # NoNode => \A i \in ids : i.dir \in Subdirs[p.dir]
    OBVIOUS
  <2>3. p \in DOMAIN T \cup {NoNode}
    OBVIOUS
  <2>4. \A m \in DOMAIN T : /\ U[m].parent = T[m].parent /\ U[m].own = T[m].own
                            /\ U[m].total = T[m].total
    BY <1>4
  <2>5. \A m \in ids : U[m].parent = p /\ U[m].own = 0 /\ U[m].total = 0
    BY <1>5
  <2> QED BY <1>1, <2>1, <2>2, <2>3, <2>4, <2>5, Grow
<1>7. GrownBy(T, U, p, ids)
  BY <1>1, <1>4, <1>5 DEF GrownBy
<1> QED BY <1>4, <1>6, <1>7 DEF U

LEMMA InsertBoundaryChildrenKeeps ==
  ASSUME ScanTreeAssumption, NEW T, Forest(T), AddsUp(T), NEW p \in DOMAIN T,
         NEW ids \in SUBSET Id, IsFiniteSet(ids), ids \cap DOMAIN T = {},
         \A i \in ids : i.dir \in Subdirs[p.dir]
  PROVE  /\ Forest(InsertBoundaryChildren(T, p, ids)) /\ AddsUp(InsertBoundaryChildren(T, p, ids))
         /\ GrownBy(T, InsertBoundaryChildren(T, p, ids), p, ids)
<1> DEFINE U == InsertBoundaryChildren(T, p, ids)
<1>1. DOMAIN U = DOMAIN T \cup ids
  BY DEF InsertBoundaryChildren
<1>2. \A m \in ids : U[m] = [NewNode(p, T[p].depth + 1) EXCEPT !.work = 0, !.boundary = TRUE]
  BY DEF InsertBoundaryChildren
<1>3. \A m \in DOMAIN T : U[m] = T[m]
  BY DEF InsertBoundaryChildren
<1> HIDE DEF U
<1>4. ASSUME NEW m \in DOMAIN T
      PROVE  /\ U[m] \in Node /\ U[m].parent = T[m].parent /\ U[m].gen = T[m].gen
             /\ U[m].own = T[m].own /\ U[m].total = T[m].total
  BY <1>3 DEF Forest
<1>5. ASSUME NEW m \in ids
      PROVE  /\ U[m] \in Node /\ U[m].parent = p /\ U[m].gen = 0
             /\ U[m].own = 0 /\ U[m].total = 0
  <2>1. T[p].depth + 1 \in Nat /\ p \in Id
    BY DEF Forest, Shaped, Node
  <2> DEFINE N == NewNode(p, T[p].depth + 1)
  <2>2. N \in Node
    BY <2>1, NewNodeType
  <2>3. N.parent = p /\ N.gen = 0 /\ N.own = 0 /\ N.total = 0
    BY DEF NewNode
  <2>4. U[m] = [N EXCEPT !.work = 0, !.boundary = TRUE]
    BY <1>2
  <2> HIDE DEF N
  <2> QED BY <2>2, <2>3, <2>4 DEF Node
<1>6. Forest(U) /\ AddsUp(U)
  <2>1. \A m \in DOMAIN U : U[m] \in Node
    BY <1>1, <1>4, <1>5
  <2>2. p # NoNode => \A i \in ids : i.dir \in Subdirs[p.dir]
    OBVIOUS
  <2>3. p \in DOMAIN T \cup {NoNode}
    OBVIOUS
  <2>4. \A m \in DOMAIN T : /\ U[m].parent = T[m].parent /\ U[m].own = T[m].own
                            /\ U[m].total = T[m].total
    BY <1>4
  <2>5. \A m \in ids : U[m].parent = p /\ U[m].own = 0 /\ U[m].total = 0
    BY <1>5
  <2> QED BY <1>1, <2>1, <2>2, <2>3, <2>4, <2>5, Grow
<1>7. GrownBy(T, U, p, ids)
  BY <1>1, <1>4, <1>5 DEF GrownBy
<1> QED BY <1>6, <1>7 DEF U

LEMMA GraftRootsKeeps ==
  ASSUME ScanTreeAssumption, NEW T, Forest(T), AddsUp(T), NEW p \in DOMAIN T,
         NEW R \in SUBSET Roots(T), \A r \in R : r.dir \in Subdirs[p.dir]
  PROVE  /\ Forest(GraftRoots(T, R, p)) /\ AddsUp(GraftRoots(T, R, p))
         /\ DOMAIN GraftRoots(T, R, p) = DOMAIN T
         /\ \A m \in DOMAIN T :
              /\ GraftRoots(T, R, p)[m].gen = T[m].gen
              /\ GraftRoots(T, R, p)[m].parent = IF m \in R THEN p ELSE T[m].parent
<1> DEFINE below == UNION {Subtree(T, r) : r \in R}
           pending == {r \in R : ~Complete(T, r)}
           J == [m \in DOMAIN T |->
                   CASE m \in R -> [T[m] EXCEPT !.parent = p, !.depth = T[p].depth + 1]
                     [] m \in below \ R -> [T[m] EXCEPT !.depth = @ + T[p].depth + 1]
                     [] m = p -> [T[m] EXCEPT !.work = @ + Cardinality(pending)]
                     [] OTHER -> T[m]]
           k == SumFunctionOnSet(Totals(T), R)
<1>1. GraftRoots(T, R, p) = PropagateTotals(J, p, k)
  BY DEF GraftRoots
<1>2. R \subseteq DOMAIN T /\ IsFiniteSet(R) /\ \A r \in R : T[r].parent = NoNode
  BY FS_Subset DEF Roots, Forest, Shaped
<1>3. k \in Nat
  <2>1. \A r \in R : Totals(T)[r] \in Nat
    BY <1>2 DEF Totals, Forest, Node
  <2> QED BY <1>2, <2>1, SumNat
<1>4. Cardinality(pending) \in Nat
  <2>1. IsFiniteSet(pending)
    BY <1>2, FS_Subset
  <2> QED BY <2>1, FS_CardinalityType
<1>5. DOMAIN J = DOMAIN T
  OBVIOUS
<1>6. ASSUME NEW m \in DOMAIN T
      PROVE  /\ J[m] \in Node /\ J[m].gen = T[m].gen
             /\ J[m].own = T[m].own /\ J[m].total = T[m].total
             /\ J[m].parent = IF m \in R THEN p ELSE T[m].parent
  <2> DEFINE q == Cardinality(pending)
             d == T[p].depth
  <2>1. T[m] \in Node /\ d \in Nat /\ q \in Nat /\ p \in Id
    BY <1>4 DEF Forest, Shaped, Node
  <2>2. p \notin R
    <3>1. \A r \in R : PathRank[p.dir] < PathRank[r.dir] /\ PathRank[p.dir] \in Nat
      BY <1>2 DEF Forest, Shaped, Id, ScanTreeAssumption
    <3> QED BY <3>1
  <2>3. CASE m \in R
    <3>1. J[m] = [T[m] EXCEPT !.parent = p, !.depth = d + 1]
      BY <2>2, <2>3
    <3> DEFINE e == d + 1
    <3>2. e \in Nat /\ p \in Id \cup {NoNode}
      BY <2>1
    <3>3. J[m] = [T[m] EXCEPT !.parent = p, !.depth = e]
      BY <3>1
    <3> HIDE DEF J, d, e
    <3> QED BY <2>1, <2>3, <3>2, <3>3 DEF Node
  <2>4. CASE m \notin R
    <3>1. \/ J[m] = [T[m] EXCEPT !.depth = @ + d + 1]
          \/ J[m] = [T[m] EXCEPT !.work = @ + q]
          \/ J[m] = T[m]
      BY <2>4
    <3> HIDE DEF J, d, q
    <3> QED BY <2>1, <2>4, <3>1 DEF Node
  <2> QED BY <2>3, <2>4
<1> HIDE DEF J, k
<1>7. Forest(J)
  <2>1. ASSUME NEW m \in DOMAIN J
        PROVE  /\ J[m].parent \in DOMAIN J \cup {NoNode}
               /\ J[m].parent # NoNode => m.dir \in Subdirs[J[m].parent.dir]
    BY <1>5, <1>6, <2>1 DEF Forest, Shaped
  <2> QED BY <1>5, <1>6, <2>1 DEF Forest, Shaped
<1>8. AddsUpBut(J, p, k)
  <2> SUFFICES ASSUME NEW m \in DOMAIN T
               PROVE  J[m].total + (IF m = p THEN k ELSE 0) = J[m].own + ChildSum(J, m)
    BY <1>5 DEF AddsUpBut
  <2>1. Totals(J) = Totals(T)
    BY <1>5, <1>6 DEF Totals
  <2>2. T[m].total = T[m].own + ChildSum(T, m) /\ ChildSum(T, m) \in Nat /\ T[m].own \in Nat
    BY ChildSumType DEF AddsUp, Forest, Node
  <2>3. m # NoNode
    BY NoNodeDead DEF Forest
  <2>4. CASE m = p
    <3> DEFINE C == Children(T, p)
               f == Totals(T)
    <3>1. Children(J, p) = C \cup R /\ C \cap R = {}
      BY <1>2, <1>5, <1>6, <2>3, <2>4 DEF Children
    <3>2. C \subseteq DOMAIN T /\ IsFiniteSet(C) /\ \A c \in C \cup R : f[c] \in Int
      <4>1. C \subseteq DOMAIN T
        BY DEF Children
      <4>2. IsFiniteSet(C)
        BY ChildSumType
      <4>3. \A c \in DOMAIN T : f[c] \in Int
        BY DEF Totals, Forest, Node
      <4> QED BY <1>2, <4>1, <4>2, <4>3
    <3>3. ChildSum(J, p) = SumFunctionOnSet(f, C \cup R)
      BY <2>1, <3>1 DEF ChildSum
    <3>4. ChildSum(T, p) = SumFunctionOnSet(f, C) /\ k = SumFunctionOnSet(f, R)
      BY DEF ChildSum, k
    <3> HIDE DEF C, f
    <3>5. SumFunctionOnSet(f, C \cup R) = SumFunctionOnSet(f, C) + SumFunctionOnSet(f, R)
      BY <1>2, <3>1, <3>2, SumUnion
    <3>6. ChildSum(J, m) = ChildSum(T, m) + k
      BY <2>4, <3>3, <3>4, <3>5
    <3> QED BY <1>3, <1>6, <2>2, <2>4, <3>6
  <2>5. CASE m # p
    <3>1. Children(J, m) = Children(T, m)
      BY <1>2, <1>5, <1>6, <2>3, <2>5 DEF Children
    <3>2. ChildSum(J, m) = ChildSum(T, m)
      BY <2>1, <3>1 DEF ChildSum
    <3> QED BY <1>6, <2>2, <2>5, <3>2
  <2> QED BY <2>4, <2>5
<1>9. /\ Forest(PropagateTotals(J, p, k)) /\ AddsUp(PropagateTotals(J, p, k))
      /\ SamePlaces(J, PropagateTotals(J, p, k))
  BY <1>3, <1>5, <1>7, <1>8, PropagateTotalsKeeps
<1> QED BY <1>1, <1>5, <1>6, <1>9 DEF SamePlaces

(* Where the parents stay the way up stays.                                *)
LEMMA LineCut ==
  ASSUME ScanTreeAssumption, NEW T, NEW U, Shaped(T), Shaped(U), DOMAIN U \subseteq DOMAIN T,
         \A m \in DOMAIN U : U[m].parent = T[m].parent, NEW n \in DOMAIN U
  PROVE  Line(U, n) = Line(T, n)
<1> DEFINE F == {x \in DOMAIN U : Line(U, x) = Line(T, x)}
<1>1. ASSUME NEW x \in DOMAIN U, U[x].parent # NoNode => U[x].parent \in F
      PROVE  x \in F
  <2>1. x \in DOMAIN T /\ U[x].parent = T[x].parent
    OBVIOUS
  <2>2. CASE U[x].parent = NoNode
    <3>1. Line(U, x) = {x} /\ Line(T, x) = {x}
      BY <2>1, <2>2, LineEq, NoNodeDead
    <3> QED BY <3>1
  <2>3. CASE U[x].parent # NoNode
    <3>1. U[x].parent \in DOMAIN U /\ U[x].parent \in DOMAIN T
          /\ Line(U, U[x].parent) = Line(T, U[x].parent)
      BY <1>1, <2>3
    <3>2. Line(U, x) = {x} \cup Line(U, U[x].parent)
      BY <3>1, LineEq
    <3>3. Line(T, x) = {x} \cup Line(T, T[x].parent)
      BY <2>1, <3>1, LineEq
    <3> QED BY <2>1, <3>1, <3>2, <3>3
  <2> QED BY <2>2, <2>3
<1>2. DOMAIN U \subseteq F
  <2> HIDE DEF F
  <2> QED BY <1>1, DownInduction
<1> QED BY <1>2

(* A node is below n when it is n or its parent is; n's own parent is not. *)
LEMMA SubtreeEq ==
  ASSUME ScanTreeAssumption, NEW T, Shaped(T), NEW n \in DOMAIN T
  PROVE  /\ n \in Subtree(T, n) /\ Subtree(T, n) \subseteq DOMAIN T
         /\ T[n].parent \notin Subtree(T, n)
         /\ \A m \in DOMAIN T : m # n => (m \in Subtree(T, n) <=> T[m].parent \in Subtree(T, n))
<1>1. n \in Subtree(T, n) /\ Subtree(T, n) \subseteq DOMAIN T
  BY LineLive DEF Subtree
<1>2. T[n].parent \notin Subtree(T, n)
  <2> SUFFICES ASSUME T[n].parent \in DOMAIN T, n \in Line(T, T[n].parent) PROVE FALSE
    BY DEF Subtree
  <2>1. T[n].parent # NoNode
    BY NoNodeDead
  <2>2. /\ PathRank[T[n].parent.dir] < PathRank[n.dir]
        /\ PathRank[T[n].parent.dir] \in Nat /\ PathRank[n.dir] \in Nat
    BY <2>1 DEF Shaped, Id, ScanTreeAssumption
  <2>3. n = T[n].parent \/ PathRank[n.dir] < PathRank[T[n].parent.dir]
    BY LineRises
  <2> QED BY <2>2, <2>3
<1>3. ASSUME NEW m \in DOMAIN T, m # n
      PROVE  m \in Subtree(T, n) <=> T[m].parent \in Subtree(T, n)
  <2>1. Line(T, m) = {m} \cup (IF T[m].parent \in DOMAIN T THEN Line(T, T[m].parent) ELSE {})
    BY LineEq
  <2> QED BY <1>3, <2>1 DEF Subtree
<1> QED BY <1>1, <1>2, <1>3

(* Without what is below n, or n itself too, the forest lacks n's size     *)
(* above n and nowhere else.                                               *)
LEMMA PruneShape ==
  ASSUME ScanTreeAssumption, NEW T, Forest(T), NEW n \in DOMAIN T, NEW U,
         DOMAIN U = DOMAIN T \ Subtree(T, n) \/ DOMAIN U = DOMAIN T \ (Subtree(T, n) \ {n}),
         \A m \in DOMAIN U : U[m] \in Node /\ U[m].parent = T[m].parent
  PROVE  Forest(U) /\ T[n].parent \in DOMAIN U \cup {NoNode}
<1>1. DOMAIN U \subseteq DOMAIN T /\ IsFiniteSet(DOMAIN U)
  <2>1. DOMAIN U \subseteq DOMAIN T
    OBVIOUS
  <2>2. IsFiniteSet(DOMAIN T)
    BY DEF Forest, Shaped
  <2> QED BY <2>1, <2>2, FS_Subset
<1>2. ASSUME NEW m \in DOMAIN U PROVE U[m].parent \in DOMAIN U \cup {NoNode}
  <2>1. m \in DOMAIN T /\ U[m].parent = T[m].parent /\ T[m].parent \in DOMAIN T \cup {NoNode}
    BY <1>1 DEF Forest, Shaped
  <2>2. CASE m = n
    BY <2>1, <2>2, SubtreeEq DEF Forest
  <2>3. CASE m # n
    <3>1. m \notin Subtree(T, n)
      BY <2>3
    <3>2. T[m].parent \notin Subtree(T, n)
      BY <2>1, <2>3, <3>1, SubtreeEq DEF Forest
    <3> QED BY <2>1, <3>2
  <2> QED BY <2>2, <2>3
<1>3. Shaped(U)
  BY <1>1, <1>2 DEF Forest, Shaped
<1>4. T[n].parent \in DOMAIN U \cup {NoNode}
  BY SubtreeEq DEF Forest, Shaped
<1> QED BY <1>3, <1>4 DEF Forest

LEMMA PruneSums ==
  ASSUME ScanTreeAssumption, NEW T, Forest(T), AddsUp(T), NEW n \in DOMAIN T, NEW U,
         DOMAIN U = DOMAIN T \ Subtree(T, n) \/ DOMAIN U = DOMAIN T \ (Subtree(T, n) \ {n}),
         \A m \in DOMAIN U : U[m] \in Node /\ U[m].parent = T[m].parent,
         \A m \in DOMAIN U \ {n} : U[m].own = T[m].own /\ U[m].total = T[m].total,
         n \in DOMAIN U => U[n].own = 0 /\ U[n].total = 0
  PROVE  AddsUpBut(U, T[n].parent, -T[n].total)
<1> SUFFICES ASSUME NEW m \in DOMAIN U
             PROVE  U[m].total + (IF m = T[n].parent THEN -T[n].total ELSE 0)
                      = U[m].own + ChildSum(U, m)
  BY DEF AddsUpBut
<1> DEFINE C == Children(T, m)
           f == Totals(T)
           g == Totals(U)
           p == T[n].parent
<1>1. Forest(U)
  BY PruneShape
<1>2. m \in DOMAIN T /\ m # NoNode /\ p \notin Subtree(T, n) /\ n \notin Children(T, n)
  BY NoNodeDead, SubtreeEq DEF Forest, Children
<1>3. CASE m = n
  <2>1. Children(U, n) = {}
    <3> SUFFICES ASSUME NEW c \in DOMAIN U, U[c].parent = n PROVE FALSE
      BY DEF Children
    <3>1. c \in DOMAIN T /\ T[c].parent = n /\ c # n
      BY <1>2 DEF Children
    <3>2. c \in Subtree(T, n)
      BY <3>1, SubtreeEq DEF Forest
    <3> QED BY <3>1, <3>2
  <2>2. ChildSum(U, m) = 0
    BY <1>3, <2>1, SumEmpty DEF ChildSum
  <2>3. m # p
    BY <1>2, <1>3, SubtreeEq DEF Forest
  <2> QED BY <1>3, <2>2, <2>3
<1>4. CASE m # n
  <2>1. m \notin Subtree(T, n) /\ U[m].own = T[m].own /\ U[m].total = T[m].total
    BY <1>4
  <2>2. \A c \in C : c \in DOMAIN T /\ (c \in Subtree(T, n) => c = n)
    BY <1>2, <2>1, SubtreeEq DEF Children, Forest
  <2>3. Children(U, m) = C \cap DOMAIN U /\ \A c \in C \ {n} : c \in DOMAIN U
    BY <2>2 DEF Children
  <2>4. /\ IsFiniteSet(C) /\ (\A c \in C : f[c] \in Int) /\ ChildSum(T, m) \in Int
        /\ ChildSum(T, m) = SumFunctionOnSet(f, C)
    BY ChildSumType DEF ChildSum
  <2>5. ChildSum(U, m) = SumFunctionOnSet(g, C \cap DOMAIN U)
    BY <2>3 DEF ChildSum
  <2>6. /\ \A c \in C \ {n} : g[c] = f[c]
        /\ n \in DOMAIN U => g[n] = 0
        /\ f[n] = T[n].total
    BY <2>2, <2>3 DEF Totals
  <2>7. T[m].total = T[m].own + ChildSum(T, m) /\ T[m].own \in Nat /\ T[n].total \in Nat
    BY <1>2 DEF AddsUp, Forest, Node
  <2>8. CASE m # p
    <3>1. n \notin C
      BY <2>8 DEF Children
    <3>2. C \cap DOMAIN U = C /\ C \ {n} = C
      BY <2>3, <3>1
    <3> HIDE DEF C, f, g
    <3>3. SumFunctionOnSet(g, C) = SumFunctionOnSet(f, C)
      BY <2>4, <2>6, <3>2, SumSame
    <3>4. ChildSum(U, m) = ChildSum(T, m)
      BY <2>4, <2>5, <3>2, <3>3
    <3> QED BY <2>1, <2>4, <2>7, <2>8, <3>4
  <2>9. CASE m = p
    <3>1. n \in C
      BY <2>9 DEF Children
    <3> DEFINE k == -T[n].total
    <3>2. SumFunctionOnSet(g, C \cap DOMAIN U) = SumFunctionOnSet(f, C) + k
      <4>1. CASE n \in DOMAIN U
        <5>1. C \cap DOMAIN U = C
          BY <2>3, <3>1, <4>1
        <5>2. k \in Int /\ g[n] = f[n] + k
          BY <2>6, <2>7, <4>1
        <5> HIDE DEF C, f, g, k
        <5>3. SumFunctionOnSet(g, C) = SumFunctionOnSet(f, C) + k
          BY <2>4, <2>6, <3>1, <5>2, SumChange
        <5> QED BY <5>1, <5>3
      <4>2. CASE n \notin DOMAIN U
        <5>1. C \cap DOMAIN U = C \ {n}
          BY <2>3, <4>2
        <5>2. k \in Int /\ k = -f[n]
          BY <2>6, <2>7
        <5> HIDE DEF C, f, g, k
        <5> DEFINE B == C \ {n}
        <5>3. IsFiniteSet(B) /\ \A c \in B : f[c] \in Int /\ g[c] = f[c]
          BY <2>4, <2>6, FS_Subset
        <5>4. SumFunctionOnSet(f, C) = f[n] + SumFunctionOnSet(f, B)
          BY <2>4, <3>1, SumRemove
        <5> HIDE DEF B
        <5>5. SumFunctionOnSet(g, B) = SumFunctionOnSet(f, B) /\ SumFunctionOnSet(f, B) \in Int
          BY <5>3, SumSame, SumType
        <5>6. f[n] \in Int
          BY <2>4, <3>1
        <5>7. SumFunctionOnSet(g, B) = SumFunctionOnSet(f, C) + k
          BY <5>2, <5>4, <5>5, <5>6
        <5> QED BY <5>1, <5>7 DEF B
      <4> QED BY <4>1, <4>2
    <3> QED BY <2>1, <2>4, <2>5, <2>7, <2>9, <3>2
  <2> QED BY <2>8, <2>9
<1> QED BY <1>3, <1>4

LEMMA ResetForRescanKeeps ==
  ASSUME ScanTreeAssumption, NEW T, Forest(T), AddsUp(T), NEW n \in DOMAIN T
  PROVE  LET U == ResetForRescan(T, n)
         IN  /\ Forest(U) /\ AddsUp(U)
             /\ DOMAIN U \subseteq DOMAIN T /\ n \in DOMAIN U
             /\ \A m \in DOMAIN U :
                  /\ U[m].parent = T[m].parent /\ U[m].parent # n
                  /\ U[m].gen = IF m = n THEN T[m].gen + 1 ELSE T[m].gen
<1> DEFINE p == T[n].parent
           size == T[n].total
           K == [m \in DOMAIN T \ (Subtree(T, n) \ {n}) |->
                   IF m = n
                   THEN [T[n] EXCEPT !.own = 0, !.total = 0, !.work = 1, !.gen = @ + 1,
                                     !.dense = FALSE, !.lazy = FALSE, !.boundary = FALSE]
                   ELSE T[m]]
           S == SubtractFromAncestors(K, p, size)
           U == ResetForRescan(T, n)
<1>1. DOMAIN K = DOMAIN T \ (Subtree(T, n) \ {n}) /\ n \in DOMAIN K /\ DOMAIN K \subseteq DOMAIN T
  OBVIOUS
<1>2. ASSUME NEW m \in DOMAIN K
      PROVE  /\ K[m] \in Node /\ K[m].parent = T[m].parent
             /\ K[m].gen = IF m = n THEN T[m].gen + 1 ELSE T[m].gen
             /\ m # n => K[m].own = T[m].own /\ K[m].total = T[m].total
             /\ m = n => K[m].own = 0 /\ K[m].total = 0
  <2>1. T[m] \in Node /\ T[n] \in Node /\ m \in DOMAIN T
    BY DEF Forest
  <2>2. CASE m = n
    <3>1. K[m] = [T[n] EXCEPT !.own = 0, !.total = 0, !.work = 1, !.gen = @ + 1,
                              !.dense = FALSE, !.lazy = FALSE, !.boundary = FALSE]
      BY <2>2
    <3> DEFINE N == T[n]
               e == T[n].gen + 1
               L == K[m]
    <3>2. e \in Nat /\ N \in Node
      BY <2>1 DEF Node
    <3>3. L = [N EXCEPT !.own = 0, !.total = 0, !.work = 1, !.gen = e,
                        !.dense = FALSE, !.lazy = FALSE, !.boundary = FALSE]
      BY <3>1
    <3> HIDE DEF K, N, e, L
    <3>4. L \in Node /\ L.parent = N.parent /\ L.gen = e /\ L.own = 0 /\ L.total = 0
      BY <3>2, <3>3 DEF Node
    <3> QED BY <2>2, <3>4 DEF N, e, L
  <2>3. CASE m # n
    <3>1. K[m] = T[m]
      BY <2>3
    <3> HIDE DEF K
    <3> QED BY <2>1, <2>3, <3>1
  <2> QED BY <2>2, <2>3
<1> HIDE DEF K
<1>3. Forest(K) /\ p \in DOMAIN K \cup {NoNode}
  BY <1>1, <1>2, PruneShape
<1>4. AddsUpBut(K, p, -size)
  BY <1>1, <1>2, PruneSums
<1>5. size \in Nat
  BY DEF Forest, Node
<1>6. ASSUME NEW m \in Line(K, p) PROVE K[m].total >= size
  <2>1. p \in DOMAIN K
    BY <1>6, LineOutside
  <2>2. Line(K, p) = Line(T, p) /\ m \in DOMAIN K
    BY <1>1, <1>2, <1>3, <2>1, LineCut, LineLive DEF Forest
  <2>3. m \in Line(T, n) /\ m \in Subtree(T, n) => p \in Subtree(T, n)
    <3>1. p \in DOMAIN T /\ m \in Line(T, p) /\ Line(T, n) = {n} \cup Line(T, p)
      BY <1>1, <1>6, <2>1, <2>2, LineEq
    <3>2. Line(T, m) \subseteq Line(T, p)
      BY <3>1, LineNested DEF Forest
    <3> QED BY <3>1, <3>2 DEF Subtree
  <2>4. m # n
    BY <1>1, <1>6, <2>1, <2>2, <2>3, LineEq, SubtreeEq DEF Forest
  <2>5. m \in Line(T, n)
    BY <1>1, <1>6, <2>1, <2>2, LineEq
  <2> QED BY <1>2, <2>2, <2>4, <2>5, TotalsRise
<1>7. Forest(S) /\ AddsUp(S) /\ SamePlaces(K, S)
  BY <1>3, <1>4, <1>5, <1>6, SubtractFromAncestorsKeeps
<1>8. U = IF Complete(T, n) THEN ReopenAncestors(S, p) ELSE S
  BY DEF ResetForRescan, K
<1> HIDE DEF S, U
<1>9. Forest(U) /\ AddsUp(U) /\ SamePlaces(K, U)
  <2>1. CASE U = S
    BY <1>7, <2>1
  <2>2. CASE U = ReopenAncestors(S, p)
    <3>1. Forest(U) /\ AddsUp(U) /\ SamePlaces(S, U)
      BY <1>7, <2>2, ReopenAncestorsKeeps
    <3> QED BY <1>7, <3>1 DEF SamePlaces
  <2> QED BY <1>8, <2>1, <2>2
<1>10. ASSUME NEW m \in DOMAIN K PROVE K[m].parent # n
  <2>1. SUFFICES ASSUME T[m].parent = n PROVE FALSE
    BY <1>2
  <2>2. m # n
    BY <2>1, SubtreeEq DEF Forest
  <2>3. m \in Subtree(T, n)
    BY <1>1, <2>1, <2>2, SubtreeEq DEF Forest
  <2> QED BY <1>1, <2>2, <2>3
<1>11. Forest(U) /\ AddsUp(U) /\ DOMAIN U \subseteq DOMAIN T /\ n \in DOMAIN U
  BY <1>1, <1>9 DEF SamePlaces
<1>12. ASSUME NEW m \in DOMAIN U
       PROVE  /\ U[m].parent = T[m].parent /\ U[m].parent # n
              /\ U[m].gen = IF m = n THEN T[m].gen + 1 ELSE T[m].gen
  BY <1>2, <1>9, <1>10 DEF SamePlaces
<1> QED BY <1>11, <1>12 DEF U

LEMMA RemoveSubtreeKeeps ==
  ASSUME ScanTreeAssumption, NEW T, Forest(T), AddsUp(T), NEW n \in DOMAIN T
  PROVE  LET U == RemoveSubtree(T, n)
         IN  /\ Forest(U) /\ AddsUp(U)
             /\ DOMAIN U \subseteq DOMAIN T
             /\ \A m \in DOMAIN U : U[m].parent = T[m].parent /\ U[m].gen = T[m].gen
<1> DEFINE p == T[n].parent
           size == T[n].total
           S == SubtractFromAncestors(T, p, size)
           K == [m \in DOMAIN T \ Subtree(T, n) |-> T[m]]
           C == [m \in DOMAIN T \ Subtree(T, n) |-> S[m]]
           U == RemoveSubtree(T, n)
<1>1. DOMAIN K = DOMAIN T \ Subtree(T, n) /\ DOMAIN C = DOMAIN K /\ DOMAIN K \subseteq DOMAIN T
  OBVIOUS
<1>2. \A m \in DOMAIN K : K[m] = T[m] /\ K[m] \in Node
  BY DEF Forest
<1>3. \A m \in DOMAIN K : C[m] = IF m \in Line(T, p) THEN [T[m] EXCEPT !.total = Minus(@, size)] ELSE T[m]
  BY DEF SubtractFromAncestors
<1>4. n \notin DOMAIN K
  BY SubtreeEq DEF Forest
<1>5. U = IF p # NoNode /\ ~Complete(T, n) THEN FinishWorkUnit(C, p) ELSE C
  BY DEF RemoveSubtree
<1> HIDE DEF K, C, S, U
<1>6. Forest(K) /\ p \in DOMAIN K \cup {NoNode}
  BY <1>1, <1>2, PruneShape
<1>7. AddsUpBut(K, p, -size)
  BY <1>1, <1>2, <1>4, PruneSums
<1>8. size \in Nat /\ -size \in Int
  BY DEF Forest, Node
<1>9. Line(K, p) = Line(T, p)
  <2>1. CASE p \in DOMAIN K
    BY <1>1, <1>2, <1>6, <2>1, LineCut DEF Forest
  <2>2. CASE p = NoNode
    BY <1>6, <2>2, LineOutside, NoNodeDead DEF Forest
  <2> QED BY <1>6, <2>1, <2>2
<1>10. ASSUME NEW m \in DOMAIN K
       PROVE  /\ C[m] \in Node /\ C[m].parent = T[m].parent /\ C[m].gen = T[m].gen
              /\ C[m].own = T[m].own
              /\ C[m].total = IF m \in Line(T, p) THEN T[m].total + (-size) ELSE T[m].total
  <2>1. T[m] \in Node /\ T[m].total \in Nat
    BY <1>1 DEF Forest, Node
  <2>2. m \in Line(T, p) => T[m].total >= size
    <3> SUFFICES ASSUME m \in Line(T, p) PROVE T[m].total >= size
      OBVIOUS
    <3>1. p \in DOMAIN T
      BY LineOutside
    <3>2. m \in Line(T, n)
      BY <3>1, LineEq
    <3> QED BY <3>2, TotalsRise
  <2>3. Minus(T[m].total, size) \in Nat
        /\ (m \in Line(T, p) => Minus(T[m].total, size) = T[m].total + (-size))
    BY <1>8, <2>1, <2>2, MinusType
  <2> HIDE DEF p, size
  <2> QED BY <1>3, <2>1, <2>3 DEF Node
<1>11. AddsUp(C)
  BY <1>1, <1>2, <1>6, <1>7, <1>8, <1>9, <1>10, CarryUp
<1>12. Forest(C)
  <2>1. \A m \in DOMAIN C : C[m] \in Node /\ C[m].parent = T[m].parent
    BY <1>1, <1>10
  <2> QED BY <1>1, <2>1, PruneShape
<1>13. CASE U = C
  BY <1>1, <1>10, <1>11, <1>12, <1>13 DEF U
<1>14. CASE U = FinishWorkUnit(C, p)
  <2>1. Forest(U) /\ AddsUp(U) /\ SamePlaces(C, U)
    BY <1>11, <1>12, <1>14, FinishWorkUnitKeeps
  <2> QED BY <1>1, <1>10, <2>1 DEF SamePlaces, U
<1> QED BY <1>5, <1>13, <1>14

-----------------------------------------------------------------------------
(* What an event brings to the tree. *)

NewIds(e) == e.children \cup e.joined \cup e.closed

(* The ids an event brings are new to the tree, below the directory it is  *)
(* about, one for each directory.                                          *)
EventFits(T, e) ==
  /\ IsFiniteSet(NewIds(e))
  /\ \A i \in NewIds(e) : i.dir \in Subdirs[e.target.id.dir] /\ i \notin DOMAIN T
  /\ \A i, j \in NewIds(e) : i.dir = j.dir => i = j
  /\ e.children \cap e.joined = {} /\ e.children \cap e.closed = {} /\ e.joined \cap e.closed = {}

(* What event e leaves of the tree's shape and what it brings.             *)
AppliedTo(T, U, e) ==
  /\ DOMAIN U = DOMAIN T \cup e.children \cup Orphans(T, e.joined) \cup e.closed
  /\ \A m \in DOMAIN T :
       /\ U[m].gen = T[m].gen
       /\ U[m].parent = IF m \in GraftableRoots(T, e.joined) THEN e.target.id ELSE T[m].parent
  /\ \A m \in e.children \cup Orphans(T, e.joined) \cup e.closed :
       U[m].gen = 0 /\ U[m].parent = e.target.id

LEMMA AppliedKeeps ==
  ASSUME ScanTreeAssumption, NEW T, Forest(T), AddsUp(T), NEW e \in Event,
         EventFits(T, e), e.target.id \in DOMAIN T
  PROVE  /\ Forest(Applied(T, e)) /\ AddsUp(Applied(T, e))
         /\ AppliedTo(T, Applied(T, e), e)
<1> DEFINE n == e.target.id
           O == Orphans(T, e.joined)
           R == GraftableRoots(T, e.joined)
           U == InsertChildren(T, n, e.children)
           G == GraftRoots(U, R, n)
           V == InsertChildren(G, n, O)
           W == InsertBoundaryChildren(V, n, e.closed)
           X == AddOutstandingWork(W, n, e.anonymous)
           Y == RecordMeasurement(X, n, e.size, e.own /\ e.dense,
                                  e.own /\ ~e.dense /\ e.anonymous > 0)
           Z == FinishWorkUnit(Y, n)
           fits(ids) == /\ ids \in SUBSET Id /\ IsFiniteSet(ids) /\ ids \cap DOMAIN T = {}
                        /\ \A i \in ids : i.dir \in Subdirs[n.dir]
<1>1. n \in DOMAIN T /\ O \subseteq e.joined /\ NewIds(e) \subseteq Id
      /\ e.size \in Nat /\ e.anonymous \in Nat /\ n # NoNode
  BY NoNodeDead DEF Event, NewIds, Orphans, Forest
<1>2. fits(e.children) /\ fits(O) /\ fits(e.closed)
  <2>1. ASSUME NEW ids \in SUBSET NewIds(e) PROVE fits(ids)
    BY <1>1, <2>1, FS_Subset DEF EventFits
  <2>2. e.children \in SUBSET NewIds(e) /\ O \in SUBSET NewIds(e) /\ e.closed \in SUBSET NewIds(e)
    BY <1>1 DEF NewIds
  <2> HIDE DEF fits, O
  <2> QED BY <2>1, <2>2
<1>3. e.children \cap O = {} /\ e.children \cap e.closed = {} /\ O \cap e.closed = {}
  BY <1>1 DEF EventFits
<1>4. /\ Forest(U) /\ AddsUp(U) /\ GrownBy(T, U, n, e.children)
      /\ \A m \in DOMAIN T : U[m].purpose = T[m].purpose
  BY <1>1, <1>2, InsertChildrenKeeps
<1>5. GraftableRoots(U, e.joined) = R
  <2>1. Roots(U) = Roots(T)
    BY <1>1, <1>4 DEF Roots, GrownBy
  <2>2. \A r \in Roots(T) : U[r].purpose = T[r].purpose
    BY <1>4 DEF Roots
  <2> HIDE DEF U
  <2> QED BY <2>1, <2>2 DEF GraftableRoots
<1>6. Applied(T, e) = Z
  BY <1>5 DEF Applied
<1> HIDE DEF R, O, U
<1>7. /\ Forest(G) /\ AddsUp(G) /\ DOMAIN G = DOMAIN U
      /\ \A m \in DOMAIN U : G[m].gen = U[m].gen
                               /\ G[m].parent = IF m \in R THEN n ELSE U[m].parent
  <2>1. n \in DOMAIN U
    BY <1>1, <1>4 DEF GrownBy
  <2>2. R \in SUBSET Roots(U)
    BY <1>5 DEF GraftableRoots, R
  <2>3. \A r \in R : r.dir \in Subdirs[n.dir]
    BY DEF EventFits, NewIds, R, GraftableRoots
  <2> QED BY <1>4, <2>1, <2>2, <2>3, GraftRootsKeeps
<1> HIDE DEF G
<1>8. Forest(V) /\ AddsUp(V) /\ GrownBy(G, V, n, O)
  <2>1. n \in DOMAIN G /\ O \cap DOMAIN G = {}
    BY <1>1, <1>2, <1>3, <1>4, <1>7 DEF GrownBy
  <2> QED BY <1>2, <1>7, <2>1, InsertChildrenKeeps
<1> HIDE DEF V
<1>9. Forest(W) /\ AddsUp(W) /\ GrownBy(V, W, n, e.closed)
  <2>1. n \in DOMAIN V /\ e.closed \cap DOMAIN V = {}
    BY <1>1, <1>2, <1>3, <1>4, <1>7, <1>8 DEF GrownBy
  <2> QED BY <1>2, <1>8, <2>1, InsertBoundaryChildrenKeeps
<1> HIDE DEF W
<1>10. Forest(X) /\ AddsUp(X) /\ SamePlaces(W, X)
  BY <1>1, <1>9, AddOutstandingWorkKeeps
<1> HIDE DEF X
<1>11. Forest(Y) /\ AddsUp(Y) /\ SamePlaces(X, Y)
  <2>1. n \in DOMAIN X
    BY <1>1, <1>4, <1>7, <1>8, <1>9, <1>10 DEF GrownBy, SamePlaces
  <2> DEFINE dense == e.own /\ e.dense
             lazy == e.own /\ ~e.dense /\ e.anonymous > 0
  <2>2. dense \in BOOLEAN /\ lazy \in BOOLEAN
    OBVIOUS
  <2>3. Y = RecordMeasurement(X, n, e.size, dense, lazy)
    OBVIOUS
  <2> HIDE DEF Y, dense, lazy
  <2> QED BY <1>1, <1>10, <2>1, <2>2, <2>3, RecordMeasurementKeeps
<1> HIDE DEF Y
<1>12. Forest(Z) /\ AddsUp(Z) /\ SamePlaces(Y, Z)
  BY <1>11, FinishWorkUnitKeeps
<1> HIDE DEF Z
<1>13. SamePlaces(W, Z)
  BY <1>10, <1>11, <1>12 DEF SamePlaces
<1>14. DOMAIN Z = DOMAIN T \cup e.children \cup O \cup e.closed
  BY <1>4, <1>7, <1>8, <1>9, <1>13 DEF GrownBy, SamePlaces
<1>15. ASSUME NEW m \in DOMAIN T
       PROVE  Z[m].gen = T[m].gen /\ Z[m].parent = IF m \in R THEN n ELSE T[m].parent
  BY <1>4, <1>7, <1>8, <1>9, <1>13 DEF GrownBy, SamePlaces
<1>16. ASSUME NEW m \in e.children \cup O \cup e.closed
       PROVE  Z[m].gen = 0 /\ Z[m].parent = n
  <2>1. m \notin DOMAIN T /\ R \subseteq DOMAIN T
    BY <1>2 DEF R, GraftableRoots, Roots
  <2> QED BY <1>4, <1>7, <1>8, <1>9, <1>13, <2>1 DEF GrownBy, SamePlaces
<1> QED BY <1>6, <1>12, <1>14, <1>15, <1>16 DEF O, R, AppliedTo

-----------------------------------------------------------------------------
(* The inductive invariant behind the type invariant and the sums. *)

(* A task that is the listing task of its node is about the node's own     *)
(* directory, and only such a task makes nodes.                            *)
SoundTask == {t \in Task : t.own = t.materialize /\ (t.own => t.dir = t.target.id.dir)}
Working == [at : {"taken"}, task : SoundTask, grafts : SUBSET Dir]
             \cup [at : {"emitted"}, tasks : SUBSET SoundTask]

ThreadsOK ==
  /\ allocated \in [Dir -> Nat]
  /\ queue \subseteq SoundTask
  /\ worker \in [Worker -> {Idle} \cup Working]
  /\ events \in Seq(Event)
  /\ grafts \subseteq Dir /\ onDisk \subseteq Dir
IdsAllocated == \A n \in DOMAIN tree : n.nr < allocated[n.dir]
EventsFit ==
  \A i \in DOMAIN events :
    /\ EventFits(tree, events[i])
    /\ \A m \in NewIds(events[i]) : events[i].own /\ m.nr < allocated[m.dir]
EventsApart ==
  \A i, j \in DOMAIN events : i # j => NewIds(events[i]) \cap NewIds(events[j]) = {}
TreeInv ==
  ThreadsOK /\ Forest(tree) /\ AddsUp(tree) /\ IdsAllocated /\ EventsFit /\ EventsApart

LEMMA TypeFromInv == TreeInv => TreeTypeOK
<1> SUFFICES ASSUME TreeInv PROVE TreeTypeOK
  OBVIOUS
<1>1. ASSUME NEW w \in Worker
      PROVE  \/ worker[w] = Idle
             \/ worker[w].at = "taken" /\ worker[w].task \in Task /\ worker[w].grafts \subseteq Dir
             \/ worker[w].at = "emitted" /\ worker[w].tasks \subseteq Task
  <2>1. worker[w] \in {Idle} \cup Working
    BY DEF TreeInv, ThreadsOK
  <2> QED BY <2>1 DEF Working, SoundTask
<1>2. DOMAIN tree \subseteq Id
      /\ \A n \in DOMAIN tree :
           /\ tree[n] \in Node /\ tree[n].parent \in DOMAIN tree \cup {NoNode}
           /\ tree[n].parent # NoNode => n.dir \in Subdirs[tree[n].parent.dir]
  BY DEF TreeInv, Forest, Shaped
<1>3. queue \subseteq Task /\ grafts \subseteq Dir /\ onDisk \subseteq Dir
  BY DEF TreeInv, ThreadsOK, SoundTask
<1>4. \A i \in DOMAIN events : events[i] \in Event
  BY DEF TreeInv, ThreadsOK
<1> QED BY <1>1, <1>2, <1>3, <1>4 DEF TreeTypeOK, TreeInv, IdsAllocated

LEMMA SumsFromInv == TreeInv => TotalsAddUp
BY DEF TreeInv, AddsUp, ChildSum, TotalsAddUp

LEMMA ReferenceType ==
  ASSUME NEW T, Forest(T), NEW n \in DOMAIN T
  PROVE  /\ Reference(T, n) \in Ref /\ Reference(T, n).id = n
         /\ Reference(T, n).gen = T[n].gen /\ T[n].depth \in Nat /\ n.dir \in Dir
BY DEF Forest, Shaped, Reference, Node, Ref, Id

LEMMA ScanOfSound ==
  ASSUME NEW ref \in Ref, NEW depth \in Nat, NEW force \in BOOLEAN
  PROVE  /\ ScanOf(ref, ref.id.dir, depth, force) \in SoundTask
         /\ ScanOf(ref, ref.id.dir, depth, force).target = ref
         /\ ScanOf(ref, ref.id.dir, depth, force).own
BY DEF ScanOf, SoundTask, Task, Ref, Id

LEMMA TreeInvInit == ScanTreeAssumption /\ Init => TreeInv
<1> SUFFICES ASSUME ScanTreeAssumption, Init PROVE TreeInv
  OBVIOUS
<1> DEFINE first == [dir |-> Top, nr |-> 0]
           ref == [id |-> first, gen |-> 0]
<1>1. Forest(<<>>) /\ AddsUp(<<>>)
  <2>1. DOMAIN <<>> = {}
    OBVIOUS
  <2> QED BY <2>1, FS_EmptySet DEF Forest, Shaped, AddsUp
<1>2. first \in Id /\ ref \in Ref /\ ref.id.dir = Top /\ first.dir = Top /\ first.nr = 0
  BY DEF ScanTreeAssumption, Id, Ref
<1>3. Forest(tree) /\ AddsUp(tree) /\ GrownBy(<<>>, tree, NoNode, {first})
  <2>1. first \notin DOMAIN <<>>
    OBVIOUS
  <2>2. tree = InsertRoot(<<>>, first, "Filesystem")
    BY DEF Init
  <2> HIDE DEF first
  <2> QED BY <1>1, <1>2, <2>1, <2>2, InsertRootKeeps
<1>4. DOMAIN tree = {first}
  BY <1>3 DEF GrownBy
<1>5. ThreadsOK
  <2>1. queue \subseteq SoundTask
    <3>1. ScanOf(ref, ref.id.dir, 0, FALSE) \in SoundTask
      BY <1>2, ScanOfSound
    <3> QED BY <1>2, <3>1 DEF Init
  <2>2. allocated \in [Dir -> Nat] /\ worker \in [Worker -> {Idle} \cup Working] /\ events \in Seq(Event)
    BY DEF Init
  <2>3. grafts \subseteq Dir /\ onDisk \subseteq Dir
    BY DEF Init, ScanTreeAssumption
  <2> QED BY <2>1, <2>2, <2>3 DEF ThreadsOK
<1>6. IdsAllocated
  BY <1>2, <1>4 DEF IdsAllocated, Init, ScanTreeAssumption
<1>7. EventsFit /\ EventsApart
  BY DEF EventsFit, EventsApart, Init
<1> QED BY <1>3, <1>5, <1>6, <1>7 DEF TreeInv

(* Steps that leave the tree, the events and the ids alone.                *)
LEMMA TreeInvQuiet ==
  ASSUME TreeInv, ThreadsOK', UNCHANGED <<tree, events, allocated>>
  PROVE  TreeInv'
BY DEF TreeInv, IdsAllocated, EventsFit, EventsApart, Forest, AddsUp, Shaped, ChildSum

(* Steps after which the tree is a smaller one, the ids being as before.   *)
LEMMA TreeInvSmaller ==
  ASSUME TreeInv, ThreadsOK', UNCHANGED <<events, allocated>>,
         Forest(tree'), AddsUp(tree'), DOMAIN tree' \subseteq DOMAIN tree
  PROVE  TreeInv'
<1>1. IdsAllocated'
  BY DEF TreeInv, IdsAllocated
<1>2. EventsFit'
  BY DEF TreeInv, EventsFit, EventFits
<1>3. EventsApart'
  BY DEF TreeInv, EventsApart
<1> QED BY <1>1, <1>2, <1>3 DEF TreeInv

(* rescan and remove of the coordinator.                                   *)
LEMMA TreeInvRescan ==
  ASSUME ScanTreeAssumption, TreeInv, NEW n, NEW force \in BOOLEAN,
         Becomes(Rescan(Now, n, force)), UNCHANGED <<worker, events, grafts, allocated, onDisk>>
  PROVE  TreeInv'
<1>1. CASE n \notin DOMAIN tree
  <2>1. tree' = tree /\ queue' = queue
    BY <1>1 DEF Becomes, Rescan, Now
  <2> QED BY <2>1, TreeInvQuiet DEF TreeInv, ThreadsOK
<1>2. CASE n \in DOMAIN tree
  <2> DEFINE T == ResetForRescan(tree, n)
             t == ScanOf(Reference(T, n), n.dir, T[n].depth, force)
  <2>1. Forest(T) /\ AddsUp(T) /\ DOMAIN T \subseteq DOMAIN tree /\ n \in DOMAIN T
    BY <1>2, ResetForRescanKeeps DEF TreeInv
  <2>2. tree' = T /\ queue' \subseteq queue \cup {t}
    BY <1>2 DEF Becomes, Rescan, Now
  <2> HIDE DEF T
  <2>3. t \in SoundTask
    <3>1. Reference(T, n) \in Ref /\ Reference(T, n).id = n /\ T[n].depth \in Nat
      BY <2>1, ReferenceType
    <3> QED BY <3>1, ScanOfSound
  <2> HIDE DEF t
  <2>4. ThreadsOK'
    BY <2>2, <2>3 DEF TreeInv, ThreadsOK
  <2> QED BY <2>1, <2>2, <2>4, TreeInvSmaller
<1> QED BY <1>1, <1>2

LEMMA TreeInvRemove ==
  ASSUME ScanTreeAssumption, TreeInv, NEW n,
         Becomes(RemoveNode(Now, n)), UNCHANGED <<worker, events, grafts, allocated, onDisk>>
  PROVE  TreeInv'
<1>1. CASE n \notin DOMAIN tree
  <2>1. tree' = tree /\ queue' = {}
    BY <1>1 DEF Becomes, RemoveNode, Now
  <2> QED BY <2>1, TreeInvQuiet DEF TreeInv, ThreadsOK
<1>2. CASE n \in DOMAIN tree
  <2> DEFINE T == RemoveSubtree(tree, n)
  <2>1. Forest(T) /\ AddsUp(T) /\ DOMAIN T \subseteq DOMAIN tree
    BY <1>2, RemoveSubtreeKeeps DEF TreeInv
  <2>2. tree' = T /\ queue' \subseteq queue
    BY <1>2 DEF Becomes, RemoveNode, Now
  <2> HIDE DEF T
  <2>3. ThreadsOK'
    BY <2>2 DEF TreeInv, ThreadsOK
  <2> QED BY <2>1, <2>2, <2>3, TreeInvSmaller
<1> QED BY <1>1, <1>2

LEMMA NextIdFresh ==
  ASSUME TreeInv, NEW d \in Dir
  PROVE  /\ NextId(d) \in Id /\ NextId(d).dir = d /\ NextId(d).nr = allocated[d]
         /\ NextId(d) \notin DOMAIN tree
         /\ \A i \in DOMAIN events : NextId(d) \notin NewIds(events[i])
<1>1. NextId(d) \in Id /\ NextId(d).dir = d /\ NextId(d).nr = allocated[d] /\ allocated[d] \in Nat
  BY DEF NextId, Id, TreeInv, ThreadsOK
<1> HIDE DEF NextId
<1> QED BY <1>1 DEF TreeInv, IdsAllocated, EventsFit

(* The ids handed out so far stay handed out.                              *)
LEMMA AllocateGrows ==
  ASSUME TreeInv, NEW D \in SUBSET Dir, Allocate(D)
  PROVE  /\ allocated' \in [Dir -> Nat]
         /\ \A d \in Dir : allocated[d] <= allocated'[d]
         /\ \A d \in D : allocated[d] < allocated'[d]
BY DEF Allocate, TreeInv, ThreadsOK

LEMMA TreeInvStartRoot ==
  ASSUME ScanTreeAssumption, TreeInv, NEW d \in Dir, NEW purpose \in {"Filesystem", "Measurement"},
         StartRoot(d, purpose), UNCHANGED <<worker, events, onDisk>>, grafts' \subseteq Dir
  PROVE  TreeInv'
<1> DEFINE n == NextId(d)
           T == InsertRoot(tree, n, purpose)
           t == ScanOf(Reference(T, n), d, 0, FALSE)
<1>1. n \in Id /\ n \notin DOMAIN tree /\ n.dir = d /\ n.nr = allocated[d]
      /\ \A i \in DOMAIN events : n \notin NewIds(events[i])
  BY NextIdFresh
<1>2. tree' = T /\ queue' = queue \cup {t} /\ Allocate({d})
  BY DEF StartRoot, Becomes
<1> HIDE DEF n
<1>3. Forest(T) /\ AddsUp(T) /\ GrownBy(tree, T, NoNode, {n})
  BY <1>1, InsertRootKeeps DEF TreeInv
<1> HIDE DEF T
<1>4. n \in DOMAIN T /\ DOMAIN T = DOMAIN tree \cup {n}
  BY <1>3 DEF GrownBy
<1>5. t \in SoundTask
  <2>1. Reference(T, n) \in Ref /\ Reference(T, n).id = n
    BY <1>3, <1>4, ReferenceType
  <2> QED BY <1>1, <2>1, ScanOfSound
<1> HIDE DEF t
<1>6. /\ allocated' \in [Dir -> Nat] /\ allocated[d] < allocated'[d]
      /\ \A x \in Dir : allocated[x] <= allocated'[x]
  BY <1>2, AllocateGrows
<1>7. ThreadsOK'
  BY <1>2, <1>5, <1>6 DEF TreeInv, ThreadsOK
<1>8. IdsAllocated'
  <2> SUFFICES ASSUME NEW m \in DOMAIN T PROVE m.nr < allocated'[m.dir]
    BY <1>2 DEF IdsAllocated
  <2>1. CASE m = n
    BY <1>1, <1>6, <2>1
  <2>2. CASE m \in DOMAIN tree
    <3>1. m.nr < allocated[m.dir] /\ m.dir \in Dir /\ m.nr \in Nat
      BY <2>2 DEF TreeInv, IdsAllocated, Forest, Shaped, Id
    <3>2. allocated[m.dir] \in Nat /\ allocated'[m.dir] \in Nat
      BY <1>6, <3>1 DEF TreeInv, ThreadsOK
    <3> QED BY <1>6, <3>1, <3>2
  <2> QED BY <1>4, <2>1, <2>2
<1>9. EventsFit'
  <2> SUFFICES ASSUME NEW i \in DOMAIN events
               PROVE  /\ EventFits(T, events[i])
                      /\ \A m \in NewIds(events[i]) : events[i].own /\ m.nr < allocated'[m.dir]
    BY <1>2 DEF EventsFit
  <2>1. EventFits(tree, events[i]) /\ events[i] \in Event
        /\ \A m \in NewIds(events[i]) : events[i].own /\ m.nr < allocated[m.dir]
    BY DEF TreeInv, EventsFit, ThreadsOK
  <2>2. EventFits(T, events[i])
    BY <1>1, <1>4, <2>1 DEF EventFits
  <2>3. ASSUME NEW m \in NewIds(events[i]) PROVE m.nr < allocated'[m.dir]
    <3>1. m.nr < allocated[m.dir] /\ m.dir \in Dir /\ m.nr \in Nat
      BY <2>1 DEF NewIds, Event, Id
    <3>2. allocated[m.dir] \in Nat /\ allocated'[m.dir] \in Nat
      BY <1>6, <3>1 DEF TreeInv, ThreadsOK
    <3> QED BY <1>6, <3>1, <3>2
  <2> QED BY <2>1, <2>2, <2>3
<1>10. EventsApart'
  BY DEF TreeInv, EventsApart
<1> QED BY <1>2, <1>3, <1>7, <1>8, <1>9, <1>10 DEF TreeInv

(* What a worker finds in a directory: new ids for some subdirectories,    *)
(* when the task is the listing task of its node.                          *)
LEMMA MeasurementFields ==
  ASSUME NEW t \in SoundTask, NEW points
  PROVE  LET e == Measurement(t, points)
             shown(D) == IF ShowsBoundaries(t) THEN {NextId(d) : d \in D} ELSE {}
         IN  /\ e.target = t.target /\ e.own = t.own /\ e.failed = FALSE
             /\ e.size = FileBytes[t.dir] + Cardinality(NewLinks(t))
             /\ e.children = IF Materializes(t) THEN {NextId(d) : d \in Entered(t, points)} ELSE {}
             /\ e.joined = shown(OtherRoots(t, points)) /\ e.closed = shown(Refused(t))
             /\ e.anonymous = IF Materializes(t) THEN 0 ELSE Cardinality(Entered(t, points))
             /\ e.dense = IsDense(t)
             /\ e = [target |-> e.target, own |-> e.own, size |-> e.size, children |-> e.children,
                     joined |-> e.joined, closed |-> e.closed, anonymous |-> e.anonymous,
                     dense |-> e.dense, failed |-> e.failed]
<1> DEFINE shown(D) == IF ShowsBoundaries(t) THEN {NextId(d) : d \in D} ELSE {}
           size == FileBytes[t.dir] + Cardinality(NewLinks(t))
           children == IF Materializes(t) THEN {NextId(d) : d \in Entered(t, points)} ELSE {}
           joined == shown(OtherRoots(t, points))
           closed == shown(Refused(t))
           anonymous == IF Materializes(t) THEN 0 ELSE Cardinality(Entered(t, points))
           dense == IsDense(t)
           N == NothingFound(t)
           e == Measurement(t, points)
<1>1. e = [N EXCEPT !.size = size, !.children = children, !.joined = joined,
                    !.closed = closed, !.anonymous = anonymous, !.dense = dense]
  BY DEF Measurement
<1>2. N = [target |-> t.target, own |-> t.own, size |-> 0, children |-> {}, joined |-> {},
           closed |-> {}, anonymous |-> 0, dense |-> FALSE, failed |-> FALSE]
  BY DEF NothingFound
<1> HIDE DEF size, children, joined, closed, anonymous, dense, N, e
<1>3. e = [target |-> t.target, own |-> t.own, size |-> size, children |-> children,
           joined |-> joined, closed |-> closed, anonymous |-> anonymous,
           dense |-> dense, failed |-> FALSE]
  BY <1>1, <1>2
<1>4. /\ e.target = t.target /\ e.own = t.own /\ e.failed = FALSE
      /\ e.size = size /\ e.children = children /\ e.joined = joined /\ e.closed = closed
      /\ e.anonymous = anonymous /\ e.dense = dense
  BY <1>3
<1>5. e = [target |-> e.target, own |-> e.own, size |-> e.size, children |-> e.children,
           joined |-> e.joined, closed |-> e.closed, anonymous |-> e.anonymous,
           dense |-> e.dense, failed |-> e.failed]
  BY <1>3, <1>4
<1> QED BY <1>4, <1>5 DEF size, children, joined, closed, anonymous, dense, e

LEMMA FoundDirs ==
  ASSUME ScanTreeAssumption, NEW t \in SoundTask, NEW points
  PROVE  /\ Entered(t, points) \subseteq Subdirs[t.dir] /\ OtherRoots(t, points) \subseteq Subdirs[t.dir]
         /\ Refused(t) \subseteq Subdirs[t.dir] /\ Subdirs[t.dir] \subseteq Dir
         /\ Entered(t, points) \cap OtherRoots(t, points) = {}
         /\ Entered(t, points) \cap Refused(t) = {} /\ OtherRoots(t, points) \cap Refused(t) = {}
         /\ IsFiniteSet(Subdirs[t.dir])
<1>1. t.dir \in Dir
  BY DEF SoundTask, Task
<1>2. Subdirs[t.dir] \subseteq Dir
  BY <1>1 DEF ScanTreeAssumption
<1>3. IsFiniteSet(Subdirs[t.dir])
  BY <1>2, FS_Subset, ScanTreeAssumption DEF ScanTreeAssumption
<1> QED BY <1>2, <1>3 DEF Entered, OtherRoots, Refused, Found

LEMMA MeasurementFits ==
  ASSUME ScanTreeAssumption, TreeInv, NEW t \in SoundTask, NEW points
  PROVE  /\ Measurement(t, points) \in Event /\ Measurement(t, points).target = t.target
         /\ Measurement(t, points).own = t.own
         /\ EventFits(tree, Measurement(t, points))
         /\ \A i \in NewIds(Measurement(t, points)) : \E d \in Subdirs[t.dir] : t.own /\ i = NextId(d)
<1> DEFINE e == Measurement(t, points)
           E == Entered(t, points)
           J == OtherRoots(t, points)
           C == Refused(t)
<1>1. /\ e.target = t.target /\ e.own = t.own /\ e.failed = FALSE
      /\ e.size = FileBytes[t.dir] + Cardinality(NewLinks(t))
      /\ e.children = IF Materializes(t) THEN {NextId(d) : d \in E} ELSE {}
      /\ e.joined = IF ShowsBoundaries(t) THEN {NextId(d) : d \in J} ELSE {}
      /\ e.closed = IF ShowsBoundaries(t) THEN {NextId(d) : d \in C} ELSE {}
      /\ e.anonymous = IF Materializes(t) THEN 0 ELSE Cardinality(E)
      /\ e.dense = IsDense(t)
      /\ e = [target |-> e.target, own |-> e.own, size |-> e.size, children |-> e.children,
              joined |-> e.joined, closed |-> e.closed, anonymous |-> e.anonymous,
              dense |-> e.dense, failed |-> e.failed]
  BY MeasurementFields
<1>2. /\ E \subseteq Subdirs[t.dir] /\ J \subseteq Subdirs[t.dir] /\ C \subseteq Subdirs[t.dir]
      /\ E \cap J = {} /\ E \cap C = {} /\ J \cap C = {}
      /\ Subdirs[t.dir] \subseteq Dir /\ IsFiniteSet(Subdirs[t.dir])
  BY FoundDirs
<1>3. /\ t \in Task /\ (t.own => t.dir = t.target.id.dir)
      /\ (Materializes(t) => t.own) /\ (ShowsBoundaries(t) => t.own)
  BY DEF SoundTask, Materializes, ShowsBoundaries
<1> HIDE DEF e, E, J, C
<1>4. ASSUME NEW i \in NewIds(e)
      PROVE  \E d \in Subdirs[t.dir] : t.own /\ i = NextId(d)
  BY <1>1, <1>2, <1>3 DEF NewIds
<1>5. e.children \subseteq Id /\ e.joined \subseteq Id /\ e.closed \subseteq Id
  BY <1>2, <1>4, NextIdFresh DEF NewIds
<1>6. e.size \in Nat /\ e.anonymous \in Nat
  <2>1. IsFiniteSet(NewLinks(t)) /\ FileBytes[t.dir] \in Nat
    <3>1. t.dir \in Dir
      BY <1>3 DEF Task
    <3>2. IsFiniteSet(Links[t.dir]) /\ FileBytes[t.dir] \in Nat
      BY <3>1 DEF ScanTreeAssumption
    <3> QED BY <3>2, FS_Subset DEF NewLinks
  <2>2. Cardinality(NewLinks(t)) \in Nat
    BY <2>1, FS_CardinalityType
  <2>3. IsFiniteSet(E)
    BY <1>2, FS_Subset
  <2>4. Cardinality(E) \in Nat
    BY <2>3, FS_CardinalityType
  <2> QED BY <1>1, <2>1, <2>2, <2>4
<1>7. e \in Event
  <2>1. e.target \in Ref /\ e.own \in BOOLEAN /\ e.failed \in BOOLEAN
    BY <1>1, <1>3 DEF Task
  <2>2. e.dense \in BOOLEAN
    BY <1>1 DEF IsDense
  <2> QED BY <1>1, <1>5, <1>6, <2>1, <2>2 DEF Event
<1>8. EventFits(tree, e)
  <2>1. IsFiniteSet(NewIds(e))
    <3> DEFINE S == {NextId(d) : d \in Subdirs[t.dir]}
    <3>1. IsFiniteSet(S)
      <4> DEFINE D == Subdirs[t.dir]
                 f == [d \in D |-> NextId(d)]
      <4>1. f \in Surjection(D, S)
        BY DEF Surjection
      <4>2. IsFiniteSet(D)
        BY <1>2
      <4> HIDE DEF D, f, S
      <4> QED BY <4>1, <4>2, FS_Surjection
    <3>2. NewIds(e) \subseteq S
      BY <1>4
    <3> HIDE DEF S
    <3> QED BY <3>1, <3>2, FS_Subset
  <2>2. ASSUME NEW i \in NewIds(e)
        PROVE  i.dir \in Subdirs[e.target.id.dir] /\ i \notin DOMAIN tree /\ i = NextId(i.dir)
    <3>1. PICK d \in Subdirs[t.dir] : t.own /\ i = NextId(d)
      BY <1>4
    <3>2. i.dir = d /\ i \notin DOMAIN tree
      BY <1>2, <3>1, NextIdFresh
    <3> QED BY <1>1, <1>3, <3>1, <3>2
  <2>3. \A i, j \in NewIds(e) : i.dir = j.dir => i = j
    BY <2>2
  <2>4. \A i \in e.children : i.dir \in E
    BY <1>1, <1>2, NextIdFresh
  <2>5. \A i \in e.joined : i.dir \in J
    BY <1>1, <1>2, NextIdFresh
  <2>6. \A i \in e.closed : i.dir \in C
    BY <1>1, <1>2, NextIdFresh
  <2> QED BY <1>2, <2>1, <2>2, <2>3, <2>4, <2>5, <2>6 DEF EventFits
<1> QED BY <1>1, <1>4, <1>7, <1>8 DEF e

LEMMA ChildTaskSound ==
  ASSUME ScanTreeAssumption, TreeInv, NEW t \in SoundTask, NEW d \in Dir
  PROVE  ChildTask(t, d) \in SoundTask
<1>1. t \in Task /\ t.target \in Ref /\ t.depth \in Nat /\ t.treeDepth \in Nat
  BY DEF SoundTask, Task
<1>2. NextId(d) \in Id /\ NextId(d).dir = d
  BY NextIdFresh
<1> DEFINE m == Materializes(t)
           r == IF m THEN [id |-> NextId(d), gen |-> 0] ELSE t.target
<1>3. r \in Ref /\ m \in BOOLEAN /\ (m => r.id.dir = d)
  BY <1>1, <1>2 DEF Ref, Materializes, SoundTask, Task, IsDense
<1>4. ChildTask(t, d) = [target |-> r, dir |-> d, depth |-> t.depth + 1,
                         treeDepth |-> t.treeDepth + 1, own |-> m, materialize |-> m, force |-> FALSE]
  BY DEF ChildTask
<1> HIDE DEF m, r
<1> QED BY <1>1, <1>3, <1>4 DEF SoundTask, Task

LEMMA TakenSound ==
  ASSUME TreeInv, NEW w \in Worker
  PROVE  /\ worker[w].at = "taken" => worker[w].task \in SoundTask
         /\ worker[w].at = "emitted" => worker[w].tasks \subseteq SoundTask
<1>1. worker[w] \in {Idle} \cup Working
  BY DEF TreeInv, ThreadsOK
<1> QED BY <1>1 DEF Working, Idle

LEMMA TreeInvTake ==
  ASSUME TreeInv, NEW w \in Worker, Take(w)
  PROVE  TreeInv'
<1>1. PICK t \in queue : /\ queue' = queue \ {t}
                         /\ worker' = [worker EXCEPT ![w] = [at |-> "taken", task |-> t, grafts |-> grafts]]
  BY DEF Take
<1>2. UNCHANGED <<tree, events, grafts, allocated, onDisk>>
  BY DEF Take, diskVars
<1>3. [at |-> "taken", task |-> t, grafts |-> grafts] \in Working
  BY DEF Working, TreeInv, ThreadsOK
<1>4. ThreadsOK'
  BY <1>1, <1>2, <1>3 DEF TreeInv, ThreadsOK
<1> QED BY <1>2, <1>4, TreeInvQuiet

LEMMA TreeInvPushChildren ==
  ASSUME TreeInv, NEW w \in Worker, PushChildren(w)
  PROVE  TreeInv'
<1>1. worker[w].tasks \subseteq SoundTask
  BY TakenSound DEF PushChildren
<1>2. UNCHANGED <<tree, events, grafts, allocated, onDisk>>
  BY DEF PushChildren, diskVars
<1>3. ThreadsOK'
  BY <1>1, <1>2 DEF TreeInv, ThreadsOK, PushChildren
<1> QED BY <1>2, <1>3, TreeInvQuiet

LEMMA TreeInvEmitProblem ==
  ASSUME ScanTreeAssumption, TreeInv, NEW w \in Worker, EmitProblem(w)
  PROVE  TreeInv'
<1> DEFINE t == worker[w].task
           e == [NothingFound(t) EXCEPT !.failed = TRUE]
<1>1. t \in SoundTask
  BY TakenSound DEF EmitProblem
<1>2. /\ events' = Append(events, e) /\ worker' = [worker EXCEPT ![w] = Idle]
      /\ UNCHANGED <<tree, queue, grafts, allocated, onDisk>>
  BY DEF EmitProblem, diskVars
<1>3. e \in Event /\ NewIds(e) = {} /\ EventFits(tree, e)
  <2>1. e = [target |-> t.target, own |-> t.own, size |-> 0, children |-> {}, joined |-> {},
             closed |-> {}, anonymous |-> 0, dense |-> FALSE, failed |-> TRUE]
    <3> DEFINE N == NothingFound(t)
    <3>1. N = [target |-> t.target, own |-> t.own, size |-> 0, children |-> {}, joined |-> {},
               closed |-> {}, anonymous |-> 0, dense |-> FALSE, failed |-> FALSE]
      BY DEF NothingFound
    <3>2. e = [N EXCEPT !.failed = TRUE]
      OBVIOUS
    <3> HIDE DEF N, e
    <3> QED BY <3>1, <3>2
  <2> HIDE DEF e
  <2>2. t.target \in Ref /\ t.own \in BOOLEAN
    BY <1>1 DEF SoundTask, Task
  <2>3. e \in Event
    BY <2>1, <2>2 DEF Event
  <2>4. NewIds(e) = {} /\ e.children = {} /\ e.joined = {} /\ e.closed = {}
    BY <2>1 DEF NewIds
  <2> QED BY <2>3, <2>4, FS_EmptySet DEF EventFits
<1> HIDE DEF e
<1>4. events \in Seq(Event)
  BY DEF TreeInv, ThreadsOK
<1>5. /\ events' \in Seq(Event) /\ Len(events') = Len(events) + 1
      /\ DOMAIN events' = 1..Len(events) + 1 /\ DOMAIN events = 1..Len(events)
      /\ \A i \in DOMAIN events : events'[i] = events[i]
      /\ events'[Len(events) + 1] = e
  BY <1>2, <1>3, <1>4
<1>6. ThreadsOK'
  BY <1>2, <1>5 DEF TreeInv, ThreadsOK
<1>7. \A i \in DOMAIN events' : events'[i] = e \/ (i \in DOMAIN events /\ events'[i] = events[i])
  BY <1>4, <1>5
<1>8. EventsFit'
  BY <1>2, <1>3, <1>7 DEF TreeInv, EventsFit
<1>9. EventsApart'
  BY <1>3, <1>7 DEF TreeInv, EventsApart
<1> QED BY <1>2, <1>6, <1>8, <1>9 DEF TreeInv, IdsAllocated, Forest, AddsUp, Shaped, ChildSum

LEMMA TreeInvEmitMeasurement ==
  ASSUME ScanTreeAssumption, TreeInv, NEW w \in Worker, EmitMeasurement(w)
  PROVE  TreeInv'
<1> DEFINE t == worker[w].task
           points == worker[w].grafts
           e == Measurement(t, points)
           tasks == {ChildTask(t, d) : d \in Entered(t, points)}
           D == {n.dir : n \in NewIds(e)}
<1>1. t \in SoundTask
  BY TakenSound DEF EmitMeasurement
<1>2. /\ events' = Append(events, e)
      /\ Allocate(D)
      /\ worker' = [worker EXCEPT ![w] = IF tasks = {} THEN Idle ELSE [at |-> "emitted", tasks |-> tasks]]
      /\ UNCHANGED <<tree, queue, grafts, onDisk>>
  BY DEF EmitMeasurement, NewIds
<1>3. /\ e \in Event /\ e.own = t.own /\ EventFits(tree, e)
      /\ \A i \in NewIds(e) : \E d \in Subdirs[t.dir] : t.own /\ i = NextId(d)
  BY <1>1, MeasurementFits
<1>4. tasks \subseteq SoundTask
  <2>1. Entered(t, points) \subseteq Dir
    BY <1>1, FoundDirs
  <2> QED BY <1>1, <2>1, ChildTaskSound
<1> HIDE DEF e, tasks
<1>5. ASSUME NEW i \in NewIds(e)
      PROVE  /\ i.dir \in Dir /\ i.nr = allocated[i.dir] /\ e.own
             /\ \A j \in DOMAIN events : i \notin NewIds(events[j])
  <2>1. PICK d \in Subdirs[t.dir] : t.own /\ i = NextId(d)
    BY <1>3
  <2>2. d \in Dir
    BY <1>1, FoundDirs
  <2> QED BY <1>3, <2>1, <2>2, NextIdFresh
<1>6. /\ allocated' \in [Dir -> Nat]
      /\ \A d \in Dir : allocated[d] <= allocated'[d]
      /\ \A d \in D : allocated[d] < allocated'[d]
  <2>1. D \in SUBSET Dir
    BY <1>5
  <2> HIDE DEF D
  <2> QED BY <1>2, <2>1, AllocateGrows
<1>7. events \in Seq(Event) /\ allocated \in [Dir -> Nat]
  BY DEF TreeInv, ThreadsOK
<1>8. /\ events' \in Seq(Event) /\ Len(events') = Len(events) + 1
      /\ DOMAIN events' = 1..Len(events) + 1 /\ DOMAIN events = 1..Len(events)
      /\ \A i \in DOMAIN events : events'[i] = events[i]
      /\ events'[Len(events) + 1] = e
  BY <1>2, <1>3, <1>7
<1>9. \A i \in DOMAIN events' : \/ i = Len(events) + 1 /\ events'[i] = e
                                \/ i \in DOMAIN events /\ events'[i] = events[i]
  BY <1>7, <1>8
<1>10. ThreadsOK'
  <2>1. [at |-> "emitted", tasks |-> tasks] \in Working
    BY <1>4 DEF Working
  <2>2. worker' \in [Worker -> {Idle} \cup Working]
    BY <1>2, <2>1 DEF TreeInv, ThreadsOK
  <2> QED BY <1>2, <1>6, <1>8, <2>2 DEF TreeInv, ThreadsOK
<1>11. IdsAllocated'
  <2> SUFFICES ASSUME NEW m \in DOMAIN tree PROVE m.nr < allocated'[m.dir]
    BY <1>2 DEF IdsAllocated
  <2>1. m.nr < allocated[m.dir] /\ m.dir \in Dir /\ m.nr \in Nat
    BY DEF TreeInv, IdsAllocated, Forest, Shaped, Id
  <2>2. allocated[m.dir] \in Nat /\ allocated'[m.dir] \in Nat /\ allocated[m.dir] <= allocated'[m.dir]
    BY <1>6, <1>7, <2>1
  <2> QED BY <2>1, <2>2
<1>12. EventsFit'
  <2> SUFFICES ASSUME NEW i \in DOMAIN events'
               PROVE  /\ EventFits(tree, events'[i])
                      /\ \A m \in NewIds(events'[i]) : events'[i].own /\ m.nr < allocated'[m.dir]
    BY <1>2 DEF EventsFit
  <2>1. CASE events'[i] = e
    <3>1. ASSUME NEW m \in NewIds(e) PROVE m.nr < allocated'[m.dir]
      <4>1. m.dir \in D /\ m.nr = allocated[m.dir]
        BY <1>5
      <4> HIDE DEF D
      <4> QED BY <1>6, <4>1
    <3> QED BY <1>3, <1>5, <2>1, <3>1
  <2>2. CASE i \in DOMAIN events /\ events'[i] = events[i]
    <3>1. /\ EventFits(tree, events[i]) /\ events[i] \in Event
          /\ \A m \in NewIds(events[i]) : events[i].own /\ m.nr < allocated[m.dir]
      BY <2>2, <1>7 DEF TreeInv, EventsFit
    <3>2. ASSUME NEW m \in NewIds(events[i]) PROVE m.nr < allocated'[m.dir]
      <4>1. m.nr < allocated[m.dir] /\ m.dir \in Dir /\ m.nr \in Nat
        BY <3>1 DEF NewIds, Event, Id
      <4>2. allocated[m.dir] \in Nat /\ allocated'[m.dir] \in Nat /\ allocated[m.dir] <= allocated'[m.dir]
        BY <1>6, <1>7, <4>1
      <4> QED BY <4>1, <4>2
    <3> QED BY <2>2, <3>1, <3>2
  <2> QED BY <1>9, <2>1, <2>2
<1>13. EventsApart'
  BY <1>5, <1>9 DEF TreeInv, EventsApart
<1> QED BY <1>2, <1>10, <1>11, <1>12, <1>13 DEF TreeInv, Forest, AddsUp, Shaped, ChildSum

(* The events that are left when the first one has been taken.             *)
LEMMA EventsLeft ==
  ASSUME events \in Seq(Event), events # <<>>, events' = Tail(events)
  PROVE  /\ Head(events) = events[1] /\ 1 \in DOMAIN events /\ events[1] \in Event
         /\ events' \in Seq(Event)
         /\ \A i \in DOMAIN events' : i + 1 \in DOMAIN events /\ i + 1 # 1 /\ i \in Nat
                                        /\ events'[i] = events[i + 1]
OBVIOUS

(* A step that takes the first event and puts U in the tree's place, which *)
(* has some of that event's ids at most that the tree had not.             *)
LEMMA TreeInvPump ==
  ASSUME TreeInv, events # <<>>, events' = Tail(events), NEW U, tree' = U,
         Forest(U), AddsUp(U), DOMAIN U \subseteq DOMAIN tree \cup NewIds(Head(events)),
         queue' \subseteq SoundTask, grafts' \subseteq Dir, UNCHANGED <<worker, allocated, onDisk>>
  PROVE  TreeInv'
<1> DEFINE e == Head(events)
<1>1. events \in Seq(Event)
  BY DEF TreeInv, ThreadsOK
<1>2. /\ e = events[1] /\ 1 \in DOMAIN events /\ events' \in Seq(Event)
      /\ \A i \in DOMAIN events' : i + 1 \in DOMAIN events /\ i + 1 # 1 /\ i \in Nat
                                     /\ events'[i] = events[i + 1]
  BY <1>1, EventsLeft
<1> HIDE DEF e
<1>3. ThreadsOK'
  BY <1>2 DEF TreeInv, ThreadsOK
<1>4. IdsAllocated'
  BY <1>2 DEF TreeInv, IdsAllocated, EventsFit, e
<1>5. EventsFit'
  <2> SUFFICES ASSUME NEW i \in DOMAIN events'
               PROVE  /\ EventFits(U, events'[i])
                      /\ \A m \in NewIds(events'[i]) : events'[i].own /\ m.nr < allocated[m.dir]
    BY DEF EventsFit
  <2> DEFINE f == events'[i]
  <2>1. i + 1 \in DOMAIN events /\ i + 1 # 1 /\ f = events[i + 1]
    BY <1>2
  <2>2. /\ EventFits(tree, f)
        /\ \A m \in NewIds(f) : f.own /\ m.nr < allocated[m.dir]
    BY <2>1 DEF TreeInv, EventsFit
  <2>3. NewIds(f) \cap NewIds(e) = {}
    BY <1>2, <2>1 DEF TreeInv, EventsApart
  <2> HIDE DEF f
  <2>4. EventFits(U, f)
    BY <2>2, <2>3 DEF EventFits, e
  <2> QED BY <2>2, <2>4 DEF f
<1>6. EventsApart'
  <2> SUFFICES ASSUME NEW i \in DOMAIN events', NEW j \in DOMAIN events', i # j
               PROVE  NewIds(events'[i]) \cap NewIds(events'[j]) = {}
    BY DEF EventsApart
  <2>1. i + 1 \in DOMAIN events /\ j + 1 \in DOMAIN events /\ i + 1 # j + 1
        /\ events'[i] = events[i + 1] /\ events'[j] = events[j + 1]
    BY <1>2
  <2> QED BY <2>1 DEF TreeInv, EventsApart
<1> QED BY <1>3, <1>4, <1>5, <1>6 DEF TreeInv

LEMMA HeadOfEvents ==
  ASSUME TreeInv, events # <<>>
  PROVE  /\ Head(events) \in Event /\ EventFits(tree, Head(events))
         /\ \A m \in NewIds(Head(events)) : Head(events).own /\ m.nr < allocated[m.dir]
<1>1. events \in Seq(Event)
  BY DEF TreeInv, ThreadsOK
<1>2. Head(events) = events[1] /\ 1 \in DOMAIN events /\ events[1] \in Event
  BY <1>1
<1> QED BY <1>2 DEF TreeInv, EventsFit

LEMMA TreeInvCoordinator ==
  ASSUME ScanTreeAssumption, TreeInv, CoordinatorStep
  PROVE  TreeInv'
<1>1. events # <<>> /\ events' = Tail(events)
  BY DEF CoordinatorStep, DropEvent, ApplyProblem, ApplyMeasurement, HasEvent
<1>2. Forest(tree) /\ AddsUp(tree) /\ queue \subseteq SoundTask /\ grafts \subseteq Dir
  BY DEF TreeInv, ThreadsOK
<1>3. CASE DropEvent
  <2>1. tree' = tree /\ UNCHANGED <<queue, grafts, worker, allocated, onDisk>>
    BY <1>3 DEF DropEvent, diskVars
  <2>2. DOMAIN tree \subseteq DOMAIN tree \cup NewIds(Head(events))
    OBVIOUS
  <2> QED BY <1>1, <1>2, <2>1, <2>2, TreeInvPump
<1>4. CASE ApplyProblem
  <2> DEFINE U == FinishWorkUnit(tree, Head(events).target.id)
  <2>1. tree' = U /\ UNCHANGED <<queue, grafts, worker, allocated, onDisk>>
    BY <1>4 DEF ApplyProblem, diskVars
  <2>2. Forest(U) /\ AddsUp(U) /\ DOMAIN U \subseteq DOMAIN tree \cup NewIds(Head(events))
    BY <1>2, FinishWorkUnitKeeps DEF SamePlaces
  <2> HIDE DEF U
  <2> QED BY <1>1, <1>2, <2>1, <2>2, TreeInvPump
<1>5. CASE ApplyMeasurement
  <2> DEFINE e == Head(events)
             n == e.target.id
             U == Applied(tree, e)
             scans == {ScanOf([id |-> j, gen |-> 0], j.dir, tree[n].depth + 1, FALSE) :
                         j \in Orphans(tree, e.joined)}
  <2>1. /\ n \in DOMAIN tree /\ tree' = U /\ queue' = queue \cup scans
        /\ grafts' \subseteq grafts /\ UNCHANGED <<worker, allocated, onDisk>>
    BY <1>5 DEF ApplyMeasurement, IsCurrent, diskVars
  <2>2. e \in Event /\ EventFits(tree, e)
    BY <1>1, HeadOfEvents
  <2> HIDE DEF e
  <2>3. Forest(U) /\ AddsUp(U) /\ AppliedTo(tree, U, e)
    BY <1>2, <2>1, <2>2, AppliedKeeps
  <2>4. DOMAIN U \subseteq DOMAIN tree \cup NewIds(e)
    BY <2>3 DEF NewIds, Orphans, AppliedTo
  <2>5. scans \subseteq SoundTask
    <3> SUFFICES ASSUME NEW j \in Orphans(tree, e.joined)
                 PROVE  ScanOf([id |-> j, gen |-> 0], j.dir, tree[n].depth + 1, FALSE) \in SoundTask
      OBVIOUS
    <3> DEFINE r == [id |-> j, gen |-> 0]
    <3>1. r \in Ref /\ r.id = j /\ tree[n].depth + 1 \in Nat
      BY <1>2, <2>1, <2>2 DEF Orphans, Event, Ref, Forest, Node
    <3> HIDE DEF r
    <3>2. ScanOf(r, j.dir, tree[n].depth + 1, FALSE) \in SoundTask
      BY <3>1, ScanOfSound
    <3> QED BY <3>2 DEF r
  <2> HIDE DEF U, scans
  <2> QED BY <1>1, <1>2, <2>1, <2>3, <2>4, <2>5, TreeInvPump DEF e
<1> QED BY <1>3, <1>4, <1>5 DEF CoordinatorStep

LEMMA TreeInvDeletion ==
  ASSUME ScanTreeAssumption, TreeInv, DeletionStep
  PROVE  TreeInv'
<1>1. CASE DeleteNextItem
  <2>1. UNCHANGED <<tree, queue, worker, events, grafts, allocated>> /\ onDisk' \subseteq onDisk
    BY <1>1 DEF DeleteNextItem
  <2>2. ThreadsOK'
    BY <2>1 DEF TreeInv, ThreadsOK
  <2> QED BY <2>1, <2>2, TreeInvQuiet
<1>2. CASE AbsorbOutcome
  <2>1. UNCHANGED <<worker, events, grafts, allocated, onDisk>>
    BY <1>2 DEF AbsorbOutcome, diskVars
  <2>2. PICK n : \/ Becomes(RemoveNode(Now, n))
                 \/ Becomes(Rescan(Now, n, FALSE))
                 \/ UNCHANGED <<tree, queue>>
    BY <1>2 DEF AbsorbOutcome
  <2>3. CASE Becomes(RemoveNode(Now, n))
    BY <2>1, <2>3, TreeInvRemove
  <2>4. CASE Becomes(Rescan(Now, n, FALSE))
    BY <2>1, <2>4, TreeInvRescan
  <2>5. CASE UNCHANGED <<tree, queue>>
    BY <2>1, <2>5, TreeInvQuiet DEF TreeInv, ThreadsOK
  <2> QED BY <2>2, <2>3, <2>4, <2>5
<1> QED BY <1>1, <1>2 DEF DeletionStep

LEMMA TreeInvUser ==
  ASSUME ScanTreeAssumption, TreeInv, UserStep
  PROVE  TreeInv'
<1> USE DEF diskVars
<1>1. CASE RescanNode
  <2>1. PICK n : Becomes(Rescan(Now, n, FALSE))
    BY <1>1 DEF RescanNode
  <2>2. UNCHANGED <<worker, events, grafts, allocated, onDisk>>
    BY <1>1 DEF RescanNode
  <2> QED BY <2>1, <2>2, TreeInvRescan
<1>2. CASE ForceDense
  <2>1. PICK n : Becomes(Rescan(Now, n, TRUE))
    BY <1>2 DEF ForceDense
  <2>2. UNCHANGED <<worker, events, grafts, allocated, onDisk>>
    BY <1>2 DEF ForceDense
  <2> QED BY <2>1, <2>2, TreeInvRescan
<1>3. CASE EnterDirectory
  <2>1. UNCHANGED <<worker, events, grafts, onDisk>>
    BY <1>3 DEF EnterDirectory
  <2>2. PICK n \in DOMAIN tree : \/ Becomes(Rescan(Now, n, FALSE)) /\ UNCHANGED allocated
                                 \/ StartRoot(n.dir, "Filesystem")
    BY <1>3 DEF EnterDirectory
  <2>3. n.dir \in Dir
    BY DEF TreeInv, Forest, Shaped, Id
  <2>4. CASE Becomes(Rescan(Now, n, FALSE)) /\ UNCHANGED allocated
    BY <2>1, <2>4, TreeInvRescan
  <2>5. CASE StartRoot(n.dir, "Filesystem")
    <3>1. grafts' \subseteq Dir
      BY <2>1 DEF TreeInv, ThreadsOK
    <3> QED BY <2>1, <2>3, <2>5, <3>1, TreeInvStartRoot
  <2> QED BY <2>2, <2>4, <2>5
<1>4. CASE OpenPath
  <2>1. PICK d \in onDisk : StartRoot(d, "Filesystem") /\ grafts' = grafts \cup {d}
    BY <1>4 DEF OpenPath
  <2>2. UNCHANGED <<worker, events, onDisk>>
    BY <1>4 DEF OpenPath
  <2>3. d \in Dir /\ grafts' \subseteq Dir
    BY <2>1 DEF TreeInv, ThreadsOK
  <2> QED BY <2>1, <2>2, <2>3, TreeInvStartRoot
<1>5. CASE MeasureForCleaner
  <2>1. PICK d \in onDisk : StartRoot(d, "Measurement")
    BY <1>5 DEF MeasureForCleaner
  <2>2. UNCHANGED <<worker, events, grafts, onDisk>>
    BY <1>5 DEF MeasureForCleaner
  <2>3. d \in Dir /\ grafts' \subseteq Dir
    BY <2>1, <2>2 DEF TreeInv, ThreadsOK
  <2> QED BY <2>1, <2>2, <2>3, TreeInvStartRoot
<1>6. CASE ToggleMark \/ ConfirmDeletion
  <2>1. UNCHANGED <<tree, queue, worker, events, grafts, allocated, onDisk>>
    <3>1. CASE ToggleMark
      BY <3>1 DEF ToggleMark
    <3>2. CASE ConfirmDeletion
      BY <3>2, Zenon DEF ConfirmDeletion
    <3> QED BY <1>6, <3>1, <3>2
  <2> QED BY <2>1, TreeInvQuiet DEF TreeInv, ThreadsOK
<1> QED BY <1>1, <1>2, <1>3, <1>4, <1>5, <1>6 DEF UserStep

LEMMA TreeInvStep == ScanTreeAssumption /\ TreeInv /\ [Next]_vars => TreeInv'
<1> SUFFICES ASSUME ScanTreeAssumption, TreeInv, [Next]_vars PROVE TreeInv'
  OBVIOUS
<1>1. CASE \E w \in Worker : ScannerStep(w)
  BY <1>1, TreeInvTake, TreeInvEmitProblem, TreeInvEmitMeasurement, TreeInvPushChildren DEF ScannerStep
<1>2. CASE CoordinatorStep
  BY <1>2, TreeInvCoordinator
<1>3. CASE DeletionStep
  BY <1>3, TreeInvDeletion
<1>4. CASE UserStep
  BY <1>4, TreeInvUser
<1>5. CASE UNCHANGED vars
  <2>1. UNCHANGED <<tree, queue, worker, events, grafts, allocated, onDisk>>
    BY <1>5 DEF vars, diskVars
  <2> QED BY <2>1, TreeInvQuiet DEF TreeInv, ThreadsOK
<1> QED BY <1>1, <1>2, <1>3, <1>4, <1>5 DEF Next

LEMMA TreeInvariant == Spec => []TreeInv
<1>1. Init => TreeInv
  BY TreeInvInit, ScanTreeAssumption
<1>2. TreeInv /\ [Next]_vars => TreeInv'
  BY TreeInvStep, ScanTreeAssumption
<1> QED BY <1>1, <1>2, PTL DEF Spec

(* The variables keep their types: every parent is live and its directory  *)
(* the one above, so that the nodes are a forest, and ids are handed out   *)
(* before they are used, whatever order the threads' steps come in.        *)
THEOREM TypesOfTheTree == Spec => []TreeTypeOK
BY TreeInvariant, TypeFromInv, PTL

(* At every node the total is what the node itself holds and the totals of *)
(* its children, after every event, rescan, joined root and removal; no    *)
(* saturating subtraction ever cuts anything off.                          *)
THEOREM SizesAddUp == Spec => []TotalsAddUp
BY TreeInvariant, SumsFromInv, PTL

-----------------------------------------------------------------------------
(* One child for each directory.  The listing of a node is owned by one    *)
(* piece of work at a time: a task that waits, a task in a worker's hands  *)
(* or an event under way; as long as it is, the node has no children.      *)

Held(w) == CASE worker[w].at = "taken" -> {worker[w].task}
             [] worker[w].at = "emitted" -> worker[w].tasks
             [] OTHER -> {}
Owned(S) == {t.target : t \in {u \in S : u.own}}
OwnedBy(e) == IF e.own THEN {e.target} ELSE {}
Apart(S) == \A t, u \in S : t.own /\ u.own /\ t.target = u.target => t = u

Claimed(r) == \/ r \in Owned(queue)
              \/ \E w \in Worker : r \in Owned(Held(w))
              \/ \E i \in DOMAIN events : r \in OwnedBy(events[i])

QueueApart == Apart(queue)
HandsApart ==
  /\ \A w \in Worker : Apart(Held(w)) /\ Owned(queue) \cap Owned(Held(w)) = {}
  /\ \A v, w \in Worker : v # w => Owned(Held(v)) \cap Owned(Held(w)) = {}
ResultsApart ==
  /\ \A i \in DOMAIN events :
       /\ OwnedBy(events[i]) \cap Owned(queue) = {}
       /\ \A w \in Worker : OwnedBy(events[i]) \cap Owned(Held(w)) = {}
  /\ \A i, j \in DOMAIN events : i # j => OwnedBy(events[i]) \cap OwnedBy(events[j]) = {}

(* A reference to a node whose listing is under way: not from the future;  *)
(* a node that an event has yet to bring is in its first generation, and   *)
(* the listing of a boundary or of another root is never under way; while  *)
(* the reference is current its node has no children.                      *)
Sane(r) ==
  /\ r.id.nr < allocated[r.id.dir]
  /\ r.id \in DOMAIN tree => r.gen <= tree[r.id].gen
  /\ \A i \in DOMAIN events :
       /\ r.id \in events[i].children => r.gen = 0
       /\ r.id \notin events[i].joined \cup events[i].closed
  /\ IsCurrent(tree, r) => Children(tree, r.id) = {}

ClaimInv ==
  /\ QueueApart /\ HandsApart /\ ResultsApart
  /\ \A r \in Ref : Claimed(r) => Sane(r)
  /\ OneNodePerPlace

LEMMA ClaimedType ==
  ASSUME TreeInv, NEW r, Claimed(r)
  PROVE  r \in Ref
<1>1. \A t \in SoundTask : t.target \in Ref
  BY DEF SoundTask, Task
<1>2. CASE r \in Owned(queue)
  BY <1>1, <1>2 DEF Owned, TreeInv, ThreadsOK
<1>3. CASE \E w \in Worker : r \in Owned(Held(w))
  BY <1>1, <1>3, TakenSound DEF Owned, Held
<1>4. CASE \E i \in DOMAIN events : r \in OwnedBy(events[i])
  <2>1. PICK i \in DOMAIN events : r \in OwnedBy(events[i])
    BY <1>4
  <2>2. events[i] \in Event
    BY DEF TreeInv, ThreadsOK
  <2> QED BY <2>1, <2>2 DEF OwnedBy, Event
<1> QED BY <1>2, <1>3, <1>4 DEF Claimed

LEMMA GenType ==
  ASSUME TreeInv
  PROVE  /\ \A n \in DOMAIN tree : tree[n].gen \in Nat /\ n \in Id
         /\ allocated \in [Dir -> Nat]
BY DEF TreeInv, Forest, Shaped, Node, ThreadsOK

(* When a sane reference stays one.                                        *)
LEMMA SaneKept ==
  ASSUME TreeInv, TreeInv', NEW r \in Ref, Sane(r),
         allocated[r.id.dir] <= allocated'[r.id.dir],
         \A i \in DOMAIN events' : \/ r.id \notin NewIds(events'[i])
                                   \/ \E j \in DOMAIN events : events'[i] = events[j],
         r.id \in DOMAIN tree' => r.id \in DOMAIN tree /\ tree[r.id].gen <= tree'[r.id].gen,
         IsCurrent(tree, r) =>
           \A m \in DOMAIN tree' : tree'[m].parent = r.id => m \in DOMAIN tree /\ tree[m].parent = r.id
  PROVE  Sane(r)'
<1>1. r.id \in Id /\ r.gen \in Nat /\ r.id.dir \in Dir /\ r.id.nr \in Nat
  BY DEF Ref, Id
<1>2. r.id.nr < allocated'[r.id.dir]
  <2>1. r.id.nr < allocated[r.id.dir] /\ allocated[r.id.dir] \in Nat /\ allocated'[r.id.dir] \in Nat
    BY <1>1, GenType DEF Sane, TreeInv, ThreadsOK
  <2> QED BY <1>1, <2>1
<1>3. r.id \in DOMAIN tree' => /\ r.id \in DOMAIN tree /\ tree[r.id].gen \in Nat /\ tree'[r.id].gen \in Nat
                               /\ r.gen <= tree[r.id].gen /\ tree[r.id].gen <= tree'[r.id].gen
  BY DEF Sane, TreeInv, Forest, Shaped, Node
<1>4. r.id \in DOMAIN tree' => r.gen <= tree'[r.id].gen
  BY <1>1, <1>3
<1>5. ASSUME NEW i \in DOMAIN events'
      PROVE  /\ r.id \in events'[i].children => r.gen = 0
             /\ r.id \notin events'[i].joined \cup events'[i].closed
  BY DEF Sane, NewIds
<1>6. ASSUME IsCurrent(tree', r) PROVE Children(tree', r.id) = {}
  <2>1. r.id \in DOMAIN tree' /\ tree'[r.id].gen = r.gen
    BY <1>6 DEF IsCurrent
  <2>2. tree[r.id].gen = r.gen
    BY <1>1, <1>3, <2>1
  <2>3. IsCurrent(tree, r)
    BY <1>3, <2>1, <2>2 DEF IsCurrent
  <2> QED BY <2>3 DEF Sane, Children
<1> QED BY <1>2, <1>4, <1>5, <1>6 DEF Sane

(* Steps that only move work from one hand to another.                     *)
LEMMA ClaimInvMoved ==
  ASSUME TreeInv, TreeInv', ClaimInv, QueueApart', HandsApart', ResultsApart',
         UNCHANGED <<tree, allocated>>,
         \A i \in DOMAIN events' : \/ NewIds(events'[i]) = {}
                                   \/ \E j \in DOMAIN events : events'[i] = events[j],
         \A r \in Ref : Claimed(r)' => Claimed(r)
  PROVE  ClaimInv'
<1>1. ASSUME NEW r \in Ref, Claimed(r)' PROVE Sane(r)'
  <2>1. Sane(r)
    BY <1>1 DEF ClaimInv
  <2>2. r.id.dir \in Dir
    BY DEF Ref, Id
  <2>3. allocated[r.id.dir] <= allocated'[r.id.dir]
    BY <2>2, GenType
  <2>4. r.id \in DOMAIN tree' => r.id \in DOMAIN tree /\ tree[r.id].gen <= tree'[r.id].gen
    BY GenType
  <2>5. \A m \in DOMAIN tree' : tree'[m].parent = r.id => m \in DOMAIN tree /\ tree[m].parent = r.id
    OBVIOUS
  <2>6. \A i \in DOMAIN events' : \/ r.id \notin NewIds(events'[i])
                                  \/ \E j \in DOMAIN events : events'[i] = events[j]
    OBVIOUS
  <2> QED BY <2>1, <2>3, <2>4, <2>5, <2>6, SaneKept
<1>2. OneNodePerPlace'
  BY DEF ClaimInv, OneNodePerPlace
<1> QED BY <1>1, <1>2 DEF ClaimInv

LEMMA OwnedMember ==
  ASSUME NEW S, NEW r
  PROVE  r \in Owned(S) <=> \E t \in S : t.own /\ t.target = r
BY DEF Owned

LEMMA HeldOf ==
  ASSUME NEW w
  PROVE  /\ worker[w] = Idle => Held(w) = {}
         /\ worker[w].at = "taken" => Held(w) = {worker[w].task}
         /\ worker[w].at = "emitted" => Held(w) = worker[w].tasks
         /\ worker'[w] = Idle => Held(w)' = {}
         /\ worker'[w].at = "taken" => Held(w)' = {worker'[w].task}
         /\ worker'[w].at = "emitted" => Held(w)' = worker'[w].tasks
         /\ worker'[w] = worker[w] => Held(w)' = Held(w)
BY DEF Held, Idle

LEMMA ClaimInvTake ==
  ASSUME TreeInv, TreeInv', ClaimInv, NEW w \in Worker, Take(w)
  PROVE  ClaimInv'
<1>1. PICK t \in queue : /\ queue' = queue \ {t}
                         /\ worker' = [worker EXCEPT ![w] = [at |-> "taken", task |-> t, grafts |-> grafts]]
  BY DEF Take
<1>2. UNCHANGED <<tree, events, allocated>> /\ worker[w] = Idle /\ worker \in [Worker -> {Idle} \cup Working]
  BY DEF Take, TreeInv, ThreadsOK
<1>3. Held(w) = {} /\ Held(w)' = {t} /\ \A v \in Worker \ {w} : Held(v)' = Held(v)
  BY <1>1, <1>2, HeldOf
<1>4. QueueApart'
  BY <1>1 DEF ClaimInv, QueueApart, Apart
<1>5. HandsApart'
  <2>1. ASSUME NEW v \in Worker PROVE Apart(Held(v)') /\ Owned(queue') \cap Owned(Held(v)') = {}
    <3>1. CASE v = w
      BY <1>1, <1>3, <3>1 DEF ClaimInv, QueueApart, Apart, Owned
    <3>2. CASE v # w
      <4>1. Owned(queue') \subseteq Owned(queue)
        BY <1>1 DEF Owned
      <4> QED BY <1>3, <3>2, <4>1 DEF ClaimInv, HandsApart
    <3> QED BY <3>1, <3>2
  <2>2. ASSUME NEW u \in Worker, NEW v \in Worker, u # v
        PROVE  Owned(Held(u)') \cap Owned(Held(v)') = {}
    <3>1. Owned({t}) \subseteq Owned(queue)
      BY DEF Owned
    <3> QED BY <1>3, <2>2, <3>1 DEF ClaimInv, HandsApart
  <2> QED BY <2>1, <2>2 DEF HandsApart
<1>6. ResultsApart'
  <2>1. Owned({t}) \subseteq Owned(queue) /\ Owned(queue') \subseteq Owned(queue)
    BY <1>1 DEF Owned
  <2>2. \A v \in Worker : Held(v)' = Held(v) \/ Held(v)' = {t}
    BY <1>3
  <2> QED BY <1>2, <2>1, <2>2 DEF ClaimInv, ResultsApart
<1>7. ASSUME NEW r \in Ref, Claimed(r)' PROVE Claimed(r)
  <2>1. Owned({t}) \subseteq Owned(queue) /\ Owned(queue') \subseteq Owned(queue)
    BY <1>1 DEF Owned
  <2>2. \A v \in Worker : Held(v)' = Held(v) \/ Held(v)' = {t}
    BY <1>3
  <2> QED BY <1>2, <1>7, <2>1, <2>2 DEF Claimed
<1>8. \A i \in DOMAIN events' : \E j \in DOMAIN events : events'[i] = events[j]
  BY <1>2
<1> QED BY <1>2, <1>4, <1>5, <1>6, <1>7, <1>8, ClaimInvMoved

LEMMA ClaimInvPushChildren ==
  ASSUME TreeInv, TreeInv', ClaimInv, NEW w \in Worker, PushChildren(w)
  PROVE  ClaimInv'
<1> DEFINE tasks == worker[w].tasks
<1>1. /\ queue' = queue \cup tasks /\ worker' = [worker EXCEPT ![w] = Idle]
      /\ UNCHANGED <<tree, events, allocated>> /\ worker \in [Worker -> {Idle} \cup Working]
  BY DEF PushChildren, TreeInv, ThreadsOK
<1>2. Held(w) = tasks /\ Held(w)' = {} /\ \A v \in Worker \ {w} : Held(v)' = Held(v)
  <2>1. worker[w].at = "emitted" /\ worker'[w] = Idle /\ \A v \in Worker \ {w} : worker'[v] = worker[v]
    BY <1>1 DEF PushChildren
  <2> QED BY <2>1, HeldOf
<1> HIDE DEF tasks
<1>3. Owned(queue') = Owned(queue) \cup Owned(tasks) /\ Owned({}) = {}
  BY <1>1 DEF Owned
<1>4. Apart(tasks) /\ Owned(queue) \cap Owned(tasks) = {}
  BY <1>2 DEF ClaimInv, HandsApart
<1>5. QueueApart'
  <2> SUFFICES ASSUME NEW t \in queue', NEW u \in queue', t.own, u.own, t.target = u.target
               PROVE  t = u
    BY DEF QueueApart, Apart
  <2>1. CASE t \in queue /\ u \in queue
    BY <2>1 DEF ClaimInv, QueueApart, Apart
  <2>2. CASE t \in tasks /\ u \in tasks
    BY <1>4, <2>2 DEF Apart
  <2>3. CASE t \in queue /\ u \in tasks
    BY <1>4, <2>3, OwnedMember
  <2>4. CASE t \in tasks /\ u \in queue
    BY <1>4, <2>4, OwnedMember
  <2> QED BY <1>1, <2>1, <2>2, <2>3, <2>4
<1>6. HandsApart'
  <2>1. ASSUME NEW v \in Worker PROVE Apart(Held(v)') /\ Owned(queue') \cap Owned(Held(v)') = {}
    <3>1. CASE v = w
      BY <1>2, <1>3, <3>1 DEF Apart
    <3>2. CASE v # w
      <4>1. Owned(Held(v)) \cap Owned(tasks) = {}
        BY <1>2, <3>2 DEF ClaimInv, HandsApart
      <4> QED BY <1>2, <1>3, <3>2, <4>1 DEF ClaimInv, HandsApart
    <3> QED BY <3>1, <3>2
  <2>2. ASSUME NEW u \in Worker, NEW v \in Worker, u # v
        PROVE  Owned(Held(u)') \cap Owned(Held(v)') = {}
    BY <1>2, <1>3, <2>2 DEF ClaimInv, HandsApart
  <2> QED BY <2>1, <2>2 DEF HandsApart
<1>7. ResultsApart'
  <2>1. \A v \in Worker : Owned(Held(v)') \subseteq Owned(Held(v))
    BY <1>2, <1>3
  <2>2. \A i \in DOMAIN events : OwnedBy(events[i]) \cap Owned(tasks) = {}
    BY <1>2 DEF ClaimInv, ResultsApart
  <2> QED BY <1>1, <1>3, <2>1, <2>2 DEF ClaimInv, ResultsApart
<1>8. ASSUME NEW r \in Ref, Claimed(r)' PROVE Claimed(r)
  <2>1. \A v \in Worker : Owned(Held(v)') \subseteq Owned(Held(v))
    BY <1>2, <1>3
  <2> QED BY <1>1, <1>2, <1>3, <1>8, <2>1 DEF Claimed
<1>9. \A i \in DOMAIN events' : \E j \in DOMAIN events : events'[i] = events[j]
  BY <1>1
<1> QED BY <1>1, <1>5, <1>6, <1>7, <1>8, <1>9, ClaimInvMoved

(* A worker reports on task t with event e and holds the tasks below it.   *)
LEMMA ClaimInvEmit ==
  ASSUME TreeInv, TreeInv', ClaimInv, NEW w \in Worker, NEW t, Held(w) = {t},
         NEW e \in Event, e.target = t.target, e.own = t.own, events' = Append(events, e),
         NEW tasks, Held(w)' = tasks, \A v \in Worker \ {w} : Held(v)' = Held(v),
         UNCHANGED <<tree, queue>>, \A d \in Dir : allocated[d] <= allocated'[d],
         \A i \in NewIds(e) : /\ i.dir \in Dir /\ i.nr = allocated[i.dir]
                              /\ i.nr < allocated'[i.dir]
                              /\ i \notin DOMAIN tree
                              /\ \A j \in DOMAIN events : i \notin NewIds(events[j]),
         e.children \cap e.joined = {} /\ e.children \cap e.closed = {},
         Apart(tasks),
         \A c \in tasks : c.own => t.own /\ c.target.gen = 0 /\ c.target.id \in e.children
  PROVE  ClaimInv'
<1>1. events \in Seq(Event) /\ allocated \in [Dir -> Nat]
  BY DEF TreeInv, ThreadsOK
<1>2. /\ DOMAIN events' = 1..Len(events) + 1 /\ DOMAIN events = 1..Len(events)
      /\ Len(events) \in Nat /\ Len(events) + 1 \in DOMAIN events'
      /\ \A i \in DOMAIN events : i \in DOMAIN events' /\ events'[i] = events[i]
      /\ events'[Len(events) + 1] = e
  BY <1>1
<1>3. \A i \in DOMAIN events' : \/ i = Len(events) + 1 /\ i \notin DOMAIN events /\ events'[i] = e
                                \/ i \in DOMAIN events /\ events'[i] = events[i]
  BY <1>2
<1>4. ASSUME NEW r \in Ref, Claimed(r)
      PROVE  /\ Sane(r) /\ r.id.dir \in Dir /\ r.id.nr < allocated[r.id.dir]
             /\ r.id \notin NewIds(e) /\ r \notin Owned(tasks)
  <2>1. Sane(r) /\ r.id.dir \in Dir /\ r.id.nr \in Nat
    BY <1>4 DEF ClaimInv, Ref, Id
  <2>2. r.id.nr < allocated[r.id.dir] /\ allocated[r.id.dir] \in Nat
    BY <1>1, <2>1 DEF Sane
  <2>3. r.id \notin NewIds(e)
    BY <2>1, <2>2
  <2>4. r \notin Owned(tasks)
    BY <2>3 DEF Owned, NewIds
  <2> QED BY <2>1, <2>2, <2>3, <2>4
<1>5. OwnedBy(e) = Owned(Held(w))
  BY DEF OwnedBy, Owned
<1>6. ASSUME NEW r, Claimed(r)' PROVE (r \in Ref /\ Claimed(r)) \/ r \in Owned(tasks)
  <2>1. CASE r \in Owned(queue')
    BY <2>1, ClaimedType DEF Claimed
  <2>2. CASE \E v \in Worker : r \in Owned(Held(v)')
    BY <2>2, ClaimedType DEF Claimed
  <2>3. CASE \E i \in DOMAIN events' : r \in OwnedBy(events'[i])
    <3>1. PICK i \in DOMAIN events' : r \in OwnedBy(events'[i])
      BY <2>3
    <3>2. CASE events'[i] = e
      BY <1>5, <3>1, <3>2, ClaimedType DEF Claimed
    <3>3. CASE i \in DOMAIN events /\ events'[i] = events[i]
      BY <3>1, <3>3, ClaimedType DEF Claimed
    <3> QED BY <1>3, <3>2, <3>3
  <2> QED BY <1>6, <2>1, <2>2, <2>3 DEF Claimed
<1>7. /\ Owned(tasks) \cap Owned(queue) = {}
      /\ \A v \in Worker : Owned(tasks) \cap Owned(Held(v)) = {}
      /\ \A i \in DOMAIN events : Owned(tasks) \cap OwnedBy(events[i]) = {}
  BY <1>4, ClaimedType DEF Claimed
<1>8. QueueApart'
  BY DEF ClaimInv, QueueApart
<1>9. HandsApart'
  <2>1. ASSUME NEW v \in Worker PROVE Apart(Held(v)') /\ Owned(queue') \cap Owned(Held(v)') = {}
    BY <1>7 DEF ClaimInv, HandsApart
  <2>2. ASSUME NEW u \in Worker, NEW v \in Worker, u # v
        PROVE  Owned(Held(u)') \cap Owned(Held(v)') = {}
    BY <1>7, <2>2 DEF ClaimInv, HandsApart
  <2> QED BY <2>1, <2>2 DEF HandsApart
<1>10. ResultsApart'
  <2>1. ASSUME NEW i \in DOMAIN events'
        PROVE  /\ OwnedBy(events'[i]) \cap Owned(queue') = {}
               /\ \A v \in Worker : OwnedBy(events'[i]) \cap Owned(Held(v)') = {}
    <3>1. CASE events'[i] = e
      <4>1. OwnedBy(events'[i]) = Owned(Held(w))
        BY <1>5, <3>1
      <4>2. Owned(Held(w)) \cap Owned(queue) = {}
        BY DEF ClaimInv, HandsApart
      <4>3. ASSUME NEW v \in Worker PROVE Owned(Held(w)) \cap Owned(Held(v)') = {}
        <5>1. CASE v = w
          BY <1>7, <5>1
        <5>2. CASE v # w
          BY <5>2 DEF ClaimInv, HandsApart
        <5> QED BY <5>1, <5>2
      <4> QED BY <4>1, <4>2, <4>3
    <3>2. CASE i \in DOMAIN events /\ events'[i] = events[i]
      BY <1>7, <3>2 DEF ClaimInv, ResultsApart
    <3> QED BY <1>3, <3>1, <3>2
  <2>2. ASSUME NEW i \in DOMAIN events', NEW j \in DOMAIN events', i # j
        PROVE  OwnedBy(events'[i]) \cap OwnedBy(events'[j]) = {}
    <3>1. \A k \in DOMAIN events : OwnedBy(events[k]) \cap OwnedBy(e) = {}
      BY <1>5 DEF ClaimInv, ResultsApart
    <3>2. CASE i \in DOMAIN events /\ j \in DOMAIN events
      BY <1>2, <2>2, <3>2 DEF ClaimInv, ResultsApart
    <3> QED BY <1>3, <2>2, <3>1, <3>2
  <2> QED BY <2>1, <2>2 DEF ResultsApart
<1>11. ASSUME NEW r \in Ref, Claimed(r)' PROVE Sane(r)'
  <2>1. CASE Claimed(r)
    <3>1. Sane(r) /\ r.id.dir \in Dir /\ r.id \notin NewIds(e)
      BY <1>4, <2>1
    <3>2. allocated[r.id.dir] <= allocated'[r.id.dir]
      BY <3>1
    <3>3. \A i \in DOMAIN events' : \/ r.id \notin NewIds(events'[i])
                                    \/ \E j \in DOMAIN events : events'[i] = events[j]
      BY <1>3, <3>1
    <3>4. r.id \in DOMAIN tree' => r.id \in DOMAIN tree /\ tree[r.id].gen <= tree'[r.id].gen
      BY GenType
    <3>5. \A m \in DOMAIN tree' : tree'[m].parent = r.id => m \in DOMAIN tree /\ tree[m].parent = r.id
      OBVIOUS
    <3> QED BY <3>1, <3>2, <3>3, <3>4, <3>5, SaneKept
  <2>2. CASE r \in Owned(tasks)
    <3>1. r.gen = 0 /\ r.id \in e.children
      BY <2>2 DEF Owned
    <3>2. r.id \in NewIds(e) /\ r.id \notin e.joined \cup e.closed
      BY <3>1 DEF NewIds
    <3>3. r.id.nr < allocated'[r.id.dir] /\ r.id \notin DOMAIN tree'
      BY <3>2
    <3>4. ASSUME NEW i \in DOMAIN events'
          PROVE  r.id \notin events'[i].joined \cup events'[i].closed
      <4>1. CASE events'[i] = e
        BY <3>2, <4>1
      <4>2. CASE i \in DOMAIN events /\ events'[i] = events[i]
        BY <3>2, <4>2 DEF NewIds
      <4> QED BY <1>3, <4>1, <4>2
    <3> QED BY <3>1, <3>3, <3>4 DEF Sane, IsCurrent
  <2> QED BY <1>6, <1>11, <2>1, <2>2
<1>12. OneNodePerPlace'
  BY DEF ClaimInv, OneNodePerPlace
<1> QED BY <1>8, <1>9, <1>10, <1>11, <1>12 DEF ClaimInv

LEMMA ClaimInvEmitProblem ==
  ASSUME TreeInv, TreeInv', ClaimInv, NEW w \in Worker, EmitProblem(w)
  PROVE  ClaimInv'
<1> DEFINE t == worker[w].task
           e == [NothingFound(t) EXCEPT !.failed = TRUE]
<1>1. t \in SoundTask
  BY TakenSound DEF EmitProblem
<1>2. /\ events' = Append(events, e) /\ worker' = [worker EXCEPT ![w] = Idle]
      /\ UNCHANGED <<tree, queue, allocated>> /\ worker[w].at = "taken"
      /\ worker \in [Worker -> {Idle} \cup Working]
  BY DEF EmitProblem, TreeInv, ThreadsOK
<1>3. e \in Event /\ e.target = t.target /\ e.own = t.own /\ NewIds(e) = {} /\ e.children = {}
  <2> DEFINE N == NothingFound(t)
  <2>1. N = [target |-> t.target, own |-> t.own, size |-> 0, children |-> {}, joined |-> {},
             closed |-> {}, anonymous |-> 0, dense |-> FALSE, failed |-> FALSE]
    BY DEF NothingFound
  <2>2. e = [N EXCEPT !.failed = TRUE]
    OBVIOUS
  <2> HIDE DEF N, e
  <2>3. t.target \in Ref /\ t.own \in BOOLEAN
    BY <1>1 DEF SoundTask, Task
  <2> QED BY <2>1, <2>2, <2>3 DEF Event, NewIds
<1> HIDE DEF e
<1>4. Held(w) = {t} /\ Held(w)' = {} /\ \A v \in Worker \ {w} : Held(v)' = Held(v)
  <2>1. worker'[w] = Idle /\ \A v \in Worker \ {w} : worker'[v] = worker[v]
    BY <1>2
  <2> QED BY <1>2, <2>1, HeldOf
<1>5. \A d \in Dir : allocated[d] <= allocated'[d]
  BY <1>2, GenType
<1>6. Apart({})
  BY DEF Apart
<1> HIDE DEF t
<1> DEFINE tasks == {}
<1>7. Held(w)' = tasks /\ Apart(tasks)
      /\ \A c \in tasks : c.own => t.own /\ c.target.gen = 0 /\ c.target.id \in e.children
  BY <1>4, <1>6
<1>8. /\ \A i \in NewIds(e) : /\ i.dir \in Dir /\ i.nr = allocated[i.dir]
                              /\ i.nr < allocated'[i.dir]
                              /\ i \notin DOMAIN tree
                              /\ \A j \in DOMAIN events : i \notin NewIds(events[j])
      /\ e.children \cap e.joined = {} /\ e.children \cap e.closed = {}
  BY <1>3
<1> HIDE DEF tasks
<1> QED BY <1>2, <1>3, <1>4, <1>5, <1>7, <1>8, ClaimInvEmit

LEMMA ClaimInvEmitMeasurement ==
  ASSUME ScanTreeAssumption, TreeInv, TreeInv', ClaimInv, NEW w \in Worker, EmitMeasurement(w)
  PROVE  ClaimInv'
<1> DEFINE t == worker[w].task
           points == worker[w].grafts
           e == Measurement(t, points)
           tasks == {ChildTask(t, d) : d \in Entered(t, points)}
           D == {n.dir : n \in NewIds(e)}
<1>1. t \in SoundTask
  BY TakenSound DEF EmitMeasurement
<1>2. /\ events' = Append(events, e) /\ Allocate(D)
      /\ worker' = [worker EXCEPT ![w] = IF tasks = {} THEN Idle ELSE [at |-> "emitted", tasks |-> tasks]]
      /\ UNCHANGED <<tree, queue>> /\ worker[w].at = "taken"
      /\ worker \in [Worker -> {Idle} \cup Working]
  BY DEF EmitMeasurement, NewIds, TreeInv, ThreadsOK
<1>3. /\ e \in Event /\ e.target = t.target /\ e.own = t.own /\ EventFits(tree, e)
      /\ \A i \in NewIds(e) : \E d \in Subdirs[t.dir] : t.own /\ i = NextId(d)
  BY <1>1, MeasurementFits
<1>4. \A d \in Entered(t, points) : d \in Dir /\ NextId(d).dir = d
  <2>1. Entered(t, points) \subseteq Dir
    BY <1>1, FoundDirs
  <2> QED BY <2>1, NextIdFresh
<1>5. ASSUME NEW c \in tasks, c.own
      PROVE  \E d \in Entered(t, points) :
               /\ c = ChildTask(t, d) /\ c.target = [id |-> NextId(d), gen |-> 0]
               /\ NextId(d) \in e.children /\ t.own
  <2>1. PICK d \in Entered(t, points) : c = ChildTask(t, d)
    OBVIOUS
  <2>2. Materializes(t) /\ c.target = [id |-> NextId(d), gen |-> 0]
    BY <1>5, <2>1 DEF ChildTask
  <2>3. t.own
    BY <1>1, <2>2 DEF Materializes, SoundTask
  <2>4. e.children = {NextId(x) : x \in Entered(t, points)}
    BY <1>1, <2>2, MeasurementFields
  <2> QED BY <2>1, <2>2, <2>3, <2>4
<1>6. Apart(tasks)
  <2> SUFFICES ASSUME NEW c \in tasks, NEW u \in tasks, c.own, u.own, c.target = u.target
               PROVE  c = u
    BY DEF Apart
  <2> HIDE DEF tasks, e, t, points
  <2>1. PICK d \in Entered(t, points) :
          c = ChildTask(t, d) /\ c.target = [id |-> NextId(d), gen |-> 0]
    BY <1>5
  <2>2. PICK x \in Entered(t, points) :
          u = ChildTask(t, x) /\ u.target = [id |-> NextId(x), gen |-> 0]
    BY <1>5
  <2>3. NextId(d) = NextId(x)
    BY <2>1, <2>2
  <2>4. d = x
    BY <1>4, <2>3
  <2> QED BY <2>1, <2>2, <2>4
<1>7. ASSUME NEW c \in tasks, c.own
      PROVE  t.own /\ c.target.gen = 0 /\ c.target.id \in e.children
  <2> HIDE DEF tasks, e, t, points
  <2>1. PICK d \in Entered(t, points) :
          c.target = [id |-> NextId(d), gen |-> 0] /\ NextId(d) \in e.children /\ t.own
    BY <1>5, <1>7
  <2> QED BY <2>1
<1>8. /\ \A d \in Dir : allocated[d] <= allocated'[d]
      /\ \A d \in D : allocated[d] < allocated'[d]
      /\ \A i \in NewIds(e) : i.dir \in Dir
  <2>1. \A i \in NewIds(e) : i.dir \in Dir
    <3>1. Subdirs[t.dir] \subseteq Dir
      BY <1>1, FoundDirs
    <3> QED BY <1>3, <3>1, NextIdFresh
  <2>2. D \in SUBSET Dir
    BY <2>1
  <2> HIDE DEF D
  <2> QED BY <1>2, <2>1, <2>2, AllocateGrows
<1>9. ASSUME NEW i \in NewIds(e)
      PROVE  /\ i.dir \in Dir /\ i.nr = allocated[i.dir]
             /\ i.nr < allocated'[i.dir]
             /\ i \notin DOMAIN tree
             /\ \A j \in DOMAIN events : i \notin NewIds(events[j])
  <2>1. PICK d \in Subdirs[t.dir] : t.own /\ i = NextId(d)
    BY <1>3
  <2>2. d \in Dir
    BY <1>1, FoundDirs
  <2>3. i.dir \in D
    OBVIOUS
  <2> HIDE DEF D, e
  <2> QED BY <1>8, <2>1, <2>2, <2>3, NextIdFresh
<1>10. Held(w) = {t} /\ Held(w)' = tasks /\ \A v \in Worker \ {w} : Held(v)' = Held(v)
  <2>1. worker'[w] = IF tasks = {} THEN Idle ELSE [at |-> "emitted", tasks |-> tasks]
    BY <1>2
  <2>2. \A v \in Worker \ {w} : worker'[v] = worker[v]
    BY <1>2
  <2> HIDE DEF tasks
  <2>3. Held(w)' = tasks
    <3>1. CASE tasks = {}
      BY <2>1, <3>1, HeldOf
    <3>2. CASE tasks # {}
      <4>1. worker'[w] = [at |-> "emitted", tasks |-> tasks]
        BY <2>1, <3>2
      <4>2. worker'[w].at = "emitted" /\ worker'[w].tasks = tasks
        BY <4>1
      <4> QED BY <4>2, HeldOf
    <3> QED BY <3>1, <3>2
  <2> QED BY <1>2, <2>2, <2>3, HeldOf
<1> HIDE DEF t, e, tasks, D, points
<1>11. e.children \cap e.joined = {} /\ e.children \cap e.closed = {}
  BY <1>3 DEF EventFits
<1> QED BY <1>2, <1>3, <1>6, <1>7, <1>8, <1>9, <1>10, <1>11, ClaimInvEmit

(* The coordinator puts new scans into the queue, of references that       *)
(* nobody has claimed, for tasks it may throw out.                         *)
LEMMA ClaimsQueued ==
  ASSUME QueueApart, HandsApart, ResultsApart, NEW scans, queue' \subseteq queue \cup scans,
         UNCHANGED worker, Apart(scans), \A t \in scans : ~Claimed(t.target),
         \A i \in DOMAIN events' : \E j \in DOMAIN events : events'[i] = events[j],
         \A i, j \in DOMAIN events' : i # j => OwnedBy(events'[i]) \cap OwnedBy(events'[j]) = {}
  PROVE  /\ QueueApart' /\ HandsApart' /\ ResultsApart'
         /\ \A r : Claimed(r)' => Claimed(r) \/ r \in Owned(scans)
<1>1. \A w \in Worker : Held(w)' = Held(w)
  BY DEF Held
<1>2. Owned(queue') \subseteq Owned(queue) \cup Owned(scans)
  BY DEF Owned
<1>3. \A r \in Owned(scans) : ~Claimed(r)
  BY DEF Owned
<1>4. QueueApart'
  <2> SUFFICES ASSUME NEW t \in queue', NEW u \in queue', t.own, u.own, t.target = u.target
               PROVE  t = u
    BY DEF QueueApart, Apart
  <2>1. CASE t \in queue /\ u \in queue
    BY <2>1 DEF QueueApart, Apart
  <2>2. CASE t \in scans /\ u \in scans
    BY <2>2 DEF Apart
  <2>3. CASE t \in queue /\ u \in scans
    BY <2>3, OwnedMember DEF Claimed
  <2>4. CASE t \in scans /\ u \in queue
    BY <2>4, OwnedMember DEF Claimed
  <2> QED BY <2>1, <2>2, <2>3, <2>4
<1>5. HandsApart'
  <2>1. ASSUME NEW v \in Worker PROVE Apart(Held(v)') /\ Owned(queue') \cap Owned(Held(v)') = {}
    BY <1>1, <1>2, <1>3 DEF HandsApart, Claimed
  <2> QED BY <1>1, <2>1 DEF HandsApart
<1>6. ResultsApart'
  <2>1. ASSUME NEW i \in DOMAIN events'
        PROVE  /\ OwnedBy(events'[i]) \cap Owned(queue') = {}
               /\ \A w \in Worker : OwnedBy(events'[i]) \cap Owned(Held(w)') = {}
    BY <1>1, <1>2, <1>3 DEF ResultsApart, Claimed
  <2> QED BY <2>1 DEF ResultsApart
<1>7. ASSUME NEW r, Claimed(r)' PROVE Claimed(r) \/ r \in Owned(scans)
  BY <1>1, <1>2, <1>7 DEF Claimed
<1> QED BY <1>4, <1>5, <1>6, <1>7

(* What has changed once the first event is gone.                          *)
LEMMA PumpedClaims ==
  ASSUME TreeInv, ClaimInv, events # <<>>, events' = Tail(events), UNCHANGED worker,
         NEW scans, queue' \subseteq queue \cup scans,
         Apart(scans), \A t \in scans : ~Claimed(t.target)
  PROVE  /\ QueueApart' /\ HandsApart' /\ ResultsApart'
         /\ \A i \in DOMAIN events' : \E j \in DOMAIN events : j # 1 /\ events'[i] = events[j]
         /\ \A r : Claimed(r)' => \/ Claimed(r) /\ r \notin OwnedBy(Head(events))
                                  \/ r \in Owned(scans)
<1>1. events \in Seq(Event)
  BY DEF TreeInv, ThreadsOK
<1>2. /\ Head(events) = events[1] /\ 1 \in DOMAIN events
      /\ \A i \in DOMAIN events' : i + 1 \in DOMAIN events /\ i + 1 # 1 /\ i \in Nat
                                     /\ events'[i] = events[i + 1]
  BY <1>1, EventsLeft
<1>3. \A w \in Worker : Held(w)' = Held(w)
  BY DEF Held
<1>4. ASSUME NEW i \in DOMAIN events'
      PROVE  \E j \in DOMAIN events : j # 1 /\ events'[i] = events[j]
  BY <1>2
<1>5. ASSUME NEW i \in DOMAIN events', NEW j \in DOMAIN events', i # j
      PROVE  OwnedBy(events'[i]) \cap OwnedBy(events'[j]) = {}
  <2>1. i + 1 \in DOMAIN events /\ j + 1 \in DOMAIN events /\ i + 1 # j + 1
        /\ events'[i] = events[i + 1] /\ events'[j] = events[j + 1]
    BY <1>2, <1>5
  <2> QED BY <2>1 DEF ClaimInv, ResultsApart
<1>6. QueueApart' /\ HandsApart' /\ ResultsApart'
  <2>1. \A i \in DOMAIN events' : \E j \in DOMAIN events : events'[i] = events[j]
    BY <1>4
  <2>2. \A i, j \in DOMAIN events' : i # j => OwnedBy(events'[i]) \cap OwnedBy(events'[j]) = {}
    BY <1>5
  <2> QED BY <2>1, <2>2, ClaimsQueued DEF ClaimInv
<1>7. ASSUME NEW r, Claimed(r)', r \notin Owned(scans)
      PROVE  Claimed(r) /\ r \notin OwnedBy(events[1])
  <2>1. CASE r \in Owned(queue')
    <3>1. r \in Owned(queue)
      BY <1>7, <2>1 DEF Owned
    <3> QED BY <1>2, <3>1 DEF Claimed, ClaimInv, ResultsApart
  <2>2. CASE \E w \in Worker : r \in Owned(Held(w))
    BY <1>2, <2>2 DEF Claimed, ClaimInv, ResultsApart
  <2>3. CASE \E i \in DOMAIN events' : r \in OwnedBy(events'[i])
    <3>1. PICK i \in DOMAIN events' : r \in OwnedBy(events'[i])
      BY <2>3
    <3>2. PICK j \in DOMAIN events : j # 1 /\ events'[i] = events[j]
      BY <1>4
    <3> QED BY <1>2, <3>1, <3>2 DEF Claimed, ClaimInv, ResultsApart
  <2> QED BY <1>3, <1>7, <2>1, <2>2, <2>3 DEF Claimed
<1> QED BY <1>2, <1>4, <1>6, <1>7

LEMMA ClaimInvDropOrFinish ==
  ASSUME TreeInv, TreeInv', ClaimInv, DropEvent \/ ApplyProblem
  PROVE  ClaimInv'
<1>1. events # <<>> /\ events' = Tail(events) /\ UNCHANGED <<queue, worker, allocated>>
  BY DEF DropEvent, ApplyProblem, HasEvent
<1>2. SamePlaces(tree, tree')
  <2>1. CASE tree' = tree
    BY <2>1 DEF SamePlaces
  <2>2. CASE tree' = FinishWorkUnit(tree, Head(events).target.id)
    BY <2>2, FinishWorkUnitKeeps DEF TreeInv
  <2> QED BY <2>1, <2>2 DEF DropEvent, ApplyProblem
<1>3. /\ QueueApart' /\ HandsApart' /\ ResultsApart'
      /\ \A i \in DOMAIN events' : \E j \in DOMAIN events : j # 1 /\ events'[i] = events[j]
      /\ \A r \in Ref : Claimed(r)' => Claimed(r)
  <2> DEFINE scans == {}
  <2>1. queue' \subseteq queue \cup scans /\ Apart(scans) /\ \A t \in scans : ~Claimed(t.target)
    BY <1>1 DEF Apart
  <2>2. Owned(scans) = {}
    BY DEF Owned
  <2> HIDE DEF scans
  <2> QED BY <1>1, <2>1, <2>2, PumpedClaims
<1>4. ASSUME NEW r \in Ref, Claimed(r)' PROVE Sane(r)'
  <2>1. Sane(r) /\ r.id.dir \in Dir
    BY <1>3, <1>4 DEF ClaimInv, Ref, Id
  <2>2. allocated[r.id.dir] <= allocated'[r.id.dir]
    BY <1>1, <2>1, GenType
  <2>3. r.id \in DOMAIN tree' => r.id \in DOMAIN tree /\ tree[r.id].gen <= tree'[r.id].gen
    BY <1>2, GenType DEF SamePlaces
  <2>4. \A m \in DOMAIN tree' : tree'[m].parent = r.id => m \in DOMAIN tree /\ tree[m].parent = r.id
    BY <1>2 DEF SamePlaces
  <2> QED BY <1>3, <2>1, <2>2, <2>3, <2>4, SaneKept
<1>5. OneNodePerPlace'
  BY <1>2 DEF ClaimInv, OneNodePerPlace, SamePlaces
<1> QED BY <1>3, <1>4, <1>5 DEF ClaimInv

LEMMA ClaimInvApply ==
  ASSUME ScanTreeAssumption, TreeInv, TreeInv', ClaimInv, ApplyMeasurement
  PROVE  ClaimInv'
<1> DEFINE e == Head(events)
           n == e.target.id
           U == Applied(tree, e)
           O == Orphans(tree, e.joined)
           R == GraftableRoots(tree, e.joined)
           new == e.children \cup O \cup e.closed
           scans == {ScanOf([id |-> j, gen |-> 0], j.dir, tree[n].depth + 1, FALSE) : j \in O}
<1>1. /\ events # <<>> /\ events' = Tail(events)
      /\ IsCurrent(tree, e.target) /\ n \in DOMAIN tree
      /\ tree' = U /\ queue' = queue \cup scans /\ UNCHANGED <<worker, allocated>>
  BY DEF ApplyMeasurement, HasEvent, IsCurrent
<1>2. /\ e \in Event /\ EventFits(tree, e)
      /\ \A m \in NewIds(e) : e.own /\ m.nr < allocated[m.dir]
  BY <1>1, HeadOfEvents
<1>3. 1 \in DOMAIN events /\ e = events[1] /\ events \in Seq(Event)
  BY <1>1, EventsLeft DEF TreeInv, ThreadsOK
<1> HIDE DEF e
<1>4. /\ DOMAIN U = DOMAIN tree \cup e.children \cup O \cup e.closed
      /\ \A m \in DOMAIN tree : U[m].gen = tree[m].gen
                                  /\ U[m].parent = IF m \in R THEN n ELSE tree[m].parent
      /\ \A m \in new : U[m].gen = 0 /\ U[m].parent = n
  <2> HIDE DEF U, O, R, n
  <2>1. Forest(tree) /\ AddsUp(tree) /\ e.target.id \in DOMAIN tree
    BY <1>1 DEF TreeInv, n
  <2>2. AppliedTo(tree, Applied(tree, e), e)
    BY <1>2, <2>1, AppliedKeeps
  <2>3. U = Applied(tree, e) /\ O = Orphans(tree, e.joined) /\ R = GraftableRoots(tree, e.joined)
        /\ n = e.target.id
    BY DEF U, O, R, n
  <2> QED BY <2>2, <2>3 DEF AppliedTo
<1>5. O \subseteq e.joined /\ new \subseteq NewIds(e) /\ n \in Id /\ n # NoNode
      /\ \A r \in R : r \in DOMAIN tree /\ tree[r].parent = NoNode /\ \E j \in e.joined : j.dir = r.dir
  BY <1>1, NoNodeDead DEF Orphans, NewIds, GraftableRoots, Roots, TreeInv, Forest, Shaped
<1>6. ASSUME e.own PROVE Claimed(e.target) /\ Children(tree, n) = {}
  <2>1. Claimed(e.target)
    BY <1>3, <1>6 DEF Claimed, OwnedBy
  <2>2. e.target \in Ref
    BY <1>2 DEF Event
  <2> QED BY <1>1, <2>1, <2>2 DEF ClaimInv, Sane
<1>7. R # {} \/ new # {} => e.own
  BY <1>2, <1>5 DEF NewIds
<1>8. ASSUME NEW t \in scans
      PROVE  \E j \in O : t.target = [id |-> j, gen |-> 0] /\ t.own
                            /\ t = ScanOf([id |-> j, gen |-> 0], j.dir, tree[n].depth + 1, FALSE)
  <2> HIDE DEF U, O, R, n
  <2>1. PICK j \in O : t = ScanOf([id |-> j, gen |-> 0], j.dir, tree[n].depth + 1, FALSE)
    OBVIOUS
  <2> DEFINE r == [id |-> j, gen |-> 0]
  <2>2. t = ScanOf(r, j.dir, tree[n].depth + 1, FALSE)
    BY <2>1
  <2> HIDE DEF r, scans
  <2>3. t.target = r /\ t.own
    BY <2>2 DEF ScanOf
  <2> QED BY <2>1, <2>3 DEF r
<1> HIDE DEF scans, U, O, R
<1>9. ASSUME NEW t \in scans PROVE ~Claimed(t.target)
  <2>1. PICK j \in O : t.target = [id |-> j, gen |-> 0]
    BY <1>8
  <2>2. t.target.id \in events[1].joined /\ t.target.id = j
    BY <1>3, <1>5, <2>1
  <2> QED BY <1>3, <2>2, ClaimedType DEF ClaimInv, Sane
<1>10. Apart(scans)
  <2> SUFFICES ASSUME NEW t \in scans, NEW u \in scans, t.target = u.target PROVE t = u
    BY DEF Apart
  <2>1. PICK j \in O : t.target = [id |-> j, gen |-> 0]
                         /\ t = ScanOf([id |-> j, gen |-> 0], j.dir, tree[n].depth + 1, FALSE)
    BY <1>8
  <2>2. PICK k \in O : u.target = [id |-> k, gen |-> 0]
                         /\ u = ScanOf([id |-> k, gen |-> 0], k.dir, tree[n].depth + 1, FALSE)
    BY <1>8
  <2>3. j = k
    <3>1. t.target = [id |-> j, gen |-> 0] /\ t.target = [id |-> k, gen |-> 0]
      BY <2>1, <2>2
    <3>2. t.target.id = j
      BY <3>1
    <3>3. t.target.id = k
      BY <3>1
    <3> QED BY <3>2, <3>3
  <2> QED BY <2>1, <2>2, <2>3
<1>11. /\ QueueApart' /\ HandsApart' /\ ResultsApart'
       /\ \A i \in DOMAIN events' : \E j \in DOMAIN events : j # 1 /\ events'[i] = events[j]
       /\ \A r : Claimed(r)' => \/ Claimed(r) /\ r \notin OwnedBy(e)
                                \/ r \in Owned(scans)
  BY <1>1, <1>9, <1>10, PumpedClaims DEF e
<1>12. \A i \in DOMAIN events' : NewIds(events'[i]) \cap NewIds(e) = {}
  BY <1>3, <1>11 DEF TreeInv, EventsApart
<1>13. \A m \in new : m \notin DOMAIN tree /\ m \in Id /\ m # n
  BY <1>1, <1>2, <1>5 DEF EventFits, NewIds, Event
<1>14. \A m \in DOMAIN U : U[m].parent \notin new
  <2> SUFFICES ASSUME NEW m \in DOMAIN U PROVE U[m].parent \notin new
    OBVIOUS
  <2>1. NoNode \notin new /\ n \notin new
    BY <1>13 DEF ScanTreeAssumption, Id
  <2>2. CASE m \in new
    BY <1>4, <2>1, <2>2
  <2>3. CASE m \in DOMAIN tree
    <3>1. U[m].parent \in {n} \cup DOMAIN tree \cup {NoNode}
      BY <1>4, <2>3 DEF TreeInv, Forest, Shaped
    <3> HIDE DEF new
    <3> QED BY <1>13, <2>1, <3>1
  <2> QED BY <1>4, <2>2, <2>3
<1>15. ASSUME NEW r \in Ref, Claimed(r)' PROVE Sane(r)'
  <2>1. r.id \in Id /\ r.id.dir \in Dir /\ r.gen \in Nat
    BY DEF Ref, Id
  <2>2. ASSUME r.id \in new, r.gen = 0 PROVE Sane(r)'
    <3>1. r.id.nr < allocated'[r.id.dir]
      BY <1>1, <1>2, <1>5, <2>2
    <3>2. r.id \in DOMAIN tree' => r.gen <= tree'[r.id].gen
      BY <1>1, <1>4, <2>2
    <3>3. \A i \in DOMAIN events' : r.id \notin events'[i].joined \cup events'[i].closed
      BY <1>5, <1>12, <2>2 DEF NewIds
    <3>4. Children(tree', r.id) = {}
      BY <1>1, <1>14, <2>2 DEF Children
    <3> QED BY <2>2, <3>1, <3>2, <3>3, <3>4 DEF Sane
  <2>3. CASE r \in Owned(scans)
    <3>1. PICK t \in scans : t.target = r
      BY <2>3 DEF Owned
    <3>2. PICK j \in O : t.target = [id |-> j, gen |-> 0]
      BY <1>8
    <3>3. r.id = j /\ r.gen = 0
      BY <3>1, <3>2
    <3> QED BY <2>2, <3>3
  <2>4. CASE Claimed(r) /\ r \notin OwnedBy(e)
    <3>1. Sane(r)
      BY <2>4 DEF ClaimInv
    <3>2. CASE r.id \in new
      <4>1. r.id \in e.children
        BY <1>3, <1>5, <3>1, <3>2 DEF Sane
      <4> QED BY <1>3, <2>2, <3>1, <3>2, <4>1 DEF Sane
    <3>3. CASE r.id \notin new
      <4>1. allocated[r.id.dir] <= allocated'[r.id.dir]
        BY <1>1, <2>1, GenType
      <4>2. r.id \in DOMAIN tree' => r.id \in DOMAIN tree /\ tree[r.id].gen <= tree'[r.id].gen
        BY <1>1, <1>4, <3>3, GenType
      <4>3. ASSUME IsCurrent(tree, r), NEW m \in DOMAIN tree', tree'[m].parent = r.id
            PROVE  m \in DOMAIN tree /\ tree[m].parent = r.id
        <5>1. CASE r.id = n
          <6>1. r = e.target
            <7>1. r.gen = e.target.gen
              BY <1>1, <4>3, <5>1 DEF IsCurrent
            <7>2. e.target \in Ref
              BY <1>2 DEF Event
            <7> QED BY <5>1, <7>1, <7>2 DEF Ref
          <6>2. ~e.own
            BY <2>4, <6>1 DEF OwnedBy
          <6> QED BY <1>1, <1>4, <1>7, <4>3, <6>2
        <5>2. CASE r.id # n
          BY <1>1, <1>4, <4>3, <5>2
        <5> QED BY <5>1, <5>2
      <4>4. \A i \in DOMAIN events' : \E j \in DOMAIN events : events'[i] = events[j]
        BY <1>11
      <4> QED BY <3>1, <4>1, <4>2, <4>3, <4>4, SaneKept
    <3> QED BY <3>2, <3>3
  <2> QED BY <1>11, <1>15, <2>3, <2>4
<1>16. OneNodePerPlace'
  <2> SUFFICES ASSUME NEW m \in DOMAIN U, NEW k \in DOMAIN U,
                      m.dir = k.dir, U[m].parent = U[k].parent
               PROVE  m = k
    BY <1>1 DEF OneNodePerPlace
  <2>1. ASSUME NEW x \in new, NEW y \in DOMAIN tree, x.dir = y.dir, U[y].parent = n PROVE FALSE
    <3>1. y \in R
      BY <1>4, <1>6, <1>7, <2>1 DEF Children
    <3>2. PICK j \in e.joined : j.dir = y.dir
      BY <1>5, <3>1
    <3>3. x = j
      BY <1>2, <1>5, <2>1, <3>2 DEF EventFits, NewIds
    <3>4. x \in O
      BY <1>2, <3>2, <3>3 DEF EventFits
    <3> QED BY <2>1, <3>1, <3>4 DEF O, R, Orphans
  <2>2. CASE m \in new /\ k \in new
    BY <1>2, <1>5, <2>2 DEF EventFits
  <2>3. CASE m \in new /\ k \in DOMAIN tree
    BY <1>4, <2>1, <2>3
  <2>4. CASE k \in new /\ m \in DOMAIN tree
    BY <1>4, <2>1, <2>4
  <2>5. CASE m \in DOMAIN tree /\ k \in DOMAIN tree
    <3>1. CASE m \in R /\ k \in R
      BY <1>5, <2>5, <3>1 DEF ClaimInv, OneNodePerPlace
    <3>2. CASE m \notin R /\ k \notin R
      BY <1>4, <2>5, <3>2 DEF ClaimInv, OneNodePerPlace
    <3>3. CASE (m \in R) # (k \in R)
      BY <1>4, <1>6, <1>7, <2>5, <3>3 DEF Children
    <3> QED BY <3>1, <3>2, <3>3
  <2> QED BY <1>4, <2>2, <2>3, <2>4, <2>5
<1> QED BY <1>11, <1>15, <1>16 DEF ClaimInv

(* A step of the interface thread that leaves workers and events alone and *)
(* queues the scans of nodes nobody is listing.                            *)
LEMMA ClaimInvQueued ==
  ASSUME TreeInv, TreeInv', ClaimInv, UNCHANGED <<worker, events>>,
         NEW scans, queue' \subseteq queue \cup scans, Apart(scans),
         \A t \in scans : ~Claimed(t.target) /\ Sane(t.target)',
         \A d \in Dir : allocated[d] <= allocated'[d],
         \A r \in Ref : Claimed(r) =>
           /\ r.id \in DOMAIN tree' => r.id \in DOMAIN tree /\ tree[r.id].gen <= tree'[r.id].gen
           /\ \A m \in DOMAIN tree' : tree'[m].parent = r.id =>
                m \in DOMAIN tree /\ tree[m].parent = r.id,
         OneNodePerPlace'
  PROVE  ClaimInv'
<1>1. /\ QueueApart' /\ HandsApart' /\ ResultsApart'
      /\ \A r : Claimed(r)' => Claimed(r) \/ r \in Owned(scans)
  <2>1. \A i \in DOMAIN events' : \E j \in DOMAIN events : events'[i] = events[j]
    OBVIOUS
  <2>2. \A i, j \in DOMAIN events' : i # j => OwnedBy(events'[i]) \cap OwnedBy(events'[j]) = {}
    BY DEF ClaimInv, ResultsApart
  <2> QED BY <2>1, <2>2, ClaimsQueued DEF ClaimInv
<1>2. ASSUME NEW r \in Ref, Claimed(r)' PROVE Sane(r)'
  <2>1. CASE Claimed(r)
    <3>1. Sane(r) /\ r.id.dir \in Dir
      BY <2>1 DEF ClaimInv, Ref, Id
    <3>2. allocated[r.id.dir] <= allocated'[r.id.dir]
      BY <3>1
    <3>3. \A i \in DOMAIN events' : \/ r.id \notin NewIds(events'[i])
                                    \/ \E j \in DOMAIN events : events'[i] = events[j]
      OBVIOUS
    <3> QED BY <2>1, <3>1, <3>2, <3>3, SaneKept
  <2>2. CASE r \in Owned(scans)
    <3>1. PICK t \in scans : t.target = r
      BY <2>2 DEF Owned
    <3> QED BY <3>1
  <2> QED BY <1>1, <1>2, <2>1, <2>2
<1> QED BY <1>1, <1>2 DEF ClaimInv

LEMMA ClaimInvQuiet ==
  ASSUME TreeInv, TreeInv', ClaimInv, UNCHANGED <<tree, queue, worker, events, allocated>>
  PROVE  ClaimInv'
<1>1. \A w \in Worker : Held(w)' = Held(w)
  BY DEF Held
<1>2. QueueApart' /\ HandsApart' /\ ResultsApart' /\ \A r \in Ref : Claimed(r)' => Claimed(r)
  BY <1>1 DEF ClaimInv, QueueApart, HandsApart, ResultsApart, Claimed
<1>3. \A i \in DOMAIN events' : \E j \in DOMAIN events : events'[i] = events[j]
  OBVIOUS
<1> QED BY <1>2, <1>3, ClaimInvMoved

LEMMA ClaimInvRescan ==
  ASSUME ScanTreeAssumption, TreeInv, TreeInv', ClaimInv, NEW n, NEW force \in BOOLEAN,
         Becomes(Rescan(Now, n, force)), UNCHANGED <<worker, events, allocated>>
  PROVE  ClaimInv'
<1>1. CASE n \notin DOMAIN tree
  <2>1. tree' = tree /\ queue' = queue
    BY <1>1 DEF Becomes, Rescan, Now
  <2> QED BY <2>1, ClaimInvQuiet
<1>2. CASE n \in DOMAIN tree
  <2> DEFINE T == ResetForRescan(tree, n)
  <2> PICK ref : ref = Reference(T, n)
    OBVIOUS
  <2> PICK t : t = ScanOf(ref, n.dir, T[n].depth, force)
    OBVIOUS
  <2> DEFINE scans == {t}
  <2>1. /\ DOMAIN T \subseteq DOMAIN tree /\ n \in DOMAIN T
        /\ \A m \in DOMAIN T : /\ T[m].parent = tree[m].parent /\ T[m].parent # n
                               /\ T[m].gen = IF m = n THEN tree[m].gen + 1 ELSE tree[m].gen
    BY <1>2, ResetForRescanKeeps DEF TreeInv
  <2>2. tree' = T /\ queue' \subseteq queue \cup scans
    BY <1>2 DEF Becomes, Rescan, Now
  <2> HIDE DEF T
  <2>3. ref.id = n /\ ref.gen = tree[n].gen + 1 /\ t.target = ref
    BY <2>1 DEF Reference, ScanOf
  <2>4. n \in Id /\ tree[n].gen \in Nat /\ \A m \in DOMAIN tree : tree[m].gen \in Nat
    BY <1>2, GenType
  <2>5. ~Claimed(ref)
    <3> SUFFICES ASSUME Claimed(ref) PROVE FALSE
      OBVIOUS
    <3>1. Sane(ref)
      BY ClaimedType DEF ClaimInv
    <3> QED BY <1>2, <2>3, <2>4, <3>1 DEF Sane
  <2>6. Sane(ref)'
    <3>1. n.nr < allocated'[n.dir]
      BY <1>2 DEF TreeInv, IdsAllocated
    <3>2. T[n].gen = ref.gen /\ ref.gen \in Nat
      BY <2>1, <2>3, <2>4
    <3>3. \A i \in DOMAIN events : n \notin NewIds(events[i])
      BY <1>2 DEF TreeInv, EventsFit, EventFits
    <3>4. Children(T, n) = {}
      BY <2>1 DEF Children
    <3> QED BY <2>2, <2>3, <3>1, <3>2, <3>3, <3>4 DEF Sane, NewIds
  <2>7. ASSUME NEW r \in Ref, Claimed(r)
        PROVE  /\ r.id \in DOMAIN tree' => r.id \in DOMAIN tree /\ tree[r.id].gen <= tree'[r.id].gen
               /\ \A m \in DOMAIN tree' : tree'[m].parent = r.id =>
                    m \in DOMAIN tree /\ tree[m].parent = r.id
    <3>1. ASSUME r.id \in DOMAIN T PROVE r.id \in DOMAIN tree /\ tree[r.id].gen <= T[r.id].gen
      <4>1. CASE r.id = n
        BY <1>2, <2>1, <2>4, <4>1
      <4>2. CASE r.id # n
        BY <2>1, <2>4, <3>1, <4>2
      <4> QED BY <4>1, <4>2
    <3> QED BY <2>1, <2>2, <3>1
  <2>8. OneNodePerPlace'
    BY <2>1, <2>2 DEF ClaimInv, OneNodePerPlace
  <2>9. Apart(scans) /\ \A u \in scans : ~Claimed(u.target) /\ Sane(u.target)'
    BY <2>3, <2>5, <2>6 DEF Apart
  <2>10. \A d \in Dir : allocated[d] <= allocated'[d]
    BY GenType
  <2> HIDE DEF scans
  <2> QED BY <2>2, <2>7, <2>8, <2>9, <2>10, ClaimInvQueued
<1> QED BY <1>1, <1>2

LEMMA ClaimInvRemove ==
  ASSUME ScanTreeAssumption, TreeInv, TreeInv', ClaimInv, NEW n,
         Becomes(RemoveNode(Now, n)), UNCHANGED <<worker, events, allocated>>
  PROVE  ClaimInv'
<1> DEFINE scans == {}
<1>1. /\ DOMAIN tree' \subseteq DOMAIN tree /\ queue' \subseteq queue \cup scans
      /\ \A m \in DOMAIN tree' : tree'[m].parent = tree[m].parent /\ tree'[m].gen = tree[m].gen
  <2>1. CASE n \notin DOMAIN tree
    BY <2>1 DEF Becomes, RemoveNode, Now
  <2>2. CASE n \in DOMAIN tree
    <3> DEFINE T == RemoveSubtree(tree, n)
    <3>1. /\ DOMAIN T \subseteq DOMAIN tree
          /\ \A m \in DOMAIN T : T[m].parent = tree[m].parent /\ T[m].gen = tree[m].gen
      BY <2>2, RemoveSubtreeKeeps DEF TreeInv
    <3>2. tree' = T /\ queue' \subseteq queue
      BY <2>2 DEF Becomes, RemoveNode, Now
    <3> QED BY <3>1, <3>2
  <2> QED BY <2>1, <2>2
<1>2. ASSUME NEW r \in Ref
      PROVE  /\ r.id \in DOMAIN tree' => r.id \in DOMAIN tree /\ tree[r.id].gen <= tree'[r.id].gen
             /\ \A m \in DOMAIN tree' : tree'[m].parent = r.id =>
                  m \in DOMAIN tree /\ tree[m].parent = r.id
  BY <1>1, GenType
<1>3. OneNodePerPlace'
  BY <1>1 DEF ClaimInv, OneNodePerPlace
<1>4. Apart(scans) /\ \A t \in scans : ~Claimed(t.target) /\ Sane(t.target)'
  BY DEF Apart
<1>5. \A d \in Dir : allocated[d] <= allocated'[d]
  BY GenType
<1> HIDE DEF scans
<1> QED BY <1>1, <1>2, <1>3, <1>4, <1>5, ClaimInvQueued

LEMMA ClaimInvStartRoot ==
  ASSUME ScanTreeAssumption, TreeInv, TreeInv', ClaimInv, NEW d \in Dir,
         NEW purpose \in {"Filesystem", "Measurement"},
         StartRoot(d, purpose), UNCHANGED <<worker, events>>
  PROVE  ClaimInv'
<1> DEFINE n == NextId(d)
           T == InsertRoot(tree, n, purpose)
<1> PICK ref : ref = Reference(T, n)
  OBVIOUS
<1> PICK t : t = ScanOf(ref, d, 0, FALSE)
  OBVIOUS
<1> DEFINE scans == {t}
<1>1. n \in Id /\ n \notin DOMAIN tree /\ n.dir = d /\ n.nr = allocated[d]
      /\ \A i \in DOMAIN events : n \notin NewIds(events[i])
  BY NextIdFresh
<1>2. tree' = T /\ queue' = queue \cup scans /\ Allocate({d}) /\ RootAt(tree, d) = {}
  BY DEF StartRoot, Becomes
<1> HIDE DEF n
<1>3. GrownBy(tree, T, NoNode, {n})
  BY <1>1, InsertRootKeeps DEF TreeInv
<1>4. ref.id = n /\ ref.gen = T[n].gen /\ t.target = ref
  BY DEF Reference, ScanOf
<1> HIDE DEF T
<1>5. /\ DOMAIN T = DOMAIN tree \cup {n} /\ T[n].parent = NoNode /\ T[n].gen = 0
      /\ \A m \in DOMAIN tree : T[m].parent = tree[m].parent /\ T[m].gen = tree[m].gen
  BY <1>3 DEF GrownBy
<1>6. allocated[d] \in Nat /\ allocated[d] < allocated'[d] /\ \A x \in Dir : allocated[x] <= allocated'[x]
  BY <1>2, AllocateGrows, GenType
<1>7. ASSUME NEW r \in Ref, Claimed(r) PROVE r.id # n
  <2>1. r.id.nr < allocated[r.id.dir] /\ r.id.nr \in Nat
    BY <1>7 DEF ClaimInv, Sane, Ref, Id
  <2> QED BY <1>1, <1>6, <2>1
<1>8. ~Claimed(ref)
  BY <1>4, <1>7, ClaimedType
<1>9. NoNode # n /\ n \notin {tree[m].parent : m \in DOMAIN tree}
  BY <1>1 DEF ScanTreeAssumption, Id, TreeInv, Forest, Shaped
<1>10. Sane(ref)'
  <2>1. n.nr < allocated'[n.dir]
    BY <1>1, <1>6
  <2>2. Children(T, n) = {}
    BY <1>5, <1>9 DEF Children
  <2>3. ref.gen = 0
    BY <1>4, <1>5
  <2>4. ref.gen <= T[n].gen
    BY <1>5, <2>3
  <2> QED BY <1>1, <1>2, <1>4, <2>1, <2>2, <2>3, <2>4 DEF Sane, NewIds
<1>11. ASSUME NEW r \in Ref, Claimed(r)
       PROVE  /\ r.id \in DOMAIN tree' => r.id \in DOMAIN tree /\ tree[r.id].gen <= tree'[r.id].gen
              /\ \A m \in DOMAIN tree' : tree'[m].parent = r.id =>
                   m \in DOMAIN tree /\ tree[m].parent = r.id
  <2>1. r.id # n /\ r.id # NoNode
    BY <1>7, <1>11 DEF ScanTreeAssumption, Ref, Id
  <2>2. \A m \in DOMAIN tree : tree[m].gen \in Nat
    BY GenType
  <2>3. r.id \in DOMAIN tree' => r.id \in DOMAIN tree /\ tree[r.id].gen <= tree'[r.id].gen
    BY <1>2, <1>5, <2>1, <2>2
  <2>4. ASSUME NEW m \in DOMAIN tree', tree'[m].parent = r.id
        PROVE  m \in DOMAIN tree /\ tree[m].parent = r.id
    BY <1>2, <1>5, <2>1, <2>4
  <2> QED BY <2>3, <2>4
<1>12. OneNodePerPlace'
  <2> SUFFICES ASSUME NEW m \in DOMAIN T, NEW k \in DOMAIN T,
                      m.dir = k.dir, T[m].parent = T[k].parent
               PROVE  m = k
    BY <1>2 DEF OneNodePerPlace
  <2>1. ASSUME NEW x \in DOMAIN tree, x.dir = d, tree[x].parent = NoNode PROVE FALSE
    BY <1>2, <2>1 DEF RootAt, Roots
  <2> QED BY <1>1, <1>5, <2>1 DEF ClaimInv, OneNodePerPlace
<1>13. Apart(scans) /\ \A u \in scans : ~Claimed(u.target) /\ Sane(u.target)'
  BY <1>4, <1>8, <1>10 DEF Apart
<1> HIDE DEF scans
<1> QED BY <1>2, <1>6, <1>11, <1>12, <1>13, ClaimInvQueued

LEMMA ClaimInvDeletion ==
  ASSUME ScanTreeAssumption, TreeInv, TreeInv', ClaimInv, DeletionStep
  PROVE  ClaimInv'
<1>1. CASE DeleteNextItem
  <2>1. UNCHANGED <<tree, queue, worker, events, allocated>>
    BY <1>1 DEF DeleteNextItem
  <2> QED BY <2>1, ClaimInvQuiet
<1>2. CASE AbsorbOutcome
  <2>1. UNCHANGED <<worker, events, allocated>>
    BY <1>2 DEF AbsorbOutcome
  <2>2. PICK n : \/ Becomes(RemoveNode(Now, n))
                 \/ Becomes(Rescan(Now, n, FALSE))
                 \/ UNCHANGED <<tree, queue>>
    BY <1>2 DEF AbsorbOutcome
  <2>3. CASE Becomes(RemoveNode(Now, n))
    BY <2>1, <2>3, ClaimInvRemove
  <2>4. CASE Becomes(Rescan(Now, n, FALSE))
    BY <2>1, <2>4, ClaimInvRescan
  <2>5. CASE UNCHANGED <<tree, queue>>
    BY <2>1, <2>5, ClaimInvQuiet
  <2> QED BY <2>2, <2>3, <2>4, <2>5
<1> QED BY <1>1, <1>2 DEF DeletionStep

LEMMA ClaimInvUser ==
  ASSUME ScanTreeAssumption, TreeInv, TreeInv', ClaimInv, UserStep
  PROVE  ClaimInv'
<1>1. CASE RescanNode
  <2>1. PICK n : Becomes(Rescan(Now, n, FALSE))
    BY <1>1 DEF RescanNode
  <2>2. UNCHANGED <<worker, events, allocated>>
    BY <1>1 DEF RescanNode
  <2> QED BY <2>1, <2>2, ClaimInvRescan
<1>2. CASE ForceDense
  <2>1. PICK n : Becomes(Rescan(Now, n, TRUE))
    BY <1>2 DEF ForceDense
  <2>2. UNCHANGED <<worker, events, allocated>>
    BY <1>2 DEF ForceDense
  <2> QED BY <2>1, <2>2, ClaimInvRescan
<1>3. CASE EnterDirectory
  <2>1. UNCHANGED <<worker, events>>
    BY <1>3 DEF EnterDirectory
  <2>2. PICK n \in DOMAIN tree : \/ Becomes(Rescan(Now, n, FALSE)) /\ UNCHANGED allocated
                                 \/ StartRoot(n.dir, "Filesystem")
    BY <1>3 DEF EnterDirectory
  <2>3. n.dir \in Dir
    BY DEF TreeInv, Forest, Shaped, Id
  <2>4. CASE Becomes(Rescan(Now, n, FALSE)) /\ UNCHANGED allocated
    BY <2>1, <2>4, ClaimInvRescan
  <2>5. CASE StartRoot(n.dir, "Filesystem")
    BY <2>1, <2>3, <2>5, ClaimInvStartRoot
  <2> QED BY <2>2, <2>4, <2>5
<1>4. CASE OpenPath
  <2>1. PICK d \in onDisk : StartRoot(d, "Filesystem")
    BY <1>4 DEF OpenPath
  <2>2. UNCHANGED <<worker, events>>
    BY <1>4 DEF OpenPath
  <2>3. d \in Dir
    BY <2>1 DEF TreeInv, ThreadsOK
  <2> QED BY <2>1, <2>2, <2>3, ClaimInvStartRoot
<1>5. CASE MeasureForCleaner
  <2>1. PICK d \in onDisk : StartRoot(d, "Measurement")
    BY <1>5 DEF MeasureForCleaner
  <2>2. UNCHANGED <<worker, events>>
    BY <1>5 DEF MeasureForCleaner
  <2>3. d \in Dir
    BY <2>1 DEF TreeInv, ThreadsOK
  <2> QED BY <2>1, <2>2, <2>3, ClaimInvStartRoot
<1>6. CASE ToggleMark
  <2>1. UNCHANGED <<tree, queue, worker, events, allocated>>
    BY <1>6 DEF ToggleMark
  <2> QED BY <2>1, ClaimInvQuiet
<1>7. CASE ConfirmDeletion
  <2>1. UNCHANGED <<tree, queue, worker, events, allocated>>
    BY <1>7, Zenon DEF ConfirmDeletion
  <2> QED BY <2>1, ClaimInvQuiet
<1> QED BY <1>1, <1>2, <1>3, <1>4, <1>5, <1>6, <1>7 DEF UserStep

LEMMA ClaimInvStep == ScanTreeAssumption /\ TreeInv /\ ClaimInv /\ [Next]_vars => ClaimInv'
<1> SUFFICES ASSUME ScanTreeAssumption, TreeInv, ClaimInv, [Next]_vars PROVE ClaimInv'
  OBVIOUS
<1>1. TreeInv'
  BY TreeInvStep
<1>2. CASE \E w \in Worker : ScannerStep(w)
  BY <1>1, <1>2, ClaimInvTake, ClaimInvEmitProblem, ClaimInvEmitMeasurement, ClaimInvPushChildren
     DEF ScannerStep
<1>3. CASE CoordinatorStep
  BY <1>1, <1>3, ClaimInvDropOrFinish, ClaimInvApply DEF CoordinatorStep
<1>4. CASE DeletionStep
  BY <1>1, <1>4, ClaimInvDeletion
<1>5. CASE UserStep
  BY <1>1, <1>5, ClaimInvUser
<1>6. CASE UNCHANGED vars
  <2>1. UNCHANGED <<tree, queue, worker, events, allocated>>
    BY <1>6 DEF vars
  <2> QED BY <1>1, <2>1, ClaimInvQuiet
<1> QED BY <1>2, <1>3, <1>4, <1>5, <1>6 DEF Next

LEMMA ClaimInvInit == ScanTreeAssumption /\ Init => ClaimInv
<1> SUFFICES ASSUME ScanTreeAssumption, Init PROVE ClaimInv
  OBVIOUS
<1> PICK first : first = [dir |-> Top, nr |-> 0]
  OBVIOUS
<1> PICK ref : ref = [id |-> first, gen |-> 0]
  OBVIOUS
<1> PICK t : t = ScanOf(ref, Top, 0, FALSE)
  OBVIOUS
<1>1. /\ tree = InsertRoot(<<>>, first, "Filesystem") /\ queue = {t}
      /\ \A w \in Worker : worker[w] = Idle
      /\ events = <<>> /\ DOMAIN events = {}
      /\ first.dir = Top /\ first.nr = 0 /\ allocated[Top] = 1 /\ t.target = ref
      /\ ref.id = first /\ ref.gen = 0
  BY DEF Init, ScanOf, ScanTreeAssumption
<1>2. DOMAIN tree = {first} /\ tree[first].parent = NoNode /\ tree[first].gen = 0
  <2>1. DOMAIN <<>> = {}
    OBVIOUS
  <2> QED BY <1>1, <2>1 DEF InsertRoot, NewNode
<1>3. \A w \in Worker : Held(w) = {} /\ Owned(Held(w)) = {} /\ Apart(Held(w))
  BY <1>1, HeldOf DEF Owned, Apart
<1>4. QueueApart /\ HandsApart /\ ResultsApart
  BY <1>1, <1>3 DEF QueueApart, HandsApart, ResultsApart, Apart
<1>5. ASSUME NEW r \in Ref, Claimed(r) PROVE Sane(r)
  <2>1. r = ref
    BY <1>1, <1>3, <1>5 DEF Claimed, Owned
  <2>2. first # NoNode
    BY DEF ScanTreeAssumption
  <2>3. Children(tree, first) = {}
    BY <1>2, <2>2 DEF Children
  <2> QED BY <1>1, <1>2, <2>1, <2>3 DEF Sane
<1>6. OneNodePerPlace
  BY <1>2 DEF OneNodePerPlace
<1> QED BY <1>4, <1>5, <1>6 DEF ClaimInv

(* A path has one root at most, and a parent one child for a directory: a  *)
(* scan never doubles a child or a root, although events arrive late and   *)
(* out of order, rescans forget nodes whose listings are under way, and    *)
(* separately measured roots join the tree that listed the same directory. *)
THEOREM PlacesUnique == Spec => []OneNodePerPlace
<1>1. Init => ClaimInv
  BY ClaimInvInit, ScanTreeAssumption
<1>2. TreeInv /\ ClaimInv /\ [Next]_vars => ClaimInv'
  BY ClaimInvStep, ScanTreeAssumption
<1>3. ClaimInv => OneNodePerPlace
  BY DEF ClaimInv
<1> QED BY <1>1, <1>2, <1>3, TreeInvariant, PTL DEF Spec
=============================================================================
