------------------------------ MODULE DiskProofs ------------------------------
(***************************************************************************)
(* What the runs and the commands do to the disk: the remover leaves       *)
(* nothing behind of a path that it reports as removed.                    *)
(*                                                                         *)
(* The invariant builds on that of OperationsProofs: GoneInv says what is  *)
(* still ahead of the job in hand.                                         *)
(***************************************************************************)
EXTENDS OperationsProofs

-----------------------------------------------------------------------------
(* What is gone.  The entries under a directory are itself and those under *)
(* what it holds.                                                          *)

Holds(x) == {x} \cup (IF x \in Directory THEN ToSet(Inside[x]) ELSE {})
UnderStep(e, g, n) == IF n = 0 THEN {e} ELSE UNION {Holds(x) : x \in g[n - 1]}
Depths(e) == CHOOSE g : g = [n \in 0 .. Cardinality(Directory) |-> UnderStep(e, g, n)]

LEMMA DirectoriesFinite == Cardinality(Directory) \in Nat /\ IsFiniteSet(Directory)
<1>1. IsFiniteSet(Directory)
  BY RemovalAssumption, FS_Subset
<1> QED BY <1>1, FS_CardinalityType

LEMMA DepthsUnfold ==
  ASSUME NEW e
  PROVE  /\ Depths(e) = [n \in 0 .. Cardinality(Directory) |-> UnderStep(e, Depths(e), n)]
         /\ Under(e) = Depths(e)[Cardinality(Directory)]
<1> DEFINE F == {k \in Nat : \E g : g = [n \in 0 .. k |-> UnderStep(e, g, n)]}
<1>1. 0 \in F
  <2>1. PICK c : c = [n \in 0 .. 0 |-> UnderStep(e, <<>>, n)]
    BY Zenon
  <2>2. \A n \in 0 .. 0 : UnderStep(e, <<>>, n) = UnderStep(e, c, n)
    BY DEF UnderStep
  <2>3. c = [n \in 0 .. 0 |-> UnderStep(e, c, n)]
    BY <2>1, <2>2
  <2> QED BY <2>3
<1>2. ASSUME NEW k \in F PROVE k + 1 \in F
  <2>1. PICK g : g = [n \in 0 .. k |-> UnderStep(e, g, n)]
    BY <1>2
  <2>2. PICK h : h = [n \in 0 .. k + 1 |-> UnderStep(e, g, n)]
    BY Zenon
  <2>3. k \in Nat
    BY <1>2
  <2>4. \A n \in 0 .. k : h[n] = g[n]
    <3>1. \A n \in 0 .. k : n \in 0 .. k + 1
      BY <2>3
    <3> QED BY <2>1, <2>2, <3>1
  <2>5. ASSUME NEW n \in 0 .. k + 1 PROVE UnderStep(e, g, n) = UnderStep(e, h, n)
    <3>1. CASE n = 0
      BY <3>1 DEF UnderStep
    <3>2. CASE n # 0
      <4>1. n - 1 \in 0 .. k
        BY <2>3, <3>2
      <4>2. h[n - 1] = g[n - 1]
        BY <2>4, <4>1
      <4> QED BY <4>2 DEF UnderStep
    <3> QED BY <3>1, <3>2
  <2>6. h = [n \in 0 .. k + 1 |-> UnderStep(e, h, n)]
    BY <2>2, <2>5
  <2> QED BY <2>3, <2>6
<1>3. F = Nat
  <2> HIDE DEF F
  <2>1. F \in SUBSET Nat
    BY DEF F
  <2> QED BY <1>1, <1>2, <2>1, NatSetInduction
<1>4. \E g : g = [n \in 0 .. Cardinality(Directory) |-> UnderStep(e, g, n)]
  <2>1. Cardinality(Directory) \in F
    BY <1>3, DirectoriesFinite
  <2> QED BY <2>1
<1>5. Depths(e) = [n \in 0 .. Cardinality(Directory) |-> UnderStep(e, Depths(e), n)]
  BY <1>4 DEF Depths
<1>6. Under(e) = Depths(e)[Cardinality(Directory)]
  BY Zenon DEF Under, Depths, UnderStep, Holds
<1> QED BY <1>5, <1>6

LEMMA DepthsParts ==
  ASSUME NEW e, NEW N, N = Cardinality(Directory)
  PROVE  /\ N \in Nat /\ Depths(e)[0] = {e} /\ Under(e) = Depths(e)[N]
         /\ \A n \in Nat : n + 1 <= N => Depths(e)[n + 1] = UNION {Holds(x) : x \in Depths(e)[n]}
<1>1. N \in Nat
  BY DirectoriesFinite
<1>2. PICK g : g = Depths(e)
  OBVIOUS
<1>3. g = [n \in 0 .. N |-> UnderStep(e, g, n)] /\ Under(e) = g[N]
  BY <1>2, DepthsUnfold
<1>4. 0 \in 0 .. N
  BY <1>1
<1>5. g[0] = {e}
  BY <1>3, <1>4 DEF UnderStep
<1>6. ASSUME NEW n \in Nat, n + 1 <= N
      PROVE  g[n + 1] = UNION {Holds(x) : x \in g[n]}
  <2>1. n + 1 \in 0 .. N /\ n + 1 # 0 /\ (n + 1) - 1 = n
    BY <1>1, <1>6
  <2>2. g[n + 1] = UnderStep(e, g, n + 1)
    BY <1>3, <2>1
  <2> QED BY <2>1, <2>2 DEF UnderStep
<1> QED BY <1>1, <1>2, <1>3, <1>5, <1>6

LEMMA DepthsOfFile ==
  ASSUME NEW e, e \notin Directory
  PROVE  Under(e) = {e}
<1> DEFINE N == Cardinality(Directory)
           F == {n \in Nat : n <= N => Depths(e)[n] = {e}}
<1>1. /\ N \in Nat /\ Depths(e)[0] = {e} /\ Under(e) = Depths(e)[N]
      /\ \A n \in Nat : n + 1 <= N => Depths(e)[n + 1] = UNION {Holds(x) : x \in Depths(e)[n]}
  BY DepthsParts
<1> HIDE DEF N
<1>2. 0 \in F
  BY <1>1
<1>3. ASSUME NEW n \in F PROVE n + 1 \in F
  <2>1. n \in Nat /\ (n <= N => Depths(e)[n] = {e})
    BY <1>3
  <2>2. ASSUME n + 1 <= N PROVE Depths(e)[n + 1] = {e}
    <3>1. n <= N
      BY <1>1, <2>1, <2>2
    <3>2. Depths(e)[n] = {e} /\ Depths(e)[n + 1] = UNION {Holds(x) : x \in Depths(e)[n]}
      BY <1>1, <2>1, <2>2, <3>1
    <3>3. Holds(e) = {e}
      BY DEF Holds
    <3> QED BY <3>2, <3>3
  <2> QED BY <2>1, <2>2
<1>4. F = Nat
  <2> HIDE DEF F
  <2>1. F \in SUBSET Nat
    BY DEF F
  <2> QED BY <1>2, <1>3, <2>1, NatSetInduction
<1>5. N \in F
  BY <1>1, <1>4
<1> QED BY <1>1, <1>5

LEMMA DepthsGrow ==
  ASSUME NEW e, NEW m \in Nat, NEW n \in Nat, m <= n, n <= Cardinality(Directory)
  PROVE  Depths(e)[m] \subseteq Depths(e)[n]
<1> DEFINE N == Cardinality(Directory)
           F == {k \in Nat : m + k <= N => Depths(e)[m] \subseteq Depths(e)[m + k]}
<1>1. /\ N \in Nat
      /\ \A k \in Nat : k + 1 <= N => Depths(e)[k + 1] = UNION {Holds(x) : x \in Depths(e)[k]}
  BY DepthsParts
<1>2. n <= N
  OBVIOUS
<1> HIDE DEF N
<1>3. 0 \in F
  OBVIOUS
<1>4. ASSUME NEW k \in F PROVE k + 1 \in F
  <2>1. k \in Nat /\ (m + k <= N => Depths(e)[m] \subseteq Depths(e)[m + k])
    BY <1>4
  <2>2. ASSUME m + (k + 1) <= N PROVE Depths(e)[m] \subseteq Depths(e)[m + (k + 1)]
    <3>1. m + k \in Nat /\ m + k <= N /\ m + (k + 1) = (m + k) + 1
      BY <1>1, <2>1, <2>2
    <3>2. Depths(e)[(m + k) + 1] = UNION {Holds(x) : x \in Depths(e)[m + k]}
      BY <1>1, <2>2, <3>1
    <3>3. \A x \in Depths(e)[m + k] : x \in Holds(x)
      BY DEF Holds
    <3>4. Depths(e)[m + k] \subseteq Depths(e)[(m + k) + 1]
      BY <3>2, <3>3
    <3> QED BY <2>1, <3>1, <3>4
  <2> QED BY <2>1, <2>2
<1>5. F = Nat
  <2> HIDE DEF F
  <2>1. F \in SUBSET Nat
    BY DEF F
  <2> QED BY <1>3, <1>4, <2>1, NatSetInduction
<1>6. n - m \in Nat /\ m + (n - m) = n
  OBVIOUS
<1>7. n - m \in F
  BY <1>5, <1>6
<1> QED BY <1>2, <1>6, <1>7

(* An entry lies under itself and, if it is not the directory, under       *)
(* something that the directory holds.                                     *)
LEMMA UnderUnfolds ==
  ASSUME NEW e
  PROVE  /\ e \in Under(e)
         /\ e \notin Directory => Under(e) = {e}
         /\ e \in Directory => Elements(Inside[e]) \subseteq Under(e)
         /\ e \in Directory => \A x \in Under(e) \ {e} : \E y \in Elements(Inside[e]) : x \in Under(y)
<1> DEFINE N == Cardinality(Directory)
<1>1. /\ N \in Nat /\ Depths(e)[0] = {e} /\ Under(e) = Depths(e)[N]
      /\ \A n \in Nat : n + 1 <= N => Depths(e)[n + 1] = UNION {Holds(x) : x \in Depths(e)[n]}
  BY DepthsParts
<1>2. e \in Under(e)
  <2>1. Depths(e)[0] \subseteq Depths(e)[N]
    BY <1>1, DepthsGrow
  <2> QED BY <1>1, <2>1
<1>3. e \notin Directory => Under(e) = {e}
  BY DepthsOfFile
<1>4. ASSUME e \in Directory
      PROVE  /\ Elements(Inside[e]) \subseteq Under(e)
             /\ \A x \in Under(e) \ {e} : \E y \in Elements(Inside[e]) : x \in Under(y)
  <2>1. 1 <= N
    <3>1. N # 0
      BY <1>4, DirectoriesFinite, FS_EmptySet
    <3> HIDE DEF N
    <3> QED BY <1>1, <3>1
  <2>2. ToSet(Inside[e]) = Elements(Inside[e])
    BY DEF ToSet, Elements
  <2> HIDE DEF N
  <2>3. Depths(e)[1] = Holds(e)
    <3>1. 0 \in Nat /\ 0 + 1 <= N /\ 0 + 1 = 1
      BY <2>1
    <3>2. Depths(e)[1] = UNION {Holds(x) : x \in Depths(e)[0]}
      BY <1>1, <3>1
    <3> QED BY <1>1, <3>2
  <2>4. Elements(Inside[e]) \subseteq Under(e)
    <3>1. Depths(e)[1] \subseteq Depths(e)[N]
      BY <1>1, <2>1, DepthsGrow DEF N
    <3> QED BY <1>1, <1>4, <2>2, <2>3, <3>1 DEF Holds
  <2> DEFINE F == {n \in Nat : n <= N =>
                     \A x \in Depths(e)[n] : x = e \/ \E y \in Elements(Inside[e]) : x \in Depths(y)[n]}
  <2>5. 0 \in F
    BY <1>1
  <2>6. ASSUME NEW n \in F PROVE n + 1 \in F
    <3>1. n \in Nat
      BY <2>6
    <3>2. ASSUME n + 1 <= N, NEW x \in Depths(e)[n + 1], x # e
          PROVE  \E y \in Elements(Inside[e]) : x \in Depths(y)[n + 1]
      <4>1. n <= N
        BY <1>1, <3>1, <3>2
      <4>2. PICK z \in Depths(e)[n] : x \in Holds(z)
        BY <1>1, <3>1, <3>2
      <4>3. CASE z = e
        <5>1. x \in Elements(Inside[e])
          BY <1>4, <2>2, <3>2, <4>2, <4>3 DEF Holds
        <5>2. Depths(x)[0] = {x}
          BY DepthsParts
        <5>3. Depths(x)[0] \subseteq Depths(x)[n + 1]
          BY <3>1, <3>2, DepthsGrow DEF N
        <5> QED BY <5>1, <5>2, <5>3
      <4>4. CASE z # e
        <5>1. PICK y \in Elements(Inside[e]) : z \in Depths(y)[n]
          BY <2>6, <4>1, <4>2, <4>4
        <5>2. Depths(y)[n + 1] = UNION {Holds(w) : w \in Depths(y)[n]}
          BY <3>1, <3>2, DepthsParts DEF N
        <5>3. x \in Depths(y)[n + 1]
          BY <4>2, <5>1, <5>2
        <5> QED BY <5>3
      <4> QED BY <4>3, <4>4
    <3> QED BY <3>1, <3>2
  <2>7. F = Nat
    <3> HIDE DEF F
    <3>1. F \in SUBSET Nat
      BY DEF F
    <3> QED BY <2>5, <2>6, <3>1, NatSetInduction
  <2>8. ASSUME NEW x \in Under(e) \ {e}
        PROVE  \E y \in Elements(Inside[e]) : x \in Under(y)
    <3>1. N \in F /\ N <= N
      BY <1>1, <2>7
    <3>2. PICK y \in Elements(Inside[e]) : x \in Depths(y)[N]
      BY <1>1, <2>8, <3>1
    <3>3. Under(y) = Depths(y)[N]
      BY DepthsParts DEF N
    <3> QED BY <3>2, <3>3
  <2> QED BY <2>4, <2>8
<1> QED BY <1>2, <1>3, <1>4

(* The directories that a walk has yet to visit or to remove, and what it  *)
(* will find in them.                                                      *)
Frames == [dir : Directory, done : BOOLEAN]
Span(d) == IF d.done THEN {d.dir} ELSE Under(d.dir)
Nested(stack) ==
  \A i, k \in DOMAIN stack : i < k => Span(stack[i]) \cap Under(stack[k].dir) = {}
Clear(files, stack) == \A d \in Elements(stack) : Elements(files) \cap Span(d) = {}

(* Nothing is there without the directories that hold it. *)
Closed(D) == \A e \in Entry \ D : Under(e) \cap D = {}
Complete(G) == \A e \in G \cap Entry : Under(e) \subseteq G

LEMMA UnderFacts ==
  ASSUME NEW e \in Entry
  PROVE  \A f \in Under(e) : Under(f) \subseteq Under(e) /\ (e \in Under(f) => e = f)
BY RemovalAssumption

LEMMA InsideFacts ==
  ASSUME NEW d \in Directory
  PROVE  /\ d \in Entry /\ Inside[d] \in Seq(Entry) /\ Distinct(Inside[d])
         /\ Elements(Inside[d]) \subseteq Under(d) \cap Entry
         /\ \A x \in Elements(Inside[d]) :
              /\ Under(x) \subseteq Under(d) /\ d \notin Under(x) /\ x # d /\ x \in Under(x)
              /\ \A y \in Elements(Inside[d]) : x # y => Under(x) \cap Under(y) = {}
<1>1. /\ d \in Entry /\ Inside[d] \in Seq(Entry) /\ Distinct(Inside[d])
      /\ \A x \in Elements(Inside[d]) :
           d \notin Under(x) /\ \A y \in Elements(Inside[d]) \ {x} : Under(x) \cap Under(y) = {}
  BY RemovalAssumption
<1>2. Elements(Inside[d]) \subseteq Entry
  BY <1>1 DEF Elements
<1>3. Elements(Inside[d]) \subseteq Under(d)
  BY UnderUnfolds
<1>4. \A x \in Elements(Inside[d]) : Under(x) \subseteq Under(d)
  BY <1>1, <1>3, UnderFacts
<1>5. \A x \in Elements(Inside[d]) : x \in Under(x)
  BY UnderUnfolds
<1>6. \A x \in Elements(Inside[d]) : x # d
  BY <1>1, <1>5
<1> QED BY <1>1, <1>2, <1>3, <1>4, <1>5, <1>6

LEMMA ReadDirFacts ==
  ASSUME DiskInv, NEW d \in Directory
  PROVE  /\ ReadDir(d) \in Seq(Entry) /\ Distinct(ReadDir(d))
         /\ Elements(ReadDir(d)) = Elements(Inside[d]) \cap disk
         /\ \A X : /\ Retain(ReadDir(d), X) \in Seq(X \cap Entry) /\ Distinct(Retain(ReadDir(d), X))
                   /\ Elements(Retain(ReadDir(d), X)) = Elements(Inside[d]) \cap disk \cap X
<1>1. Inside[d] \in Seq(Entry) /\ Distinct(Inside[d])
  BY InsideFacts
<1>2. ReadDir(d) \in Seq(Entry \cap disk) /\ Elements(ReadDir(d)) = Elements(Inside[d]) \cap disk
  BY <1>1, RetainMembers DEF ReadDir
<1>3. Distinct(ReadDir(d))
  BY <1>1, RetainDistinct DEF ReadDir
<1>4. Entry \cap disk = disk /\ disk \subseteq Entry
  BY DEF DiskInv
<1>5. ReadDir(d) \in Seq(Entry)
  BY <1>2, <1>4
<1>6. ASSUME NEW X
      PROVE  /\ Retain(ReadDir(d), X) \in Seq(X \cap Entry) /\ Distinct(Retain(ReadDir(d), X))
             /\ Elements(Retain(ReadDir(d), X)) = Elements(Inside[d]) \cap disk \cap X
  <2>1. Entry \cap X = X \cap Entry
    OBVIOUS
  <2>2. PICK r : r = ReadDir(d)
    OBVIOUS
  <2>3. r \in Seq(Entry) /\ Distinct(r) /\ Elements(r) = Elements(Inside[d]) \cap disk
    BY <1>2, <1>3, <1>5, <2>2
  <2>4. Retain(r, X) \in Seq(Entry \cap X) /\ Elements(Retain(r, X)) = Elements(r) \cap X
    BY <2>3, RetainMembers
  <2>5. Distinct(Retain(r, X))
    BY <2>3, RetainDistinct
  <2> QED BY <2>1, <2>2, <2>3, <2>4, <2>5
<1> QED BY <1>2, <1>3, <1>5, <1>6

(* What a directory that is there holds, once its entries were read. *)
LEMMA DirectoryOpens ==
  ASSUME DiskInv, Closed(disk), NEW d \in Directory, NEW x \in Under(d) \cap disk, x # d
  PROVE  \E y \in Elements(ReadDir(d)) : x \in Under(y)
<1>1. PICK y \in Elements(Inside[d]) : x \in Under(y)
  BY UnderUnfolds
<1>2. y \in Entry
  BY InsideFacts
<1>3. y \in disk
  BY <1>1, <1>2 DEF Closed
<1>4. y \in Elements(ReadDir(d))
  BY <1>1, <1>3, ReadDirFacts
<1> QED BY <1>1, <1>4

LEMMA CompleteGoes ==
  ASSUME NEW D \in SUBSET Entry, NEW G, Closed(D), Complete(G)
  PROVE  Closed(D \ G)
BY DEF Closed, Complete

LEMMA UnderIsComplete ==
  ASSUME NEW e
  PROVE  Complete(Under(e)) /\ Complete(Under(e) \ {e})
<1>1. CASE e \in Entry
  BY <1>1, UnderFacts DEF Complete
<1>2. CASE e \notin Entry
  <2>1. Under(e) = {e}
    BY <1>2, UnderUnfolds, RemovalAssumption
  <2> QED BY <1>2, <2>1 DEF Complete
<1> QED BY <1>1, <1>2

(* What can be unlinked holds nothing any more. *)
LEMMA UnlinkedAlone ==
  ASSUME DiskInv, Closed(disk), NEW e, UnlinkError(e) = "none"
  PROVE  /\ e \in disk /\ Under(e) \cap disk = {e}
         /\ Closed(disk \ {e})
<1>1. e \in disk /\ e \in Entry /\ e \in Under(e) /\ disk \subseteq Entry
  BY UnlinkErrors, UnderUnfolds DEF DiskInv
<1>2. Under(e) \cap disk = {e}
  <2>1. CASE e \notin Directory
    BY <1>1, <2>1, UnderUnfolds
  <2>2. CASE e \in Directory
    <3>1. ReadDir(e) = <<>>
      BY <1>1, <2>2 DEF UnlinkError
    <3>2. Elements(ReadDir(e)) = {}
      BY <3>1 DEF Elements
    <3> QED BY <1>1, <2>2, <3>2, DirectoryOpens
  <2> QED BY <2>1, <2>2
<1>3. disk \ {e} = disk \ Under(e)
  BY <1>2
<1> QED BY <1>1, <1>2, <1>3, CompleteGoes, UnderIsComplete

LEMMA UnlinkErrorThere ==
  ASSUME DiskInv, NEW e
  PROVE  /\ UnlinkError(e) \in {"none", "not found", "denied", "failed"}
         /\ UnlinkError(e) = "not found" <=> e \notin disk
<1>1. e \in disk => obstacles[e] \in Obstacles
  BY DEF DiskInv
<1> QED BY <1>1 DEF UnlinkError, Obstacles

(* What each step of the remover makes of a job. *)
Good == {"none", "not found"}
Bad == {"denied", "failed"}
SamePlace(k, j) == k.whole = j.whole /\ k.failed = j.failed
Notes(k, j, err) == k.first = IF j.first = "none" THEN err ELSE j.first

StartsPath(j, e, k, G) ==
  /\ SamePlace(k, j) /\ k.files = j.files
  /\ \/ /\ k.at = "done" /\ k.first = "cancelled" /\ ~j.whole /\ G = {}
        /\ k.todo = j.todo /\ k.stack = j.stack /\ k.entries = j.entries
     \/ /\ k.at = "result" /\ e \notin disk /\ k.first = "not found" /\ G = {}
        /\ k.todo = Tail(j.todo) /\ k.stack = j.stack /\ k.entries = j.entries
     \/ /\ k.at = "walk" /\ e \in disk \cap Directory /\ k.first = "none" /\ G = {}
        /\ k.todo = Tail(j.todo) /\ k.stack = <<[dir |-> e, done |-> FALSE]>>
        /\ k.entries = j.entries
     \/ /\ k.at = "result" /\ e \in disk \ Directory /\ k.first \in Bad /\ G = {}
        /\ k.todo = Tail(j.todo) /\ k.stack = j.stack /\ k.entries = j.entries
     \/ /\ k.at = "result" /\ e \in disk \ Directory /\ k.first = "none" /\ G = {e}
        /\ UnlinkError(e) = "none"
        /\ k.todo = Tail(j.todo) /\ k.stack = j.stack /\ k.entries = j.entries + 1

LEMMA StartPathCases ==
  ASSUME DiskInv, NEW j, IsJob(j), NEW e, e = Head(j.todo), NEW step, step = StartPath(j),
         NEW k, k = step[1], NEW G, G = step[2]
  PROVE  StartsPath(j, e, k, G)
<1> USE DEF StartsPath
<1>1. DOMAIN j = JobFields /\ j.entries \in Nat
  BY DEF IsJob
<1>2. PICK n : n = [j EXCEPT !.todo = Tail(@), !.since = 0, !.first = "none"]
  OBVIOUS
<1>3. /\ DOMAIN n = JobFields /\ n.todo = Tail(j.todo) /\ n.first = "none" /\ n.whole = j.whole
      /\ n.failed = j.failed /\ n.files = j.files /\ n.stack = j.stack /\ n.entries = j.entries
  BY <1>1, <1>2 DEF JobFields
<1>4. PICK err : err = UnlinkError(e)
  OBVIOUS
<1>5. err \in {"none", "not found", "denied", "failed"} /\ (err = "not found" <=> e \notin disk)
  BY <1>4, UnlinkErrorThere
<1>6. PICK w : w = Weight[e]
  OBVIOUS
<1>7. step = IF ~j.whole /\ cancel THEN <<Ended(j, "cancelled"), {}>>
             ELSE IF e \notin disk THEN <<[n EXCEPT !.at = "result", !.first = "not found"], {}>>
             ELSE IF e \in Directory
             THEN <<[n EXCEPT !.at = "walk", !.stack = <<[dir |-> e, done |-> FALSE]>>], {}>>
             ELSE IF err # "none" THEN <<[n EXCEPT !.at = "result", !.first = err], {}>>
             ELSE <<[Gone(n, e, w) EXCEPT !.at = "result"], {e}>>
  BY <1>2, <1>4, <1>6 DEF StartPath
<1>8. CASE ~j.whole /\ cancel
  <2>1. k = [j EXCEPT !.at = "done", !.first = "cancelled"] /\ G = {}
    BY <1>7, <1>8 DEF Ended
  <2> QED BY <1>1, <1>8, <2>1 DEF JobFields, SamePlace
<1>9. CASE ~(~j.whole /\ cancel) /\ e \notin disk
  <2>1. k = [n EXCEPT !.at = "result", !.first = "not found"] /\ G = {}
    BY <1>7, <1>9
  <2> QED BY <1>3, <1>9, <2>1 DEF JobFields, SamePlace
<1>10. CASE ~(~j.whole /\ cancel) /\ e \in disk /\ e \in Directory
  <2>1. PICK s : s = <<[dir |-> e, done |-> FALSE]>>
    OBVIOUS
  <2>2. k = [n EXCEPT !.at = "walk", !.stack = s] /\ G = {}
    BY <1>7, <1>10, <2>1
  <2>3. /\ k.at = "walk" /\ k.stack = s /\ k.todo = n.todo /\ k.first = n.first /\ k.whole = n.whole
        /\ k.failed = n.failed /\ k.files = n.files /\ k.entries = n.entries
    BY <1>3, <2>2 DEF JobFields
  <2>4. SamePlace(k, j)
    BY <1>3, <2>3 DEF SamePlace
  <2> QED BY <1>3, <1>10, <2>1, <2>2, <2>3, <2>4
<1>11. CASE ~(~j.whole /\ cancel) /\ e \in disk /\ e \notin Directory /\ err # "none"
  <2>1. k = [n EXCEPT !.at = "result", !.first = err] /\ G = {}
    BY <1>7, <1>11
  <2> QED BY <1>3, <1>5, <1>11, <2>1 DEF JobFields, SamePlace, Bad
<1>12. CASE ~(~j.whole /\ cancel) /\ e \in disk /\ e \notin Directory /\ err = "none"
  <2>1. k = [Gone(n, e, w) EXCEPT !.at = "result"] /\ G = {e}
    BY <1>7, <1>12
  <2>2. PICK g : g = Gone(n, e, w)
    OBVIOUS
  <2>3. /\ DOMAIN g = JobFields /\ g.todo = n.todo /\ g.first = n.first /\ g.whole = n.whole
        /\ g.failed = n.failed /\ g.files = n.files /\ g.stack = n.stack /\ g.entries = n.entries + 1
    BY <1>3, <2>2 DEF JobFields, Gone
  <2>4. k = [g EXCEPT !.at = "result"]
    BY <2>1, <2>2
  <2> QED BY <1>3, <1>4, <1>12, <2>1, <2>3, <2>4 DEF JobFields, SamePlace
<1> QED BY <1>8, <1>9, <1>10, <1>11, <1>12

LEMMA EndedFields ==
  ASSUME NEW m, DOMAIN m = JobFields, NEW err, NEW k, k = Ended(m, err)
  PROVE  /\ k.todo = m.todo /\ k.whole = m.whole /\ k.failed = m.failed /\ k.files = m.files
         /\ k.stack = m.stack /\ k.entries = m.entries /\ k.at = "done" /\ k.first = err
BY DEF JobFields, Ended

RemovesFile(j, e, k, G) ==
  /\ SamePlace(k, j) /\ k.todo = j.todo /\ k.stack = j.stack /\ k.files = Tail(j.files)
  /\ (k.at = "done" /\ k.first = "cancelled") \/ k.at = j.at
  /\ \/ /\ G = {e} /\ UnlinkError(e) = "none" /\ k.entries = j.entries + 1
        /\ (k.at = "done" /\ k.first = "cancelled") \/ k.first = j.first
     \/ /\ G = {} /\ e \notin disk /\ k.entries = j.entries
        /\ (k.at = "done" /\ k.first = "cancelled") \/ k.first = j.first
     \/ /\ G = {} /\ e \in disk /\ k.entries = j.entries
        /\ (k.at = "done" /\ k.first = "cancelled") \/ \E err \in Bad : Notes(k, j, err)

LEMMA RemoveFileCases ==
  ASSUME DiskInv, NEW j, IsJob(j), NEW e, e = Head(j.files), NEW step, step = RemoveFile(j),
         NEW k, k = step[1], NEW G, G = step[2]
  PROVE  RemovesFile(j, e, k, G)
<1> USE DEF RemovesFile
<1>1. DOMAIN j = JobFields /\ j.entries \in Nat
  BY DEF IsJob
<1>2. PICK n : n = [j EXCEPT !.files = Tail(@), !.since = (@ + 1) % CancelEvery]
  OBVIOUS
<1>3. /\ DOMAIN n = JobFields /\ n.todo = j.todo /\ n.first = j.first /\ n.whole = j.whole /\ n.at = j.at
      /\ n.failed = j.failed /\ n.files = Tail(j.files) /\ n.stack = j.stack /\ n.entries = j.entries
  BY <1>1, <1>2 DEF JobFields
<1>4. PICK err : err = UnlinkError(e)
  OBVIOUS
<1>5. err \in {"none", "not found", "denied", "failed"} /\ (err = "not found" <=> e \notin disk)
  BY <1>4, UnlinkErrorThere
<1>6. PICK w : w = Weight[e]
  OBVIOUS
<1>7. PICK m : m = IF err = "none" THEN Gone(n, e, w) ELSE IF err = "not found" THEN n ELSE Noted(n, err)
  OBVIOUS
<1>8. step = <<IF m.since = 0 /\ cancel THEN Ended(m, "cancelled") ELSE m, IF err = "none" THEN {e} ELSE {}>>
  BY <1>2, <1>4, <1>6, <1>7 DEF RemoveFile
<1>9. G = (IF err = "none" THEN {e} ELSE {}) /\ (k = Ended(m, "cancelled") \/ k = m)
  BY <1>8
<1>10. /\ DOMAIN m = JobFields /\ m.todo = n.todo /\ m.whole = n.whole /\ m.at = n.at
       /\ m.failed = n.failed /\ m.files = n.files /\ m.stack = n.stack
       /\ m.entries = IF err = "none" THEN n.entries + 1 ELSE n.entries
       /\ m.first = IF err \in Bad /\ n.first = "none" THEN err ELSE n.first
  <2>1. CASE err = "none"
    BY <1>3, <1>7, <2>1 DEF JobFields, Gone, Bad
  <2>2. CASE err = "not found"
    BY <1>3, <1>7, <2>2 DEF Bad
  <2>3. CASE err \in Bad
    BY <1>3, <1>7, <2>3 DEF JobFields, Noted, Bad
  <2> QED BY <1>5, <2>1, <2>2, <2>3 DEF Bad
<1>11. /\ k.todo = m.todo /\ k.whole = m.whole /\ k.failed = m.failed /\ k.files = m.files
       /\ k.stack = m.stack /\ k.entries = m.entries
       /\ (k.at = "done" /\ k.first = "cancelled") \/ (k.at = m.at /\ k.first = m.first)
  <2>1. CASE k = m
    BY <2>1
  <2>2. CASE k = Ended(m, "cancelled")
    <3>1. DOMAIN m = JobFields
      BY <1>10
    <3> QED BY <2>2, <3>1, EndedFields
  <2> QED BY <1>9, <2>1, <2>2
<1>12. \/ err = "none" /\ G = {e} /\ m.first = j.first
       \/ err = "not found" /\ e \notin disk /\ G = {} /\ m.first = j.first
       \/ err \in Bad /\ e \in disk /\ G = {} /\ m.first = IF j.first = "none" THEN err ELSE j.first
  BY <1>3, <1>5, <1>9, <1>10 DEF Bad
<1>13. SamePlace(k, j) /\ k.todo = j.todo /\ k.stack = j.stack /\ k.files = Tail(j.files)
         /\ ((k.at = "done" /\ k.first = "cancelled") \/ k.at = j.at)
         /\ k.entries = IF err = "none" THEN j.entries + 1 ELSE j.entries
  BY <1>3, <1>10, <1>11 DEF SamePlace
<1>14. CASE err = "none" /\ G = {e} /\ m.first = j.first
  BY <1>4, <1>11, <1>13, <1>14
<1>15. CASE err = "not found" /\ e \notin disk /\ G = {} /\ m.first = j.first
  BY <1>11, <1>13, <1>15
<1>16. CASE err \in Bad /\ e \in disk /\ G = {} /\ m.first = IF j.first = "none" THEN err ELSE j.first
  <2>1. k.entries = j.entries
    BY <1>13, <1>16 DEF Bad
  <2>2. (k.at = "done" /\ k.first = "cancelled") \/ Notes(k, j, err)
    BY <1>11, <1>16 DEF Notes
  <2> QED BY <1>13, <1>16, <2>1, <2>2
<1> QED BY <1>12, <1>14, <1>15, <1>16

RemovesDirectory(j, e, k, G) ==
  /\ SamePlace(k, j) /\ k.todo = j.todo /\ k.stack = Front(j.stack) /\ k.files = j.files
  /\ k.at = j.at
  /\ \/ G = {e} /\ UnlinkError(e) = "none" /\ k.entries = j.entries + 1 /\ k.first = j.first
     \/ G = {} /\ e \notin disk /\ k.entries = j.entries /\ k.first = j.first
     \/ G = {} /\ e \in disk /\ k.entries = j.entries /\ \E err \in Bad : Notes(k, j, err)

LEMMA RemoveDirectoryCases ==
  ASSUME DiskInv, NEW j, IsJob(j), NEW e, e = j.stack[Len(j.stack)].dir,
         NEW step, step = RemoveDirectory(j), NEW k, k = step[1], NEW G, G = step[2]
  PROVE  RemovesDirectory(j, e, k, G)
<1> USE DEF RemovesDirectory
<1>1. DOMAIN j = JobFields /\ j.entries \in Nat
  BY DEF IsJob
<1>2. PICK n : n = [j EXCEPT !.stack = Front(@)]
  OBVIOUS
<1>3. /\ DOMAIN n = JobFields /\ n.todo = j.todo /\ n.first = j.first /\ n.whole = j.whole /\ n.at = j.at
      /\ n.failed = j.failed /\ n.files = j.files /\ n.stack = Front(j.stack) /\ n.entries = j.entries
  BY <1>1, <1>2 DEF JobFields
<1>4. PICK err : err = UnlinkError(e)
  OBVIOUS
<1>5. err \in {"none", "not found", "denied", "failed"} /\ (err = "not found" <=> e \notin disk)
  BY <1>4, UnlinkErrorThere
<1>6. /\ err = "none" => k = Gone(n, e, 0) /\ G = {e}
      /\ err = "not found" => k = n /\ G = {}
      /\ err \in Bad => k = Noted(n, err) /\ G = {}
  <2>1. PICK g, m : g = Gone(n, e, 0) /\ m = Noted(n, err)
    OBVIOUS
  <2>2. step = IF err = "none" THEN <<g, {e}>> ELSE IF err = "not found" THEN <<n, {}>> ELSE <<m, {}>>
    BY <1>2, <1>4, <2>1 DEF RemoveDirectory
  <2>3. err = "none" => k = g /\ G = {e}
    BY <2>2
  <2>4. ASSUME err # "none"
        PROVE  step = IF err = "not found" THEN <<n, {}>> ELSE <<m, {}>>
    BY <2>2, <2>4, Zenon
  <2>5. ASSUME err = "not found" PROVE k = n /\ G = {}
    <3>1. err # "none"
      BY <2>5
    <3>2. step = <<n, {}>>
      BY <2>4, <2>5, <3>1, Zenon
    <3> QED BY <3>2
  <2>6. ASSUME err \in Bad PROVE k = m /\ G = {}
    <3>1. err # "none" /\ err # "not found"
      BY <2>6 DEF Bad
    <3>2. step = <<m, {}>>
      BY <2>4, <3>1, Zenon
    <3> QED BY <3>2
  <2> QED BY <2>1, <2>3, <2>5, <2>6
<1>7. CASE err = "none"
  <2>1. k = Gone(n, e, 0) /\ G = {e}
    BY <1>6, <1>7
  <2> QED BY <1>3, <1>4, <1>7, <2>1 DEF JobFields, Gone, SamePlace
<1>8. CASE err = "not found"
  <2>1. k = n /\ G = {}
    BY <1>6, <1>8
  <2> QED BY <1>3, <1>5, <1>8, <2>1 DEF SamePlace
<1>9. CASE err \in Bad
  <2>1. k = Noted(n, err) /\ G = {}
    BY <1>6, <1>9
  <2>2. /\ k.todo = n.todo /\ k.whole = n.whole /\ k.failed = n.failed /\ k.files = n.files /\ k.at = n.at
        /\ k.stack = n.stack /\ k.entries = n.entries
        /\ k.first = IF n.first = "none" THEN err ELSE n.first
    BY <1>3, <2>1 DEF JobFields, Noted
  <2>3. Notes(k, j, err) /\ e \in disk
    BY <1>3, <1>5, <1>9, <2>2 DEF Notes, Bad
  <2> QED BY <1>3, <1>9, <2>1, <2>2, <2>3 DEF SamePlace
<1> QED BY <1>5, <1>7, <1>8, <1>9 DEF Bad

(* What a directory is replaced by on the stack when it is visited. *)
Subdirs(e) == Retain(ReadDir(e), Directory)
Visited(stack, e) ==
  Append(Front(stack), [dir |-> e, done |-> TRUE])
    \o [i \in DOMAIN Subdirs(e) |-> [dir |-> Subdirs(e)[i], done |-> FALSE]]

Visits(j, e, k, G) ==
  /\ SamePlace(k, j) /\ k.todo = j.todo /\ k.entries = j.entries /\ G = {}
  /\ \/ /\ k.at = "done" /\ k.first = "cancelled" /\ k.stack = j.stack /\ k.files = j.files
     \/ /\ k.at = j.at /\ k.stack = Front(j.stack) /\ k.files = j.files
        /\ \/ e \notin disk /\ Notes(k, j, "not found")
           \/ e \in disk /\ Notes(k, j, "denied")
     \/ /\ k.at = j.at /\ e \in disk /\ k.first = j.first
        /\ k.stack = Visited(j.stack, e) /\ k.files = Retain(ReadDir(e), Entry \ Directory)

LEMMA VisitDirectoryCases ==
  ASSUME DiskInv, NEW j, IsJob(j), NEW e, e = j.stack[Len(j.stack)].dir,
         NEW step, step = VisitDirectory(j), NEW k, k = step[1], NEW G, G = step[2]
  PROVE  Visits(j, e, k, G)
<1> USE DEF Visits
<1>1. DOMAIN j = JobFields
  BY DEF IsJob
<1>2. PICK n : n = [j EXCEPT !.stack = Front(j.stack)]
  OBVIOUS
<1>3. /\ DOMAIN n = JobFields /\ n.todo = j.todo /\ n.first = j.first /\ n.whole = j.whole /\ n.at = j.at
      /\ n.failed = j.failed /\ n.files = j.files /\ n.stack = Front(j.stack) /\ n.entries = j.entries
  BY <1>1, <1>2 DEF JobFields
<1>4. PICK s, f : s = Visited(j.stack, e) /\ f = Retain(ReadDir(e), Entry \ Directory)
  OBVIOUS
<1>5. PICK v : v = [j EXCEPT !.stack = s, !.files = f]
  OBVIOUS
<1>6. step = IF cancel THEN <<Ended(j, "cancelled"), {}>>
             ELSE IF e \notin disk THEN <<Noted(n, "not found"), {}>>
             ELSE IF obstacles[e] = "unlistable" THEN <<Noted(n, "denied"), {}>>
             ELSE <<v, {}>>
  BY <1>2, <1>4, <1>5 DEF VisitDirectory, Visited, Subdirs
<1>7. CASE k = Ended(j, "cancelled") /\ G = {}
  BY <1>1, <1>7 DEF JobFields, Ended, SamePlace
<1>8. ASSUME NEW err, k = Noted(n, err)
      PROVE  SamePlace(k, j) /\ k.todo = j.todo /\ k.entries = j.entries /\ k.at = j.at
               /\ k.stack = Front(j.stack) /\ k.files = j.files /\ Notes(k, j, err)
  <2>1. /\ k.todo = n.todo /\ k.whole = n.whole /\ k.failed = n.failed /\ k.files = n.files /\ k.at = n.at
        /\ k.stack = n.stack /\ k.entries = n.entries
        /\ k.first = IF n.first = "none" THEN err ELSE n.first
    BY <1>3, <1>8 DEF JobFields, Noted
  <2> QED BY <1>3, <2>1 DEF SamePlace, Notes
<1>9. CASE k = v /\ G = {} /\ e \in disk
  <2>1. /\ v.todo = j.todo /\ v.first = j.first /\ v.whole = j.whole /\ v.at = j.at
        /\ v.failed = j.failed /\ v.files = f /\ v.stack = s /\ v.entries = j.entries
    BY <1>1, <1>5 DEF JobFields
  <2> QED BY <1>4, <1>9, <2>1 DEF SamePlace
<1>10. \/ k = Ended(j, "cancelled") /\ G = {}
       \/ k = Noted(n, "not found") /\ G = {} /\ e \notin disk
       \/ k = Noted(n, "denied") /\ G = {} /\ e \in disk
       \/ k = v /\ G = {} /\ e \in disk
  <2>1. PICK x, y, z : x = Ended(j, "cancelled") /\ y = Noted(n, "not found") /\ z = Noted(n, "denied")
    OBVIOUS
  <2>2. \/ step = <<x, {}>>
        \/ step = <<y, {}>> /\ e \notin disk
        \/ step = <<z, {}>> /\ e \in disk
        \/ step = <<v, {}>> /\ e \in disk
    BY <1>6, <2>1
  <2>3. \/ k = x /\ G = {}
        \/ k = y /\ G = {} /\ e \notin disk
        \/ k = z /\ G = {} /\ e \in disk
        \/ k = v /\ G = {} /\ e \in disk
    BY <2>2
  <2> QED BY <2>1, <2>3
<1> QED BY <1>7, <1>8, <1>9, <1>10

LEMMA SpanFacts ==
  ASSUME NEW d \in Frames
  PROVE  Span(d) \subseteq Under(d.dir) /\ d.dir \in Span(d) /\ d.dir \in Directory /\ d.done \in BOOLEAN
BY UnderUnfolds DEF Span, Frames

LEMMA PopFacts ==
  ASSUME NEW S, NEW stack \in Seq(S), stack # <<>>, NEW top, top = stack[Len(stack)]
  PROVE  /\ Front(stack) \in Seq(S) /\ Len(stack) \in Nat \ {0} /\ top \in S
         /\ DOMAIN stack = 1 .. Len(stack) /\ DOMAIN Front(stack) = 1 .. Len(stack) - 1
         /\ \A i \in 1 .. Len(stack) - 1 : Front(stack)[i] = stack[i]
         /\ Elements(stack) = Elements(Front(stack)) \cup {top}
<1> DEFINE n == Len(stack)
           f == SubSeq(stack, 1, n - 1)
<1>1. /\ DOMAIN stack = 1 .. n /\ n \in Nat \ {0}
      /\ \A i \in 1 .. n : stack[i] \in S
  BY LenProperties, EmptySeq, ElementOfSeq
<1>2. /\ f \in Seq(S) /\ Len(f) = n - 1
      /\ \A i \in 1 .. n - 1 : f[i] = stack[i]
  <2>1. /\ 1 \in Int /\ n - 1 \in Int
        /\ \A i \in 1 .. n - 1 : stack[i] \in S
    BY <1>1
  <2>2. /\ f \in Seq(S)
        /\ Len(f) = IF 1 <= n - 1 THEN n - 1 - 1 + 1 ELSE 0
        /\ \A i \in 1 .. n - 1 - 1 + 1 : f[i] = stack[1 + i - 1]
    BY <2>1, SubSeqProperties
  <2>3. n - 1 - 1 + 1 = n - 1 /\ \A i \in 1 .. n - 1 : 1 + i - 1 = i
    BY <1>1
  <2> QED
    BY <1>1, <2>2, <2>3
<1>3. DOMAIN f = 1 .. n - 1
  BY <1>2, LenProperties
<1>4. Front(stack) = f
  BY DEF Front
<1> HIDE DEF f
<1>5. n \in 1 .. n /\ \A i \in 1 .. n : i = n \/ i \in 1 .. n - 1
  <2>1. n \in Nat \ {0}
    BY <1>1
  <2> HIDE DEF n
  <2> QED BY <2>1
<1>6. \A i \in 1 .. n - 1 : i \in 1 .. n
  BY <1>1
<1>7. Elements(stack) = Elements(f) \cup {top}
  <2>1. Elements(stack) \subseteq Elements(f) \cup {top}
    BY <1>1, <1>2, <1>3, <1>5 DEF Elements
  <2>2. Elements(f) \cup {top} \subseteq Elements(stack)
    BY <1>1, <1>2, <1>3, <1>5, <1>6 DEF Elements
  <2> QED BY <2>1, <2>2
<1> QED BY <1>1, <1>2, <1>3, <1>4, <1>5, <1>7

LEMMA PopKeeps ==
  ASSUME NEW stack \in Seq(Frames), stack # <<>>, Nested(stack), NEW top, top = stack[Len(stack)]
  PROVE  /\ Front(stack) \in Seq(Frames) /\ top \in Frames
         /\ Elements(stack) = Elements(Front(stack)) \cup {top}
         /\ Nested(Front(stack))
         /\ \A d \in Elements(Front(stack)) : Span(d) \cap Under(top.dir) = {}
         /\ Front(stack) # <<>> => Front(stack)[1] = stack[1]
         /\ Front(stack) = <<>> => top = stack[1]
<1> DEFINE n == Len(stack)
           f == Front(stack)
<1>1. /\ f \in Seq(Frames) /\ n \in Nat \ {0} /\ top \in Frames
      /\ DOMAIN stack = 1 .. n /\ DOMAIN f = 1 .. n - 1
      /\ \A i \in 1 .. n - 1 : f[i] = stack[i]
      /\ Elements(stack) = Elements(f) \cup {top}
  BY PopFacts
<1>2. \A i \in 1 .. n - 1 : i \in 1 .. n /\ n \in 1 .. n /\ i < n
  BY <1>1
<1> HIDE DEF f, n
<1>3. Nested(f)
  BY <1>1, <1>2 DEF Nested
<1>4. \A i \in 1 .. n - 1 : Span(f[i]) \cap Under(top.dir) = {}
  BY <1>1, <1>2 DEF Nested, n
<1>5. \A d \in Elements(f) : Span(d) \cap Under(top.dir) = {}
  BY <1>1, <1>4 DEF Elements
<1>6. f # <<>> => f[1] = stack[1]
  <2>1. ASSUME f # <<>> PROVE 1 \in 1 .. n - 1
    <3>1. Len(f) \in Nat \ {0} /\ DOMAIN f = 1 .. Len(f)
      BY <1>1, <2>1, LenProperties, EmptySeq
    <3>2. 1 \in DOMAIN f
      BY <3>1
    <3> QED BY <1>1, <3>2
  <2> QED BY <1>1, <2>1
<1>7. f = <<>> => top = stack[1]
  <2>1. ASSUME f = <<>> PROVE n = 1
    <3>1. ~(1 \in 1 .. n - 1)
      BY <1>1, <2>1
    <3> QED BY <1>1, <3>1
  <2> QED BY <2>1 DEF n
<1> QED BY <1>1, <1>3, <1>5, <1>6, <1>7 DEF f

Opens(stack, e, new, files) ==
  /\ e \in Directory /\ new \in Seq(Frames) /\ Nested(new)
  /\ Elements(new) = Elements(Front(stack)) \cup {[dir |-> e, done |-> TRUE]}
                       \cup {[dir |-> x, done |-> FALSE] : x \in Elements(Subdirs(e))}
  /\ Elements(Subdirs(e)) = Elements(ReadDir(e)) \cap Directory
  /\ new # <<>> /\ (new[1].dir = stack[1].dir)
  /\ files \in Seq(Entry \ Directory) /\ Distinct(files)
  /\ Elements(files) = Elements(ReadDir(e)) \ Directory
  /\ Clear(files, new)

LEMMA VisitedFacts ==
  ASSUME DiskInv, NEW stack \in Seq(Frames), stack # <<>>, Nested(stack),
         NEW e, [dir |-> e, done |-> FALSE] = stack[Len(stack)],
         NEW new, new = Visited(stack, e), NEW files, files = Retain(ReadDir(e), Entry \ Directory)
  PROVE  Opens(stack, e, new, files)
<1> USE DEF Opens
<1> DEFINE top == [dir |-> e, done |-> FALSE]
           below == [dir |-> e, done |-> TRUE]
<1>1. PICK n : n = Len(stack)
  OBVIOUS
<1>2. PICK f : f = Front(stack)
  OBVIOUS
<1>3. /\ f \in Seq(Frames) /\ n \in Nat \ {0} /\ top \in Frames
      /\ DOMAIN stack = 1 .. n /\ DOMAIN f = 1 .. n - 1
      /\ \A i \in 1 .. n - 1 : f[i] = stack[i]
      /\ Elements(stack) = Elements(f) \cup {top}
  <2> HIDE DEF top
  <2>1. top = stack[Len(stack)]
    BY DEF top
  <2> QED BY <1>1, <1>2, <2>1, PopFacts
<1>4. /\ Nested(f) /\ \A d \in Elements(f) : Span(d) \cap Under(e) = {}
      /\ f # <<>> => f[1] = stack[1]
      /\ f = <<>> => top = stack[1]
  <2>1. top.dir = e
    OBVIOUS
  <2> HIDE DEF top
  <2>2. top = stack[Len(stack)]
    BY DEF top
  <2> QED BY <1>2, <2>1, <2>2, PopKeeps
<1>5. e \in Directory /\ below \in Frames
  BY <1>3 DEF Frames
<1>6. PICK s : s = Subdirs(e)
  OBVIOUS
<1>7. /\ s \in Seq(Directory) /\ Distinct(s) /\ Elements(s) = Elements(ReadDir(e)) \cap Directory
      /\ Elements(s) \subseteq Elements(Inside[e])
  <2>1. Entry \cap Directory = Directory
    BY RemovalAssumption
  <2>2. /\ s \in Seq(Directory \cap Entry) /\ Distinct(s)
        /\ Elements(s) = Elements(Inside[e]) \cap disk \cap Directory
        /\ Elements(ReadDir(e)) = Elements(Inside[e]) \cap disk
    BY <1>5, <1>6, ReadDirFacts DEF Subdirs
  <2>3. Directory \cap Entry = Directory
    BY RemovalAssumption
  <2> QED BY <2>2, <2>3
<1>8. /\ files \in Seq(Entry \ Directory) /\ Distinct(files)
      /\ Elements(files) = Elements(ReadDir(e)) \ Directory
      /\ Elements(files) \subseteq Elements(Inside[e])
  <2>1. /\ files \in Seq((Entry \ Directory) \cap Entry) /\ Distinct(files)
        /\ Elements(files) = Elements(Inside[e]) \cap disk \cap (Entry \ Directory)
        /\ Elements(ReadDir(e)) = Elements(Inside[e]) \cap disk
    BY <1>5, ReadDirFacts
  <2>2. (Entry \ Directory) \cap Entry = Entry \ Directory /\ Elements(Inside[e]) \subseteq Entry
    BY <1>5, InsideFacts
  <2> QED BY <2>1, <2>2
<1>9. PICK m : m = Len(s)
  OBVIOUS
<1>10. m \in Nat /\ DOMAIN s = 1 .. m /\ \A i \in 1 .. m : s[i] \in Directory /\ s[i] \in Elements(Inside[e])
  <2>1. /\ m \in Nat /\ DOMAIN s = 1 .. m /\ \A i \in 1 .. m : s[i] \in Directory
    BY <1>7, <1>9, LenProperties, ElementOfSeq
  <2>2. \A i \in 1 .. m : s[i] \in Elements(s)
    BY <2>1 DEF Elements
  <2> QED BY <1>7, <2>1, <2>2
<1>11. PICK t : t = [i \in DOMAIN s |-> [dir |-> s[i], done |-> FALSE]]
  OBVIOUS
<1>12. t \in Seq(Frames) /\ Len(t) = m /\ DOMAIN t = 1 .. m
         /\ \A i \in 1 .. m : t[i] = [dir |-> s[i], done |-> FALSE]
  <2>1. t = [i \in 1 .. m |-> [dir |-> s[i], done |-> FALSE]]
    BY <1>10, <1>11
  <2>2. \A i \in 1 .. m : [dir |-> s[i], done |-> FALSE] \in Frames
    BY <1>10 DEF Frames
  <2>3. t \in [1 .. m -> Frames]
    BY <2>1, <2>2
  <2>4. t \in Seq(Frames)
    BY <1>10, <2>3, SeqDef
  <2>5. DOMAIN t = 1 .. m /\ DOMAIN t = 1 .. Len(t) /\ Len(t) \in Nat
    BY <2>1, <2>4, LenProperties
  <2>6. Len(t) = m
    BY <1>10, <2>4, <2>5
  <2> QED BY <2>1, <2>4, <2>5, <2>6
<1>13. PICK a : a = Append(f, below)
  OBVIOUS
<1>14. /\ a \in Seq(Frames) /\ Len(a) = n /\ DOMAIN a = 1 .. n
       /\ \A i \in 1 .. n - 1 : a[i] = f[i]
       /\ a[n] = below
  <2>1. Len(f) = n - 1 /\ (n - 1) + 1 = n
    <3>1. Len(f) \in Nat /\ DOMAIN f = 1 .. Len(f)
      BY <1>3, LenProperties
    <3> QED BY <1>3, <3>1
  <2>2. below \in Frames
    BY <1>5
  <2> HIDE DEF below
  <2> QED BY <1>3, <1>13, <2>1, <2>2, AppendParts
<1>15. new = a \o t
  BY <1>2, <1>6, <1>11, <1>13 DEF Visited
<1>16. /\ new \in Seq(Frames) /\ Len(new) = n + m
       /\ Elements(new) = Elements(a) \cup Elements(t)
       /\ \A i \in 1 .. n + m : new[i] = IF i <= n THEN a[i] ELSE t[i - n]
  <2>1. new \in Seq(Frames) /\ Elements(new) = Elements(a) \cup Elements(t)
    BY <1>12, <1>14, <1>15, ConcatMembers
  <2>2. /\ Len(new) = n + m
        /\ \A i \in 1 .. n + m : new[i] = IF i <= n THEN a[i] ELSE t[i - n]
    <3>1. /\ Len(a \o t) = Len(a) + Len(t)
          /\ \A i \in 1 .. Len(a) + Len(t) :
               (a \o t)[i] = IF i <= Len(a) THEN a[i] ELSE t[i - Len(a)]
      BY <1>12, <1>14, ConcatProperties
    <3> QED BY <1>12, <1>14, <1>15, <3>1
  <2> QED BY <2>1, <2>2
<1>17. DOMAIN new = 1 .. n + m
  BY <1>16, LenProperties
<1>18. /\ \A i \in 1 .. n - 1 : new[i] = f[i] /\ f[i] \in Elements(f)
       /\ new[n] = below
       /\ \A i \in 1 .. m : new[n + i] = [dir |-> s[i], done |-> FALSE]
  <2>1. \A i \in 1 .. n - 1 : i \in 1 .. n + m /\ i <= n
    BY <1>3, <1>10
  <2>2. n \in 1 .. n + m /\ n <= n
    BY <1>3, <1>10
  <2>3. \A i \in 1 .. m : n + i \in 1 .. n + m /\ ~(n + i <= n) /\ (n + i) - n = i
    BY <1>3, <1>10
  <2>4. \A i \in 1 .. n - 1 : new[i] = f[i] /\ f[i] \in Elements(f)
    BY <1>3, <1>14, <1>16, <2>1 DEF Elements
  <2>5. new[n] = below
    BY <1>14, <1>16, <2>2
  <2>6. \A i \in 1 .. m : new[n + i] = t[i]
    BY <1>16, <2>3
  <2> QED BY <1>12, <2>4, <2>5, <2>6
<1>19. /\ Span(below) = {e}
       /\ \A i \in 1 .. m : Span([dir |-> s[i], done |-> FALSE]) = Under(s[i])
  BY DEF Span
<1>20. \A x \in Elements(Inside[e]) :
         /\ Under(x) \subseteq Under(e) /\ e \notin Under(x) /\ x \in Under(x)
         /\ \A y \in Elements(Inside[e]) : x # y => Under(x) \cap Under(y) = {}
  BY <1>5, InsideFacts
<1>21. below.dir = e /\ \A i \in 1 .. m : [dir |-> s[i], done |-> FALSE].dir = s[i]
  OBVIOUS
<1> HIDE DEF below, top
<1>22. ASSUME NEW i \in 1 .. n + m, NEW k \in 1 .. n + m, i < k
       PROVE  Span(new[i]) \cap Under(new[k].dir) = {}
  <2>1. CASE k < n
    <3>1. i \in 1 .. n - 1 /\ k \in 1 .. n - 1
      BY <1>3, <1>10, <1>22, <2>1
    <3>2. Span(f[i]) \cap Under(f[k].dir) = {}
      BY <1>3, <1>4, <1>22, <3>1 DEF Nested
    <3> QED BY <1>18, <3>1, <3>2
  <2>2. CASE k = n
    <3>1. i \in 1 .. n - 1
      BY <1>3, <1>10, <1>22, <2>2
    <3> QED BY <1>4, <1>18, <1>21, <2>2, <3>1
  <2>3. CASE k > n
    <3>1. k - n \in 1 .. m /\ n + (k - n) = k
      BY <1>3, <1>10, <2>3
    <3>2. new[k].dir = s[k - n] /\ s[k - n] \in Elements(Inside[e])
      BY <1>10, <1>18, <1>21, <3>1
    <3>3. CASE i < n
      <4>1. i \in 1 .. n - 1
        BY <1>3, <1>10, <1>22, <3>3
      <4>2. Span(new[i]) \cap Under(e) = {}
        BY <1>4, <1>18, <4>1
      <4> QED BY <1>20, <3>2, <4>2
    <3>4. CASE i = n
      BY <1>18, <1>19, <1>20, <3>2, <3>4
    <3>5. CASE i > n
      <4>1. i - n \in 1 .. m /\ n + (i - n) = i /\ i - n # k - n
        BY <1>3, <1>10, <1>22, <3>1, <3>5
      <4>2. Span(new[i]) = Under(s[i - n]) /\ s[i - n] \in Elements(Inside[e])
        BY <1>10, <1>18, <1>19, <4>1
      <4>3. s[i - n] # s[k - n]
        BY <1>7, <1>10, <3>1, <4>1 DEF Distinct
      <4> QED BY <1>20, <3>2, <4>2, <4>3
    <3> QED BY <1>3, <1>10, <3>3, <3>4, <3>5
  <2> QED BY <1>3, <1>10, <2>1, <2>2, <2>3
<1>23. Nested(new)
  BY <1>17, <1>22 DEF Nested
<1>24. Elements(a) = Elements(f) \cup {below}
  <2>1. \A i \in 1 .. n : i = n \/ i \in 1 .. n - 1
    BY <1>3
  <2>2. n \in 1 .. n /\ \A i \in 1 .. n - 1 : i \in 1 .. n
    BY <1>3
  <2>3. Elements(a) \subseteq Elements(f) \cup {below}
    BY <1>3, <1>14, <2>1 DEF Elements
  <2>4. Elements(f) \cup {below} \subseteq Elements(a)
    BY <1>3, <1>14, <2>2 DEF Elements
  <2> QED BY <2>3, <2>4
<1>25. Elements(t) = {[dir |-> x, done |-> FALSE] : x \in Elements(s)}
  <2>1. Elements(t) = {t[i] : i \in 1 .. m} /\ Elements(s) = {s[i] : i \in 1 .. m}
    BY <1>10, <1>12 DEF Elements
  <2>2. ASSUME NEW d \in Elements(t) PROVE d \in {[dir |-> x, done |-> FALSE] : x \in Elements(s)}
    BY <1>12, <2>1, <2>2
  <2>3. ASSUME NEW x \in Elements(s) PROVE [dir |-> x, done |-> FALSE] \in Elements(t)
    BY <1>12, <2>1, <2>3
  <2> QED BY <2>2, <2>3
<1>26. Elements(new) = Elements(f) \cup {below} \cup {[dir |-> x, done |-> FALSE] : x \in Elements(s)}
  BY <1>16, <1>24, <1>25
<1>27. new # <<>> /\ new[1].dir = stack[1].dir
  <2>1. new # <<>>
    BY <1>3, <1>10, <1>16, EmptySeq
  <2>2. CASE n = 1
    <3>1. stack[1] = top /\ top.dir = e
      BY <1>1, <2>2 DEF top
    <3> QED BY <1>18, <1>21, <2>1, <2>2, <3>1
  <2>3. CASE n # 1
    <3>1. 1 \in 1 .. n - 1
      BY <1>3, <2>3
    <3>2. new[1] = f[1] /\ f[1] = stack[1]
      BY <1>3, <1>18, <3>1
    <3> QED BY <2>1, <3>2
  <2> QED BY <2>2, <2>3
<1>28. Clear(files, new)
  <2>1. ASSUME NEW d \in Elements(f) PROVE Elements(files) \cap Span(d) = {}
    BY <1>4, <1>8, <1>20, <2>1
  <2>2. Elements(files) \cap Span(below) = {}
    BY <1>5, <1>8, <1>19
  <2>3. ASSUME NEW x \in Elements(s) PROVE Elements(files) \cap Under(x) = {}
    <3>1. x \in Elements(Inside[e]) /\ x \in Directory
      BY <1>7
    <3>2. \A y \in Elements(files) : y \in Elements(Inside[e]) /\ y # x
      BY <1>8, <3>1
    <3> QED BY <1>20, <3>1, <3>2
  <2>4. \A x : Span([dir |-> x, done |-> FALSE]) = Under(x)
    BY DEF Span
  <2> QED BY <1>26, <2>1, <2>2, <2>3, <2>4 DEF Clear
<1> QED BY <1>2, <1>5, <1>6, <1>7, <1>8, <1>16, <1>23, <1>26, <1>27, <1>28 DEF below

-----------------------------------------------------------------------------
(* A job and what is left for it: below the entries still to be taken up,  *)
(* and below the directories of the walk.                                  *)

Todo(j) == UNION {Under(x) : x \in Elements(j.todo)}
Ahead(j) == Elements(j.files) \cup UNION {Span(d) : d \in Elements(j.stack)}

Shape(j) ==
  /\ j.todo \in Seq(Paths) /\ j.whole \in BOOLEAN
  /\ j.whole => IF j.at = "next" THEN j.todo # <<>> /\ Tail(j.todo) = <<>> ELSE j.todo = <<>>
  /\ j.files \in Seq(Entry \ Directory) /\ Distinct(j.files)
  /\ j.stack \in Seq(Frames) /\ Nested(j.stack) /\ Clear(j.files, j.stack)
  /\ j.at \in {"next", "result"} => j.files = <<>> /\ j.stack = <<>>

(* While nothing failed, what is left of R on the disk D is what the job   *)
(* will still come to.  A directory on the stack stays until it is its     *)
(* turn, so that it cannot be missing.                                     *)
Left(j, R, D) ==
  /\ j.at = "walk" => j.first # "not found" /\ \A d \in Elements(j.stack) : d.done \/ d.dir \in D
  /\ j.failed = {} /\ (j.at = "next" \/ j.first \in Good) =>
       R \cap D \subseteq IF j.at = "done" THEN {} ELSE Todo(j) \cup Ahead(j)

Progresses(j, k, G) ==
  /\ Shape(k) /\ Closed(disk \ G)
  /\ \A R : Left(j, R, disk) => Left(k, R, disk \ G)

LEMMA HeadAndTail ==
  ASSUME NEW S, NEW s \in Seq(S), s # <<>>
  PROVE  /\ Head(s) \in S /\ Tail(s) \in Seq(S) /\ Elements(s) = {Head(s)} \cup Elements(Tail(s))
         /\ Distinct(s) => Distinct(Tail(s)) /\ Head(s) \notin Elements(Tail(s))
<1>1. /\ Len(s) \in Nat \ {0} /\ DOMAIN s = 1 .. Len(s) /\ \A i \in 1 .. Len(s) : s[i] \in S
  BY LenProperties, EmptySeq, ElementOfSeq
<1>2. /\ Head(s) = s[1] /\ Tail(s) \in Seq(S) /\ Len(Tail(s)) = Len(s) - 1
      /\ \A i \in 1 .. Len(Tail(s)) : Tail(s)[i] = s[i + 1]
  BY HeadTailProperties
<1>3. PICK n : n = Len(s)
  OBVIOUS
<1>4. PICK t : t = Tail(s)
  OBVIOUS
<1>5. DOMAIN t = 1 .. n - 1 /\ \A i \in 1 .. n - 1 : t[i] = s[i + 1]
  BY <1>1, <1>2, <1>3, <1>4, LenProperties
<1>6. /\ n \in Nat \ {0} /\ DOMAIN s = 1 .. n
      /\ \A i \in 1 .. n - 1 : i + 1 \in 1 .. n /\ i + 1 # 1
      /\ \A i \in 1 .. n : i = 1 \/ (i - 1 \in 1 .. n - 1 /\ (i - 1) + 1 = i)
  BY <1>1, <1>3
<1>7. 1 \in 1 .. n
  BY <1>6
<1>8. Elements(s) = {s[1]} \cup Elements(t)
  <2>1. Elements(s) \subseteq {s[1]} \cup Elements(t)
    <3>1. ASSUME NEW i \in 1 .. n PROVE s[i] \in {s[1]} \cup Elements(t)
      <4>1. CASE i = 1
        BY <4>1
      <4>2. CASE i # 1
        <5>1. i - 1 \in 1 .. n - 1 /\ t[i - 1] = s[i]
          BY <1>5, <1>6, <4>2
        <5> QED BY <1>5, <5>1 DEF Elements
      <4> QED BY <4>1, <4>2
    <3> QED BY <1>6, <3>1 DEF Elements
  <2>2. {s[1]} \cup Elements(t) \subseteq Elements(s)
    BY <1>5, <1>6, <1>7 DEF Elements
  <2> QED BY <2>1, <2>2
<1>9. ASSUME Distinct(s) PROVE Distinct(t) /\ s[1] \notin Elements(t)
  <2>1. \A i, k \in 1 .. n - 1 : i + 1 = k + 1 => i = k
    BY <1>6
  <2>2. Distinct(t)
    BY <1>5, <1>6, <1>9, <2>1 DEF Distinct
  <2>3. s[1] \notin Elements(t)
    BY <1>5, <1>6, <1>7, <1>9 DEF Distinct, Elements
  <2> QED BY <2>2, <2>3
<1> QED BY <1>1, <1>2, <1>3, <1>4, <1>7, <1>8, <1>9

LEMMA NothingUnder ==
  ASSUME DiskInv, Closed(disk), NEW e, e \notin disk
  PROVE  Under(e) \cap disk = {}
<1>1. CASE e \in Entry
  BY <1>1 DEF Closed
<1>2. CASE e \notin Entry
  <2>1. Under(e) = {e}
    BY <1>2, UnderUnfolds, RemovalAssumption
  <2> QED BY <2>1
<1> QED BY <1>1, <1>2

LEMMA NoneOfThese ==
  /\ Elements(<<>>) = {}
  /\ \A j : j.files = <<>> /\ j.stack = <<>> => Ahead(j) = {}
  /\ \A j : j.todo = <<>> => Todo(j) = {}
<1>1. Elements(<<>>) = {}
  BY DEF Elements
<1> QED BY <1>1 DEF Ahead, Todo

LEMMA OneFrame ==
  ASSUME NEW d \in Frames, NEW s, s = <<d>>
  PROVE  /\ s \in Seq(Frames) /\ Nested(s) /\ Elements(s) = {d} /\ Clear(<<>>, s)
<1>1. s \in Seq(Frames) /\ DOMAIN s = {1} /\ s[1] = d
  OBVIOUS
<1>2. Elements(s) = {d}
  BY <1>1 DEF Elements
<1>3. Nested(s)
  BY <1>1 DEF Nested
<1>4. Clear(<<>>, s)
  BY DEF Clear, Elements
<1> QED BY <1>1, <1>2, <1>3, <1>4

LEMMA FramesOfStack ==
  ASSUME NEW stack \in Seq(Frames)
  PROVE  \A d \in Elements(stack) : d \in Frames /\ d.dir \in Directory
<1>1. \A i \in DOMAIN stack : stack[i] \in Frames
  BY LenProperties, ElementOfSeq
<1>2. \A d \in Elements(stack) : d \in Frames
  BY <1>1 DEF Elements
<1> QED BY <1>2 DEF Frames

LEMMA StartPathGoes ==
  ASSUME DiskInv, Closed(disk), NEW j, IsJob(j), Shape(j), j.at = "next", j.todo # <<>>,
         NEW e, e = Head(j.todo), NEW k, NEW G, StartsPath(j, e, k, G)
  PROVE  Progresses(j, k, G)
<1>1. /\ SamePlace(k, j) /\ k.files = j.files
      /\ \/ /\ k.at = "done" /\ k.first = "cancelled" /\ ~j.whole /\ G = {}
            /\ k.todo = j.todo /\ k.stack = j.stack /\ k.entries = j.entries
         \/ /\ k.at = "result" /\ e \notin disk /\ k.first = "not found" /\ G = {}
            /\ k.todo = Tail(j.todo) /\ k.stack = j.stack /\ k.entries = j.entries
         \/ /\ k.at = "walk" /\ e \in disk \cap Directory /\ k.first = "none" /\ G = {}
            /\ k.todo = Tail(j.todo) /\ k.stack = <<[dir |-> e, done |-> FALSE]>>
            /\ k.entries = j.entries
         \/ /\ k.at = "result" /\ e \in disk \ Directory /\ k.first \in Bad /\ G = {}
            /\ k.todo = Tail(j.todo) /\ k.stack = j.stack /\ k.entries = j.entries
         \/ /\ k.at = "result" /\ e \in disk \ Directory /\ k.first = "none" /\ G = {e}
            /\ UnlinkError(e) = "none"
            /\ k.todo = Tail(j.todo) /\ k.stack = j.stack /\ k.entries = j.entries + 1
  BY DEF StartsPath
<1>2. /\ j.todo \in Seq(Paths) /\ j.whole \in BOOLEAN /\ (j.whole => Tail(j.todo) = <<>>)
      /\ j.files = <<>> /\ j.stack = <<>> /\ Distinct(<<>>)
      /\ j.files \in Seq(Entry \ Directory) /\ Distinct(j.files)
      /\ j.stack \in Seq(Frames) /\ Nested(j.stack) /\ Clear(j.files, j.stack)
  BY DEF Shape
<1>3. PICK t : t = Tail(j.todo)
  OBVIOUS
<1>4. /\ t \in Seq(Paths) /\ Elements(j.todo) = {e} \cup Elements(t)
  BY <1>2, <1>3, HeadAndTail
<1>5. /\ Todo(j) = Under(e) \cup UNION {Under(x) : x \in Elements(t)}
      /\ k.todo = t => Todo(k) = UNION {Under(x) : x \in Elements(t)}
  BY <1>4 DEF Todo
<1>6. Ahead(j) = {}
  BY <1>2, NoneOfThese
<1>7. k.whole = j.whole /\ k.failed = j.failed
  BY <1>1 DEF SamePlace
<1>8. \A R : Left(j, R, disk) /\ j.failed = {} => R \cap disk \subseteq Todo(j)
  BY <1>6 DEF Left
<1>9. CASE k.at = "done" /\ k.first = "cancelled" /\ ~j.whole /\ G = {}
              /\ k.todo = j.todo /\ k.stack = j.stack
  <2>1. Shape(k)
    BY <1>1, <1>2, <1>7, <1>9 DEF Shape
  <2>2. \A R : Left(k, R, disk \ G)
    BY <1>9 DEF Left, Good
  <2> QED BY <1>9, <2>1, <2>2 DEF Progresses
<1>10. CASE k.at = "result" /\ k.todo = t /\ k.stack = j.stack /\ G = {}
              /\ (k.first \in Bad \/ (e \notin disk /\ k.first = "not found"))
  <2>1. Shape(k)
    BY <1>1, <1>2, <1>4, <1>3, <1>7, <1>10 DEF Shape
  <2>2. ASSUME NEW R, Left(j, R, disk) PROVE Left(k, R, disk \ G)
    <3>1. CASE k.first \in Bad
      BY <1>10, <3>1 DEF Left, Good, Bad
    <3>2. CASE e \notin disk
      <4>1. Under(e) \cap disk = {}
        BY <3>2, NothingUnder
      <4>2. j.failed = {} => R \cap disk \subseteq Todo(k)
        BY <1>5, <1>8, <1>10, <2>2, <4>1
      <4> QED BY <1>7, <1>10, <4>2 DEF Left
    <3> QED BY <1>10, <3>1, <3>2
  <2> QED BY <1>10, <2>1, <2>2 DEF Progresses
<1>11. CASE /\ k.at = "walk" /\ e \in disk \cap Directory /\ k.first = "none" /\ G = {}
            /\ k.todo = t /\ k.stack = <<[dir |-> e, done |-> FALSE]>>
  <2>1. PICK d : d = [dir |-> e, done |-> FALSE]
    OBVIOUS
  <2>2. d \in Frames /\ Span(d) = Under(e) /\ d.dir = e /\ d.done = FALSE
    BY <1>11, <2>1 DEF Frames, Span
  <2>3. k.stack = <<d>>
    BY <1>11, <2>1
  <2>4. k.stack \in Seq(Frames) /\ Nested(k.stack) /\ Elements(k.stack) = {d} /\ Clear(<<>>, k.stack)
    BY <2>2, <2>3, OneFrame
  <2>5. Shape(k)
    BY <1>1, <1>2, <1>3, <1>4, <1>7, <1>11, <2>4 DEF Shape
  <2>6. Ahead(k) = Under(e)
    <3>1. k.files = <<>> /\ Elements(k.files) = {}
      BY <1>1, <1>2, NoneOfThese
    <3> QED BY <2>2, <2>4, <3>1 DEF Ahead
  <2>7. ASSUME NEW R, Left(j, R, disk) PROVE Left(k, R, disk \ G)
    <3>1. j.failed = {} => R \cap disk \subseteq Todo(k) \cup Ahead(k)
      BY <1>5, <1>8, <1>11, <2>6, <2>7
    <3> QED BY <1>7, <1>11, <2>2, <2>4, <3>1 DEF Left
  <2> QED BY <1>11, <2>5, <2>7 DEF Progresses
<1>12. CASE /\ k.at = "result" /\ G = {e} /\ UnlinkError(e) = "none" /\ k.first = "none"
            /\ k.todo = t /\ k.stack = j.stack
  <2>1. Shape(k)
    BY <1>1, <1>2, <1>3, <1>4, <1>7, <1>12 DEF Shape
  <2>2. Under(e) \cap disk = {e} /\ Closed(disk \ {e})
    BY <1>12, UnlinkedAlone
  <2>3. ASSUME NEW R, Left(j, R, disk) PROVE Left(k, R, disk \ G)
    <3>1. j.failed = {} => R \cap (disk \ G) \subseteq Todo(k)
      BY <1>5, <1>8, <1>12, <2>2, <2>3
    <3> QED BY <1>7, <1>12, <3>1 DEF Left
  <2> QED BY <1>12, <2>1, <2>2, <2>3 DEF Progresses
<1> QED BY <1>1, <1>3, <1>9, <1>10, <1>11, <1>12

LEMMA RemoveFileGoes ==
  ASSUME DiskInv, Closed(disk), NEW j, IsJob(j), Shape(j), j.at = "walk", j.files # <<>>,
         NEW e, e = Head(j.files), NEW k, NEW G, RemovesFile(j, e, k, G)
  PROVE  Progresses(j, k, G)
<1>1. /\ SamePlace(k, j) /\ k.todo = j.todo /\ k.stack = j.stack /\ k.files = Tail(j.files)
      /\ (k.at = "done" /\ k.first = "cancelled") \/ k.at = j.at
      /\ \/ /\ G = {e} /\ UnlinkError(e) = "none" /\ k.entries = j.entries + 1
            /\ (k.at = "done" /\ k.first = "cancelled") \/ k.first = j.first
         \/ /\ G = {} /\ e \notin disk /\ k.entries = j.entries
            /\ (k.at = "done" /\ k.first = "cancelled") \/ k.first = j.first
         \/ /\ G = {} /\ e \in disk /\ k.entries = j.entries
            /\ (k.at = "done" /\ k.first = "cancelled") \/ \E err \in Bad : Notes(k, j, err)
  BY DEF RemovesFile
<1>2. /\ j.todo \in Seq(Paths) /\ j.whole \in BOOLEAN /\ (j.whole => j.todo = <<>>)
      /\ j.files \in Seq(Entry \ Directory) /\ Distinct(j.files)
      /\ j.stack \in Seq(Frames) /\ Nested(j.stack) /\ Clear(j.files, j.stack)
  BY DEF Shape
<1>3. /\ e \in Entry \ Directory /\ k.files \in Seq(Entry \ Directory) /\ Distinct(k.files)
      /\ Elements(j.files) = {e} \cup Elements(k.files)
  BY <1>1, <1>2, HeadAndTail
<1>4. k.whole = j.whole /\ k.failed = j.failed /\ Todo(k) = Todo(j)
  BY <1>1 DEF SamePlace, Todo
<1>5. Ahead(j) = {e} \cup Ahead(k)
  BY <1>1, <1>3 DEF Ahead
<1>6. Shape(k)
  <2>1. Clear(k.files, k.stack)
    BY <1>1, <1>2, <1>3 DEF Clear
  <2> QED BY <1>1, <1>2, <1>3, <1>4, <2>1 DEF Shape
<1>7. Closed(disk \ G)
  BY <1>1, UnlinkedAlone
<1>8. ASSUME NEW R, Left(j, R, disk) PROVE Left(k, R, disk \ G)
  <2>1. /\ j.first # "not found" /\ \A d \in Elements(j.stack) : d.done \/ d.dir \in disk
        /\ j.failed = {} /\ j.first \in Good => R \cap disk \subseteq Todo(j) \cup Ahead(j)
    BY <1>8 DEF Left
  <2>2. CASE k.at = "done" /\ k.first = "cancelled"
    BY <2>2 DEF Left, Good
  <2>3. CASE ~(k.at = "done" /\ k.first = "cancelled")
    <3>1. k.at = "walk"
      BY <1>1, <2>3
    <3>2. \/ G = {e} /\ k.first = j.first
          \/ G = {} /\ e \notin disk /\ k.first = j.first
          \/ G = {} /\ \E err \in Bad : Notes(k, j, err)
      BY <1>1, <2>3
    <3>3. k.first # "not found" /\ (k.first \in Good => j.first \in Good /\ e \notin disk \ G)
      BY <2>1, <3>2 DEF Notes, Good, Bad
    <3>4. \A d \in Elements(k.stack) : d.done \/ d.dir \in disk \ G
      <4>1. \A d \in Elements(j.stack) : d.dir \in Directory
        BY <1>2, FramesOfStack
      <4> QED BY <1>1, <1>3, <2>1, <3>2, <4>1
    <3>5. k.failed = {} /\ k.first \in Good => R \cap (disk \ G) \subseteq Todo(k) \cup Ahead(k)
      BY <1>4, <1>5, <2>1, <3>3
    <3> QED BY <3>1, <3>3, <3>4, <3>5 DEF Left
  <2> QED BY <2>2, <2>3
<1> QED BY <1>6, <1>7, <1>8 DEF Progresses

LEMMA RemoveDirectoryGoes ==
  ASSUME DiskInv, Closed(disk), NEW j, IsJob(j), Shape(j), j.at = "walk", j.files = <<>>,
         j.stack # <<>>, NEW top, top = j.stack[Len(j.stack)], top.done,
         NEW e, e = top.dir, NEW k, NEW G, RemovesDirectory(j, e, k, G)
  PROVE  Progresses(j, k, G)
<1>1. /\ SamePlace(k, j) /\ k.todo = j.todo /\ k.stack = Front(j.stack) /\ k.files = j.files
      /\ k.at = j.at
      /\ \/ G = {e} /\ UnlinkError(e) = "none" /\ k.first = j.first
         \/ G = {} /\ e \notin disk /\ k.first = j.first
         \/ G = {} /\ \E err \in Bad : Notes(k, j, err)
  BY DEF RemovesDirectory
<1>2. /\ j.todo \in Seq(Paths) /\ j.whole \in BOOLEAN /\ (j.whole => j.todo = <<>>)
      /\ j.files \in Seq(Entry \ Directory) /\ Distinct(j.files)
      /\ j.stack \in Seq(Frames) /\ Nested(j.stack)
  BY DEF Shape
<1>3. /\ Front(j.stack) \in Seq(Frames) /\ top \in Frames
      /\ Elements(j.stack) = Elements(Front(j.stack)) \cup {top}
      /\ Nested(Front(j.stack))
      /\ \A d \in Elements(Front(j.stack)) : Span(d) \cap Under(top.dir) = {}
  BY <1>2, PopKeeps
<1>4. k.whole = j.whole /\ k.failed = j.failed /\ Todo(k) = Todo(j)
  BY <1>1 DEF SamePlace, Todo
<1>5. Span(top) = {e}
  BY DEF Span
<1>6. Ahead(j) = {e} \cup Ahead(k)
  BY <1>1, <1>3, <1>5 DEF Ahead
<1>7. Shape(k)
  <2>1. Clear(k.files, k.stack)
    BY <1>1, NoneOfThese DEF Clear
  <2> QED BY <1>1, <1>2, <1>3, <1>4, <2>1 DEF Shape
<1>8. Closed(disk \ G)
  BY <1>1, UnlinkedAlone
<1>9. ASSUME NEW R, Left(j, R, disk) PROVE Left(k, R, disk \ G)
  <2>1. /\ j.first # "not found" /\ \A d \in Elements(j.stack) : d.done \/ d.dir \in disk
        /\ j.failed = {} /\ j.first \in Good => R \cap disk \subseteq Todo(j) \cup Ahead(j)
    BY <1>9 DEF Left
  <2>2. k.first # "not found" /\ (k.first \in Good => j.first \in Good /\ e \notin disk \ G)
    BY <1>1, <2>1 DEF Notes, Good, Bad
  <2>3. \A d \in Elements(k.stack) : d.done \/ d.dir \in disk \ G
    <3>1. ASSUME NEW d \in Elements(k.stack) PROVE d.dir # e
      <4>1. d \in Frames
        BY <1>1, <1>3, FramesOfStack
      <4>2. d.dir \in Span(d) /\ e \in Under(e)
        BY <4>1, SpanFacts, UnderUnfolds
      <4> QED BY <1>1, <1>3, <4>2
    <3> QED BY <1>1, <1>3, <2>1, <3>1
  <2>4. k.failed = {} /\ k.first \in Good => R \cap (disk \ G) \subseteq Todo(k) \cup Ahead(k)
    BY <1>4, <1>6, <2>1, <2>2
  <2> QED BY <1>1, <2>2, <2>3, <2>4 DEF Left
<1> QED BY <1>7, <1>8, <1>9 DEF Progresses

LEMMA VisitDirectoryGoes ==
  ASSUME DiskInv, Closed(disk), NEW j, IsJob(j), Shape(j), j.at = "walk", j.files = <<>>,
         j.stack # <<>>, NEW top, top = j.stack[Len(j.stack)], ~top.done,
         NEW e, e = top.dir, NEW k, NEW G, Visits(j, e, k, G)
  PROVE  Progresses(j, k, G)
<1>1. /\ SamePlace(k, j) /\ k.todo = j.todo /\ G = {}
      /\ \/ k.at = "done" /\ k.first = "cancelled" /\ k.stack = j.stack /\ k.files = j.files
         \/ /\ k.at = j.at /\ k.stack = Front(j.stack) /\ k.files = j.files
            /\ \/ e \notin disk /\ Notes(k, j, "not found")
               \/ e \in disk /\ Notes(k, j, "denied")
         \/ /\ k.at = j.at /\ e \in disk /\ k.first = j.first
            /\ k.stack = Visited(j.stack, e) /\ k.files = Retain(ReadDir(e), Entry \ Directory)
  BY DEF Visits
<1>2. /\ j.todo \in Seq(Paths) /\ j.whole \in BOOLEAN /\ (j.whole => j.todo = <<>>)
      /\ j.files \in Seq(Entry \ Directory) /\ Distinct(j.files)
      /\ j.stack \in Seq(Frames) /\ Nested(j.stack) /\ Clear(j.files, j.stack)
  BY DEF Shape
<1>3. /\ Front(j.stack) \in Seq(Frames) /\ top \in Frames
      /\ Elements(j.stack) = Elements(Front(j.stack)) \cup {top}
      /\ Nested(Front(j.stack))
  BY <1>2, PopKeeps
<1>4. k.whole = j.whole /\ k.failed = j.failed /\ Todo(k) = Todo(j) /\ disk \ G = disk
  BY <1>1 DEF SamePlace, Todo
<1>5. /\ e \in Directory /\ Span(top) = Under(e) /\ top = [dir |-> e, done |-> FALSE]
      /\ top \in Elements(j.stack)
  BY <1>3 DEF Frames, Span
<1>6. CASE k.at = "done" /\ k.first = "cancelled" /\ k.stack = j.stack /\ k.files = j.files
  <2>1. Shape(k)
    BY <1>1, <1>2, <1>4, <1>6 DEF Shape
  <2>2. \A R : Left(k, R, disk)
    BY <1>6 DEF Left, Good
  <2> QED BY <1>4, <2>1, <2>2 DEF Progresses
<1>7. CASE /\ k.at = j.at /\ k.stack = Front(j.stack) /\ k.files = j.files
           /\ \/ e \notin disk /\ Notes(k, j, "not found")
              \/ e \in disk /\ Notes(k, j, "denied")
  <2>1. Clear(k.files, k.stack)
    BY <1>7, NoneOfThese DEF Clear
  <2>2. Shape(k)
    BY <1>1, <1>2, <1>3, <1>4, <1>7, <2>1 DEF Shape
  <2>3. ASSUME NEW R, Left(j, R, disk) PROVE Left(k, R, disk)
    <3>1. /\ j.first # "not found" /\ \A d \in Elements(j.stack) : d.done \/ d.dir \in disk
      BY <2>3 DEF Left
    <3>2. e \in disk
      BY <1>5, <3>1
    <3>3. k.first # "not found" /\ k.first \notin Good
      BY <1>7, <3>1, <3>2 DEF Notes, Good, IsJob
    <3> QED BY <1>3, <1>7, <3>1, <3>3 DEF Left
  <2> QED BY <1>4, <2>2, <2>3 DEF Progresses
<1>8. CASE /\ k.at = j.at /\ e \in disk /\ k.first = j.first
           /\ k.stack = Visited(j.stack, e) /\ k.files = Retain(ReadDir(e), Entry \ Directory)
  <2>1. PICK new, files : new = k.stack /\ files = k.files
    OBVIOUS
  <2>2. /\ new \in Seq(Frames) /\ Nested(new)
        /\ Elements(new) = Elements(Front(j.stack)) \cup {[dir |-> e, done |-> TRUE]}
                             \cup {[dir |-> x, done |-> FALSE] : x \in Elements(Subdirs(e))}
        /\ Elements(Subdirs(e)) = Elements(ReadDir(e)) \cap Directory
        /\ files \in Seq(Entry \ Directory) /\ Distinct(files)
        /\ Elements(files) = Elements(ReadDir(e)) \ Directory
        /\ Clear(files, new)
    <3>1. [dir |-> e, done |-> FALSE] = j.stack[Len(j.stack)]
      BY <1>5
    <3>2. new = Visited(j.stack, e) /\ files = Retain(ReadDir(e), Entry \ Directory)
      BY <1>8, <2>1
    <3>3. PICK stack \in Seq(Frames) : stack = j.stack
      BY <1>2
    <3>4. Nested(stack) /\ stack # <<>> /\ [dir |-> e, done |-> FALSE] = stack[Len(stack)]
            /\ new = Visited(stack, e)
      BY <1>2, <3>1, <3>2, <3>3
    <3>5. Opens(stack, e, new, files)
      BY <3>2, <3>4, VisitedFacts
    <3> QED BY <3>3, <3>5 DEF Opens
  <2>3. Shape(k)
    BY <1>1, <1>2, <1>4, <1>8, <2>1, <2>2 DEF Shape
  <2>4. Elements(ReadDir(e)) \subseteq disk
    BY <1>5, ReadDirFacts
  <2>5. /\ \A x \in Elements(Subdirs(e)) : Under(x) \subseteq Ahead(k)
        /\ e \in Ahead(k) /\ Elements(files) \subseteq Ahead(k)
        /\ \A d \in Elements(Front(j.stack)) : Span(d) \subseteq Ahead(k)
    <3>1. Span([dir |-> e, done |-> TRUE]) = {e} /\ \A x : Span([dir |-> x, done |-> FALSE]) = Under(x)
      BY DEF Span
    <3>2. Elements(files) \subseteq Ahead(k) /\ \A d \in Elements(new) : Span(d) \subseteq Ahead(k)
      BY <2>1 DEF Ahead
    <3>3. [dir |-> e, done |-> TRUE] \in Elements(new)
            /\ \A x \in Elements(Subdirs(e)) : [dir |-> x, done |-> FALSE] \in Elements(new)
      BY <2>2
    <3>4. e \in Ahead(k) /\ \A x \in Elements(Subdirs(e)) : Under(x) \subseteq Ahead(k)
      <4>1. ASSUME NEW d \in Elements(new) PROVE Span(d) \subseteq Ahead(k)
        BY <3>2
      <4>2. PICK b : b = [dir |-> e, done |-> TRUE]
        OBVIOUS
      <4>3. Span(b) = {e} /\ b \in Elements(new)
        BY <3>1, <3>3, <4>2
      <4>4. ASSUME NEW x \in Elements(Subdirs(e)) PROVE Under(x) \subseteq Ahead(k)
        <5>1. PICK c : c = [dir |-> x, done |-> FALSE]
          OBVIOUS
        <5>2. Span(c) = Under(x) /\ c \in Elements(new)
          BY <3>1, <3>3, <4>4, <5>1
        <5> QED BY <4>1, <5>2
      <4> QED BY <4>1, <4>3, <4>4
    <3> QED BY <2>2, <3>2, <3>4
  <2>6. Ahead(j) \cap disk \subseteq Ahead(k)
    <3>1. ASSUME NEW x \in Under(e) \cap disk PROVE x \in Ahead(k)
      <4>1. CASE x = e
        BY <2>5, <4>1
      <4>2. CASE x # e
        <5>1. PICK y \in Elements(ReadDir(e)) : x \in Under(y)
          BY <1>5, <3>1, <4>2, DirectoryOpens
        <5>2. CASE y \in Directory
          BY <2>2, <2>5, <5>1, <5>2
        <5>3. CASE y \notin Directory
          BY <2>2, <2>5, <5>1, <5>3, UnderUnfolds
        <5> QED BY <5>2, <5>3
      <4> QED BY <4>1, <4>2
    <3>2. Elements(j.files) = {}
      BY NoneOfThese
    <3>3. Ahead(j) = Under(e) \cup UNION {Span(d) : d \in Elements(Front(j.stack))}
      BY <1>3, <1>5, <3>2 DEF Ahead
    <3> QED BY <2>5, <3>1, <3>3
  <2>7. ASSUME NEW R, Left(j, R, disk) PROVE Left(k, R, disk)
    <3>1. /\ j.first # "not found" /\ \A d \in Elements(j.stack) : d.done \/ d.dir \in disk
          /\ j.failed = {} /\ j.first \in Good => R \cap disk \subseteq Todo(j) \cup Ahead(j)
      BY <2>7 DEF Left
    <3>2. \A d \in Elements(new) : d.done \/ d.dir \in disk
      <4>1. ASSUME NEW x \in Elements(Subdirs(e)), NEW d, d = [dir |-> x, done |-> FALSE]
            PROVE  d.dir \in disk
        BY <2>2, <2>4, <4>1
      <4>2. ASSUME NEW d, d = [dir |-> e, done |-> TRUE] PROVE d.done
        BY <4>2
      <4>3. \A d \in Elements(Front(j.stack)) : d.done \/ d.dir \in disk
        BY <1>3, <3>1
      <4> QED BY <2>2, <4>1, <4>2, <4>3
    <3>3. k.failed = {} /\ k.first \in Good => R \cap disk \subseteq Todo(k) \cup Ahead(k)
      BY <1>4, <1>8, <2>6, <3>1
    <3> QED BY <1>8, <2>1, <3>1, <3>2, <3>3 DEF Left
  <2> QED BY <1>4, <2>3, <2>7 DEF Progresses
<1> QED BY <1>1, <1>6, <1>7, <1>8

LEMMA PathResultGoes ==
  ASSUME DiskInv, Closed(disk), NEW j, IsJob(j), Shape(j), j.at = "result",
         NEW step, step = PathResult(j), NEW k, k = step[1], NEW G, G = step[2]
  PROVE  Progresses(j, k, G)
<1>1. DOMAIN j = JobFields
  BY DEF IsJob
<1>2. /\ j.todo \in Seq(Paths) /\ j.whole \in BOOLEAN /\ (j.whole => j.todo = <<>>)
      /\ j.files \in Seq(Entry \ Directory) /\ Distinct(j.files)
      /\ j.stack \in Seq(Frames) /\ Nested(j.stack) /\ Clear(j.files, j.stack)
      /\ j.files = <<>> /\ j.stack = <<>>
  BY DEF Shape
<1>3. Ahead(j) = {}
  BY <1>2, NoneOfThese
<1>4. CASE j.whole
  <2>1. k = Ended(j, j.first) /\ G = {}
    BY <1>4 DEF PathResult
  <2>2. /\ k.todo = j.todo /\ k.whole = j.whole /\ k.failed = j.failed /\ k.files = j.files
        /\ k.stack = j.stack /\ k.at = "done" /\ k.first = j.first
    BY <1>1, <2>1, EndedFields
  <2>3. Shape(k)
    BY <1>2, <2>2 DEF Shape
  <2>4. Todo(j) = {} /\ disk \ G = disk
    BY <1>2, <1>4, <2>1, NoneOfThese
  <2>5. \A R : Left(j, R, disk) => Left(k, R, disk)
    BY <1>3, <2>2, <2>4 DEF Left
  <2> QED BY <2>3, <2>4, <2>5 DEF Progresses
<1>5. CASE ~j.whole
  <2>1. PICK f : f = IF j.first \in {"none", "not found"} THEN j.failed ELSE j.failed \cup {j.first}
    OBVIOUS
  <2>2. k = [j EXCEPT !.at = "next", !.failed = f] /\ G = {}
    BY <1>5, <2>1 DEF PathResult
  <2>3. /\ k.todo = j.todo /\ k.whole = j.whole /\ k.failed = f /\ k.files = j.files
        /\ k.stack = j.stack /\ k.at = "next" /\ k.first = j.first
    BY <1>1, <2>2 DEF JobFields
  <2>4. Shape(k) /\ Todo(k) = Todo(j) /\ disk \ G = disk
    BY <1>2, <1>5, <2>2, <2>3 DEF Shape, Todo
  <2>5. f = {} => j.failed = {} /\ j.first \in Good
    BY <2>1 DEF Good
  <2>6. \A R : Left(j, R, disk) => Left(k, R, disk)
    BY <1>3, <2>3, <2>4, <2>5 DEF Left
  <2> QED BY <2>4, <2>6 DEF Progresses
<1> QED BY <1>4, <1>5

LEMMA RemoverGoes ==
  ASSUME DiskInv, Closed(disk), NEW j, IsJob(j), Shape(j), j.at # "done",
         NEW step, step = RemoverStep(j), NEW k, k = step[1], NEW G, G = step[2]
  PROVE  Progresses(j, k, G)
<1>1. DOMAIN j = JobFields /\ j.at \in {"next", "walk", "result"}
  BY DEF IsJob
<1>2. CASE j.at = "next" /\ j.todo # <<>>
  <2>1. step = StartPath(j)
    BY <1>2 DEF RemoverStep
  <2>2. StartsPath(j, Head(j.todo), k, G)
    BY <2>1, StartPathCases
  <2> QED BY <1>2, <2>2, StartPathGoes
<1>3. CASE j.at = "next" /\ j.todo = <<>>
  <2>1. step = <<Ended(j, "none"), {}>>
    BY <1>3 DEF RemoverStep
  <2>2. k = Ended(j, "none") /\ G = {}
    BY <2>1
  <2>3. /\ k.todo = j.todo /\ k.whole = j.whole /\ k.failed = j.failed /\ k.files = j.files
        /\ k.stack = j.stack /\ k.at = "done" /\ k.first = "none"
    BY <1>1, <2>2, EndedFields
  <2>4. Shape(k)
    BY <1>3, <2>3 DEF Shape
  <2>5. Todo(j) = {} /\ Ahead(j) = {} /\ disk \ G = disk
    BY <1>3, <2>2, NoneOfThese DEF Shape
  <2>6. \A R : Left(j, R, disk) => Left(k, R, disk)
    BY <1>3, <2>3, <2>5 DEF Left
  <2> QED BY <2>4, <2>5, <2>6 DEF Progresses
<1>4. CASE j.at = "result"
  <2>1. step = PathResult(j)
    BY <1>4 DEF RemoverStep
  <2> QED BY <1>4, <2>1, PathResultGoes
<1>5. CASE j.at = "walk" /\ j.files # <<>>
  <2>1. step = RemoveFile(j)
    BY <1>5 DEF RemoverStep
  <2>2. RemovesFile(j, Head(j.files), k, G)
    BY <2>1, RemoveFileCases
  <2> QED BY <1>5, <2>2, RemoveFileGoes
<1>6. CASE j.at = "walk" /\ j.files = <<>> /\ j.stack = <<>>
  <2>1. step = <<[j EXCEPT !.at = "result"], {}>>
    BY <1>6 DEF RemoverStep
  <2>2. k = [j EXCEPT !.at = "result"] /\ G = {}
    BY <2>1
  <2>3. /\ k.todo = j.todo /\ k.whole = j.whole /\ k.failed = j.failed /\ k.files = j.files
        /\ k.stack = j.stack /\ k.at = "result" /\ k.first = j.first
    BY <1>1, <2>2 DEF JobFields
  <2>4. Shape(k)
    BY <1>6, <2>3 DEF Shape
  <2>5. Todo(k) = Todo(j) /\ Ahead(k) = Ahead(j) /\ disk \ G = disk
    BY <2>2, <2>3 DEF Todo, Ahead
  <2>6. \A R : Left(j, R, disk) => Left(k, R, disk)
    BY <1>6, <2>3, <2>5 DEF Left
  <2> QED BY <2>4, <2>5, <2>6 DEF Progresses
<1>7. ASSUME j.at = "walk", j.files = <<>>, j.stack # <<>>
      PROVE  Progresses(j, k, G)
  <2>1. PICK top : top = j.stack[Len(j.stack)]
    OBVIOUS
  <2>2. PICK e : e = top.dir
    OBVIOUS
  <2>3. top \in Frames
    <3>1. j.stack \in Seq(Frames)
      BY DEF Shape
    <3> QED BY <1>7, <2>1, <3>1, PopFacts
  <2>4. e = j.stack[Len(j.stack)].dir
    BY <2>1, <2>2
  <2>5. CASE top.done
    <3>1. step = RemoveDirectory(j)
      BY <1>7, <2>1, <2>5 DEF RemoverStep
    <3>2. RemovesDirectory(j, e, k, G)
      BY <2>4, <3>1, RemoveDirectoryCases
    <3> QED BY <1>7, <2>1, <2>2, <2>5, <3>2, RemoveDirectoryGoes
  <2>6. CASE ~top.done
    <3>1. step = VisitDirectory(j)
      BY <1>7, <2>1, <2>6 DEF RemoverStep
    <3>2. Visits(j, e, k, G)
      BY <2>4, <3>1, VisitDirectoryCases
    <3> QED BY <1>7, <2>1, <2>2, <2>6, <3>2, VisitDirectoryGoes
  <2> QED BY <2>5, <2>6
<1> QED BY <1>1, <1>2, <1>3, <1>4, <1>5, <1>6, <1>7

-----------------------------------------------------------------------------
(* The invariant of what is gone: the job in hand has a way ahead that     *)
(* holds all that is left of its item, and what was reported as removed is *)
(* gone.  Both as long as only the run removes something.                  *)

GoodOutcome(o, D) == o.status = "removed" /\ o.item.what # "external" => ItemRemains(o.item) \cap D = {}
Vouched(s, D) == \A i \in DOMAIN s : GoodOutcome(s[i], D)
Reported == IF worker = NoWorker THEN Caught.report ELSE worker.outcomes
Busy == worker # NoWorker /\ worker.job # NoJob

GoneInv ==
  /\ Closed(disk)
  /\ Busy => Shape(worker.job)
  /\ lost = {} /\ Busy => Left(worker.job, ItemRemains(Item), disk)
  /\ lost = {} /\ run # NoRun => Vouched(Reported, disk)

LEMMA VouchedStays ==
  ASSUME NEW s, NEW D, NEW E, Vouched(s, D), E \subseteq D
  PROVE  Vouched(s, E)
BY DEF Vouched, GoodOutcome

LEMMA VouchedMore ==
  ASSUME NEW S, NEW s \in Seq(S), NEW D, NEW o, Vouched(s, D), GoodOutcome(o, D)
  PROVE  Vouched(Append(s, o), D)
<1>1. PICK t : t = Append(s, o)
  OBVIOUS
<1>2. PICK n : n = Len(s)
  OBVIOUS
<1>3. /\ DOMAIN t = 1 .. (n + 1) /\ DOMAIN s = 1 .. n /\ n \in Nat
      /\ \A i \in 1 .. n : t[i] = s[i]
      /\ t[n + 1] = o
  BY <1>1, <1>2, AppendParts
<1>4. \A i \in 1 .. (n + 1) : i = n + 1 \/ i \in 1 .. n
  BY <1>3
<1>5. \A i \in DOMAIN t : GoodOutcome(t[i], D)
  BY <1>3, <1>4 DEF Vouched
<1> QED BY <1>1, <1>5 DEF Vouched

LEMMA GoneStays ==
  ASSUME GoneInv, UNCHANGED <<disk, worker, lost>>, Reported' = Reported, run' # NoRun => run # NoRun
  PROVE  GoneInv'
BY DEF GoneInv, Busy, Item

LEMMA ConcludeGone ==
  ASSUME GoneInv, LinkInv, worker # NoWorker, NEW o,
         worker' = [worker EXCEPT !.job = NoJob, !.outcomes = Append(@, o)],
         UNCHANGED <<lost, run>>, disk' \subseteq disk, Closed(disk'),
         lost = {} => GoodOutcome(o, disk')
  PROVE  GoneInv'
<1>1. IsWorker(worker) /\ worker.outcomes \in Seq(OutcomeRecords) /\ run # NoRun
  BY WorkerTypes
<1>2. worker'.job = NoJob /\ worker'.outcomes = Append(worker.outcomes, o) /\ worker'.at = "item"
  BY <1>1 DEF IsWorker
<1>3. ~Busy' /\ worker' # NoWorker
  BY <1>2 DEF Busy, NoWorker
<1>4. ASSUME lost' = {} PROVE Vouched(Reported', disk')
  <2>1. Vouched(worker.outcomes, disk)
    BY <1>1, <1>4 DEF GoneInv, Reported
  <2>2. Vouched(worker.outcomes, disk')
    BY <2>1, VouchedStays
  <2>3. Vouched(Append(worker.outcomes, o), disk')
    BY <1>1, <1>4, <2>2, VouchedMore
  <2> QED BY <1>2, <1>3, <2>3 DEF Reported
<1> QED BY <1>3, <1>4 DEF GoneInv

LEMMA SpareGone ==
  ASSUME NEW item, NEW status, NEW entries, NEW bytes, NEW D, NEW o,
         o = Outcome(item, status, entries, bytes)
  PROVE  /\ o.item = item /\ o.status = status /\ o.entries = entries
         /\ status # "removed" \/ item.what = "external" => GoodOutcome(o, D)
<1>1. o.item = item /\ o.status = status /\ o.entries = entries
  BY DEF Outcome
<1> QED BY <1>1 DEF GoodOutcome

LEMMA SkipItemGone ==
  ASSUME GoneInv, LinkInv, SkipItem \/ RefuseItem \/ RunExternal, UNCHANGED <<lost, run>>
  PROVE  GoneInv'
<1>1. AtItem /\ UNCHANGED disk
  BY DEF SkipItem, RefuseItem, RunExternal
<1>2. worker # NoWorker
  BY <1>1, AtItemTypes
<1>3. \E o : /\ worker' = [worker EXCEPT !.job = NoJob, !.outcomes = Append(@, o)]
             /\ GoodOutcome(o, disk)
  <2>1. CASE SkipItem
    <3>1. PICK o : o = Outcome(Item, "cancelled", 0, 0)
      OBVIOUS
    <3>2. worker' = [worker EXCEPT !.job = NoJob, !.outcomes = Append(@, o)]
      BY <2>1, <3>1 DEF SkipItem, Conclude
    <3>3. GoodOutcome(o, disk)
      BY <3>1, SpareGone
    <3> QED BY <3>2, <3>3
  <2>2. CASE RefuseItem
    <3>1. PICK o : o = Outcome(Item, "refused", 0, 0)
      OBVIOUS
    <3>2. worker' = [worker EXCEPT !.job = NoJob, !.outcomes = Append(@, o)]
      BY <2>2, <3>1 DEF RefuseItem, Conclude
    <3>3. GoodOutcome(o, disk)
      BY <3>1, SpareGone
    <3> QED BY <3>2, <3>3
  <2>3. CASE RunExternal
    <3>1. PICK status : Conclude(Outcome(Item, status, 0, 0), TRUE)
      BY <2>3 DEF RunExternal
    <3>2. PICK o : o = Outcome(Item, status, 0, 0)
      OBVIOUS
    <3>3. worker' = [worker EXCEPT !.job = NoJob, !.outcomes = Append(@, o)]
      BY <3>1, <3>2 DEF Conclude
    <3>4. GoodOutcome(o, disk)
      <4>1. Item.what = "external"
        BY <2>3 DEF RunExternal
      <4> QED BY <3>2, <4>1, SpareGone
    <3> QED BY <3>3, <3>4
  <2> QED BY <2>1, <2>2, <2>3
<1>4. PICK o : /\ worker' = [worker EXCEPT !.job = NoJob, !.outcomes = Append(@, o)]
               /\ GoodOutcome(o, disk)
  BY <1>3
<1>5. disk' \subseteq disk /\ Closed(disk') /\ GoodOutcome(o, disk')
  BY <1>1, <1>4 DEF GoneInv
<1> QED BY <1>2, <1>4, <1>5, ConcludeGone

LEMMA MoveToTrashGone ==
  ASSUME GoneInv, LinkInv, DiskInv, MoveToTrash, UNCHANGED <<lost, run>>
  PROVE  GoneInv'
<1>1. PICK e : e = Item.path
  OBVIOUS
<1>2. PICK o : o = CASE e \notin disk -> Outcome(Item, "removed", 0, 0)
                     [] e \in disk /\ obstacles[e] = "denied" -> Outcome(Item, "needs privileges", 0, 0)
                     [] e \in disk /\ obstacles[e] = "failed" -> Outcome(Item, "failed", 0, 0)
                     [] OTHER -> Outcome(Item, "removed", 1, 0)
  OBVIOUS
<1>3. /\ AtItem /\ Item.what = "path" /\ Conclude(o, TRUE)
      /\ disk' = IF o.status = "removed" THEN disk \ Under(e) ELSE disk
  BY <1>1, <1>2, Zenon DEF MoveToTrash
<1>4. worker # NoWorker /\ worker' = [worker EXCEPT !.job = NoJob, !.outcomes = Append(@, o)]
  BY <1>3, AtItemTypes DEF Conclude
<1>5. o.item = Item
  <2>1. \E status, n : o = Outcome(Item, status, n, 0)
    <3>1. CASE e \notin disk
      BY <1>2, <3>1
    <3>2. CASE e \in disk
      <4>1. \/ o = Outcome(Item, "needs privileges", 0, 0)
            \/ o = Outcome(Item, "failed", 0, 0)
            \/ o = Outcome(Item, "removed", 1, 0)
        BY <1>2, <3>2
      <4> QED BY <4>1
    <3> QED BY <3>1, <3>2
  <2> QED BY <2>1, SpareGone
<1>6. Closed(disk) /\ disk \in SUBSET Entry
  BY DEF GoneInv, DiskInv
<1>7. Closed(disk')
  <2>1. Closed(disk \ Under(e))
    BY <1>6, CompleteGoes, UnderIsComplete
  <2> QED BY <1>3, <1>6, <2>1
<1>8. GoodOutcome(o, disk')
  <2>1. o.status = "removed" => Under(e) \cap disk' = {}
    BY <1>3
  <2>2. ItemRemains(Item) = Under(e)
    BY <1>1, <1>3 DEF ItemRemains
  <2> QED BY <1>5, <2>1, <2>2 DEF GoodOutcome
<1>9. disk' \subseteq disk
  BY <1>3
<1> QED BY <1>4, <1>7, <1>8, <1>9, ConcludeGone

LEMMA FinishItemGone ==
  ASSUME GoneInv, LinkInv, FinishItem, UNCHANGED <<lost, run>>
  PROVE  GoneInv'
<1>1. PICK j : j = worker.job
  OBVIOUS
<1>2. PICK status : status = StatusOf(j.first, j.failed)
  OBVIOUS
<1>3. PICK o : o = Outcome(Item, status, j.entries, j.bytes)
  OBVIOUS
<1>4. /\ worker.at = "item" /\ j # NoJob /\ j.at = "done" /\ UNCHANGED disk
      /\ worker' = [worker EXCEPT !.job = NoJob, !.outcomes = Append(@, o)]
  <2>1. worker.at = "item" /\ worker.job # NoJob /\ worker.job.at = "done" /\ UNCHANGED disk
    BY DEF FinishItem
  <2>2. Conclude(o, FALSE)
    BY <1>1, <1>2, <1>3 DEF FinishItem
  <2> QED BY <1>1, <2>1, <2>2 DEF Conclude
<1>5. worker # NoWorker
  BY <1>4 DEF NoWorker
<1>6. j.first \in Errors
  BY <1>1, <1>4, <1>5, WorkerTypes, JobTypes DEF IsWorker
<1>7. status = "removed" => j.first \in Good /\ j.failed = {}
  BY <1>2, <1>6 DEF StatusOf, Errors, Good
<1>8. o.item = Item /\ o.status = status
  BY <1>3 DEF Outcome
<1>9. ASSUME lost = {} PROVE GoodOutcome(o, disk')
  <2>1. Left(j, ItemRemains(Item), disk)
    BY <1>1, <1>4, <1>5, <1>9 DEF GoneInv, Busy
  <2>2. status = "removed" => ItemRemains(Item) \cap disk = {}
    BY <1>4, <1>7, <2>1 DEF Left
  <2> QED BY <1>4, <1>8, <2>2 DEF GoodOutcome
<1>10. disk' \subseteq disk /\ Closed(disk')
  BY <1>4 DEF GoneInv
<1> QED BY <1>4, <1>5, <1>9, <1>10, ConcludeGone

LEMMA NoFrames ==
  /\ <<>> \in Seq(Frames) /\ Nested(<<>>) /\ Clear(<<>>, <<>>) /\ Distinct(<<>>)
  /\ <<>> \in Seq(Entry \ Directory) /\ <<>> \in Seq(Paths)
BY DEF Nested, Clear, Elements, Distinct

LEMMA SeqGrows ==
  ASSUME NEW S, NEW T, S \subseteq T, NEW s \in Seq(S)
  PROVE  s \in Seq(T)
OBVIOUS

LEMMA OneElement ==
  ASSUME NEW S, NEW x \in S
  PROVE  <<x>> \in Seq(S) /\ <<x>> # <<>> /\ Tail(<<x>>) = <<>> /\ Elements(<<x>>) = {x}
<1>1. <<x>> \in Seq(S) /\ <<x>> # <<>> /\ Tail(<<x>>) = <<>>
  OBVIOUS
<1>2. Elements(<<x>>) = {x}
  BY DEF Elements
<1> QED BY <1>1, <1>2

Unbegun(j, todo) ==
  Shape(j) /\ DOMAIN j = JobFields /\ j.at = "next" /\ j.todo = todo /\ j.failed = {} /\ Ahead(j) = {}
    /\ j.entries = 0 /\ j.first = "none"
Over(j, err) == Shape(j) /\ j.at = "done" /\ j.first = err /\ j.entries = 0

LEMMA NewJobShape ==
  ASSUME NEW whole \in BOOLEAN, NEW todo \in Seq(Paths), whole => todo # <<>> /\ Tail(todo) = <<>>
  PROVE  Unbegun(NewJob(whole, todo), todo)
<1>1. PICK j : j = NewJob(whole, todo)
  OBVIOUS
<1>2. /\ j.whole = whole /\ j.todo = todo /\ j.stack = <<>> /\ j.files = <<>> /\ j.failed = {}
      /\ j.at = "next" /\ DOMAIN j = JobFields /\ j.entries = 0 /\ j.first = "none"
  BY <1>1 DEF NewJob, JobFields
<1>3. Shape(j)
  BY <1>2, NoFrames DEF Shape
<1>4. Ahead(j) = {}
  BY <1>2, NoneOfThese
<1>5. Unbegun(j, todo)
  BY <1>2, <1>3, <1>4 DEF Unbegun
<1> QED BY <1>1, <1>5

LEMMA EndedShape ==
  ASSUME NEW err
  PROVE  Over(Ended(NewJob(FALSE, <<>>), err), err)
<1>1. PICK m : m = NewJob(FALSE, <<>>)
  OBVIOUS
<1>2. /\ m.whole = FALSE /\ m.todo = <<>> /\ m.stack = <<>> /\ m.files = <<>> /\ DOMAIN m = JobFields
      /\ m.entries = 0
  BY <1>1 DEF NewJob, JobFields
<1>3. PICK k : k = Ended(m, err)
  OBVIOUS
<1>4. /\ k.todo = <<>> /\ k.whole = FALSE /\ k.files = <<>> /\ k.stack = <<>> /\ k.at = "done"
      /\ k.first = err /\ k.entries = 0
  BY <1>2, <1>3, EndedFields
<1>5. Over(k, err)
  BY <1>4, NoFrames DEF Over, Shape
<1> QED BY <1>1, <1>3, <1>5

LEMMA PathOfItem ==
  ASSUME NEW item \in Items
  PROVE  item.path \in Paths
BY DEF Items, Candidates, DeletionItems, Paths

LEMMA StartedGone ==
  ASSUME DiskInv, Closed(disk), NEW item \in Items, item.what \in {"path", "contents"},
         NEW e, e = item.path,
         NEW j, j = IF item.what = "path" THEN NewJob(TRUE, <<e>>)
                    ELSE IF e \notin disk THEN Ended(NewJob(FALSE, <<>>), "not found")
                    ELSE IF e \notin Directory THEN Ended(NewJob(FALSE, <<>>), "failed")
                    ELSE IF obstacles[e] = "unlistable" THEN Ended(NewJob(FALSE, <<>>), "denied")
                    ELSE NewJob(FALSE, ReadDir(e))
  PROVE  Shape(j) /\ Left(j, ItemRemains(item), disk)
<1>1. e \in Paths
  BY PathOfItem
<1>2. ItemRemains(item) = IF item.what = "path" THEN Under(e) ELSE Under(e) \ {e}
  BY DEF ItemRemains
<1>3. CASE item.what = "path"
  <2>1. PICK todo : todo = <<e>>
    OBVIOUS
  <2>2. todo \in Seq(Paths) /\ todo # <<>> /\ Tail(todo) = <<>> /\ Elements(todo) = {e}
    BY <1>1, <2>1, OneElement
  <2>3. j = NewJob(TRUE, todo)
    BY <1>3, <2>1
  <2>4. /\ Shape(j) /\ j.at = "next" /\ j.todo = todo /\ j.failed = {}
    <3>1. Unbegun(NewJob(TRUE, todo), todo)
      BY <2>2, NewJobShape
    <3> QED BY <2>3, <3>1 DEF Unbegun
  <2>5. Todo(j) = Under(e)
    BY <2>2, <2>4 DEF Todo
  <2> QED BY <1>2, <1>3, <2>4, <2>5 DEF Left
<1>4. CASE item.what # "path" /\ e \notin disk
  <2>1. j = Ended(NewJob(FALSE, <<>>), "not found")
    BY <1>4
  <2>2. Shape(j) /\ j.at = "done" /\ j.first = "not found"
    <3>1. Over(Ended(NewJob(FALSE, <<>>), "not found"), "not found")
      BY EndedShape
    <3> QED BY <2>1, <3>1 DEF Over
  <2>3. Under(e) \cap disk = {}
    BY <1>4, NothingUnder
  <2> QED BY <1>2, <1>4, <2>2, <2>3 DEF Left
<1>5. CASE item.what # "path" /\ e \in disk /\ (e \notin Directory \/ obstacles[e] = "unlistable")
  <2>1. j = Ended(NewJob(FALSE, <<>>), "failed") \/ j = Ended(NewJob(FALSE, <<>>), "denied")
    BY <1>5, Zenon
  <2>2. Shape(j) /\ j.at = "done" /\ j.first \in {"failed", "denied"}
    <3>1. \A err : Over(Ended(NewJob(FALSE, <<>>), err), err)
      BY EndedShape
    <3>2. Over(j, "failed") \/ Over(j, "denied")
      BY <2>1, <3>1
    <3> QED BY <3>2 DEF Over
  <2> QED BY <2>2 DEF Left, Good
<1>6. CASE item.what # "path" /\ e \in disk /\ e \in Directory /\ obstacles[e] # "unlistable"
  <2>1. PICK todo : todo = ReadDir(e)
    OBVIOUS
  <2>2. j = NewJob(FALSE, todo)
    BY <1>6, <2>1, Zenon
  <2>3. todo \in Seq(Paths)
    <3>1. todo \in Seq(Entry)
      BY <1>6, <2>1, ReadDirFacts
    <3>2. Entry \subseteq Paths
      BY DEF Paths
    <3> QED BY <3>1, <3>2, SeqGrows
  <2>4. /\ Shape(j) /\ j.at = "next" /\ j.todo = todo /\ j.failed = {} /\ Ahead(j) = {}
    <3>1. Unbegun(NewJob(FALSE, todo), todo)
      BY <2>3, NewJobShape
    <3> QED BY <2>2, <3>1 DEF Unbegun
  <2>5. (Under(e) \ {e}) \cap disk \subseteq Todo(j)
    <3>1. ASSUME NEW x \in Under(e) \cap disk, x # e
          PROVE  \E y \in Elements(ReadDir(e)) : x \in Under(y)
      <4>1. PICK d \in Directory : d = e
        BY <1>6
      <4>2. PICK y \in Elements(ReadDir(d)) : x \in Under(y)
        BY <3>1, <4>1, DirectoryOpens
      <4> QED BY <4>1, <4>2
    <3>2. \A y \in Elements(ReadDir(e)) : Under(y) \subseteq Todo(j)
      BY <2>1, <2>4 DEF Todo
    <3> QED BY <3>1, <3>2
  <2> QED BY <1>2, <1>6, <2>4, <2>5 DEF Left
<1> QED BY <1>3, <1>4, <1>5, <1>6

LEMMA NextJobGone ==
  ASSUME GoneInv, LinkInv, worker # NoWorker, NEW j, Shape(j),
         worker' = [worker EXCEPT !.job = j],
         UNCHANGED <<lost, run>>, disk' \subseteq disk, Closed(disk'),
         lost = {} => Left(j, ItemRemains(Item), disk')
  PROVE  GoneInv'
<1>1. IsWorker(worker) /\ run # NoRun
  BY WorkerTypes
<1>2. /\ worker'.job = j /\ worker'.outcomes = worker.outcomes /\ worker'.at = "item"
      /\ worker'.plan = worker.plan
  BY <1>1 DEF IsWorker
<1>3. worker' # NoWorker
  BY <1>2 DEF NoWorker
<1>4. Item' = Item
  BY <1>2 DEF Item
<1>5. ItemRemains(Item)' = ItemRemains(Item)
  BY <1>4 DEF ItemRemains
<1>6. ASSUME lost' = {} PROVE Vouched(Reported', disk')
  <2>1. Vouched(worker.outcomes, disk)
    BY <1>1, <1>6 DEF GoneInv, Reported
  <2>2. Vouched(worker.outcomes, disk')
    BY <2>1, VouchedStays
  <2> QED BY <1>2, <1>3, <2>2 DEF Reported
<1>7. lost' = {} => Left(worker'.job, ItemRemains(Item)', disk')
  BY <1>2, <1>5
<1> QED BY <1>2, <1>6, <1>7 DEF GoneInv

LEMMA StartItemGone ==
  ASSUME GoneInv, LinkInv, DiskInv, StartItem, UNCHANGED <<lost, run>>
  PROVE  GoneInv'
<1>1. PICK e : e = Item.path
  OBVIOUS
<1>2. PICK j : j = IF Item.what = "path" THEN NewJob(TRUE, <<e>>)
                   ELSE IF e \notin disk THEN Ended(NewJob(FALSE, <<>>), "not found")
                   ELSE IF e \notin Directory THEN Ended(NewJob(FALSE, <<>>), "failed")
                   ELSE IF obstacles[e] = "unlistable" THEN Ended(NewJob(FALSE, <<>>), "denied")
                   ELSE NewJob(FALSE, ReadDir(e))
  OBVIOUS
<1>3. /\ AtItem /\ Item.what \in {"path", "contents"} /\ UNCHANGED disk
      /\ worker' = [worker EXCEPT !.job = j]
  BY <1>1, <1>2, Zenon DEF StartItem
<1>4. worker # NoWorker /\ Item \in Items
  BY <1>3, AtItemTypes
<1>5. Closed(disk)
  BY DEF GoneInv
<1>6. PICK item \in Items : item = Item
  BY <1>4
<1>7. Shape(j) /\ Left(j, ItemRemains(item), disk)
  BY <1>1, <1>2, <1>3, <1>5, <1>6, StartedGone
<1>8. disk' \subseteq disk /\ Closed(disk') /\ Left(j, ItemRemains(Item), disk')
  BY <1>3, <1>5, <1>6, <1>7
<1> QED BY <1>3, <1>4, <1>7, <1>8, NextJobGone

LEMMA WorkOnItemGone ==
  ASSUME GoneInv, LinkInv, DiskInv, WorkOnItem, UNCHANGED <<lost, run>>
  PROVE  GoneInv'
<1>1. PICK j : j = worker.job
  OBVIOUS
<1>2. PICK step : step = RemoverStep(j)
  OBVIOUS
<1>3. PICK k, G : k = step[1] /\ G = step[2]
  OBVIOUS
<1>4. /\ worker.at = "item" /\ j # NoJob /\ j.at # "done"
      /\ worker' = [worker EXCEPT !.job = k] /\ disk' = disk \ G
  BY <1>1, <1>2, <1>3, Zenon DEF WorkOnItem
<1>5. worker # NoWorker
  BY <1>4 DEF NoWorker
<1>6. IsJob(j)
  BY <1>1, <1>4, <1>5, WorkerTypes DEF IsWorker
<1>7. Closed(disk) /\ Shape(j)
  BY <1>1, <1>4, <1>5 DEF GoneInv, Busy
<1>8. Progresses(j, k, G)
  BY <1>2, <1>3, <1>4, <1>6, <1>7, RemoverGoes
<1>9. lost = {} => Left(k, ItemRemains(Item), disk')
  <2>1. lost = {} => Left(j, ItemRemains(Item), disk)
    BY <1>1, <1>4, <1>5 DEF GoneInv, Busy
  <2> QED BY <1>4, <1>8, <2>1 DEF Progresses
<1>10. Shape(k) /\ disk' \subseteq disk /\ Closed(disk')
  BY <1>4, <1>8 DEF Progresses
<1> QED BY <1>4, <1>5, <1>9, <1>10, NextJobGone

LEMMA FinishRunGone ==
  ASSUME GoneInv, RunInv, FinishRun, UNCHANGED <<discoveryVars, uiVars, worldVars>>
  PROVE  GoneInv'
<1>1. worker' = NoWorker /\ Caught'.report = worker.outcomes /\ worker # NoWorker
  BY FinishRunKeeps
<1>2. UNCHANGED <<disk, lost, run>>
  BY DEF FinishRun, uiVars, worldVars
<1>3. ~Busy' /\ Reported' = Reported
  BY <1>1 DEF Busy, Reported
<1> QED BY <1>2, <1>3 DEF GoneInv

LEMMA WorkerStepGone ==
  ASSUME GoneInv, RunInv, WorkerStep
  PROVE  GoneInv'
<1>1. LinkInv /\ DiskInv
  BY DEF RunInv
<1>2. WorkerSteps /\ UNCHANGED <<discoveryVars, uiVars, worldVars>>
  BY DEF WorkerStep
<1>3. UNCHANGED <<lost, run>>
  BY <1>2 DEF uiVars, worldVars
<1> QED BY <1>1, <1>2, <1>3, SkipItemGone, MoveToTrashGone, StartItemGone, WorkOnItemGone, FinishItemGone,
           FinishRunGone
        DEF WorkerSteps

LEMMA ConfirmRunGone ==
  ASSUME GoneInv, RunInv, OverlayInv, ConfirmRun
  PROVE  GoneInv'
<1>1. worker' # NoWorker
  BY ConfirmRunKeeps
<1>2. worker' = Launch(overlay.action, IF overlay.action = "delete" THEN scenario.mode ELSE "permanent",
                       overlay.plan)
      /\ UNCHANGED <<disk, lost>>
  BY DEF ConfirmRun, Press
<1>3. worker'.job = NoJob /\ worker'.outcomes = <<>>
  BY <1>2 DEF Launch
<1>4. ~Busy' /\ Reported' = <<>>
  BY <1>1, <1>3 DEF Busy, Reported
<1>5. Vouched(<<>>, disk')
  BY DEF Vouched
<1> QED BY <1>2, <1>4, <1>5 DEF GoneInv

LEMMA DismissOperationGone ==
  ASSUME GoneInv, RunInv, DismissOperation
  PROVE  GoneInv'
<1>1. worker = NoWorker
  BY DismissOperationKeeps
<1>2. run' = NoRun /\ UNCHANGED <<disk, worker, lost>>
  BY DEF DismissOperation, Press, removalVars
<1>3. ~Busy'
  BY <1>1, <1>2 DEF Busy
<1> QED BY <1>2, <1>3 DEF GoneInv

LEMMA TickGone ==
  ASSUME GoneInv, RunInv, Tick
  PROVE  GoneInv'
<1>1. UNCHANGED <<disk, worker, lost>>
  BY TickRun
<1>2. run = NoRun => run' = NoRun
  BY TickRun
<1>3. run # NoRun => Caught' = Caught
  BY TickKeepsRun
<1>4. CASE run = NoRun
  <2>1. worker = NoWorker
    BY <1>4 DEF RunInv, LinkInv
  <2>2. ~Busy'
    BY <1>1, <2>1 DEF Busy
  <2> QED BY <1>1, <1>2, <1>4, <2>2 DEF GoneInv
<1>5. CASE run # NoRun
  <2>1. Reported' = Reported
    BY <1>1, <1>3, <1>5 DEF Reported
  <2> QED BY <1>1, <1>5, <2>1, GoneStays
<1> QED BY <1>4, <1>5

LEMMA VanishGone ==
  ASSUME GoneInv, DiskInv, Vanish
  PROVE  GoneInv'
<1>1. PICK e \in scenario.vanishing \cap disk :
        disk' = disk \ Under(e) /\ lost' = lost \cup (Under(e) \cap disk)
  BY DEF Vanish
<1>2. UNCHANGED worker
  BY DEF Vanish
<1>3. lost' # {}
  BY <1>1, UnderUnfolds
<1>4. Closed(disk) /\ disk \in SUBSET Entry
  BY DEF GoneInv, DiskInv
<1>5. Closed(disk')
  BY <1>1, <1>4, CompleteGoes, UnderIsComplete
<1>6. Busy' => Shape(worker'.job)
  BY <1>2 DEF GoneInv, Busy
<1> QED BY <1>3, <1>5, <1>6 DEF GoneInv

LEMMA RemainsComplete ==
  ASSUME NEW plan, NEW I \in SUBSET DOMAIN plan
  PROVE  Complete(UNION {ItemRemains(plan[i]) : i \in I})
<1>1. ASSUME NEW i \in I PROVE Complete(ItemRemains(plan[i]))
  BY UnderIsComplete DEF ItemRemains
<1> QED BY <1>1 DEF Complete

Cleared(gone) ==
  /\ disk' = disk \ gone
  /\ lost' = lost \/ lost' = lost \cup (gone \cap disk)
  /\ run # NoRun => lost' = lost \cup (gone \cap disk)

LEMMA RunForegroundGone ==
  ASSUME GoneInv, RunInv, RunForeground
  PROVE  GoneInv'
<1>1. UNCHANGED <<worker, channel, run>>
  BY Zenon DEF RunForeground
<1>2. PICK plan : plan = foreground.plan
  OBVIOUS
<1> DEFINE Taken(I) == UNION {ItemRemains(foreground.plan[i]) : i \in I}
<1>3. \E I \in SUBSET DOMAIN foreground.plan : Cleared(Taken(I))
  <2>1. \/ /\ disk' = disk \ Taken(DOMAIN foreground.plan)
           /\ lost' = IF run = NoRun THEN lost
                      ELSE lost \cup (Taken(DOMAIN foreground.plan) \cap disk)
        \/ \E done \in SUBSET DOMAIN foreground.plan :
             disk' = disk \ Taken(done) /\ lost' = lost \cup (Taken(done) \cap disk)
    BY Zenon DEF RunForeground
  <2> HIDE DEF Taken
  <2>2. DOMAIN foreground.plan \in SUBSET DOMAIN foreground.plan
    OBVIOUS
  <2>3. CASE /\ disk' = disk \ Taken(DOMAIN foreground.plan)
             /\ lost' = IF run = NoRun THEN lost
                        ELSE lost \cup (Taken(DOMAIN foreground.plan) \cap disk)
    <3>1. Cleared(Taken(DOMAIN foreground.plan))
      BY <2>3 DEF Cleared
    <3> QED BY <2>2, <3>1
  <2>4. ASSUME NEW done \in SUBSET DOMAIN foreground.plan,
               disk' = disk \ Taken(done) /\ lost' = lost \cup (Taken(done) \cap disk)
        PROVE  Cleared(Taken(done))
    BY <2>4 DEF Cleared
  <2> QED BY <2>1, <2>3, <2>4
<1>4. \E I \in SUBSET DOMAIN plan : Cleared(UNION {ItemRemains(plan[i]) : i \in I})
  BY <1>2, <1>3
<1>5. PICK I \in SUBSET DOMAIN plan : Cleared(UNION {ItemRemains(plan[i]) : i \in I})
  BY <1>4
<1>6. PICK gone : gone = UNION {ItemRemains(plan[i]) : i \in I} /\ Cleared(gone)
  BY <1>5
<1>7. Closed(disk) /\ disk \in SUBSET Entry
  BY DEF GoneInv, RunInv, DiskInv
<1>8. Closed(disk')
  <2>1. Complete(gone)
    BY <1>6, RemainsComplete
  <2> QED BY <1>6, <1>7, <2>1, CompleteGoes DEF Cleared
<1>9. Reported' = Reported
  BY <1>1 DEF Reported, Caught
<1>10. CASE run = NoRun
  <2>1. worker = NoWorker
    BY <1>10 DEF RunInv, LinkInv
  <2> QED BY <1>1, <1>8, <1>10, <2>1 DEF GoneInv, Busy
<1>11. CASE run # NoRun /\ gone \cap disk # {}
  <2>1. lost' # {}
    BY <1>6, <1>11 DEF Cleared
  <2> QED BY <1>1, <1>8, <2>1 DEF GoneInv, Busy
<1>12. CASE run # NoRun /\ gone \cap disk = {}
  <2>1. disk' = disk /\ lost' = lost
    BY <1>6, <1>12 DEF Cleared
  <2> QED BY <1>1, <1>9, <1>12, <2>1, GoneStays
<1> QED BY <1>10, <1>11, <1>12

LEMMA InitGone ==
  ASSUME Init
  PROVE  GoneInv
<1>1. disk = Entry /\ worker = NoWorker /\ run = NoRun
  BY DEF Init
<1> QED BY <1>1 DEF GoneInv, Closed, Busy

LEMMA GoneKept ==
  ASSUME OperationsInv, GoneInv, [Next]_vars
  PROVE  GoneInv'
<1>1. RunInv /\ DiskInv /\ OverlayInv
  BY DEF OperationsInv, RunInv
<1>2. CASE UserStep
  <2>1. CASE ConfirmRun
    BY <1>1, <2>1, ConfirmRunGone
  <2>2. CASE DismissOperation
    BY <1>1, <2>2, DismissOperationGone
  <2>3. CASE ~ConfirmRun /\ ~DismissOperation
    <3>1. UNCHANGED <<disk, worker, channel, run, lost>>
      BY <1>2, <2>3
         DEF UserStep, ToggleMark, RequestDeletion, RescanDirectory, RequestCleaning, SelectTargets, RestartCleaner,
             ChangeRules, ConfirmElevation, CloseDialog, RequestCancel, Screen, Press, removalVars, uiVars
    <3>2. Reported' = Reported
      BY <3>1 DEF Reported, Caught
    <3> QED BY <3>1, <3>2, GoneStays
  <2> QED BY <2>1, <2>2, <2>3
<1>3. CASE RunForeground
  BY <1>1, <1>3, RunForegroundGone
<1>4. CASE Tick
  BY <1>1, <1>4, TickGone
<1>5. CASE WorkerStep
  BY <1>1, <1>5, WorkerStepGone
<1>6. CASE Vanish
  BY <1>1, <1>6, VanishGone
<1>7. ASSUME AnswerInventory \/ ReadAgain \/ (\E w \in Scout : ScoutStepOf(w)) \/ UNCHANGED vars
      PROVE  GoneInv'
  <2>1. UNCHANGED <<disk, worker, channel, run, lost>>
    BY <1>7 DEF AnswerInventory, ReadAgain, ScoutStepOf, vars, removalVars, uiVars, worldVars
  <2>2. Reported' = Reported
    BY <2>1 DEF Reported, Caught
  <2> QED BY <2>1, <2>2, GoneStays
<1> QED BY <1>2, <1>3, <1>4, <1>5, <1>6, <1>7 DEF Next

(* What is reported as removed is gone, whichever entries of a tree could  *)
(* not be removed, whenever the run was cancelled, whatever was listed in  *)
(* the meantime.                                                           *)
THEOREM SuccessGone == Spec => []SuccessMeansGone
<1>1. Init => OperationsInv /\ GoneInv
  BY InitIsGood, InitGone
<1>2. OperationsInv /\ GoneInv /\ [Next]_vars => GoneInv'
  BY GoneKept
<1>3. OperationsInv /\ GoneInv => SuccessMeansGone
  <2> SUFFICES ASSUME OperationsInv, GoneInv, Settled, lost = {}, NEW i \in DOMAIN Report,
                      Report[i].status = "removed" /\ Report[i].item.what # "external"
               PROVE  ItemRemains(Report[i].item) \cap disk = {}
    BY DEF SuccessMeansGone
  <2>1. RunInv
    BY DEF OperationsInv, RunInv
  <2>2. run # NoRun /\ Reported = Report
    <3>1. CASE worker.at = "item" /\ worker # NoWorker /\ Report = worker.outcomes
      BY <2>1, <3>1, SettledParts DEF Reported
    <3>2. CASE worker = NoWorker /\ Caught = run /\ Report = run.report
      BY <2>1, <3>2, SettledParts DEF Reported
    <3> QED BY <2>1, <3>1, <3>2, SettledParts
  <2>3. Vouched(Report, disk)
    BY <2>2 DEF GoneInv
  <2> QED BY <2>3 DEF Vouched, GoodOutcome
<1> QED BY <1>1, <1>2, <1>3, OperationsInvariant, PTL DEF Spec

=============================================================================
