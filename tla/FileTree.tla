------------------------------ MODULE FileTree ------------------------------
(***************************************************************************)
(* domain/storage/file_tree.rs and tree_node.rs: the aggregated tree of    *)
(* directories, as operators from a tree to the tree an operation leaves.  *)
(*                                                                         *)
(* A tree T is a function from the ids of its live nodes to their records. *)
(* Ids come from a monotonic allocator and are never reused; here an id is *)
(* a directory with a serial number, so path_of(id) is id.dir as long as   *)
(* the node is live.  A node without parent is an entry of roots; the list *)
(* of children is read off the parents.  Counts of files and directories   *)
(* travel the same way as the sizes and are left out.                      *)
(***************************************************************************)
EXTENDS Ancestry, Naturals, FiniteSets, FiniteSetsExt, Functions

CONSTANTS
  Below,        \* the directories whose path starts with a directory's
  NoNode        \* Option::None of a node id

NewNode(parent, depth) ==
  [parent |-> parent, purpose |-> "none", depth |-> depth, own |-> 0, total |-> 0,
   work |-> 1, gen |-> 0, dense |-> FALSE, lazy |-> FALSE, boundary |-> FALSE]

Children(T, n) == {m \in DOMAIN T : T[m].parent = n}
Roots(T) == {n \in DOMAIN T : T[n].parent = NoNode}
Complete(T, n) == T[n].work = 0
Totals(T) == [n \in DOMAIN T |-> T[n].total]

(* NodeRef: an id with the generation it had when the reference was taken. *)
Reference(T, n) == [id |-> n, gen |-> T[n].gen]
IsCurrentAnyGeneration(T, ref) ==    \* variant: the generation is not compared
  ref.id \in DOMAIN T
IsCurrent(T, ref) == ref.id \in DOMAIN T /\ T[ref.id].gen = ref.gen

-----------------------------------------------------------------------------
(* Sizes and outstanding work. *)

Minus(a, b) == IF a >= b THEN a - b ELSE 0      \* saturating_sub

PropagateTotals(T, n, size) ==
  [m \in DOMAIN T |->
     IF m \in Line(T, n) THEN [T[m] EXCEPT !.total = @ + size] ELSE T[m]]

SubtractFromAncestors(T, n, size) ==
  [m \in DOMAIN T |->
     IF m \in Line(T, n) THEN [T[m] EXCEPT !.total = Minus(@, size)] ELSE T[m]]

AddOutstandingWork(T, n, units) ==
  [m \in DOMAIN T |-> IF m = n THEN [T[m] EXCEPT !.work = @ + units] ELSE T[m]]

(* One unit of n is done; completion bubbles up through every node that    *)
(* has nothing else pending.                                               *)
FinishWorkUnitHere(T, n) ==     \* variant: completion does not bubble up
  [m \in DOMAIN T |-> IF m = n THEN [T[m] EXCEPT !.work = Minus(@, 1)] ELSE T[m]]
FinishWorkUnit(T, n) ==
  LET line == Line(T, n)
      reached == {m \in line : \A x \in line \ Line(T, m) : T[x].work <= 1}
  IN  [m \in DOMAIN T |->
         IF m \in reached THEN [T[m] EXCEPT !.work = Minus(@, 1)] ELSE T[m]]

(* A completed child of n is pending again: so is every ancestor that had  *)
(* nothing else pending.                                                   *)
ReopenAncestorsOnce(T, n) ==    \* variant: only the parent is reopened
  [m \in DOMAIN T |-> IF m = n THEN [T[m] EXCEPT !.work = @ + 1] ELSE T[m]]
ReopenAncestors(T, n) ==
  LET line == Line(T, n)
      reached == {m \in line : \A x \in line \ Line(T, m) : T[x].work = 0}
  IN  [m \in DOMAIN T |->
         IF m \in reached THEN [T[m] EXCEPT !.work = @ + 1] ELSE T[m]]

(* record_measurement: what one listing task learned about n. *)
RecordMeasurement(T, n, size, dense, lazy) ==
  PropagateTotals(
    [m \in DOMAIN T |->
       IF m = n THEN [T[m] EXCEPT !.own = @ + size, !.dense = @ \/ dense, !.lazy = @ \/ lazy]
                ELSE T[m]],
    n, size)

-----------------------------------------------------------------------------
(* Structure. *)

InsertRoot(T, n, purpose) ==
  [m \in DOMAIN T \cup {n} |->
     IF m = n THEN [NewNode(NoNode, 0) EXCEPT !.purpose = purpose] ELSE T[m]]

InsertChildren(T, p, ids) ==
  [m \in DOMAIN T \cup ids |->
     IF m \in ids THEN NewNode(p, T[p].depth + 1)
     ELSE IF m = p THEN [T[m] EXCEPT !.work = @ + Cardinality(ids)]
     ELSE T[m]]

InsertBoundaryChildren(T, p, ids) ==
  [m \in DOMAIN T \cup ids |->
     IF m \in ids
     THEN [NewNode(p, T[p].depth + 1) EXCEPT !.work = 0, !.boundary = TRUE]
     ELSE T[m]]

(* The roots in R become children of p, with everything known about them: *)
(* graft_root for one after the other.                                     *)
GraftRootsWithoutTotals(T, R, p) ==    \* variant: the sizes are not passed on
  [m \in DOMAIN T |->
     IF m \in R THEN [T[m] EXCEPT !.parent = p, !.depth = T[p].depth + 1]
     ELSE IF m = p
     THEN [T[m] EXCEPT !.work = @ + Cardinality({r \in R : ~Complete(T, r)})]
     ELSE T[m]]
GraftRoots(T, R, p) ==
  LET below == UNION {Subtree(T, r) : r \in R}
      joined ==
        [m \in DOMAIN T |->
           CASE m \in R -> [T[m] EXCEPT !.parent = p, !.depth = T[p].depth + 1]
             [] m \in below \ R -> [T[m] EXCEPT !.depth = @ + T[p].depth + 1]
             [] m = p ->
                  [T[m] EXCEPT !.work = @ + Cardinality({r \in R : ~Complete(T, r)})]
             [] OTHER -> T[m]]
  IN  PropagateTotals(joined, p, SumFunctionOnSet(Totals(T), R))

(* Forget n and its descendants; n is pending again, as a new generation. *)
ResetForRescan(T, n) ==
  LET parent == T[n].parent
      kept == DOMAIN T \ (Subtree(T, n) \ {n})
      cleared ==
        [m \in kept |->
           IF m = n
           THEN [T[n] EXCEPT !.own = 0, !.total = 0, !.work = 1, !.gen = @ + 1,
                             !.dense = FALSE, !.lazy = FALSE, !.boundary = FALSE]
           ELSE T[m]]
      shrunk == SubtractFromAncestors(cleared, parent, T[n].total)
  IN  IF Complete(T, n) THEN ReopenAncestors(shrunk, parent) ELSE shrunk

RemoveSubtree(T, n) ==
  LET parent == T[n].parent
      shrunk == SubtractFromAncestors(T, parent, T[n].total)
      cut == [m \in DOMAIN T \ Subtree(T, n) |-> shrunk[m]]
  IN  IF parent # NoNode /\ ~Complete(T, n) THEN FinishWorkUnit(cut, parent) ELSE cut

-----------------------------------------------------------------------------
(* Lookup by path. *)

RootAt(T, d) == {r \in Roots(T) : r.dir = d}

(* locate: the node for exactly d in the tree of the deepest root above d. *)
Located(T, d) ==
  LET above == {r \in Roots(T) : d \in Below[r.dir]}
      deepest == {r \in above : \A q \in above : r.dir \in Below[q.dir]}
  IN  {m \in DOMAIN T : m.dir = d /\ Line(T, m) \cap deepest # {}}
=============================================================================
