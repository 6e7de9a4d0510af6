------------------------------ MODULE Ancestry ------------------------------
(***************************************************************************)
(* The ways up and down in a tree T, a function from its live nodes to     *)
(* records with a parent (FileTree::root_of, ancestors, descendants).      *)
(***************************************************************************)

(* The live nodes on the way from n, itself included, up to its root. *)
Line(T, n) ==
  LET line[m \in DOMAIN T] ==
        {m} \cup (IF T[m].parent \in DOMAIN T THEN line[T[m].parent] ELSE {})
  IN  IF n \in DOMAIN T THEN line[n] ELSE {}

Subtree(T, n) == {m \in DOMAIN T : n \in Line(T, m)}
=============================================================================
