---------------------------- MODULE MCScanEngine ----------------------------
(* A directory tree with a root and two branches, one measurement of the   *)
(* root that spawns those of the branches, one file listing and one step   *)
(* of a discovery search.                                                  *)
EXTENDS ScanEngine

CONSTANTS top, left, right, mTop, mLeft, mRight, listing, search, s1, noWalk

MCPath == {top, left, right}
MCTask == {mTop, mLeft, mRight, listing, search}
MCPathOf ==
  [t \in MCTask |-> CASE t = mTop -> top
                      [] t \in {mLeft, listing} -> left
                      [] OTHER -> right]
MCBelow == [p \in MCPath |-> IF p = top THEN MCPath ELSE {p}]
MCUrgent == {listing}
MCMeasure == {mTop, mLeft, mRight}
MCWalk == [t \in MCTask |-> IF t = search THEN s1 ELSE noWalk]
MCChildren == [t \in MCTask |-> IF t = mTop THEN <<mLeft, mRight>> ELSE <<>>]
MCRequests == {mTop, listing, search}
MCSmallRequests == {mTop}
AllOps == {"focus", "pause", "discard", "workers", "shutdown"}
QuietOps == {"focus"}
=============================================================================
