------------------------------- MODULE Lists --------------------------------
(***************************************************************************)
(* The operations on vectors and queues that the code uses, defined        *)
(* without recursion so that theorems can be proved about them.            *)
(***************************************************************************)
EXTENDS Naturals, Sequences, FiniteSets

(* The members of a sequence. *)
Elements(s) == {s[i] : i \in DOMAIN s}

(* No member occurs twice. *)
Distinct(s) == \A i, j \in DOMAIN s : s[i] = s[j] => i = j

(* The position of k when the numbers in K are counted upwards. *)
RankIn(K, k) == Cardinality({j \in K : j <= k})

(* The members of s that lie in X, in the order of s: Vec::retain, and     *)
(* what a filter followed by pushes leaves.                                *)
Retain(s, X) ==
  LET K == {i \in DOMAIN s : s[i] \in X}
  IN  [n \in 1 .. Cardinality(K) |-> s[CHOOSE k \in K : RankIn(K, k) = n]]
=============================================================================
