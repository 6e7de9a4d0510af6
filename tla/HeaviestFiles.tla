--------------------------- MODULE HeaviestFiles ----------------------------
(***************************************************************************)
(* domain/storage/heaviest_files.rs: the collection that keeps the limit   *)
(* largest of the files offered to it.                                     *)
(*                                                                         *)
(* The heap is represented by the order in which it is read: largest       *)
(* first, and of two files of one size the one offered earlier first       *)
(* (Ranked::cmp).  Its root, the smallest file kept, is the last member.   *)
(* A file is a record with a field size; its size mode is chosen already.  *)
(***************************************************************************)
EXTENDS Naturals, Sequences, SequencesExt, FiniteSets

NewHeap(limit) == [limit |-> IF limit = 0 THEN 1 ELSE limit, kept |-> <<>>]

IsFull(h) == Len(h.kept) >= h.limit
SmallestKept(h) == h.kept[Len(h.kept)].size

(* offer: a file that is no larger than the smallest one kept is dropped   *)
(* once the collection is full, otherwise it takes that one's place.       *)
Offer(h, f) ==
  IF IsFull(h) /\ f.size <= SmallestKept(h) THEN h
  ELSE LET kept == IF IsFull(h) THEN Front(h.kept) ELSE h.kept
           ahead == Cardinality({i \in DOMAIN kept : kept[i].size >= f.size})
       IN  [h EXCEPT !.kept = InsertAt(kept, ahead + 1, f)]

Merge(h, files) == FoldLeft(Offer, h, files)
=============================================================================
