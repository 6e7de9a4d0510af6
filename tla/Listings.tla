------------------------------ MODULE Listings ------------------------------
(***************************************************************************)
(* The files directly inside a directory, listed when the user looks at    *)
(* it: the cache of the TreeCoordinator (at most Capacity directories,     *)
(* first in first out), the ListFiles tasks and the workers that execute   *)
(* them.                                                                   *)
(*                                                                         *)
(* A listing is asked for with a number, the request; only the answer to   *)
(* the latest request for an entry that still exists is kept.  The tree    *)
(* is a function from the live nodes to records with their generation.     *)
(***************************************************************************)
EXTENDS HeaviestFiles, FiniteSets, Lists

CONSTANTS
  Capacity,     \* LISTING_CACHE_CAPACITY
  ListingLimit, \* ScanPolicy::file_listing_limit
  Lister,       \* scanner threads
  NoListing     \* Option::None of a listing

ASSUME ListingAssumption == Capacity \in Nat \ {0} /\ ListingLimit \in Nat

VARIABLES
  cache,        \* entries per node, their order of arrival, the queued tasks
  lister,       \* what each thread does
  answers       \* the events on their way to the coordinator

listingVars == <<cache, lister, answers>>

NoRequest == 0
NewEntry == [listing |-> NoListing, pending |-> NoRequest]
EmptyCache == [entries |-> <<>>, order |-> <<>>, next |-> 1, queue |-> {}]

-----------------------------------------------------------------------------
(* The coordinator, on the interface thread. *)

(* One node arrives at a time, so at most one leaves. *)
RememberListing(c, n) ==
  LET order == Append(c.order, n)
      full == Len(order) > Capacity
  IN  IF n \in DOMAIN c.entries THEN c
      ELSE [c EXCEPT !.order = IF full THEN Tail(order) ELSE order,
                     !.entries = [m \in DOMAIN c.entries \ (IF full THEN {order[1]} ELSE {})
                                    |-> c.entries[m]]]

(* A known or expected listing is not asked for again, unless forced.      *)
RequestFileListing(c, tree, n, force) ==
  LET known == /\ n \in DOMAIN c.entries
               /\ c.entries[n].listing # NoListing \/ c.entries[n].pending # NoRequest
      r == RememberListing(c, n)
      entry == IF n \in DOMAIN r.entries THEN r.entries[n] ELSE NewEntry
  IN  IF n \notin DOMAIN tree \/ (known /\ ~force) THEN c
      ELSE [r EXCEPT !.entries = [m \in DOMAIN r.entries \cup {n} |->
                                    IF m = n THEN [entry EXCEPT !.pending = c.next]
                                    ELSE r.entries[m]],
                     !.next = c.next + 1,
                     !.queue = r.queue \cup
                        {[node |-> n, gen |-> tree[n].gen, request |-> c.next]}]

InvalidateNothing(c, n) == c                                      \* variant
InvalidateEntry(c, n) ==                                          \* variant
  [c EXCEPT !.entries = [m \in DOMAIN c.entries \ {n} |-> c.entries[m]]]
InvalidateListing(c, n) ==
  [c EXCEPT !.entries = [m \in DOMAIN c.entries \ {n} |-> c.entries[m]],
            !.order = Retain(c.order, Elements(c.order) \ {n})]

ForgetListingsOfMissingNodes(c, tree) ==
  [c EXCEPT !.entries = [m \in DOMAIN c.entries \cap DOMAIN tree |-> c.entries[m]],
            !.order = Retain(c.order, DOMAIN tree)]

ApplyFileListing(c, tree, e) ==
  IF \/ e.node \notin DOMAIN tree
     \/ tree[e.node].gen # e.gen
     \/ e.node \notin DOMAIN c.entries
     \/ c.entries[e.node].pending # e.request
  THEN c
  ELSE [c EXCEPT !.entries[e.node] = [listing |-> e.listing, pending |-> NoRequest]]

-----------------------------------------------------------------------------
(* The scanner threads.  A thread reads the directory (its files are what  *)
(* filesNow holds), and emits what it found some time later.               *)

Waiting == [at |-> "wait"]

(* A listing is the sequence of the largest files. *)
ListingOf(files) == Merge(NewHeap(ListingLimit), files).kept

ListFiles(w, filesNow) ==
  /\ lister[w] = Waiting
  /\ \E t \in cache.queue :
       /\ cache' = [cache EXCEPT !.queue = @ \ {t}]
       /\ lister' = [lister EXCEPT ![w] =
                       [at |-> "read", node |-> t.node, gen |-> t.gen, request |-> t.request,
                        listing |-> ListingOf(filesNow[t.node.dir])]]
  /\ UNCHANGED answers

EmitIfAny(w) ==                                                   \* variant
  /\ lister[w] # Waiting
  /\ answers' = IF lister[w].listing = <<>> THEN answers ELSE Append(answers, lister[w])
  /\ lister' = [lister EXCEPT ![w] = Waiting]
  /\ UNCHANGED cache
EmitListing(w) ==
  /\ lister[w] # Waiting
  /\ answers' = Append(answers, lister[w])
  /\ lister' = [lister EXCEPT ![w] = Waiting]
  /\ UNCHANGED cache

ListingInit == cache = EmptyCache /\ lister = [w \in Lister |-> Waiting] /\ answers = <<>>

-----------------------------------------------------------------------------
(* Properties. *)

(* The order names exactly the cached directories, each once, and no more  *)
(* than fit: what is evicted, invalidated or forgotten leaves both the map *)
(* and the queue (remember_listing, invalidate_listing and                 *)
(* forget_listings_of_missing_nodes keep two structures in step).          *)
CacheInOrder ==
  /\ DOMAIN cache.entries = Elements(cache.order)
  /\ Distinct(cache.order)
  /\ Len(cache.order) <= Capacity
=============================================================================
