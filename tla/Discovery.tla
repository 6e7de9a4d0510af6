----------------------------- MODULE Discovery ------------------------------
(***************************************************************************)
(* The search for project artifacts below the user's directories: the      *)
(* searches of the TreeCoordinator, the Discover tasks and the workers     *)
(* that execute them (ScanWorker::discover), under the DiscoveryRules.     *)
(*                                                                         *)
(* A search counts the tasks that have not reported (outstanding) and is   *)
(* finished when none is left.  What was found is handed out once, in the  *)
(* order of arrival (take_discovered).                                     *)
(***************************************************************************)
EXTENDS Naturals, Sequences, FiniteSets, SequencesExt

CONSTANTS
  Place,         \* directories
  Subplaces,     \* the directories directly inside each
  Matching,      \* those whose name matches a rule
  Evident,       \* those with the file the rule asks for, inside or beside them
  NeverEnter,    \* those whose name is in NEVER_DESCEND
  Excluded,      \* excluded paths and what is below them
  DiscoveryRoots,\* AppConfig::discovery_roots
  DiscoveryDepth,\* discovery_max_depth
  Scout          \* scanner threads

VARIABLES
  searches,      \* the coordinator's searches and the queued tasks
  scout,         \* what each thread does
  finds          \* the events on their way to the coordinator

discoveryVars == <<searches, scout, finds>>

ASSUME DiscoveryAssumption ==
  /\ IsFiniteSet(Place) /\ Subplaces \in [Place -> SUBSET Place]
  /\ \A p, q \in Place : p # q => Subplaces[p] \cap Subplaces[q] = {}
  /\ ToSet(DiscoveryRoots) \subseteq Place
  /\ DiscoveryDepth \in Nat

NoSearch == 0
NoSearches == [known |-> <<>>, next |-> 1, tasks |-> {}]

-----------------------------------------------------------------------------
(* The coordinator, on the interface thread. *)

StartDiscovery(s) ==
  LET roots == ToSet(DiscoveryRoots) \ Excluded
      search == [found |-> <<>>, consumed |-> 0, outstanding |-> Cardinality(roots),
                 finished |-> roots = {}]
  IN  [known |-> [q \in DOMAIN s.known \cup {s.next} |->
                    IF q = s.next THEN search ELSE s.known[q]],
       next |-> s.next + 1,
       tasks |-> s.tasks \cup {[search |-> s.next, place |-> r, origin |-> r, depth |-> 0] :
                                 r \in roots}]

Fresh(s, q) ==
  IF q \notin DOMAIN s.known THEN <<>>
  ELSE SubSeq(s.known[q].found, s.known[q].consumed + 1, Len(s.known[q].found))
TakeDiscovered(s, q) ==
  IF q \notin DOMAIN s.known THEN s
  ELSE [s EXCEPT !.known[q].consumed = Len(s.known[q].found)]

(* variant: the tasks a report announces are not counted. *)
ApplyDiscoveryBlindly(s, e) ==
  LET q == s.known[e.search]
      left == IF q.outstanding = 0 THEN 0 ELSE q.outstanding - 1
  IN  [s EXCEPT !.known[e.search] =
         [q EXCEPT !.found = @ \o e.found, !.outstanding = left, !.finished = @ \/ left = 0]]

ApplyDiscoveryProgress(s, e) ==
  IF e.search \notin DOMAIN s.known THEN s
  ELSE LET q == s.known[e.search]
           left == IF q.outstanding + e.spawned = 0 THEN 0 ELSE q.outstanding + e.spawned - 1
       IN  [s EXCEPT !.known[e.search] =
              [q EXCEPT !.found = @ \o e.found, !.outstanding = left,
                        !.finished = @ \/ left = 0]]

-----------------------------------------------------------------------------
(* The scanner threads. *)

AtRest == [at |-> "rest"]

(* verify, for a name that matches *)
Verified(p) == p \in Evident
Accepted(p) == {d \in Subplaces[p] \cap Matching : d \notin Excluded /\ Verified(d)}

(* Directories with another name, and matches without evidence. *)
ShouldDescendInto(d) == d \notin NeverEnter
Descended(p, depth) ==
  IF depth + 1 > DiscoveryDepth THEN {}
  ELSE {d \in Subplaces[p] \ (Accepted(p) \cup Excluded) : ShouldDescendInto(d)}

TakeDiscovery(w) ==
  /\ scout[w] = AtRest
  /\ \E t \in searches.tasks :
       /\ searches' = [searches EXCEPT !.tasks = @ \ {t}]
       /\ scout' = [scout EXCEPT ![w] = [at |-> "read", task |-> t]]
  /\ UNCHANGED finds

Children(t) == {[t EXCEPT !.place = d, !.depth = @ + 1] : d \in Descended(t.place, t.depth)}

(* discover: the report is emitted first, the tasks are pushed afterwards. *)
Discover(w) ==
  /\ scout[w].at = "read"
  /\ LET t == scout[w].task
     IN  /\ finds' = Append(finds, [search |-> t.search, found |-> SetToSeq(Accepted(t.place)),
                                    spawned |-> Cardinality(Children(t))])
         /\ scout' = [scout EXCEPT ![w] = IF Children(t) = {} THEN AtRest
                                          ELSE [at |-> "push", tasks |-> Children(t)]]
  /\ UNCHANGED searches

PushDiscoveries(w) ==
  /\ scout[w].at = "push"
  /\ searches' = [searches EXCEPT !.tasks = @ \cup scout[w].tasks]
  /\ scout' = [scout EXCEPT ![w] = AtRest]
  /\ UNCHANGED finds

ScoutStep(w) == TakeDiscovery(w) \/ Discover(w) \/ PushDiscoveries(w)

DiscoveryInit ==
  searches = NoSearches /\ scout = [w \in Scout |-> AtRest] /\ finds = <<>>

-----------------------------------------------------------------------------
(* Properties. *)

(* The places a search from r enters, with their depth. *)
Walked(r) ==
  LET step[n \in 0 .. DiscoveryDepth] ==
        IF n = 0 THEN {r} ELSE UNION {Descended(p, n - 1) : p \in step[n - 1]}
  IN  UNION {step[n] : n \in 0 .. DiscoveryDepth}

(* A finished search has found every artifact below its roots that the     *)
(* rules accept, and nothing inside one, an excluded path or a directory   *)
(* that is never entered, whatever order the workers report in.            *)
FinishedMeansAllFound ==
  \A q \in DOMAIN searches.known :
    LET s == searches.known[q]
        all == UNION {Accepted(p) : p \in UNION {Walked(r) : r \in ToSet(DiscoveryRoots) \ Excluded}}
    IN  /\ ToSet(s.found) \subseteq all
        /\ s.finished => ToSet(s.found) = all
        /\ s.consumed <= Len(s.found)
=============================================================================
