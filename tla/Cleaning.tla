------------------------------ MODULE Cleaning ------------------------------
(***************************************************************************)
(* The list of cleaning targets (application/cleaning/cleaning_service.rs):*)
(* the known cache locations, the artifacts a Discovery finds and what     *)
(* Docker reports, with their protection, their selection and the roots    *)
(* of the tree that measure them.                                          *)
(*                                                                         *)
(* The handlers are functions of a record s of the interface thread: the   *)
(* list (s.cleaner), the measuring roots of the tree by path (s.roots),    *)
(* the searches (s.searches), the rules (s.rules) and the enabled          *)
(* categories (s.enabled) of the configuration.                            *)
(***************************************************************************)
EXTENDS Removal, Discovery, FiniteSetsExt, Functions

CONSTANTS
  Known,        \* existing_known_locations and command_locations
  FoundAs,      \* what a discovered directory is listed as
  ImageAs,      \* what an image is listed as
  Images,       \* the images Docker lists
  Prunes,       \* the prunes it offers
  NoPath

(* A target has a category, with the categories that are selected by       *)
(* default marked as such, a way to clean it, and a path or none.          *)
Target == {FoundAs, ImageAs} \cup ToSet(Known) \cup ToSet(Prunes)
Way == {"path", "contents", "external"}
ASSUME TargetAssumption ==
  /\ \A k \in Target :
       /\ k = [category |-> k.category, what |-> k.what, path |-> k.path, default |-> k.default]
       /\ k.default \in BOOLEAN /\ k.what \in Way
       /\ k.what = "external" => k.path = NoPath
  /\ \A k \in ToSet(Known) : k.what # "external" => k.path \in Entry
  /\ FoundAs.what # "external" /\ ImageAs.what = "external"
  /\ \A k \in ToSet(Prunes) : k.what = "external"
  /\ Known \in Seq(ToSet(Known)) /\ Prunes \in Seq(ToSet(Prunes))
  /\ Images \in Seq(ToSet(Images)) /\ Distinct(Images)
  /\ NoPath \notin Entry \cup ToSet(Images) /\ ToSet(Images) \cap Entry = {}
  /\ Place \subseteq Entry

EmptyList ==
  [candidates |-> <<>>, next |-> 1, known |-> {}, search |-> NoSearch, docker |-> "disabled"]

(* protecting_path_rule: the path or a directory above it is protected. *)
Protects(rules, path) == \E r \in rules : path \in Under(r)

Candidate(c, k, size, protected) ==
  [id |-> c.next, category |-> k.category, what |-> k.what, path |-> k.path, size |-> size,
   protected |-> protected, selected |-> k.default /\ ~protected, node |-> k.path # NoPath]

WithCandidate(c, x) == [c EXCEPT !.candidates = Append(@, x), !.next = @ + 1]

(* start_root_scan: a path that is a root already keeps its root. *)
MeasureRoot(roots, path) ==
  IF path = NoPath \/ path \in DOMAIN roots THEN roots
  ELSE [p \in DOMAIN roots \cup {path} |->
          IF p = path THEN [counted |-> {}, busy |-> TRUE] ELSE roots[p]]

(* variant: what was found before is listed again. *)
ListedTwice(s, k) ==
  [s EXCEPT !.cleaner = WithCandidate([s.cleaner EXCEPT !.known = @ \cup {k.path}],
                           Candidate(s.cleaner, k, 0, Protects(s.rules, k.path))),
            !.roots = MeasureRoot(@, k.path)]

(* variant: what is protected is selected like the rest of its category. *)
SelectAnyway(s, k) ==
  IF k.path # NoPath /\ k.path \in s.cleaner.known THEN s
  ELSE [s EXCEPT !.cleaner = WithCandidate([s.cleaner EXCEPT !.known = @ \cup {k.path}],
                   [Candidate(s.cleaner, k, 0, Protects(s.rules, k.path))
                      EXCEPT !.selected = k.default]),
                 !.roots = MeasureRoot(@, k.path)]

(* add_known, and update for what was discovered. *)
AddCandidate(s, k) ==
  IF k.path # NoPath /\ k.path \in s.cleaner.known THEN s
  ELSE [s EXCEPT !.cleaner = WithCandidate([s.cleaner EXCEPT !.known = @ \cup ({k.path} \ {NoPath})],
                   Candidate(s.cleaner, k, 0, k.path # NoPath /\ Protects(s.rules, k.path))),
                 !.roots = MeasureRoot(@, k.path)]

(* forget_measurements: the roots go, whether their directories exist or   *)
(* not.                                                                    *)
MeasuredPaths(c) == {c.candidates[i].path : i \in {k \in DOMAIN c.candidates : c.candidates[k].node}}
ForgetMeasurements(s) ==
  [s EXCEPT !.roots = [p \in DOMAIN @ \ MeasuredPaths(s.cleaner) |-> @[p]]]

(* begin, for the enabled categories.  A search that is under way goes on, *)
(* unheard; so does Docker's answer.                                       *)
Begin(s) ==
  LET known == FoldLeft(AddCandidate, [ForgetMeasurements(s) EXCEPT !.cleaner = EmptyList],
                        Retain(Known, {k \in Elements(Known) : /\ k.category \in s.enabled
                                                               /\ k.path \in disk \cup {NoPath}}))
      listed == [known EXCEPT !.cleaner.docker =
                   IF \E k \in {ImageAs} \cup ToSet(Prunes) : k.category \in s.enabled
                   THEN "checking" ELSE "disabled"]
  IN  IF FoundAs.category \notin s.enabled THEN listed
      ELSE [listed EXCEPT !.cleaner.search = s.searches.next,
                          !.searches = StartDiscovery(s.searches)]

(* absorb_docker_inventory: an image is protected when a container uses it *)
(* (of the images whose use could be asked for) or when a rule names it.   *)
AddImage(s, image, used) ==
  [s EXCEPT !.cleaner = WithCandidate(@,
     [Candidate(@, ImageAs, 1, image \in used \cup s.rules) EXCEPT !.path = image])]
AbsorbInventory(s, inventory) ==
  IF s.cleaner.docker # "checking" \/ inventory.status = "pending" THEN s
  ELSE IF inventory.status = "unavailable" THEN [s EXCEPT !.cleaner.docker = "unavailable"]
  ELSE LET images == IF ImageAs.category \in s.enabled THEN Images ELSE <<>>
           listed == FoldLeft(LAMBDA t, i : AddImage(t, i, inventory.used),
                              [s EXCEPT !.cleaner.docker = "available"], images)
       IN  FoldLeft(AddCandidate, listed,
                    Retain(Prunes, {k \in Elements(Prunes) : k.category \in s.enabled}))

(* update: new discoveries, what Docker answered, and the sizes of the     *)
(* roots that are still there.                                             *)
Measured(roots, x) ==
  IF x.node /\ x.path \in DOMAIN roots
  THEN [x EXCEPT !.size = MapThenSumSet(LAMBDA e : Weight[e], roots[x.path].counted)] ELSE x
Sized(s) ==
  [s EXCEPT !.cleaner.candidates = [i \in DOMAIN @ |-> Measured(s.roots, @[i])]]
Update(s, inventory) ==
  LET q == s.cleaner.search
      fresh == Fresh(s.searches, q)
      found == FoldLeft(AddCandidate, [s EXCEPT !.searches = TakeDiscovered(s.searches, q)],
                        [i \in DOMAIN fresh |-> [FoundAs EXCEPT !.path = fresh[i]]])
  IN  Sized(AbsorbInventory(found, inventory))

-----------------------------------------------------------------------------
(* Selection. *)

WithSelection(c, ids, on) ==
  LET select(x) == IF x.id \in ids /\ ~x.protected THEN [x EXCEPT !.selected = on] ELSE x
  IN  [c EXCEPT !.candidates = [i \in DOMAIN @ |-> select(@[i])]]

Ids(c) == {c.candidates[i].id : i \in DOMAIN c.candidates}
SelectedIds(c) == {c.candidates[i].id : i \in {k \in DOMAIN c.candidates : c.candidates[k].selected}}
Toggle(c, id) == WithSelection(c, {id}, id \notin SelectedIds(c))
SetAll(c, on) == WithSelection(c, Ids(c), on)
ToggleCategory(c, category) ==
  LET of == {i \in DOMAIN c.candidates : c.candidates[i].category = category}
      any == \E i \in of : c.candidates[i].selected
  IN  WithSelection(c, {c.candidates[i].id : i \in of}, ~any)

(* from_actionable *)
Actionable(c) == Retain(c.candidates, {x \in Elements(c.candidates) : x.selected /\ ~x.protected})

EverySelected(c) == Actionable(c)                                 \* variant
(* build_plan: of nested paths only the outermost stays. *)
BuildPlan(c) ==
  LET actionable == Actionable(c)
      paths == {actionable[i].path : i \in {k \in DOMAIN actionable : actionable[k].what # "external"}}
  IN  Retain(actionable, {x \in Elements(actionable) :
        x.what = "external" \/ ~\E p \in paths \ {x.path} : x.path \in Under(p)})

(* absorb_report: what was cleaned leaves the list and the tree, what was  *)
(* removed in part is measured again.                                      *)
AbsorbReport(s, outcomes) ==
  LET cleaned == {outcomes[i].item.id : i \in {k \in DOMAIN outcomes : outcomes[k].status = "removed"}}
      partly == {outcomes[i].item.id : i \in {k \in DOMAIN outcomes :
                   outcomes[k].status # "removed" /\ outcomes[k].entries > 0}}
      PathsOf(ids) == {s.cleaner.candidates[i].path :
                         i \in {k \in DOMAIN s.cleaner.candidates :
                                  s.cleaner.candidates[k].node /\ s.cleaner.candidates[k].id \in ids}}
  IN  [s EXCEPT !.roots = [p \in DOMAIN @ \ PathsOf(cleaned) |->
                             IF p \in PathsOf(partly) THEN [counted |-> {}, busy |-> TRUE] ELSE @[p]],
                !.cleaner.candidates = Retain(@, {x \in Elements(@) : x.id \notin cleaned})]

-----------------------------------------------------------------------------
(* Properties, of the list. *)

(* No target is listed twice: a path is measured, shown and cleaned once,  *)
(* however often it is found, by the known locations and by a search with  *)
(* nested roots.                                                           *)
Unique(c) ==
  \A i, j \in DOMAIN c.candidates : i # j =>
    /\ c.candidates[i].id # c.candidates[j].id
    /\ c.candidates[i].path # NoPath => c.candidates[i].path # c.candidates[j].path

(* A plan covers exactly what is selected, no item of it lies inside       *)
(* another, and none is protected.                                         *)
PlanCoversSelection(c) ==
  LET plan == BuildPlan(c)
      paths == {plan[i].path : i \in {k \in DOMAIN plan : plan[k].what # "external"}}
  IN  /\ \A p, q \in paths : p \in Under(q) => p = q
      /\ \A i \in DOMAIN c.candidates :
           c.candidates[i].selected =>
             /\ ~c.candidates[i].protected
             /\ \/ \E k \in DOMAIN plan : plan[k].id = c.candidates[i].id
                \/ c.candidates[i].what # "external" /\ \E p \in paths : c.candidates[i].path \in Under(p)
=============================================================================
