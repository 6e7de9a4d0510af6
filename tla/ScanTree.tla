------------------------------ MODULE ScanTree ------------------------------
(***************************************************************************)
(* The measurement of directory trees: TreeCoordinator, which owns the     *)
(* tree and runs on the interface thread, the worker threads that list     *)
(* directories (ScanWorker::measure_directory), the event channel between  *)
(* them, and the deletion that changes the disk under both.                *)
(*                                                                         *)
(* The task queue is TaskPool: a set any worker may take from (TaskQueue   *)
(* and ScanEngine implement it).  A worker works in three steps that the   *)
(* other threads can come between: it takes a task together with a         *)
(* snapshot of the settings; it lists the directory and emits one event;   *)
(* it pushes the tasks of the subdirectories.                              *)
(***************************************************************************)
EXTENDS FileTree, Sequences, SequencesExt

CONSTANTS
  Dir,              \* the directories
  Top,              \* the directory of the first root
  Subdirs,          \* the subdirectories of each directory
  PathRank,         \* the order of paths (BTreeMap<PathBuf, _>)
  FileBytes,        \* the bytes of the singly linked files of each directory
  Links,            \* the inodes of its files with several hard links
  Unreadable,       \* directories that cannot be opened
  Skipped,          \* skip paths and mount points
  DenseDirs,        \* directories with too many entries
  MaterializeDepth, \* levels below the origin of a scan that become nodes
  MaxDepth,         \* levels below a root that are visited at all
  Worker,           \* the scanner threads
  Scenarios,        \* what a user may do, how often (a bound), and on which
                    \* disk; a behaviour keeps to one of them
  MaxMarks          \* bound: items marked at a time

Operations == {"rescan", "expand", "enter", "open", "measure", "mark"}

ASSUME ScanTreeAssumption ==
  /\ Subdirs \in [Dir -> SUBSET Dir] /\ Below \in [Dir -> SUBSET Dir]
  /\ PathRank \in [Dir -> Nat] /\ FileBytes \in [Dir -> Nat]
  /\ \A d \in Dir : \A e \in Subdirs[d] : PathRank[d] < PathRank[e]
  /\ IsFiniteSet(Dir) /\ \A d \in Dir : IsFiniteSet(Links[d])
  /\ NoNode \notin [dir : Dir, nr : Nat]
  /\ Top \in Dir /\ Unreadable \subseteq Dir /\ Skipped \subseteq Dir
  /\ DenseDirs \subseteq Dir
  /\ MaterializeDepth \in Nat \ {0} /\ MaxDepth \in Nat \ {0}
  /\ \A s \in Scenarios :
       s.may \subseteq Operations /\ s.times \in Nat /\ Top \in s.disk /\ s.disk \subseteq Dir
  /\ MaxMarks \in Nat

VARIABLES
  tree,         \* FileTree
  queue,        \* the measurement tasks that wait
  worker,       \* what each scanner thread is doing
  events,       \* the channel from the workers to the coordinator
  grafts,       \* ScanSettings::graft_points
  seenLinks,    \* WorkerContext::hard_links
  allocated,    \* NodeIdAllocator: ids handed out per directory
  onDisk,       \* the directories that exist
  marks,        \* the nodes the user has marked
  outcomes,     \* the running deletion: its items with what became of them
  scenario,     \* the member of Scenarios this behaviour keeps to
  ops           \* user operations so far

diskVars == <<seenLinks, onDisk>>
userVars == <<marks, outcomes, scenario, ops>>
vars == <<tree, queue, worker, events, grafts, allocated, diskVars, userVars>>

-----------------------------------------------------------------------------
(* Tasks, and what the coordinator does to the tree and the queue at once. *)

NextId(d) == [dir |-> d, nr |-> allocated[d]]
AllocateNothing(D) == UNCHANGED allocated    \* variant: ids are handed out twice
Allocate(D) == allocated' = [d \in Dir |-> allocated[d] + (IF d \in D THEN 1 ELSE 0)]

(* submit_measurement: the scan of a directory starts here. *)
ScanOf(ref, d, treeDepth, force) ==
  [target |-> ref, dir |-> d, depth |-> 0, treeDepth |-> treeDepth,
   own |-> TRUE, materialize |-> TRUE, force |-> force]

(* The coordinator's state s: the tree and the queue. *)
Rescan(s, n, force) ==
  IF n \notin DOMAIN s.tree THEN s
  ELSE LET T == ResetForRescan(s.tree, n)
       IN  [tree |-> T,
            queue |-> {t \in s.queue : t.dir \notin Below[n.dir]}
                        \cup {ScanOf(Reference(T, n), n.dir, T[n].depth, force)}]

(* path_of a node that is gone is the empty path, which every path starts  *)
(* with.                                                                   *)
RemoveNode(s, n) ==
  IF n \notin DOMAIN s.tree THEN [s EXCEPT !.queue = {}]
  ELSE [tree |-> RemoveSubtree(s.tree, n),
        queue |-> {t \in s.queue : t.dir \notin Below[n.dir]}]

Now == [tree |-> tree, queue |-> queue]
Becomes(s) == tree' = s.tree /\ queue' = s.queue

-----------------------------------------------------------------------------
(* Worker threads. *)

Idle == [at |-> "idle"]

Take(w) ==
  /\ worker[w] = Idle
  /\ \E t \in queue :
       /\ queue' = queue \ {t}
       /\ worker' = [worker EXCEPT ![w] = [at |-> "taken", task |-> t, grafts |-> grafts]]
  /\ UNCHANGED <<tree, events, grafts, allocated, diskVars, userVars>>

(* What the listing of task t's directory decides, given the graft points  *)
(* of the settings snapshot.                                               *)
Found(t) == Subdirs[t.dir] \cap onDisk
Refused(t) == Found(t) \cap Skipped
OtherRoots(t, points) == (Found(t) \ Skipped) \cap points
Entered(t, points) ==
  IF t.treeDepth + 1 <= MaxDepth THEN Found(t) \ (Skipped \cup points) ELSE {}
IsDense(t) == ~t.force /\ t.dir \in DenseDirs
Materializes(t) == t.materialize /\ ~IsDense(t) /\ t.depth + 1 <= MaterializeDepth
ShowsBoundaries(t) == t.own /\ ~IsDense(t)
NewLinks(t) == Links[t.dir] \ seenLinks

ChildTask(t, d) ==
  [target |-> IF Materializes(t) THEN [id |-> NextId(d), gen |-> 0] ELSE t.target,
   dir |-> d, depth |-> t.depth + 1, treeDepth |-> t.treeDepth + 1,
   own |-> Materializes(t), materialize |-> Materializes(t), force |-> FALSE]

NothingFound(t) ==
  [target |-> t.target, own |-> t.own, size |-> 0, children |-> {}, joined |-> {},
   closed |-> {}, anonymous |-> 0, dense |-> FALSE, failed |-> FALSE]

(* Links are counted at one byte each. *)
Measurement(t, points) ==
  LET entered == Entered(t, points)
      shown(D) == IF ShowsBoundaries(t) THEN {NextId(d) : d \in D} ELSE {}
  IN  [NothingFound(t) EXCEPT
         !.size = FileBytes[t.dir] + Cardinality(NewLinks(t)),
         !.children = IF Materializes(t) THEN {NextId(d) : d \in entered} ELSE {},
         !.joined = shown(OtherRoots(t, points)),
         !.closed = shown(Refused(t)),
         !.anonymous = IF Materializes(t) THEN 0 ELSE Cardinality(entered),
         !.dense = IsDense(t)]

(* The directory cannot be read: one event, no tasks. *)
EmitProblem(w) ==
  LET t == worker[w].task
  IN  /\ worker[w].at = "taken"
      /\ t.dir \notin onDisk \/ t.dir \in Unreadable
      /\ events' = Append(events, [NothingFound(t) EXCEPT !.failed = TRUE])
      /\ worker' = [worker EXCEPT ![w] = Idle]
      /\ UNCHANGED <<tree, queue, grafts, allocated, diskVars, userVars>>

EmitMeasurement(w) ==
  LET t == worker[w].task
      points == worker[w].grafts
      e == Measurement(t, points)
      tasks == {ChildTask(t, d) : d \in Entered(t, points)}
  IN  /\ worker[w].at = "taken"
      /\ t.dir \in onDisk \ Unreadable
      /\ events' = Append(events, e)
      /\ seenLinks' = seenLinks \cup Links[t.dir]
      /\ Allocate({n.dir : n \in e.children \cup e.joined \cup e.closed})
      /\ worker' = [worker EXCEPT ![w] =
                      IF tasks = {} THEN Idle ELSE [at |-> "emitted", tasks |-> tasks]]
      /\ UNCHANGED <<tree, queue, grafts, onDisk, userVars>>

PushChildren(w) ==
  /\ worker[w].at = "emitted"
  /\ queue' = queue \cup worker[w].tasks
  /\ worker' = [worker EXCEPT ![w] = Idle]
  /\ UNCHANGED <<tree, events, grafts, allocated, diskVars, userVars>>

-----------------------------------------------------------------------------
(* The coordinator applies events. *)

(* graft_or_measure, for the children joined: those that are roots of the  *)
(* tree are grafted below n, the others are measured like any child.       *)
GraftableRoots(T, joined) ==
  {r \in Roots(T) : T[r].purpose = "Filesystem" /\ \E j \in joined : j.dir = r.dir}
Orphans(T, joined) ==
  {j \in joined : \A r \in GraftableRoots(T, joined) : r.dir # j.dir}
Applied(T, e) ==
  LET n == e.target.id
      U == InsertChildren(T, n, e.children)
      V == InsertChildren(GraftRoots(U, GraftableRoots(T, e.joined), n), n, Orphans(T, e.joined))
      W == InsertBoundaryChildren(V, n, e.closed)
      X == AddOutstandingWork(W, n, e.anonymous)
      Y == RecordMeasurement(X, n, e.size, e.own /\ e.dense,
                             e.own /\ ~e.dense /\ e.anonymous > 0)
  IN  FinishWorkUnit(Y, n)

(* The interface thread applies events between its other duties; while it  *)
(* works through the report of a deletion it applies none.                 *)
HasEvent == events # <<>> /\ \A i \in DOMAIN outcomes : outcomes[i].fate # "absorbed"

(* An event for a node that is gone, or was reset since, is dropped. *)
DropEvent ==
  /\ HasEvent
  /\ ~IsCurrent(tree, Head(events).target)
  /\ events' = Tail(events)
  /\ UNCHANGED <<tree, queue, worker, grafts, allocated, diskVars, userVars>>

ApplyProblem ==
  /\ HasEvent
  /\ Head(events).failed /\ IsCurrent(tree, Head(events).target)
  /\ events' = Tail(events)
  /\ tree' = FinishWorkUnit(tree, Head(events).target.id)
  /\ UNCHANGED <<queue, worker, grafts, allocated, diskVars, userVars>>

ApplyMeasurement ==
  LET e == Head(events)
      n == e.target.id
  IN  /\ HasEvent
      /\ ~e.failed /\ IsCurrent(tree, e.target)
      /\ events' = Tail(events)
      /\ tree' = Applied(tree, e)
      /\ queue' = queue \cup {ScanOf([id |-> j, gen |-> 0], j.dir, tree[n].depth + 1, FALSE) :
                                j \in Orphans(tree, e.joined)}
      /\ grafts' = grafts \ {j.dir : j \in e.joined}
      /\ UNCHANGED <<worker, allocated, diskVars, userVars>>

-----------------------------------------------------------------------------
(* The user.  While a deletion runs its modal takes every key. *)

UserOp(op) ==
  /\ op \in scenario.may
  /\ ops < scenario.times
  /\ outcomes = <<>>
  /\ ops' = ops + 1
  /\ UNCHANGED scenario

(* start_root_scan, when there is no root at d yet. *)
StartRootAgain(d, purpose) ==    \* variant: an existing root is not looked for
  /\ LET T == InsertRoot(tree, NextId(d), purpose)
     IN  Becomes([tree |-> T,
                  queue |-> queue \cup {ScanOf(Reference(T, NextId(d)), d, 0, FALSE)}])
  /\ Allocate({d})
StartRoot(d, purpose) ==
  /\ RootAt(tree, d) = {}
  /\ LET T == InsertRoot(tree, NextId(d), purpose)
     IN  Becomes([tree |-> T,
                  queue |-> queue \cup {ScanOf(Reference(T, NextId(d)), d, 0, FALSE)}])
  /\ Allocate({d})

(* r, R and :rescan; :expand forces a dense directory open. *)
RescanNode ==
  /\ UserOp("rescan")
  /\ \E n \in DOMAIN tree : Becomes(Rescan(Now, n, FALSE))
  /\ UNCHANGED <<worker, events, grafts, allocated, diskVars, marks, outcomes>>

ForceDense ==
  /\ UserOp("expand")
  /\ \E n \in DOMAIN tree : tree[n].dense /\ Becomes(Rescan(Now, n, TRUE))
  /\ UNCHANGED <<worker, events, grafts, allocated, diskVars, marks, outcomes>>

(* enter_directory: a directory that was only summed is scanned, a         *)
(* boundary becomes a root of its own.                                     *)
EnterDirectory ==
  /\ UserOp("enter")
  /\ \E n \in DOMAIN tree :
       \/ /\ ~tree[n].boundary
          /\ tree[n].lazy /\ ~tree[n].dense /\ Children(tree, n) = {}
          /\ Becomes(Rescan(Now, n, FALSE))
          /\ UNCHANGED allocated
       \/ tree[n].boundary /\ StartRoot(n.dir, "Filesystem")
  /\ UNCHANGED <<worker, events, grafts, diskVars, marks, outcomes>>

(* open_path and go_to_parent, for a directory that has no node. *)
OpenPath ==
  /\ UserOp("open")
  /\ \E d \in onDisk :
       /\ Located(tree, d) = {}
       /\ StartRoot(d, "Filesystem")
       /\ grafts' = grafts \cup {d}
  /\ UNCHANGED <<worker, events, diskVars, marks, outcomes>>

(* The cleaner measures a directory as a root of its own. *)
MeasureForCleaner ==
  /\ UserOp("measure")
  /\ \E d \in onDisk : StartRoot(d, "Measurement")
  /\ UNCHANGED <<worker, events, grafts, diskVars, marks, outcomes>>

(* Marks are kept by path; a second toggle takes the mark away. *)
ToggleMark ==
  /\ UserOp("mark")
  /\ \E n \in DOMAIN tree \ Roots(tree) :
       LET same == {m \in marks : m.dir = n.dir}
       IN  marks' = IF same = {} THEN marks \cup {n} ELSE marks \ same
  /\ Cardinality(marks') <= MaxMarks
  /\ UNCHANGED <<tree, queue, worker, events, grafts, allocated, diskVars, outcomes>>

ConfirmDeletion ==
  /\ UserOp("mark")
  /\ marks # {}
  /\ outcomes' =
       LET order == SetToSortSeq(marks, LAMBDA a, b : PathRank[a.dir] < PathRank[b.dir])
       IN  [i \in DOMAIN order |-> [node |-> order[i], fate |-> "waiting"]]
  /\ UNCHANGED <<tree, queue, worker, events, grafts, allocated, diskVars, marks>>

(* The deletion thread deals with the next item: all of it goes, a part of *)
(* it, or nothing.                                                         *)
Waiting == {i \in DOMAIN outcomes : outcomes[i].fate = "waiting"}
DeleteNextItem ==
  /\ Waiting # {}
  /\ LET i == Min(Waiting)
         dir == outcomes[i].node.dir
         settle(fate) == outcomes' = [outcomes EXCEPT ![i].fate = fate]
     IN  \/ settle("removed") /\ onDisk' = onDisk \ Below[dir]
         \/ \E c \in (Below[dir] \ {dir}) \cap onDisk :
              settle("partial") /\ onDisk' = onDisk \ Below[c]
         \/ settle("kept") /\ UNCHANGED onDisk
  /\ UNCHANGED <<tree, queue, worker, events, grafts, allocated, seenLinks, marks, scenario, ops>>

(* absorb_deletion_report, when the deletion is finished: item by item, in *)
(* the order of the plan, while the scanner threads go on.                 *)
NextToAbsorb == Min({i \in DOMAIN outcomes : outcomes[i].fate # "absorbed"})
Absorbed(i) ==
  IF i = Len(outcomes) THEN <<>> ELSE [outcomes EXCEPT ![i].fate = "absorbed"]
AbsorbOutcome ==
  /\ outcomes # <<>> /\ Waiting = {}
  /\ LET i == NextToAbsorb
         n == outcomes[i].node
     IN  /\ outcomes' = Absorbed(i)
         /\ CASE outcomes[i].fate = "removed" ->
                    Becomes(RemoveNode(Now, n)) /\ marks' = {m \in marks : m.dir # n.dir}
              [] outcomes[i].fate = "partial" ->
                    Becomes(Rescan(Now, n, FALSE)) /\ UNCHANGED marks
              [] OTHER -> UNCHANGED <<tree, queue, marks>>
  /\ UNCHANGED <<worker, events, grafts, allocated, diskVars, scenario, ops>>

-----------------------------------------------------------------------------

(* The program has started the scan of the first root. *)
Init ==
  /\ scenario \in Scenarios
  /\ allocated = [d \in Dir |-> IF d = Top THEN 1 ELSE 0]
  /\ LET first == [dir |-> Top, nr |-> 0]
     IN  /\ tree = InsertRoot(<<>>, first, "Filesystem")
         /\ queue = {ScanOf([id |-> first, gen |-> 0], Top, 0, FALSE)}
  /\ worker = [w \in Worker |-> Idle]
  /\ events = <<>>
  /\ grafts = {}
  /\ seenLinks = {}
  /\ onDisk = scenario.disk
  /\ marks = {}
  /\ outcomes = <<>>
  /\ ops = 0

ScannerStep(w) == Take(w) \/ EmitProblem(w) \/ EmitMeasurement(w) \/ PushChildren(w)
CoordinatorStep == DropEvent \/ ApplyProblem \/ ApplyMeasurement
DeletionStep == DeleteNextItem \/ AbsorbOutcome
UserStep ==
  \/ RescanNode \/ ForceDense \/ EnterDirectory \/ OpenPath \/ MeasureForCleaner
  \/ ToggleMark \/ ConfirmDeletion

Next ==
  \/ \E w \in Worker : ScannerStep(w)
  \/ CoordinatorStep
  \/ DeletionStep
  \/ UserStep

(* Every thread that can go on does: the scanner threads, the interface    *)
(* thread, which pumps events and picks up a finished deletion, and the    *)
(* deletion thread.  The user owes nothing.  The two steps of the          *)
(* interface thread are named by the only thing they can take away.        *)
PumpEvent == HasEvent /\ events' = Tail(events)
PollOperation == outcomes # <<>> /\ Waiting = {} /\ outcomes' = Absorbed(NextToAbsorb)
Spec ==
  /\ Init
  /\ [][Next]_vars
  /\ \A w \in Worker : WF_vars(ScannerStep(w))
  /\ WF_events(PumpEvent)
  /\ WF_vars(DeleteNextItem)
  /\ WF_outcomes(PollOperation)

-----------------------------------------------------------------------------

(* Type invariant.  A parent is live, and its directory is the one above,  *)
(* so that the nodes form a forest as the directories do.                  *)
Id == [dir : Dir, nr : Nat]
Ref == [id : Id, gen : Nat]
Task == [target : Ref, dir : Dir, depth : Nat, treeDepth : Nat,
         own : BOOLEAN, materialize : BOOLEAN, force : BOOLEAN]
Event == [target : Ref, own : BOOLEAN, size : Nat, children : SUBSET Id,
          joined : SUBSET Id, closed : SUBSET Id, anonymous : Nat,
          dense : BOOLEAN, failed : BOOLEAN]
Node == [parent : Id \cup {NoNode}, purpose : {"none", "Filesystem", "Measurement"},
         depth : Nat, own : Nat, total : Nat, work : Nat, gen : Nat,
         dense : BOOLEAN, lazy : BOOLEAN, boundary : BOOLEAN]
TreeTypeOK ==
  /\ DOMAIN tree \subseteq Id
  /\ \A n \in DOMAIN tree :
       /\ tree[n] \in Node /\ tree[n].parent \in DOMAIN tree \cup {NoNode}
       /\ tree[n].parent # NoNode => n.dir \in Subdirs[tree[n].parent.dir]
  /\ queue \subseteq Task
  /\ \A w \in Worker :
       \/ worker[w] = Idle
       \/ worker[w].at = "taken" /\ worker[w].task \in Task /\ worker[w].grafts \subseteq Dir
       \/ worker[w].at = "emitted" /\ worker[w].tasks \subseteq Task
  /\ \A i \in DOMAIN events : events[i] \in Event
  /\ grafts \subseteq Dir /\ onDisk \subseteq Dir
  /\ \A n \in DOMAIN tree : n.nr < allocated[n.dir]

(* tree_node.rs: total_size is "own_size plus the total size of every      *)
(* materialised child", at every node and after every operation: events    *)
(* that arrive in any order, rescans and removals in the middle of a scan, *)
(* separately measured roots that join.  The saturating subtractions hide  *)
(* any slip of it in the program.                                          *)
TotalsAddUp ==
  \A n \in DOMAIN tree :
    tree[n].total = tree[n].own + SumFunctionOnSet(Totals(tree), Children(tree, n))

(* tree_node.rs: outstanding_work is the "number of unfinished pieces of   *)
(* work (own listing task, pending children, anonymous descendant tasks)". *)
(* Each unit is backed by a task that waits, runs or is about to be pushed,*)
(* by an event under way, or by a child that is pending itself, except     *)
(* that the anonymous tasks of an event are counted when it is applied.    *)
(* Too few units and a directory looks complete while it still grows; too  *)
(* many and it never completes.                                            *)
TasksFor(ref) ==
  LET aims(S) == Cardinality({t \in S : t.target = ref})
      inHand(w) == CASE worker[w].at = "taken" -> aims({worker[w].task})
                     [] worker[w].at = "emitted" -> aims(worker[w].tasks)
                     [] OTHER -> 0
  IN  aims(queue) + MapThenSumSet(inHand, Worker)
EventsFor(ref) == {i \in DOMAIN events : events[i].target = ref}
WorkAccounted ==
  \A n \in DOMAIN tree :
    LET ref == Reference(tree, n)
    IN  tree[n].work + MapThenSumSet(LAMBDA i : events[i].anonymous, EventsFor(ref))
          = TasksFor(ref) + Cardinality(EventsFor(ref))
              + Cardinality({m \in Children(tree, n) : ~Complete(tree, m)})

(* What a scan of n should find: the files of every directory below that   *)
(* can be reached without passing a boundary, an unreadable directory or   *)
(* the depth limit, every hard-linked file once.                           *)
Passable(n, d) ==
  \A x \in Below[n.dir] :
    d \in Below[x] =>
      /\ x \in onDisk \ Unreadable
      /\ x \notin Skipped \ {n.dir}
      /\ tree[n].depth + Cardinality({y \in Below[n.dir] : x \in Below[y]}) - 1 <= MaxDepth
Reached(n) == {d \in Below[n.dir] : Passable(n, d)}
SizeOnDisk(n) ==
  MapThenSumSet(LAMBDA d : FileBytes[d], Reached(n))
    + Cardinality(UNION {Links[d] : d \in Reached(n)})

(* A directory that is shown as complete shows its real size, however many *)
(* rescans, expansions, removals, joined roots and late results of earlier *)
(* scans came before.  (Between a removal on disk and the report of it the *)
(* tree is behind the disk.)                                               *)
CompleteMeansMeasured ==
  outcomes = <<>> =>
    \A n \in DOMAIN tree :
      Complete(tree, n) /\ ~tree[n].boundary => tree[n].total = SizeOnDisk(n)

(* A path has one root at most, and a parent one child for a directory:    *)
(* joining a root next to a child that stands for the same directory would *)
(* count it twice above.  (A root and a node inside another tree may stand *)
(* for one directory.)                                                     *)
OneNodePerPlace ==
  \A m, n \in DOMAIN tree :
    m.dir = n.dir /\ tree[m].parent = tree[n].parent => m = n

(* When the user stops, every directory becomes complete: no unit of work  *)
(* is ever stranded.                                                       *)
ScanCompletes == <>[](\A n \in DOMAIN tree : Complete(tree, n))

-----------------------------------------------------------------------------
(* What the documents say and the code does not do. *)

(* README: "hard links are counted once".  While there is one root only,   *)
(* and nothing of its links is counted anywhere else, its complete size    *)
(* has each of them once.  A rescan breaks this, which forgets the sizes   *)
(* and not the inodes; without one it holds.                               *)
LinkedFilesCountedOnce ==
  \A n \in DOMAIN tree :
    Roots(tree) = {n} /\ Complete(tree, n) => tree[n].total = SizeOnDisk(n)

(* app/mod.rs, absorb_deletion_report: "Reflects a finished deletion in    *)
(* the tree: removed items disappear, items that were only partially       *)
(* removed are measured again."                                            *)
RemovedItemsDisappear ==
  [][\A i \in DOMAIN outcomes :
        outcomes[i].fate = "removed" /\ (outcomes' = <<>> \/ outcomes'[i].fate = "absorbed")
          => \A n \in DOMAIN tree' \ Roots(tree') : n.dir # outcomes[i].node.dir]_vars
=============================================================================
