--------------------------- MODULE HeaviestQuery ----------------------------
(***************************************************************************)
(* The search for the largest files below a directory: the queries of the  *)
(* TreeCoordinator, the tasks that walk the directories, and the workers   *)
(* that execute them (ScanWorker::collect_heaviest_files).                 *)
(*                                                                         *)
(* A query counts the tasks that have not reported (outstanding) and is    *)
(* finished when none is left.  The tasks of a query share a floor: the    *)
(* smallest size that still counts, raised by the coordinator, read by a   *)
(* worker once, when it starts on a directory.                             *)
(***************************************************************************)
EXTENDS HeaviestFiles, Lists, Functions

CONSTANTS
  Dir,          \* directories
  Subdirs,      \* the directories directly inside each
  FilesIn,      \* the files directly inside each, in the order they are read
  Barred,       \* skip paths and mount points
  MaxDepth,     \* ScanPolicy::max_depth
  Walker        \* scanner threads

VARIABLES
  heavy,        \* the coordinator's queries, their floors and queued tasks
  walker,       \* what each thread does
  progress      \* the events on their way to the coordinator

heavyVars == <<heavy, walker, progress>>

Forget(f, x) == [y \in DOMAIN f \ {x} |-> f[y]]
With(f, x, v) == [y \in DOMAIN f \cup {x} |-> IF y = x THEN v ELSE f[y]]

-----------------------------------------------------------------------------
(* The coordinator, on the interface thread. *)

NoQueries == [queries |-> <<>>, floors |-> <<>>, walks |-> {}, next |-> 1]

StartQuery(h, origin, treeDepth, limit) ==
  [queries |-> With(h.queries, h.next,
                    [origin |-> [dir |-> origin, depth |-> treeDepth],
                     heap |-> NewHeap(limit), outstanding |-> 1, finished |-> FALSE]),
   floors |-> With(h.floors, h.next, 0),
   walks |-> h.walks \cup {[query |-> h.next, dir |-> origin, limit |-> limit,
                            depth |-> treeDepth]},
   next |-> h.next + 1]

CancelQuery(h, q) ==
  [h EXCEPT !.queries = Forget(h.queries, q),
            !.walks = {t \in h.walks : t.query # q}]

(* variant: the query is finished when it has everything it was asked for. *)
ApplyProgressEagerly(h, e) ==
  IF e.query \notin DOMAIN h.queries THEN h
  ELSE LET q == h.queries[e.query]
           heap == Merge(q.heap, e.files)
       IN  [h EXCEPT !.queries[e.query] =
              [q EXCEPT !.heap = heap, !.outstanding = @ + e.spawned - 1,
                        !.finished = IsFull(heap) \/ q.outstanding + e.spawned = 1]]

(* variant: the floor rises before the collection is full. *)
ApplyProgressRashly(h, e) ==
  IF e.query \notin DOMAIN h.queries THEN h
  ELSE LET q == h.queries[e.query]
           heap == Merge(q.heap, e.files)
       IN  [h EXCEPT
              !.queries[e.query] =
                 [q EXCEPT !.heap = heap, !.outstanding = @ + e.spawned - 1,
                           !.finished = q.outstanding + e.spawned = 1],
              !.floors[e.query] = IF heap.kept # <<>> THEN SmallestKept(heap) ELSE @]

ApplyProgress(h, e) ==
  IF e.query \notin DOMAIN h.queries THEN h
  ELSE LET q == h.queries[e.query]
           heap == Merge(q.heap, e.files)
           left == IF q.outstanding + e.spawned = 0 THEN 0 ELSE q.outstanding + e.spawned - 1
       IN  [h EXCEPT
              !.queries[e.query] = [q EXCEPT !.heap = heap, !.outstanding = left,
                                             !.finished = @ \/ left = 0],
              !.floors[e.query] = IF IsFull(heap) THEN SmallestKept(heap) ELSE @]

-----------------------------------------------------------------------------
(* The scanner threads. *)

Resting == [at |-> "rest"]

TakeWalk(w) ==
  /\ walker[w] = Resting
  /\ \E t \in heavy.walks :
       /\ heavy' = [heavy EXCEPT !.walks = @ \ {t}]
       /\ walker' = [walker EXCEPT ![w] = [at |-> "read", task |-> t,
                                           floor |-> heavy.floors[t.query]]]
  /\ UNCHANGED progress

Entered(t) == IF t.depth + 1 <= MaxDepth THEN Subdirs[t.dir] \ Barred ELSE {}
WalkBelow(t, d) == [t EXCEPT !.dir = d, !.depth = @ + 1]

(* files: what the directory holds, in the order it is read. *)
Counted(t, floor, files) ==
  FoldLeft(LAMBDA h, f : IF f.size > floor THEN Offer(h, f) ELSE h,
           NewHeap(t.limit), files).kept

(* The progress is emitted first, the tasks are pushed afterwards. *)
ReportWalk(w, filesNow) ==
  LET t == walker[w].task
      below == {WalkBelow(t, d) : d \in Entered(t)}
  IN  /\ walker[w].at = "read"
      /\ progress' = Append(progress, [query |-> t.query,
                          files |-> Counted(t, walker[w].floor, filesNow[t.dir]),
                          spawned |-> Cardinality(below)])
      /\ walker' = [walker EXCEPT
                      ![w] = IF below = {} THEN Resting ELSE [at |-> "push", tasks |-> below]]
      /\ UNCHANGED heavy

PushWalks(w) ==
  /\ walker[w].at = "push"
  /\ heavy' = [heavy EXCEPT !.walks = @ \cup walker[w].tasks]
  /\ walker' = [walker EXCEPT ![w] = Resting]
  /\ UNCHANGED progress

WalkerStep(w, filesNow) == TakeWalk(w) \/ ReportWalk(w, filesNow) \/ PushWalks(w)

HeavyInit == heavy = NoQueries /\ walker = [w \in Walker |-> Resting] /\ progress = <<>>

-----------------------------------------------------------------------------
(* Properties. *)

Busy(at) == {w \in Walker : walker[w].at = at}

(* The tasks of query q that exist: queued, being executed, or pushed next *)
(* by a worker that has reported already.                                  *)
TasksOf(q) ==
  {t \in heavy.walks : t.query = q}
    \cup {walker[w].task : w \in {v \in Busy("read") : walker[v].task.query = q}}
    \cup {t \in UNION {walker[w].tasks : w \in Busy("push")} : t.query = q}
EventsOf(q) == {i \in DOMAIN progress : progress[i].query = q}
Announced(q) ==
  SumFunctionOnSet([i \in DOMAIN progress |-> progress[i].spawned], EventsOf(q))

(* A query knows of every piece of its work: what it still waits for, with *)
(* what the events under way announce, is what exists or has reported.  In *)
(* particular saturating_sub (tree_coordinator.rs:551) never saturates,    *)
(* and a query is finished exactly when nothing of it is left, whatever    *)
(* order the workers report in.                                            *)
QueriesKnowTheirWork ==
  \A q \in DOMAIN heavy.queries :
    /\ heavy.queries[q].outstanding + Announced(q)
         = Cardinality(TasksOf(q)) + Cardinality(EventsOf(q))
    /\ heavy.queries[q].finished <=> TasksOf(q) = {} /\ EventsOf(q) = {}

(* The files that a walk from t comes across, by the levels it may still   *)
(* go down from a directory.                                               *)
FilesBelow(t) ==
  LET below[n \in 0 .. MaxDepth] ==
        [d \in Dir |-> Elements(FilesIn[d]) \cup
                          (IF n = 0 THEN {}
                           ELSE UNION {below[n - 1][e] : e \in Subdirs[d] \ Barred})]
  IN  below[IF t.depth < MaxDepth THEN MaxDepth - t.depth ELSE 0][t.dir]

(* A finished query holds the largest files below its origin: as many as   *)
(* it was asked for or as there are, and no file it left out is larger     *)
(* than one it kept.  A stale floor costs work and never a file; files     *)
(* without any bytes do not count (scan_worker.rs: size <= floor).         *)
FinishedMeansHeaviest ==
  \A q \in DOMAIN heavy.queries :
    LET query == heavy.queries[q]
        kept == Elements(query.heap.kept)
        all == {f \in FilesBelow(query.origin) : f.size > 0}
    IN  query.finished =>
          /\ kept \subseteq all
          /\ Len(query.heap.kept) = Cardinality(kept)
          /\ Cardinality(kept) = IF Cardinality(all) < query.heap.limit
                                 THEN Cardinality(all) ELSE query.heap.limit
          /\ \A f \in all \ kept, g \in kept : f.size <= g.size
=============================================================================
