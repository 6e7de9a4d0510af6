----------------------------- MODULE ScanEngine -----------------------------
(***************************************************************************)
(* application/scanning/scan_engine.rs: the worker threads around the task *)
(* queue, with the condition variable they sleep on, the live change of    *)
(* their number and the shutdown.                                          *)
(*                                                                         *)
(* pc[th] is where thread th stands in the loop of spawn_worker:           *)
(*   "off"      no such thread: not spawned, or is_finished()              *)
(*   "check"    about to compare its index with the desired count          *)
(*   "popping"  in TaskQueue::pop, about to look at the lanes              *)
(*   "asleep"   in wait_for on work_available                              *)
(*   "empty"    pop returned None                                          *)
(*   "popped"   pop returned a task, worker_busy() not called yet          *)
(*   "busy"     executing the task                                         *)
(*   "ran"      task executed, worker_idle() not called yet                *)
(*   "leaving"  out of the loop, but not is_finished() yet                 *)
(*                                                                         *)
(* What a task does is abstracted to the tasks it pushes when it is done,  *)
(* Children[t].  A notification happens just after the unlock in the code; *)
(* here it is part of the operation: all a woken thread does is to take    *)
(* the lock again.  The timeout of 250 ms may strike at any time.          *)
(***************************************************************************)
EXTENDS TaskQueue

CONSTANTS
  Children,     \* the tasks each task pushes when it is executed
  Requests,     \* the tasks the tree owner submits itself
  MaxWorkers,   \* bound: worker counts are 1 .. MaxWorkers (256 in the code)
  MaxThreads,   \* bound: threads that exist at a time, leaving ones included
  MaxOps,       \* bound: user operations in a behaviour
  UserOps,      \* the user operations that occur
  NoTask

Thread == 1 .. MaxThreads

ASSUME EngineAssumption ==
  /\ Children \in [Task -> Seq(Task)]
  /\ Requests \subseteq Task
  /\ MaxWorkers \in Nat \ {0}
  /\ MaxThreads \in Nat /\ MaxThreads >= MaxWorkers
  /\ MaxOps \in Nat
  /\ UserOps \subseteq {"focus", "pause", "discard", "workers", "shutdown"}
  /\ NoTask \notin Task

(* Every task value is built once: a worker builds the children of its own *)
(* directory or walk, the tree owner builds the rest.                      *)
ASSUME TaskCreatedOnce ==
  \A t \in Task :
    /\ Distinct(Children[t])
    /\ Elements(Children[t]) \cap Requests = {}
    /\ \A u \in Task :
         t # u => Elements(Children[t]) \cap Elements(Children[u]) = {}

VARIABLES
  pc,           \* where each thread stands
  index,        \* its worker index
  task,         \* the task it holds
  busy,         \* ScanStatistics::busy_workers
  desired,      \* desired_workers
  ops           \* user operations so far

threadVars == <<pc, index, task, busy>>
vars == <<queueVars, threadVars, desired, ops>>

-----------------------------------------------------------------------------

Asleep == {th \in Thread : pc[th] = "asleep"}

(* The sets of threads that pushing n tasks may wake: notify_one for one   *)
(* task, notify_all for several, nobody for none.                          *)
WokenByPush(n) ==
  CASE n = 0 \/ Asleep = {} -> {{}}
    [] n = 1 /\ Asleep # {} -> {{th} : th \in Asleep}
    [] OTHER -> {Asleep}

Wake(W) == [th \in Thread |-> IF th \in W THEN "popping" ELSE pc[th]]

(* set_worker_count: slots of finished threads are dropped, and every      *)
(* index without a slot gets a new thread.                                 *)
Alive(th) == pc[th] # "off"
MissingIndicesIgnoringLeavers(n) ==   \* variant: a leaving thread counts as gone
  {i \in 0 .. n - 1 : \A th \in Thread :
      Alive(th) /\ pc[th] # "leaving" => index[th] # i}
MissingIndices(n) ==
  {i \in 0 .. n - 1 : \A th \in Thread : Alive(th) => index[th] # i}
FreeThreads == {th \in Thread : ~Alive(th)}

(* The thread that takes over index i: free ids in increasing order. *)
SpawnedAs(missing, th, i) == RankIn(missing, i) = RankIn(FreeThreads, th)

SetWorkerCount(n) ==
  LET missing == MissingIndices(n)
      spawned == {th \in FreeThreads : \E i \in missing : SpawnedAs(missing, th, i)}
  IN  /\ Cardinality(missing) <= Cardinality(FreeThreads)
      /\ desired' = n
      /\ pc' = [th \in Thread |-> IF th \in spawned THEN "check" ELSE pc[th]]
      /\ index' = [th \in Thread |->
                     IF th \in spawned
                     THEN CHOOSE i \in missing : SpawnedAs(missing, th, i)
                     ELSE index[th]]
      /\ UNCHANGED <<queueVars, task, busy>>  \* push_many(empty) wakes nobody

-----------------------------------------------------------------------------
(* The loop of a worker thread. *)

CheckIndex(th) ==
  /\ pc[th] = "check"
  /\ pc' = [pc EXCEPT ![th] =
              IF index[th] >= desired THEN "leaving" ELSE "popping"]
  /\ UNCHANGED <<queueVars, index, task, busy, desired, ops>>

PopSome(th) ==
  /\ pc[th] = "popping"
  /\ \E t \in Queued : PopTask(t) /\ task' = [task EXCEPT ![th] = t]
  /\ pc' = [pc EXCEPT ![th] = "popped"]
  /\ UNCHANGED <<index, busy, desired, ops>>

PopNone(th) ==
  /\ pc[th] = "popping"
  /\ \/ shut /\ pc' = [pc EXCEPT ![th] = "empty"]
     \/ ~shut /\ ~HasRunnableWork /\ pc' = [pc EXCEPT ![th] = "asleep"]
  /\ UNCHANGED <<queueVars, index, task, busy, desired, ops>>

TimeOut(th) ==
  /\ pc[th] = "asleep"
  /\ pc' = [pc EXCEPT ![th] = "empty"]
  /\ UNCHANGED <<queueVars, index, task, busy, desired, ops>>

AfterNoneLeaves(th) ==    \* variant: a timeout is taken for a shutdown
  /\ pc[th] = "empty"
  /\ pc' = [pc EXCEPT ![th] = "leaving"]
  /\ UNCHANGED <<queueVars, index, task, busy, desired, ops>>
AfterNoneStays(th) ==     \* variant: is_shut_down() is not consulted
  /\ pc[th] = "empty"
  /\ pc' = [pc EXCEPT ![th] = "check"]
  /\ UNCHANGED <<queueVars, index, task, busy, desired, ops>>
AfterNone(th) ==
  /\ pc[th] = "empty"
  /\ pc' = [pc EXCEPT ![th] = IF shut THEN "leaving" ELSE "check"]
  /\ UNCHANGED <<queueVars, index, task, busy, desired, ops>>

WorkerBusy(th) ==
  /\ pc[th] = "popped"
  /\ busy' = busy + 1
  /\ pc' = [pc EXCEPT ![th] = "busy"]
  /\ UNCHANGED <<queueVars, index, task, desired, ops>>

Execute(th) ==
  /\ pc[th] = "busy"
  /\ PushMany(Children[task[th]])
  /\ \E W \in WokenByPush(Len(Children[task[th]])) :
       pc' = [Wake(W) EXCEPT ![th] = "ran"]
  /\ UNCHANGED <<index, task, busy, desired, ops>>

WorkerStaysBusy(th) ==    \* variant: worker_idle() is forgotten
  /\ pc[th] = "ran"
  /\ task' = [task EXCEPT ![th] = NoTask]
  /\ pc' = [pc EXCEPT ![th] = "check"]
  /\ UNCHANGED <<queueVars, index, busy, desired, ops>>
WorkerIdle(th) ==
  /\ pc[th] = "ran"
  /\ busy' = busy - 1
  /\ task' = [task EXCEPT ![th] = NoTask]
  /\ pc' = [pc EXCEPT ![th] = "check"]
  /\ UNCHANGED <<queueVars, index, desired, ops>>

ThreadEnds(th) ==
  /\ pc[th] = "leaving"
  /\ pc' = [pc EXCEPT ![th] = "off"]
  /\ index' = [index EXCEPT ![th] = 0]
  /\ UNCHANGED <<queueVars, task, busy, desired, ops>>

Thread_(th) ==
  \/ CheckIndex(th) \/ PopSome(th) \/ PopNone(th) \/ TimeOut(th)
  \/ AfterNone(th) \/ WorkerBusy(th) \/ Execute(th) \/ WorkerIdle(th)
  \/ ThreadEnds(th)

-----------------------------------------------------------------------------
(* The tree owner and the user. *)

Submit(t) ==
  /\ t \in Requests \ pushed
  /\ ~shut
  /\ PushMany(<<t>>)
  /\ \E W \in WokenByPush(1) : pc' = Wake(W)
  /\ UNCHANGED <<index, task, busy, desired, ops>>

UserOp(kind) ==
  /\ kind \in UserOps
  /\ ops < MaxOps
  /\ ~shut
  /\ ops' = ops + 1

ChangeFocus ==
  /\ UserOp("focus")
  /\ \E f \in Path \cup {NoFocus} : SetFocus(f)
  /\ pc' = Wake(Asleep)
  /\ UNCHANGED <<index, task, busy, desired>>

PauseOrResumeSilently ==  \* variant: notify_all is forgotten
  /\ UserOp("pause")
  /\ SetBackgroundPaused(~paused)
  /\ UNCHANGED <<threadVars, desired>>
PauseOrResume ==
  /\ UserOp("pause")
  /\ SetBackgroundPaused(~paused)
  /\ pc' = Wake(Asleep)
  /\ UNCHANGED <<index, task, busy, desired>>

Withdraw ==
  /\ UserOp("discard")
  /\ \E X \in {MeasurementsUnder(p) : p \in Path}
             \cup {TasksOf(Walk[t]) : t \in Task \ Measure} :
       DiscardMatching(X)
  /\ UNCHANGED <<threadVars, desired>>

ChangeWorkers ==
  /\ UserOp("workers")
  /\ \E n \in 1 .. MaxWorkers : SetWorkerCount(n)

StopEngine ==
  /\ UserOp("shutdown")
  /\ Shutdown
  /\ pc' = Wake(Asleep)
  /\ UNCHANGED <<index, task, busy, desired>>

(* shutdown() has joined every thread and returned. *)
Joined ==
  /\ shut
  /\ \A th \in Thread : ~Alive(th)
  /\ UNCHANGED vars

-----------------------------------------------------------------------------

(* start(): set_worker_count on an engine without threads. *)
Init ==
  /\ QueueInit
  /\ desired \in 1 .. MaxWorkers
  /\ pc = [th \in Thread |-> IF th <= desired THEN "check" ELSE "off"]
  /\ index = [th \in Thread |-> IF th <= desired THEN th - 1 ELSE 0]
  /\ task = [th \in Thread |-> NoTask]
  /\ busy = 0
  /\ ops = 0

Next ==
  \/ \E th \in Thread : Thread_(th)
  \/ \E t \in Task : Submit(t)
  \/ ChangeFocus
  \/ PauseOrResume
  \/ Withdraw
  \/ ChangeWorkers
  \/ StopEngine
  \/ Joined

(* The operating system runs every thread that can run; the user and the   *)
(* tree owner owe nothing.                                                 *)
Spec ==
  /\ Init
  /\ [][Next]_vars
  /\ \A th \in Thread : WF_vars(Thread_(th))

-----------------------------------------------------------------------------

(* Type invariant. *)
TypeOK ==
  /\ QueueTypeOK
  /\ pc \in [Thread -> {"off", "check", "popping", "asleep", "empty",
                        "popped", "busy", "ran", "leaving"}]
  /\ index \in [Thread -> 0 .. MaxWorkers - 1]
  /\ task \in [Thread -> Task \cup {NoTask}]
  /\ busy = Cardinality({th \in Thread : pc[th] \in {"busy", "ran"}})
  /\ desired \in 1 .. MaxWorkers
  /\ ops \in 0 .. MaxOps

(* The threads that will look at the lanes before they leave or sleep. *)
WillServe(th) ==
  \/ pc[th] = "popping"
  \/ pc[th] \in {"check", "empty", "popped", "busy", "ran"} /\ index[th] < desired

(* No wakeup is lost.  Work that may run now is never left to threads that *)
(* all sleep until their timeout: whenever runnable work is queued and a   *)
(* thread sleeps, some thread is on its way to the lanes.  It covers the   *)
(* choice between notify_one and notify_all in push_many, the notify_all   *)
(* of set_focus and set_background_paused, and a notification that goes to *)
(* a thread about to retire.                                               *)
NoLostWakeup ==
  HasRunnableWork /\ Asleep # {} => \E th \in Thread : WillServe(th)

(* However often the worker count goes up and down while old threads are   *)
(* still leaving, no index ever has two live threads, so the scanner never *)
(* runs more threads than the largest count that was asked for.            *)
OneThreadPerIndex ==
  \A a, b \in Thread :
    Alive(a) /\ Alive(b) /\ index[a] = index[b] => a = b

(* A task is at one place at a time.  What a thread holds is in no lane,   *)
(* no two threads hold the same task, and what a task will push has been   *)
(* seen nowhere until the task is executed.  Stealing, moving between the  *)
(* lanes, discarding and shutting down all have to respect it: a directory *)
(* measured twice would be counted twice.                                  *)
Holds(th) == pc[th] \in {"popped", "busy", "ran"}
HeldNotQueued == \A th \in Thread : Holds(th) => task[th] \in pushed \ Queued
HeldOnce ==
  \A a, b \in Thread : Holds(a) /\ Holds(b) /\ task[a] = task[b] => a = b
ChildrenAwaitParent ==
  \A t \in Task : Elements(Children[t]) \cap pushed # {} =>
    /\ t \in pushed \ Queued
    /\ \A th \in Thread : task[th] = t => pc[th] \notin {"popped", "busy"}
TaskInOnePlace ==
  /\ Queued \subseteq pushed
  /\ HeldNotQueued
  /\ HeldOnce
  /\ ChildrenAwaitParent

(* The queue promises what TaskPool states: no task is lost, duplicated,   *)
(* taken twice or resurrected, under every interleaving of workers, tree   *)
(* owner and user.                                                         *)
Pool == INSTANCE TaskPool WITH
  submitted <- pushed,
  queued <- Queued,
  running <- {task[th] : th \in {x \in Thread : Holds(x)}},
  closed <- shut
ImplementsPool == Pool!PoolSpec

(* Every queued task is taken, or discarded, in the end, unless the user   *)
(* leaves the background paused or ends the program: retiring workers,     *)
(* stolen wakeups and changes of focus never strand one.                   *)
EveryTaskServed ==
  <>[]~paused => \A t \in Task : (t \in Queued) ~> (t \notin Queued \/ shut)

(* shutdown() returns: all threads it joins end, whatever they were doing. *)
ShutdownJoins == shut ~> \A th \in Thread : ~Alive(th)

-----------------------------------------------------------------------------
(* What the comments of the code say and the code does not do. *)

(* scan_engine.rs, is_idle: "True when no task is queued and no worker is  *)
(* busy."  The headless mode ends its measurement on it.                   *)
IsIdle == ~HasRunnableWork /\ busy = 0
Holding == {th \in Thread : task[th] # NoTask}
IdleMeansNothingLeft == IsIdle => Queued = {} /\ Holding = {}
=============================================================================
