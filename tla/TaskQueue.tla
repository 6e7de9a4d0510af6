----------------------------- MODULE TaskQueue ------------------------------
(***************************************************************************)
(* application/scanning/task_queue.rs: the queue every scanner thread pops *)
(* from.  Its state is the QueueState behind the mutex, one action per     *)
(* operation; an action is what the code does between lock and unlock.     *)
(*                                                                         *)
(* A task is a member of Task; what the queue looks at, its path and its   *)
(* kind, are the functions PathOf and Urgent.  Paths are members of Path   *)
(* and Below[p] is the set of paths that starts_with(p) holds for.         *)
(***************************************************************************)
EXTENDS Lists

CONSTANTS
  Task,       \* the tasks that are ever created
  Path,       \* the directories they are about
  PathOf,     \* the directory of each task
  Below,      \* the paths that start with a path, itself included
  Urgent,     \* file listings and heaviest-files tasks
  Measure,    \* the directory measurements
  Walk,       \* the query or search a task belongs to
  NoFocus     \* no branch has the focus

ASSUME QueueAssumption ==
  /\ PathOf \in [Task -> Path]
  /\ Below \in [Path -> SUBSET Path]
  /\ Urgent \subseteq Task
  /\ Measure \subseteq Task \ Urgent
  /\ NoFocus \notin Path

VARIABLES
  urgent,     \* first in, first out, whatever the focus
  focused,    \* a stack: the tasks below the focus
  background, \* a stack: the other tasks
  focus,      \* the path the user is looking at, or NoFocus
  paused,     \* background_paused
  shut,       \* shutting_down
  pushed      \* history: the tasks pushed so far

queueVars == <<urgent, focused, background, focus, paused, shut, pushed>>

-----------------------------------------------------------------------------

(* The lane a task belongs to when the focus is f. *)
FocusLane(f) ==
  {t \in Task \ Urgent : f # NoFocus /\ PathOf[t] \in Below[f]}
BackgroundLane(f) == Task \ (Urgent \cup FocusLane(f))

Queued == Elements(urgent) \cup Elements(focused) \cup Elements(background)

HasRunnableWork ==
  \/ urgent # <<>>
  \/ focused # <<>>
  \/ ~paused /\ background # <<>>

-----------------------------------------------------------------------------

(* push and push_many: every task goes to the end of its lane. *)
PushMany(ts) ==
  /\ urgent' = urgent \o Retain(ts, Urgent)
  /\ focused' = focused \o Retain(ts, FocusLane(focus))
  /\ background' = background \o Retain(ts, BackgroundLane(focus))
  /\ pushed' = pushed \cup Elements(ts)
  /\ UNCHANGED <<focus, paused, shut>>

PopUrgent(t) ==
  /\ urgent # <<>>
  /\ t = Head(urgent)
  /\ urgent' = Tail(urgent)
  /\ UNCHANGED <<focused, background>>

PopFocusedKeeps(t) ==     \* variant: the task stays in its lane
  /\ urgent = <<>> /\ focused # <<>>
  /\ t = focused[Len(focused)]
  /\ UNCHANGED <<urgent, focused, background>>
PopFocused(t) ==
  /\ urgent = <<>> /\ focused # <<>>
  /\ t = focused[Len(focused)]
  /\ focused' = SubSeq(focused, 1, Len(focused) - 1)
  /\ UNCHANGED <<urgent, background>>

PopBackground(t) ==
  /\ urgent = <<>> /\ focused = <<>> /\ ~paused /\ background # <<>>
  /\ t = background[Len(background)]
  /\ background' = SubSeq(background, 1, Len(background) - 1)
  /\ UNCHANGED <<urgent, focused>>

(* pop, when it returns a task. *)
PopTaskAnyway(t) ==       \* variant: shutting_down is not looked at first
  /\ PopUrgent(t) \/ PopFocused(t) \/ PopBackground(t)
  /\ UNCHANGED <<focus, paused, shut, pushed>>
PopTask(t) ==
  /\ ~shut
  /\ PopUrgent(t) \/ PopFocused(t) \/ PopBackground(t)
  /\ UNCHANGED <<focus, paused, shut, pushed>>

(* Every queued task moves to the lane that matches the new focus; the     *)
(* previously focused ones are pushed first.                               *)
SetFocusOnly(f) ==        \* variant: the queued tasks stay where they are
  /\ f # focus
  /\ focus' = f
  /\ UNCHANGED <<urgent, focused, background, paused, shut, pushed>>
SetFocusWithoutTake(f) == \* variant: the focused lane is copied, not taken
  /\ f # focus
  /\ focus' = f
  /\ focused' = Retain(focused \o focused \o background, FocusLane(f))
  /\ background' = Retain(focused \o background, BackgroundLane(f))
  /\ UNCHANGED <<urgent, paused, shut, pushed>>
SetFocus(f) ==
  /\ f # focus
  /\ focus' = f
  /\ focused' = Retain(focused \o background, FocusLane(f))
  /\ background' = Retain(focused \o background, BackgroundLane(f))
  /\ UNCHANGED <<urgent, paused, shut, pushed>>

SetBackgroundPaused(p) ==
  /\ paused' = p
  /\ UNCHANGED <<urgent, focused, background, focus, shut, pushed>>

(* discard_matching: X is what should_discard returns true for. *)
DiscardMatching(X) ==
  /\ urgent' = Retain(urgent, Task \ X)
  /\ focused' = Retain(focused, Task \ X)
  /\ background' = Retain(background, Task \ X)
  /\ UNCHANGED <<focus, paused, shut, pushed>>

(* The measurements below p, before a rescan or a removal of p. *)
MeasurementsUnder(p) == {t \in Measure : PathOf[t] \in Below[p]}

(* The tasks of one heaviest-files query or discovery search. *)
TasksOf(j) == {t \in Task \ Measure : Walk[t] = j}

Shutdown ==
  /\ shut' = TRUE
  /\ urgent' = <<>> /\ focused' = <<>> /\ background' = <<>>
  /\ UNCHANGED <<focus, paused, pushed>>

QueueInit ==
  /\ urgent = <<>> /\ focused = <<>> /\ background = <<>>
  /\ focus = NoFocus
  /\ paused = FALSE
  /\ shut = FALSE
  /\ pushed = {}

-----------------------------------------------------------------------------

(* Type invariant. *)
QueueTypeOK ==
  /\ urgent \in Seq(Task)
  /\ focused \in Seq(Task)
  /\ background \in Seq(Task)
  /\ focus \in Path \cup {NoFocus}
  /\ paused \in BOOLEAN
  /\ shut \in BOOLEAN
  /\ pushed \subseteq Task

(* The lanes always reflect the current focus: whatever pushes, discards   *)
(* and changes of focus came before, a task waits in the focused lane      *)
(* exactly when its directory is below the focus.  A worker that takes     *)
(* from the focused lane therefore works for what the user looks at now,   *)
(* and pausing the background never stops the branch on screen.            *)
LanesMatchFocus ==
  /\ Elements(urgent) \subseteq Urgent
  /\ Elements(focused) \subseteq FocusLane(focus)
  /\ Elements(background) \subseteq BackgroundLane(focus)

(* No task waits at two places: two workers never get the same task, and   *)
(* discarding a task removes it for good.                                  *)
NoTaskQueuedTwice ==
  /\ Distinct(urgent)
  /\ Distinct(focused)
  /\ Distinct(background)
=============================================================================
