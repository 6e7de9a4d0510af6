------------------------------ MODULE TaskPool ------------------------------
(***************************************************************************)
(* What the scanner's task queue promises to the code around it, without   *)
(* lanes, locks or threads: a task that was submitted waits in the pool    *)
(* until exactly one worker takes it, or until its owner discards it, or   *)
(* until the pool is closed.  No task is lost on the way, none is handed   *)
(* out twice, none comes back.                                             *)
(*                                                                         *)
(* TaskQueue and ScanEngine are shown to implement this specification;     *)
(* ScanTree uses it in the place of the queue.                             *)
(***************************************************************************)
CONSTANT Task      \* the tasks that are ever created

VARIABLES
  submitted,       \* the tasks handed to the pool so far
  queued,          \* those still waiting in it
  running,         \* those a worker holds
  closed           \* the scanner is shutting down

poolVars == <<submitted, queued, running, closed>>

PoolInit ==
  /\ submitted = {}
  /\ queued = {}
  /\ running = {}
  /\ closed = FALSE

(* New tasks enter the pool, from the tree owner or from a worker that has *)
(* just listed a directory.                                                *)
Submit ==
  \E S \in SUBSET (Task \ submitted) :
    /\ submitted' = submitted \cup S
    /\ queued' = queued \cup S
    /\ UNCHANGED <<running, closed>>

(* A worker takes one waiting task; never after the shutdown.              *)
Take ==
  \E t \in queued :
    /\ ~closed
    /\ queued' = queued \ {t}
    /\ running' = running \cup {t}
    /\ UNCHANGED <<submitted, closed>>

(* A worker is done with its task.                                         *)
Finish ==
  \E t \in running :
    /\ running' = running \ {t}
    /\ UNCHANGED <<submitted, queued, closed>>

(* Waiting tasks are withdrawn; running ones are out of reach.             *)
Discard ==
  \E S \in SUBSET queued :
    /\ queued' = queued \ S
    /\ UNCHANGED <<submitted, running, closed>>

Close ==
  /\ closed' = TRUE
  /\ queued' = {}
  /\ UNCHANGED <<submitted, running>>

PoolNext == Submit \/ Take \/ Finish \/ Discard \/ Close

PoolSpec == PoolInit /\ [][PoolNext]_poolVars
=============================================================================
