------------------------------ MODULE Removal -------------------------------
(***************************************************************************)
(* Removing things from the disk (infrastructure/filesystem/               *)
(* std_file_remover.rs) and the thread that works through the items of a   *)
(* plan: DeletionService::execute for the items marked in the explorer and *)
(* CleaningExecutor::execute for the targets of the cleaner.  Both send    *)
(* their progress through a channel and read a flag that asks them to      *)
(* stop.                                                                   *)
(*                                                                         *)
(* One step of the thread is one system call that changes or lists         *)
(* something, so that a cancellation, another process that removes files,  *)
(* and the interface come between any two of them.                         *)
(***************************************************************************)
EXTENDS Lists, SequencesExt

CONSTANTS
  Entry,        \* files and directories
  Directory,    \* the directories among them
  Inside,       \* what each directory holds, in the order it is read
  Weight,       \* allocated bytes of each entry
  CancelEvery,  \* CANCEL_CHECK_INTERVAL: files between two looks at the flag
  Home,         \* the home directory
  NeverDelete   \* the protected locations of the CriticalPathGuard

VARIABLES
  disk,         \* entries that exist
  obstacles,    \* how removing an entry fails: "none", "denied", "failed", or
                \* "unlistable", a directory that cannot be read
  cancel,       \* the flag
  worker,       \* the thread and its plan
  channel       \* its messages to the interface

removalVars == <<disk, obstacles, cancel, worker, channel>>

(* e and everything inside it. *)
Under(e) ==
  LET below[n \in 0 .. Cardinality(Directory)] ==
        IF n = 0 THEN {e}
        ELSE UNION {{x} \cup (IF x \in Directory THEN ToSet(Inside[x]) ELSE {}) : x \in below[n - 1]}
  IN  below[Cardinality(Directory)]
Above(e) == {x \in Directory : e \in Under(x)}
ReadDir(d) == Retain(Inside[d], disk)

(* A path lies below the paths it starts with: an order of paths.  Two     *)
(* entries of a directory have nothing in common, and neither leads back.  *)
ASSUME RemovalAssumption ==
  /\ IsFiniteSet(Entry) /\ Directory \subseteq Entry
  /\ Weight \in [Entry -> Nat]
  /\ Inside \in [Directory -> Seq(Entry)] /\ \A d \in Directory : Distinct(Inside[d])
  /\ \A d \in Directory : \A x \in Elements(Inside[d]) :
       d \notin Under(x) /\ \A y \in Elements(Inside[d]) \ {x} : Under(x) \cap Under(y) = {}
  /\ \A e \in Entry : \A f \in Under(e) : Under(f) \subseteq Under(e) /\ (e \in Under(f) => e = f)

(* CriticalPathGuard::check, of absolute paths below the root directory *)
GuardRefuses(e) == e \in NeverDelete \/ e \in Above(Home) \cup {Home}

-----------------------------------------------------------------------------
(* remove_permanently.  A job keeps the directories still to visit, the    *)
(* files of the one being read and the first error; for remove_contents    *)
(* also the entries still to be removed (todo) and how others failed.      *)

NoJob == [at |-> "idle"]
NewJob(whole, todo) ==
  [whole |-> whole, todo |-> todo, stack |-> <<>>, files |-> <<>>, since |-> 0,
   first |-> "none", failed |-> {}, at |-> "next", entries |-> 0, bytes |-> 0]

(* What an attempt to unlink an entry, or to remove a directory, gives. *)
UnlinkError(e) ==
  IF e \notin disk THEN "not found"
  ELSE IF e \in Directory /\ ReadDir(e) # <<>> THEN "failed"
  ELSE IF obstacles[e] = "unlistable" THEN "none" ELSE obstacles[e]

Noted(j, err) == IF j.first = "none" THEN [j EXCEPT !.first = err] ELSE j
EndedUncounted(j, err) ==                                         \* variant
  [j EXCEPT !.at = "done", !.first = err,
            !.entries = IF err = "cancelled" THEN 0 ELSE @, !.bytes = IF err = "cancelled" THEN 0 ELSE @]
Ended(j, err) == [j EXCEPT !.at = "done", !.first = err]

(* entry_removed: counted by the observer *)
Gone(j, e, bytes) == [j EXCEPT !.entries = @ + 1, !.bytes = @ + bytes]

(* remove, or the next entry of remove_contents. *)
StartPath(j) ==
  LET e == Head(j.todo)
      n == [j EXCEPT !.todo = Tail(@), !.since = 0, !.first = "none"]
  IN  IF ~j.whole /\ cancel THEN <<Ended(j, "cancelled"), {}>>
      ELSE IF e \notin disk THEN <<[n EXCEPT !.at = "result", !.first = "not found"], {}>>
      ELSE IF e \in Directory
      THEN <<[n EXCEPT !.at = "walk", !.stack = <<[dir |-> e, done |-> FALSE]>>], {}>>
      ELSE IF UnlinkError(e) # "none"
      THEN <<[n EXCEPT !.at = "result", !.first = UnlinkError(e)], {}>>
      ELSE <<[Gone(n, e, Weight[e]) EXCEPT !.at = "result"], {e}>>

RemoveDirectory(j) ==
  LET e == j.stack[Len(j.stack)].dir
      n == [j EXCEPT !.stack = Front(@)]
      err == UnlinkError(e)
  IN  IF err = "none" THEN <<Gone(n, e, 0), {e}>>
      ELSE IF err = "not found" THEN <<n, {}>> ELSE <<Noted(n, err), {}>>

(* A directory that cannot be read is given up. *)
VisitDirectory(j) ==
  LET e == j.stack[Len(j.stack)].dir
      rest == Front(j.stack)
      subdirs == Retain(ReadDir(e), Directory)
  IN  IF cancel THEN <<Ended(j, "cancelled"), {}>>
      ELSE IF e \notin disk THEN <<Noted([j EXCEPT !.stack = rest], "not found"), {}>>
      ELSE IF obstacles[e] = "unlistable" THEN <<Noted([j EXCEPT !.stack = rest], "denied"), {}>>
      ELSE <<[j EXCEPT !.stack = Append(rest, [dir |-> e, done |-> TRUE])
                                   \o [i \in DOMAIN subdirs |-> [dir |-> subdirs[i], done |-> FALSE]],
                       !.files = Retain(ReadDir(e), Entry \ Directory)], {}>>

(* A file that is gone already is no error. *)
RemoveFile(j) ==
  LET e == Head(j.files)
      err == UnlinkError(e)
      n == [j EXCEPT !.files = Tail(@), !.since = (@ + 1) % CancelEvery]
      m == IF err = "none" THEN Gone(n, e, Weight[e])
           ELSE IF err = "not found" THEN n ELSE Noted(n, err)
  IN  <<IF m.since = 0 /\ cancel THEN Ended(m, "cancelled") ELSE m,
        IF err = "none" THEN {e} ELSE {}>>

(* The end of one path: of the job, or of one entry of remove_contents. *)
PathResult(j) ==
  IF j.whole THEN <<Ended(j, j.first), {}>>
  ELSE <<[j EXCEPT !.at = "next",
                   !.failed = IF j.first \in {"none", "not found"} THEN @ ELSE @ \cup {j.first}], {}>>

(* What the thread does next, and the entries that leave the disk by it. *)
RemoverStep(j) ==
  IF j.at = "next" /\ j.todo # <<>> THEN StartPath(j)
  ELSE IF j.at = "next" THEN <<Ended(j, "none"), {}>>
  ELSE IF j.at = "result" THEN PathResult(j)
  ELSE IF j.files # <<>> THEN RemoveFile(j)
  ELSE IF j.stack = <<>> THEN <<[j EXCEPT !.at = "result"], {}>>
  ELSE IF j.stack[Len(j.stack)].done THEN RemoveDirectory(j)
  ELSE VisitDirectory(j)

-----------------------------------------------------------------------------
(* The thread of a run.  An item is a path with the tree node that shows   *)
(* it, or a cleaning target with its number.                               *)

NoWorker == [at |-> "off"]
Launch(kind, mode, plan) ==
  [at |-> "item", kind |-> kind, mode |-> mode, plan |-> plan, outcomes |-> <<>>, job |-> NoJob]

Item == worker.plan[Len(worker.outcomes) + 1]

(* A removal that succeeds in part and one that fails are told apart by    *)
(* what the observer counted.  An error NotFound counts as success.        *)
StatusByFirst(err, failed) ==                                     \* variant
  CASE err = "cancelled" -> "cancelled" [] err = "denied" -> "needs privileges"
    [] err = "failed" -> "failed" [] OTHER -> "removed"
StatusOf(err, failed) ==
  CASE err = "cancelled" -> "cancelled"
    [] err = "denied" \/ "denied" \in failed -> "needs privileges"
    [] err = "failed" \/ failed # {} -> "failed"
    [] OTHER -> "removed"

Outcome(item, status, entries, bytes) ==
  [item |-> item, status |-> status, entries |-> entries, bytes |-> bytes,
   reclaimed |-> IF bytes > 0 THEN bytes ELSE IF status = "removed" THEN item.size ELSE 0]

ItemStarted == [type |-> "started"]
ItemFinished(o) == [type |-> "finished", outcome |-> o]
ItemProgress(j) == [type |-> "progress", entries |-> j.entries, bytes |-> j.bytes]
RunFinished(outcomes) == [type |-> "report", outcomes |-> outcomes]

Conclude(o, started) ==
  /\ worker' = [worker EXCEPT !.job = NoJob, !.outcomes = Append(@, o)]
  /\ channel' = channel \o (IF started THEN <<ItemStarted>> ELSE <<>>) \o <<ItemFinished(o)>>

AtItem == worker.at = "item" /\ worker.job = NoJob /\ Len(worker.outcomes) < Len(worker.plan)

(* After a cancellation the other items are reported without being touched. *)
SkipItem ==
  /\ AtItem /\ cancel
  /\ Conclude(Outcome(Item, "cancelled", 0, 0), FALSE)
  /\ UNCHANGED <<disk, obstacles, cancel>>

(* The cleaner refuses to empty a directory directly below the root. *)
Refused ==
  IF Item.what = "contents" THEN Above(Item.path) = {Item.path} ELSE GuardRefuses(Item.path)

RefuseItem ==
  /\ AtItem /\ ~cancel /\ Item.what \in {"path", "contents"} /\ Refused
  /\ Conclude(Outcome(Item, "refused", 0, 0), TRUE)
  /\ UNCHANGED <<disk, obstacles, cancel>>

(* An image, a prune or a command: Docker or another program does it, or   *)
(* reports an error.                                                       *)
RunExternal ==
  /\ AtItem /\ ~cancel /\ Item.what = "external"
  /\ \E status \in {"removed", "failed"} : Conclude(Outcome(Item, status, 0, 0), TRUE)
  /\ UNCHANGED <<disk, obstacles, cancel>>

(* move_to_trash is one call, counted as one entry of unknown size. *)
MoveToTrash ==
  /\ AtItem /\ ~cancel /\ worker.mode = "trash" /\ Item.what = "path" /\ ~Refused
  /\ LET e == Item.path
         o == CASE e \notin disk -> Outcome(Item, "removed", 0, 0)
                [] e \in disk /\ obstacles[e] = "denied" -> Outcome(Item, "needs privileges", 0, 0)
                [] e \in disk /\ obstacles[e] = "failed" -> Outcome(Item, "failed", 0, 0)
                [] OTHER -> Outcome(Item, "removed", 1, 0)
     IN  /\ Conclude(o, TRUE)
         /\ disk' = IF o.status = "removed" THEN disk \ Under(e) ELSE disk
  /\ UNCHANGED <<obstacles, cancel>>

(* remove_contents fails as a whole when the directory cannot be read, or  *)
(* is none.                                                                *)
StartItem ==
  /\ AtItem /\ ~cancel /\ worker.mode = "permanent" /\ Item.what \in {"path", "contents"} /\ ~Refused
  /\ LET e == Item.path
         j == IF Item.what = "path" THEN NewJob(TRUE, <<e>>)
              ELSE IF e \notin disk THEN Ended(NewJob(FALSE, <<>>), "not found")
              ELSE IF e \notin Directory THEN Ended(NewJob(FALSE, <<>>), "failed")
              ELSE IF obstacles[e] = "unlistable" THEN Ended(NewJob(FALSE, <<>>), "denied")
              ELSE NewJob(FALSE, ReadDir(e))
     IN  worker' = [worker EXCEPT !.job = j]
  /\ channel' = Append(channel, ItemStarted)
  /\ UNCHANGED <<disk, obstacles, cancel>>

(* Progress is sent when the last message is old enough. *)
WorkOnItem ==
  /\ worker.at = "item" /\ worker.job # NoJob /\ worker.job.at # "done"
  /\ LET step == RemoverStep(worker.job)
     IN  /\ worker' = [worker EXCEPT !.job = step[1]]
         /\ disk' = disk \ step[2]
         /\ \/ channel' = channel
            \/ step[2] # {} /\ channel' = Append(channel, ItemProgress(step[1]))
  /\ UNCHANGED <<obstacles, cancel>>

FinishItemAfresh ==                                               \* variant
  /\ worker.at = "item" /\ worker.job # NoJob /\ worker.job.at = "done"
  /\ LET j == worker.job
     IN  Conclude(Outcome(Item, StatusOf(j.first, j.failed), j.entries, j.bytes), FALSE)
  /\ cancel' = FALSE
  /\ UNCHANGED <<disk, obstacles>>
FinishItem ==
  /\ worker.at = "item" /\ worker.job # NoJob /\ worker.job.at = "done"
  /\ LET j == worker.job
     IN  Conclude(Outcome(Item, StatusOf(j.first, j.failed), j.entries, j.bytes), FALSE)
  /\ UNCHANGED <<disk, obstacles, cancel>>

FinishSilently ==                                                 \* variant
  /\ worker.at = "item" /\ worker.job = NoJob /\ Len(worker.outcomes) = Len(worker.plan)
  /\ worker' = NoWorker
  /\ channel' = IF cancel THEN channel ELSE Append(channel, RunFinished(worker.outcomes))
  /\ UNCHANGED <<disk, obstacles, cancel>>
FinishRun ==
  /\ worker.at = "item" /\ worker.job = NoJob /\ Len(worker.outcomes) = Len(worker.plan)
  /\ worker' = NoWorker
  /\ channel' = Append(channel, RunFinished(worker.outcomes))
  /\ UNCHANGED <<disk, obstacles, cancel>>

WorkerSteps ==
  \/ SkipItem \/ RefuseItem \/ RunExternal \/ MoveToTrash \/ StartItem
  \/ WorkOnItem \/ FinishItem \/ FinishRun
=============================================================================
