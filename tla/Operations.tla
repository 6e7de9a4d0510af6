----------------------------- MODULE Operations -----------------------------
(***************************************************************************)
(* Deleting marked items and cleaning targets, from the marks and the list *)
(* to the disk and back: the confirmation, the run on its own thread       *)
(* (Removal), the modal that follows it (presentation/app/operation.rs),   *)
(* what is done to the tree and the list when it ends, and the commands    *)
(* with administrator rights that follow.                                  *)
(*                                                                         *)
(* The interface thread handles any number of keys between two ticks; a    *)
(* command that needs the terminal runs before the next tick.  Of the tree *)
(* the model has the node of each directory and its total, in the size     *)
(* mode on screen; a directory that is scanned again is read by a scanner  *)
(* thread, at one time with all it holds, and counts nothing until this    *)
(* arrives (ScanTree has the tasks and events, and what goes on in the     *)
(* tree while items are removed).                                          *)
(***************************************************************************)
EXTENDS Cleaning

CONSTANTS
  RecentCapacity,  \* RECENT_CAPACITY
  PathRank,        \* the order of paths (BTreeMap<PathBuf, _>)
  Unread,          \* of a directory that no scanner thread has read yet
  Scenarios        \* what a behaviour keeps to: keys, how many of them (a
                   \* bound), obstacles, what vanishes, and so on

VARIABLES
  list,         \* the CleaningService, the roots that measure its targets, and
                \* the rules of its configuration
  tree,         \* the explorer's tree: the node and the total of each directory
  made,         \* the number of the nodes made last
  rescans,      \* directories of that tree that are being measured again, with
                \* what was read of each
  marks,        \* the size of each marked item, and the node that its mark
                \* remembers: its own, or that of the directory it is in
  run,          \* the OperationRun of the modal
  overlay,      \* the confirmation dialog
  foreground,   \* pending_foreground
  inventory,    \* what Docker answers
  before,       \* the disk when the run began (history)
  lost,         \* what left the disk without the program's doing, or by sudo
                \* while a run was going on (history)
  counted,      \* the files that the totals contain (history)
  doubled,      \* files taken off the totals that did not contain them (history)
  unseen,       \* what was removed, or was to be measured, and is not, because a
                \* node was gone (history)
  scenario, keys

ASSUME OperationsAssumption ==
  /\ PathRank \in [Entry -> Nat] /\ \A e, f \in Entry : PathRank[e] = PathRank[f] => e = f
  /\ RecentCapacity \in Nat /\ \A S \in SUBSET Entry : S # Unread
  /\ \A s \in Scenarios :
       /\ s.obstacles \in [Entry -> {"none", "denied", "failed", "unlistable"}]
       /\ s.mode \in {"permanent", "trash"} /\ s.markable \subseteq Entry
       /\ s.used \subseteq SUBSET ToSet(Images)

treeVars == <<tree, made, rescans, marks, counted, doubled, unseen>>
uiVars == <<list, run, overlay, foreground>>
worldVars == <<inventory, before, lost, scenario, keys>>
vars == <<removalVars, discoveryVars, uiVars, treeVars, worldVars>>

NoRun == [kind |-> "none"]
NoDialog == [type |-> "none"]
NoNode == 0
NoAction == [type |-> "none"]
NoAnswer == [status |-> "pending", used |-> {}]

(* The record that the operators of Cleaning work on. *)
State == [cleaner |-> list.cleaner, roots |-> list.roots, rules |-> list.rules,
          searches |-> searches, enabled |-> scenario.enabled]
Becomes(s) == list' = [cleaner |-> s.cleaner, roots |-> s.roots, rules |-> s.rules]
                /\ searches' = s.searches

-----------------------------------------------------------------------------
(* OperationRun *)

NewRun(kind, total) ==
  [kind |-> kind, total |-> total, finishedCount |-> 0, current |-> FALSE,
   entries |-> 0, bytes |-> 0, finishedEntries |-> 0, finishedBytes |-> 0,
   recent |-> <<>>, finished |-> FALSE, report |-> <<>>]

PushForever(recent, status) == Append(recent, status)             \* variant
PushRecent(recent, status) ==
  LET all == Append(recent, status)
  IN  IF Len(all) > RecentCapacity THEN Tail(all) ELSE all

KeepCurrent(r, o) ==                                              \* variant
  [r EXCEPT !.finishedCount = @ + 1, !.finishedEntries = @ + o.entries,
            !.finishedBytes = @ + o.reclaimed, !.recent = PushRecent(@, o.status)]
(* finish_current, for an ItemFinished *)
FinishCurrent(r, o) ==
  [r EXCEPT !.finishedCount = IF @ < r.total THEN @ + 1 ELSE r.total,
            !.finishedEntries = @ + o.entries, !.finishedBytes = @ + o.reclaimed,
            !.recent = PushRecent(@, o.status),
            !.current = FALSE, !.entries = 0, !.bytes = 0]

ApplyMessage(r, m) ==
  CASE m.type = "started" -> [r EXCEPT !.current = TRUE, !.entries = 0, !.bytes = 0]
    [] m.type = "progress" -> [r EXCEPT !.entries = m.entries, !.bytes = m.bytes]
    [] m.type = "finished" -> FinishCurrent(r, m.outcome)
    [] m.type = "report" -> [r EXCEPT !.finished = TRUE, !.finishedCount = r.total,
                                      !.report = m.outcomes]

Running == run # NoRun /\ ~run.finished

-----------------------------------------------------------------------------
(* The tree. *)

Tree == [tree |-> tree, made |-> made, rescans |-> rescans, marks |-> marks,
         counted |-> counted, doubled |-> doubled, unseen |-> unseen]
TreeBecomes(t) ==
  /\ tree' = t.tree /\ made' = t.made /\ rescans' = t.rescans /\ marks' = t.marks
  /\ counted' = t.counted /\ doubled' = t.doubled /\ unseen' = t.unseen

FilesOf(S) == S \ Directory
SizeOf(S) == MapThenSumSet(LAMBDA x : Weight[x], FilesOf(S))
(* The directory whose node shows e: itself, or the one it is in. *)
Shower(e) == IF e \in Directory THEN e ELSE CHOOSE d \in Directory : e \in ToSet(Inside[d])
NodeAt(T, e) == IF Shower(e) \in DOMAIN T THEN T[Shower(e)].node ELSE NoNode
Lives(T, d, node) == d \in DOMAIN T /\ T[d].node = node
Without(f, S) == [x \in DOMAIN f \ S |-> f[x]]
With(f, x, v) == [y \in DOMAIN f \cup {x} |-> IF y = x THEN v ELSE f[y]]

Grow(T, D, n) == [d \in DOMAIN T |-> IF d \in D THEN [T[d] EXCEPT !.total = @ + n] ELSE T[d]]
Shrink(T, D, n) ==
  [d \in DOMAIN T |-> IF d \in D THEN [T[d] EXCEPT !.total = IF @ > n THEN @ - n ELSE 0] ELSE T[d]]

(* What the tree contains, or will when what was read arrives. *)
Contained(t) == DOMAIN t.tree \cup t.counted
                  \cup UNION {t.rescans[d] : d \in {x \in DOMAIN t.rescans : t.rescans[x] # Unread}}
(* Something at e was not booked. *)
Miss(t, e) == [t EXCEPT !.unseen = @ \cup (Under(e) \cap Contained(t))]

(* remove_subtree; of a node that is gone the path is empty, and what is   *)
(* queued for any directory is discarded.                                  *)
RemoveSubtree(t, e, node) ==
  LET queued == {d \in DOMAIN t.rescans : t.rescans[d] = Unread}
  IN  IF Lives(t.tree, e, node)
      THEN [t EXCEPT !.tree = Shrink(Without(t.tree, Under(e)), Above(e), t.tree[e].total),
                     !.rescans = Without(@, Under(e)), !.counted = @ \ Under(e)]
      ELSE [Miss(t, e) EXCEPT !.rescans = Without(@, queued), !.unseen = @ \cup queued]

TakeOffParent(t, f, node, size) ==                                      \* variant
  IF ~Lives(t.tree, Shower(f), node) THEN Miss(t, f)
  ELSE [t EXCEPT !.tree = Shrink(t.tree, {Shower(f)}, size), !.counted = @ \ {f}]
(* forget_files, of one file in the directory of a node. *)
ForgetFile(t, f, node, size) ==
  IF ~Lives(t.tree, Shower(f), node) THEN Miss(t, f)
  ELSE [t EXCEPT !.tree = Shrink(t.tree, Above(f), size), !.counted = @ \ {f},
                 !.doubled = @ \cup ({f} \ t.counted)]

(* rescan; nothing happens for a node that is gone. *)
RescanTree(t, e, node) ==
  IF ~Lives(t.tree, e, node) THEN Miss(t, e)
  ELSE LET T == Shrink(Without(t.tree, Under(e) \ {e}), Above(e), t.tree[e].total)
       IN  [t EXCEPT !.tree = T, !.counted = @ \ Under(e),
                     !.rescans = With(Without(@, Under(e)), e, Unread)]

(* apply_measurement, of all that was read below d. *)
Arrive(t, d) ==
  LET S == t.rescans[d]
      fresh == (S \cap Directory) \ {d}
      T == [x \in DOMAIN t.tree \cup fresh |->
              IF x \in fresh THEN [node |-> t.made, total |-> SizeOf(Under(x) \cap S)] ELSE t.tree[x]]
  IN  [t EXCEPT !.tree = Grow(T, Above(d), SizeOf(S)), !.rescans = Without(@, {d}),
                !.counted = @ \cup FilesOf(S)]

(* absorb_removed_item.  The parent of a file is what its mark remembers,  *)
(* or else the node that is there now.                                     *)
AbsorbRemoved(t, item) ==
  LET e == item.path
      parent == IF e \in DOMAIN t.marks /\ t.marks[e].node # NoNode THEN t.marks[e].node
                ELSE NodeAt(t.tree, e)
      unmarked == [t EXCEPT !.marks = Without(@, {e})]
  IN  IF e \in Directory THEN RemoveSubtree(unmarked, e, item.node)
      ELSE ForgetFile(unmarked, e, parent, item.size)

(* absorb_deletion_report, of one outcome.  Only directories have a node.  *)
AbsorbOutcome(t, o) ==
  IF o.status = "removed" THEN AbsorbRemoved(t, o.item)
  ELSE IF o.entries > 0 /\ o.item.path \in Directory THEN RescanTree(t, o.item.path, o.item.node)
  ELSE t

-----------------------------------------------------------------------------
(* Keys.  Every key goes to the modal first, then to a dialog, then to the *)
(* screen.                                                                 *)

Press(op) ==
  /\ op \in scenario.may /\ keys < scenario.times
  /\ keys' = keys + 1
  /\ UNCHANGED <<disk, obstacles, scout, finds, scenario, lost>>

Screen(op) == Press(op) /\ run = NoRun /\ overlay = NoDialog

(* What the explorer and the heaviest screen show: directories of the tree *)
(* and files, which the latter keeps when they are gone.                   *)
Markable == {e \in scenario.markable : e \in Directory => e \in DOMAIN tree}
MarkOf(e) == [size |-> IF e \in Directory THEN tree[e].total ELSE Weight[e],
              node |-> NodeAt(tree, e)]

ToggleMark ==
  /\ Screen("mark")
  /\ \E e \in Markable :
       marks' = IF e \in DOMAIN marks THEN Without(marks, {e}) ELSE With(marks, e, MarkOf(e))
  /\ UNCHANGED <<removalVars, discoveryVars, uiVars, inventory, before>>
  /\ UNCHANGED <<tree, made, rescans, counted, doubled, unseen>>

DeletionItem(e, m) == [what |-> "path", path |-> e, size |-> m.size, node |-> m.node, id |-> 0]
Dialog(action, plan) == [type |-> "confirm", action |-> action, plan |-> plan]

(* The paths of a set in their order: a path comes after those before it. *)
InOrder(paths) ==
  [i \in 1 .. Cardinality(paths) |->
     CHOOSE p \in paths : Cardinality({o \in paths : PathRank[o] < PathRank[p]}) = i - 1]

(* The size of a marked directory is what the tree knows now. *)
Refreshed(e, m) ==
  IF Lives(tree, e, m.node) THEN [m EXCEPT !.size = tree[e].total] ELSE m

(* Without marks, the selected item is marked.  The items come in the      *)
(* order of their paths.                                                   *)
RequestDeletion ==
  /\ Screen("delete")
  /\ \E chosen \in IF marks # <<>> THEN {marks} ELSE {With(marks, e, MarkOf(e)) : e \in Markable} :
       LET paths == InOrder(DOMAIN chosen)
       IN  /\ marks' = [e \in DOMAIN chosen |-> Refreshed(e, chosen[e])]
           /\ overlay' = Dialog("delete",
                                [i \in DOMAIN paths |-> DeletionItem(paths[i], marks'[paths[i]])])
  /\ UNCHANGED <<removalVars, discoveryVars, list, run, foreground, inventory, before>>
  /\ UNCHANGED <<tree, made, rescans, counted, doubled, unseen>>

(* `r` in the explorer. *)
RescanDirectory ==
  /\ Screen("rescan")
  /\ \E d \in scenario.rescanned \cap DOMAIN tree :
       TreeBecomes(RescanTree(Tree, d, tree[d].node))
  /\ UNCHANGED <<removalVars, discoveryVars, uiVars, inventory, before>>

RequestCleaning ==
  /\ Screen("clean")
  /\ BuildPlan(list.cleaner) # <<>>
  /\ overlay' = Dialog("clean", BuildPlan(list.cleaner))
  /\ UNCHANGED <<removalVars, discoveryVars, list, run, foreground, treeVars, inventory, before>>

(* The keys of the cleaner that select. *)
SelectTargets ==
  /\ Screen("select")
  /\ \E c \in {Toggle(list.cleaner, id) : id \in Ids(list.cleaner)}
               \cup {ToggleCategory(list.cleaner, category) : category \in scenario.enabled}
               \cup {SetAll(list.cleaner, on) : on \in BOOLEAN} :
       list' = [list EXCEPT !.cleaner = c]
  /\ UNCHANGED <<removalVars, discoveryVars, run, overlay, foreground, treeVars, inventory, before>>

(* restart_cleaner; Docker is asked again.  A bound on the searches.  *)
RestartAnyTime ==                                                 \* variant
  /\ Press("restart") /\ searches.next <= scenario.searches
  /\ Becomes(Begin(State))
  /\ inventory' = NoAnswer
  /\ UNCHANGED <<removalVars, scout, finds, run, overlay, foreground, treeVars, before>>
RestartCleaner ==
  /\ Screen("restart") /\ searches.next <= scenario.searches
  /\ Becomes(Begin(State))
  /\ inventory' = NoAnswer
  /\ UNCHANGED <<removalVars, scout, finds, run, overlay, foreground, treeVars, before>>

(* push_config_to_cleaner: the rules of a new configuration. *)
ChangeRules ==
  /\ Screen("rules")
  /\ list' = [list EXCEPT !.rules = scenario.rules]
  /\ UNCHANGED <<removalVars, discoveryVars, run, overlay, foreground, treeVars, inventory, before>>

(* start_deletion, start_cleaning: the dialog is gone and the thread runs. *)
ConfirmRun ==
  /\ Press("confirm") /\ run = NoRun /\ overlay.type = "confirm"
  /\ overlay.action \in {"delete", "clean"}
  /\ run' = NewRun(overlay.action, Len(overlay.plan))
  /\ worker' = Launch(overlay.action, IF overlay.action = "delete" THEN scenario.mode ELSE "permanent",
                      overlay.plan)
  /\ channel' = <<>> /\ cancel' = FALSE /\ before' = disk
  /\ overlay' = NoDialog
  /\ UNCHANGED <<discoveryVars, list, foreground, treeVars, inventory>>

ConfirmElevation ==
  /\ Press("confirm") /\ run = NoRun /\ overlay.type = "confirm"
  /\ overlay.action \in {"elevate delete", "elevate clean"}
  /\ foreground' = [type |-> overlay.action, plan |-> overlay.plan]
  /\ overlay' = NoDialog
  /\ UNCHANGED <<removalVars, discoveryVars, list, run, treeVars, inventory, before>>

(* Esc or n, or any key for a message. *)
CloseDialog ==
  /\ Press("close") /\ run = NoRun /\ overlay # NoDialog
  /\ overlay' = NoDialog
  /\ UNCHANGED <<removalVars, discoveryVars, list, run, foreground, treeVars, inventory, before>>

(* Esc in the modal: the flag is set, the run goes on until it is seen. *)
RequestCancel ==
  /\ Press("cancel") /\ Running
  /\ cancel' = TRUE
  /\ UNCHANGED <<worker, channel, discoveryVars, uiVars, treeVars, inventory, before>>

Outcomes(status) == Retain(run.report, {o \in Elements(run.report) : o.status = status})
ItemsOf(outcomes) == [i \in DOMAIN outcomes |-> outcomes[i].item]

(* What needs administrator rights is asked for; that dialog takes the     *)
(* place of the one about failures.                                        *)
Elevate(action) == Dialog(action, ItemsOf(Outcomes("needs privileges")))
FollowUpDeletion ==
  IF Outcomes("needs privileges") # <<>> THEN Elevate("elevate delete")
  ELSE IF Outcomes("failed") \o Outcomes("refused") # <<>> THEN [type |-> "message"]
  ELSE NoDialog
FollowUpCleaning ==
  IF Outcomes("needs privileges") # <<>> THEN Elevate("elevate clean")
  ELSE IF Outcomes("failed") # <<>> THEN [type |-> "message"]
  ELSE NoDialog

(* Any key closes the modal of a finished run. *)
DismissOperation ==
  /\ Press("dismiss") /\ run # NoRun /\ run.finished
  /\ overlay' = IF run.kind = "delete" THEN FollowUpDeletion ELSE FollowUpCleaning
  /\ run' = NoRun
  /\ UNCHANGED <<removalVars, discoveryVars, list, foreground, treeVars, inventory, before>>

UserStep ==
  \/ ToggleMark \/ RequestDeletion \/ RescanDirectory \/ RequestCleaning \/ SelectTargets \/ RestartCleaner
  \/ ChangeRules \/ ConfirmRun \/ ConfirmElevation \/ CloseDialog \/ RequestCancel
  \/ DismissOperation

-----------------------------------------------------------------------------
(* sudo: rm -rf of the paths, and of what directories hold.  When it fails *)
(* some of it may be gone; nothing is absorbed then.                       *)

ItemRemains(item) == IF item.what = "contents" THEN Under(item.path) \ {item.path} ELSE Under(item.path)

RunForeground ==
  /\ foreground # NoAction
  /\ LET plan == foreground.plan
         all == UNION {ItemRemains(plan[i]) : i \in DOMAIN plan}
         absorbed == FoldLeft(AbsorbRemoved, Tree, plan)
         cleaned == [i \in DOMAIN plan |-> Outcome(plan[i], "removed", 0, 0)]
     IN  \/ /\ disk' = disk \ all
            /\ IF foreground.type = "elevate delete"
               THEN TreeBecomes(absorbed) /\ UNCHANGED <<list, searches>>
               ELSE /\ Becomes(AbsorbReport(State, cleaned))
                    /\ UNCHANGED treeVars
            /\ lost' = IF run = NoRun THEN lost ELSE lost \cup (all \cap disk)
         \/ /\ scenario.sudoFails
            /\ \E done \in SUBSET DOMAIN plan :
                 LET gone == UNION {ItemRemains(plan[i]) : i \in done}
                 IN  disk' = disk \ gone /\ lost' = lost \cup (gone \cap disk)
            /\ UNCHANGED <<list, searches, treeVars>>
  /\ foreground' = NoAction
  /\ UNCHANGED <<obstacles, cancel, worker, channel, scout, finds, run, overlay, inventory,
                 before, scenario, keys>>

-----------------------------------------------------------------------------
(* A tick: events of the scanner threads, update of the cleaner if it has  *)
(* started, and the messages of the run.                                   *)

MeasureRoots(roots, M) ==
  [p \in DOMAIN roots |-> IF p \in M THEN [counted |-> Under(p) \cap disk, busy |-> FALSE]
                          ELSE roots[p]]

Tick ==
  /\ foreground = NoAction
  /\ \E measured \in BOOLEAN, read \in {{}, {d \in DOMAIN rescans : rescans[d] # Unread}} :
       LET s == [State EXCEPT !.searches = FoldLeft(ApplyDiscoveryProgress, @, finds),
                              !.roots = IF measured
                                        THEN MeasureRoots(@, {p \in DOMAIN @ : @[p].busy}) ELSE @]
           started == s.cleaner.search # NoSearch \/ s.cleaner.candidates # <<>>
           u == IF started THEN Update(s, inventory) ELSE s
           t == FoldSet(LAMBDA d, x : Arrive(x, d), [Tree EXCEPT !.made = IF read = {} THEN @ ELSE @ + 1], read)
           r == IF run = NoRun THEN run ELSE FoldLeft(ApplyMessage, run, channel)
           ended == r # NoRun /\ r.finished /\ ~run.finished
       IN  /\ run' = r
           /\ TreeBecomes(IF ended /\ r.kind = "delete"
                          THEN FoldLeft(AbsorbOutcome, t, r.report) ELSE t)
           /\ Becomes(IF ended /\ r.kind = "clean" THEN AbsorbReport(u, r.report) ELSE u)
  /\ finds' = <<>>
  /\ channel' = IF run = NoRun THEN channel ELSE <<>>
  /\ UNCHANGED <<disk, obstacles, cancel, worker, scout, overlay, foreground, inventory, before,
                 lost, scenario, keys>>

-----------------------------------------------------------------------------
(* The other actors. *)

WorkerStep ==
  /\ WorkerSteps
  /\ UNCHANGED <<discoveryVars, uiVars, treeVars, worldVars>>

ScoutStepOf(w) ==      \* a bound on the scanner threads
  /\ w \in scenario.scouts /\ ScoutStep(w)
  /\ UNCHANGED <<removalVars, uiVars, treeVars, worldVars>>

(* A scanner thread reads a directory that is measured again. *)
ReadAgain ==
  /\ \E d \in DOMAIN rescans :
       rescans[d] = Unread /\ rescans' = [rescans EXCEPT ![d] = Under(d) \cap disk]
  /\ UNCHANGED <<removalVars, discoveryVars, uiVars, tree, made, marks, counted, doubled, unseen,
                 worldVars>>

(* Another process removes something, with all it holds. *)
Vanish ==
  /\ \E e \in (scenario.vanishing \cap disk) :
       /\ disk' = disk \ Under(e)
       /\ lost' = lost \cup (Under(e) \cap disk)
  /\ worker.at = "item"
  /\ UNCHANGED <<obstacles, cancel, worker, channel, discoveryVars, uiVars, treeVars, inventory,
                 before, scenario, keys>>

(* spawn_docker_inventory: the images in use may not be known, because a   *)
(* container is gone before it is inspected.                               *)
AnswerInventory ==
  /\ list.cleaner.docker = "checking" /\ inventory = NoAnswer
  /\ inventory' \in {[status |-> "available", used |-> used] : used \in scenario.used}
                      \cup {[NoAnswer EXCEPT !.status = "unavailable"]}
  /\ UNCHANGED <<removalVars, discoveryVars, uiVars, treeVars, before, lost, scenario, keys>>

Next ==
  \/ UserStep \/ RunForeground \/ Tick \/ WorkerStep \/ ReadAgain \/ Vanish \/ AnswerInventory
  \/ \E w \in Scout : ScoutStepOf(w)

Init ==
  /\ scenario \in Scenarios /\ keys = 0
  /\ disk = Entry /\ obstacles = scenario.obstacles /\ cancel = FALSE
  /\ worker = NoWorker /\ channel = <<>>
  /\ DiscoveryInit
  /\ list = [cleaner |-> EmptyList, roots |-> <<>>, rules |-> scenario.protected]
  /\ tree = [d \in Directory |-> [node |-> 1, total |-> SizeOf(Under(d) \cap disk)]] /\ made = 1
  /\ rescans = <<>> /\ marks = <<>>
  /\ counted = FilesOf(Entry) /\ doubled = {} /\ unseen = {}
  /\ run = NoRun /\ overlay = NoDialog /\ foreground = NoAction
  /\ inventory = NoAnswer /\ before = Entry /\ lost = {}

(* The thread of a run, the scanner threads (ScanEngine) and Docker's do   *)
(* not stop while they have something to do; the interface ticks at every  *)
(* frame, which is what empties the channels, and hands the terminal over  *)
(* before that.                                                            *)
Drain == channel \o finds # <<>> /\ foreground = NoAction /\ finds' = <<>> /\ channel' = <<>>
Handover == foreground # NoAction /\ foreground' = NoAction
Fairness ==
  /\ WF_<<channel, finds>>(Drain)
  /\ WF_foreground(Handover)
  /\ WF_worker(WorkerStep)
  /\ \A w \in Scout : WF_scout(ScoutStepOf(w))

Spec == Init /\ [][Next]_vars /\ Fairness

-----------------------------------------------------------------------------
(* Properties. *)

SumOf(outcomes, field) == FoldLeft(LAMBDA n, o : n + o[field], 0, outcomes)

(* What the run that is under way, or was the last, has done so far. *)
Settled == worker.at = "item" \/ (run # NoRun /\ run.finished)
Report == IF worker.at = "item" THEN worker.outcomes ELSE run.report
EntriesGone == SumOf(Report, "entries")
                 + IF worker.at = "item" /\ worker.job # NoJob THEN worker.job.entries ELSE 0

(* Every variable keeps its type. *)
OperationsTypeOK ==
  /\ disk \subseteq Entry /\ cancel \in BOOLEAN
  /\ DOMAIN tree \subseteq Directory /\ \A d \in DOMAIN tree : tree[d].total \in Nat
  /\ DOMAIN rescans \subseteq Directory
  /\ \A d \in DOMAIN rescans : rescans[d] # Unread => rescans[d] \subseteq Entry
  /\ DOMAIN marks \subseteq Entry /\ \A e \in DOMAIN marks : marks[e].size \in Nat
  /\ counted \subseteq Entry
  /\ DOMAIN list.roots \subseteq Entry
  /\ list.cleaner.next \in Nat \ {0}
  /\ list.cleaner.search \in DOMAIN searches.known \cup {NoSearch}
  /\ run # NoRun => run.finishedCount \in 0 .. run.total /\ Len(run.recent) <= RecentCapacity
  /\ worker # NoWorker => Len(worker.outcomes) <= Len(worker.plan)

(* "Items after a cancellation request are reported as cancelled without   *)
(* being touched" (deletion_service.rs:103-104): once an item ends because *)
(* of the request, the others do too, and nothing of them was removed.     *)
CancelledStayUntouched ==
  Settled => \A i, j \in DOMAIN Report :
    i < j /\ Report[i].status = "cancelled" =>
      Report[j].status = "cancelled" /\ Report[j].entries = 0

(* Whatever stops a permanent run, at an error, at a cancellation, between *)
(* two files, each entry that it took off the disk is counted in a report, *)
(* once: nothing disappears unreported (std_file_remover.rs:104-138,       *)
(* cleaning_service.rs:166-243).                                           *)
NothingGoneUnreported ==
  Settled /\ (scenario.mode = "permanent" \/ run.kind = "clean") =>
    Cardinality(before \ (disk \cup lost)) = EntriesGone

(* The modal never shows more than was removed, and ends with the sums of  *)
(* the report (operation.rs:158-166): nothing of the item in progress is   *)
(* counted twice.                                                          *)
ModalAddsUp ==
  /\ Running /\ Settled => run.finishedEntries + run.entries <= EntriesGone
  /\ run # NoRun /\ run.finished =>
       /\ run.finishedCount = run.total /\ Len(run.report) = run.total
       /\ run.finishedEntries + run.entries = SumOf(run.report, "entries")
       /\ run.finishedBytes + run.bytes = SumOf(run.report, "reclaimed")

(* What is reported as removed is gone, unless another process, or a       *)
(* command beside the run, removed something too: an error of any entry    *)
(* below keeps an item from succeeding.                                    *)
SuccessMeansGone ==
  Settled /\ lost = {} => \A i \in DOMAIN Report :
    Report[i].status = "removed" /\ Report[i].item.what # "external" =>
      ItemRemains(Report[i].item) \cap disk = {}

(* Once a deletion ends, whatever became of it, the tree has the           *)
(* directories that are on the disk, and the total of each is what its     *)
(* files take, below directories that are being measured again nothing:    *)
(* each removal is taken off every node above, once, through refusals,     *)
(* errors, partial removals, items inside one another and commands with    *)
(* administrator rights.  Left out are files that a total did not contain  *)
(* and nodes that were gone, when the removal was booked.                  *)
Follows ==
  LET again == UNION {Under(d) : d \in DOMAIN rescans}
  IN  /\ DOMAIN tree \ again = (disk \cap Directory) \ again
      /\ \A d \in DOMAIN tree : tree[d].total = SizeOf((Under(d) \cap disk) \ again)
Quiet == ~Running /\ foreground = NoAction /\ lost = {} /\ "clean" \notin scenario.may
TreeFollowsDisk == Quiet /\ unseen = {} /\ doubled = {} => Follows

(* No target is listed twice, however often it is found. *)
TargetsUnique == Unique(list.cleaner)

(* A plan of the cleaner covers what is selected, each thing once. *)
SelectionIsCovered == PlanCoversSelection(list.cleaner)

(* "Protected items are shown but cannot be selected" (README.md): by no   *)
(* key and by no default is a path that a rule covers, or an image that a  *)
(* container is known to use, part of what would be cleaned.               *)
ProtectedNeverSelected ==
  "rules" \notin scenario.may =>
    \A i \in DOMAIN list.cleaner.candidates :
      LET c == list.cleaner.candidates[i]
      IN  c.selected =>
            /\ c.node => ~Protects(scenario.protected, c.path)
            /\ c.path \in ToSet(Images) => c.path \notin scenario.protected
            /\ Cardinality(scenario.used) = 1 => c.path \notin UNION scenario.used

(* While a run or a dialog holds targets by their numbers, no number comes *)
(* to stand for another target: begin starts at one again                  *)
(* (cleaning_service.rs:333), and absorb_report goes by the numbers.       *)
NumbersKeepTheirTargets ==
  LET held == (IF worker.at = "item" /\ worker.kind = "clean" THEN ToSet(worker.plan) ELSE {})
                \cup (IF overlay.type = "confirm" /\ overlay.action \in {"clean", "elevate clean"}
                      THEN ToSet(overlay.plan) ELSE {})
  IN  \A item \in held : \A i \in DOMAIN list.cleaner.candidates :
        list.cleaner.candidates[i].id = item.id => list.cleaner.candidates[i].path = item.path

(* Every run ends and is reported, with or without a cancellation, every   *)
(* command gets the terminal, and every search finishes.                   *)
OperationsSettle ==
  <>[](/\ worker = NoWorker /\ channel = <<>> /\ finds = <<>> /\ foreground = NoAction
       /\ ~Running
       /\ \A q \in DOMAIN searches.known : searches.known[q].finished)

(* "Protect what must stay" (README.md): nothing that a rule of            *)
(* cleaner.protected_paths covers is cleaned.  This fails.                 *)
ProtectedStays ==
  scenario.may \cap {"delete", "rules"} = {} =>
    \A e \in disk \cup before : Protects(scenario.protected, e) => e \in disk \cup lost

(* "The tree is corrected the moment the run finishes, while input is      *)
(* still locked, so nothing can race with the update." (mod.rs:1004-1005)  *)
(* This fails: a measurement can.                                          *)
NothingRacesTheUpdate == Quiet /\ unseen = {} => Follows
=============================================================================
