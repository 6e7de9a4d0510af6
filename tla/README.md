# A TLA+ model of tree-cleaner

tree-cleaner is a terminal program that measures directory trees with a pool of
threads, shows the sizes while they grow, and removes what the user picks.
The hard part is not the measuring of one directory: it is that worker threads,
the interface thread that owns the tree, a deletion in the background, other
processes and a user who rescans, opens, marks and cleans at any moment must
agree on sizes, on what is still to be done, and on what is gone.

This directory holds the specifications (`*.tla`), the configurations TLC checks
them with (`*.cfg`), the proofs for TLAPS (`*Proofs.tla`, `*Lemmas.tla`) and
`PROJECT.json`, which lists components, runs, mutants, the lines of code behind
every definition, findings, hazards and theorems. Paths below are relative to
`src/src/`.

## 1. The system

| component | state | operations | speaks to |
|---|---|---|---|
| task queue, `application/scanning/task_queue.rs` | three lanes, focus, paused, shutting_down, behind a mutex with a condition variable | push, push_many, pop, set_focus, set_background_paused, discard_matching, shutdown | engine, workers, coordinator |
| scan engine, `scan_engine.rs` | worker slots, desired count, settings, busy counter | start, set_worker_count, the loop of a worker, is_idle, shutdown | queue, workers |
| worker, `scan_worker.rs` | the task in hand with a snapshot of the settings; shared: ids, inodes seen, floors of queries | measure_directory, list_files, collect_heaviest_files, discover | queue (push), coordinator (event channel), disk |
| file tree, `domain/storage/file_tree.rs` | nodes with sizes, outstanding work, generation; roots | insert, record, graft, reset, remove, look up | called by the coordinator only |
| coordinator, `tree_coordinator.rs` | the tree, listings, queries, searches | start_root_scan, rescan, remove_subtree, node_for_path, pump_events, listings, queries, discovery | engine, application, cleaner |
| deletion, `application/deletion/` | the report so far | execute item by item on its own thread | remover, operation modal (channel) |
| file remover, `infrastructure/filesystem/std_file_remover.rs` | none | remove, remove_contents, trash, with an observer | disk |
| operation modal, `presentation/app/operation.rs` | the run, its progress, a cancel flag | drain, request_cancel | deletion, cleaner, application |
| cleaner, `application/cleaning/` | targets, protection, roots of its own | begin, update, toggle, build_plan, absorb_report, execute | coordinator, remover, docker |
| application, `presentation/app/` | screens, rows, marks, dialogs, foreground action | keys and commands | everything |
| preferences, `presentation/app/settings.rs`, `application/configuration/`, `infrastructure/config/` | the configuration, what of it is in effect, what is unsaved, the file | start, change, save, edit, reload, reset | application, engine, cleaner |
| command line, `presentation/input/command_line.rs` | text, cursor, history | edit, recall, submit, parse | application |
| headless mode, `presentation/headless.rs` | none | measure one path, print | engine, coordinator |
| readers, mounts, docker, sudo, screens | none the rest depends on | system calls, rendering | |

Threads: the interface thread (coordinator, application), the workers, one
deletion or cleaning thread at a time, the thread that asks docker. Shared
between them: the queue, the settings (copied on write), the id allocator, the
set of inodes, the busy counter, the floors of queries, the event channel, the
progress channel and its cancel flag. Nothing is persisted but the configuration
file, so the only crash that matters is that of a write of this file: a failed
save may leave it as it was or in pieces.

What makes a component correct:

* **queue and engine**: a task is never lost, doubled or executed twice; the
  lanes match the focus at all times; runnable work is not left to sleeping
  threads; one thread per index; shutdown returns; everything queued is served.
* **tree and coordinator**: totals are sums; a unit of outstanding work exists
  exactly while something can still finish it; a complete directory shows its
  real size; nothing is counted twice; every scan completes.
* **listings, queries, discovery**: an answer is shown only for the question
  still asked; nothing waits for an answer that will not come; the result of a
  query is the largest files; a walk ends exactly when its last task has.
* **deletion, remover, modal, cleaner**: what was removed is reported, once,
  cancelled or not; the totals of the tree follow; numbers keep their targets; nothing
  protected is selected; every run ends.
* **preferences**: program and configuration agree; what is saved is what is in
  effect; nothing unsaved is lost without a question. (The code keeps the first
  and the last in part only: section 5.)

## 2. The modules

| module | models | extends |
|---|---|---|
| `Lists` | vectors and queues as sequences: members, `Retain` | |
| `TaskPool` | the abstract specification of the queue: a set of tasks, taken, discarded, closed | |
| `TaskQueue` | `task_queue.rs`, one action per operation under the lock | `Lists` |
| `ScanEngine` | `scan_engine.rs`: threads, condition variable, worker count, shutdown, around `TaskQueue` | `TaskQueue` |
| `Ancestry` | `file_tree.rs`: the ways up and down in a tree (`Line`, `Subtree`) | |
| `FileTree` | `file_tree.rs`, `tree_node.rs`: operators from a tree to a tree | `Ancestry` |
| `ScanTree` | measurement: `tree_coordinator.rs`, `measure_directory`, and the parts of application, deletion and cleaner that change the tree | `FileTree` |
| `HeaviestFiles` | `heaviest_files.rs`, the bounded collection | |
| `Listings` | the cache of file listings, its requests, `list_files` | `HeaviestFiles`, `Lists` |
| `HeaviestQuery` | the search for the largest files, `collect_heaviest_files` | `HeaviestFiles` |
| `Explorer` | rows, cursor and keys of the explorer and heaviest screens, joined with the two | `FileTree`, `Listings`, `HeaviestQuery` |
| `Discovery` | the search for project artifacts, `discover`, `discovery_rules.rs` | |
| `Removal` | `std_file_remover.rs` and the threads of `DeletionService` and `CleaningExecutor` | `Lists` |
| `Cleaning` | `cleaning_service.rs`: targets, protection, selection, plan, report | `Removal`, `Discovery` |
| `Operations` | marks, dialogs, the modal, what follows a run in the tree and its totals, commands with administrator rights | `Cleaning` |
| `Configuration` | `app_config.rs`, `toml_config_store.rs`, applying, saving, reloading | |
| `CommandLine` | `command_line.rs` | |
| `App` | keys, popups, dialogs, commands, the Settings popup, leaving | `Configuration`, `CommandLine` |
| `DataLemmas` | facts for all proofs: induction over sets, sums, sequences, `Retain`, `Line` | `Lists`, `Ancestry` |
| `FoldLemmas` | what every fold over a finite set keeps; one instance per fold of the models | (none) |
| `ScanEngineProofs`, `ScanTreeProofs`, `ExplorerProofs`, `OperationsProofs`, `AppProofs` | the theorems about the module of that name, after the lemmas about its operators | that module, `DataLemmas`, `FoldLemmas` |
| `DiskProofs` | the theorem about what a run leaves on the disk | `OperationsProofs` |
| `MCScanEngine`, `MCScanTree`, `MCExplorer`, `MCOperations`, `MCApp` | small instances for TLC | |

Operators marked "variant" are a plausible mistake in the code, one per checked
property; they are used by no specification. `PROJECT.json` ("mutants") says
which property TLC finds violated when the variant takes the place of the
definition below it.

The program is too large for one state space. It is cut where components see
little of each other, and each composition repeats of the others only what it
sees: `ScanEngine` reduces a task to the tasks it pushes; `ScanTree` uses the
queue as `TaskPool` specifies it, a set, which `ScanEngine` implements;
`Explorer` reduces measurement to the appearance of nodes; `Operations` reduces
the tree to one node and one total per directory, and a measurement to what was
read below it; `App` reduces an operation to a
modal that takes every key.

### Queue and engine

`TaskQueue` has the lanes `urgent`, `focused` and `background` as sequences in
the order of the code (`urgent` is taken from the front, the others from the
back). A task is a model value; `PathOf`, `Urgent`, `Measure` and `Below` are
the little the queue looks at. `ScanEngine` gives every thread a program
counter `pc` whose values are the places of the loop of `spawn_worker` where
another thread can come between: the check of the index, the look at the lanes,
the sleep, the two sides of `worker_busy()` and `worker_idle()`, the return and
the end of the thread. A lock section is one step, and the notification after
the unlock belongs to it, because a woken thread does nothing before it gets
the lock again. `notify_one` wakes any sleeping thread; the 250 ms timeout may
strike at any time. `set_worker_count` sees a thread that has left its loop but
is not `is_finished()` yet as still there ("leaving"), as the code does.
`pushed` is a history variable: it says which tasks have been seen.

### Tree

A node id is a directory with a serial number, so that the path of a live node
is part of its id; nodes without parent are the roots. A worker works in three
steps: it takes a task with a snapshot of the graft points; it lists the
directory and emits one event (`EmitMeasurement`, `EmitProblem`); it pushes the
child tasks (`PushChildren`). The coordinator applies, in channel order, one
event per step (`ApplyMeasurement`, `ApplyProblem`, `DropEvent`); the user's
operations, which run on the same thread, come between. `RescanNode`,
`ForceDense`, `EnterDirectory`, `OpenPath` and `MeasureForCleaner` are the keys
and commands that change the tree, each with all the calls it makes. A deletion
takes the marks (`ConfirmDeletion`), settles item after item on its own thread
(`DeleteNextItem`: all of it is gone, or a part, or nothing) while the scanner
goes on, and is absorbed item by item when it is done (`AbsorbOutcome`).

`ResetForRescan` gives the node a new generation; `IsCurrent` is what drops the
events of tasks that ran through it. `FinishWorkUnit` and `ReopenAncestors` are
the loops that climb towards the root, written as the set of ancestors they
reach. Sizes are small distinct numbers (a power of two per directory, so that
two different sets of directories never have the same sum).

### Listings, searches, explorer

`Listings` keeps the entries of the cache with the number of the pending
request, their order of arrival, and the queued `ListFiles` tasks. A worker
reads the directory in one step (`ListFiles`) and emits what it found in another
(`EmitListing`), so that a removal, a rescan, an eviction or a newer request
comes between. `HeaviestQuery` keeps the queries with their count of outstanding
tasks and their floors; a worker reads the floor when it takes the task, so it
may be stale when it is used; it reports before it pushes what it found below,
as the code does, so that reports overtake one another. `Discovery` has the same
shape, with the rules as sets of directories.

`Explorer` joins them with the rows (`RebuildRows`), the cursor and its key, and
the keys of the two screens. One `Tick` applies all events in the channel and
resynchronises the cursor; keys come between ticks. Marks of files are kept by
path, each with the node of its directory at the time (`ToggleMark`); they stay
while the user walks on and rescans, and `Delete` takes them all, from whatever
directories. The deletion runs beside everything else, file after file, keys do
nothing meanwhile, and it is absorbed when it has ended: `Absorb` goes to the node
that the mark remembers, live or not, takes the size off it and all above it, and
asks for its listing anew, which may evict another. Two history variables say what
some properties leave out: `missed`, files whose mark named a node that was gone,
and `evicted`, nodes on screen whose listing such an absorption drove out.

### Operations

`Removal` is the thread that removes: one step per system call that lists or
removes something, with the obstacles of the disk (`denied`, `unlistable`,
`failed`), entries that other processes remove at any time, and the look at the
cancel flag every `CancelEvery` files. Its stack holds the directories that
`remove_permanently` has still to visit. `Cleaning` has the list of targets as functions of a
record, one per method of `CleaningService`. `Operations` joins the marks, the
dialogs, the thread, the channel, the modal, `absorb_deletion_report`,
`absorb_cleaning_report`, the dialogs that follow and the foreground commands
with sudo, which succeed or fail half-way.

The tree of `Operations` has for each directory the node that stands for it now and
its total. A mark holds the size it had and a node: its own for a directory, that of
the directory around it for a file. `RescanTree`, `RemoveSubtree` and `ForgetFile` do
nothing to a node that is gone (`RemoveSubtree` then drops what is queued for any
directory, because the path of a missing node is empty), and they subtract, saturating,
from all above, as `file_tree.rs` does. A rescan keeps the node of the directory and
makes new ones below when what was read arrives (`ReadAgain`, `Arrive`). Three history
variables say what the totals contain: `counted`, the files in them, `doubled`, files
taken off though no total contained them, and `unseen`, what was not booked because its
node was gone.

### Preferences, commands, keys

`Configuration` has the configuration as a record with the keys of the file that
the interface changes or that may be wrong, the preferences in effect (`prefs`:
those of `App`, `ExplorerState`, `HeaviestState`, `ScanEngine` and the copies in
scan policy and cleaning service), and one operator per function of
`settings.rs`. What only a start sets is there too: the guard of critical paths
(`prefs.guard`), and the number of files listed in the scan policy. `prefs.unwritten` and `prefs.saves` are history variables: which
settings were changed since the file was written or loaded, and how often it was
written. `App` follows `handle_key`: Ctrl+C, the modal, the Settings popup, other
popups, dialogs, the command line, the keys of every screen, those of one.
`CommandLine` counts a word, or a whole command with its argument, as one
character; which text is which command is a constant, its checks on numbers are
not.

## 3. The runs

| run | instance | shows |
|---|---|---|
| `engine` | 5 tasks of all kinds in 3 paths, 2 workers (3 threads, so that one can be leaving), 3 user operations | `TypeOK`, `LanesMatchFocus`, `NoTaskQueuedTwice`, `TaskInOnePlace`, `NoLostWakeup`, `OneThreadPerIndex`; implements `TaskPool`; `EveryTaskServed`, `ShutdownJoins` |
| `engine_idle` | one measurement with two children | `is_idle()` is true while a popped task is in a worker's hands (violation) |
| `tree` | ten scenarios, 2 workers | `TreeTypeOK`, `TotalsAddUp`, `WorkAccounted`, `CompleteMeansMeasured`, `OneNodePerPlace`; `ScanCompletes` |
| `tree_phantom` | open a subdirectory, rescan above it | the subdirectory's queued task is dropped, its work stays (violation of `WorkAccounted`) |
| `tree_stale_mark` | mark, rescan above, delete | the deleted directory stays in the tree (violation of `RemovedItemsDisappear`) |
| `tree_deep_root` | open a directory below the materialised levels | the scan from above completes without it (violation of `CompleteMeansMeasured`) |
| `tree_links` | one inode in two directories, one rescan | a file with two links, counted once, is counted nowhere after a rescan (violation of `LinkedFilesCountedOnce`) |
| `explorer` | twelve scenarios, 5 directories with 7 files, cache of 2, 2 workers | `ExplorerTypeOK`, `CacheInOrder`, `PendingIsUnderWay`, `RemovedFilesVanish`, `CursorOnItsItem`, `QueriesKnowTheirWork`, `SearchesFindTheHeaviest`; `RequestsSettle`, `FilesGetListed` |
| `operations` | twenty-one scenarios on a disk of 12 entries | `OperationsTypeOK`, `CancelledStayUntouched`, `NothingGoneUnreported`, `ModalAddsUp`, `SuccessMeansGone`, `TreeFollowsDisk`, `TargetsUnique`, `SelectionIsCovered`, `ProtectedNeverSelected`, `NumbersKeepTheirTargets`, `FinishedMeansAllFound`; `OperationsSettle` |
| `operations_protected` | a rule over a directory inside a target | the protected directory is cleaned with the target (violation of `ProtectedStays`) |
| `operations_raced` | rescan a directory, delete a file in it meanwhile | the file is taken off a total that did not contain it (violation of `NothingRacesTheUpdate`) |
| `app` | twelve scenarios of keys, commands and files | `AppTypeOK`, `NothingUnwrittenIsLost`, `EffectFollowsConfig`, `SavedComesBack` |

**Scenarios.** A user may do anything at any time, but the state space of all of
it together is out of reach. A *scenario* says which operations a behaviour
keeps to, how many of them (`times`, in the engine `MaxOps`), and what the disk,
the file or docker are like; `Init` picks one. The scenarios of a run are chosen
so that every pair of operations that touch the same state meets in one of them
and so that every action of the module is taken. Each is small enough that all
interleavings are explored.

**Bounds of the engine.** `MaxWorkers` 2 and `MaxThreads` 3 are enough for a
worker above the new count, one that stays, and one still leaving when the count
grows again. Three operations allow any pair around a third. The measurement of
the top spawns two tasks, which is what tells `notify_all` from `notify_one`.

**Bounds of the tree.** The disk has a root with three branches, one of them
three levels deep, with a dense directory, an unreadable one and a mount point.
`MaterializeDepth` 1 makes the second level anonymous (summed into its
ancestor), `MaxDepth` 3 is the depth of the disk. `MaxMarks` 2 allows a deletion
of several items. The scenarios of the passing run are combinations in which the
properties should hold *and do*, and have no hard links. Four combinations in which they should hold and
do not are runs of their own, with a finding each. Two further ones have the
same cause as a finding and no run: a mark below another mark (when its outcome
is absorbed the node is gone, and all queued measurements are discarded with it,
as for a stale mark), and a rescan of a mount point's own row, which adds its
bytes to the parents. The passing run says nothing about them.

**Bounds of the explorer.** `Capacity` 2 with three directories to look at makes
the cache evict; `ListingLimit` 2 and `RowLimit` 4 make listings and rows
truncated; two files have the same size, one has none, and one is behind a
mount point. `MaxDepth` 1 cuts off the search below `old`. `Shallow` makes a
directory whose children are nodes only after a scan of its own.

**Bounds of the operations.** `CancelEvery` 2 (128 in the code) with directories
of two files brings the look at the flag into the middle of one; `RecentCapacity`
1 makes the list of recent paths drop. Marks and targets lie inside one another.
`DiscoveryDepth` 1 cuts off the third level. `searches` bounds how often the
cleaner is restarted; `scouts` how many scanner threads search: two in the
scenario that only searches, one in the others.

**Bounds of the application.** The steps and limits are those of the code; only
the Settings popup has fewer rows of each kind. `times` bounds the keys, up to
11, which is enough to open the popup, change something, save in vain, leave,
answer the dialog; `longest` bounds the line. A file may be absent, valid with
values out of range, with an unknown theme, with patterns that are no globs, or
no configuration at all; a save succeeds, fails, or leaves the file in pieces.

**Deadlock** is checked in the engine: after a shutdown all that is left is
`Joined`, which stutters. The other runs turn it off, since a program with
nothing to do and a user who does nothing more is a legitimate end.

**Fairness.** Every scanner thread is weakly fair: the operating system runs each
thread that can run, and `ScanEngine` shows that the pool's threads do not sleep
while something is queued. The interface thread pumps events and polls a running
operation on every turn of its loop, the deletion thread and docker's go on, so
these are weakly fair too. Where it matters that a tick empties the channel and
not that a key is pressed, fairness is stated on the variable the step takes
something away from (`events`, `answers`, `channel`, `foreground`). The user owes
nothing: `EveryTaskServed` assumes that the background does not stay paused, for
paused work waits by design; `FilesGetListed` speaks only of the directory that
stays on screen, and leaves out rescans by key, which drop its listing and ask
for no other (a hazard in `PROJECT.json`). `App` has no liveness property.

**Conditions of some properties.** They are part of the formulas, and each has
its hazard:

* `SuccessMeansGone` and `TreeFollowsDisk` leave out behaviours in which another
  process, or a command with administrator rights that failed or ran beside a
  deletion, removed something (there the code reports more than it did).
* `TreeFollowsDisk` speaks of the end of a run, and leaves out cleanings, of which
  the tree hears nothing, nodes that were gone (`unseen`) and files that a total did
  not contain when they were taken off it (`doubled`); the last case is the run
  `operations_raced`. A directory that is measured again is expected to count nothing
  of what is below it until what was read arrives.
* `RemovedFilesVanish` leaves out files in `missed`, see 5.
* `FilesGetListed` leaves out rescans by key and nodes in `evicted`, see 5.
* `ProtectedNeverSelected` leaves out a change of the rules after the targets were
  collected (the code says they count from the next time) and images when docker
  did not say which are used.
* `NothingUnwrittenIsLost` is about leaving by q, by `:quit` and by a save that was
  carried out; Ctrl+C and a save that failed lose changes, see 5, and so, by design,
  does the answer that gives them up. It counts
  what the popup and `:theme` change, since other keys and commands change a
  preference of the session only.
* `EffectFollowsConfig` is about theme, palette, the thresholds of density and depth
  and the cleaner's rules; `SavedComesBack` about these and the sizes, rows, files
  shown, mode of deletion and threads (`Preferences`). The number of files the engine
  lists and the guard follow neither, see 5; the number of
  threads may differ from the configuration by design (`:threads`, `-j`).
* `OneNodePerPlace` compares children of one parent, and roots: a root and a node of
  another tree may stand for one directory in the code as well.
* `CursorOnItsItem` keeps cursor and item together. It does not say that the jump to a
  heavy file ends on it (it does not when the listing is late), and `SelectionIsCovered`
  says nothing of targets that stay listed after the one above them was cleaned.
* In `Explorer` a measurement appears in one step. That a worker keeps the settings it
  started with is in `ScanTree` only.
* In `Operations` what is below a directory that is measured again is read in one step.

## 4. The proofs

All theorems hold for every value of the constants under the named assumptions of
the modules, which TLC evaluates on every instance. Every inductive invariant
below was checked by TLC on the instances of section 3 before it was proved.

**How induction is done.** The provers cannot instantiate a rule over an operator.
`DataLemmas` states induction about *sets* instead (`SetInduction`: a family of
subsets of a finite set that has the empty one and grows by one element has the
set itself; `NatSetInduction` likewise), from the library's `WFMin`. The folds of
the community modules are treated once, in `FoldLemmas`: the folded operator, the
choice of the last element and the statement that is kept are CONSTANTS of that
module, and a proof about a fold takes an instance (`OfferFold`, `FoundFold`,
`MessageFold`, ...); the module takes induction over the set as a hypothesis
(`Inductive`), which `FiniteInductive` provides. Recursive functions (`Line`, `FilesBelow`) are unfolded by
`LineUnfolds` and `LevelsUnfold`, which exhibit the function that CHOOSE picks.

### Engine (`ScanEngineProofs`)

`TypesCorrect`, `LanesCorrect`, `QueuedOnce`, `OnePlacePerTask`, `IndicesUnique`
are the invariants of the run `engine`; `EngineImplementsPool` says that the queue
with its threads implements `TaskPool`, under the mapping that takes the queued
tasks to the members of the lanes and the running ones to those in the hands of a
thread between `pop` and `worker_idle`. All follow from one inductive invariant,
`EngineInv` (`EngineInvariant`). That a pop moves a task from a lane into exactly
one pair of hands needs that lanes hold no task twice *and* that no thread holds a
queued one; that pushing the children of a task keeps both needs that children
have not been seen before, which holds only because a task is executed once; so
all of it is one invariant. The counter `busy_workers` needs that the set of
threads between `worker_busy` and `worker_idle` changes by one element.

`NoWakeupLost` says that runnable work is never left to sleeping threads. The
property alone is not inductive: one `notify_one` for each of several pushes wakes
one thread each, and the tasks wait until these have looked. `WakeupInv`
(`AwakeForEachTask`) counts: while anybody sleeps there are at least as many
threads on their way to the lanes as tasks that can run, and once the queue is
shut down nobody sleeps.

### Tree (`ScanTreeProofs`)

`TypesOfTheTree` and `SizesAddUp` follow from `TreeInv`: the parents form a forest
(`Forest`: finite, every way up ends, subtrees are what their names say; `TreeTypeOK`
itself says it by the directories: a parent's directory holds the child's), the
total of every node is its own bytes plus the totals of its children (`AddsUp`),
ids below the allocator's counter only (`IdsAllocated`), and two statements about
events that have not been applied. `EventsFit`: what an event would insert is not
in the tree yet, and lies below the node it is about. `EventsApart`: no two events
bring the same node. Without these two a late event could hang a second copy of a
subtree into the forest, and `AddsUp` would be lost in `propagate_totals`, which
adds to every ancestor without a look at the children. The lemmas say for each
operator of `FileTree` what it does to `AddsUp`: `PropagateTotals` along a way up
with a difference pending at one node (`AddsUpBut`), `RemoveSubtree`,
`GraftRoots`, `ResetForRescan`.

`PlacesUnique` (no two children of one node, and no two roots, for one place) is the hardest of the three,
because the places are told apart only by who is allowed to insert them. `ClaimInv`
says that a listing under way - queued, in a worker's hands or in the channel -
is claimed once (`QueueApart`, `HandsApart`, `ResultsApart`), and that while its
reference is current the node has no children (`Sane`); so the event that is
accepted inserts children where there are none. That generations make it so is
what is proved: a rescan gives a new generation before it queues the new listing,
which makes every older reference stale at once.

### Explorer, listings and searches (`ExplorerProofs`)

`BaseInv` carries the types and five of the seven theorems. Its main part,
`Settled`, is about the record of what the interface thread owns, so that a lemma
about an operator (`RequestFileListing`, `RemoveSubtree`, `Rebuild`, ...) is stated
once and used by every key and by the tick, which is a fold over all events of two
channels followed by the resynchronisation of the cursor:

* `TreeShape`, `ScanShape`: parents live, one node per directory, and a
  measurement that will be accepted is the only one and finds no children;
* `CacheShape` (with `CacheStaysInOrder`), `Expected` (what an entry waits for is
  queued, in a lister's hands or in the channel, with the same generation and
  number: `PendingIsAnswered`) and `Clean` (no listing kept, and no answer that an
  entry still waits for, holds a file that was absorbed as removed, unless its mark
  named a node that was gone: `RemovedStayAway`); a report is absorbed file by file,
  in directories that need not be on screen (`AbsorbFold`);
* `UiShape` (`CursorHoldsItsItem`) and `Orphan`: a directory on screen that is gone
  has taken its listing along. Without `Orphan` the absorption of a removal could
  leave an answer under way that brings the file back;
* `ThreadsShape`, `SearchShape`, `RemovalShape`, `DiskShape`.

`SearchesCountTheirWork` needs `SearchInv`: the walks of a search are about disjoint
parts of the disk and in one place each (`WalksApart`), and an equation
(`WorkInv`): outstanding + what the unapplied events announce = tasks that exist +
unapplied events. The equation alone is not inductive, because
`outstanding.saturating_sub(1)` would break it at zero and the search is finished
when the count reaches zero: the invariant also says that after the events before
any unapplied one the count is still positive (`Earlier`). This holds because a
worker reports what it spawned before it pushes it, so that the channel holds a
parent's event before its children's.

`HeaviestAreFound` says that a finished search shows the largest files. `FoundInv`
accounts for every file wanted: it is kept, or beaten by the smallest kept of a
full collection, or below a task that exists, or in an event not applied, or left
out of such an event because its worker's own list was full of larger ones
(`Outdone`). A floor, shared or read by a worker when it took its task, is never
above the smallest file kept (`Above`): the collection only improves, so an old
floor is a low floor, and a file below it is beaten for good.

### Deletions and cleanings (`OperationsProofs`)

One inductive invariant, `OperationsInv` (`OperationsInvariant`), carries the eight
properties; they cannot be had one by one, because what the modal shows, what the
report says and what the disk has lost are three counts of the same entries, made by
two threads at different times.

* `DiskInv`: what is on the disk was there when the run began and did not vanish.
* `LinkInv` speaks of `Caught`, the run *as it will be when the messages under way
  have arrived*: a fold over the channel. Of `Caught` everything can be said that the
  modal itself knows only later: its sums are those of the thread's outcomes
  (`UnderWay`), and after the last message those of the report (`Concluded`). A step
  of the thread appends messages and changes `Caught` by one step of the fold; a tick
  of the interface applies them and leaves `Caught` as it is. `ModalSums` needs one
  thing more: what is shown is never above what was removed (`Removed`), although
  progress messages come in intervals and the item's own count is added when it ends.
* `CountInv`: the entries gone, without those that other programs took, are as many as
  were counted (`NothingUnreported`). The lemmas about the remover (`StepOK`) say that
  one step removes at most one entry, counts it if and only if it removed it, and ends
  an item as cancelled only if that was requested. Commands with administrator rights
  change the disk beside a run; what they take is in `lost`, like what other programs
  take.
* `Stopped` (in `LinkInv`): once an item ended as cancelled, the flag is set and no
  item is in hand. That gives `CancelledUntouched`: no later item starts.
* `ListInv`: every target is listed under one number, below the next one, and under
  one path (`Apart`), a path that is listed is known, an image is listed only after
  Docker's answer was absorbed (`InList`): `TargetsStayUnique`. `Guarded` and
  `Shielded` tie the protection of each target to the rules: `ProtectedUnselected`.
  The lemmas treat every method of `CleaningService`, `begin`, `update`, `toggle` and
  `absorb_report` among them, and the tick that absorbs events, the run and Docker.
* `OverlayInv`, `ForegroundInv`, `NumbersInv`: the items of a plan, of a report and of
  a dialog have numbers below the next one, and a number in the list stands for the
  same path as in the plan: `NumbersKeepTargets`. `begin` counts from one again. The
  proof has to show that it cannot run while a plan is held, which is so because the
  key that runs it is not reached past a dialog or the modal.
* `TreeInv`: the types of what the explorer counts: nodes, totals, marks with the
  sizes and nodes they remember, and what was read again.

`SelectionCovered` needs nothing but `ListInv`. That every selected path lies below an
*outermost* selected one (`OutermostPath`) is proved by counting: of the selected paths
above a given one, one with the fewest selected paths above itself has none.

`FoundInv` is a second invariant, beside `OperationsInv`: there is a set `D` of tasks
that are done, such that the tasks that are queued or in a thread's hands (`Alive`)
and `D` form the walk of every search (`WalkOK`): each is a root of its search or a
child of a task in `D`, and the children and roots of what is done or begun are among
them. No task is queued twice or held by two threads (`HandsApart`), because a
directory lies in one other. Reports overtake one another on their way, so the record
of a search says little by itself; the invariant is about `Heard`, the record *once
the reports under way are applied*, again a fold over the channel: its count is the
number of tasks alive, and it holds what every task of `D` found (`SearchOK`). A task
that is read changes `Heard` and the count by the same step (`SearchGoesOn`), a tick
leaves `Heard` as it is (`AllHeard`), whatever the cleaner takes out of it
(`HearingKeeps`), and a restart begins a walk and leaves the others to go on unheard
(`StartKeeps`). `EverythingFound` follows: when a search is finished, no task of it is
alive, so its walk is all in `D` (`WalkEnds`, by induction over the depth), and
`Heard` is the record itself.

The proof of `EverythingFound` found a formula that did not mean the same to every reader: `UNION S \cap T`,
which the two tools parse with different precedence. The definition of the tick is now
written the other way round, and TLC's results are the same.

### The disk (`DiskProofs`)

A path reported as removed is gone (`SuccessGone`, from `GoneInv`). Nothing in the
remover looks at the disk a second time; success means that no call failed, and that is
enough only because the walk misses nothing. So the invariant says what is still to come: `Left` claims that as long as no error was met, all that is left of
the item on the disk lies below the paths still to be removed, the files and the stack
of directories of the job in hand (`Ahead`). To keep this through a step one must know
that what a step takes off the stack is gone, hence `Shape` (the directories on the
stack are nested frames that have nothing in common with one another and with the files
to be removed), that directories on the stack are still there, and that the disk is
closed under containment (`Closed`): with a directory, all below it is gone. `Vouched`
keeps the claim for the items that are done. An entry that is "not found" counts as no
error in the code; it is safe because the whole walk is of one thread and, as long as
`lost` is empty, nobody else removes anything. For every call of the remover there is
a lemma (`StartPathGoes`, `RemoveFileGoes`, `RemoveDirectoryGoes`,
`VisitDirectoryGoes`, `PathResultGoes`, together `RemoverGoes`), for every action of
the thread one that combines it with the outcomes (`WorkerStepGone`).

The proof found a gap in the model: it let `remove_contents` of a path that is no
directory succeed at once, while `read_dir` fails there (`std_file_remover.rs:160`).
`StartItem` now has that case.

That the totals of the tree follow the disk (`TreeFollowsDisk`) is not proved: sums that
saturate, sizes remembered in marks and measurements that pass one another need an
invariant about three ages of the tree at once. TLC checks it on the instances.

### Preferences (`AppProofs`)

`NothingLost`, about q, `:quit` and a save that was carried out: its invariant is that whatever is not in the file makes the settings
dirty (`ChangesAreTracked`), through saves that fail, refused files, edits and
resets. `EffectFollows` and `SavedReturns`, the latter an action property of every
step that writes the file, follow from `Effective` (`PreferencesSound`), which
strengthens the first by what a start does to a value read from a file: the values
in effect must be ones a start leaves as they are (a row limit of at least 5, 1 to
256 threads, one of two modes), and the configuration is whole and never a
refused one. This is where the ranges in `StepsAssumption` and
`CommandsAssumption` are needed: a step below 5 in `ROW_LIMIT_STEPS`, or a
`:dense` below 100 accepted by the parser, would be written and come back as
something else.

`AppTypes` is `AppTypeOK`. The ranges of the numbers follow from `Effective`, the rest
from `ShapeInv`: the history of the command line has to hold texts for a recalled one
to be a line with the cursor at its end, and a move in the Settings popup ends on a
setting because the settings beyond a row, counted away from it, have one at every
count up to their number (`RankSurjective`, `RankFromAbove`).

The proof found an error of the model: it took the number of threads from the file or
the command line as it was, while `set_worker_count` (`scan_engine.rs:75`) keeps it in
1 to 256, at a start as well. `SetWorkerCount` does so now, and the run `app` starts with
a file that asks for 300.

### Assumptions

`QueueAssumption`, `EngineAssumption`, `StepsAssumption`, `FilesAssumption`,
`CommandsAssumption`, `ThemesAssumption`, `RecommendedAssumption`, `RowsAssumption` and
`ScreensAssumption` give the constants their types and the ranges of the tables in the
code (among them: a theme that is known by a name knows it, and `ROWS` has a setting). `TaskCreatedOnce`
says that a task value is built by one worker or by the tree owner, and only once,
which is how the code builds them (a `ScanTask` is moved into the queue and out of
it).

`ScanTreeAssumption` and `ExplorerAssumption` are about the disk. A directory's path
is longer than that of the directory above (`PathRank`; `d` not below its
subdirectories), and no directory lies in two: the scanner does not follow
symbolic links (`scan_worker.rs` looks at the type of the entry, not of its
target), so what it walks is a tree of paths; `DiscoveryAssumption` says the same of
the directories a search walks. Names are unique within a directory,
which is why a row's key is its name; a file stands for its path. The depth limits
are at least one, as `AppConfig` makes them.

`RemovalAssumption`: the disk is finite, and being inside is an order, which paths
are by their syntax; a directory lists an entry once, entries of one directory have
nothing in common (names are unique, and the remover does not follow links), and the
directory itself is not below them. `TargetAssumption`: a known location has a path unless it is
cleaned by a command, an image is no path, a discovered directory is (it may have to
be removed), Docker lists no image twice. `OperationsAssumption` and the rest of
`DiscoveryAssumption` give types; paths are ranked one by one, as sorting by path
does it; the images in use are images.

Nothing is assumed of the number of directories, files, targets, threads, events,
searches or operations, except that a disk is finite.

### Only model-checked

* `WorkAccounted` and `CompleteMeansMeasured`: the runs `tree_phantom` and
  `tree_deep_root` violate them, so they are no theorems of `ScanTree`: they hold
  for the scenarios of the run `tree` only.
* `TreeFollowsDisk`, see above.
* The liveness properties: with fairness out of the prover's reach.

## 5. Findings

Each has a run that TLC ends with a counterexample, and an entry with the quoted
lines in `PROJECT.json`.

* `is_idle()` is true while a worker holds a popped task (`engine_idle`).
* A rescan drops the queued measurements of another root below it, whose work is
  then never done (`tree_phantom`).
* A directory marked, scanned again and deleted stays in the tree
  (`tree_stale_mark`).
* A directory opened below the materialised levels is missing above it
  (`tree_deep_root`).
* A rescan counts a linked file, which was counted once, nowhere (`tree_links`).
* A removed file is taken off totals that do not contain it, because its directory is
  being measured again (`operations_raced`).
* A protected directory inside a target is cleaned with it
  (`operations_protected`).

Met while modelling, and without a run of their own: the model does what the code
does, and the properties named leave the case out.

* Lowering the number of workers wakes none of them, although a comment says so: the
  push is empty (`scan_engine.rs:86`); they leave when their wait times out.
* A marked file whose directory is scanned again from above keeps the old node
  (`mod.rs:1121-1128`): after the deletion the listing of the new node still shows it
  (against `mod.rs:1047`; `RemovedFilesVanish`).
* Deleting files marked in other directories lists these anew and can evict the listing
  on screen, which nothing asks for again (`tree_coordinator.rs:237-246`, against the
  comment at 195; `FilesGetListed`).
* Ctrl+C leaves with unsaved preferences and asks nothing (`mod.rs:260-262`, against
  `README.md:153`), and "y saves and quits" quits also when the save fails
  (`mod.rs:966-969`; `NothingUnwrittenIsLost`).
* Another number of rows in the Settings popup does not reach the engine's limit of
  files per listing (`settings.rs:172-175`, against `README.md:151`;
  `EffectFollowsConfig`, `SavedComesBack`).
* A path added to `deletion.never_delete` and reloaded is not refused before the next
  start (`settings.rs:322-343`, against `settings.rs:321`; the same two properties).

The hazards list says where else the code promises less than one might expect;
there the properties are stated with the condition named there.

## 6. Not modelled, and why

* File and directory counts and what else of a measurement is for display: they
  travel like the sizes.
* The second size mode. A node has one size; absorbing a removed file subtracts the
  size of the mode shown from both (`mod.rs:1130`), so that the other is off after it.
* `clear()` of the queue, which nothing calls.
* 32-bit wrap-around of ids and generations: out of reach of a session.
* The parsing of docker's output, of mounts and of the configuration file's
  syntax, and the names that match a discovery rule or a protection glob: pure
  functions of text; their results are constants or sets of the modules.
* System calls beyond their outcomes; the trash, sudo and the editor are
  external.
* Rendering, colours, formatting, scrolling, the log: no state that the rest
  reads.
* One composition of everything: a cleaner target that is also open in the
  explorer would need `ScanTree` and `Operations` in one state space (the hazard
  at `cleaning_service.rs:372`).
