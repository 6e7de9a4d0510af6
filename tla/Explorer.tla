------------------------------ MODULE Explorer ------------------------------
(***************************************************************************)
(* The explorer and heaviest screens (presentation/app): the directory on  *)
(* screen, its rows and the cursor, together with what the keys start in   *)
(* the coordinator: rescans, file listings (Listings) and searches for the *)
(* largest files (HeaviestQuery).                                          *)
(*                                                                         *)
(* The interface thread alternates between keys and ticks; a tick applies  *)
(* every event that has arrived and builds the rows anew.  Measurement is  *)
(* reduced to what the explorer sees of it (ScanTree has the rest): at     *)
(* some time the subdirectories of a directory become nodes, or are only   *)
(* summed, and sizes grow.                                                 *)
(***************************************************************************)
EXTENDS Listings, HeaviestQuery, FileTree

CONSTANTS
  Top,          \* the directory of the first root
  Shallow,      \* directories whose children become nodes only when a scan
                \* starts at them
  Bytes,        \* bytes directly inside each directory
  NameRank,     \* the order of names, of files and directories
  RowLimit,     \* ExplorerState::row_limit
  NoKey, NoQuery,
  Scenarios     \* what a behaviour keeps to: the keys the user may press and
                \* how often (a bound), the screens visited, the directories
                \* whose measurement arrives while it lasts, the limits of searches

(* A path lies below the paths it starts with, and every directory is      *)
(* inside one other at most; names are unique within a directory, and a    *)
(* file stands for its path.  An id is never None.                         *)
ASSUME ExplorerAssumption ==
  /\ IsFiniteSet(Dir) /\ Top \in Dir
  /\ Subdirs \in [Dir -> SUBSET Dir] /\ Below \in [Dir -> SUBSET Dir]
  /\ \A d \in Dir :
       /\ d \in Below[d]
       /\ \A e \in Subdirs[d] : Below[e] \subseteq Below[d] \ {d}
       /\ \A e, f \in Subdirs[d] : e # f =>
            Below[e] \cap Below[f] = {} /\ NameRank[e] # NameRank[f]
       /\ NameRank[d] \in Nat /\ Bytes[d] \in Nat
  /\ \A c, d \in Dir : c # d =>
       Subdirs[c] \cap Subdirs[d] = {} /\ Elements(FilesIn[c]) \cap Elements(FilesIn[d]) = {}
  /\ DOMAIN FilesIn = Dir
  /\ \A d \in Dir :
       /\ FilesIn[d] \in Seq(Elements(FilesIn[d])) /\ Distinct(FilesIn[d])
       /\ \A f \in Elements(FilesIn[d]) : f.size \in Nat /\ NameRank[f.name] \in Nat
       /\ \A f, g \in Elements(FilesIn[d]) : NameRank[f.name] = NameRank[g.name] => f = g
  /\ MaxDepth \in Nat /\ RowLimit \in Nat
  /\ NoNode \notin [dir : Dir, nr : Nat]
  /\ \A sc \in Scenarios : sc.limits \subseteq Nat

VARIABLES
  tree,         \* live nodes: generation, parent, size, lazy
  scans,        \* measurements under way
  made,         \* nodes made so far per directory
  ui,           \* ExplorerState, HeaviestState and the screen
  onDisk,       \* the files directly inside each directory, as FilesIn
  marks,        \* the marked files, each with the node of its directory
  removal,      \* the running deletion: what became of each file of its plan
  missed,       \* history: files whose removal was booked on a node that was gone
  evicted,      \* history: nodes whose listing a deletion drove out while on screen
  scenario, ops

treeVars == <<tree, scans, made>>
deletionVars == <<onDisk, marks, removal, missed, evicted>>
vars == <<listingVars, heavyVars, treeVars, ui, deletionVars, scenario, ops>>

FileSet == UNION {Elements(FilesIn[d]) : d \in Dir}
Existing == UNION {Elements(onDisk[d]) : d \in Dir}
DirOf(f) == CHOOSE d \in Dir : f \in Elements(FilesIn[d])

(* The state the handlers of the interface thread work on. *)
State == [tree |-> tree, scans |-> scans, made |-> made, cache |-> cache,
          heavy |-> heavy, ui |-> ui]
Becomes(s) == /\ tree' = s.tree /\ scans' = s.scans /\ made' = s.made
              /\ cache' = s.cache /\ heavy' = s.heavy /\ ui' = s.ui

-----------------------------------------------------------------------------
(* The tree, as far as the explorer depends on it. *)

NodesAt(T, d) == {n \in DOMAIN T : n.dir = d}
(* FileTree::locate *)
Place(T, d) == IF NodesAt(T, d) = {} THEN NoNode ELSE CHOOSE n \in NodesAt(T, d) : TRUE

ChildrenOnly(T, n) == Children(T, n)                              \* variant
(* All nodes strictly below n. *)
Descendants(T, n) == Subtree(T, n) \ {n}
Ancestors(T, n) == Line(T, n) \ {n}
Depth(T, n) == Cardinality(Ancestors(T, n))
Grow(T, N, bytes) == [m \in DOMAIN T |-> IF m \in N THEN [T[m] EXCEPT !.size = @ + bytes] ELSE T[m]]
Shrink(T, N, bytes) ==
  [m \in DOMAIN T |-> IF m \in N
                      THEN [T[m] EXCEPT !.size = IF @ > bytes THEN @ - bytes ELSE 0] ELSE T[m]]
Without(T, N) == [m \in DOMAIN T \ N |-> T[m]]

Leaf(parent) == [gen |-> 0, parent |-> parent, size |-> 0, lazy |-> FALSE]
ScanOf(T, n, origin) == [node |-> n, gen |-> T[n].gen, origin |-> origin]

(* start_root_scan, when no root has this path. *)
NewRoot(s, d) ==
  LET n == [dir |-> d, nr |-> s.made[d]]
      T == With(s.tree, n, Leaf(NoNode))
  IN  [s EXCEPT !.tree = T, !.made[d] = @ + 1, !.scans = @ \cup {ScanOf(T, n, TRUE)}]

(* rescan: the nodes below are gone, their listings and the node's own are *)
(* forgotten.  Nothing asks for a listing of n again.                      *)
Rescan(s, n) ==
  IF n \notin DOMAIN s.tree THEN s
  ELSE LET T == Shrink(Without(s.tree, Descendants(s.tree, n)), Ancestors(s.tree, n),
                       s.tree[n].size)
           R == [T EXCEPT ![n].gen = @ + 1, ![n].size = 0, ![n].lazy = FALSE]
       IN  [s EXCEPT !.tree = R,
                     !.scans = {t \in @ : t.node.dir \notin Below[n.dir]}
                                 \cup {ScanOf(R, n, TRUE)},
                     !.cache = InvalidateListing(ForgetListingsOfMissingNodes(@, R), n)]

EnsureExpanded(s, n) ==
  IF s.tree[n].lazy /\ Children(s.tree, n) = {} THEN Rescan(s, n) ELSE s

FocusParents(s, n) ==                                             \* variant
  IF Children(s.tree, n) = {} THEN s
  ELSE [s EXCEPT !.cache = RequestFileListing(@, s.tree, n, FALSE)]
(* focus, without the queue's lanes (TaskQueue). *)
Focus(s, n) == [s EXCEPT !.cache = RequestFileListing(@, s.tree, n, FALSE)]

(* apply_measurement of a whole directory: its children become nodes (an   *)
(* existing root is attached), or it is lazy.                              *)
Measured(s, t) ==
  LET n == t.node
      dirs == IF t.origin \/ n.dir \notin Shallow THEN Subdirs[n.dir] \ Barred ELSE {}
      roots == {m \in DOMAIN s.tree : m.dir \in dirs /\ s.tree[m].parent = NoNode}
      fresh == {[dir |-> d, nr |-> s.made[d]] : d \in dirs \ {m.dir : m \in roots}}
      T == [m \in DOMAIN s.tree \cup fresh |->
              IF m \in fresh THEN Leaf(n)
              ELSE IF m \in roots THEN [s.tree[m] EXCEPT !.parent = n]
              ELSE IF m = n THEN [s.tree[n] EXCEPT !.lazy = dirs = {} /\ Subdirs[n.dir] \ Barred # {}]
              ELSE s.tree[m]]
      attached == FoldSet(LAMBDA m, sum : sum + s.tree[m].size, 0, roots)
  IN  [s EXCEPT !.tree = Grow(T, Line(T, n), Bytes[n.dir] + attached),
                !.made = [d \in Dir |-> IF d \in {m.dir : m \in fresh} THEN @[d] + 1 ELSE @[d]],
                !.scans = (@ \ {t}) \cup {ScanOf(T, m, FALSE) : m \in fresh}]

-----------------------------------------------------------------------------
(* Rows and the cursor. *)

DirRow(T, n) == [key |-> n, size |-> T[n].size, name |-> NameRank[n.dir], dir |-> TRUE]
FileRow(f) == [key |-> f, size |-> f.size, name |-> NameRank[f.name], dir |-> FALSE]

(* Largest first, directories before files, then by name. *)
RowBefore(r, o) ==
  \/ r.size > o.size
  \/ r.size = o.size /\ r.dir /\ ~o.dir
  \/ r.size = o.size /\ r.dir = o.dir /\ r.name < o.name

(* The rows of a set in this order: a row comes after those before it. *)
InOrder(rows) ==
  [i \in 1 .. Cardinality(rows) |->
     CHOOSE r \in rows : Cardinality({o \in rows : RowBefore(o, r)}) = i - 1]

RowsOf(s) ==
  LET n == s.ui.current
      listing == IF n \in DOMAIN s.cache.entries THEN s.cache.entries[n].listing ELSE NoListing
      files == IF s.ui.showFiles /\ listing # NoListing THEN Elements(listing) ELSE {}
      all == InOrder({DirRow(s.tree, m) : m \in Children(s.tree, n)}
                       \cup {FileRow(f) : f \in files})
  IN  SubSeq(all, 1, IF Len(all) < RowLimit THEN Len(all) ELSE RowLimit)

KeepIndex(u) == [u EXCEPT !.selected = IF @ < Len(u.rows) THEN @ ELSE Len(u.rows)]   \* variant
(* resync_selection: the cursor follows its item; when the item is gone it *)
(* stays where it is and takes the item that is there now.                 *)
ResyncSelection(u) ==
  LET at == {i \in DOMAIN u.rows : u.rows[i].key = u.key}
      i == IF u.selected < Len(u.rows) THEN u.selected ELSE Len(u.rows)
  IN  IF at # {} THEN [u EXCEPT !.selected = CHOOSE k \in at : TRUE]
      ELSE IF u.rows = <<>> THEN [u EXCEPT !.selected = 1]
      ELSE [u EXCEPT !.selected = i, !.key = u.rows[i].key]

(* rebuild_explorer_rows; without a directory the cursor is left alone. *)
Rebuild(s) ==
  IF s.ui.current = NoNode THEN [s EXCEPT !.ui.rows = <<>>]
  ELSE IF s.ui.current \notin DOMAIN s.tree
  THEN [s EXCEPT !.ui.rows = <<>>, !.ui.current = NoNode]
  ELSE [s EXCEPT !.ui = ResyncSelection([@ EXCEPT !.rows = RowsOf(s)])]

Select(u, i) ==
  IF u.rows = <<>> THEN [u EXCEPT !.selected = 1, !.key = NoKey]
  ELSE LET k == IF i > Len(u.rows) THEN Len(u.rows) ELSE i
       IN  [u EXCEPT !.selected = k, !.key = u.rows[k].key]
MoveSelection(u, down) ==
  IF u.rows = <<>> THEN u
  ELSE Select(u, IF down THEN u.selected + 1 ELSE IF u.selected = 1 THEN 1 ELSE u.selected - 1)

(* enter_directory; boundaries are left to ScanTree. *)
EnterDirectory(s, n) ==
  IF n \notin DOMAIN s.tree THEN s
  ELSE LET e == EnsureExpanded([s EXCEPT !.ui = [@ EXCEPT !.current = n, !.selected = 1,
                                                          !.key = NoKey]], n)
       IN  Rebuild(Focus(e, n))

(* node_for_path and enter_directory. *)
OpenDirectory(s, d) ==
  LET t == IF NodesAt(s.tree, d) # {} THEN s ELSE NewRoot(s, d)
  IN  EnterDirectory(t, Place(t.tree, d))

-----------------------------------------------------------------------------
(* Keys.  While a deletion runs they do nothing. *)

Key(op, screens) ==
  /\ removal = <<>> /\ op \in scenario.may /\ ops < scenario.times /\ ui.screen \in screens
  /\ ops' = ops + 1
  /\ UNCHANGED <<lister, answers, walker, progress, scenario>>

Press(op, screens) == Key(op, screens) /\ UNCHANGED deletionVars

HasRow == ui.selected \in DOMAIN ui.rows
Row == ui.rows[ui.selected]

OpenSelectedRow ==
  /\ Press("enter", {"explorer"}) /\ HasRow /\ Row.dir
  /\ Becomes(EnterDirectory(State, Row.key))

GoToParent ==
  /\ Press("parent", {"explorer"}) /\ ui.current # NoNode
  /\ LET live == ui.current \in DOMAIN tree
         above == IF live THEN tree[ui.current].parent ELSE NoNode
         outer == {d \in Dir : live /\ ui.current.dir \in Subdirs[d]}
     IN  \/ /\ above # NoNode
            /\ Becomes(Rebuild(Focus([State EXCEPT !.ui = [@ EXCEPT !.current = above,
                                                                  !.key = ui.current]], above)))
         \/ /\ above = NoNode /\ outer # {}
            /\ LET s == OpenDirectory(State, CHOOSE d \in outer : TRUE)
               IN  Becomes(Rebuild([s EXCEPT !.ui.key = ui.current]))
         \/ /\ above = NoNode /\ outer = {}
            /\ Becomes([State EXCEPT !.ui.screen = "dashboard"])

RescanCurrent ==
  /\ Press("rescan", {"explorer"}) /\ ui.current # NoNode
  /\ Becomes(Rescan(State, ui.current))

RescanSelected ==
  /\ Press("rescan", {"explorer"}) /\ HasRow /\ Row.dir
  /\ Becomes(Rescan(State, Row.key))

RescanRoot ==       \* `r` on the dashboard
  /\ Press("rescan", {"dashboard"})
  /\ \E n \in NodesAt(tree, Top) : Becomes(Rescan(State, n))

ToggleFiles ==
  Press("files", {"explorer"}) /\ Becomes([State EXCEPT !.ui.showFiles = ~@])

MoveCursor ==
  /\ Press("cursor", {"explorer"})
  /\ \E down \in BOOLEAN : Becomes([State EXCEPT !.ui = MoveSelection(@, down)])

(* switch_screen; the heaviest screen starts a search if there is none. *)
StartHeaviest(s, limit) ==
  IF s.ui.current = NoNode THEN s
  ELSE LET h == IF s.ui.query = NoQuery THEN s.heavy ELSE CancelQuery(s.heavy, s.ui.query)
           n == s.ui.current
           ok == n \in DOMAIN s.tree
       IN  [s EXCEPT !.heavy = IF ok THEN StartQuery(h, n.dir, Depth(s.tree, n), limit) ELSE h,
                     !.ui = [@ EXCEPT !.query = IF ok THEN h.next ELSE NoQuery,
                                      !.found = <<>>, !.screen = "heaviest"]]

StartHeaviestQuery ==
  /\ Press("heaviest", {"explorer", "heaviest"})
  /\ \E limit \in scenario.limits : Becomes(StartHeaviest(State, limit))

SwitchScreen ==
  /\ Press("screen", {"explorer", "heaviest", "dashboard"})
  /\ \E screen \in scenario.screens \ {ui.screen} :
       \/ /\ screen # "heaviest" \/ ui.query # NoQuery
          /\ Becomes([State EXCEPT !.ui.screen = screen])
       \/ /\ screen = "heaviest" /\ ui.query = NoQuery
          /\ \E limit \in scenario.limits : Becomes(StartHeaviest(State, limit))

JumpToHeaviestFile ==
  /\ Press("jump", {"heaviest"})
  /\ \E f \in Elements(ui.found) :
       LET s == OpenDirectory(State, DirOf(f))
       IN  Becomes(Rebuild([s EXCEPT !.ui = [@ EXCEPT !.key = f, !.screen = "explorer"]]))

(* Marks are kept by path.  A mark remembers the node of the file's        *)
(* directory: the one on screen, or the one the heaviest screen finds.     *)
(* (ScanTree has the marks of directories.)                                *)
Marked(f, n) == IF f \in DOMAIN marks THEN Forget(marks, f) ELSE With(marks, f, n)
MarkSelected ==
  /\ ui.screen = "explorer" /\ HasRow /\ ~Row.dir
  /\ marks' = Marked(Row.key, ui.current)
  /\ Becomes([State EXCEPT !.ui = MoveSelection(@, TRUE)])
MarkOnHeaviest ==
  /\ ui.screen = "heaviest"
  /\ \E f \in Elements(ui.found) : marks' = Marked(f, Place(tree, DirOf(f)))
  /\ Becomes(State)

ToggleMark ==
  /\ Key("mark", {"explorer", "heaviest"})
  /\ MarkSelected \/ MarkOnHeaviest
  /\ UNCHANGED <<onDisk, removal, missed, evicted>>

(* request_deletion and the answer yes: everything that is marked goes, or *)
(* else the selected file.  (A no leaves the mark, as ToggleMark does.)    *)
Delete ==
  /\ Key("delete", {"explorer", "heaviest"})
  /\ \/ marks # <<>> /\ Becomes(State) /\ UNCHANGED marks
     \/ marks = <<>> /\ (MarkSelected \/ MarkOnHeaviest)
  /\ removal' = [f \in DOMAIN marks' |-> "waiting"]
  /\ UNCHANGED <<onDisk, missed, evicted>>

-----------------------------------------------------------------------------
(* The deletion thread.  A file goes, or cannot be removed; one that is    *)
(* not there any more counts as removed.  Files go one by one, here in any *)
(* order (Removal has the order, errors and cancellation).                 *)

FilesWaiting == {f \in DOMAIN removal : removal[f] = "waiting"}
RemoveNextFile ==
  /\ \E f \in FilesWaiting :
       \/ /\ removal' = [removal EXCEPT ![f] = "removed"]
          /\ onDisk' = [d \in Dir |-> Retain(onDisk[d], Elements(onDisk[d]) \ {f})]
       \/ /\ f \in Existing
          /\ removal' = [removal EXCEPT ![f] = "kept"] /\ UNCHANGED onDisk
  /\ UNCHANGED <<listingVars, heavyVars, treeVars, ui, marks, missed, evicted, scenario, ops>>

-----------------------------------------------------------------------------
(* A tick of the interface thread. *)

AbsorbOnScreen(s, f, mark) ==     \* variant: the directory on screen is listed anew
  LET p == s.ui.current
  IN  [s EXCEPT !.cache = RequestFileListing(InvalidateListing(@, p), s.tree, p, TRUE)]

(* absorb_removed_item, of a file.  The node its mark remembers stands for *)
(* its directory; when that node is gone nothing is done, although another *)
(* may have taken its place.                                               *)
ParentOf(T, f, mark) == IF mark = NoNode THEN Place(T, DirOf(f)) ELSE mark
Absorb(s, f, mark) ==
  LET p == ParentOf(s.tree, f, mark)
      T == Shrink(s.tree, Line(s.tree, p), f.size)
  IN  IF p \notin DOMAIN s.tree THEN s
      ELSE [s EXCEPT !.tree = T,
                     !.cache = RequestFileListing(InvalidateListing(@, p), T, p, TRUE)]

(* absorb_deletion_report, in one step: what the threads take meanwhile    *)
(* does not change what it does.                                           *)
AbsorbAll(s, files, mark) == FoldSet(LAMBDA f, x : Absorb(x, f, mark[f]), s, files)

ApplyEvents(s) ==
  [s EXCEPT !.cache = FoldLeft(LAMBDA c, e : ApplyFileListing(c, s.tree, e), @, answers),
            !.heavy = FoldLeft(ApplyProgress, @, progress)]

RebuildRows(s) ==
  IF s.ui.screen = "explorer" THEN Rebuild(s)
  ELSE IF s.ui.screen = "heaviest" /\ s.ui.query # NoQuery
  THEN [s EXCEPT !.ui.found = s.heavy.queries[s.ui.query].heap.kept]
  ELSE s

(* apply_measurement of one that has arrived, if any. *)
Seen(T) ==
  IF T = {} THEN State
  ELSE LET t == CHOOSE x \in T : TRUE
       IN  IF t.node \in DOMAIN tree /\ tree[t.node].gen = t.gen
           THEN Measured(State, t) ELSE [State EXCEPT !.scans = @ \ T]

(* The report of a deletion that has ended may have arrived or not. *)
Tick ==
  /\ \E T \in {{}} \cup {{t} : t \in {x \in scans : x.node.dir \in scenario.scans}},
        report \in {{}} \cup (IF FilesWaiting = {} THEN {DOMAIN removal} ELSE {}) :
       LET gone == {f \in report : removal[f] = "removed"}
           before == ApplyEvents(Seen(T))
           after == AbsorbAll(before, gone, marks)
       IN  /\ Becomes(RebuildRows(after))
           /\ removal' = [f \in DOMAIN removal \ report |-> removal[f]]
           /\ marks' = [f \in DOMAIN marks \ gone |-> marks[f]]
           /\ missed' = missed \cup
                {f \in gone : marks[f] # NoNode /\ marks[f] \notin DOMAIN after.tree}
           /\ evicted' = evicted \cup
                ({ui.current} \cap (DOMAIN before.cache.entries \ DOMAIN after.cache.entries))
  /\ answers' = <<>> /\ progress' = <<>>
  /\ UNCHANGED <<lister, walker, onDisk, scenario, ops>>

-----------------------------------------------------------------------------
UserStep ==
  \/ OpenSelectedRow \/ GoToParent \/ RescanCurrent \/ RescanSelected \/ RescanRoot
  \/ ToggleFiles \/ MoveCursor \/ StartHeaviestQuery \/ SwitchScreen
  \/ JumpToHeaviestFile \/ ToggleMark \/ Delete

ListerStep(w) ==
  /\ ListFiles(w, onDisk) \/ EmitListing(w)
  /\ UNCHANGED <<heavyVars, treeVars, ui, deletionVars, scenario, ops>>
WalkStep(w) ==
  /\ WalkerStep(w, onDisk)
  /\ UNCHANGED <<listingVars, treeVars, ui, deletionVars, scenario, ops>>

Next ==
  UserStep \/ Tick \/ RemoveNextFile \/ (\E w \in Lister : ListerStep(w)) \/ (\E w \in Walker : WalkStep(w))

Init ==
  /\ LET bare == [tree |-> <<>>, scans |-> {}, made |-> [d \in Dir |-> 0], cache |-> EmptyCache,
                  heavy |-> NoQueries,
                  ui |-> [current |-> NoNode, rows |-> <<>>, selected |-> 1, key |-> NoKey,
                          showFiles |-> TRUE, screen |-> "explorer", query |-> NoQuery,
                          found |-> <<>>]]
         s == OpenDirectory(bare, Top)
     IN  /\ tree = s.tree /\ scans = s.scans /\ made = s.made /\ cache = s.cache
         /\ heavy = s.heavy /\ ui = s.ui
  /\ lister = [w \in Lister |-> Waiting] /\ answers = <<>>
  /\ walker = [w \in Walker |-> Resting] /\ progress = <<>>
  /\ onDisk = FilesIn /\ marks = <<>> /\ removal = <<>> /\ missed = {} /\ evicted = {}
  /\ scenario \in Scenarios /\ ops = 0

(* The interface thread ticks at every frame, whatever the user does, and  *)
(* a tick is the only step that empties the channel; the worker threads do *)
(* not stop while something is queued (ScanEngine).  Nothing is assumed    *)
(* about measurements or keys.                                             *)
PumpEvents ==
  answers \o progress # <<>> /\ answers' = <<>> /\ progress' = <<>>
Fairness ==
  /\ WF_<<answers, progress>>(PumpEvents)
  /\ \A w \in Lister : WF_lister(ListerStep(w))
  /\ \A w \in Walker : WF_walker(WalkStep(w))

Spec == Init /\ [][Next]_vars /\ Fairness

-----------------------------------------------------------------------------
(* Properties. *)

Node == [dir : Dir, nr : Nat]

(* The types of the nodes that the parts of the state refer to, of the     *)
(* cursor, of the disk and of a deletion: a parent, a search on screen and *)
(* a cached directory exist, and only marked files are removed.            *)
ExplorerTypeOK ==
  /\ DOMAIN tree \subseteq Node
  /\ \A n \in DOMAIN tree : tree[n].parent \in DOMAIN tree \cup {NoNode}
  /\ \A t \in scans : t.node \in Node
  /\ DOMAIN cache.entries \subseteq DOMAIN tree /\ cache.order \in Seq(Node)
  /\ ui.current \in Node \cup {NoNode} /\ ui.selected \in Nat \ {0}
  /\ ui.query \in DOMAIN heavy.queries \cup {NoQuery}
  /\ \A d \in Dir : onDisk[d] \in Seq(Elements(FilesIn[d]))
  /\ DOMAIN removal \subseteq DOMAIN marks
  /\ \A f \in DOMAIN marks :
       marks[f] # NoNode => marks[f] \in Node /\ f \in Elements(FilesIn[marks[f].dir])

(* What a listing is waiting for is under way, and will be accepted when   *)
(* it arrives.  Otherwise the directory would be taken to be loading for   *)
(* ever and its files never be asked for again (tree_coordinator.rs:216).  *)
(* Rescans change generations, evictions drop entries and deletions ask    *)
(* again, all while a request is out.                                      *)
PendingIsUnderWay ==
  \A n \in DOMAIN cache.entries :
    LET asked(r) == r.node = n /\ r.request = cache.entries[n].pending /\ r.gen = tree[n].gen
    IN  cache.entries[n].pending # NoRequest =>
          \/ \E t \in cache.queue : asked(t)
          \/ \E w \in Lister : lister[w] # Waiting /\ asked(lister[w])
          \/ \E i \in DOMAIN answers : asked(answers[i])

(* A file whose removal was absorbed is in no listing that is shown, nor   *)
(* in an answer that will be accepted: an answer read before the removal   *)
(* comes too late, whatever was invalidated, evicted or asked for since,   *)
(* in the directory on screen or in others.  Files missed because of a     *)
(* mark whose node was gone are left out.                                  *)
Absorbed == FileSet \ (Existing \cup DOMAIN removal)
NamesOne(files) ==
  \/ \E n \in DOMAIN cache.entries :
       cache.entries[n].listing # NoListing /\ Elements(cache.entries[n].listing) \cap files # {}
  \/ \E i \in DOMAIN answers :
       /\ answers[i].node \in DOMAIN cache.entries
       /\ cache.entries[answers[i].node].pending = answers[i].request
       /\ Elements(answers[i].listing) \cap files # {}
RemovedFilesVanish == ~NamesOne(Absorbed \ missed)

(* When there are rows, the cursor is on one of them and remembers that    *)
(* row's item, so that keys act on the item that is highlighted, and a     *)
(* rebuild can find it again.                                              *)
CursorOnItsItem ==
  (ui.rows # <<>> /\ ui.current \in DOMAIN tree) =>
    ui.selected \in DOMAIN ui.rows /\ ui.key = Row.key

(* A finished search shows the largest files (HeaviestQuery), as long as   *)
(* no file was deleted while it ran.                                       *)
SearchesFindTheHeaviest == onDisk = FilesIn => FinishedMeansHeaviest

(* No listing stays loading, and searches come to an end, those that were  *)
(* cancelled too: the tasks that a cancelled one still pushes              *)
(* (tree_coordinator.rs:302-307 drops only what is queued) die out.        *)
RequestsSettle ==
  <>[](/\ \A n \in DOMAIN cache.entries : cache.entries[n].pending = NoRequest
       /\ heavy.walks = {}
       /\ \A q \in DOMAIN heavy.queries : heavy.queries[q].finished)

(* The directory that stays on screen gets its files, when several are     *)
(* listed, evicted and asked for again.  Two cases are left out: a rescan  *)
(* by key drops the listing and asks for no other                          *)
(* (tree_coordinator.rs:177), and a deletion that lists the directories of *)
(* its files anew drives out the one on screen.                            *)
Looking == ui.screen = "explorer" /\ ui.current \in DOMAIN tree
Listed == /\ ui.current \in DOMAIN cache.entries
          /\ cache.entries[ui.current].listing # NoListing
FilesGetListed ==
  <>[](("rescan" \notin scenario.may /\ Looking /\ ui.current \notin evicted) => Listed)
=============================================================================
