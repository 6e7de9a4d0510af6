--------------------------------- MODULE App --------------------------------
(***************************************************************************)
(* The interface thread's own state (presentation/app/): which screen,     *)
(* popup, dialog or command line a key goes to, the preferences that keys, *)
(* commands and the Settings popup change, the configuration file, and     *)
(* leaving the program.                                                    *)
(*                                                                         *)
(* Keys are handled one after the other; what needs the terminal (an       *)
(* editor, sudo) waits in `foreground' until the keys at hand are          *)
(* exhausted.  What the screens do to the tree, the marks and the targets  *)
(* is in Explorer and Operations; here an operation is only the modal that *)
(* takes every key.                                                        *)
(***************************************************************************)
EXTENDS Configuration, CommandLine, FiniteSets

CONSTANTS
  Rows,           \* ROWS of the Settings popup; Section stands for a heading
  Section,
  RowLimitSteps, HeaviestSteps, DenseSteps,
  Scenarios       \* what a behaviour keeps to: keys, how many (a bound), how
                  \* long a line may be (a bound), the file it starts
                  \* with, what becomes of a save, and so on

ASSUME StepsAssumption ==
  /\ RowLimitSteps \in Seq(Nat) /\ HeaviestSteps \in Seq(Nat) /\ DenseSteps \in Seq(Nat)
  /\ Len(RowLimitSteps) > 0 /\ Len(HeaviestSteps) > 0 /\ Len(DenseSteps) > 0
  /\ \A i \in DOMAIN RowLimitSteps : RowLimitSteps[i] >= 5
  /\ \A i \in DOMAIN HeaviestSteps : HeaviestSteps[i] >= 5
  /\ \A i \in DOMAIN DenseSteps : DenseSteps[i] >= 100

ASSUME FilesAssumption ==
  \A s \in Scenarios :
    s.threads \in Nat /\ IsFile(s.file) /\ \A file \in s.edits : IsFile(file)

VARIABLES
  prefs,       \* the preferences, in effect and in the file
  ui,          \* screen, popup, dialog, command line
  selected,    \* the row of the Settings popup that is selected
  foreground,  \* pending_foreground
  quit,        \* why the program ends, "no" until it does
  scenario, keys

vars == <<prefs, ui, selected, foreground, quit, scenario, keys>>

Screens == <<"dashboard", "explorer", "heaviest", "cleaner">>
ASSUME ScreensAssumption ==
  \A s \in Scenarios : s.screen \in {Screens[i] : i \in DOMAIN Screens}

NoOverlay == [type |-> "none"]
Popup(type) == [type |-> type]
Confirm(confirmation, action) ==
  [type |-> "confirm", confirmation |-> confirmation, typed |-> <<>>, action |-> action]
Word == <<"y", "e", "s">>

-----------------------------------------------------------------------------
(* The Settings popup. *)

IsAction(id) == id \in {"SaveConfig", "EditConfig", "ReloadConfig", "ResetDefaults"}
IsSessionOnly(id) == id = "BackgroundPaused"

Selectable == {i \in DOMAIN Rows : Rows[i] # Section}
ASSUME RowsAssumption == Rows \in Seq({Rows[i] : i \in DOMAIN Rows}) /\ Selectable # {}

(* move_selection: so many settings on, headings not counted, as far as    *)
(* there are any.                                                          *)
MovedTo(i, delta) ==
  LET beyond == {j \in Selectable : IF delta > 0 THEN j > i ELSE j < i}
      passed(j) == Cardinality({k \in beyond : IF delta > 0 THEN k <= j ELSE k >= j})
      distance == IF delta > 0 THEN delta ELSE -delta
  IN  IF beyond = {} THEN i
      ELSE CHOOSE j \in beyond : passed(j) = IF distance < Cardinality(beyond)
                                             THEN distance ELSE Cardinality(beyond)

SelectFirst == MovedTo(1, 1)
SelectLast == IF Len(Rows) \in Selectable THEN Len(Rows) ELSE MovedTo(Len(Rows), -1)

Switched(set, element) == IF element \in set THEN set \ {element} ELSE set \cup {element}
PushToCleaner(p) == IF Rejected(p.config) THEN p ELSE [p EXCEPT !.cleaner = CleanerConfig(p.config)]
Other(value, one, two) == IF value = one THEN two ELSE one
DockerSwitch(id) ==
  CASE id = "DockerEnabled" -> "enabled" [] id = "DockerPruneContainers" -> "containers"
    [] id = "DockerPruneVolumes" -> "volumes" [] OTHER -> "build cache"

(* apply_theme_name: the canonical name, in effect and in the configuration. *)
ApplyThemeName(p, name) ==
  IF name \notin DOMAIN NamedTheme THEN p
  ELSE [p EXCEPT !.theme = NamedTheme[name], !.palette = PaletteOf(NamedTheme[name]),
                 !.config.theme = NamedTheme[name], !.dirty = TRUE,
                 !.unwritten = @ \cup {"Theme"}]

SetDense(p, n) == [p EXCEPT !.config.dense_directory_threshold = n, !.policy.dense = n]
SetDepth(p, n) == [p EXCEPT !.config.materialize_depth = n, !.policy.depth = n]

(* adjust_setting, but for dirty. *)
Adjusted(p, id, delta) ==
  CASE id = "Theme" -> ApplyThemeName(p, NeighbourTheme(p.theme, delta))
    [] id = "SizeMode" ->
         LET mode == Other(p.sizeMode, "allocated", "apparent")
         IN  [p EXCEPT !.sizeMode = mode, !.config.size_mode = mode]
    [] id = "SizeBase" ->
         LET base == Other(p.sizeBase, "decimal", "binary")
         IN  [p EXCEPT !.sizeBase = base, !.config.size_base = base]
    [] id = "ShowFiles" -> [p EXCEPT !.showFiles = ~ @, !.config.show_files = ~ p.showFiles]
    [] id = "RowLimit" ->
         LET n == StepThrough(RowLimitSteps, p.rowLimit, delta)
         IN  [p EXCEPT !.rowLimit = n, !.config.row_limit = n]
    [] id = "HeaviestLimit" ->
         LET n == StepThrough(HeaviestSteps, p.heaviest, delta)
         IN  [p EXCEPT !.heaviest = n, !.config.heaviest_files_limit = n]
    [] id = "WorkerThreads" ->
         LET n == Clamp(p.threads + delta, 1, 64)
         IN  [p EXCEPT !.threads = n, !.config.worker_threads = n]
    [] id = "DenseThreshold" ->
         SetDense(p, StepThrough(DenseSteps, p.config.dense_directory_threshold, delta))
    [] id = "MaterializeDepth" ->
         SetDepth(p, Clamp(p.config.materialize_depth + delta, 1, 64))
    [] id = "BackgroundRootScan" -> [p EXCEPT !.config.background_root_scan = ~ @]
    [] id = "BackgroundPaused" -> [p EXCEPT !.paused = ~ @]
    [] id = "DeletionMode" ->
         LET mode == Other(p.deletion, "permanent", "trash")
         IN  [p EXCEPT !.deletion = mode, !.config.default_mode = mode]
    [] id = "DiscoveryMaxDepth" ->
         PushToCleaner([p EXCEPT !.config.discovery_max_depth = Clamp(@ + delta, 2, 64)])
    [] OTHER -> PushToCleaner([p EXCEPT !.config.docker = Switched(@, DockerSwitch(id))])

AdjustSetting(p, id, delta) ==
  LET q == Adjusted(p, id, delta)
  IN  IF IsSessionOnly(id) THEN q ELSE [q EXCEPT !.dirty = TRUE, !.unwritten = @ \cup {id}]

-----------------------------------------------------------------------------
(* What several keys and commands have in common: operators on State.      *)

State == [prefs |-> prefs, ui |-> ui, selected |-> selected, foreground |-> foreground, quit |-> quit]
Becomes(s) ==
  /\ prefs' = s.prefs /\ ui' = s.ui /\ selected' = s.selected
  /\ foreground' = s.foreground /\ quit' = s.quit

Show(s, overlay) == [s EXCEPT !.ui.overlay = overlay]

RequestQuit(s) ==
  IF s.prefs.dirty THEN Show(s, Confirm("save or discard", "save and quit"))
  ELSE [s EXCEPT !.quit = "left"]

SaveAndQuit(s, outcome) ==
  [s EXCEPT !.prefs = SaveSettings(@, outcome),
            !.quit = IF outcome = "written" THEN "left" ELSE "save failed"]

(* perform *)
Perform(s, action, outcome) ==
  CASE action \in {"delete", "clean"} -> [s EXCEPT !.ui.operation = "running"]
    [] action = "save and quit" -> SaveAndQuit(s, outcome)
    [] action = "reset" -> [s EXCEPT !.prefs = ResetToDefaults(@)]
    [] OTHER -> [s EXCEPT !.foreground = "elevate"]

ReloadConfig(s) ==
  IF Loadable(s.prefs.file) THEN [s EXCEPT !.prefs = Reload(@)] ELSE Show(s, Popup("message"))

RunSettingAction(s, id, outcome) ==
  CASE id = "SaveConfig" -> [s EXCEPT !.prefs = SaveSettings(@, outcome)]
    [] id = "EditConfig" -> [s EXCEPT !.foreground = "edit"]
    [] id = "ReloadConfig" -> ReloadConfig(s)
    [] id = "ResetDefaults" -> Show(s, Confirm("yes", "reset"))

(* start_heaviest_query; a limit that is given is kept. *)
StartHeaviestQuery(s, limit) ==
  [s EXCEPT !.ui.query = TRUE, !.ui.screen = "heaviest",
            !.prefs.heaviest = IF limit = NoLimit THEN @ ELSE Clamp(limit, 5, 10000)]

(* switch_screen, and restart_cleaner when the cleaner has not begun. *)
SwitchScreen(s, screen) ==
  IF screen = "heaviest" /\ ~ s.ui.query THEN StartHeaviestQuery(s, NoLimit)
  ELSE [s EXCEPT !.ui.screen = screen, !.ui.started = @ \/ screen = "cleaner"]

Neighbour(screen, delta) ==
  LET at == CHOOSE i \in DOMAIN Screens : Screens[i] = screen
  IN  Screens[((at - 1 + delta) % Len(Screens)) + 1]

SetRowLimit(s, n) == [s EXCEPT !.prefs.rowLimit = Clamp(n, 5, 100000)]

(* execute_command.  What a command does to the tree is in Explorer.       *)
ExecuteCommand(s, c, outcome) ==
  CASE c.name = "quit" -> RequestQuit(s)
    [] c.name \in {"help", "log"} -> Show(s, Popup(c.name))
    [] c.name \in {"stats", "config", "themes"} -> Show(s, Popup("message"))
    [] c.name = "mounts" -> Show(s, Popup("log"))
    [] c.name = "settings" -> Show(s, Popup("settings"))
    [] c.name = "config save" -> [s EXCEPT !.prefs = SaveSettings(@, outcome)]
    [] c.name = "config edit" -> [s EXCEPT !.foreground = "edit"]
    [] c.name = "config reload" -> ReloadConfig(s)
    [] c.name = "theme" -> [s EXCEPT !.prefs = ApplyThemeName(@, c.value)]
    [] c.name = "limit" -> SetRowLimit(s, c.value)
    [] c.name = "threads" -> [s EXCEPT !.prefs.threads = SetWorkerCount(c.value)]
    [] c.name = "dense" -> [s EXCEPT !.prefs = SetDense(@, c.value)]
    [] c.name = "depth" -> [s EXCEPT !.prefs = SetDepth(@, c.value)]
    [] c.name \in {"pause", "resume"} -> [s EXCEPT !.prefs.paused = (c.name = "pause")]
    [] c.name = "mode" -> [s EXCEPT !.prefs.sizeMode = c.value]
    [] c.name = "base" -> [s EXCEPT !.prefs.sizeBase = c.value]
    [] c.name = "trash" -> [s EXCEPT !.prefs.deletion = c.value]
    [] c.name = "top" -> StartHeaviestQuery(s, c.value)
    [] c.name = "filter" -> [s EXCEPT !.ui.filter = c.value, !.ui.screen = "explorer"]
    [] c.name \in {"cleaner", "dashboard", "explorer"} -> SwitchScreen(s, c.name)
    [] c.name = "goto" -> [s EXCEPT !.ui.screen = IF c.value = "directory" THEN "explorer" ELSE @]
    [] OTHER -> s       \* no command: the status line says so

-----------------------------------------------------------------------------
(* Keys: handle_key.  Ctrl+C comes first, then the modal of an operation,  *)
(* the Settings popup, the other popups and dialogs, the command line, and *)
(* only then the keys of every screen and of the one that is shown.        *)

Special == {"Ctrl-C", "Esc", "Enter", "Backspace", "Left", "Right", "Home", "End", "Up", "Down",
            "PageUp", "PageDown", "Tab", "BackTab"}

Counted ==
  /\ quit = "no" /\ foreground # "editor" /\ keys < scenario.times
  /\ keys' = keys + 1
  /\ UNCHANGED scenario
Press(key) == key \in scenario.keys /\ Counted

Interrupt == Press("Ctrl-C") /\ Becomes([State EXCEPT !.quit = "interrupted"])

(* handle_operation_key: Esc only asks for a cancellation (Operations), a  *)
(* key after the end goes on to what the report calls for.                 *)
SwallowKey ==
  /\ ui.operation = "running"
  /\ \E key \in scenario.keys \ {"Ctrl-C"} : Press(key)
  /\ UNCHANGED <<prefs, ui, selected, foreground, quit>>
DismissOperation ==
  /\ ui.operation = "finished"
  /\ \E key \in scenario.keys \ {"Ctrl-C"} : Press(key)
  /\ \E overlay \in {NoOverlay, Popup("message"), Confirm("yes", "elevate")} :
       Becomes(Show([State EXCEPT !.ui.operation = "none"], overlay))

InSettings == ui.operation = "none" /\ ui.overlay = Popup("settings")
Settings(key) == InSettings /\ Press(key)
Chosen == Rows[selected]

MoveSetting ==
  /\ \/ Settings("Up") /\ selected' = MovedTo(selected, -1)
     \/ Settings("Down") /\ selected' = MovedTo(selected, 1)
     \/ Settings("PageUp") /\ selected' = MovedTo(selected, -6)
     \/ Settings("PageDown") /\ selected' = MovedTo(selected, 6)
     \/ Settings("Home") /\ selected' = SelectFirst
     \/ Settings("End") /\ selected' = SelectLast
  /\ UNCHANGED <<prefs, ui, foreground, quit>>

(* change_selected_setting *)
ChangeSetting ==
  /\ \E change \in {<<"Left", -1>>, <<"Right", 1>>, <<"Enter", 1>>} :
       /\ Settings(change[1]) /\ ~ IsAction(Chosen)
       /\ prefs' = AdjustSetting(prefs, Chosen, change[2])
  /\ UNCHANGED <<ui, selected, foreground, quit>>

(* Enter on an action, and the keys that stand for one. *)
ActOnSettings ==
  \E outcome \in scenario.saving :
    \/ Settings("Enter") /\ IsAction(Chosen) /\ Becomes(RunSettingAction(State, Chosen, outcome))
    \/ Settings("s") /\ Becomes(RunSettingAction(State, "SaveConfig", outcome))
    \/ Settings("e") /\ Becomes(RunSettingAction(State, "EditConfig", outcome))
    \/ Settings("R") /\ Becomes(RunSettingAction(State, "ResetDefaults", outcome))

CloseSettings == \E key \in {"Esc", "q"} : Settings(key) /\ Becomes(Show(State, NoOverlay))

(* Any key. *)
ClosePopup ==
  /\ ui.operation = "none" /\ ui.overlay.type \in {"help", "log", "message"}
  /\ \E key \in scenario.keys \ {"Ctrl-C"} : Press(key)
  /\ Becomes(Show(State, NoOverlay))

(* A dialog is answered with y, with Enter, or with a word and Enter.      *)
InDialog(key) == ui.operation = "none" /\ ui.overlay.type = "confirm" /\ Press(key)
Closed == Show(State, NoOverlay)
ByKey == ui.overlay.confirmation \in {"yes", "save or discard"}

Accept ==
  /\ \/ InDialog("Enter") /\ (ByKey \/ ui.overlay.typed = Word)
     \/ InDialog("y") /\ ByKey
  /\ \E outcome \in scenario.saving : Becomes(Perform(Closed, ui.overlay.action, outcome))

Decline ==
  \/ InDialog("Esc") /\ Becomes(Closed)
  \/ InDialog("n") /\ ui.overlay.confirmation = "yes" /\ Becomes(Closed)
  \/ InDialog("n") /\ ui.overlay.confirmation = "save or discard"
     /\ Becomes([Closed EXCEPT !.quit = "discarded"])

(* Any other character is typed where a word is asked for, and else only   *)
(* leaves the dialog open, as every other key does.                        *)
TypeWord ==
  /\ \E key \in scenario.keys \ (Special \ {"Backspace"}) :
       /\ InDialog(key) /\ ~ ByKey
       /\ ui' = [ui EXCEPT !.overlay.typed =
                   IF key # "Backspace" THEN Append(@, key)
                   ELSE IF @ = <<>> THEN @ ELSE SubSeq(@, 1, Len(@) - 1)]
  /\ UNCHANGED <<prefs, selected, foreground, quit>>

NoPopup == ui.operation = "none" /\ ui.overlay = NoOverlay
InLine(key) == NoPopup /\ ui.commanding /\ Press(key)

HasRoom == Len(ui.line.input) < scenario.longest      \* a bound on the line
Edits(l) ==
  {<<"Left", MoveLeft(l)>>, <<"Right", MoveRight(l)>>, <<"Home", MoveHome(l)>>, <<"End", MoveEnd(l)>>,
   <<"Up", HistoryPrevious(l)>>, <<"Down", HistoryNext(l)>>}
    \cup {<<c, Insert(l, c)>> : c \in IF HasRoom THEN scenario.keys \ Special ELSE {}}

EditLine ==
  /\ \E edit \in Edits(ui.line) : InLine(edit[1]) /\ ui' = [ui EXCEPT !.line = edit[2]]
  /\ UNCHANGED <<prefs, selected, foreground, quit>>

(* A word of a command, or a command with its argument. *)
TypeCommand ==
  /\ NoPopup /\ ui.commanding /\ HasRoom /\ Counted
  /\ \E word \in scenario.words : ui' = [ui EXCEPT !.line = Insert(@, word)]
  /\ UNCHANGED <<prefs, selected, foreground, quit>>

LeaveLine ==
  /\ \/ InLine("Esc") /\ ui' = [ui EXCEPT !.commanding = FALSE]
     \/ /\ InLine("Backspace")
        /\ ui' = [ui EXCEPT !.line = Backspace(@), !.commanding = ~ CloseOnBackspace(ui.line)]
  /\ UNCHANGED <<prefs, selected, foreground, quit>>

SubmitLine ==
  /\ InLine("Enter")
  /\ LET s == [State EXCEPT !.ui.commanding = FALSE, !.ui.line = Submit(@)]
     IN  IF ui.line.input = <<>> THEN Becomes(s)
         ELSE \E outcome \in scenario.saving : Becomes(ExecuteCommand(s, Parse(ui.line.input), outcome))

Screen(key) == NoPopup /\ ~ ui.commanding /\ Press(key)
On(screen, key) == Screen(key) /\ ui.screen = screen

(* `:', and in the explorer `/', which begins a filter. *)
OpenWith(text) ==
  ui' = [ui EXCEPT !.commanding = TRUE,
                   !.line = [Open(@) EXCEPT !.input = text, !.cursor = Len(text)]]
OpenLine ==
  /\ \/ Screen(":") /\ OpenWith(<<>>)
     \/ On("explorer", "/") /\ OpenWith(<<"filter">>)
  /\ UNCHANGED <<prefs, selected, foreground, quit>>

GlobalKey ==
  \/ Screen("?") /\ Becomes(Show(State, Popup("help")))
  \/ Screen("Tab") /\ Becomes(SwitchScreen(State, Neighbour(ui.screen, 1)))
  \/ Screen("BackTab") /\ Becomes(SwitchScreen(State, Neighbour(ui.screen, -1)))
  \/ Screen("q") /\ Becomes(RequestQuit(State))
  \/ Screen("p") /\ Becomes([State EXCEPT !.prefs.paused = ~ @])
  \/ Screen("a") /\ ui.screen # "cleaner"
     /\ Becomes([State EXCEPT !.prefs.sizeMode = Other(@, "allocated", "apparent")])

(* The keys of a screen that change a preference, ask, or show something. *)
ScreenKey ==
  \/ On("dashboard", "c") /\ Becomes(SwitchScreen(State, "cleaner"))
  \/ On("explorer", "f") /\ Becomes([State EXCEPT !.prefs.showFiles = ~ @])
  \/ On("explorer", "+") /\ Becomes(SetRowLimit(State, prefs.rowLimit * 2))
  \/ On("explorer", "-") /\ Becomes(SetRowLimit(State, prefs.rowLimit \div 2))
  \/ On("explorer", "Esc") /\ Becomes([State EXCEPT !.ui.filter = <<>>])
  \/ On("heaviest", "+") /\ Becomes(StartHeaviestQuery(State, Clamp(prefs.heaviest * 2, 0, 10000)))
  \/ On("heaviest", "-") /\ Becomes(StartHeaviestQuery(State, Larger(prefs.heaviest \div 2, 10)))
  \/ On("heaviest", "Esc") /\ Becomes(SwitchScreen(State, "explorer"))
  \/ On("cleaner", "i") /\ Becomes(Show(State, Popup("message")))
  \/ On("cleaner", "d") /\ Becomes(Show(State, Confirm("word", "clean")))

(* request_deletion, of at least one mark. *)
RequestDeletion ==
  /\ \E screen \in {"explorer", "heaviest"} : On(screen, "d")
  /\ Becomes(Show(State, Confirm(IF prefs.deletion = "trash" THEN "yes" ELSE "word", "delete")))

-----------------------------------------------------------------------------
(* What happens between two batches of keys, and around the program.       *)

(* run_foreground: an editor needs a file, which is written if there is    *)
(* none.                                                                   *)
RunEditor ==
  /\ foreground = "edit"
  /\ IF prefs.file.status # "absent" THEN prefs' = prefs /\ foreground' = "editor"
     ELSE \E outcome \in scenario.saving :
            /\ prefs' = [SaveSettings(prefs, outcome) EXCEPT !.dirty = prefs.dirty]
            /\ foreground' = IF outcome = "written" THEN "editor" ELSE "none"
  /\ UNCHANGED <<ui, selected, quit, scenario, keys>>

(* The file is loaded again if the editor says that all is well. *)
EditorExits ==
  /\ foreground = "editor"
  /\ \E file \in scenario.edits \cup {prefs.file}, well \in BOOLEAN :
       LET s == [State EXCEPT !.prefs.file = file, !.foreground = "none"]
       IN  Becomes(IF well THEN ReloadConfig(s) ELSE s)
  /\ UNCHANGED <<scenario, keys>>

(* Whatever comes of it: Operations. *)
RunElevated ==
  /\ foreground = "elevate" /\ foreground' = "none"
  /\ UNCHANGED <<prefs, ui, selected, quit, scenario, keys>>

OperationEnds ==
  /\ quit = "no" /\ ui.operation = "running"
  /\ ui' = [ui EXCEPT !.operation = "finished"]
  /\ UNCHANGED <<prefs, selected, foreground, quit, scenario, keys>>

(* The file is changed in another window, as often as there are keys. *)
ChangeFile ==
  /\ Counted
  /\ \E file \in scenario.edits : prefs' = [prefs EXCEPT !.file = file]
  /\ UNCHANGED <<ui, selected, foreground, quit>>

Next ==
  \/ Interrupt \/ SwallowKey \/ DismissOperation
  \/ MoveSetting \/ ChangeSetting \/ ActOnSettings \/ CloseSettings
  \/ ClosePopup \/ Accept \/ Decline \/ TypeWord
  \/ EditLine \/ TypeCommand \/ LeaveLine \/ SubmitLine
  \/ OpenLine \/ GlobalKey \/ ScreenKey \/ RequestDeletion
  \/ RunEditor \/ EditorExits \/ RunElevated \/ OperationEnds \/ ChangeFile

(* main refuses to start with a file that is none, or with bad patterns. *)
Init ==
  /\ scenario \in Scenarios /\ keys = 0
  /\ LET file == scenario.file
     IN  /\ Loadable(file) /\ ~ Rejected(Load(file))
         /\ prefs = Started(Load(file), scenario.threads, file)
  /\ ui = [screen |-> scenario.screen, overlay |-> NoOverlay, commanding |-> FALSE, line |-> NewLine,
           filter |-> <<>>, operation |-> "none", query |-> FALSE, started |-> FALSE]
  /\ selected = SelectFirst /\ foreground = "none" /\ quit = "no"

Spec == Init /\ [][Next]_vars

-----------------------------------------------------------------------------
(* Properties. *)

(* The Settings popup stands on a setting, never on a heading; the cursor  *)
(* of the command line is in its text and the history has what it shows;   *)
(* numbers are in the ranges that the code keeps them to.                  *)
AppTypeOK ==
  /\ selected \in Selectable
  /\ ui.line.cursor \in 0..Len(ui.line.input)
  /\ ui.line.index \in 0..Len(ui.line.history)
  /\ ui.screen \in {Screens[i] : i \in DOMAIN Screens}
  /\ ui.operation \in {"none", "running", "finished"}
  /\ foreground \in {"none", "edit", "editor", "elevate"}
  /\ quit \in {"no", "left", "discarded", "interrupted", "save failed"}
  /\ prefs.rowLimit >= 5 /\ prefs.heaviest >= 5 /\ prefs.threads \in 1..256
  /\ prefs.policy.dense >= 100 /\ prefs.policy.depth \in 1..64
  /\ prefs.palette \in {NamedTheme[name] : name \in DOMAIN NamedTheme}

(* Leaving by q, by :quit or by the answer `save' that was carried out:    *)
(* preferences changed in the popup or with :theme have then been written  *)
(* or reloaded over, whatever was saved, failed to be saved, edited or     *)
(* reloaded before.  Three ways out are left aside: the answer that gives  *)
(* them up, Ctrl+C (mod.rs:260), which asks nothing, and the answer `save' *)
(* when the file cannot be written (mod.rs:966), which leaves all the same. *)
NothingUnwrittenIsLost == quit = "left" => prefs.unwritten = {}

(* What a save has written is what is in effect: the program started with  *)
(* that file has the theme, the sizes, the rows and files shown, the mode  *)
(* of deletion, the number of threads, the thresholds of measuring and the *)
(* rules of cleaning that it has now, whichever key, command or popup made *)
(* it so.  (Not the number of files listed and the paths never deleted.)   *)
SavedComesBack ==
  [][prefs'.saves # prefs.saves =>
       Preferences(Started(prefs'.file.config, 0, prefs'.file)) = Preferences(prefs')]_vars

(* The theme, the engine's thresholds of density and depth and the rules   *)
(* of the cleaning service are what the configuration says, also after a   *)
(* file was refused: its parts take effect together or not at all.  (The   *)
(* number of threads may differ: :threads and -j leave the configuration   *)
(* alone.)                                                                 *)
EffectFollowsConfig ==
  /\ prefs.theme = ThemeName(prefs.config) /\ prefs.palette = PaletteOf(prefs.theme)
  /\ prefs.policy.dense = ScanPolicy(prefs.config).dense
  /\ prefs.policy.depth = ScanPolicy(prefs.config).depth
  /\ prefs.cleaner = CleanerConfig(prefs.config)
=============================================================================
