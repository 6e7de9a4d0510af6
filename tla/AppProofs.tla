------------------------------ MODULE AppProofs -----------------------------
(***************************************************************************)
(* What the interface thread promises about preferences, for every list of *)
(* themes, commands and rows, every configuration file and every sequence  *)
(* of keys, saves, edits and reloads.                                      *)
(*                                                                         *)
(* The operators on preferences and states are treated first, one lemma    *)
(* each; an action then is one of them, or leaves the preferences alone.   *)
(***************************************************************************)
EXTENDS App, DataLemmas

(* Whatever is not in the file makes the settings dirty. *)
Tracked(p) ==
  /\ {"dirty", "unwritten"} \subseteq DOMAIN p
  /\ p.unwritten # {} => p.dirty = TRUE

StateFields == {"prefs", "ui", "selected", "foreground", "quit"}
AtWork(s) == DOMAIN s = StateFields /\ Tracked(s.prefs) /\ s.quit = "no"
Settled(s) ==
  /\ DOMAIN s = StateFields
  /\ Tracked(s.prefs)
  /\ s.quit = "left" => s.prefs.unwritten = {}

AppInv == Settled(State)

LEMMA StateIsRecord ==
  /\ DOMAIN State = StateFields
  /\ State.prefs = prefs /\ State.quit = quit /\ State.ui = ui
BY DEF State, StateFields

LEMMA BecomesSettled ==
  ASSUME NEW s, Settled(s), Becomes(s)
  PROVE  AppInv'
BY DEF Settled, Becomes, AppInv, State, StateFields

LEMMA PrefsUntouched ==
  ASSUME AppInv, UNCHANGED <<prefs, quit>>
  PROVE  AppInv'
BY DEF Settled, AppInv, State, StateFields

(* While keys are handled the program has not been left. *)
LEMMA KeyAtWork ==
  ASSUME AppInv, Counted
  PROVE  AtWork(State)
BY StateIsRecord DEF AppInv, AtWork, Settled, Counted

LEMMA WorkIsSettled == ASSUME NEW s, AtWork(s) PROVE Settled(s)
BY DEF AtWork, Settled

-----------------------------------------------------------------------------
(* The preferences. *)

(* A change that neither the file nor the dirty flag is about. *)
Keeps(p, q) == DOMAIN q = DOMAIN p /\ q.dirty = p.dirty /\ q.unwritten = p.unwritten

LEMMA KeepsTracked ==
  ASSUME NEW p, NEW q, Tracked(p), Keeps(p, q)
  PROVE  Tracked(q) /\ q.unwritten = p.unwritten
BY DEF Tracked, Keeps

LEMMA ThemeTracked ==
  ASSUME NEW p, Tracked(p), NEW name
  PROVE  DOMAIN ApplyThemeName(p, name) = DOMAIN p /\ Tracked(ApplyThemeName(p, name))
BY DEF ApplyThemeName, Tracked

LEMMA PushKeeps ==
  ASSUME NEW p, Tracked(p)
  PROVE  Keeps(p, PushToCleaner(p))
BY DEF PushToCleaner, Keeps, Tracked

LEMMA DenseKeeps == ASSUME NEW p, Tracked(p), NEW n PROVE Keeps(p, SetDense(p, n))
BY DEF SetDense, Keeps, Tracked

LEMMA DepthKeeps == ASSUME NEW p, Tracked(p), NEW n PROVE Keeps(p, SetDepth(p, n))
BY DEF SetDepth, Keeps, Tracked

LEMMA ApplyKeeps == ASSUME NEW p, Tracked(p), NEW c PROVE Keeps(p, ApplyConfig(p, c))
BY DEF ApplyConfig, Applied, Replaced, Keeps, Tracked

LEMMA SaveTracked ==
  ASSUME NEW p, Tracked(p), NEW outcome
  PROVE  /\ Tracked(SaveSettings(p, outcome))
         /\ SaveSettings(p, outcome).unwritten \subseteq p.unwritten
         /\ outcome = "written" => SaveSettings(p, outcome).unwritten = {}
         /\ outcome # "written" => SaveSettings(p, outcome).dirty = p.dirty
<1> DEFINE q == [p EXCEPT !.config = SyncConfigFromState(p)]
<1>1. Keeps(p, q)
  BY DEF Keeps, Tracked
<1> HIDE DEF q
<1>2. CASE outcome = "written"
  <2>1. SaveSettings(p, outcome) = [Written(q) EXCEPT !.dirty = FALSE]
    BY <1>2 DEF SaveSettings, q
  <2>2. DOMAIN Written(q) = DOMAIN p /\ Written(q).unwritten = {}
    BY <1>1 DEF Written, Keeps, Tracked
  <2> QED
    BY <1>2, <2>1, <2>2 DEF Tracked
<1>3. CASE outcome # "written"
  <2>1. SaveSettings(p, outcome) = Unsaved(q, outcome)
    BY <1>3 DEF SaveSettings, q
  <2>2. Keeps(q, Unsaved(q, outcome))
    BY <1>1 DEF Unsaved, Keeps, Tracked
  <2> QED
    BY <1>1, <1>3, <2>1, <2>2 DEF Keeps, Tracked
<1> QED
  BY <1>2, <1>3

LEMMA ReloadTracked ==
  ASSUME NEW p, Tracked(p)
  PROVE  Tracked(Reload(p)) /\ Reload(p).unwritten \subseteq p.unwritten
<1>1. Keeps(p, ApplyConfig(p, Load(p.file)))
  BY ApplyKeeps
<1> QED
  BY <1>1 DEF Reload, Keeps, Tracked

LEMMA ResetTracked == ASSUME NEW p, Tracked(p) PROVE Tracked(ResetToDefaults(p))
<1>1. Keeps(p, ApplyConfig(p, DefaultConfig))
  BY ApplyKeeps
<1> QED
  BY <1>1 DEF ResetToDefaults, Keeps, Tracked

(* adjust_setting: what the file is to have is dirty at once; only pausing *)
(* is not kept in it.                                                      *)
LEMMA AdjustedDomain ==
  ASSUME NEW p, Tracked(p), NEW id, NEW delta
  PROVE  /\ DOMAIN Adjusted(p, id, delta) = DOMAIN p
         /\ id = "BackgroundPaused" => Keeps(p, Adjusted(p, id, delta))
<1>1. CASE id = "Theme"
  BY <1>1, ThemeTracked DEF Adjusted
<1>2. CASE id \in {"SizeMode", "SizeBase", "ShowFiles"}
  BY <1>2 DEF Adjusted
<1>3. CASE id \in {"RowLimit", "HeaviestLimit", "WorkerThreads"}
  BY <1>3 DEF Adjusted
<1>4. CASE id \in {"DenseThreshold", "MaterializeDepth"}
  BY <1>4, DenseKeeps, DepthKeeps DEF Adjusted, Keeps
<1>5. CASE id \in {"BackgroundRootScan", "DeletionMode"}
  BY <1>5 DEF Adjusted
<1>6. CASE id = "BackgroundPaused"
  BY <1>6 DEF Adjusted, Keeps, Tracked
<1>7. CASE id = "DiscoveryMaxDepth"
  <2> DEFINE q == [p EXCEPT !.config.discovery_max_depth = Clamp(@ + delta, 2, 64)]
  <2>1. Tracked(q) /\ DOMAIN q = DOMAIN p
    BY DEF Tracked
  <2>2. Adjusted(p, id, delta) = PushToCleaner(q)
    BY <1>7 DEF Adjusted
  <2> QED
    BY <1>7, <2>1, <2>2, PushKeeps DEF Keeps
<1>8. CASE id \notin {"Theme", "SizeMode", "SizeBase", "ShowFiles", "RowLimit", "HeaviestLimit",
                      "WorkerThreads", "DenseThreshold", "MaterializeDepth",
                      "BackgroundRootScan", "BackgroundPaused", "DeletionMode",
                      "DiscoveryMaxDepth"}
  <2> DEFINE q == [p EXCEPT !.config.docker = Switched(@, DockerSwitch(id))]
  <2>1. Tracked(q) /\ DOMAIN q = DOMAIN p
    BY DEF Tracked
  <2>2. Adjusted(p, id, delta) = PushToCleaner(q)
    BY <1>8 DEF Adjusted
  <2> QED
    BY <1>8, <2>1, <2>2, PushKeeps DEF Keeps
<1> QED
  BY <1>1, <1>2, <1>3, <1>4, <1>5, <1>6, <1>7, <1>8

LEMMA AdjustTracked ==
  ASSUME NEW p, Tracked(p), NEW id, NEW delta
  PROVE  Tracked(AdjustSetting(p, id, delta))
<1> DEFINE q == Adjusted(p, id, delta)
<1>1. DOMAIN q = DOMAIN p /\ (id = "BackgroundPaused" => Keeps(p, q))
  BY AdjustedDomain
<1> HIDE DEF q
<1>2. CASE IsSessionOnly(id)
  <2>1. AdjustSetting(p, id, delta) = q
    BY <1>2 DEF AdjustSetting, q
  <2> QED
    BY <1>1, <1>2, <2>1 DEF IsSessionOnly, Keeps, Tracked
<1>3. CASE ~IsSessionOnly(id)
  <2>1. AdjustSetting(p, id, delta) = [q EXCEPT !.dirty = TRUE, !.unwritten = @ \cup {id}]
    BY <1>3 DEF AdjustSetting, q
  <2> QED
    BY <1>1, <2>1 DEF Tracked
<1> QED
  BY <1>2, <1>3

-----------------------------------------------------------------------------
(* The operators on states. *)

LEMMA ShowAtWork ==
  ASSUME NEW s, AtWork(s), NEW overlay
  PROVE  AtWork(Show(s, overlay))
BY DEF AtWork, Show, StateFields

LEMMA ShowSettled ==
  ASSUME NEW s, Settled(s), NEW overlay
  PROVE  Settled(Show(s, overlay))
BY DEF Settled, Show, StateFields

(* The program is left without a question only when nothing is dirty. *)
LEMMA RequestQuitSettled ==
  ASSUME NEW s, AtWork(s)
  PROVE  Settled(RequestQuit(s))
<1>1. CASE s.prefs.dirty = TRUE
  BY <1>1, ShowAtWork, WorkIsSettled DEF RequestQuit
<1>2. CASE s.prefs.dirty # TRUE
  <2>1. s.prefs.unwritten = {}
    BY <1>2 DEF AtWork, Tracked
  <2>2. Settled([s EXCEPT !.quit = "left"])
    BY <2>1 DEF AtWork, Settled, StateFields
  <2>3. Settled(Show(s, Confirm("save or discard", "save and quit")))
    BY ShowAtWork, WorkIsSettled
  <2> QED
    BY <2>2, <2>3 DEF RequestQuit
<1> QED
  BY <1>1, <1>2

(* The preferences change to tracked ones and nothing else that matters    *)
(* does.                                                                   *)
LEMMA PrefsAtWork ==
  ASSUME NEW s, AtWork(s), NEW p, Tracked(p)
  PROVE  AtWork([s EXCEPT !.prefs = p])
BY DEF AtWork, StateFields

LEMMA SaveAndQuitSettled ==
  ASSUME NEW s, AtWork(s), NEW outcome
  PROVE  Settled(SaveAndQuit(s, outcome))
<1>1. /\ Tracked(SaveSettings(s.prefs, outcome))
      /\ outcome = "written" => SaveSettings(s.prefs, outcome).unwritten = {}
  BY SaveTracked DEF AtWork
<1> QED
  BY <1>1 DEF SaveAndQuit, AtWork, Settled, StateFields

LEMMA SaveAtWork ==
  ASSUME NEW s, AtWork(s), NEW outcome
  PROVE  AtWork([s EXCEPT !.prefs = SaveSettings(@, outcome)])
BY SaveTracked, PrefsAtWork DEF AtWork

LEMMA PerformSettled ==
  ASSUME NEW s, AtWork(s), NEW action, NEW outcome
  PROVE  Settled(Perform(s, action, outcome))
<1>1. CASE action \in {"delete", "clean"}
  BY <1>1 DEF Perform, AtWork, Settled, StateFields
<1>2. CASE action = "save and quit"
  BY <1>2, SaveAndQuitSettled DEF Perform
<1>3. CASE action = "reset"
  <2>1. AtWork([s EXCEPT !.prefs = ResetToDefaults(@)])
    BY ResetTracked, PrefsAtWork DEF AtWork
  <2> QED
    BY <1>3, <2>1, WorkIsSettled DEF Perform
<1>4. CASE action \notin {"delete", "clean", "save and quit", "reset"}
  BY <1>4 DEF Perform, AtWork, Settled, StateFields
<1> QED
  BY <1>1, <1>2, <1>3, <1>4

LEMMA ReloadConfigSettled ==
  ASSUME NEW s, Settled(s)
  PROVE  Settled(ReloadConfig(s))
<1>1. CASE Loadable(s.prefs.file)
  <2>1. Tracked(Reload(s.prefs)) /\ Reload(s.prefs).unwritten \subseteq s.prefs.unwritten
    BY ReloadTracked DEF Settled
  <2> QED
    BY <1>1, <2>1 DEF ReloadConfig, Settled, StateFields
<1>2. CASE ~Loadable(s.prefs.file)
  BY <1>2, ShowSettled DEF ReloadConfig
<1> QED
  BY <1>1, <1>2

LEMMA RunSettingActionSettled ==
  ASSUME NEW s, AtWork(s), NEW id, IsAction(id), NEW outcome
  PROVE  Settled(RunSettingAction(s, id, outcome))
<1>1. CASE id = "SaveConfig"
  BY <1>1, SaveAtWork, WorkIsSettled DEF RunSettingAction
<1>2. CASE id = "EditConfig"
  BY <1>2 DEF RunSettingAction, AtWork, Settled, StateFields
<1>3. CASE id = "ReloadConfig"
  BY <1>3, WorkIsSettled, ReloadConfigSettled DEF RunSettingAction
<1>4. CASE id = "ResetDefaults"
  BY <1>4, ShowAtWork, WorkIsSettled DEF RunSettingAction
<1> QED
  BY <1>1, <1>2, <1>3, <1>4 DEF IsAction

LEMMA HeaviestAtWork ==
  ASSUME NEW s, AtWork(s), NEW limit
  PROVE  AtWork(StartHeaviestQuery(s, limit))
BY DEF StartHeaviestQuery, AtWork, Tracked, StateFields

LEMMA SwitchAtWork ==
  ASSUME NEW s, AtWork(s), NEW screen
  PROVE  AtWork(SwitchScreen(s, screen))
<1>1. AtWork(StartHeaviestQuery(s, NoLimit))
  BY HeaviestAtWork
<1> QED
  BY <1>1 DEF SwitchScreen, AtWork, StateFields

LEMMA RowLimitAtWork ==
  ASSUME NEW s, AtWork(s), NEW n
  PROVE  AtWork(SetRowLimit(s, n))
BY DEF SetRowLimit, AtWork, Tracked, StateFields

LEMMA ExecuteCommandSettled ==
  ASSUME NEW s, AtWork(s), NEW c, NEW outcome
  PROVE  Settled(ExecuteCommand(s, c, outcome))
<1> DEFINE Others == {"quit", "help", "log", "stats", "config", "themes", "mounts", "settings",
                      "config save", "config edit", "config reload", "theme", "limit", "threads",
                      "dense", "depth", "pause", "resume", "mode", "base", "trash", "top",
                      "filter", "cleaner", "dashboard", "explorer", "goto"}
<1>1. CASE c.name = "quit"
  BY <1>1, RequestQuitSettled DEF ExecuteCommand
<1>2. CASE c.name \in {"help", "log", "stats", "config", "themes", "mounts", "settings"}
  BY <1>2, ShowAtWork, WorkIsSettled DEF ExecuteCommand
<1>3. CASE c.name = "config save"
  BY <1>3, SaveAtWork, WorkIsSettled DEF ExecuteCommand
<1>4. CASE c.name \in {"config edit", "filter", "goto"}
  BY <1>4 DEF ExecuteCommand, AtWork, Settled, StateFields
<1>5. CASE c.name = "config reload"
  BY <1>5, WorkIsSettled, ReloadConfigSettled DEF ExecuteCommand
<1>6. CASE c.name = "theme"
  <2>1. AtWork([s EXCEPT !.prefs = ApplyThemeName(@, c.value)])
    BY ThemeTracked, PrefsAtWork DEF AtWork
  <2> QED
    BY <1>6, <2>1, WorkIsSettled DEF ExecuteCommand
<1>7. CASE c.name = "limit"
  BY <1>7, RowLimitAtWork, WorkIsSettled DEF ExecuteCommand
<1>8. CASE c.name \in {"dense", "depth"}
  <2>1. Tracked(SetDense(s.prefs, c.value)) /\ Tracked(SetDepth(s.prefs, c.value))
    BY DenseKeeps, DepthKeeps, KeepsTracked DEF AtWork
  <2>2. /\ AtWork([s EXCEPT !.prefs = SetDense(@, c.value)])
        /\ AtWork([s EXCEPT !.prefs = SetDepth(@, c.value)])
    BY <2>1, PrefsAtWork
  <2> QED
    BY <1>8, <2>2, WorkIsSettled DEF ExecuteCommand
<1>9. CASE c.name \in {"threads", "pause", "resume", "mode", "base", "trash"}
  BY <1>9 DEF ExecuteCommand, AtWork, Settled, Tracked, StateFields
<1>10. CASE c.name = "top"
  BY <1>10, HeaviestAtWork, WorkIsSettled DEF ExecuteCommand
<1>11. CASE c.name \in {"cleaner", "dashboard", "explorer"}
  BY <1>11, SwitchAtWork, WorkIsSettled DEF ExecuteCommand
<1>12. CASE c.name \notin Others
  BY <1>12, WorkIsSettled DEF ExecuteCommand
<1> QED
  BY <1>1, <1>2, <1>3, <1>4, <1>5, <1>6, <1>7, <1>8, <1>9, <1>10, <1>11, <1>12

-----------------------------------------------------------------------------
(* The actions. *)

LEMMA InterruptSettled == ASSUME AppInv, Interrupt PROVE AppInv'
<1>1. Counted /\ Becomes([State EXCEPT !.quit = "interrupted"])
  BY DEF Interrupt, Press
<1>2. AtWork(State)
  BY <1>1, KeyAtWork
<1>3. Settled([State EXCEPT !.quit = "interrupted"])
  BY <1>2 DEF AtWork, Settled, StateFields
<1> QED
  BY <1>1, <1>3, BecomesSettled

LEMMA DismissSettled == ASSUME AppInv, DismissOperation PROVE AppInv'
<1>1. PICK overlay : Becomes(Show([State EXCEPT !.ui.operation = "none"], overlay))
  BY DEF DismissOperation
<1>2. Settled([State EXCEPT !.ui.operation = "none"])
  BY DEF AppInv, Settled, State, StateFields
<1> QED
  BY <1>1, <1>2, ShowSettled, BecomesSettled

LEMMA ChangeSettingSettled == ASSUME AppInv, ChangeSetting PROVE AppInv'
<1>1. PICK change \in {<<"Left", -1>>, <<"Right", 1>>, <<"Enter", 1>>} :
        Settings(change[1]) /\ prefs' = AdjustSetting(prefs, Chosen, change[2])
  BY DEF ChangeSetting
<1>2. AtWork(State)
  BY <1>1, KeyAtWork DEF Settings, Press
<1>3. Tracked(prefs')
  BY <1>1, <1>2, StateIsRecord, AdjustTracked DEF AtWork
<1>4. quit' = "no"
  BY <1>2, StateIsRecord DEF ChangeSetting, AtWork
<1> QED
  BY <1>3, <1>4 DEF AppInv, Settled, State, StateFields

LEMMA ActOnSettingsSettled == ASSUME AppInv, ActOnSettings PROVE AppInv'
<1>1. PICK outcome, id : /\ IsAction(id) /\ Counted
                         /\ Becomes(RunSettingAction(State, id, outcome))
  BY DEF ActOnSettings, IsAction, Settings, Press
<1> QED
  BY <1>1, KeyAtWork, RunSettingActionSettled, BecomesSettled

LEMMA AcceptSettled == ASSUME AppInv, Accept PROVE AppInv'
<1>1. PICK outcome : Counted /\ Becomes(Perform(Closed, ui.overlay.action, outcome))
  BY DEF Accept, InDialog, Press
<1>2. AtWork(Closed)
  BY <1>1, KeyAtWork, ShowAtWork DEF Closed
<1> QED
  BY <1>1, <1>2, PerformSettled, BecomesSettled

LEMMA DeclineSettled == ASSUME AppInv, Decline PROVE AppInv'
<1>1. Counted
  BY DEF Decline, InDialog, Press
<1>2. AtWork(Closed)
  BY <1>1, KeyAtWork, ShowAtWork DEF Closed
<1>3. Settled([Closed EXCEPT !.quit = "discarded"])
  BY <1>2 DEF AtWork, Settled, StateFields
<1> QED
  BY <1>2, <1>3, WorkIsSettled, BecomesSettled DEF Decline

LEMMA SubmitLineSettled == ASSUME AppInv, SubmitLine PROVE AppInv'
<1> DEFINE s == [State EXCEPT !.ui.commanding = FALSE, !.ui.line = Submit(@)]
<1>1. Counted
  BY DEF SubmitLine, InLine, Press
<1>2. AtWork(State)
  BY <1>1, KeyAtWork
<1>3. AtWork(s)
  BY <1>2 DEF AtWork, StateFields
<1> HIDE DEF s
<1>4. \/ Becomes(s)
      \/ \E outcome : Becomes(ExecuteCommand(s, Parse(ui.line.input), outcome))
  BY DEF SubmitLine, s
<1> QED
  BY <1>3, <1>4, WorkIsSettled, ExecuteCommandSettled, BecomesSettled

LEMMA GlobalKeySettled == ASSUME AppInv, GlobalKey PROVE AppInv'
<1>1. Counted
  BY DEF GlobalKey, Screen, Press
<1>2. AtWork(State)
  BY <1>1, KeyAtWork
<1>3. Settled(Show(State, Popup("help")))
  BY <1>2, ShowAtWork, WorkIsSettled
<1>4. /\ Settled(SwitchScreen(State, Neighbour(ui.screen, 1)))
      /\ Settled(SwitchScreen(State, Neighbour(ui.screen, -1)))
  BY <1>2, SwitchAtWork, WorkIsSettled
<1>5. Settled(RequestQuit(State))
  BY <1>2, RequestQuitSettled
<1>6. /\ Settled([State EXCEPT !.prefs.paused = ~ @])
      /\ Settled([State EXCEPT !.prefs.sizeMode = Other(@, "allocated", "apparent")])
  BY <1>2 DEF AtWork, Settled, Tracked, StateFields
<1> QED
  BY <1>3, <1>4, <1>5, <1>6, BecomesSettled DEF GlobalKey

LEMMA ScreenKeySettled == ASSUME AppInv, ScreenKey PROVE AppInv'
<1>1. Counted
  BY DEF ScreenKey, On, Screen, Press
<1>2. AtWork(State)
  BY <1>1, KeyAtWork
<1>3. /\ Settled(SwitchScreen(State, "cleaner"))
      /\ Settled(SwitchScreen(State, "explorer"))
  BY <1>2, SwitchAtWork, WorkIsSettled
<1>4. /\ Settled([State EXCEPT !.prefs.showFiles = ~ @])
      /\ Settled([State EXCEPT !.ui.filter = <<>>])
  BY <1>2 DEF AtWork, Settled, Tracked, StateFields
<1>5. /\ Settled(SetRowLimit(State, prefs.rowLimit * 2))
      /\ Settled(SetRowLimit(State, prefs.rowLimit \div 2))
  BY <1>2, RowLimitAtWork, WorkIsSettled
<1>6. /\ Settled(StartHeaviestQuery(State, Clamp(prefs.heaviest * 2, 0, 10000)))
      /\ Settled(StartHeaviestQuery(State, Larger(prefs.heaviest \div 2, 10)))
  BY <1>2, HeaviestAtWork, WorkIsSettled
<1>7. \A overlay : Settled(Show(State, overlay))
  BY <1>2, ShowAtWork, WorkIsSettled
<1> QED
  BY <1>3, <1>4, <1>5, <1>6, <1>7, BecomesSettled DEF ScreenKey

LEMMA RunEditorSettled == ASSUME AppInv, RunEditor PROVE AppInv'
<1>1. CASE prefs' = prefs
  BY <1>1, PrefsUntouched DEF RunEditor
<1>2. CASE prefs' # prefs
  <2>1. PICK outcome : prefs' = [SaveSettings(prefs, outcome) EXCEPT !.dirty = prefs.dirty]
    BY <1>2 DEF RunEditor
  <2>2. /\ Tracked(SaveSettings(prefs, outcome))
        /\ SaveSettings(prefs, outcome).unwritten \subseteq prefs.unwritten
    BY SaveTracked, StateIsRecord DEF AppInv, Settled
  <2>3. /\ {"dirty", "unwritten"} \subseteq DOMAIN prefs'
        /\ prefs'.dirty = prefs.dirty
        /\ prefs'.unwritten \subseteq prefs.unwritten
    BY <2>1, <2>2 DEF Tracked
  <2>4. quit' = quit
    BY DEF RunEditor
  <2> QED
    BY <2>3, <2>4, StateIsRecord DEF AppInv, Settled, Tracked, State, StateFields
<1> QED
  BY <1>1, <1>2

LEMMA EditorExitsSettled == ASSUME AppInv, EditorExits PROVE AppInv'
<1> DEFINE loaded(file) == [State EXCEPT !.prefs.file = file, !.foreground = "none"]
<1>1. \E file : \E well \in BOOLEAN :
        Becomes(IF well THEN ReloadConfig(loaded(file)) ELSE loaded(file))
  BY DEF EditorExits
<1>2. ASSUME NEW file PROVE Settled(loaded(file))
  BY DEF AppInv, Settled, Tracked, State, StateFields
<1> HIDE DEF loaded
<1>3. PICK file : Becomes(ReloadConfig(loaded(file))) \/ Becomes(loaded(file))
  BY <1>1
<1>4. Settled(loaded(file)) /\ Settled(ReloadConfig(loaded(file)))
  BY <1>2, ReloadConfigSettled
<1> QED
  BY <1>3, <1>4, BecomesSettled

LEMMA ChangeFileSettled == ASSUME AppInv, ChangeFile PROVE AppInv'
<1>1. PICK file : prefs' = [prefs EXCEPT !.file = file]
  BY DEF ChangeFile
<1>2. Tracked(prefs) /\ quit = "no" /\ quit' = quit
  BY StateIsRecord DEF AppInv, Settled, ChangeFile, Counted
<1> QED
  BY <1>1, <1>2 DEF AppInv, Settled, Tracked, State, StateFields

(* The other keys open, close, move and type: no preference changes. *)
LEMMA ShowsSettled ==
  ASSUME AppInv, NEW overlay, Becomes(Show(State, overlay))
  PROVE  AppInv'
BY ShowSettled, BecomesSettled DEF AppInv

LEMMA AppInit == Init => AppInv
<1> SUFFICES ASSUME Init PROVE AppInv
  OBVIOUS
<1>1. PICK c, threads, file : prefs = Started(c, threads, file)
  BY DEF Init
<1>2. {"dirty", "unwritten"} \subseteq DOMAIN prefs /\ prefs.unwritten = {}
  BY <1>1 DEF Started
<1>3. quit = "no"
  BY DEF Init
<1> QED
  BY <1>2, <1>3 DEF AppInv, Settled, Tracked, State, StateFields

LEMMA AppStep == AppInv /\ [Next]_vars => AppInv'
<1> SUFFICES ASSUME AppInv, [Next]_vars PROVE AppInv'
  OBVIOUS
<1>1. CASE Interrupt         BY <1>1, InterruptSettled
<1>2. CASE SwallowKey        BY <1>2, PrefsUntouched DEF SwallowKey
<1>3. CASE DismissOperation  BY <1>3, DismissSettled
<1>4. CASE MoveSetting       BY <1>4, PrefsUntouched DEF MoveSetting
<1>5. CASE ChangeSetting     BY <1>5, ChangeSettingSettled
<1>6. CASE ActOnSettings     BY <1>6, ActOnSettingsSettled
<1>7. CASE CloseSettings     BY <1>7, ShowsSettled DEF CloseSettings
<1>8. CASE ClosePopup        BY <1>8, ShowsSettled DEF ClosePopup
<1>9. CASE Accept            BY <1>9, AcceptSettled
<1>10. CASE Decline          BY <1>10, DeclineSettled
<1>11. CASE TypeWord         BY <1>11, PrefsUntouched DEF TypeWord
<1>12. CASE EditLine         BY <1>12, PrefsUntouched DEF EditLine
<1>13. CASE TypeCommand      BY <1>13, PrefsUntouched DEF TypeCommand
<1>14. CASE LeaveLine        BY <1>14, PrefsUntouched DEF LeaveLine
<1>15. CASE SubmitLine       BY <1>15, SubmitLineSettled
<1>16. CASE OpenLine         BY <1>16, PrefsUntouched DEF OpenLine
<1>17. CASE GlobalKey        BY <1>17, GlobalKeySettled
<1>18. CASE ScreenKey        BY <1>18, ScreenKeySettled
<1>19. CASE RequestDeletion  BY <1>19, ShowsSettled DEF RequestDeletion
<1>20. CASE RunEditor        BY <1>20, RunEditorSettled
<1>21. CASE EditorExits      BY <1>21, EditorExitsSettled
<1>22. CASE RunElevated      BY <1>22, PrefsUntouched DEF RunElevated
<1>23. CASE OperationEnds    BY <1>23, PrefsUntouched DEF OperationEnds
<1>24. CASE ChangeFile       BY <1>24, ChangeFileSettled
<1>25. CASE UNCHANGED vars   BY <1>25, PrefsUntouched DEF vars
<1> QED
  BY <1>1, <1>2, <1>3, <1>4, <1>5, <1>6, <1>7, <1>8, <1>9, <1>10, <1>11, <1>12, <1>13,
     <1>14, <1>15, <1>16, <1>17, <1>18, <1>19, <1>20, <1>21, <1>22, <1>23, <1>24, <1>25
     DEF Next

(* Whatever is not in the file makes the settings dirty, in every state;   *)
(* the question on leaving is asked exactly when they are.                 *)
THEOREM ChangesAreTracked == Spec => []AppInv
<1>1. Init => AppInv
  BY AppInit
<1>2. AppInv /\ [Next]_vars => AppInv'
  BY AppStep
<1> QED
  BY <1>1, <1>2, PTL DEF Spec

(* q, :quit and the answer `save' that was carried out never leave the     *)
(* program while a preference changed in the popup or with :theme is       *)
(* neither written nor reloaded over.  Ctrl+C and a save that failed do.   *)
THEOREM NothingLost == Spec => []NothingUnwrittenIsLost
<1>1. AppInv => NothingUnwrittenIsLost
  BY StateIsRecord DEF AppInv, Settled, NothingUnwrittenIsLost
<1> QED
  BY <1>1, ChangesAreTracked, PTL

-----------------------------------------------------------------------------
(***************************************************************************)
(* The preferences in effect and the configuration agree, and what a save  *)
(* has written is what is in effect, for every list of themes, steps and   *)
(* commands and every file that holds a configuration.                     *)
(*                                                                         *)
(* Effective is the inductive invariant: the record is whole, the parts of *)
(* the program follow the configuration, and every value is one that a     *)
(* file can hold and a start leaves as it is.                              *)
(***************************************************************************)

PrefFields ==
  {"config", "policy", "cleaner", "theme", "palette", "sizeMode", "sizeBase", "deletion",
   "showFiles", "rowLimit", "heaviest", "threads", "paused", "dirty", "file", "unwritten", "saves",
   "guard"}

Whole(p) ==
  /\ DOMAIN p = PrefFields
  /\ DOMAIN p.policy = {"dense", "depth", "listing"}
  /\ IsConfig(p.config) /\ ~Rejected(p.config)
  /\ IsFile(p.file)

Follows(p) ==
  /\ p.theme = ThemeName(p.config) /\ p.palette = PaletteOf(p.theme)
  /\ p.policy.dense = ScanPolicy(p.config).dense
  /\ p.policy.depth = ScanPolicy(p.config).depth
  /\ p.cleaner = CleanerConfig(p.config)

Storable(p) ==
  /\ p.sizeMode \in {"allocated", "apparent"}
  /\ p.sizeBase \in {"decimal", "binary"}
  /\ p.deletion \in {"permanent", "trash"}
  /\ p.rowLimit \in Nat /\ p.rowLimit >= 5
  /\ p.heaviest \in Nat /\ p.heaviest >= 5
  /\ p.threads \in 1 .. 256

Effective(p) == Whole(p) /\ Follows(p) /\ Storable(p)

(* What a step from p to q may do: a new save comes back at the next start. *)
ComesBack(q) == Preferences(Started(q.file.config, 0, q.file)) = Preferences(q)
SavesWell(p, q) == q.saves # p.saves => ComesBack(q)

-----------------------------------------------------------------------------
(* Numbers, steps and configurations. *)

LEMMA ClampRange ==
  ASSUME NEW x \in Int, NEW lo \in Int, NEW hi \in Int, lo <= hi
  PROVE  Clamp(x, lo, hi) \in lo .. hi
BY DEF Clamp

LEMMA StepIsAStep ==
  ASSUME NEW steps \in Seq(Nat), Len(steps) > 0, NEW current, NEW delta \in Int
  PROVE  \E i \in DOMAIN steps : StepThrough(steps, current, delta) = steps[i]
<1> DEFINE above == {i \in DOMAIN steps : steps[i] >= current}
           at == IF above = {} THEN Len(steps) ELSE CHOOSE i \in above : \A j \in above : i <= j
<1>1. DOMAIN steps = 1 .. Len(steps) /\ Len(steps) \in Nat
  BY LenProperties
<1>2. above \in SUBSET (1 .. Len(steps))
  BY <1>1
<1> HIDE DEF above
<1>3. at \in 1 .. Len(steps)
  <2>1. CASE above = {}
    BY <1>1, <2>1
  <2>2. CASE above # {}
    <3>1. \E i \in above : \A j \in above : i <= j
      <4>1. above \in SUBSET Nat
        BY <1>1, <1>2
      <4> QED BY <4>1, <2>2, LeastOf
    <3>2. (CHOOSE i \in above : \A j \in above : i <= j) \in above
      BY <3>1
    <3> QED
      BY <1>2, <2>2, <3>2
  <2> QED
    BY <2>1, <2>2
<1>4. StepThrough(steps, current, delta) = steps[Clamp(at + delta, 1, Len(steps))]
  BY DEF StepThrough, above
<1> HIDE DEF at
<1>5. Clamp(at + delta, 1, Len(steps)) \in 1 .. Len(steps)
  <2>1. at + delta \in Int /\ Len(steps) \in Int /\ 1 <= Len(steps)
    BY <1>1, <1>3
  <2> QED
    BY <2>1, ClampRange
<1> QED
  BY <1>1, <1>4, <1>5

LEMMA ConfigKeys ==
  DOMAIN DefaultConfig =
    {"theme", "size_mode", "size_base", "show_files", "row_limit", "heaviest_files_limit",
     "default_mode", "worker_threads", "dense_directory_threshold", "materialize_depth",
     "background_root_scan", "never_delete", "globs", "discovery_max_depth", "docker"}
BY DEF DefaultConfig

LEMMA DefaultIsConfig == IsConfig(DefaultConfig) /\ ~Rejected(DefaultConfig)
BY DEF IsConfig, DefaultConfig, Numbers, Rejected

LEMMA LoadIsConfig ==
  ASSUME NEW file, IsFile(file)
  PROVE  IsConfig(Load(file))
BY DefaultIsConfig DEF IsFile, Load

LEMMA ThemeKnown == ASSUME NEW c PROVE ThemeName(c) \in DOMAIN NamedTheme
BY ThemesAssumption DEF ThemeName

(* A configuration with the same theme name, limits of the scan and        *)
(* options of the cleaner is followed by the same parts.                   *)
LEMMA SameFollowed ==
  ASSUME NEW p, NEW q, Follows(p),
         q.theme = p.theme, q.palette = p.palette, q.policy = p.policy, q.cleaner = p.cleaner,
         ThemeName(q.config) = ThemeName(p.config),
         \A key \in {"dense_directory_threshold", "materialize_depth", "docker",
                     "discovery_max_depth", "globs"} : q.config[key] = p.config[key]
  PROVE  Follows(q)
BY DEF Follows, ScanPolicy, CleanerConfig

-----------------------------------------------------------------------------
(* The operators of Configuration. *)

LEMMA StartedEffective ==
  ASSUME NEW c, IsConfig(c), ~Rejected(c), NEW n \in Nat, NEW file, IsFile(file)
  PROVE  Effective(Started(c, n, file))
<1> DEFINE p == Started(c, n, file)
<1>1. Whole(p)
  BY DEF Started, Whole, PrefFields, ScanPolicy
<1>2. Follows(p)
  BY DEF Started, Follows, ScanPolicy
<1>3. c.row_limit \in Nat /\ c.heaviest_files_limit \in Nat /\ c.worker_threads \in Nat
  BY DEF IsConfig, Numbers
<1>4. Storable(p)
  BY <1>3, RecommendedAssumption
     DEF Started, Storable, SizeMode, SizeBase, DeletionMode, Larger, WorkerThreads,
         SetWorkerCount, Clamp
<1> QED
  BY <1>1, <1>2, <1>4 DEF Effective

LEMMA ApplyEffective ==
  ASSUME NEW p, Effective(p), NEW c, IsConfig(c)
  PROVE  Effective(ApplyConfig(p, c)) /\ ApplyConfig(p, c).saves = p.saves
<1>1. CASE Rejected(c)
  BY <1>1 DEF ApplyConfig
<1>2. CASE ~Rejected(c)
  <2> DEFINE q == Applied(p, c)
  <2>1. /\ DOMAIN q = PrefFields
        /\ q.config = c /\ q.cleaner = CleanerConfig(c) /\ q.policy = ScanPolicy(c)
        /\ q.theme = ThemeName(c) /\ q.palette = PaletteOf(ThemeName(c))
        /\ q.sizeMode = SizeMode(c) /\ q.sizeBase = SizeBase(c) /\ q.deletion = DeletionMode(c)
        /\ q.rowLimit = Clamp(c.row_limit, 5, 100000)
        /\ q.heaviest = Clamp(c.heaviest_files_limit, 5, 10000)
        /\ q.threads = SetWorkerCount(WorkerThreads(c))
        /\ q.file = p.file /\ q.saves = p.saves
    BY DEF Applied, Replaced, Effective, Whole, PrefFields
  <2>2. Whole(q)
    BY <1>2, <2>1 DEF Effective, Whole, ScanPolicy
  <2>3. Follows(q)
    BY <2>1 DEF Follows
  <2>4. c.row_limit \in Nat /\ c.heaviest_files_limit \in Nat /\ c.worker_threads \in Nat
    BY DEF IsConfig, Numbers
  <2>5. Storable(q)
    BY <2>1, <2>4, RecommendedAssumption
       DEF Storable, SizeMode, SizeBase, DeletionMode, Clamp, WorkerThreads, SetWorkerCount
  <2> QED
    BY <1>2, <2>1, <2>2, <2>3, <2>5 DEF ApplyConfig, Effective
<1> QED
  BY <1>1, <1>2

(* dirty, unwritten, paused and the number of saves are not looked at. *)
LEMMA BookkeepingEffective ==
  ASSUME NEW p, Effective(p), NEW q, DOMAIN q = DOMAIN p,
         \A field \in PrefFields \ {"dirty", "unwritten", "paused", "saves"} : q[field] = p[field]
  PROVE  Effective(q)
<1>1. /\ q.config = p.config /\ q.policy = p.policy /\ q.cleaner = p.cleaner /\ q.file = p.file
      /\ q.theme = p.theme /\ q.palette = p.palette /\ q.sizeMode = p.sizeMode
      /\ q.sizeBase = p.sizeBase /\ q.deletion = p.deletion /\ q.rowLimit = p.rowLimit
      /\ q.heaviest = p.heaviest /\ q.threads = p.threads
  BY DEF PrefFields
<1> QED
  BY <1>1 DEF Effective, Whole, Follows, Storable

LEMMA ReloadEffective ==
  ASSUME NEW p, Effective(p)
  PROVE  Effective(Reload(p)) /\ Reload(p).saves = p.saves
<1> DEFINE c == Load(p.file)
           q == ApplyConfig(p, c)
           r == [q EXCEPT !.dirty = FALSE, !.unwritten = {}]
<1>1. IsConfig(c)
  BY LoadIsConfig DEF Effective, Whole
<1>2. Effective(q) /\ q.saves = p.saves
  BY <1>1, ApplyEffective
<1>3. Reload(p) = IF Rejected(c) THEN q ELSE r
  BY DEF Reload
<1> HIDE DEF q
<1>4. DOMAIN q = PrefFields
  BY <1>2 DEF Effective, Whole
<1>5. Effective(r) /\ r.saves = q.saves
  BY <1>2, <1>4, BookkeepingEffective DEF PrefFields
<1> QED
  BY <1>2, <1>3, <1>5

LEMMA ResetEffective ==
  ASSUME NEW p, Effective(p)
  PROVE  Effective(ResetToDefaults(p)) /\ ResetToDefaults(p).saves = p.saves
<1> DEFINE q == ApplyConfig(p, DefaultConfig)
<1>1. Effective(q) /\ q.saves = p.saves
  BY DefaultIsConfig, ApplyEffective
<1>2. ResetToDefaults(p) = [q EXCEPT !.dirty = TRUE, !.unwritten = {"ResetDefaults"}]
  BY DEF ResetToDefaults
<1> HIDE DEF q
<1>3. DOMAIN q = PrefFields
  BY <1>1 DEF Effective, Whole
<1> QED
  BY <1>1, <1>2, <1>3, BookkeepingEffective DEF PrefFields

(* sync_config_from_state: the configuration that is written. *)
Synced(p) ==
  LET c == p.config
  IN  /\ c.theme = p.theme /\ c.show_files = p.showFiles /\ c.row_limit = p.rowLimit
      /\ c.heaviest_files_limit = p.heaviest /\ c.size_mode = p.sizeMode
      /\ c.size_base = p.sizeBase /\ c.default_mode = p.deletion /\ c.worker_threads = p.threads

LEMMA SyncEffective ==
  ASSUME NEW p, Effective(p), NEW q, q = [p EXCEPT !.config = SyncConfigFromState(p)]
  PROVE  Effective(q) /\ Synced(q) /\ q.saves = p.saves
<1> DEFINE c == SyncConfigFromState(p)
<1>1. DOMAIN p = PrefFields /\ IsConfig(p.config) /\ Storable(p)
  BY DEF Effective, Whole
<1>2. DOMAIN c = DOMAIN p.config
  BY DEF SyncConfigFromState, Replaced
<1>3. /\ c.theme = p.theme /\ c.show_files = p.showFiles /\ c.row_limit = p.rowLimit
      /\ c.heaviest_files_limit = p.heaviest /\ c.size_mode = p.sizeMode
      /\ c.size_base = p.sizeBase /\ c.default_mode = p.deletion /\ c.worker_threads = p.threads
  BY <1>1, ConfigKeys DEF IsConfig, SyncConfigFromState, Replaced
<1>4. \A key \in {"dense_directory_threshold", "materialize_depth", "docker",
                   "discovery_max_depth", "globs"} : c[key] = p.config[key]
  BY <1>1, ConfigKeys DEF IsConfig, SyncConfigFromState, Replaced
<1> HIDE DEF c
<1>5. /\ DOMAIN q = PrefFields /\ q.config = c
      /\ q.policy = p.policy /\ q.cleaner = p.cleaner /\ q.file = p.file
      /\ q.theme = p.theme /\ q.palette = p.palette /\ q.sizeMode = p.sizeMode
      /\ q.sizeBase = p.sizeBase /\ q.deletion = p.deletion /\ q.rowLimit = p.rowLimit
      /\ q.heaviest = p.heaviest /\ q.threads = p.threads /\ q.showFiles = p.showFiles
      /\ q.saves = p.saves
  BY <1>1 DEF PrefFields, c
<1>6. IsConfig(c) /\ ~Rejected(c)
  BY <1>1, <1>2, <1>3, <1>4 DEF Effective, Whole, IsConfig, Numbers, Storable, Rejected
<1>7. ThemeName(c) = ThemeName(p.config)
  <2>1. p.theme = ThemeName(p.config)
    BY DEF Effective, Follows
  <2>2. p.theme \in DOMAIN NamedTheme
    BY <2>1, ThemeKnown
  <2> QED
    BY <1>3, <2>1, <2>2 DEF ThemeName
<1>8. Whole(q)
  BY <1>5, <1>6 DEF Effective, Whole
<1>9. Follows(q)
  BY <1>4, <1>5, <1>7, SameFollowed DEF Effective
<1>10. Storable(q)
  BY <1>1, <1>5 DEF Storable
<1> QED
  BY <1>3, <1>5, <1>8, <1>9, <1>10 DEF Effective, Synced

(* A start with the configuration that was synced changes nothing that is  *)
(* in effect.                                                              *)
LEMMA SyncedComesBack ==
  ASSUME NEW q, Effective(q), Synced(q), q.file.config = q.config
  PROVE  ComesBack(q)
<1> DEFINE c == q.config
           r == Started(c, 0, q.file)
<1>1. /\ r.theme = ThemeName(c) /\ r.palette = PaletteOf(ThemeName(c))
      /\ r.policy = ScanPolicy(c) /\ r.cleaner = CleanerConfig(c)
      /\ r.sizeMode = SizeMode(c) /\ r.sizeBase = SizeBase(c) /\ r.deletion = DeletionMode(c)
      /\ r.showFiles = c.show_files /\ r.rowLimit = Larger(c.row_limit, 5)
      /\ r.heaviest = Larger(c.heaviest_files_limit, 5) /\ r.threads = SetWorkerCount(WorkerThreads(c))
  BY DEF Started
<1> HIDE DEF r
<1>2. /\ r.theme = q.theme /\ r.palette = q.palette /\ r.cleaner = q.cleaner
      /\ r.policy.dense = q.policy.dense /\ r.policy.depth = q.policy.depth
  BY <1>1 DEF Effective, Follows
<1>3. /\ r.sizeMode = q.sizeMode /\ r.sizeBase = q.sizeBase /\ r.deletion = q.deletion
  BY <1>1 DEF Effective, Storable, Synced, SizeMode, SizeBase, DeletionMode
<1>4. /\ r.showFiles = q.showFiles /\ r.rowLimit = q.rowLimit
      /\ r.heaviest = q.heaviest /\ r.threads = q.threads
  BY <1>1 DEF Effective, Storable, Synced, Larger, WorkerThreads, SetWorkerCount, Clamp
<1>5. Preferences(r) = Preferences(q)
  BY <1>2, <1>3, <1>4 DEF Preferences
<1> QED
  BY <1>5 DEF ComesBack, r

LEMMA SaveEffective ==
  ASSUME NEW p, Effective(p), NEW outcome
  PROVE  /\ Effective(SaveSettings(p, outcome))
         /\ SavesWell(p, SaveSettings(p, outcome))
<1> DEFINE q == [p EXCEPT !.config = SyncConfigFromState(p)]
<1>1. Effective(q) /\ Synced(q) /\ q.saves = p.saves
  BY SyncEffective
<1>2. SaveSettings(p, outcome) =
        IF outcome = "written" THEN [Written(q) EXCEPT !.dirty = FALSE] ELSE Unsaved(q, outcome)
  BY DEF SaveSettings
<1> HIDE DEF q
<1>3. DOMAIN q = PrefFields /\ IsConfig(q.config) /\ IsFile(q.file)
  BY <1>1 DEF Effective, Whole
<1>4. CASE outcome = "written"
  <2> DEFINE r == [Written(q) EXCEPT !.dirty = FALSE]
             s == [q EXCEPT !.file = [status |-> "config", config |-> q.config]]
  <2>1. IsFile([status |-> "config", config |-> q.config])
    BY <1>3 DEF IsFile
  <2>2. /\ DOMAIN s = PrefFields
        /\ s.file = [status |-> "config", config |-> q.config]
        /\ \A field \in PrefFields \ {"file"} : s[field] = q[field]
    BY <1>3 DEF PrefFields
  <2>3. /\ DOMAIN r = PrefFields
        /\ \A field \in PrefFields \ {"dirty", "unwritten", "paused", "saves"} : r[field] = s[field]
    BY <1>3 DEF Written, PrefFields
  <2> HIDE DEF r, s
  <2>4. /\ s.config = q.config /\ s.policy = q.policy /\ s.cleaner = q.cleaner
        /\ s.theme = q.theme /\ s.palette = q.palette /\ s.sizeMode = q.sizeMode
        /\ s.sizeBase = q.sizeBase /\ s.deletion = q.deletion /\ s.rowLimit = q.rowLimit
        /\ s.heaviest = q.heaviest /\ s.threads = q.threads /\ s.showFiles = q.showFiles
    BY <2>2 DEF PrefFields
  <2>5. Effective(s) /\ Synced(s)
    BY <1>1, <2>1, <2>2, <2>4 DEF Effective, Whole, Follows, Storable, Synced
  <2>6. Effective(r)
    BY <2>2, <2>3, <2>5, BookkeepingEffective
  <2>7. /\ r.config = s.config /\ r.theme = s.theme /\ r.showFiles = s.showFiles
        /\ r.rowLimit = s.rowLimit /\ r.heaviest = s.heaviest /\ r.sizeMode = s.sizeMode
        /\ r.sizeBase = s.sizeBase /\ r.deletion = s.deletion /\ r.threads = s.threads
        /\ r.file = s.file
    BY <2>3 DEF PrefFields
  <2>8. Synced(r) /\ r.file.config = r.config
    BY <2>2, <2>4, <2>5, <2>7 DEF Synced
  <2>9. ComesBack(r)
    BY <2>6, <2>8, SyncedComesBack
  <2> QED
    BY <1>2, <1>4, <2>6, <2>9 DEF SavesWell, r
<1>5. CASE outcome # "written"
  <2> DEFINE r == Unsaved(q, outcome)
  <2>1. /\ DOMAIN r = PrefFields /\ IsFile(r.file)
        /\ r.config = q.config /\ r.policy = q.policy /\ r.cleaner = q.cleaner
        /\ r.theme = q.theme /\ r.palette = q.palette /\ r.sizeMode = q.sizeMode
        /\ r.sizeBase = q.sizeBase /\ r.deletion = q.deletion /\ r.rowLimit = q.rowLimit
        /\ r.heaviest = q.heaviest /\ r.threads = q.threads /\ r.saves = q.saves
    BY <1>3 DEF Unsaved, PrefFields, IsFile
  <2> HIDE DEF r
  <2>2. Effective(r)
    BY <1>1, <2>1 DEF Effective, Whole, Follows, Storable
  <2> QED
    BY <1>1, <1>2, <1>5, <2>1, <2>2 DEF SavesWell, r
<1> QED
  BY <1>4, <1>5

-----------------------------------------------------------------------------
(* The settings. *)

FreeKeys == {"size_mode", "size_base", "show_files", "row_limit", "heaviest_files_limit",
             "worker_threads", "background_root_scan", "default_mode"}

(* A key that no part of the program follows. *)
LEMMA FreeKeyEffective ==
  ASSUME NEW p, Effective(p), NEW key \in FreeKeys, NEW v, key \in Numbers => v \in Nat,
         NEW q, DOMAIN q = PrefFields, q.config = [p.config EXCEPT ![key] = v],
         q.theme = p.theme, q.palette = p.palette, q.policy = p.policy, q.cleaner = p.cleaner,
         q.file = p.file, Storable(q)
  PROVE  Effective(q)
<1>1. IsConfig(p.config) /\ ~Rejected(p.config)
  BY DEF Effective, Whole
<1>2. IsConfig(q.config)
  BY <1>1 DEF IsConfig, Numbers
<1>3. /\ q.config.theme = p.config.theme
      /\ \A k \in {"dense_directory_threshold", "materialize_depth", "docker",
                    "discovery_max_depth", "globs"} : q.config[k] = p.config[k]
  BY <1>1, ConfigKeys DEF IsConfig, FreeKeys
<1>4. ThemeName(q.config) = ThemeName(p.config) /\ ~Rejected(q.config)
  BY <1>1, <1>3 DEF ThemeName, Rejected
<1>5. Follows(q)
  BY <1>3, <1>4, SameFollowed DEF Effective
<1> QED
  BY <1>2, <1>4, <1>5 DEF Effective, Whole

LEMMA ThemeEffective ==
  ASSUME NEW p, Effective(p), NEW name
  PROVE  Effective(ApplyThemeName(p, name)) /\ ApplyThemeName(p, name).saves = p.saves
<1>1. CASE name \notin DOMAIN NamedTheme
  BY <1>1 DEF ApplyThemeName
<1>2. CASE name \in DOMAIN NamedTheme
  <2> DEFINE n == NamedTheme[name]
             q == ApplyThemeName(p, name)
  <2>1. n \in DOMAIN NamedTheme
    BY <1>2, ThemesAssumption
  <2>2. DOMAIN p = PrefFields /\ IsConfig(p.config) /\ ~Rejected(p.config)
    BY DEF Effective, Whole
  <2>3. /\ DOMAIN q = PrefFields
        /\ q.config = [p.config EXCEPT !.theme = n]
        /\ q.theme = n /\ q.palette = PaletteOf(n)
        /\ q.policy = p.policy /\ q.cleaner = p.cleaner /\ q.file = p.file
        /\ q.sizeMode = p.sizeMode /\ q.sizeBase = p.sizeBase /\ q.deletion = p.deletion
        /\ q.rowLimit = p.rowLimit /\ q.heaviest = p.heaviest /\ q.threads = p.threads
        /\ q.saves = p.saves
    BY <1>2, <2>2 DEF ApplyThemeName, PrefFields
  <2> HIDE DEF q, n
  <2>4. /\ DOMAIN q.config = DOMAIN p.config /\ q.config.theme = n
        /\ q.config.dense_directory_threshold = p.config.dense_directory_threshold
        /\ q.config.materialize_depth = p.config.materialize_depth
        /\ q.config.docker = p.config.docker /\ q.config.globs = p.config.globs
        /\ q.config.discovery_max_depth = p.config.discovery_max_depth
        /\ \A key \in Numbers : q.config[key] = p.config[key]
    BY <2>2, <2>3, ConfigKeys DEF IsConfig, Numbers
  <2>5. Whole(q)
    BY <2>2, <2>3, <2>4 DEF Effective, Whole, IsConfig, Rejected
  <2>6. Follows(q)
    BY <2>1, <2>3, <2>4 DEF Effective, Follows, ThemeName, ScanPolicy, CleanerConfig
  <2>7. Storable(q)
    BY <2>3 DEF Effective, Storable
  <2> QED
    BY <2>3, <2>5, <2>6, <2>7 DEF Effective, q
<1> QED
  BY <1>1, <1>2

LEMMA DenseEffective ==
  ASSUME NEW p, Effective(p), NEW n \in Nat, n >= 100
  PROVE  Effective(SetDense(p, n)) /\ SetDense(p, n).saves = p.saves
<1> DEFINE q == SetDense(p, n)
<1>1. /\ DOMAIN p = PrefFields /\ IsConfig(p.config) /\ ~Rejected(p.config)
      /\ DOMAIN p.policy = {"dense", "depth", "listing"}
  BY DEF Effective, Whole
<1>2. /\ DOMAIN q = PrefFields
      /\ q.config = [p.config EXCEPT !.dense_directory_threshold = n]
      /\ q.policy = [p.policy EXCEPT !.dense = n]
      /\ q.theme = p.theme /\ q.palette = p.palette
      /\ q.cleaner = p.cleaner /\ q.file = p.file
      /\ q.sizeMode = p.sizeMode /\ q.sizeBase = p.sizeBase /\ q.deletion = p.deletion
      /\ q.rowLimit = p.rowLimit /\ q.heaviest = p.heaviest /\ q.threads = p.threads
      /\ q.saves = p.saves
  BY <1>1 DEF SetDense, PrefFields
<1> HIDE DEF q
<1>3. /\ DOMAIN q.config = DOMAIN p.config /\ q.config.theme = p.config.theme
      /\ q.config.dense_directory_threshold = n
      /\ q.config.materialize_depth = p.config.materialize_depth
      /\ q.config.docker = p.config.docker /\ q.config.globs = p.config.globs
      /\ q.config.discovery_max_depth = p.config.discovery_max_depth
      /\ \A key \in Numbers : q.config[key] \in Nat
  BY <1>1, <1>2, ConfigKeys DEF IsConfig, Numbers
<1>4. Whole(q)
  BY <1>1, <1>2, <1>3 DEF Effective, Whole, IsConfig, Rejected
<1>5. Follows(q)
  BY <1>1, <1>2, <1>3 DEF Effective, Follows, ThemeName, ScanPolicy, CleanerConfig, Larger
<1>6. Storable(q)
  BY <1>2 DEF Effective, Storable
<1> QED
  BY <1>2, <1>4, <1>5, <1>6 DEF Effective, q

LEMMA DepthEffective ==
  ASSUME NEW p, Effective(p), NEW n \in 1 .. 64
  PROVE  Effective(SetDepth(p, n)) /\ SetDepth(p, n).saves = p.saves
<1> DEFINE q == SetDepth(p, n)
<1>1. /\ DOMAIN p = PrefFields /\ IsConfig(p.config) /\ ~Rejected(p.config)
      /\ DOMAIN p.policy = {"dense", "depth", "listing"}
  BY DEF Effective, Whole
<1>2. /\ DOMAIN q = PrefFields
      /\ q.config = [p.config EXCEPT !.materialize_depth = n]
      /\ q.policy = [p.policy EXCEPT !.depth = n]
      /\ q.theme = p.theme /\ q.palette = p.palette
      /\ q.cleaner = p.cleaner /\ q.file = p.file
      /\ q.sizeMode = p.sizeMode /\ q.sizeBase = p.sizeBase /\ q.deletion = p.deletion
      /\ q.rowLimit = p.rowLimit /\ q.heaviest = p.heaviest /\ q.threads = p.threads
      /\ q.saves = p.saves
  BY <1>1 DEF SetDepth, PrefFields
<1> HIDE DEF q
<1>3. /\ DOMAIN q.config = DOMAIN p.config /\ q.config.theme = p.config.theme
      /\ q.config.materialize_depth = n
      /\ q.config.dense_directory_threshold = p.config.dense_directory_threshold
      /\ q.config.docker = p.config.docker /\ q.config.globs = p.config.globs
      /\ q.config.discovery_max_depth = p.config.discovery_max_depth
      /\ \A key \in Numbers : q.config[key] \in Nat
  BY <1>1, <1>2, ConfigKeys DEF IsConfig, Numbers
<1>4. Whole(q)
  BY <1>1, <1>2, <1>3 DEF Effective, Whole, IsConfig, Rejected
<1>5. Follows(q)
  BY <1>1, <1>2, <1>3 DEF Effective, Follows, ThemeName, ScanPolicy, CleanerConfig, Clamp
<1>6. Storable(q)
  BY <1>2 DEF Effective, Storable
<1> QED
  BY <1>2, <1>4, <1>5, <1>6 DEF Effective, q

(* A change of the cleaner's part is pushed to the cleaning service. *)
LEMMA PushEffective ==
  ASSUME NEW p, Effective(p), NEW key \in {"docker", "discovery_max_depth"}, NEW v,
         key \in Numbers => v \in Nat,
         NEW q, q = [p EXCEPT !.config = [p.config EXCEPT ![key] = v]]
  PROVE  Effective(PushToCleaner(q)) /\ PushToCleaner(q).saves = p.saves
<1> DEFINE r == PushToCleaner(q)
<1>1. DOMAIN p = PrefFields /\ IsConfig(p.config) /\ ~Rejected(p.config)
  BY DEF Effective, Whole
<1>2. /\ DOMAIN q = PrefFields
      /\ q.config = [p.config EXCEPT ![key] = v]
      /\ q.policy = p.policy /\ q.theme = p.theme /\ q.palette = p.palette /\ q.file = p.file
      /\ q.sizeMode = p.sizeMode /\ q.sizeBase = p.sizeBase /\ q.deletion = p.deletion
      /\ q.rowLimit = p.rowLimit /\ q.heaviest = p.heaviest /\ q.threads = p.threads
      /\ q.saves = p.saves
  BY <1>1 DEF PrefFields
<1>3. /\ DOMAIN q.config = DOMAIN p.config /\ q.config.theme = p.config.theme
      /\ q.config.materialize_depth = p.config.materialize_depth
      /\ q.config.dense_directory_threshold = p.config.dense_directory_threshold
      /\ q.config.globs = p.config.globs
  BY <1>1, <1>2, ConfigKeys DEF IsConfig
<1>4. \A k \in Numbers : q.config[k] \in Nat
  BY <1>1, <1>2, ConfigKeys DEF IsConfig, Numbers
<1>5. ~Rejected(q.config) /\ IsConfig(q.config)
  BY <1>1, <1>3, <1>4 DEF Rejected, IsConfig
<1>6. r = [q EXCEPT !.cleaner = CleanerConfig(q.config)]
  BY <1>5 DEF PushToCleaner
<1> HIDE DEF r
<1>7. /\ DOMAIN r = PrefFields /\ r.config = q.config /\ r.cleaner = CleanerConfig(q.config)
      /\ r.policy = p.policy /\ r.theme = p.theme /\ r.palette = p.palette /\ r.file = p.file
      /\ r.sizeMode = p.sizeMode /\ r.sizeBase = p.sizeBase /\ r.deletion = p.deletion
      /\ r.rowLimit = p.rowLimit /\ r.heaviest = p.heaviest /\ r.threads = p.threads
      /\ r.saves = p.saves
  BY <1>2, <1>6 DEF PrefFields
<1>8. Whole(r)
  BY <1>5, <1>7 DEF Effective, Whole
<1>9. Follows(r)
  BY <1>3, <1>7 DEF Effective, Follows, ThemeName, ScanPolicy
<1>10. Storable(r)
  BY <1>7 DEF Effective, Storable
<1> QED
  BY <1>7, <1>8, <1>9, <1>10 DEF Effective, r

(* A preference that the configuration gets when it is written. *)
LEMMA ValueEffective ==
  ASSUME NEW p, Effective(p), NEW q, DOMAIN q = PrefFields, Storable(q),
         \A field \in {"config", "policy", "cleaner", "theme", "palette", "file"} :
           q[field] = p[field]
  PROVE  Effective(q)
<1>1. /\ q.config = p.config /\ q.policy = p.policy /\ q.cleaner = p.cleaner
      /\ q.theme = p.theme /\ q.palette = p.palette /\ q.file = p.file
  OBVIOUS
<1> QED
  BY <1>1 DEF Effective, Whole, Follows

LEMMA AdjustedEffective ==
  ASSUME NEW p, Effective(p), NEW id, NEW delta \in Int
  PROVE  Effective(Adjusted(p, id, delta)) /\ Adjusted(p, id, delta).saves = p.saves
<1> DEFINE q == Adjusted(p, id, delta)
<1>1. DOMAIN p = PrefFields /\ IsConfig(p.config) /\ Storable(p)
  BY DEF Effective, Whole
<1>2. CASE id = "Theme"
  BY <1>2, ThemeEffective DEF Adjusted
<1>3. CASE id = "SizeMode"
  <2> DEFINE v == Other(p.sizeMode, "allocated", "apparent")
  <2>1. q = [p EXCEPT !.sizeMode = v, !.config = [p.config EXCEPT !["size_mode"] = v]]
    BY <1>3 DEF Adjusted
  <2>2. v \in {"allocated", "apparent"}
    BY DEF Other
  <2> HIDE DEF v, q
  <2>3. /\ DOMAIN q = PrefFields /\ q.config = [p.config EXCEPT !["size_mode"] = v]
        /\ q.theme = p.theme /\ q.palette = p.palette /\ q.policy = p.policy
        /\ q.cleaner = p.cleaner /\ q.file = p.file /\ q.saves = p.saves
        /\ Storable(q)
    BY <1>1, <2>1, <2>2 DEF PrefFields, Storable
  <2> QED
    BY <2>3, FreeKeyEffective DEF FreeKeys, Numbers, q
<1>4. CASE id = "SizeBase"
  <2> DEFINE v == Other(p.sizeBase, "decimal", "binary")
  <2>1. q = [p EXCEPT !.sizeBase = v, !.config = [p.config EXCEPT !["size_base"] = v]]
    BY <1>4 DEF Adjusted
  <2>2. v \in {"decimal", "binary"}
    BY DEF Other
  <2> HIDE DEF v, q
  <2>3. /\ DOMAIN q = PrefFields /\ q.config = [p.config EXCEPT !["size_base"] = v]
        /\ q.theme = p.theme /\ q.palette = p.palette /\ q.policy = p.policy
        /\ q.cleaner = p.cleaner /\ q.file = p.file /\ q.saves = p.saves
        /\ Storable(q)
    BY <1>1, <2>1, <2>2 DEF PrefFields, Storable
  <2> QED
    BY <2>3, FreeKeyEffective DEF FreeKeys, Numbers, q
<1>5. CASE id = "DeletionMode"
  <2> DEFINE v == Other(p.deletion, "permanent", "trash")
  <2>1. q = [p EXCEPT !.deletion = v, !.config = [p.config EXCEPT !["default_mode"] = v]]
    BY <1>5 DEF Adjusted
  <2>2. v \in {"permanent", "trash"}
    BY DEF Other
  <2> HIDE DEF v, q
  <2>3. /\ DOMAIN q = PrefFields /\ q.config = [p.config EXCEPT !["default_mode"] = v]
        /\ q.theme = p.theme /\ q.palette = p.palette /\ q.policy = p.policy
        /\ q.cleaner = p.cleaner /\ q.file = p.file /\ q.saves = p.saves
        /\ Storable(q)
    BY <1>1, <2>1, <2>2 DEF PrefFields, Storable
  <2> QED
    BY <2>3, FreeKeyEffective DEF FreeKeys, Numbers, q
<1>6. CASE id = "ShowFiles"
  <2>1. PICK v : /\ DOMAIN q = PrefFields /\ q.config = [p.config EXCEPT !["show_files"] = v]
                 /\ q.theme = p.theme /\ q.palette = p.palette /\ q.policy = p.policy
                 /\ q.cleaner = p.cleaner /\ q.file = p.file /\ q.saves = p.saves
                 /\ Storable(q)
    BY <1>1, <1>6 DEF Adjusted, PrefFields, Storable
  <2> QED
    BY <2>1, FreeKeyEffective DEF FreeKeys, Numbers
<1>7. CASE id = "RowLimit"
  <2> DEFINE n == StepThrough(RowLimitSteps, p.rowLimit, delta)
  <2>1. n \in Nat /\ n >= 5
    <3>1. PICK i \in DOMAIN RowLimitSteps : n = RowLimitSteps[i]
      BY StepsAssumption, StepIsAStep
    <3> QED
      BY <3>1, StepsAssumption
  <2>2. q = [p EXCEPT !.rowLimit = n, !.config = [p.config EXCEPT !["row_limit"] = n]]
    BY <1>7 DEF Adjusted
  <2> HIDE DEF n, q
  <2>3. /\ DOMAIN q = PrefFields /\ q.config = [p.config EXCEPT !["row_limit"] = n]
        /\ q.theme = p.theme /\ q.palette = p.palette /\ q.policy = p.policy
        /\ q.cleaner = p.cleaner /\ q.file = p.file /\ q.saves = p.saves
        /\ Storable(q)
    BY <1>1, <2>1, <2>2 DEF PrefFields, Storable
  <2> QED
    BY <2>1, <2>3, FreeKeyEffective DEF FreeKeys, q
<1>8. CASE id = "HeaviestLimit"
  <2> DEFINE n == StepThrough(HeaviestSteps, p.heaviest, delta)
  <2>1. n \in Nat /\ n >= 5
    <3>1. PICK i \in DOMAIN HeaviestSteps : n = HeaviestSteps[i]
      BY StepsAssumption, StepIsAStep
    <3> QED
      BY <3>1, StepsAssumption
  <2>2. q = [p EXCEPT !.heaviest = n, !.config = [p.config EXCEPT !["heaviest_files_limit"] = n]]
    BY <1>8 DEF Adjusted
  <2> HIDE DEF n, q
  <2>3. /\ DOMAIN q = PrefFields /\ q.config = [p.config EXCEPT !["heaviest_files_limit"] = n]
        /\ q.theme = p.theme /\ q.palette = p.palette /\ q.policy = p.policy
        /\ q.cleaner = p.cleaner /\ q.file = p.file /\ q.saves = p.saves
        /\ Storable(q)
    BY <1>1, <2>1, <2>2 DEF PrefFields, Storable
  <2> QED
    BY <2>1, <2>3, FreeKeyEffective DEF FreeKeys, q
<1>9. CASE id = "WorkerThreads"
  <2> DEFINE n == Clamp(p.threads + delta, 1, 64)
  <2>1. n \in Nat /\ n \in 1 .. 256
    <3>1. p.threads + delta \in Int
      BY <1>1 DEF Storable
    <3>2. n \in 1 .. 64
      BY <3>1 DEF Clamp
    <3> QED
      BY <3>2
  <2>2. q = [p EXCEPT !.threads = n, !.config = [p.config EXCEPT !["worker_threads"] = n]]
    BY <1>9 DEF Adjusted
  <2> HIDE DEF n, q
  <2>3. /\ DOMAIN q = PrefFields /\ q.config = [p.config EXCEPT !["worker_threads"] = n]
        /\ q.theme = p.theme /\ q.palette = p.palette /\ q.policy = p.policy
        /\ q.cleaner = p.cleaner /\ q.file = p.file /\ q.saves = p.saves
        /\ Storable(q)
    BY <1>1, <2>1, <2>2 DEF PrefFields, Storable
  <2> QED
    BY <2>1, <2>3, FreeKeyEffective DEF FreeKeys, q
<1>10. CASE id = "DenseThreshold"
  <2> DEFINE n == StepThrough(DenseSteps, p.config.dense_directory_threshold, delta)
  <2>1. n \in Nat /\ n >= 100
    <3>1. PICK i \in DOMAIN DenseSteps : n = DenseSteps[i]
      BY StepsAssumption, StepIsAStep
    <3> QED
      BY <3>1, StepsAssumption
  <2> QED
    BY <1>10, <2>1, DenseEffective DEF Adjusted
<1>11. CASE id = "MaterializeDepth"
  <2>1. p.config.materialize_depth \in Nat
    BY <1>1 DEF IsConfig, Numbers
  <2>2. Clamp(p.config.materialize_depth + delta, 1, 64) \in 1 .. 64
    BY <2>1 DEF Clamp
  <2> QED
    BY <1>11, <2>2, DepthEffective DEF Adjusted
<1>12. CASE id = "BackgroundRootScan"
  <2>1. PICK v : /\ DOMAIN q = PrefFields
                 /\ q.config = [p.config EXCEPT !["background_root_scan"] = v]
                 /\ q.theme = p.theme /\ q.palette = p.palette /\ q.policy = p.policy
                 /\ q.cleaner = p.cleaner /\ q.file = p.file /\ q.saves = p.saves
                 /\ Storable(q)
    BY <1>1, <1>12 DEF Adjusted, PrefFields, Storable
  <2> QED
    BY <2>1, FreeKeyEffective DEF FreeKeys, Numbers
<1>13. CASE id = "BackgroundPaused"
  <2>1. q = [p EXCEPT !.paused = ~ @]
    BY <1>13 DEF Adjusted
  <2> HIDE DEF q
  <2>2. Effective(q) /\ q.saves = p.saves
    BY <1>1, <2>1, BookkeepingEffective DEF PrefFields
  <2> QED
    BY <2>2 DEF q
<1>14. CASE id = "DiscoveryMaxDepth"
  <2> DEFINE n == Clamp(p.config.discovery_max_depth + delta, 2, 64)
             r == [p EXCEPT !.config = [p.config EXCEPT !["discovery_max_depth"] = n]]
  <2>1. p.config.discovery_max_depth \in Nat
    BY <1>1 DEF IsConfig, Numbers
  <2>2. n \in Nat
    BY <2>1 DEF Clamp
  <2>3. q = PushToCleaner(r)
    BY <1>14 DEF Adjusted
  <2> HIDE DEF n, q
  <2>4. Effective(PushToCleaner(r)) /\ PushToCleaner(r).saves = p.saves
    BY <2>2, PushEffective
  <2> QED
    BY <2>3, <2>4 DEF q
<1>15. CASE id \notin {"Theme", "SizeMode", "SizeBase", "ShowFiles", "RowLimit", "HeaviestLimit",
                       "WorkerThreads", "DenseThreshold", "MaterializeDepth",
                       "BackgroundRootScan", "BackgroundPaused", "DeletionMode",
                       "DiscoveryMaxDepth"}
  <2> DEFINE v == Switched(p.config.docker, DockerSwitch(id))
             r == [p EXCEPT !.config = [p.config EXCEPT !["docker"] = v]]
  <2>1. q = PushToCleaner(r)
    BY <1>15 DEF Adjusted
  <2> HIDE DEF v, q
  <2>2. Effective(PushToCleaner(r)) /\ PushToCleaner(r).saves = p.saves
    BY PushEffective DEF Numbers
  <2> QED
    BY <2>1, <2>2 DEF q
<1> QED
  BY <1>2, <1>3, <1>4, <1>5, <1>6, <1>7, <1>8, <1>9, <1>10, <1>11, <1>12, <1>13, <1>14, <1>15

LEMMA AdjustEffective ==
  ASSUME NEW p, Effective(p), NEW id, NEW delta \in Int
  PROVE  Effective(AdjustSetting(p, id, delta)) /\ AdjustSetting(p, id, delta).saves = p.saves
<1> DEFINE q == Adjusted(p, id, delta)
           r == [q EXCEPT !.dirty = TRUE, !.unwritten = @ \cup {id}]
<1>1. Effective(q) /\ q.saves = p.saves
  BY AdjustedEffective
<1>2. AdjustSetting(p, id, delta) = IF IsSessionOnly(id) THEN q ELSE r
  BY DEF AdjustSetting
<1> HIDE DEF q
<1>3. DOMAIN q = PrefFields
  BY <1>1 DEF Effective, Whole
<1>4. Effective(r) /\ r.saves = q.saves
  BY <1>1, <1>3, BookkeepingEffective DEF PrefFields
<1> QED
  BY <1>1, <1>2, <1>4

-----------------------------------------------------------------------------
(* The operators on states: from a state with effective preferences to     *)
(* one, saving nothing that would not come back.                           *)

InOrder(s) == DOMAIN s = StateFields /\ Effective(s.prefs)
Leads(s, t) == InOrder(t) /\ SavesWell(s.prefs, t.prefs)

LEMMA PrefsLead ==
  ASSUME NEW s, InOrder(s), NEW q, Effective(q), SavesWell(s.prefs, q)
  PROVE  Leads(s, [s EXCEPT !.prefs = q])
BY DEF InOrder, Leads, StateFields

LEMMA SamePrefsLead ==
  ASSUME NEW s, InOrder(s), NEW t, DOMAIN t = StateFields, t.prefs = s.prefs
  PROVE  Leads(s, t)
BY DEF InOrder, Leads, SavesWell

LEMMA ShowLeads == ASSUME NEW s, InOrder(s), NEW overlay PROVE Leads(s, Show(s, overlay))
<1>1. DOMAIN Show(s, overlay) = StateFields /\ Show(s, overlay).prefs = s.prefs
  BY DEF Show, InOrder, StateFields
<1> QED
  BY <1>1, SamePrefsLead

LEMMA RequestQuitLeads == ASSUME NEW s, InOrder(s) PROVE Leads(s, RequestQuit(s))
<1>1. Leads(s, [s EXCEPT !.quit = "left"])
  BY SamePrefsLead DEF InOrder, StateFields
<1> QED
  BY <1>1, ShowLeads DEF RequestQuit

LEMMA SaveLeads ==
  ASSUME NEW s, InOrder(s), NEW outcome
  PROVE  /\ Leads(s, [s EXCEPT !.prefs = SaveSettings(@, outcome)])
         /\ Leads(s, SaveAndQuit(s, outcome))
<1>1. Effective(SaveSettings(s.prefs, outcome)) /\ SavesWell(s.prefs, SaveSettings(s.prefs, outcome))
  BY SaveEffective DEF InOrder
<1>2. /\ DOMAIN SaveAndQuit(s, outcome) = StateFields
      /\ SaveAndQuit(s, outcome).prefs = SaveSettings(s.prefs, outcome)
  BY DEF SaveAndQuit, InOrder, StateFields
<1> QED
  BY <1>1, <1>2, PrefsLead DEF Leads, InOrder

LEMMA ReloadConfigLeads == ASSUME NEW s, InOrder(s) PROVE Leads(s, ReloadConfig(s))
<1>1. Effective(Reload(s.prefs)) /\ Reload(s.prefs).saves = s.prefs.saves
  BY ReloadEffective DEF InOrder
<1>2. Leads(s, [s EXCEPT !.prefs = Reload(@)])
  BY <1>1, PrefsLead DEF SavesWell
<1> QED
  BY <1>2, ShowLeads DEF ReloadConfig

LEMMA PerformLeads ==
  ASSUME NEW s, InOrder(s), NEW action, NEW outcome
  PROVE  Leads(s, Perform(s, action, outcome))
<1>1. CASE action \in {"delete", "clean"}
  <2>1. Leads(s, [s EXCEPT !.ui.operation = "running"])
    BY SamePrefsLead DEF InOrder, StateFields
  <2> QED
    BY <1>1, <2>1 DEF Perform
<1>2. CASE action = "save and quit"
  BY <1>2, SaveLeads DEF Perform
<1>3. CASE action = "reset"
  <2>1. /\ Effective(ResetToDefaults(s.prefs))
        /\ ResetToDefaults(s.prefs).saves = s.prefs.saves
    BY ResetEffective DEF InOrder
  <2>2. Leads(s, [s EXCEPT !.prefs = ResetToDefaults(@)])
    BY <2>1, PrefsLead DEF SavesWell
  <2> QED
    BY <1>3, <2>2 DEF Perform
<1>4. CASE action \notin {"delete", "clean", "save and quit", "reset"}
  <2>1. Leads(s, [s EXCEPT !.foreground = "elevate"])
    BY SamePrefsLead DEF InOrder, StateFields
  <2> QED
    BY <1>4, <2>1 DEF Perform
<1> QED
  BY <1>1, <1>2, <1>3, <1>4

LEMMA RunSettingActionLeads ==
  ASSUME NEW s, InOrder(s), NEW id, IsAction(id), NEW outcome
  PROVE  Leads(s, RunSettingAction(s, id, outcome))
<1>1. Leads(s, [s EXCEPT !.foreground = "edit"])
  BY SamePrefsLead DEF InOrder, StateFields
<1> QED
  BY <1>1, SaveLeads, ReloadConfigLeads, ShowLeads DEF RunSettingAction, IsAction

(* A preference that keys and commands set without the configuration. *)
LEMMA ValueLeads ==
  ASSUME NEW s, InOrder(s), NEW q, DOMAIN q = PrefFields, Storable(q), q.saves = s.prefs.saves,
         \A field \in {"config", "policy", "cleaner", "theme", "palette", "file"} :
           q[field] = s.prefs[field]
  PROVE  Effective(q) /\ SavesWell(s.prefs, q)
BY ValueEffective DEF InOrder, SavesWell

Fits(field, v) ==
  CASE field = "sizeMode" -> v \in {"allocated", "apparent"}
    [] field = "sizeBase" -> v \in {"decimal", "binary"}
    [] field = "deletion" -> v \in {"permanent", "trash"}
    [] field \in {"rowLimit", "heaviest"} -> v \in Nat /\ v >= 5
    [] field = "threads" -> v \in 1 .. 256
    [] OTHER -> field \in {"paused", "showFiles"}

LEMMA FieldEffective ==
  ASSUME NEW s, InOrder(s), NEW field, NEW v, Fits(field, v),
         field \in {"sizeMode", "sizeBase", "deletion", "rowLimit", "heaviest", "threads",
                   "paused", "showFiles"}
  PROVE  LET q == [s.prefs EXCEPT ![field] = v]
         IN  Effective(q) /\ SavesWell(s.prefs, q)
<1> DEFINE p == s.prefs
           q == [p EXCEPT ![field] = v]
<1>1. DOMAIN p = PrefFields /\ Storable(p)
  BY DEF InOrder, Effective, Whole
<1>2. DOMAIN q = PrefFields /\ \A f \in PrefFields : q[f] = IF f = field THEN v ELSE p[f]
  BY <1>1
<1> HIDE DEF q
<1>3. /\ q.saves = p.saves
      /\ \A f \in {"config", "policy", "cleaner", "theme", "palette", "file"} : q[f] = p[f]
  BY <1>2 DEF PrefFields
<1>4. Storable(q)
  <2>1. q.sizeMode \in {"allocated", "apparent"}
    BY <1>1, <1>2 DEF Storable, PrefFields, Fits
  <2>2. q.sizeBase \in {"decimal", "binary"}
    BY <1>1, <1>2 DEF Storable, PrefFields, Fits
  <2>3. q.deletion \in {"permanent", "trash"}
    BY <1>1, <1>2 DEF Storable, PrefFields, Fits
  <2>4. q.rowLimit \in Nat /\ q.rowLimit >= 5
    BY <1>1, <1>2 DEF Storable, PrefFields, Fits
  <2>5. q.heaviest \in Nat /\ q.heaviest >= 5
    BY <1>1, <1>2 DEF Storable, PrefFields, Fits
  <2>6. q.threads \in 1 .. 256
    BY <1>1, <1>2 DEF Storable, PrefFields, Fits
  <2> QED
    BY <2>1, <2>2, <2>3, <2>4, <2>5, <2>6 DEF Storable
<1>5. Effective(q) /\ SavesWell(p, q)
  BY <1>2, <1>3, <1>4, ValueLeads
<1> QED
  BY <1>5 DEF q

LEMMA FieldLeads ==
  ASSUME NEW s, InOrder(s), NEW field, NEW v, Fits(field, v),
         field \in {"sizeMode", "sizeBase", "deletion", "rowLimit", "heaviest", "threads",
                   "paused", "showFiles"}
  PROVE  Leads(s, [s EXCEPT !.prefs = [@ EXCEPT ![field] = v]])
<1> DEFINE q == [s.prefs EXCEPT ![field] = v]
<1>1. Effective(q) /\ SavesWell(s.prefs, q)
  BY FieldEffective
<1> HIDE DEF q
<1>2. Leads(s, [s EXCEPT !.prefs = q])
  BY <1>1, PrefsLead
<1> QED
  BY <1>2 DEF q

LEMMA ClampFits ==
  ASSUME NEW n \in Int
  PROVE  /\ Fits("threads", SetWorkerCount(n))
         /\ Fits("rowLimit", Clamp(n, 5, 100000))
BY DEF Clamp, Fits, SetWorkerCount

LEMMA RowLimitLeads ==
  ASSUME NEW s, InOrder(s), NEW n \in Int
  PROVE  Leads(s, SetRowLimit(s, n))
<1> DEFINE v == Clamp(n, 5, 100000)
<1>1. Leads(s, [s EXCEPT !.prefs = [@ EXCEPT !["rowLimit"] = v]])
  BY ClampFits, FieldLeads
<1>2. SetRowLimit(s, n) = [s EXCEPT !.prefs = [@ EXCEPT !["rowLimit"] = v]]
  BY DEF SetRowLimit
<1> QED
  BY <1>1, <1>2

LEMMA HeaviestLeads ==
  ASSUME NEW s, InOrder(s), NEW limit \in Int
  PROVE  Leads(s, StartHeaviestQuery(s, limit))
<1> DEFINE p == s.prefs
           n == IF limit = NoLimit THEN p.heaviest ELSE Clamp(limit, 5, 10000)
           q == [p EXCEPT !.heaviest = n]
           t == StartHeaviestQuery(s, limit)
<1>1. DOMAIN p = PrefFields /\ Storable(p)
  BY DEF InOrder, Effective, Whole
<1>2. n \in Nat /\ n >= 5
  BY <1>1 DEF Clamp, Storable
<1>3. DOMAIN t = StateFields /\ t.prefs = q
  BY DEF StartHeaviestQuery, InOrder, StateFields
<1> HIDE DEF n, t
<1>4. Effective(q) /\ SavesWell(p, q)
  <2>1. /\ DOMAIN q = PrefFields /\ q.saves = p.saves /\ Storable(q)
        /\ \A field \in {"config", "policy", "cleaner", "theme", "palette", "file"} :
             q[field] = p[field]
    BY <1>1, <1>2 DEF PrefFields, Storable
  <2> QED
    BY <2>1, ValueLeads
<1> QED
  BY <1>3, <1>4 DEF Leads, InOrder, t

LEMMA SwitchLeads ==
  ASSUME NEW s, InOrder(s), NEW screen
  PROVE  Leads(s, SwitchScreen(s, screen))
<1>1. Leads(s, StartHeaviestQuery(s, NoLimit))
  BY HeaviestLeads DEF NoLimit
<1> DEFINE t == [s EXCEPT !.ui.screen = screen, !.ui.started = @ \/ screen = "cleaner"]
<1>2. DOMAIN t = StateFields /\ t.prefs = s.prefs
  BY DEF InOrder, StateFields
<1> HIDE DEF t
<1>3. Leads(s, t)
  BY <1>2, SamePrefsLead
<1> QED
  BY <1>1, <1>3 DEF SwitchScreen, t

(* What the parser lets through: numbers and words that fit. *)
Typed(c) ==
  /\ c.name \in WithNumber => c.value \in Nat
  /\ c.name = "top" => c.value \in Int
  /\ c.name = "mode" => c.value \in {"allocated", "apparent"}
  /\ c.name = "base" => c.value \in {"decimal", "binary"}
  /\ c.name = "trash" => c.value \in {"permanent", "trash"}
  /\ c.name = "dense" => c.value >= 100
  /\ c.name = "depth" => c.value \in 1 .. 64

LEMMA ParsedIsTyped == ASSUME NEW text PROVE Typed(Parse(text))
<1>1. CASE text[1] = "filter"
  <2>1. Parse(text).name = "filter"
    BY <1>1 DEF Parse
  <2> QED
    BY <2>1 DEF Typed, WithNumber
<1>2. CASE text[1] # "filter" /\ text[1] \in DOMAIN Commands /\ InRange(Commands[text[1]])
           /\ Len(text) = 1
  <2> DEFINE c == Commands[text[1]]
  <2>1. Parse(text) = c
    BY <1>2 DEF Parse
  <2>2. InRange(c)
    BY <1>2
  <2>3. /\ c.name \in WithNumber => c.value \in Nat
        /\ c.name = "top" => c.value \in Int
        /\ c.name = "mode" => c.value \in {"allocated", "apparent"}
        /\ c.name = "base" => c.value \in {"decimal", "binary"}
        /\ c.name = "trash" => c.value \in {"permanent", "trash"}
    BY <1>2, CommandsAssumption DEF NoLimit
  <2> HIDE DEF c
  <2>4. c.name = "dense" => c.value >= 100
    BY <2>2 DEF InRange
  <2>5. c.name = "depth" => c.value \in 1 .. 64
    BY <2>2 DEF InRange
  <2> QED
    BY <2>1, <2>3, <2>4, <2>5 DEF Typed
<1>3. CASE text[1] # "filter"
           /\ ~(Len(text) = 1 /\ text[1] \in DOMAIN Commands /\ InRange(Commands[text[1]]))
  <2>1. Parse(text) = Unknown
    BY <1>3 DEF Parse
  <2> QED
    BY <2>1 DEF Typed, Unknown, WithNumber
<1> QED
  BY <1>1, <1>2, <1>3

LEMMA ExecuteCommandLeads ==
  ASSUME NEW s, InOrder(s), NEW c, Typed(c), NEW outcome
  PROVE  Leads(s, ExecuteCommand(s, c, outcome))
<1> DEFINE t == ExecuteCommand(s, c, outcome)
<1>1. CASE c.name = "quit"
  BY <1>1, RequestQuitLeads DEF ExecuteCommand
<1>2. CASE c.name \in {"help", "log", "stats", "config", "themes", "mounts", "settings"}
  BY <1>2, ShowLeads DEF ExecuteCommand
<1>3. CASE c.name = "config save"
  BY <1>3, SaveLeads DEF ExecuteCommand
<1>4. CASE c.name \in {"config edit", "filter", "goto"}
  <2>1. DOMAIN t = StateFields /\ t.prefs = s.prefs
    BY <1>4 DEF ExecuteCommand, InOrder, StateFields
  <2> HIDE DEF t
  <2>2. Leads(s, t)
    BY <2>1, SamePrefsLead
  <2> QED
    BY <2>2 DEF t
<1>5. CASE c.name = "config reload"
  BY <1>5, ReloadConfigLeads DEF ExecuteCommand
<1>6. CASE c.name = "theme"
  <2> DEFINE q == ApplyThemeName(s.prefs, c.value)
  <2>1. Effective(q) /\ q.saves = s.prefs.saves
    BY ThemeEffective DEF InOrder
  <2> HIDE DEF q
  <2>2. Leads(s, [s EXCEPT !.prefs = q])
    BY <2>1, PrefsLead DEF SavesWell
  <2> QED
    BY <1>6, <2>2 DEF ExecuteCommand, q
<1>7. CASE c.name = "limit"
  <2>1. c.value \in Int
    BY <1>7 DEF Typed, WithNumber
  <2>2. t = SetRowLimit(s, c.value)
    BY <1>7 DEF ExecuteCommand
  <2> QED
    BY <2>1, <2>2, RowLimitLeads
<1>8. CASE c.name = "dense"
  <2> DEFINE q == SetDense(s.prefs, c.value)
  <2>1. c.value \in Nat /\ c.value >= 100
    BY <1>8 DEF Typed, WithNumber
  <2>2. Effective(q) /\ q.saves = s.prefs.saves
    BY <2>1, DenseEffective DEF InOrder
  <2> HIDE DEF q
  <2>3. Leads(s, [s EXCEPT !.prefs = q])
    BY <2>2, PrefsLead DEF SavesWell
  <2> QED
    BY <1>8, <2>3 DEF ExecuteCommand, q
<1>9. CASE c.name = "depth"
  <2> DEFINE q == SetDepth(s.prefs, c.value)
  <2>1. c.value \in 1 .. 64
    BY <1>9 DEF Typed
  <2>2. Effective(q) /\ q.saves = s.prefs.saves
    BY <2>1, DepthEffective DEF InOrder
  <2> HIDE DEF q
  <2>3. Leads(s, [s EXCEPT !.prefs = q])
    BY <2>2, PrefsLead DEF SavesWell
  <2> QED
    BY <1>9, <2>3 DEF ExecuteCommand, q
<1>10. CASE c.name = "threads"
  <2>1. c.value \in Int
    BY <1>10 DEF Typed, WithNumber
  <2>2. Fits("threads", SetWorkerCount(c.value))
    BY <2>1, ClampFits
  <2>3. Leads(s, [s EXCEPT !.prefs = [@ EXCEPT !["threads"] = SetWorkerCount(c.value)]])
    BY <2>2, FieldLeads
  <2> QED
    BY <1>10, <2>3 DEF ExecuteCommand
<1>11. CASE c.name \in {"pause", "resume"}
  <2> DEFINE flag == (c.name = "pause")
  <2>1. Fits("paused", flag)
    BY DEF Fits
  <2> HIDE DEF flag
  <2>2. Leads(s, [s EXCEPT !.prefs = [@ EXCEPT !["paused"] = flag]])
    BY <2>1, FieldLeads
  <2> QED
    BY <1>11, <2>2 DEF ExecuteCommand, flag
<1>12. CASE c.name = "mode"
  <2>1. Fits("sizeMode", c.value)
    BY <1>12 DEF Typed, Fits
  <2>2. Leads(s, [s EXCEPT !.prefs = [@ EXCEPT !["sizeMode"] = c.value]])
    BY <2>1, FieldLeads
  <2> QED
    BY <1>12, <2>2 DEF ExecuteCommand
<1>13. CASE c.name = "base"
  <2>1. Fits("sizeBase", c.value)
    BY <1>13 DEF Typed, Fits
  <2>2. Leads(s, [s EXCEPT !.prefs = [@ EXCEPT !["sizeBase"] = c.value]])
    BY <2>1, FieldLeads
  <2> QED
    BY <1>13, <2>2 DEF ExecuteCommand
<1>14. CASE c.name = "trash"
  <2>1. Fits("deletion", c.value)
    BY <1>14 DEF Typed, Fits
  <2>2. Leads(s, [s EXCEPT !.prefs = [@ EXCEPT !["deletion"] = c.value]])
    BY <2>1, FieldLeads
  <2> QED
    BY <1>14, <2>2 DEF ExecuteCommand
<1>15. CASE c.name = "top"
  <2>1. c.value \in Int
    BY <1>15 DEF Typed
  <2>2. t = StartHeaviestQuery(s, c.value)
    BY <1>15 DEF ExecuteCommand
  <2> QED
    BY <2>1, <2>2, HeaviestLeads
<1>16. CASE c.name \in {"cleaner", "dashboard", "explorer"}
  BY <1>16, SwitchLeads DEF ExecuteCommand
<1>17. CASE c.name \notin {"quit", "help", "log", "stats", "config", "themes", "mounts", "settings",
                         "config save", "config edit", "config reload", "theme", "limit",
                         "threads", "dense", "depth", "pause", "resume", "mode", "base", "trash",
                         "top", "filter", "cleaner", "dashboard", "explorer", "goto"}
  <2>1. t = s
    BY <1>17 DEF ExecuteCommand
  <2> QED
    BY <2>1, SamePrefsLead DEF InOrder
<1> QED
  BY <1>1, <1>2, <1>3, <1>4, <1>5, <1>6, <1>7, <1>8, <1>9, <1>10, <1>11, <1>12, <1>13, <1>14,
     <1>15, <1>16, <1>17

-----------------------------------------------------------------------------
(* The actions. *)

EffInv == scenario \in Scenarios /\ Effective(prefs)
Sound == EffInv' /\ SavesWell(prefs, prefs')

LEMMA StateInOrder == ASSUME EffInv PROVE InOrder(State)
BY StateIsRecord DEF EffInv, InOrder

LEMMA ArrivesSound ==
  ASSUME EffInv, NEW s, NEW t, Leads(s, t), s.prefs.saves = prefs.saves, Becomes(t),
         scenario' = scenario
  PROVE  Sound
<1>1. prefs' = t.prefs /\ Effective(prefs')
  BY DEF Becomes, Leads, InOrder
<1> QED
  BY <1>1 DEF Sound, EffInv, Leads, SavesWell

LEMMA BecomesSound ==
  ASSUME EffInv, NEW t, Leads(State, t), Becomes(t), scenario' = scenario
  PROVE  Sound
BY ArrivesSound, StateIsRecord

LEMMA PrefsUntouchedSound ==
  ASSUME EffInv, UNCHANGED <<prefs, scenario>>
  PROVE  Sound
BY DEF Sound, EffInv, SavesWell

LEMMA ShowsSound ==
  ASSUME EffInv, NEW overlay, Becomes(Show(State, overlay)), scenario' = scenario
  PROVE  Sound
BY StateInOrder, ShowLeads, BecomesSound

LEMMA InterruptSound == ASSUME EffInv, Interrupt PROVE Sound
<1>1. prefs' = prefs /\ scenario' = scenario
  BY DEF Interrupt, Press, Counted, Becomes, State
<1> QED
  BY <1>1, PrefsUntouchedSound

LEMMA DismissSound == ASSUME EffInv, DismissOperation PROVE Sound
<1>1. scenario' = scenario
  BY DEF DismissOperation, Press, Counted
<1> DEFINE s == [State EXCEPT !.ui.operation = "none"]
<1>2. PICK overlay : Becomes(Show(s, overlay))
  BY DEF DismissOperation
<1>3. DOMAIN s = StateFields /\ s.prefs = prefs
  BY DEF State, StateFields
<1> HIDE DEF s
<1>4. Leads(s, Show(s, overlay))
  BY <1>3, ShowLeads DEF InOrder, EffInv
<1> QED
  BY <1>1, <1>2, <1>3, <1>4, ArrivesSound

LEMMA ChangeSettingSound == ASSUME EffInv, ChangeSetting PROVE Sound
<1>1. PICK change \in {<<"Left", -1>>, <<"Right", 1>>, <<"Enter", 1>>} :
        Settings(change[1]) /\ prefs' = AdjustSetting(prefs, Chosen, change[2])
  BY DEF ChangeSetting
<1>2. scenario' = scenario
  BY <1>1 DEF Settings, Press, Counted
<1>3. change[2] \in Int
  OBVIOUS
<1>4. Effective(prefs') /\ prefs'.saves = prefs.saves
  BY <1>1, <1>3, AdjustEffective DEF EffInv
<1> QED
  BY <1>2, <1>4 DEF Sound, EffInv, SavesWell

LEMMA ActOnSettingsSound == ASSUME EffInv, ActOnSettings PROVE Sound
<1>1. PICK outcome, id : /\ IsAction(id) /\ Counted
                         /\ Becomes(RunSettingAction(State, id, outcome))
  BY DEF ActOnSettings, IsAction, Settings, Press
<1>2. scenario' = scenario
  BY <1>1 DEF Counted
<1>3. Leads(State, RunSettingAction(State, id, outcome))
  BY <1>1, StateInOrder, RunSettingActionLeads
<1> QED
  BY <1>1, <1>2, <1>3, BecomesSound

LEMMA ClosedInOrder == ASSUME EffInv PROVE InOrder(Closed) /\ Closed.prefs = prefs
<1>1. Leads(State, Closed)
  BY StateInOrder, ShowLeads DEF Closed
<1>2. Closed.prefs = State.prefs
  BY StateIsRecord DEF Closed, Show, StateFields
<1> QED
  BY <1>1, <1>2, StateIsRecord DEF Leads

LEMMA AcceptSound == ASSUME EffInv, Accept PROVE Sound
<1>1. PICK outcome : Counted /\ Becomes(Perform(Closed, ui.overlay.action, outcome))
  BY DEF Accept, InDialog, Press
<1>2. Leads(Closed, Perform(Closed, ui.overlay.action, outcome))
  BY ClosedInOrder, PerformLeads
<1> QED
  BY <1>1, <1>2, ClosedInOrder, ArrivesSound DEF Counted

LEMMA DeclineSound == ASSUME EffInv, Decline PROVE Sound
<1>1. scenario' = scenario
  BY DEF Decline, InDialog, Press, Counted
<1>2. DOMAIN Closed = StateFields /\ Closed.prefs = prefs
  BY ClosedInOrder DEF InOrder
<1>3. [Closed EXCEPT !.quit = "discarded"].prefs = prefs
  BY <1>2 DEF StateFields
<1>4. prefs' = prefs
  BY <1>2, <1>3 DEF Decline, Becomes
<1> QED
  BY <1>1, <1>4, PrefsUntouchedSound

LEMMA SubmitLineSound == ASSUME EffInv, SubmitLine PROVE Sound
<1> DEFINE s == [State EXCEPT !.ui.commanding = FALSE, !.ui.line = Submit(@)]
<1>1. scenario' = scenario
  BY DEF SubmitLine, InLine, Press, Counted
<1>2. DOMAIN s = StateFields /\ s.prefs = prefs
  BY DEF State, StateFields
<1> HIDE DEF s
<1>3. \/ Becomes(s)
      \/ \E outcome : Becomes(ExecuteCommand(s, Parse(ui.line.input), outcome))
  BY DEF SubmitLine, s
<1>4. InOrder(s)
  BY <1>2 DEF InOrder, EffInv
<1>5. CASE Becomes(s)
  BY <1>1, <1>2, <1>5, PrefsUntouchedSound DEF Becomes
<1>6. ASSUME NEW outcome, Becomes(ExecuteCommand(s, Parse(ui.line.input), outcome))
      PROVE  Sound
  <2>1. Leads(s, ExecuteCommand(s, Parse(ui.line.input), outcome))
    BY <1>4, ParsedIsTyped, ExecuteCommandLeads
  <2> QED
    BY <1>1, <1>2, <1>6, <2>1, ArrivesSound
<1> QED
  BY <1>3, <1>5, <1>6

LEMMA GlobalKeySound == ASSUME EffInv, GlobalKey PROVE Sound
<1>1. scenario' = scenario
  BY DEF GlobalKey, Screen, Press, Counted
<1>2. InOrder(State)
  BY StateInOrder
<1>3. /\ Leads(State, Show(State, Popup("help")))
      /\ Leads(State, RequestQuit(State))
      /\ \A screen : Leads(State, SwitchScreen(State, screen))
  BY <1>2, ShowLeads, RequestQuitLeads, SwitchLeads
<1>4. Leads(State, [State EXCEPT !.prefs.paused = ~ @])
  <2>1. Fits("paused", ~ State.prefs.paused)
    BY DEF Fits
  <2>2. Leads(State, [State EXCEPT !.prefs = [@ EXCEPT !["paused"] = ~ State.prefs.paused]])
    BY <1>2, <2>1, FieldLeads
  <2> QED
    BY <2>2
<1>5. Leads(State, [State EXCEPT !.prefs.sizeMode = Other(@, "allocated", "apparent")])
  <2> DEFINE mode == Other(State.prefs.sizeMode, "allocated", "apparent")
  <2>1. Fits("sizeMode", mode)
    BY DEF Fits, Other
  <2> HIDE DEF mode
  <2>2. Leads(State, [State EXCEPT !.prefs = [@ EXCEPT !["sizeMode"] = mode]])
    BY <1>2, <2>1, FieldLeads
  <2> QED
    BY <2>2 DEF mode
<1>6. \E t : Leads(State, t) /\ Becomes(t)
  BY <1>3, <1>4, <1>5 DEF GlobalKey
<1> QED
  BY <1>1, <1>6, BecomesSound

LEMMA ScreenKeySound == ASSUME EffInv, ScreenKey PROVE Sound
<1>1. scenario' = scenario
  BY DEF ScreenKey, On, Screen, Press, Counted
<1>2. InOrder(State)
  BY StateInOrder
<1>3. /\ \A overlay : Leads(State, Show(State, overlay))
      /\ \A screen : Leads(State, SwitchScreen(State, screen))
  BY <1>2, ShowLeads, SwitchLeads
<1>4. prefs.rowLimit \in Nat /\ prefs.heaviest \in Nat
  BY DEF EffInv, Effective, Storable
<1>5. /\ Leads(State, SetRowLimit(State, prefs.rowLimit * 2))
      /\ Leads(State, SetRowLimit(State, prefs.rowLimit \div 2))
  <2>1. prefs.rowLimit * 2 \in Int /\ prefs.rowLimit \div 2 \in Int
    BY <1>4
  <2> QED
    BY <1>2, <2>1, RowLimitLeads
<1>6. /\ Leads(State, StartHeaviestQuery(State, Clamp(prefs.heaviest * 2, 0, 10000)))
      /\ Leads(State, StartHeaviestQuery(State, Larger(prefs.heaviest \div 2, 10)))
  <2>1. Clamp(prefs.heaviest * 2, 0, 10000) \in Int /\ Larger(prefs.heaviest \div 2, 10) \in Int
    BY <1>4 DEF Clamp, Larger
  <2> QED
    BY <1>2, <2>1, HeaviestLeads
<1>7. Leads(State, [State EXCEPT !.prefs.showFiles = ~ @])
  <2>1. Fits("showFiles", ~ State.prefs.showFiles)
    BY DEF Fits
  <2>2. Leads(State, [State EXCEPT !.prefs = [@ EXCEPT !["showFiles"] = ~ State.prefs.showFiles]])
    BY <1>2, <2>1, FieldLeads
  <2> QED
    BY <2>2
<1>8. Leads(State, [State EXCEPT !.ui.filter = <<>>])
  BY <1>2, SamePrefsLead DEF InOrder, StateFields
<1>9. \E t : Leads(State, t) /\ Becomes(t)
  BY <1>3, <1>5, <1>6, <1>7, <1>8 DEF ScreenKey
<1> QED
  BY <1>1, <1>9, BecomesSound

LEMMA RunEditorSound == ASSUME EffInv, RunEditor PROVE Sound
<1>1. CASE prefs' = prefs
  BY <1>1, PrefsUntouchedSound DEF RunEditor
<1>2. CASE prefs' # prefs
  <2>1. PICK outcome : prefs' = [SaveSettings(prefs, outcome) EXCEPT !.dirty = prefs.dirty]
    BY <1>2 DEF RunEditor
  <2> DEFINE q == SaveSettings(prefs, outcome)
  <2>2. Effective(q) /\ SavesWell(prefs, q)
    BY SaveEffective DEF EffInv
  <2>3. prefs' = [q EXCEPT !.dirty = prefs.dirty]
    BY <2>1
  <2> HIDE DEF q
  <2>4. DOMAIN q = PrefFields
    BY <2>2 DEF Effective, Whole
  <2>5. /\ DOMAIN prefs' = DOMAIN q
        /\ \A field \in PrefFields \ {"dirty"} : prefs'[field] = q[field]
    BY <2>3, <2>4 DEF PrefFields
  <2>6. Effective(prefs')
    BY <2>2, <2>5, BookkeepingEffective
  <2>7. Preferences(prefs') = Preferences(q) /\ prefs'.file = q.file /\ prefs'.saves = q.saves
    BY <2>5 DEF Preferences, PrefFields
  <2>8. SavesWell(prefs, prefs')
    BY <2>2, <2>7 DEF SavesWell, ComesBack
  <2> QED
    BY <2>6, <2>8 DEF Sound, EffInv, RunEditor
<1> QED
  BY <1>1, <1>2

LEMMA FileEffective ==
  ASSUME NEW p, Effective(p), NEW file, IsFile(file)
  PROVE  Effective([p EXCEPT !.file = file]) /\ [p EXCEPT !.file = file].saves = p.saves
<1> DEFINE q == [p EXCEPT !.file = file]
<1>1. DOMAIN p = PrefFields
  BY DEF Effective, Whole
<1>2. /\ DOMAIN q = PrefFields /\ q.file = file
      /\ \A field \in PrefFields \ {"file"} : q[field] = p[field]
  BY <1>1 DEF PrefFields
<1> HIDE DEF q
<1>3. /\ q.config = p.config /\ q.policy = p.policy /\ q.cleaner = p.cleaner
      /\ q.theme = p.theme /\ q.palette = p.palette /\ q.sizeMode = p.sizeMode
      /\ q.sizeBase = p.sizeBase /\ q.deletion = p.deletion /\ q.rowLimit = p.rowLimit
      /\ q.heaviest = p.heaviest /\ q.threads = p.threads /\ q.saves = p.saves
  BY <1>2 DEF PrefFields
<1>4. Whole(q)
  BY <1>2, <1>3 DEF Effective, Whole
<1>5. Follows(q) /\ Storable(q)
  BY <1>3 DEF Effective, Follows, Storable
<1> QED
  BY <1>3, <1>4, <1>5 DEF Effective, q

LEMMA EditorExitsSound == ASSUME EffInv, EditorExits PROVE Sound
<1> DEFINE loaded(file) == [State EXCEPT !.prefs.file = file, !.foreground = "none"]
<1>1. scenario' = scenario
  BY DEF EditorExits
<1>2. PICK file \in scenario.edits \cup {prefs.file} :
        Becomes(ReloadConfig(loaded(file))) \/ Becomes(loaded(file))
  BY DEF EditorExits
<1>3. IsFile(file)
  BY <1>2, FilesAssumption DEF EffInv, Effective, Whole
<1> DEFINE s == loaded(file)
<1>4. DOMAIN s = StateFields /\ s.prefs = [prefs EXCEPT !.file = file]
  BY DEF State, StateFields
<1>5. Becomes(ReloadConfig(s)) \/ Becomes(s)
  BY <1>2
<1> HIDE DEF loaded, s
<1>6. Effective(s.prefs) /\ s.prefs.saves = prefs.saves
  BY <1>3, <1>4, FileEffective DEF EffInv
<1>7. InOrder(s)
  BY <1>4, <1>6 DEF InOrder
<1>8. Leads(s, s) /\ Leads(s, ReloadConfig(s))
  BY <1>7, ReloadConfigLeads, SamePrefsLead DEF InOrder
<1> QED
  BY <1>1, <1>5, <1>6, <1>8, ArrivesSound

LEMMA ChangeFileSound == ASSUME EffInv, ChangeFile PROVE Sound
<1>1. PICK file \in scenario.edits : prefs' = [prefs EXCEPT !.file = file]
  BY DEF ChangeFile
<1>2. scenario' = scenario
  BY DEF ChangeFile, Counted
<1>3. IsFile(file)
  BY <1>1, FilesAssumption DEF EffInv
<1>4. Effective(prefs') /\ prefs'.saves = prefs.saves
  BY <1>1, <1>3, FileEffective DEF EffInv
<1> QED
  BY <1>2, <1>4 DEF Sound, EffInv, SavesWell

LEMMA EffInit == Init => EffInv
<1> SUFFICES ASSUME Init PROVE EffInv
  OBVIOUS
<1> DEFINE file == scenario.file
<1>1. /\ scenario \in Scenarios /\ ~Rejected(Load(file))
      /\ prefs = Started(Load(file), scenario.threads, file)
  BY DEF Init
<1>2. IsFile(file) /\ scenario.threads \in Nat
  BY <1>1, FilesAssumption
<1>3. IsConfig(Load(file))
  BY <1>2, LoadIsConfig
<1> QED
  BY <1>1, <1>2, <1>3, StartedEffective DEF EffInv

LEMMA EffStep == EffInv /\ [Next]_vars => Sound
<1> SUFFICES ASSUME EffInv, [Next]_vars PROVE Sound
  OBVIOUS
<1> USE DEF Settings, InDialog, InLine, Screen, On, Press, Counted
<1>1. CASE Interrupt         BY <1>1, InterruptSound
<1>2. CASE SwallowKey        BY <1>2, PrefsUntouchedSound DEF SwallowKey
<1>3. CASE DismissOperation  BY <1>3, DismissSound
<1>4. CASE MoveSetting       BY <1>4, PrefsUntouchedSound DEF MoveSetting
<1>5. CASE ChangeSetting     BY <1>5, ChangeSettingSound
<1>6. CASE ActOnSettings     BY <1>6, ActOnSettingsSound
<1>7. CASE CloseSettings     BY <1>7, ShowsSound DEF CloseSettings
<1>8. CASE ClosePopup        BY <1>8, ShowsSound DEF ClosePopup
<1>9. CASE Accept            BY <1>9, AcceptSound
<1>10. CASE Decline          BY <1>10, DeclineSound
<1>11. CASE TypeWord         BY <1>11, PrefsUntouchedSound DEF TypeWord
<1>12. CASE EditLine         BY <1>12, PrefsUntouchedSound DEF EditLine
<1>13. CASE TypeCommand      BY <1>13, PrefsUntouchedSound DEF TypeCommand
<1>14. CASE LeaveLine        BY <1>14, PrefsUntouchedSound DEF LeaveLine
<1>15. CASE SubmitLine       BY <1>15, SubmitLineSound
<1>16. CASE OpenLine         BY <1>16, PrefsUntouchedSound DEF OpenLine
<1>17. CASE GlobalKey        BY <1>17, GlobalKeySound
<1>18. CASE ScreenKey        BY <1>18, ScreenKeySound
<1>19. CASE RequestDeletion  BY <1>19, ShowsSound DEF RequestDeletion
<1>20. CASE RunEditor        BY <1>20, RunEditorSound
<1>21. CASE EditorExits      BY <1>21, EditorExitsSound
<1>22. CASE RunElevated      BY <1>22, PrefsUntouchedSound DEF RunElevated
<1>23. CASE OperationEnds    BY <1>23, PrefsUntouchedSound DEF OperationEnds
<1>24. CASE ChangeFile       BY <1>24, ChangeFileSound
<1>25. CASE UNCHANGED vars   BY <1>25, PrefsUntouchedSound DEF vars
<1> QED
  BY <1>1, <1>2, <1>3, <1>4, <1>5, <1>6, <1>7, <1>8, <1>9, <1>10, <1>11, <1>12, <1>13,
     <1>14, <1>15, <1>16, <1>17, <1>18, <1>19, <1>20, <1>21, <1>22, <1>23, <1>24, <1>25
     DEF Next

(* The preferences and the configuration agree and are such as a file can  *)
(* hold, in every state.                                                   *)
THEOREM PreferencesSound == Spec => []EffInv
<1>1. Init => EffInv
  BY EffInit
<1>2. EffInv /\ [Next]_vars => EffInv'
  BY EffStep DEF Sound
<1> QED
  BY <1>1, <1>2, PTL DEF Spec

(* The theme, the engine's thresholds of density and depth and the rules   *)
(* of the cleaning service always are what the configuration says: of a    *)
(* file all of them are taken over, or none.                               *)
THEOREM EffectFollows == Spec => []EffectFollowsConfig
<1>1. EffInv => EffectFollowsConfig
  BY DEF EffInv, Effective, Follows, EffectFollowsConfig
<1> QED
  BY <1>1, PreferencesSound, PTL

(* Whatever key, command or dialog writes the file: the next start with it *)
(* brings back the preferences that were in effect, but for the number of  *)
(* files listed and the paths never deleted.                               *)
THEOREM SavedReturns == Spec => SavedComesBack
<1>1. EffInv /\ [Next]_vars =>
        (prefs'.saves # prefs.saves =>
           Preferences(Started(prefs'.file.config, 0, prefs'.file)) = Preferences(prefs'))
  BY EffStep DEF Sound, SavesWell, ComesBack
<1> QED
  BY <1>1, PreferencesSound, PTL DEF Spec, SavedComesBack

-----------------------------------------------------------------------------
(***************************************************************************)
(* What the interface thread's state is made of.  The selected row of the  *)
(* Settings popup is a setting wherever the moves lead, and the cursor and *)
(* the index of the command line stay within the text and the history: a   *)
(* recalled command takes its text from the history, so that the history   *)
(* has to hold texts.                                                      *)
(***************************************************************************)

(* Selecting rows. *)

(* The r-th member of a set of numbers, counted from the largest. *)
LEMMA RankFromAbove ==
  ASSUME NEW n \in Nat, NEW K \in SUBSET (1 .. n), NEW r \in 1 .. Cardinality(K)
  PROVE  \E k \in K : Cardinality({j \in K : j >= k}) = r
<1>1. IsFiniteSet(K) /\ Cardinality(K) \in Nat
  BY FinitePart
<1>2. PICK k \in K : RankIn(K, k) = Cardinality(K) - r + 1
  <2>1. Cardinality(K) - r + 1 \in 1 .. Cardinality(K)
    BY <1>1
  <2> QED
    BY <2>1, RankSurjective
<1> DEFINE L == {j \in K : j <= k}
           G == {j \in K : j >= k}
<1>3. IsFiniteSet(L) /\ IsFiniteSet(G) /\ Cardinality(L) \in Nat /\ Cardinality(G) \in Nat
  BY FinitePart
<1>4. L \cup G = K /\ L \cap G = {k}
  <2>1. \A j \in K : j \in Nat
    OBVIOUS
  <2>2. \A j \in K : (j <= k \/ j >= k) /\ (j <= k /\ j >= k => j = k)
    BY <2>1
  <2>3. k <= k /\ k >= k
    BY <2>1
  <2> QED
    BY <2>2, <2>3
<1>5. Cardinality(L \cup G) = Cardinality(L) + Cardinality(G) - Cardinality(L \cap G)
  BY <1>3, FS_Union
<1>6. Cardinality({k}) = 1
  BY FS_Singleton
<1>7. Cardinality(L) = Cardinality(K) - r + 1
  BY <1>2 DEF RankIn
<1> HIDE DEF L, G
<1>8. Cardinality(K) = Cardinality(L) + Cardinality(G) - 1
  BY <1>4, <1>5, <1>6
<1>9. Cardinality(G) = r
  BY <1>1, <1>3, <1>7, <1>8
<1> QED
  BY <1>9 DEF G

(* A move ends on a setting, if it began on one or has one before it. *)
LEMMA MovedToSetting ==
  ASSUME NEW i \in Nat, NEW delta \in Int, delta # 0,
         \/ i \in Selectable
         \/ \E j \in Selectable : IF delta > 0 THEN j > i ELSE j < i
  PROVE  MovedTo(i, delta) \in Selectable
<1> DEFINE beyond == {j \in Selectable : IF delta > 0 THEN j > i ELSE j < i}
           passed(j) == Cardinality({k \in beyond : IF delta > 0 THEN k <= j ELSE k >= j})
           distance == IF delta > 0 THEN delta ELSE -delta
           r == IF distance < Cardinality(beyond) THEN distance ELSE Cardinality(beyond)
<1>1. Len(Rows) \in Nat /\ Selectable \in SUBSET (1 .. Len(Rows))
  BY RowsAssumption, LenProperties DEF Selectable
<1>2. beyond \in SUBSET (1 .. Len(Rows))
  BY <1>1
<1>3. MovedTo(i, delta) = IF beyond = {} THEN i ELSE CHOOSE j \in beyond : passed(j) = r
  BY DEF MovedTo
<1>4. beyond \subseteq Selectable
  OBVIOUS
<1>5. beyond = {} => i \in Selectable
  OBVIOUS
<1>6. ASSUME beyond # {} PROVE \E j \in beyond : passed(j) = r
  <2>1. IsFiniteSet(beyond) /\ Cardinality(beyond) \in Nat
    BY <1>1, <1>2, FinitePart
  <2>2. Cardinality(beyond) # 0
    BY <1>6, <2>1, FS_EmptySet
  <2>3. distance \in Nat \ {0}
    OBVIOUS
  <2> HIDE DEF beyond, distance
  <2>4. r \in 1 .. Cardinality(beyond)
    BY <2>1, <2>2, <2>3
  <2>5. CASE delta > 0
    <3>1. PICK j \in beyond : RankIn(beyond, j) = r
      BY <1>1, <1>2, <2>4, RankSurjective
    <3>2. passed(j) = RankIn(beyond, j)
      BY <2>5 DEF RankIn
    <3> QED
      BY <3>1, <3>2
  <2>6. CASE ~(delta > 0)
    <3>1. PICK j \in beyond : Cardinality({k \in beyond : k >= j}) = r
      BY <1>1, <1>2, <2>4, RankFromAbove
    <3>2. passed(j) = Cardinality({k \in beyond : k >= j})
      BY <2>6
    <3> QED
      BY <3>1, <3>2
  <2> QED
    BY <2>5, <2>6
<1> HIDE DEF beyond, passed, r
<1> QED
  BY <1>3, <1>4, <1>5, <1>6

LEMMA FirstIsSetting == SelectFirst \in Selectable
<1>1. Len(Rows) \in Nat /\ Selectable \in SUBSET (1 .. Len(Rows)) /\ Selectable # {}
  BY RowsAssumption, LenProperties DEF Selectable
<1>2. PICK j : j \in Selectable
  BY <1>1
<1>3. 1 \in Selectable \/ \E k \in Selectable : k > 1
  <2>1. j \in Nat /\ j >= 1
    BY <1>1, <1>2
  <2>2. j = 1 \/ j > 1
    BY <2>1
  <2> QED
    BY <1>2, <2>2
<1>4. MovedTo(1, 1) \in Selectable
  BY <1>3, MovedToSetting
<1> QED
  BY <1>4 DEF SelectFirst

LEMMA LastIsSetting == SelectLast \in Selectable
<1>1. Len(Rows) \in Nat /\ Selectable \in SUBSET (1 .. Len(Rows)) /\ Selectable # {}
  BY RowsAssumption, LenProperties DEF Selectable
<1>2. CASE Len(Rows) \in Selectable
  BY <1>2 DEF SelectLast
<1>3. CASE Len(Rows) \notin Selectable
  <2>1. \E j \in Selectable : j < Len(Rows)
    <3>1. PICK j : j \in Selectable
      BY <1>1
    <3>2. j \in 1 .. Len(Rows) /\ j # Len(Rows)
      BY <1>1, <1>3, <3>1
    <3>3. j < Len(Rows)
      BY <1>1, <3>2
    <3> QED
      BY <3>1, <3>3
  <2>2. MovedTo(Len(Rows), -1) \in Selectable
    BY <1>1, <2>1, MovedToSetting
  <2> QED
    BY <1>3, <2>2 DEF SelectLast
<1> QED
  BY <1>2, <1>3

-----------------------------------------------------------------------------
(* The command line. *)

Characters == (UNION {s.keys \cup s.words : s \in Scenarios}) \cup {"filter"}
Texts == Seq(Characters)
LineShape(l) ==
  /\ DOMAIN l = {"input", "cursor", "history", "index"}
  /\ l.input \in Texts /\ l.cursor \in 0 .. Len(l.input)
  /\ l.history \in Seq(Texts) /\ l.index \in 0 .. Len(l.history)

LEMMA KeysAreCharacters ==
  ASSUME NEW s \in Scenarios
  PROVE  s.keys \subseteq Characters /\ s.words \subseteq Characters
BY Zenon DEF Characters

LEMMA NewLineShape == LineShape(NewLine)
<1>1. /\ DOMAIN NewLine = {"input", "cursor", "history", "index"}
      /\ NewLine.input = <<>> /\ NewLine.cursor = 0
      /\ NewLine.history = <<>> /\ NewLine.index = 0
  BY DEF NewLine
<1>2. <<>> \in Seq(Characters) /\ <<>> \in Seq(Texts) /\ Len(<<>>) = 0
  BY EmptySeq
<1> QED
  BY <1>1, <1>2 DEF LineShape, Texts

(* The text with a piece before and a piece after the cursor. *)
LEMMA PieceOf ==
  ASSUME NEW s \in Texts, NEW a \in 1 .. Len(s) + 1, NEW b \in 0 .. Len(s), b >= a - 1
  PROVE  SubSeq(s, a, b) \in Texts /\ Len(SubSeq(s, a, b)) = b - a + 1
<1>1. Len(s) \in Nat /\ a \in Int /\ b \in Int
  BY LenProperties DEF Texts
<1>2. CASE a <= b
  <2>1. SubSeq(s, a, b) \in Seq(Characters)
          /\ Len(SubSeq(s, a, b)) = IF a <= b THEN b - a + 1 ELSE 0
    BY <1>1, <1>2, SubSeqProperties DEF Texts
  <2> QED
    BY <1>2, <2>1 DEF Texts
<1>3. CASE ~(a <= b)
  <2>1. b - a + 1 = 0
    BY <1>1, <1>3
  <2>2. SubSeq(s, a, b) = <<>>
    BY <1>1, <1>3, SubSeqProperties, EmptySeq DEF Texts
  <2> QED
    BY <2>1, <2>2, EmptySeq DEF Texts
<1> QED
  BY <1>2, <1>3

LEMMA JoinOf ==
  ASSUME NEW s \in Texts, NEW t \in Texts
  PROVE  s \o t \in Texts /\ Len(s \o t) = Len(s) + Len(t)
BY ConcatProperties DEF Texts

LEMMA InsertShape ==
  ASSUME NEW l, LineShape(l), NEW c \in Characters
  PROVE  LineShape(Insert(l, c))
<1> DEFINE before == SubSeq(l.input, 1, l.cursor)
           after == SubSeq(l.input, l.cursor + 1, Len(l.input))
           text == before \o <<c>> \o after
           m == Insert(l, c)
<1>1. /\ l.input \in Texts /\ l.cursor \in 0 .. Len(l.input) /\ Len(l.input) \in Nat
      /\ DOMAIN l = {"input", "cursor", "history", "index"}
  BY LenProperties DEF LineShape, Texts
<1>2. before \in Texts /\ Len(before) = l.cursor
  BY <1>1, PieceOf
<1>3. after \in Texts /\ Len(after) = Len(l.input) - l.cursor
  BY <1>1, PieceOf
<1>4. m.input = text /\ m.cursor = l.cursor + 1 /\ m.history = l.history /\ m.index = l.index
        /\ DOMAIN m = DOMAIN l
  BY <1>1 DEF Insert
<1> HIDE DEF before, after, m
<1>5. <<c>> \in Texts /\ Len(<<c>>) = 1
  BY DEF Texts
<1>6. before \o <<c>> \in Texts /\ Len(before \o <<c>>) = Len(before) + Len(<<c>>)
  BY <1>2, <1>5, JoinOf
<1>7. text \in Texts /\ Len(text) = Len(before \o <<c>>) + Len(after)
  BY <1>3, <1>6, JoinOf
<1> HIDE DEF text
<1>8. m.cursor \in 0 .. Len(m.input)
  <2>1. Len(text) = l.cursor + 1 + (Len(l.input) - l.cursor)
    BY <1>2, <1>3, <1>5, <1>6, <1>7
  <2> QED
    BY <1>1, <1>4, <2>1
<1> QED
  BY <1>1, <1>4, <1>7, <1>8 DEF LineShape, m

LEMMA BackspaceShape ==
  ASSUME NEW l, LineShape(l)
  PROVE  LineShape(Backspace(l))
<1>1. CASE l.cursor = 0
  BY <1>1 DEF Backspace
<1>2. CASE l.cursor # 0
  <2> DEFINE before == SubSeq(l.input, 1, l.cursor - 1)
             after == SubSeq(l.input, l.cursor + 1, Len(l.input))
             text == before \o after
             m == Backspace(l)
  <2>1. /\ l.input \in Texts /\ l.cursor \in 1 .. Len(l.input) /\ Len(l.input) \in Nat
        /\ DOMAIN l = {"input", "cursor", "history", "index"}
    BY <1>2, LenProperties DEF LineShape, Texts
  <2>2. before \in Texts /\ Len(before) = l.cursor - 1
    BY <2>1, PieceOf
  <2>3. after \in Texts /\ Len(after) = Len(l.input) - l.cursor
    BY <2>1, PieceOf
  <2>4. m.input = text /\ m.cursor = l.cursor - 1 /\ m.history = l.history /\ m.index = l.index
          /\ DOMAIN m = DOMAIN l
    BY <1>2, <2>1 DEF Backspace
  <2> HIDE DEF before, after, m
  <2>5. text \in Texts /\ Len(text) = Len(before) + Len(after)
    BY <2>2, <2>3, JoinOf
  <2> HIDE DEF text
  <2>6. m.cursor \in 0 .. Len(m.input)
    <3>1. Len(text) = l.cursor - 1 + (Len(l.input) - l.cursor)
      BY <2>2, <2>3, <2>5
    <3> QED
      BY <2>1, <2>4, <3>1
  <2> QED
    BY <2>1, <2>4, <2>5, <2>6 DEF LineShape, m
<1> QED
  BY <1>1, <1>2

(* The keys that only move the cursor. *)
LEMMA CursorShape ==
  ASSUME NEW l, LineShape(l)
  PROVE  /\ LineShape(MoveLeft(l)) /\ LineShape(MoveRight(l))
         /\ LineShape(MoveHome(l)) /\ LineShape(MoveEnd(l))
<1>1. /\ DOMAIN l = {"input", "cursor", "history", "index"}
      /\ l.cursor \in 0 .. Len(l.input) /\ Len(l.input) \in Nat
  BY LenProperties DEF LineShape, Texts
<1>2. ASSUME NEW n \in 0 .. Len(l.input)
      PROVE  LineShape([l EXCEPT !.cursor = n])
  <2> DEFINE m == [l EXCEPT !.cursor = n]
  <2>1. m.input = l.input /\ m.cursor = n /\ m.history = l.history /\ m.index = l.index
          /\ DOMAIN m = DOMAIN l
    BY <1>1
  <2> HIDE DEF m
  <2>2. LineShape(m)
    BY <2>1 DEF LineShape
  <2> QED
    BY <2>2 DEF m
<1>3. LineShape(MoveLeft(l))
  <2>1. (IF l.cursor > 0 THEN l.cursor - 1 ELSE 0) \in 0 .. Len(l.input)
    BY <1>1
  <2> QED
    BY <1>2, <2>1 DEF MoveLeft
<1>4. LineShape(MoveRight(l))
  <2>1. (IF l.cursor < Len(l.input) THEN l.cursor + 1 ELSE Len(l.input)) \in 0 .. Len(l.input)
    BY <1>1
  <2> QED
    BY <1>2, <2>1 DEF MoveRight
<1>5. 0 \in 0 .. Len(l.input) /\ Len(l.input) \in 0 .. Len(l.input)
  BY <1>1
<1>6. LineShape(MoveHome(l)) /\ LineShape(MoveEnd(l))
  BY <1>2, <1>5 DEF MoveHome, MoveEnd
<1> QED
  BY <1>3, <1>4, <1>6

LEMMA RecallShape ==
  ASSUME NEW l, LineShape(l), NEW i \in 1 .. Len(l.history)
  PROVE  LineShape(Recall(l, i))
<1> DEFINE m == [l EXCEPT !.index = i, !.input = l.history[i]]
           r == Recall(l, i)
<1>1. /\ DOMAIN l = {"input", "cursor", "history", "index"}
      /\ l.history \in Seq(Texts) /\ Len(l.history) \in Nat /\ l.history[i] \in Texts
  BY LenProperties, ElementOfSeq DEF LineShape
<1>2. Len(l.history[i]) \in Nat
  BY <1>1, LenProperties DEF Texts
<1>3. /\ r.input = l.history[i] /\ r.cursor = Len(l.history[i]) /\ r.history = l.history
      /\ r.index = i /\ DOMAIN r = DOMAIN l
  BY <1>1 DEF Recall, MoveEnd
<1> HIDE DEF r
<1>4. r.cursor \in 0 .. Len(r.input) /\ r.index \in 0 .. Len(r.history)
  BY <1>1, <1>2, <1>3
<1> QED
  BY <1>1, <1>3, <1>4 DEF LineShape, r

LEMMA HistoryShape ==
  ASSUME NEW l, LineShape(l)
  PROVE  LineShape(HistoryPrevious(l)) /\ LineShape(HistoryNext(l))
<1>1. /\ DOMAIN l = {"input", "cursor", "history", "index"}
      /\ l.history \in Seq(Texts) /\ Len(l.history) \in Nat /\ l.index \in 0 .. Len(l.history)
  BY LenProperties DEF LineShape
<1>2. LineShape(HistoryPrevious(l))
  <2>1. CASE l.history = <<>>
    BY <2>1 DEF HistoryPrevious
  <2>2. CASE l.history # <<>>
    <3> DEFINE i == IF l.index = 0 THEN Len(l.history)
                    ELSE IF l.index = 1 THEN 1 ELSE l.index - 1
    <3>1. Len(l.history) # 0
      BY <1>1, <2>2, EmptySeq
    <3>2. i \in 1 .. Len(l.history)
      BY <1>1, <3>1
    <3>3. HistoryPrevious(l) = Recall(l, i)
      BY <2>2 DEF HistoryPrevious
    <3> HIDE DEF i
    <3> QED
      BY <3>2, <3>3, RecallShape
  <2> QED
    BY <2>1, <2>2
<1>3. LineShape(HistoryNext(l))
  <2>1. CASE l.index = 0
    BY <2>1 DEF HistoryNext
  <2>2. CASE l.index # 0 /\ l.index >= Len(l.history)
    <3> DEFINE m == [l EXCEPT !.index = 0, !.input = <<>>, !.cursor = 0]
    <3>1. m.input = <<>> /\ m.cursor = 0 /\ m.history = l.history /\ m.index = 0
            /\ DOMAIN m = DOMAIN l
      BY <1>1
    <3>2. HistoryNext(l) = m
      BY <2>2 DEF HistoryNext
    <3> HIDE DEF m
    <3>3. <<>> \in Texts /\ 0 \in 0 .. Len(<<>>) /\ 0 \in 0 .. Len(l.history)
      BY <1>1, EmptySeq DEF Texts
    <3> QED
      BY <1>1, <3>1, <3>2, <3>3 DEF LineShape
  <2>3. CASE l.index # 0 /\ ~(l.index >= Len(l.history))
    <3>1. l.index + 1 \in 1 .. Len(l.history)
      BY <1>1, <2>3
    <3>2. HistoryNext(l) = Recall(l, l.index + 1)
      BY <2>3 DEF HistoryNext
    <3> QED
      BY <3>1, <3>2, RecallShape
  <2> QED
    BY <2>1, <2>2, <2>3
<1> QED
  BY <1>2, <1>3

LEMMA SubmitShape ==
  ASSUME NEW l, LineShape(l)
  PROVE  LineShape(Submit(l))
<1>1. CASE l.input = <<>>
  BY <1>1 DEF Submit
<1>2. CASE l.input # <<>>
  <2> DEFINE h == IF l.history # <<>> /\ l.history[Len(l.history)] = l.input
                  THEN l.history ELSE Append(l.history, l.input)
             m == Remember(l)
  <2>1. /\ DOMAIN l = {"input", "cursor", "history", "index"}
        /\ l.history \in Seq(Texts) /\ l.input \in Texts
    BY DEF LineShape
  <2>2. h \in Seq(Texts)
    BY <2>1, AppendProperties
  <2>3. m.input = l.input /\ m.cursor = l.cursor /\ m.history = h /\ m.index = 0
          /\ DOMAIN m = DOMAIN l
    BY <2>1 DEF Remember
  <2>4. Submit(l) = m
    BY <1>2 DEF Submit
  <2> HIDE DEF h, m
  <2>5. 0 \in 0 .. Len(h)
    BY <2>2, LenProperties
  <2> QED
    BY <2>1, <2>2, <2>3, <2>4, <2>5 DEF LineShape
<1> QED
  BY <1>1, <1>2

LEMMA OpenShape ==
  ASSUME NEW l, LineShape(l), NEW text \in Texts
  PROVE  LineShape([Open(l) EXCEPT !.input = text, !.cursor = Len(text)])
<1> DEFINE m == [Open(l) EXCEPT !.input = text, !.cursor = Len(text)]
<1>1. /\ DOMAIN l = {"input", "cursor", "history", "index"}
      /\ l.history \in Seq(Texts) /\ Len(l.history) \in Nat /\ Len(text) \in Nat
  BY LenProperties DEF LineShape, Texts
<1>2. m.input = text /\ m.cursor = Len(text) /\ m.history = l.history /\ m.index = 0
        /\ DOMAIN m = DOMAIN l
  BY <1>1 DEF Open
<1> HIDE DEF m
<1>3. Len(text) \in 0 .. Len(text) /\ 0 \in 0 .. Len(l.history)
  BY <1>1
<1>4. LineShape(m)
  BY <1>1, <1>2, <1>3 DEF LineShape
<1> QED
  BY <1>4 DEF m

-----------------------------------------------------------------------------
(* States. *)

ScreenNames == {Screens[i] : i \in DOMAIN Screens}
Grounds == {"none", "edit", "editor", "elevate"}
Ends == {"no", "left", "discarded", "interrupted", "save failed"}

UIFields == {"screen", "overlay", "commanding", "line", "filter", "operation", "query", "started"}
UIShape(u) ==
  /\ DOMAIN u = UIFields
  /\ u.screen \in ScreenNames /\ u.operation \in {"none", "running", "finished"}
  /\ LineShape(u.line)

Shape(s) ==
  /\ DOMAIN s = StateFields
  /\ s.selected \in Selectable /\ s.foreground \in Grounds /\ s.quit \in Ends
  /\ UIShape(s.ui)

LEMMA TheScreens == ScreenNames = {"dashboard", "explorer", "heaviest", "cleaner"}
<1>1. /\ DOMAIN Screens = {1, 2, 3, 4}
      /\ Screens[1] = "dashboard" /\ Screens[2] = "explorer"
      /\ Screens[3] = "heaviest" /\ Screens[4] = "cleaner"
  BY DEF Screens
<1> HIDE DEF Screens
<1> QED
  BY <1>1 DEF ScreenNames

(* The screen to the left or to the right is a screen. *)
LEMMA NeighbourShown ==
  ASSUME NEW screen \in ScreenNames, NEW delta \in Int
  PROVE  Neighbour(screen, delta) \in ScreenNames
<1> DEFINE at == CHOOSE i \in DOMAIN Screens : Screens[i] = screen
           to == ((at - 1 + delta) % Len(Screens)) + 1
<1>1. DOMAIN Screens = 1 .. 4 /\ Len(Screens) = 4
  BY DEF Screens
<1>2. at \in 1 .. 4
  <2>1. \E i \in DOMAIN Screens : Screens[i] = screen
    BY DEF ScreenNames
  <2>2. at \in DOMAIN Screens
    BY <2>1
  <2> QED
    BY <1>1, <2>2
<1>3. Neighbour(screen, delta) = Screens[to]
  BY DEF Neighbour
<1> HIDE DEF at
<1>4. to \in 1 .. 4
  <2>1. at - 1 + delta \in Int
    BY <1>2
  <2>2. (at - 1 + delta) % 4 \in 0 .. 3
    BY <2>1
  <2> QED
    BY <1>1, <2>2
<1> HIDE DEF to
<1> QED
  BY <1>1, <1>3, <1>4 DEF ScreenNames

LEMMA PrefsShape == ASSUME NEW s, Shape(s), NEW p PROVE Shape([s EXCEPT !.prefs = p])
BY DEF Shape, StateFields

LEMMA UIChangeShape == ASSUME NEW s, Shape(s), NEW u, UIShape(u) PROVE Shape([s EXCEPT !.ui = u])
BY DEF Shape, StateFields

LEMMA GroundShape ==
  ASSUME NEW s, Shape(s), NEW ground \in Grounds
  PROVE  Shape([s EXCEPT !.foreground = ground])
BY DEF Shape, StateFields

LEMMA EndShape == ASSUME NEW s, Shape(s), NEW end \in Ends PROVE Shape([s EXCEPT !.quit = end])
BY DEF Shape, StateFields

(* What of the interface has no shape of its own. *)
LEMMA LooseUIShape ==
  ASSUME NEW u, UIShape(u), NEW v,
         NEW field \in {"overlay", "commanding", "filter", "query", "started"}
  PROVE  UIShape([u EXCEPT ![field] = v])
BY DEF UIShape, UIFields

LEMMA LineUIShape ==
  ASSUME NEW u, UIShape(u), NEW l, LineShape(l)
  PROVE  UIShape([u EXCEPT !.line = l])
BY DEF UIShape, UIFields

LEMMA ScreenUIShape ==
  ASSUME NEW u, UIShape(u), NEW screen \in ScreenNames
  PROVE  UIShape([u EXCEPT !.screen = screen])
BY DEF UIShape, UIFields

LEMMA OperationUIShape ==
  ASSUME NEW u, UIShape(u), NEW operation \in {"none", "running", "finished"}
  PROVE  UIShape([u EXCEPT !.operation = operation])
BY DEF UIShape, UIFields

LEMMA ShowShape == ASSUME NEW s, Shape(s), NEW overlay PROVE Shape(Show(s, overlay))
<1> DEFINE u == [s.ui EXCEPT !.overlay = overlay]
<1>1. UIShape(u)
  BY LooseUIShape DEF Shape
<1>2. Show(s, overlay) = [s EXCEPT !.ui = u]
  BY DEF Show
<1> HIDE DEF u
<1> QED
  BY <1>1, <1>2, UIChangeShape

LEMMA RequestQuitShape == ASSUME NEW s, Shape(s) PROVE Shape(RequestQuit(s))
<1>1. Shape([s EXCEPT !.quit = "left"])
  BY EndShape DEF Ends
<1> QED
  BY <1>1, ShowShape DEF RequestQuit

LEMMA SaveAndQuitShape ==
  ASSUME NEW s, Shape(s), NEW outcome
  PROVE  Shape(SaveAndQuit(s, outcome))
BY DEF Shape, SaveAndQuit, StateFields, Ends

LEMMA PerformShape ==
  ASSUME NEW s, Shape(s), NEW action, NEW outcome
  PROVE  Shape(Perform(s, action, outcome))
<1>1. CASE action \in {"delete", "clean"}
  <2> DEFINE u == [s.ui EXCEPT !.operation = "running"]
  <2>1. UIShape(u)
    BY OperationUIShape DEF Shape
  <2>2. Perform(s, action, outcome) = [s EXCEPT !.ui = u]
    BY <1>1 DEF Perform
  <2> HIDE DEF u
  <2> QED
    BY <2>1, <2>2, UIChangeShape
<1>2. CASE action = "save and quit"
  BY <1>2, SaveAndQuitShape DEF Perform
<1>3. CASE action = "reset"
  <2>1. Shape([s EXCEPT !.prefs = ResetToDefaults(s.prefs)])
    BY PrefsShape
  <2> QED
    BY <1>3, <2>1 DEF Perform
<1>4. CASE action \notin {"delete", "clean", "save and quit", "reset"}
  <2>1. Shape([s EXCEPT !.foreground = "elevate"])
    BY GroundShape DEF Grounds
  <2> QED
    BY <1>4, <2>1 DEF Perform
<1> QED
  BY <1>1, <1>2, <1>3, <1>4

LEMMA ReloadConfigShape == ASSUME NEW s, Shape(s) PROVE Shape(ReloadConfig(s))
<1>1. Shape([s EXCEPT !.prefs = Reload(s.prefs)])
  BY PrefsShape
<1> QED
  BY <1>1, ShowShape DEF ReloadConfig

LEMMA RunSettingActionShape ==
  ASSUME NEW s, Shape(s), NEW id, IsAction(id), NEW outcome
  PROVE  Shape(RunSettingAction(s, id, outcome))
<1>1. CASE id = "SaveConfig"
  <2>1. Shape([s EXCEPT !.prefs = SaveSettings(s.prefs, outcome)])
    BY PrefsShape
  <2> QED
    BY <1>1, <2>1 DEF RunSettingAction
<1>2. CASE id = "EditConfig"
  <2>1. Shape([s EXCEPT !.foreground = "edit"])
    BY GroundShape DEF Grounds
  <2> QED
    BY <1>2, <2>1 DEF RunSettingAction
<1>3. CASE id = "ReloadConfig"
  BY <1>3, ReloadConfigShape DEF RunSettingAction
<1>4. CASE id = "ResetDefaults"
  BY <1>4, ShowShape DEF RunSettingAction
<1> QED
  BY <1>1, <1>2, <1>3, <1>4 DEF IsAction

LEMMA HeaviestShape ==
  ASSUME NEW s, Shape(s), NEW limit
  PROVE  Shape(StartHeaviestQuery(s, limit))
<1> DEFINE u == [s.ui EXCEPT !.query = TRUE]
           w == [u EXCEPT !.screen = "heaviest"]
           t == StartHeaviestQuery(s, limit)
<1>1. UIShape(u)
  BY LooseUIShape DEF Shape
<1>2. /\ DOMAIN t = StateFields /\ t.ui = w
      /\ t.selected = s.selected /\ t.foreground = s.foreground /\ t.quit = s.quit
  <2>1. DOMAIN s = StateFields
    BY DEF Shape
  <2> QED
    BY <2>1 DEF StartHeaviestQuery, StateFields
<1> HIDE DEF u, t
<1>3. UIShape(w)
  BY <1>1, TheScreens, ScreenUIShape
<1> HIDE DEF w
<1>4. Shape(t)
  BY <1>2, <1>3 DEF Shape
<1> QED
  BY <1>4 DEF t

LEMMA SwitchShape ==
  ASSUME NEW s, Shape(s), NEW screen \in ScreenNames
  PROVE  Shape(SwitchScreen(s, screen))
<1>1. CASE screen = "heaviest" /\ ~s.ui.query
  BY <1>1, HeaviestShape DEF SwitchScreen
<1>2. CASE ~(screen = "heaviest" /\ ~s.ui.query)
  <2> DEFINE u == [s.ui EXCEPT !.screen = screen]
             w == [u EXCEPT !.started = s.ui.started \/ screen = "cleaner"]
  <2>1. UIShape(u)
    BY ScreenUIShape DEF Shape
  <2>2. SwitchScreen(s, screen) = [s EXCEPT !.ui = w]
    <3>1. DOMAIN s = StateFields /\ DOMAIN s.ui = UIFields
      BY DEF Shape, UIShape
    <3> QED
      BY <1>2, <3>1 DEF SwitchScreen, StateFields, UIFields
  <2> HIDE DEF u
  <2>3. UIShape(w)
    BY <2>1, LooseUIShape
  <2> HIDE DEF w
  <2> QED
    BY <2>2, <2>3, UIChangeShape
<1> QED
  BY <1>1, <1>2

LEMMA ExecuteCommandShape ==
  ASSUME NEW s, Shape(s), NEW c, NEW outcome
  PROVE  Shape(ExecuteCommand(s, c, outcome))
<1> DEFINE t == ExecuteCommand(s, c, outcome)
<1>1. CASE c.name = "quit"
  BY <1>1, RequestQuitShape DEF ExecuteCommand
<1>2. CASE c.name \in {"help", "log", "stats", "config", "themes", "mounts", "settings"}
  BY <1>2, ShowShape DEF ExecuteCommand
<1>3. CASE c.name \in {"config save", "theme", "limit", "threads", "dense", "depth", "pause",
                       "resume", "mode", "base", "trash"}
  <2>1. \E p : t = [s EXCEPT !.prefs = p]
    <3>1. CASE c.name \in {"config save", "theme", "dense", "depth"}
      BY <3>1 DEF ExecuteCommand
    <3>2. CASE c.name = "limit"
      <4> DEFINE q == [s.prefs EXCEPT !.rowLimit = Clamp(c.value, 5, 100000)]
      <4>1. t = [s EXCEPT !.prefs = q]
        BY <3>2 DEF ExecuteCommand, SetRowLimit
      <4> HIDE DEF t, q
      <4> QED
        BY <4>1
    <3>3. CASE c.name = "threads"
      <4> DEFINE q == [s.prefs EXCEPT !.threads = SetWorkerCount(c.value)]
      <4>1. t = [s EXCEPT !.prefs = q]
        BY <3>3 DEF ExecuteCommand
      <4> HIDE DEF t, q
      <4> QED
        BY <4>1
    <3>4. CASE c.name \in {"pause", "resume"}
      BY <3>4 DEF ExecuteCommand
    <3>5. CASE c.name \in {"mode", "base", "trash"}
      BY <3>5 DEF ExecuteCommand
    <3> QED
      BY <1>3, <3>1, <3>2, <3>3, <3>4, <3>5
  <2> HIDE DEF t
  <2>2. Shape(t)
    BY <2>1, PrefsShape
  <2> QED
    BY <2>2 DEF t
<1>4. CASE c.name = "config edit"
  <2>1. Shape([s EXCEPT !.foreground = "edit"])
    BY GroundShape DEF Grounds
  <2> QED
    BY <1>4, <2>1 DEF ExecuteCommand
<1>5. CASE c.name = "config reload"
  BY <1>5, ReloadConfigShape DEF ExecuteCommand
<1>6. CASE c.name = "top"
  BY <1>6, HeaviestShape DEF ExecuteCommand
<1>7. CASE c.name = "filter"
  <2> DEFINE u == [s.ui EXCEPT !.filter = c.value]
             w == [u EXCEPT !.screen = "explorer"]
  <2>1. UIShape(u)
    BY LooseUIShape DEF Shape
  <2>2. /\ DOMAIN t = StateFields /\ t.ui = w
        /\ t.selected = s.selected /\ t.foreground = s.foreground /\ t.quit = s.quit
    <3>1. DOMAIN s = StateFields
      BY DEF Shape
    <3> QED
      BY <1>7, <3>1 DEF ExecuteCommand, StateFields
  <2> HIDE DEF u, t
  <2>3. UIShape(w)
    BY <2>1, TheScreens, ScreenUIShape
  <2> HIDE DEF w
  <2>4. Shape(t)
    BY <2>2, <2>3 DEF Shape
  <2> QED
    BY <2>4 DEF t
<1>8. CASE c.name \in {"cleaner", "dashboard", "explorer"}
  <2>1. c.name \in ScreenNames
    BY <1>8, TheScreens
  <2> QED
    BY <1>8, <2>1, SwitchShape DEF ExecuteCommand
<1>9. CASE c.name = "goto"
  <2> DEFINE screen == IF c.value = "directory" THEN "explorer" ELSE s.ui.screen
             u == [s.ui EXCEPT !.screen = screen]
  <2>1. screen \in ScreenNames
    BY TheScreens DEF Shape, UIShape
  <2>2. t = [s EXCEPT !.ui = u]
    BY <1>9 DEF ExecuteCommand
  <2> HIDE DEF screen
  <2>3. UIShape(u)
    BY <2>1, ScreenUIShape DEF Shape
  <2> HIDE DEF u, t
  <2>4. Shape(t)
    BY <2>2, <2>3, UIChangeShape
  <2> QED
    BY <2>4 DEF t
<1>10. CASE c.name \notin {"quit", "help", "log", "stats", "config", "themes", "mounts", "settings",
                         "config save", "config edit", "config reload", "theme", "limit",
                         "threads", "dense", "depth", "pause", "resume", "mode", "base", "trash",
                         "top", "filter", "cleaner", "dashboard", "explorer", "goto"}
  <2>1. t = s
    BY <1>10 DEF ExecuteCommand
  <2> QED
    BY <2>1
<1> QED
  BY <1>1, <1>2, <1>3, <1>4, <1>5, <1>6, <1>7, <1>8, <1>9, <1>10

-----------------------------------------------------------------------------
(* The actions. *)

ShapeInv == scenario \in Scenarios /\ Shape(State)

LEMMA StateParts ==
  /\ State.ui = ui /\ State.selected = selected
  /\ State.foreground = foreground /\ State.quit = quit
BY DEF State

LEMMA ShapeParts ==
  ASSUME Shape(State)
  PROVE  /\ selected \in Selectable /\ foreground \in Grounds /\ quit \in Ends
         /\ UIShape(ui)
BY StateParts DEF Shape

LEMMA BecomesShaped ==
  ASSUME ShapeInv, NEW s, Shape(s), Becomes(s), UNCHANGED scenario
  PROVE  ShapeInv'
BY DEF ShapeInv, Shape, Becomes, State, StateFields

LEMMA PartsShaped ==
  ASSUME ShapeInv, selected' \in Selectable, foreground' \in Grounds, quit' \in Ends,
         UIShape(ui'), UNCHANGED scenario
  PROVE  ShapeInv'
BY DEF ShapeInv, Shape, State, StateFields

(* An action that changes the preferences only, if anything. *)
LEMMA OnlyPrefsShaped ==
  ASSUME ShapeInv, UNCHANGED <<ui, selected, foreground, quit, scenario>>
  PROVE  ShapeInv'
BY ShapeParts, PartsShaped DEF ShapeInv

LEMMA OnlyUIShaped ==
  ASSUME ShapeInv, UIShape(ui'), UNCHANGED <<selected, foreground, quit, scenario>>
  PROVE  ShapeInv'
BY ShapeParts, PartsShaped DEF ShapeInv

LEMMA ShowsShaped ==
  ASSUME ShapeInv, NEW overlay, Becomes(Show(State, overlay)), UNCHANGED scenario
  PROVE  ShapeInv'
BY ShowShape, BecomesShaped DEF ShapeInv

LEMMA InterruptShaped == ASSUME ShapeInv, Interrupt PROVE ShapeInv'
<1>1. Shape([State EXCEPT !.quit = "interrupted"])
  BY EndShape DEF ShapeInv, Ends
<1>2. Becomes([State EXCEPT !.quit = "interrupted"]) /\ UNCHANGED scenario
  BY DEF Interrupt, Press, Counted
<1> HIDE DEF Becomes
<1> QED
  BY <1>1, <1>2, BecomesShaped

LEMMA DismissShaped == ASSUME ShapeInv, DismissOperation PROVE ShapeInv'
<1> DEFINE u == [ui EXCEPT !.operation = "none"]
           s == [State EXCEPT !.ui = u]
<1>1. PICK overlay : Becomes(Show(s, overlay))
  BY StateParts DEF DismissOperation
<1>2. UIShape(u)
  BY ShapeParts, OperationUIShape DEF ShapeInv
<1>3. UNCHANGED scenario
  BY DEF DismissOperation, Press, Counted
<1> HIDE DEF u
<1>4. Shape(s)
  BY <1>2, UIChangeShape DEF ShapeInv
<1> HIDE DEF s
<1> QED
  BY <1>1, <1>3, <1>4, ShowShape, BecomesShaped

LEMMA MoveSettingShaped == ASSUME ShapeInv, MoveSetting PROVE ShapeInv'
<1>1. selected \in Selectable /\ foreground \in Grounds /\ quit \in Ends /\ UIShape(ui)
  BY ShapeParts DEF ShapeInv
<1>2. selected \in Nat
  <2>1. Selectable \in SUBSET (1 .. Len(Rows)) /\ Len(Rows) \in Nat
    BY RowsAssumption, LenProperties DEF Selectable
  <2> QED
    BY <1>1, <2>1
<1>3. \A delta \in {-1, 1, -6, 6} : MovedTo(selected, delta) \in Selectable
  BY <1>1, <1>2, MovedToSetting
<1>4. selected' \in Selectable
  BY <1>3, FirstIsSetting, LastIsSetting DEF MoveSetting
<1>5. UNCHANGED <<ui, foreground, quit, scenario>>
  BY DEF MoveSetting, Settings, Press, Counted
<1> QED
  BY <1>1, <1>4, <1>5, PartsShaped

LEMMA ActOnSettingsShaped == ASSUME ShapeInv, ActOnSettings PROVE ShapeInv'
<1>1. PICK outcome, id : IsAction(id) /\ Becomes(RunSettingAction(State, id, outcome))
  BY DEF ActOnSettings, IsAction
<1>2. UNCHANGED scenario
  BY DEF ActOnSettings, Settings, Press, Counted
<1>3. Shape(RunSettingAction(State, id, outcome))
  BY <1>1, RunSettingActionShape DEF ShapeInv
<1> QED
  BY <1>1, <1>2, <1>3, BecomesShaped

LEMMA ClosedShape == ASSUME ShapeInv PROVE Shape(Closed)
BY ShowShape DEF ShapeInv, Closed

LEMMA AcceptShaped == ASSUME ShapeInv, Accept PROVE ShapeInv'
<1>1. PICK outcome \in scenario.saving : Becomes(Perform(Closed, ui.overlay.action, outcome))
  BY DEF Accept
<1>2. UNCHANGED scenario
  BY DEF Accept, InDialog, Press, Counted
<1>3. Shape(Perform(Closed, ui.overlay.action, outcome))
  BY ClosedShape, PerformShape
<1> QED
  BY <1>1, <1>2, <1>3, BecomesShaped

LEMMA DeclineShaped == ASSUME ShapeInv, Decline PROVE ShapeInv'
<1>1. Becomes(Closed) \/ Becomes([Closed EXCEPT !.quit = "discarded"])
  BY DEF Decline
<1>2. UNCHANGED scenario
  BY DEF Decline, InDialog, Press, Counted
<1>3. Shape(Closed) /\ Shape([Closed EXCEPT !.quit = "discarded"])
  BY ClosedShape, EndShape DEF Ends
<1> QED
  BY <1>1, <1>2, <1>3, BecomesShaped

LEMMA TypeWordShaped == ASSUME ShapeInv, TypeWord PROVE ShapeInv'
<1>1. PICK v : ui' = [ui EXCEPT !.overlay = v]
  BY DEF TypeWord
<1>2. UNCHANGED <<selected, foreground, quit, scenario>>
  BY DEF TypeWord, InDialog, Press, Counted
<1>3. UIShape(ui')
  BY <1>1, ShapeParts, LooseUIShape DEF ShapeInv
<1> QED
  BY <1>2, <1>3, OnlyUIShaped

LEMMA EditLineShaped == ASSUME ShapeInv, EditLine PROVE ShapeInv'
<1>1. PICK edit \in Edits(ui.line) : ui' = [ui EXCEPT !.line = edit[2]]
  BY DEF EditLine
<1>2. UNCHANGED <<selected, foreground, quit, scenario>>
  BY DEF EditLine, InLine, Press, Counted
<1>3. UIShape(ui) /\ LineShape(ui.line)
  BY ShapeParts DEF ShapeInv, UIShape
<1>4. LineShape(edit[2])
  <2>1. CASE edit \in {<<"Left", MoveLeft(ui.line)>>, <<"Right", MoveRight(ui.line)>>,
                       <<"Home", MoveHome(ui.line)>>, <<"End", MoveEnd(ui.line)>>}
    BY <1>3, <2>1, CursorShape
  <2>2. CASE edit \in {<<"Up", HistoryPrevious(ui.line)>>, <<"Down", HistoryNext(ui.line)>>}
    BY <1>3, <2>2, HistoryShape
  <2>3. CASE \E c \in scenario.keys : edit = <<c, Insert(ui.line, c)>>
    <3>1. PICK c \in scenario.keys : edit = <<c, Insert(ui.line, c)>>
      BY <2>3
    <3>2. c \in Characters
      BY <3>1, KeysAreCharacters DEF ShapeInv
    <3> QED
      BY <1>3, <3>1, <3>2, InsertShape
  <2> QED
    BY <1>1, <2>1, <2>2, <2>3 DEF Edits
<1>5. UIShape(ui')
  BY <1>1, <1>3, <1>4, LineUIShape
<1> QED
  BY <1>2, <1>5, OnlyUIShaped

LEMMA TypeCommandShaped == ASSUME ShapeInv, TypeCommand PROVE ShapeInv'
<1>1. PICK word \in scenario.words : ui' = [ui EXCEPT !.line = Insert(ui.line, word)]
  BY DEF TypeCommand
<1>2. UNCHANGED <<selected, foreground, quit, scenario>>
  BY DEF TypeCommand, Counted
<1>3. UIShape(ui) /\ LineShape(ui.line)
  BY ShapeParts DEF ShapeInv, UIShape
<1>4. word \in Characters
  BY <1>1, KeysAreCharacters DEF ShapeInv
<1>5. UIShape(ui')
  BY <1>1, <1>3, <1>4, InsertShape, LineUIShape
<1> QED
  BY <1>2, <1>5, OnlyUIShaped

LEMMA LeaveLineShaped == ASSUME ShapeInv, LeaveLine PROVE ShapeInv'
<1>1. UNCHANGED <<selected, foreground, quit, scenario>>
  BY DEF LeaveLine, InLine, Press, Counted
<1>2. UIShape(ui) /\ LineShape(ui.line)
  BY ShapeParts DEF ShapeInv, UIShape
<1>3. CASE ui' = [ui EXCEPT !.commanding = FALSE]
  BY <1>1, <1>2, <1>3, LooseUIShape, OnlyUIShaped
<1>4. CASE \E v : ui' = [[ui EXCEPT !.line = Backspace(ui.line)] EXCEPT !.commanding = v]
  <2> DEFINE u == [ui EXCEPT !.line = Backspace(ui.line)]
  <2>1. UIShape(u)
    BY <1>2, BackspaceShape, LineUIShape
  <2>2. PICK v : ui' = [u EXCEPT !.commanding = v]
    BY <1>4
  <2> HIDE DEF u
  <2>3. UIShape(ui')
    BY <2>1, <2>2, LooseUIShape
  <2> QED
    BY <1>1, <2>3, OnlyUIShaped
<1> QED
  BY <1>3, <1>4 DEF LeaveLine

LEMMA SubmitLineShaped == ASSUME ShapeInv, SubmitLine PROVE ShapeInv'
<1> DEFINE u == [ui EXCEPT !.commanding = FALSE]
           w == [u EXCEPT !.line = Submit(ui.line)]
           s == [State EXCEPT !.ui = w]
<1>1. UIShape(ui) /\ LineShape(ui.line)
  BY ShapeParts DEF ShapeInv, UIShape
<1>2. s = [State EXCEPT !.ui.commanding = FALSE, !.ui.line = Submit(@)]
  BY <1>1 DEF State, UIShape, UIFields
<1>3. UIShape(u)
  BY <1>1, LooseUIShape
<1>4. UNCHANGED scenario
  BY DEF SubmitLine, InLine, Press, Counted
<1>5. Becomes(s) \/ \E outcome \in scenario.saving :
                       Becomes(ExecuteCommand(s, Parse(ui.line.input), outcome))
  BY <1>2 DEF SubmitLine
<1> HIDE DEF u
<1>6. UIShape(w)
  BY <1>1, <1>3, SubmitShape, LineUIShape
<1> HIDE DEF w
<1>7. Shape(s)
  BY <1>6, UIChangeShape DEF ShapeInv
<1> HIDE DEF s
<1> QED
  BY <1>4, <1>5, <1>7, ExecuteCommandShape, BecomesShaped

LEMMA OpenLineShaped == ASSUME ShapeInv, OpenLine PROVE ShapeInv'
<1>1. PICK text \in {<<>>, <<"filter">>} : OpenWith(text)
  BY DEF OpenLine
<1>2. UNCHANGED <<selected, foreground, quit, scenario>>
  BY DEF OpenLine, On, Screen, Press, Counted
<1>3. text \in Texts
  <2>1. "filter" \in Characters
    BY Zenon DEF Characters
  <2>2. <<>> \in Texts /\ <<"filter">> \in Texts
    BY <2>1, EmptySeq DEF Texts
  <2> QED
    BY <1>1, <2>2
<1> DEFINE u == [ui EXCEPT !.commanding = TRUE]
           l == [Open(ui.line) EXCEPT !.input = text, !.cursor = Len(text)]
<1>4. UIShape(ui) /\ LineShape(ui.line)
  BY ShapeParts DEF ShapeInv, UIShape
<1>5. UIShape(u) /\ LineShape(l)
  BY <1>3, <1>4, LooseUIShape, OpenShape
<1>6. ui' = [u EXCEPT !.line = l]
  BY <1>1, <1>4 DEF OpenWith, UIShape, UIFields
<1> HIDE DEF u, l
<1>7. UIShape(ui')
  BY <1>5, <1>6, LineUIShape
<1> QED
  BY <1>2, <1>7, OnlyUIShaped

LEMMA RowLimitShape == ASSUME NEW s, Shape(s), NEW n PROVE Shape(SetRowLimit(s, n))
<1> DEFINE q == [s.prefs EXCEPT !.rowLimit = Clamp(n, 5, 100000)]
<1>1. SetRowLimit(s, n) = [s EXCEPT !.prefs = q]
  BY DEF SetRowLimit
<1> HIDE DEF q
<1> QED
  BY <1>1, PrefsShape

LEMMA GlobalKeyShaped == ASSUME ShapeInv, GlobalKey PROVE ShapeInv'
<1>1. UNCHANGED scenario
  BY DEF GlobalKey, Screen, Press, Counted
<1>2. Shape(State) /\ ui.screen \in ScreenNames
  BY ShapeParts DEF ShapeInv, UIShape
<1>3. /\ \A overlay : Shape(Show(State, overlay))
      /\ Shape(RequestQuit(State))
      /\ \A p : Shape([State EXCEPT !.prefs = p])
  BY <1>2, ShowShape, RequestQuitShape, PrefsShape
<1>4. \A delta \in {-1, 1} : Shape(SwitchScreen(State, Neighbour(ui.screen, delta)))
  BY <1>2, NeighbourShown, SwitchShape
<1>5. Shape([State EXCEPT !.prefs.paused = ~ @])
  <2> DEFINE q == [State.prefs EXCEPT !.paused = ~ @]
  <2>1. [State EXCEPT !.prefs.paused = ~ @] = [State EXCEPT !.prefs = q]
    OBVIOUS
  <2> HIDE DEF q
  <2> QED
    BY <1>3, <2>1
<1>6. Shape([State EXCEPT !.prefs.sizeMode = Other(@, "allocated", "apparent")])
  <2> DEFINE q == [State.prefs EXCEPT !.sizeMode = Other(@, "allocated", "apparent")]
  <2>1. [State EXCEPT !.prefs.sizeMode = Other(@, "allocated", "apparent")]
          = [State EXCEPT !.prefs = q]
    OBVIOUS
  <2> HIDE DEF q
  <2> QED
    BY <1>3, <2>1
<1>7. \E t : Shape(t) /\ Becomes(t)
  BY <1>3, <1>4, <1>5, <1>6 DEF GlobalKey
<1> QED
  BY <1>1, <1>7, BecomesShaped

LEMMA ScreenKeyShaped == ASSUME ShapeInv, ScreenKey PROVE ShapeInv'
<1>1. UNCHANGED scenario
  BY DEF ScreenKey, On, Screen, Press, Counted
<1>2. Shape(State)
  BY DEF ShapeInv
<1>3. /\ \A overlay : Shape(Show(State, overlay))
      /\ \A n : Shape(SetRowLimit(State, n))
      /\ \A limit : Shape(StartHeaviestQuery(State, limit))
  BY <1>2, ShowShape, RowLimitShape, HeaviestShape
<1>4. Shape(SwitchScreen(State, "cleaner")) /\ Shape(SwitchScreen(State, "explorer"))
  BY <1>2, TheScreens, SwitchShape
<1>5. Shape([State EXCEPT !.prefs.showFiles = ~ @])
  <2> DEFINE q == [State.prefs EXCEPT !.showFiles = ~ @]
  <2>1. [State EXCEPT !.prefs.showFiles = ~ @] = [State EXCEPT !.prefs = q]
    OBVIOUS
  <2> HIDE DEF q
  <2> QED
    BY <1>2, <2>1, PrefsShape
<1>6. Shape([State EXCEPT !.ui.filter = <<>>])
  <2> DEFINE u == [State.ui EXCEPT !.filter = <<>>]
  <2>1. UIShape(u)
    BY <1>2, LooseUIShape DEF Shape
  <2>2. [State EXCEPT !.ui.filter = <<>>] = [State EXCEPT !.ui = u]
    OBVIOUS
  <2> HIDE DEF u
  <2> QED
    BY <1>2, <2>1, <2>2, UIChangeShape
<1>7. \E t : Shape(t) /\ Becomes(t)
  BY <1>3, <1>4, <1>5, <1>6 DEF ScreenKey
<1> QED
  BY <1>1, <1>7, BecomesShaped

LEMMA RunEditorShaped == ASSUME ShapeInv, RunEditor PROVE ShapeInv'
<1>1. UNCHANGED <<ui, selected, quit, scenario>> /\ foreground' \in {"editor", "none"}
  BY DEF RunEditor
<1> QED
  BY <1>1, ShapeParts, PartsShaped DEF ShapeInv, Grounds

LEMMA EditorExitsShaped == ASSUME ShapeInv, EditorExits PROVE ShapeInv'
<1> DEFINE loaded(file) == [State EXCEPT !.prefs.file = file, !.foreground = "none"]
<1>1. UNCHANGED scenario
  BY DEF EditorExits
<1>2. PICK file : Becomes(ReloadConfig(loaded(file))) \/ Becomes(loaded(file))
  BY DEF EditorExits
<1> DEFINE s == loaded(file)
<1>3. /\ DOMAIN s = StateFields /\ s.selected = selected /\ s.foreground = "none"
      /\ s.quit = quit /\ s.ui = ui
  BY DEF State, StateFields
<1>4. Becomes(ReloadConfig(s)) \/ Becomes(s)
  BY <1>2
<1> HIDE DEF loaded, s
<1>5. Shape(s)
  BY <1>3, ShapeParts DEF ShapeInv, Shape, Grounds
<1> QED
  BY <1>1, <1>4, <1>5, ReloadConfigShape, BecomesShaped

LEMMA RunElevatedShaped == ASSUME ShapeInv, RunElevated PROVE ShapeInv'
BY ShapeParts, PartsShaped DEF ShapeInv, RunElevated, Grounds

LEMMA OperationEndsShaped == ASSUME ShapeInv, OperationEnds PROVE ShapeInv'
<1>1. UIShape(ui')
  BY ShapeParts, OperationUIShape DEF ShapeInv, OperationEnds
<1> QED
  BY <1>1, OnlyUIShaped DEF OperationEnds

LEMMA ShapeInit == Init => ShapeInv
<1> SUFFICES ASSUME Init PROVE ShapeInv
  OBVIOUS
<1>1. scenario \in Scenarios /\ selected = SelectFirst /\ foreground = "none" /\ quit = "no"
  BY DEF Init
<1>2. scenario.screen \in ScreenNames
  BY <1>1, ScreensAssumption DEF ScreenNames
<1>3. UIShape(ui)
  <2>1. /\ DOMAIN ui = UIFields /\ ui.screen = scenario.screen
        /\ ui.operation = "none" /\ ui.line = NewLine
    BY DEF Init, UIFields
  <2> QED
    BY <1>2, <2>1, NewLineShape DEF UIShape
<1>4. selected \in Selectable /\ foreground \in Grounds /\ quit \in Ends
  BY <1>1, FirstIsSetting DEF Grounds, Ends
<1> QED
  BY <1>1, <1>3, <1>4, StateIsRecord, StateParts DEF ShapeInv, Shape

LEMMA ShapeStep == ShapeInv /\ [Next]_vars => ShapeInv'
<1> SUFFICES ASSUME ShapeInv, [Next]_vars PROVE ShapeInv'
  OBVIOUS
<1> USE DEF Settings, InDialog, InLine, Screen, On, Press, Counted
<1>1. CASE Interrupt         BY <1>1, InterruptShaped
<1>2. CASE SwallowKey        BY <1>2, OnlyPrefsShaped DEF SwallowKey
<1>3. CASE DismissOperation  BY <1>3, DismissShaped
<1>4. CASE MoveSetting       BY <1>4, MoveSettingShaped
<1>5. CASE ChangeSetting     BY <1>5, OnlyPrefsShaped DEF ChangeSetting
<1>6. CASE ActOnSettings     BY <1>6, ActOnSettingsShaped
<1>7. CASE CloseSettings     BY <1>7, ShowsShaped DEF CloseSettings
<1>8. CASE ClosePopup        BY <1>8, ShowsShaped DEF ClosePopup
<1>9. CASE Accept            BY <1>9, AcceptShaped
<1>10. CASE Decline          BY <1>10, DeclineShaped
<1>11. CASE TypeWord         BY <1>11, TypeWordShaped
<1>12. CASE EditLine         BY <1>12, EditLineShaped
<1>13. CASE TypeCommand      BY <1>13, TypeCommandShaped
<1>14. CASE LeaveLine        BY <1>14, LeaveLineShaped
<1>15. CASE SubmitLine       BY <1>15, SubmitLineShaped
<1>16. CASE OpenLine         BY <1>16, OpenLineShaped
<1>17. CASE GlobalKey        BY <1>17, GlobalKeyShaped
<1>18. CASE ScreenKey        BY <1>18, ScreenKeyShaped
<1>19. CASE RequestDeletion  BY <1>19, ShowsShaped DEF RequestDeletion
<1>20. CASE RunEditor        BY <1>20, RunEditorShaped
<1>21. CASE EditorExits      BY <1>21, EditorExitsShaped
<1>22. CASE RunElevated      BY <1>22, RunElevatedShaped
<1>23. CASE OperationEnds    BY <1>23, OperationEndsShaped
<1>24. CASE ChangeFile       BY <1>24, OnlyPrefsShaped DEF ChangeFile
<1>25. CASE UNCHANGED vars   BY <1>25, OnlyPrefsShaped DEF vars
<1> QED
  BY <1>1, <1>2, <1>3, <1>4, <1>5, <1>6, <1>7, <1>8, <1>9, <1>10, <1>11, <1>12, <1>13,
     <1>14, <1>15, <1>16, <1>17, <1>18, <1>19, <1>20, <1>21, <1>22, <1>23, <1>24, <1>25
     DEF Next

(* Numbers from a configuration file, whatever it says, are in the ranges  *)
(* that the code keeps them to.                                            *)
LEMMA EffectiveInRange ==
  ASSUME NEW p, Effective(p)
  PROVE  /\ p.rowLimit >= 5 /\ p.heaviest >= 5 /\ p.threads \in 1 .. 256
         /\ p.policy.dense >= 100 /\ p.policy.depth \in 1 .. 64
         /\ p.palette \in {NamedTheme[name] : name \in DOMAIN NamedTheme}
<1>1. p.rowLimit >= 5 /\ p.heaviest >= 5 /\ p.threads \in 1 .. 256
  BY DEF Effective, Storable
<1>2. /\ p.config.dense_directory_threshold \in Nat
      /\ p.config.materialize_depth \in Nat
  BY DEF Effective, Whole, IsConfig, Numbers
<1>3. p.policy.dense >= 100 /\ p.policy.depth \in 1 .. 64
  BY <1>2 DEF Effective, Follows, ScanPolicy, Larger, Clamp
<1>4. p.palette = PaletteOf(p.theme) /\ p.theme \in DOMAIN NamedTheme
  BY ThemeKnown DEF Effective, Follows
<1>5. p.palette \in {NamedTheme[name] : name \in DOMAIN NamedTheme}
  BY <1>4, ThemesAssumption DEF PaletteOf
<1> QED
  BY <1>1, <1>3, <1>5

(* The selection of the Settings popup is on a setting, the cursor and the *)
(* history's index are inside the line, and the preferences in effect are  *)
(* in their ranges, for every list of rows, every text and every file.     *)
THEOREM AppTypes == Spec => []AppTypeOK
<1>1. Init => ShapeInv /\ EffInv
  BY ShapeInit, EffInit
<1>2. ShapeInv /\ EffInv /\ [Next]_vars => ShapeInv' /\ EffInv'
  BY ShapeStep, EffStep DEF Sound
<1>3. ShapeInv /\ EffInv => AppTypeOK
  <2> SUFFICES ASSUME ShapeInv, EffInv PROVE AppTypeOK
    OBVIOUS
  <2>1. /\ selected \in Selectable /\ foreground \in Grounds /\ quit \in Ends
        /\ UIShape(ui)
    BY ShapeParts DEF ShapeInv
  <2>2. /\ ui.screen \in ScreenNames /\ ui.operation \in {"none", "running", "finished"}
        /\ ui.line.cursor \in 0 .. Len(ui.line.input)
        /\ ui.line.index \in 0 .. Len(ui.line.history)
    BY <2>1 DEF UIShape, LineShape
  <2>3. /\ prefs.rowLimit >= 5 /\ prefs.heaviest >= 5 /\ prefs.threads \in 1 .. 256
        /\ prefs.policy.dense >= 100 /\ prefs.policy.depth \in 1 .. 64
        /\ prefs.palette \in {NamedTheme[name] : name \in DOMAIN NamedTheme}
    BY EffectiveInRange DEF EffInv
  <2> QED
    BY <2>1, <2>2, <2>3 DEF AppTypeOK, ScreenNames, Grounds, Ends
<1> QED
  BY <1>1, <1>2, <1>3, PTL DEF Spec
=============================================================================
