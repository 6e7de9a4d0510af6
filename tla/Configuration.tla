---------------------------- MODULE Configuration ---------------------------
(***************************************************************************)
(* The configuration: what a file of preferences says                      *)
(* (application/configuration/app_config.rs), what of it is in effect, how *)
(* the one is made of the other when the program starts, reloads or        *)
(* resets, and how the one is written back to the file                     *)
(* (infrastructure/config/toml_config_store.rs, presentation/app/          *)
(* settings.rs).                                                           *)
(*                                                                         *)
(* A configuration is a record with the keys of the file that the          *)
(* interface changes or that can be wrong; colours and paths are left out. *)
(* Some preferences live in the configuration only, some have a value of   *)
(* their own that is copied back when the file is written, some are copied *)
(* into the scan engine or into the cleaning service.                      *)
(***************************************************************************)
EXTENDS Integers, Sequences

CONSTANTS
  Themes,       \* THEME_NAMES
  NamedTheme,   \* Theme::by_name: from every name that is known, aliases
                \* included, to the theme
  Truecolor,    \* whether the terminal can show the themes
  Recommended   \* ScanEngine::recommended_worker_count

ASSUME ThemesAssumption ==
  /\ Len(Themes) > 0
  /\ \A i \in DOMAIN Themes : Themes[i] \in DOMAIN NamedTheme /\ NamedTheme[Themes[i]] = Themes[i]
  /\ {"claude", "basic"} \subseteq DOMAIN NamedTheme /\ NamedTheme["basic"] = "basic"
  /\ \A name \in DOMAIN NamedTheme :      \* a theme knows its own name
       NamedTheme[name] \in DOMAIN NamedTheme /\ NamedTheme[NamedTheme[name]] = NamedTheme[name]

ASSUME RecommendedAssumption == Recommended \in Nat \ {0}

Larger(x, y) == IF x > y THEN x ELSE y
Clamp(x, lo, hi) == IF x < lo THEN lo ELSE IF x > hi THEN hi ELSE x

-----------------------------------------------------------------------------
(* AppConfig *)

DefaultConfig ==
  [theme |-> "claude", size_mode |-> "allocated", size_base |-> "decimal", show_files |-> TRUE,
   row_limit |-> 100, heaviest_files_limit |-> 100, default_mode |-> "permanent",
   worker_threads |-> 0, dense_directory_threshold |-> 20000, materialize_depth |-> 10,
   background_root_scan |-> TRUE, never_delete |-> {}, globs |-> "valid", discovery_max_depth |-> 14,
   docker |-> {"enabled", "containers", "build cache"}]

Numbers == {"row_limit", "heaviest_files_limit", "worker_threads",
            "dense_directory_threshold", "materialize_depth", "discovery_max_depth"}
IsConfig(c) == DOMAIN c = DOMAIN DefaultConfig /\ \A key \in Numbers : c[key] \in Nat

ScanPolicy(c) ==
  [dense |-> Larger(c.dense_directory_threshold, 100),
   depth |-> Clamp(c.materialize_depth, 1, 64),
   listing |-> 10 * Larger(c.row_limit, 100)]

WorkerThreads(c) == IF c.worker_threads > 0 THEN c.worker_threads ELSE Recommended
(* ScanEngine::set_worker_count: how many desired_workers is then. *)
SetWorkerCount(n) == Clamp(n, 1, 256)
SizeMode(c) == IF c.size_mode \in {"apparent", "logical"} THEN "apparent" ELSE "allocated"
SizeBase(c) == IF c.size_base \in {"binary", "iec"} THEN "binary" ELSE "decimal"
DeletionMode(c) == IF c.default_mode = "trash" THEN "trash" ELSE "permanent"

(* What the cleaning service keeps; it has no use for the other keys. *)
CleanerConfig(c) == [docker |-> c.docker, depth |-> c.discovery_max_depth, globs |-> c.globs]

(* resolve_theme: a name that is unknown is replaced; a terminal without   *)
(* the colours gets the basic palette under whatever name.                 *)
ThemeName(c) == IF c.theme \in DOMAIN NamedTheme THEN c.theme ELSE "claude"
PaletteOf(name) == IF Truecolor \/ name = "basic" THEN NamedTheme[name] ELSE "basic"

(* neighbour_name: THEME_NAMES in a circle; an alias counts as the first. *)
NeighbourTheme(name, delta) ==
  LET at == IF \E i \in DOMAIN Themes : Themes[i] = name
            THEN CHOOSE i \in DOMAIN Themes : Themes[i] = name
            ELSE 1
  IN  Themes[((at - 1 + delta) % Len(Themes)) + 1]

(* The value at or above the current one, and from there one step on. *)
StepThrough(steps, current, delta) ==
  LET above == {i \in DOMAIN steps : steps[i] >= current}
      at == IF above = {} THEN Len(steps) ELSE CHOOSE i \in above : \A j \in above : i <= j
  IN  steps[Clamp(at + delta, 1, Len(steps))]

-----------------------------------------------------------------------------
(* The preferences in effect: p.config is App::config, p.cleaner the copy  *)
(* of the cleaning service, p.policy that of the scan engine, p.guard the  *)
(* paths that the guard of deletions refuses, the other fields are those   *)
(* of App, ExplorerState, HeaviestState and ScanEngine.                    *)

(* Those that the interface keeps together.  The engine's limit on listed  *)
(* files stays when the popup changes the number of rows (settings.rs:172) *)
(* and the guard when a file is reloaded (settings.rs:322): a restart may  *)
(* change both.                                                            *)
Preferences(p) ==
  [theme |-> p.theme, palette |-> p.palette, sizeMode |-> p.sizeMode, sizeBase |-> p.sizeBase,
   deletion |-> p.deletion, showFiles |-> p.showFiles, rowLimit |-> p.rowLimit,
   heaviest |-> p.heaviest, threads |-> p.threads, dense |-> p.policy.dense,
   depth |-> p.policy.depth, cleaner |-> p.cleaner]

(* App::new, after the composition root has made the engine and the        *)
(* cleaning service; threads is the option of the command line, or 0.      *)
Started(c, threads, file) ==
  [config |-> c, policy |-> ScanPolicy(c), cleaner |-> CleanerConfig(c), guard |-> c.never_delete,
   theme |-> ThemeName(c), palette |-> PaletteOf(ThemeName(c)),
   sizeMode |-> SizeMode(c), sizeBase |-> SizeBase(c), deletion |-> DeletionMode(c),
   showFiles |-> c.show_files, rowLimit |-> Larger(c.row_limit, 5),
   heaviest |-> Larger(c.heaviest_files_limit, 5),
   threads |-> SetWorkerCount(IF threads > 0 THEN threads ELSE WorkerThreads(c)),
   paused |-> FALSE, dirty |-> FALSE, file |-> file,
   unwritten |-> {}, saves |-> 0]

(* CleaningService::set_config refuses patterns that are no globs, before  *)
(* anything has changed.                                                   *)
Rejected(c) == c.globs = "invalid"

(* What apply_config changes once the service has accepted; the guard is   *)
(* none of it.                                                             *)
Replaced(record, by) == [f \in DOMAIN record |-> IF f \in DOMAIN by THEN by[f] ELSE record[f]]
Applied(p, c) ==
  Replaced(p, [config |-> c, cleaner |-> CleanerConfig(c), policy |-> ScanPolicy(c),
               theme |-> ThemeName(c), palette |-> PaletteOf(ThemeName(c)),
               sizeMode |-> SizeMode(c), sizeBase |-> SizeBase(c), deletion |-> DeletionMode(c),
               showFiles |-> c.show_files, rowLimit |-> Clamp(c.row_limit, 5, 100000),
               heaviest |-> Clamp(c.heaviest_files_limit, 5, 10000),
               threads |-> SetWorkerCount(WorkerThreads(c))])

ApplyCarelessly(p, c) ==                                          \* variant
  IF Rejected(c) THEN [p EXCEPT !.theme = ThemeName(c), !.policy = ScanPolicy(c)] ELSE Applied(p, c)
ApplyConfig(p, c) == IF Rejected(c) THEN p ELSE Applied(p, c)

-----------------------------------------------------------------------------
(* The file.  Saving fails where it cannot be written; loading fails where *)
(* it is no configuration, and yields the defaults where there is none.    *)

CopyTheRest(p) ==                                                 \* variant
  Replaced(p.config, [theme |-> p.theme, show_files |-> p.showFiles, row_limit |-> p.rowLimit,
                      size_mode |-> p.sizeMode, size_base |-> p.sizeBase,
                      heaviest_files_limit |-> p.heaviest, worker_threads |-> p.threads])
SyncConfigFromState(p) ==
  Replaced(p.config, [theme |-> p.theme, show_files |-> p.showFiles, row_limit |-> p.rowLimit,
                      heaviest_files_limit |-> p.heaviest, size_mode |-> p.sizeMode,
                      size_base |-> p.sizeBase, default_mode |-> p.deletion,
                      worker_threads |-> p.threads])

Written(p) == [p EXCEPT !.file = [status |-> "config", config |-> p.config], !.unwritten = {},
                        !.saves = @ + 1]

(* fs::write truncates the file first: a failed write leaves it as it was, *)
(* or in pieces.                                                           *)
Unsaved(p, outcome) == IF outcome = "torn" THEN [p EXCEPT !.file.status = "garbled"] ELSE p

SaveRegardless(p, outcome) ==                                     \* variant
  LET q == [p EXCEPT !.config = SyncConfigFromState(p), !.dirty = FALSE]
  IN  IF outcome = "written" THEN Written(q) ELSE Unsaved(q, outcome)
SaveSettings(p, outcome) ==
  LET q == [p EXCEPT !.config = SyncConfigFromState(p)]
  IN  IF outcome = "written" THEN [Written(q) EXCEPT !.dirty = FALSE] ELSE Unsaved(q, outcome)

IsFile(file) == "status" \in DOMAIN file /\ (file.status = "config" => IsConfig(file.config))
Loadable(file) == file.status # "garbled"
Load(file) == IF file.status = "config" THEN file.config ELSE DefaultConfig

(* reload_config_from_disk, of a file that can be loaded. *)
Reload(p) ==
  LET c == Load(p.file)
  IN  IF Rejected(c) THEN ApplyConfig(p, c)
      ELSE [ApplyConfig(p, c) EXCEPT !.dirty = FALSE, !.unwritten = {}]

(* reset_settings_to_defaults *)
ResetToDefaults(p) ==
  [ApplyConfig(p, DefaultConfig) EXCEPT !.dirty = TRUE, !.unwritten = {"ResetDefaults"}]
=============================================================================
