-------------------------------- MODULE MCApp -------------------------------
(* The interface thread for TLC: a shorter Settings popup and what a user  *)
(* may do in it, on the command line and on the screens.                   *)
EXTENDS App, TLC

TheThemes == <<"claude", "nord", "basic">>
TheNames == [name \in {"claude", "nord", "basic"} |-> name] @@ ("default" :> "claude")
TheRows ==
  <<Section, "Theme", "SizeMode", "RowLimit", Section, "WorkerThreads", "DenseThreshold",
    "MaterializeDepth", "BackgroundPaused", Section, "DeletionMode", "DockerPruneVolumes",
    "DiscoveryMaxDepth", Section, "SaveConfig", "EditConfig", "ReloadConfig", "ResetDefaults">>
TheRowLimits == <<10, 25, 50, 100, 200, 500, 1000, 5000, 100000>>
TheHeaviest == <<25, 50, 100, 250, 500, 1000, 10000>>
TheDense == <<1000, 2000, 5000, 10000, 20000, 50000, 100000, 500000, 1000000>>

Plain(names) == [name \in names |-> [name |-> name]]
Valued(text, name, value) == text :> [name |-> name, value |-> value]
TheCommands ==
  Plain({"quit", "settings", "config save", "config edit", "config reload", "config", "mounts",
         "pause", "cleaner"})
  @@ Valued("goto /", "goto", "directory") @@ Valued("goto /none", "goto", "nothing")
  @@ ("q" :> [name |-> "quit"])
  @@ Valued("theme nord", "theme", "nord") @@ Valued("limit 30", "limit", 30)
  @@ Valued("threads 3", "threads", 3) @@ Valued("dense 99", "dense", 99)
  @@ Valued("dense 700", "dense", 700) @@ Valued("depth 64", "depth", 64)
  @@ Valued("mode apparent", "mode", "apparent") @@ Valued("base binary", "base", "binary")
  @@ Valued("trash on", "trash", "trash") @@ Valued("top 7", "top", 7)
  @@ Valued("top", "top", NoLimit) @@ Valued("top 0", "top", 0)

Absent == [status |-> "absent"]
File(c) == [status |-> "config", config |-> c]
Odd == [DefaultConfig EXCEPT !.theme = "default", !.row_limit = 200000, !.materialize_depth = 0,
                             !.dense_directory_threshold = 50, !.worker_threads = 300]
Bad == [DefaultConfig EXCEPT !.theme = "nord", !.materialize_depth = 3, !.globs = "invalid"]
Strange == [DefaultConfig EXCEPT !.theme = "?", !.discovery_max_depth = 3, !.size_base = "iec",
                                 !.never_delete = {"vault"}]

Scenario(screen, ks, words, times) ==
  [screen |-> screen, keys |-> ks, words |-> words, times |-> times, file |-> Absent,
   longest |-> 1, threads |-> 0, saving |-> {"written", "denied", "torn"}, edits |-> {}]

Files == {File(Bad), File(Strange), [status |-> "garbled"]}
Start(s, file) == [s EXCEPT !.file = file]

TheScenarios ==
  { \* the popup: changes, saves, leaving
    Scenario("explorer", {":", "Enter", "Down", "Right", "s", "Esc", "q", "y", "n"}, {"settings"}, 11),
    Start(Scenario("explorer", {":", "Enter", "End", "Up", "Left", "R", "Esc", "q", "y", "Ctrl-C"},
                   {"settings"}, 11), File(Odd)),
    \* the file: edited, reloaded, refused
    [Scenario("dashboard", {":", "Enter", "Right", "e", "Esc", "q", "n"},
              {"settings", "config reload", "config edit"}, 10) EXCEPT !.edits = Files],
    [Start(Scenario("dashboard", {":", "Enter", "q"}, {"config reload", "theme nord", "config edit"}, 10),
           File(Odd)) EXCEPT !.edits = Files, !.threads = 7],
    \* commands and keys that change preferences without the popup
    Scenario("explorer", {":", "Enter", "f", "+", "a"}, DOMAIN TheCommands \ {"q"}, 9),
    Start(Scenario("heaviest", {":", "Enter", "+", "-", "Tab", "BackTab", "p"}, {"config save", "top 7", "top 0", "top"}, 9),
          File(Odd)),
    \* the command line itself
    [Scenario("explorer", {":", "/", "?", "Enter", "Esc", "Backspace", "Left", "Right", "Up", "Down", "x", "q"},
             {}, 7) EXCEPT !.longest = 3],
    [Scenario("explorer", {":", "Enter", "Up", "Down", "Home", "End", "Backspace", "x", "Left"}, {}, 9)
       EXCEPT !.longest = 2],
    \* dialogs and operations
    Scenario("explorer", {"d", "y", "e", "s", "Enter", "Esc", "Backspace", "n"}, {}, 7),
    Scenario("explorer", {":", "Enter", "d", "y", "n", "Esc"}, {"trash on"}, 8),
    Scenario("cleaner", {"i", "d", "y", "e", "s", "Enter", "Esc", "c", "-", "PageUp", "PageDown", "Tab"}, {}, 6),
    Scenario("explorer", {":", "Enter", "PageUp", "PageDown", "Home", "End", "Down"}, {"settings"}, 6) }
=============================================================================
