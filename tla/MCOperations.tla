---------------------------- MODULE MCOperations ----------------------------
(* A home directory with a project (work, with the artifact target), a      *)
(* cache and another project (site, with the artifact modules), for TLC.    *)
EXTENDS Operations

CONSTANTS home, work, note, target, lib, bin, cache, page, icon, site, modules, pack, i1, i2, w1, w2

TheEntries == {home, work, note, target, lib, bin, cache, page, icon, site, modules, pack}
TheDirectories == {home, work, target, cache, site, modules}
TheContents == (home :> <<work, cache, site>>) @@ (site :> <<modules>>) @@ (work :> <<note, target>>)
                 @@ (target :> <<lib, bin>>) @@ (cache :> <<page, icon>>) @@ (modules :> <<pack>>)
(* The order of paths: a directory comes before what it holds. *)
ThePaths == <<home, cache, icon, page, site, modules, pack, work, note, target, bin, lib>>
TheOrder == [e \in TheEntries |-> CHOOSE i \in DOMAIN ThePaths : ThePaths[i] = e]
TheWeights == [e \in TheEntries |-> IF e \in TheDirectories THEN 0 ELSE IF e = note THEN 2 ELSE 1]

TheSubplaces == [p \in TheDirectories |-> {e \in TheDirectories : \E i \in DOMAIN TheContents[p] :
                                                                TheContents[p][i] = e}]
TheArtifacts == {target, modules}
TheRoots == <<home, work>>
Listed(category, what, path, default) ==
  [category |-> category, what |-> what, path |-> path, default |-> default]
TheKnown == <<Listed("trash", "path", work, FALSE), Listed("cache", "contents", cache, TRUE),
              Listed("command", "external", NoPath, TRUE)>>
TheFound == Listed("artifact", "path", NoPath, TRUE)
TheImage == Listed("image", "external", NoPath, TRUE)
TheImages == <<i1, i2>>
ThePrunes == <<Listed("volumes", "external", NoPath, FALSE)>>

Clear == [e \in TheEntries |-> "none"]

Scenario(may, times) ==
  [may |-> may, times |-> times, markable |-> {}, mode |-> "permanent", obstacles |-> Clear,
   protected |-> {}, rules |-> {}, vanishing |-> {}, sudoFails |-> FALSE, used |-> {{}}, rescanned |-> {},
   enabled |-> {}, searches |-> 1, scouts |-> {w1}]

Deleting == {"mark", "delete", "confirm", "cancel", "dismiss"}
Delete(times, items) == [Scenario(Deleting, times) EXCEPT !.markable = items]
Clean(may, enabled, times) == [Scenario(may, times) EXCEPT !.enabled = enabled]
Collecting == {"restart", "clean", "confirm", "cancel", "dismiss"}

Several ==
  { \* items inside one another, cancelled at any point
    Delete(6, {work, note, modules}),
    \* the home directory is refused, a dialog closed; the trash
    [Delete(5, {home, modules}) EXCEPT !.may = @ \cup {"close"}],
    [Delete(5, {work, cache})
       EXCEPT !.mode = "trash", !.obstacles[cache] = "denied", !.obstacles[work] = "failed"],
    \* what needs administrator rights, in part or as a whole
    [Delete(7, {work}) EXCEPT !.obstacles[lib] = "denied", !.sudoFails = TRUE],
    [Delete(6, {work, modules}) EXCEPT !.obstacles[target] = "unlistable", !.obstacles[pack] = "failed"],
    \* directories are measured again meanwhile, from above or partly removed
    [Delete(6, {note, target}) EXCEPT !.may = {"mark", "rescan", "delete", "confirm", "dismiss"},
                                      !.rescanned = {work}],
    [Delete(6, {target}) EXCEPT !.may = {"rescan", "delete", "confirm", "cancel", "dismiss"},
                                !.rescanned = {target}],
    \* a file that is gone, marked where it is still shown
    [Delete(6, {page}) EXCEPT !.may = {"delete", "confirm", "dismiss"}],
    \* another process removes something meanwhile
    [Delete(4, {work, modules}) EXCEPT !.vanishing = {work, target, bin}],
    \* targets that lie inside one another; the list collected again
    Clean(Collecting, {"cache", "trash", "command"}, 5),
    Clean({"restart", "select", "clean", "confirm"}, {"trash", "cache"}, 5),
    Clean({"restart", "select", "clean"}, {"trash", "artifact"}, 3),
    \* what is found by two threads, while targets are cleaned, by two searches
    [Clean({"restart"}, {"artifact"}, 1) EXCEPT !.scouts = {w1, w2}],
    Clean({"restart", "clean", "confirm"}, {"artifact"}, 3),
    [Clean({"restart"}, {"artifact"}, 2) EXCEPT !.searches = 2],
    \* contents that need administrator rights, and a restart before the command runs
    [Clean(Collecting, {"cache"}, 6) EXCEPT !.obstacles[page] = "denied", !.sudoFails = TRUE],
    [Clean(Collecting, {"cache", "command"}, 5) EXCEPT !.obstacles[cache] = "unlistable"],
    \* protection
    [Clean({"restart", "select"}, {"cache", "image", "volumes"}, 5)
       EXCEPT !.used = {{i1}}, !.protected = {i2}],
    [Clean({"restart", "select"}, {"cache", "image"}, 3) EXCEPT !.used = {{i1}, {}}],
    [Clean({"restart", "select", "clean"}, {"trash", "cache", "artifact"}, 3) EXCEPT !.protected = {target, cache}],
    [Clean({"restart", "rules", "select"}, {"trash", "cache"}, 4)
       EXCEPT !.protected = {cache}, !.rules = {work}] }

TheScenarios == Several
RacingScenarios ==
  { [Delete(3, {note}) EXCEPT !.may = {"rescan", "delete", "confirm"}, !.rescanned = {work}] }
ProtectedScenarios ==
  { [Clean({"restart", "select", "clean", "confirm"}, {"trash", "cache"}, 4) EXCEPT !.protected = {target}] }
=============================================================================
