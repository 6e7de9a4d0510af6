----------------------------- MODULE MCScanTree -----------------------------
(* Small disks for the measurement of directory trees. *)
EXTENDS ScanTree

CONSTANTS top, a, b, c, d, m, w1, w2

\* top has three branches: b, a with c below it and d below c, and the
\* mount point m.
AllDirs == {top, a, b, c, d, m}
AllSubdirs ==
  [x \in AllDirs |-> CASE x = top -> {a, b, m} [] x = a -> {c} [] x = c -> {d}
                       [] OTHER -> {}]
AllBelow ==
  [x \in AllDirs |-> CASE x = top -> AllDirs [] x = a -> {a, c, d}
                       [] x = c -> {c, d} [] OTHER -> {x}]
AllRanks ==
  [x \in AllDirs |-> CASE x = top -> 0 [] x = a -> 1 [] x = c -> 2 [] x = d -> 3
                       [] x = b -> 4 [] OTHER -> 5]
AllBytes ==
  [x \in AllDirs |-> CASE x = top -> 1 [] x = a -> 2 [] x = b -> 4 [] x = c -> 8
                       [] x = d -> 16 [] OTHER -> 32]
NoLinks == [x \in AllDirs |-> {}]
SharedLink == [x \in AllDirs |-> IF x \in {a, b} THEN {1} ELSE {}]

Scenario(may, times, disk) == [may |-> may, times |-> times, disk |-> disk]
Everyday ==
  {Scenario({"rescan"}, 1, {top, a, b}),
   Scenario({"rescan"}, 1, {top, a, c, d}),
   Scenario({"rescan"}, 2, {top, a, c}),
   Scenario({"expand", "enter"}, 3, {top, a, b, c, d}),
   Scenario({"mark", "enter"}, 3, {top, a, b, c}),
   Scenario({"mark"}, 3, {top, a, b}),
   Scenario({"open", "measure"}, 2, {top, a, c}),
   Scenario({"open", "measure"}, 2, {top, a, b}),
   Scenario({"open", "measure"}, 1, {top, a, b, c}),
   Scenario({"enter", "open"}, 2, {top, a, m})}
JoinAndRescan == {Scenario({"open", "rescan"}, 2, {top, a, c})}
MarkAndRescan == {Scenario({"mark", "rescan"}, 3, {top, a, b})}
OpenDeep == {Scenario({"open"}, 1, {top, a, c, d})}
RescanOnly == {Scenario({"rescan"}, 1, {top, a, b})}

Workers == Permutations({w1, w2})
=============================================================================
