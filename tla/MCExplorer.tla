----------------------------- MODULE MCExplorer -----------------------------
(* A small directory tree for the explorer and the heaviest screen. *)
EXTENDS Explorer

CONSTANTS top, docs, pics, old, mount, w1, w2

\* top holds docs, pics and a mount point; docs holds old.
MCDir == {top, docs, pics, old, mount}
MCSubdirs ==
  [d \in MCDir |-> CASE d = top -> {docs, pics, mount} [] d = docs -> {old} [] OTHER -> {}]
MCBelow ==
  [d \in MCDir |-> CASE d = top -> MCDir [] d = docs -> {docs, old} [] OTHER -> {d}]
File(name, size) == [name |-> name, size |-> size]
MCFilesIn ==
  [d \in MCDir |-> CASE d = top -> <<File("t", 3)>>
                     [] d = docs -> <<File("p", 2), File("q", 3)>>
                     [] d = pics -> <<File("r", 2), File("z", 0)>>
                     [] d = old -> <<File("s", 4)>>
                     [] OTHER -> <<File("u", 9)>>]
MCBytes == [d \in MCDir |-> 1]
MCNameRank ==
  [x \in MCDir \cup {"t", "p", "q", "r", "z", "s", "u"} |->
     CASE x = top -> 0 [] x = docs -> 1 [] x = pics -> 2 [] x = old -> 3 [] x = mount -> 4
       [] x = "t" -> 5 [] x = "p" -> 6 [] x = "q" -> 7 [] x = "r" -> 8
       [] x = "z" -> 9 [] x = "s" -> 10 [] OTHER -> 11]

Scenario(may, times, screens, measured, limits) ==
  [may |-> may, times |-> times, screens |-> screens, scans |-> measured, limits |-> limits]
Everyday ==
  {Scenario({"enter", "parent"}, 4, {}, MCDir, {}),
   Scenario({"enter", "rescan", "screen"}, 3, {"explorer", "dashboard"}, {top, docs}, {}),
   Scenario({"delete", "parent", "enter"}, 3, {}, {top, docs}, {}),
   Scenario({"delete", "rescan"}, 3, {}, {top}, {}),
   Scenario({"mark", "enter", "delete"}, 4, {}, {top, docs}, {}),
   Scenario({"mark", "rescan", "delete", "enter"}, 4, {}, {top, docs}, {}),
   Scenario({"cursor", "files", "enter"}, 3, {}, {top, docs}, {}),
   Scenario({"heaviest"}, 1, {}, {}, {1, 2}),
   Scenario({"heaviest"}, 2, {}, {}, {1}),
   Scenario({"enter", "heaviest"}, 2, {}, {top}, {2}),
   Scenario({"screen", "mark", "delete"}, 3, {"explorer", "heaviest"}, {}, {2}),
   Scenario({"screen", "jump", "parent"}, 3, {"explorer", "heaviest"}, {}, {2})}
=============================================================================
