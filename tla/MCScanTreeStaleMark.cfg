SPECIFICATION Spec
CONSTANTS
  top = top  a = a  b = b  c = c  d = d  m = m  w1 = w1  w2 = w2
  NoNode = NoNode
  Dir <- AllDirs
  Below <- AllBelow
  Top = top
  Subdirs <- AllSubdirs
  PathRank <- AllRanks
  FileBytes <- AllBytes
  Links <- NoLinks
  Unreadable = {d}
  Skipped = {m}
  DenseDirs = {c}
  MaterializeDepth = 1
  MaxDepth = 3
  Worker = {w1, w2}
  Scenarios <- MarkAndRescan
  MaxMarks = 2
SYMMETRY Workers
PROPERTY
  RemovedItemsDisappear
CHECK_DEADLOCK FALSE
