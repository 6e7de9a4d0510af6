SPECIFICATION Spec
CONSTANTS
  top = top  docs = docs  pics = pics  old = old  mount = mount  w1 = w1  w2 = w2
  NoNode = NoNode  NoKey = NoKey  NoQuery = NoQuery  NoListing = NoListing
  Dir <- MCDir
  Top = top
  Subdirs <- MCSubdirs
  Below <- MCBelow
  FilesIn <- MCFilesIn
  Bytes <- MCBytes
  NameRank <- MCNameRank
  Barred = {mount}
  Shallow = {docs}
  MaxDepth = 1
  Capacity = 2
  ListingLimit = 2
  RowLimit = 4
  Lister = {w1, w2}
  Walker = {w1, w2}
  Scenarios <- Everyday
INVARIANTS
  ExplorerTypeOK
  CacheInOrder
  PendingIsUnderWay
  RemovedFilesVanish
  CursorOnItsItem
  QueriesKnowTheirWork
  SearchesFindTheHeaviest
PROPERTIES
  RequestsSettle
  FilesGetListed
CHECK_DEADLOCK FALSE
