SPECIFICATION Spec
CONSTANTS
  home = home  work = work  note = note  target = target  lib = lib  bin = bin  cache = cache  page = page  icon = icon  site = site  modules = modules  pack = pack
  i1 = i1  i2 = i2  w1 = w1  w2 = w2  NoPath = NoPath
  Entry <- TheEntries
  Directory <- TheDirectories
  Inside <- TheContents
  Weight <- TheWeights
  CancelEvery = 2
  Home = home
  NeverDelete = {}
  Place <- TheDirectories
  Subplaces <- TheSubplaces
  Matching <- TheArtifacts
  Evident <- TheArtifacts
  NeverEnter = {}
  Excluded = {cache}
  DiscoveryRoots <- TheRoots
  DiscoveryDepth = 1
  Scout = {w1, w2}
  Known <- TheKnown
  FoundAs <- TheFound
  ImageAs <- TheImage
  Images <- TheImages
  Prunes <- ThePrunes
  RecentCapacity = 1
  Unread = Unread
  PathRank <- TheOrder
  Scenarios <- RacingScenarios
INVARIANTS
  NothingRacesTheUpdate
CHECK_DEADLOCK FALSE
