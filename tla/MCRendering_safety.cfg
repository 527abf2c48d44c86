SPECIFICATION Spec
CONSTANTS
  w1 = w1  w2 = w2  s1 = s1
  high = high  low = low  none = none
  a1 = a1  a2 = a2  b1 = b1  e1 = e1
  Workers = {w1, w2}
  Styles = {s1}
  Ids = {a1, a2, e1}
  Metas = {high, none}
  StyleOf <- McStyleOf
  LowZoom <- McLowZoom
  TilesOf <- McTilesOf
  MetaStyle <- McMetaStyle
  EmptyID <- McEmptyID
  CacheSize = 1
  PathHasSlash = TRUE
  MaxCopies = 9
  Events = {"modified"}
  MaxLoads = 2
  NoImage = NoImage
  NoCache = NoCache
  Free = Free
  Attached = Attached
  NoMeta = NoMeta
SYMMETRY WorkerSymmetry
INVARIANTS
  TypeOK
  EntriesLive
  AnswersShowTile
  MemoryTilesFresh
  CacheBounded
