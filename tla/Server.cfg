SPECIFICATION ServerSpec
CONSTANTS
  h1 = h1
  h2 = h2
  a = a
  b = b
  x = x
  y = y
  Id <- Ids
  Doc <- Docs
  Broken = Broken
  None = None
  Handler <- Handlers
  TTLHours <- OrdinaryHours
  Hour = 1
  Word = 64
  ShareTTL = 1
  MaxShareTTL = 2
  MaxAttempts = 2
  MaxSends = 2
  MaxNow = 1
SYMMETRY Alike
INVARIANT LinksLoad
INVARIANT NothingIsForever
PROPERTY KeepsPromise
PROPERTY SavesRunOut
INVARIANT NoSaveOutlivesItsStore
