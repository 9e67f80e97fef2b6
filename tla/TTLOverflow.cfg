SPECIFICATION ServerSpec
CONSTANTS
  h1 = h1
  h2 = h2
  a = a
  b = b
  x = x
  y = y
  Id <- Ids
  Doc <- Docs
  Broken = Broken
  None = None
  Handler = {h1}
  TTLHours <- HugeHours
  Hour = 12
  Word = 256
  ShareTTL = 24
  MaxShareTTL = 48
  MaxAttempts = 2
  MaxSends = 2
  MaxNow = 2
PROPERTY TTLIsClamped
