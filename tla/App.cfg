SPECIFICATION AppSpec
CONSTANTS
  k1 = k1
  v1 = v1
  v2 = v2
  alice = alice
  huge = huge
  short = short
  long = long
  expired = expired
  None = None
  Absent = Absent
  Broken = Broken
  Key <- Keys
  Value <- Values
  Example = {alice, huge}
  ExampleOf <- Examples
  FirstExample = alice
  Huge = huge
  Typed <- JustBroken
  Dropped <- NoTexts
  IgnoreLists <- NothingIgnored
  MaxSeq = 3
  MaxFiles = 0
  Id = {short, long, expired}
  Stored = {short, long}
  Changes <- TwoShares
  MaxFetches = 3
  Counts <- SomeCounts
  MaxGuids = 3
  MaxMarks = 2
INVARIANTS ShowsItsShare SelectionIsOfRecord
PROPERTIES CompareSettles CopyAndShareEnd LoadingEnds MarksGo
CHECK_DEADLOCK FALSE
