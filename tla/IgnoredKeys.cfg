SPECIFICATION Spec
CONSTANTS
  k1 = k1
  v1 = v1
  v2 = v2
  alice = alice
  huge = huge
  Key <- Keys
  Value <- Values
  Absent = Absent
  Broken = Broken
  None = None
  FirstExample = alice
  Huge = huge
  ExampleOf <- MCExampleOf
  Example = {alice, huge}
  Typed <- NoTexts
  Dropped <- NoTexts
  IgnoreLists <- MaybeIgnored
  MaxSeq = 2
  MaxFiles = 0
INVARIANT IgnoredKeysAreQuiet
