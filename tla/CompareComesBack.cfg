SPECIFICATION Spec
CONSTANTS
  k1 = k1
  v1 = v1
  v2 = v2
  alice = alice
  huge = huge
  Key <- Keys
  Value <- Values
  Absent = Absent
  Broken = Broken
  None = None
  FirstExample = alice
  Huge = huge
  ExampleOf <- MCExampleOf
  Example = {alice}
  Typed <- NoTexts
  Dropped <- NoTexts
  IgnoreLists <- NothingIgnored
  MaxSeq = 3
  MaxFiles = 0
PROPERTY CompareComesBack
