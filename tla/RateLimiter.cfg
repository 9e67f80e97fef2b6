SPECIFICATION Spec
CONSTANTS
  IP = {i1}
  Req = {r1, r2}
  None = None
  Rate = 1
  Burst = 2
  Idle = 2
  SweepEvery = 2
  MaxStall = 1
  MaxClock = 6
  MaxLimiters = 3
INVARIANT HeldIsCurrent
INVARIANT WithinBudget
INVARIANT EntriesAreRecent
PROPERTY NeverForgets
