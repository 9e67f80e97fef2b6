SPECIFICATION SpecContainer
CONSTANTS
  a = a
  b = b
  c = c
  d = d
  x = x
  y = y
  z = z
  Key = {a, b, c, d}
  Value = {1, 2}
  Emptied = 1
  Inherited = {}
  MaxKeys = 3
  Element = {x, y, z}
  MaxLen = 3
  None = None
  Containers = {"array"}
INVARIANT MovesKeepElements
