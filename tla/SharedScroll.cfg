SPECIFICATION Spec
CONSTANTS
  None = None
  LastTop <- Uneven
  EditorsUpFront = FALSE
  Patient = TRUE
  MaxScrolls = 3
INVARIANT PanesAreTied
