SPECIFICATION Spec
CONSTANTS
  None = None
  LastTop <- Uneven
  EditorsUpFront = TRUE
  Patient = TRUE
  MaxScrolls = 6
INVARIANTS DriverIsReleased FollowerFollows PanesAreTied
PROPERTY PanesComeToRest
