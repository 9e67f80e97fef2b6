SPECIFICATION MCSpec
CONSTANTS
  Diff <- Diffs
  Context = 2
  MinLines = 4
  None = None
  DocLines = {1, 12}
INVARIANTS SidesLineUp ChangesCoverRows ChangesStayVisible ExpandedAreShown
INVARIANTS DecorationsAgree EditorsShowTheDiff EveryChangeHasAnArrow
