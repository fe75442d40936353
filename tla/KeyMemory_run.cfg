\* Three stations compete for two pairwise slots, with either firmware.
SPECIFICATION Spec
CONSTANTS
  Stations <- MCStations
  Keys <- MCKeys
  NrGroup = 1
  NrPairwise = 2
  HwTkip = TRUE
INVARIANTS
  MemorySound
  BooksAgree
  GroupCopies
PROPERTIES
  MatchedIsStill
