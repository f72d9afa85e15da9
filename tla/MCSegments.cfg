CONSTANTS
  Videos <- MCVideos
  NoTime = 1000
  MaxSegments = 4
  MaxEdits = 4
SPECIFICATION Spec
INVARIANTS
  WellFormed
  EveryPictureFound
  ReloadsTheSame
PROPERTIES
  EditedAsAsked
  CopiedAsAsked
CHECK_DEADLOCK FALSE
