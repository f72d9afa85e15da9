CONSTANTS
  Videos <- MCVideos
  NoTime = 1000
  MaxSegments = 4
  MaxEdits = 3
SPECIFICATION Spec
PROPERTY DropsOnlyAtFirstFrame
CHECK_DEADLOCK FALSE
