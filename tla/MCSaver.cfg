CONSTANTS
  EncTick = 3
  FrameIncrement = 3
  BFrames = {0, 2}
  Starts = {0, 2}
  Gaps = {2, 4}
  MaxPictures = 5
  MuxTick = 3
  Roundups = {0, 2}
  VideoIncrement = 3
  VideoDuration = 12
  Films <- MCFilms
  MaxFaults = 1
  Steps <- MCSteps
  Leads <- MCLeads
  CopyDelays = {3}
  MaxCopied = 3
SPECIFICATION FairSpec
INVARIANTS
  EveryPictureFound
  CutShortWhenCrowded
  SoundInStep
  SoundKeepsUp
  NothingMissing
  RefusedWhenCrowded
PROPERTIES
  DecodeTimesForward
  SaveEnds
