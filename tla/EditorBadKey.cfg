CONSTANTS
  NbImage = 3
  NoTime = 1000
  Films <- MCBadKey
  Trust = {TRUE}
  Increment = 2
  Delay = 1
  Leading = TRUE
  Loops = 5
  Tries = 8
SPECIFICATION Spec
INVARIANT NeverDies
