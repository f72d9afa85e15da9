CONSTANTS
  NbImage = 4
  NoTime = 1000
  Films <- MCFilms
  Trust = {TRUE, FALSE}
  Increment = 2
  Delay = 1
  Leading = TRUE
  Loops = 5
  Tries = 8
SPECIFICATION Spec
INVARIANTS
  OnFilm
  NeverDies
  SeekFinds
PROPERTIES
  NextIsNext
  PreviousIsPrevious
