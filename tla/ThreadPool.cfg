CONSTANTS
  Workers = {w1, w2, w3}
  Main = main
  Tasks = {a, b}
  Posts = {p, q}
  NoItem = none
  Nobody = nobody
  MainCap = 1
  Delays = {0, 1}
  Never = 2
  MaxRuns = 2
  Builds = {TRUE, FALSE}
SYMMETRY MCSymmetry
VIEW MCView
SPECIFICATION Spec
INVARIANTS
  TypeOK
  CountersExact
  IdleCountersMeanIdle
  RunsAlone
  WakeupsCoverWork
  TimersWatched
  PosterWaitsOnFull
