CONSTANTS
  Workers = {w1, w2}
  Main = main
  Tasks = {a, b}
  Posts = {p, q}
  NoItem = none
  Nobody = nobody
  MainCap = 1
  Delays = {0}
  Never = 1
  MaxRuns = 1
  Builds = {FALSE}
SPECIFICATION FairSpec
PROPERTY ShutdownEnds
