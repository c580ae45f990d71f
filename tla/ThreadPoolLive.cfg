CONSTANTS
  Workers = {w1, w2}
  Main = main
  Tasks = {a}
  Posts = {p, q}
  NoItem = none
  Nobody = nobody
  MainCap = 1
  Delays = {0, 1}
  Never = 2
  MaxRuns = 2
  Builds = {TRUE, FALSE}
SPECIFICATION FairSpec
PROPERTIES
  QueuedRuns
  TimersRun
  
