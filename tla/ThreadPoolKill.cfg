CONSTANTS
  Workers = {w1, w2}
  Main = main
  Tasks = {a}
  Posts = {}
  NoItem = none
  Nobody = nobody
  MainCap = 1
  Delays = {0}
  Never = 1
  MaxRuns = 2
  Builds = {FALSE}
SPECIFICATION Spec
INVARIANT ContinuationQueued
