SPECIFICATION FairSpec
CONSTANTS
  t1 = t1
  t2 = t2
  r1 = r1
  r2 = r2
  Tasks = {t1}
  Runs = {r1, r2}
  NoTask = NoTask
  NoRun = NoRun
  NoRec = NoRec
  Settings <- NoSettings
  FirstSettings <- OnePeriodic
  Outcomes = {TRUE}
  Budget <- OneCrash
  ShortLease = FALSE
PROPERTIES RunEnds TaskKeepsRunning
INVARIANTS OverlapNeedsAbandonment
