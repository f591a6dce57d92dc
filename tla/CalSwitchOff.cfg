SPECIFICATION FairSpec
CONSTANTS
  t1 = t1
  t2 = t2
  r1 = r1
  r2 = r2
  Tasks = {t1}
  Runs = {r1}
  NoTask = NoTask
  NoRun = NoRun
  NoRec = NoRec
  Settings <- SwitchOff
  FirstSettings <- StartAny
  Outcomes = {TRUE}
  Budget <- OneOfEach
  ShortLease = FALSE
PROPERTIES BadScheduleDeactivated PauseObeyed
INVARIANTS TypeOK
