SPECIFICATION Spec
CONSTANTS
  s1 = s1
  m1 = m1
  m2 = m2
  n1 = n1
  n2 = n2
  Sessions = {s1}
  Sockets = {c1, c2}
  Http = Http
  Tasks = {t1}
  Models = {m1, m2}
  NoModel = NoModel
  Component = m2
  Names = {n1}
  Copies = {n2}
  CopyName <- MCCopyName
  Rights <- MCRights
  ActionVersions <- MCActionVersions
  Missing = Missing
INVARIANTS CompletedMeansDone Tracked
PROPERTIES WriteWasAllowed RequestAnswered RevokedGoesQuiet
