SPECIFICATION FairSpec
CONSTANTS
  m1 = m1
  m2 = m2
  w1 = w1
  w2 = w2
  Messages = {m1, m2}
  Workers = {w1, w2}
  NoMsg = NoMsg
  Visible <- Shared
  Broken = {m2}
  Budget <- OneOfEach
INVARIANTS SentMeansDelivered ResendNeedsCause
PROPERTIES EveryMessageSettles
