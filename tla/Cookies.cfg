SPECIFICATION Spec
CONSTANTS
  p1 = p1
  p2 = p2
  s1 = s1
  s2 = s2
  none = none
  NoSid = none
  NoReq = none
  Reqs <- MCReqs
  Sids <- MCSids
  Realms <- MCRealms
  MaxSends = 4
SYMMETRY Symmetries
CHECK_DEADLOCK FALSE
INVARIANTS TypeOK SessionKept LogoutEndsTheSession PageCanWrite
PROPERTIES NoRollback
CONSTRAINT FewCauses
