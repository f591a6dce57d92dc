SPECIFICATION Spec
CONSTANTS
  adm = adm
  ed = ed
  op = op
  staff = staff
  sec = sec
  gdpr = gdpr
  v0 = v0
  v1 = v1
  Users = {adm, ed, op}
  NoUser = NoUser
  Admins = {adm}
  Names = {n1}
  NoName = NoName
  Fields = {sec, gdpr}
  Values = {v0, v1}
  Default = v0
  Mask = Mask
  Missing = Missing
  Absent = Absent
  Requests = {r1, r2}
  Grants <- MCGrants
  RecordRules <- MCRules
  StoredPolicies <- MCStoredPolicies
  GroupsOf <- MCGroupsOf
  FieldRules <- MCFieldRules
  Reveals <- MCReveals
  NewData <- MCNewData
  HookData <- MCHookData
  PartialForms = FALSE
SYMMETRY RequestSymmetry
INVARIANTS TypeOK ForeignOwnerNeedsAdmin MaskNeverStored
PROPERTIES DeniedFieldKept
