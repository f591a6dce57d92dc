SPECIFICATION Spec
CONSTANTS
  s1 = s1
  s2 = s2
  a = a
  b = b
  Saves <- MCSaves
  Keys <- MCKeys
  Offers <- MCOffers
  UniqueNames <- MCUnique
  Identities <- MCIdentities
  Shipments <- MCShipments
  MaxCrashes = 1
  MaxFaults = 1
CHECK_DEADLOCK FALSE
PROPERTIES RulesFollow StartRepairs
