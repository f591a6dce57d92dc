SPECIFICATION Spec
CONSTANTS
  s1 = s1
  s2 = s2
  a = a
  b = b
  Saves <- MCSaves
  Keys <- MCKeys
  Offers <- MCOffers
  UniqueNames <- MCUnique
  Identities = {FALSE}
  Shipments <- MCShipments
  MaxCrashes = 0
  MaxFaults = 0
CHECK_DEADLOCK FALSE
PROPERTIES UncarriedStays
