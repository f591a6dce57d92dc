SPECIFICATION InstallSpec
CONSTANTS
  built = built
  doc = doc
  odd = odd
  page = page
  Externals = 2
  Depends <- MCDepends
  Comps <- MCComps
  ShipsOf <- MCShips
  SeedsOf <- MCSeeds
  Misnamed = {odd}
  NoModels = {page}
  Templates = 2
  Resources = {built}
  MaxCrashes = 1
  MaxFaults = 1
  MaxEdits = 2
CHECK_DEADLOCK FALSE
INVARIANTS DependenciesFirst
PROPERTIES EditsKept StartProvides StartsInTheEnd
