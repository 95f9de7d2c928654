SPECIFICATION FairSeedSpec
CONSTANTS
  Isolates = {i1}
  Runs = {r1, r2}
  Release <- McRelease
  Feed <- McFeed
  Dynamic = {"d"}
  Ruled = {"b"}
  MaxWipes = 1
  MaxFailures = 1
  Nowhere = Nowhere
CHECK_DEADLOCK FALSE
INVARIANTS
  SeedTypeOK
  FlagEarned
  RulesWhole
PROPERTIES
  CatalogFills
