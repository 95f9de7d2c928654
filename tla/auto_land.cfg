SPECIFICATION FairSeedSpec
CONSTANTS
  Isolates = {i1}
  Runs = {r1}
  Release <- McRelease
  Feed <- McPublisher
  Dynamic = {"d"}
  Ruled = {}
  MaxWipes = 0
  MaxFailures = 0
  Nowhere = Nowhere
CHECK_DEADLOCK FALSE
PROPERTIES
  AutoLand
