SPECIFICATION Spec
CONSTANTS
  Keys = {"k1"}
  Signals = {"s1", "d1", "d2", "n1"}
  Destinations = {"dsp"}
  Bodies = {"b1", "b2", "b3", "b4", "b5", "b6", "b7", "b8", "b9"}
  None = None
  Supported = {"s1", "d1"}
  Dynamic = {"d1", "d2"}
  Requests <- ResolveRequests
  Activators = {a1, a2}
  Pollers = {}
  Purgers = {}
  MaxOps = 2
  MaxFaults = 1
  MaxAttempts = 1
  BackoffBase = 1
  MaxClock = 0
CHECK_DEADLOCK FALSE
SYMMETRY Symmetry
INVARIANTS
  DuplicatesOnlyFromRaces
PROPERTY NoProposalLost
