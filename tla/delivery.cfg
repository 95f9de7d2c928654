SPECIFICATION Spec
CONSTANTS
  Keys = {"k1"}
  Signals = {"s1"}
  Destinations = {"dsp"}
  Bodies = {"b1", "b2", "b3", "b4", "b5", "b6", "b7", "b8", "b9"}
  None = None
  Supported = {"s1"}
  Dynamic = {}
  Requests <- DeliverRequests
  Activators = {a1}
  Pollers = {p1, p2}
  Purgers = {g1}
  MaxOps = 1
  MaxFaults = 1
  MaxAttempts = 2
  BackoffBase = 1
  MaxClock = 2
CHECK_DEADLOCK FALSE
SYMMETRY Symmetry
INVARIANTS
  LifecycleConsistent
  AttemptsAccounted
  FiredHasReason
  AckRecorded
  SerialDeliveries
PROPERTY KeepsContract
