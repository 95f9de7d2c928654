SPECIFICATION Spec
CONSTANTS
  Keys = {"k1"}
  Signals = {"s1"}
  Destinations = {"dsp"}
  Bodies = {"b1", "b2", "b3", "b4", "b5", "b6", "b7", "b8", "b9"}
  None = None
  Supported = {"s1"}
  Dynamic = {}
  Requests <- ReuseRequests
  Activators = {a1, a2}
  Pollers = {}
  Purgers = {}
  MaxOps = 2
  MaxFaults = 0
  MaxAttempts = 1
  BackoffBase = 1
  MaxClock = 0
CHECK_DEADLOCK FALSE
INVARIANT OneJobPerKey
