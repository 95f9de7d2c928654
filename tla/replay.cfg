SPECIFICATION Spec
CONSTANTS
  Slots = {s1, s2}
  Keyids = {k1}
  Nonces = {n1, n2}
  Cap = 1
  Ttl = 1
  MaxClock = 2
  None = None
INVARIANTS
  TypeOK
  CapKept
  VerdictsJustified
PROPERTY KeepsPromise
SYMMETRY Symmetry
