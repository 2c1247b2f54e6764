SPECIFICATION HFairSpec
CONSTANTS
  Names = {n1, n2}
  Callers = {c1, c2, c3}
  Cells = {s1, s2, s3, s4}
  NoCell = NoCell
  NoRequest = NoRequest
  NoToken = NoToken
INVARIANTS MutualExclusion OccupancyExact RegistryExact NoLostWakeup
PROPERTIES ImplementsFifoLock EveryRequestSettles
