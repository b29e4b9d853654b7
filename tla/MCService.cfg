\* Two model calls on two sessions, which the engine may give up on, while the
\* process is told to stop.
SPECIFICATION ServiceSpec
CONSTANTS
  Nil = Nil
  c1 = c1
  c2 = c2
  s1 = s1
  s2 = s2
  Calls = {c1, c2}
  Sessions = {s1, s2}
  SessionOf <- SessionOfValue
  MaxAttempts = 2
INVARIANTS
  ServiceIInv
  FailuresAreEarned
  DrainingLosesNoAwaitedCall
PROPERTIES
  CallsEnd
  ShutdownsEnd
CHECK_DEADLOCK FALSE
