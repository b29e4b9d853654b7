\* A feed or a bundle read while runs execute, pause and are forked; and,
\* with nobody reading, runs and fork requests under faults and zombies.
SPECIFICATION ReadersSpec
CONSTRAINT ReaderOrFault
CONSTANTS
  Nil = Nil
  Runs = {r1, r2}
  NativeRuns = {r1}
  Targets = {r2}
  ForkPoints = {1, 4}
  Forks = {f1}
  Workers = {w1, w2}
  w1 = w1
  Completions = {c1}
  Decisions = {d1}
  Prompts = {p1}
  Handlers = {"AgentRun", "HitlAgentRun"}
  MaxFaults = 1
  Sessions = {s1}
INVARIANTS
  ReadersIInv
  FeedTellsTheRun
  BundlesHoldTogether
PROPERTIES
  FeedsCatchUp
  ForksAnswered
  RunsComplete
CHECK_DEADLOCK FALSE
