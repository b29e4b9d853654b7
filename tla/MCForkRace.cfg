\* Two fork requests, a native submission and zombie attempts race for one run id.
SPECIFICATION ForkSpec
CONSTANTS
  Nil = Nil
  Runs = {r1, r2}
  NativeRuns = {r1, r2}
  Targets = {r2}
  ForkPoints = {1, 2}
  Forks = {f1, f2}
  Workers = {w1, w2}
  Completions = {c1, c2}
  Decisions = {d1}
  Prompts = {p1}
  Handlers = {"AgentRun"}
  MaxFaults = 1
SYMMETRY Symmetry
INVARIANTS
  WorkflowIInv
  ForkIInv
  EngineAgreesWithJournal
  OneEffectPerRun
  ForkReportsAreTrue
PROPERTY
  ImplementsDurableRuns
CHECK_DEADLOCK FALSE
