\* Every gate, with attempts that are given up while they run.
SPECIFICATION GatesSpec
CONSTANTS
  Nil = Nil
  Runs = {"root", "forkA", "forkB", "subFork"}
  NativeRuns = {"root"}
  Targets = {"forkA"}
  ForkPoints = {1}
  Forks = {}
  Workers = {w1, w2}
  Completions = {"fake-echo", "fake-upper"}
  Decisions = {"first", "second"}
  Prompts = {"root", "forkA", "forkB", "subFork"}
  Handlers = {"AgentRun", "HitlAgentRun"}
  MaxFaults = 2
  GatesRun <- AllGates
INVARIANT
  GatesPass
PROPERTY
  GatesEnd
CHECK_DEADLOCK FALSE
