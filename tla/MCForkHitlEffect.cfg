\* A HitlAgentRun is forked before its effect: does the fork act?
SPECIFICATION ForkSpec
CONSTANTS
  Nil = Nil
  Runs = {r1, r2}
  NativeRuns = {r1}
  Targets = {r2}
  ForkPoints = {1, 2, 3, 4, 5}
  Forks = {f1}
  Workers = {w1, w2}
  Completions = {c1, c2}
  Decisions = {d1, d2}
  Prompts = {p1}
  Handlers = {"AgentRun", "HitlAgentRun"}
  MaxFaults = 1
SYMMETRY Symmetry
INVARIANT
  ForksPastNoEffectFireTheirOwn
CHECK_DEADLOCK FALSE
