\* Forks of forks; runs of either kind are forked at each of their steps.
SPECIFICATION ForkSpec
CONSTANTS
  Nil = Nil
  Runs = {r1, r2, r3}
  NativeRuns = {r1}
  Targets = {r2, r3}
  ForkPoints = {1, 2, 3, 4, 5}
  Forks = {f1, f2}
  Workers = {w1}
  Completions = {c1}
  Decisions = {d1}
  Prompts = {p1}
  Handlers = {"AgentRun", "HitlAgentRun"}
  MaxFaults = 0
SYMMETRY Symmetry
INVARIANTS
  ForksCopyTheirPrefix
  SeededStepsNeverFire
  ExportsReplayTheSame
  LineagesExplainDiffs
PROPERTY
  HistoryStands
CHECK_DEADLOCK FALSE
