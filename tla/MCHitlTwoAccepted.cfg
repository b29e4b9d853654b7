\* Does an accepted decision stand?
SPECIFICATION HitlSpec
CONSTANTS
  Nil = Nil
  Runs = {r1}
  NativeRuns = {r1}
  Completions = {c1}
  Prompts = {p1}
  Handlers = {"HitlAgentRun"}
  Decisions = {d1, d2}
  Workers = {w1}
  MaxFaults = 0
  Callers = {u1, u2}
  Flushes = {f1}
  Servers = {s1}
  ExportKeys = {}
  Uploads = {}
  MaxTries = 1
  MaxLosses = 0
SYMMETRY Symmetry
INVARIANT
  AcceptedDecisionsStand
CHECK_DEADLOCK FALSE
