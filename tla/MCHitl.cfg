\* Submissions, retries and queued decisions of two servers over a file and
\* an upload that came under running flushes, of any content, with a
\* lost answer or a stopped server.
SPECIFICATION HitlSpec
SYMMETRY Symmetry
CONSTRAINT Bounds
CONSTANTS
  Nil = Nil
  Runs = {r1}
  NativeRuns = {r1}
  Completions = {c1}
  Prompts = {p1}
  Handlers = {"HitlAgentRun"}
  Decisions = {d1, d2}
  Workers = {w1}
  MaxFaults = 0
  Callers = {u1, u2}
  Flushes = {f1, f2}
  Servers = {s1, s2}
  ExportKeys = {k1, k2}
  Uploads = {k2}
  MaxTries = 2
  MaxLosses = 1
INVARIANTS
  HitlIInv
  JournaledInputIsTheDecision
  AnsweredMeansDecided
  QueuedDecisionsStay
  UiDecisionsFollowThePause
  DuplicatesLostToAnother
PROPERTY
  HitlImplementsWorkflow
CHECK_DEADLOCK FALSE
