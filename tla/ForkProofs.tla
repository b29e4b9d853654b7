------------------------------ MODULE ForkProofs ------------------------------
(***************************************************************************)
(* Machine-checked proofs about Fork: whatever races for a run id, forks   *)
(* are verbatim prefixes, their copied steps fire nothing, requests report *)
(* what happened, and the whole implements DurableRuns.  And about Replay, *)
(* of what readers of the live journal see meanwhile: histories stand,     *)
(* lineages end at a root and explain the diffs, exports replay like the   *)
(* journal.                                                                *)
(***************************************************************************)
EXTENDS Fork, Replay, WorkflowProofs, FiniteSetTheorems, WellFoundedInduction

-----------------------------------------------------------------------------
(* Types.                                                                  *)

LEMMA PlanTyped ==
  ASSUME ForkTypeOK, NEW f \in Forks,
         fork[f].phase \in {"validated", "read", "seeded", "invoked", "ok"}
  PROVE  /\ fork[f] \in [phase : {"validated", "read", "seeded", "invoked", "ok"},
                         plan : ForkPlan, rows : SUBSET StepRow]
         /\ Plan(f) \in ForkPlan
         /\ Plan(f).source \in Runs /\ Plan(f).newRun \in Runs
         /\ Plan(f).throughSeq \in Seqs /\ Plan(f).prompt \in Prompts
         /\ fork[f].rows \subseteq StepRow
<1>1. fork[f] \in ForkState
  BY DEF ForkTypeOK
<1>2. fork[f] \in [phase : {"validated", "read", "seeded", "invoked", "ok"},
                   plan : ForkPlan, rows : SUBSET StepRow]
  BY <1>1 DEF ForkState, NoFork, Rejected, Failed
<1>3. Plan(f) \in ForkPlan /\ fork[f].rows \subseteq StepRow
  BY <1>2 DEF Plan
<1>4. QED
  BY <1>2, <1>3, ForkAssumption DEF ForkPlan

(* What Advance and Fail do to the requests.                               *)
LEMMA Advanced ==
  ASSUME ForkTypeOK, NEW f \in Forks,
         fork[f].phase \in {"validated", "read", "seeded", "invoked", "ok"},
         NEW phase \in {"seeded", "invoked", "ok"}, Advance(f, phase)
  PROVE  /\ fork' \in [Forks -> ForkState]
         /\ fork'[f].phase = phase /\ Plan(f)' = Plan(f)
         /\ \A g \in Forks : g # f => fork'[g] = fork[g]
<1>1. fork[f] \in [phase : {"validated", "read", "seeded", "invoked", "ok"},
                   plan : ForkPlan, rows : SUBSET StepRow]
  BY PlanTyped
<1>2. fork'[f] = [fork[f] EXCEPT !.phase = phase, !.rows = {}]
  BY DEF Advance, ForkTypeOK
<1>3. fork'[f] \in ForkState /\ fork'[f].phase = phase /\ fork'[f].plan = fork[f].plan
  BY <1>1, <1>2 DEF ForkState
<1>4. \A g \in Forks : g # f => fork'[g] = fork[g]
  BY DEF Advance, ForkTypeOK
<1>5. fork' \in [Forks -> ForkState]
  BY <1>3 DEF Advance, ForkTypeOK
<1>6. QED
  BY <1>3, <1>4, <1>5 DEF Plan

LEMMA Failing ==
  ASSUME ForkTypeOK, NEW f \in Forks, Fail(f)
  PROVE  /\ fork' \in [Forks -> ForkState]
         /\ fork'[f] = Failed
         /\ \A g \in Forks : g # f => fork'[g] = fork[g]
BY DEF Fail, ForkTypeOK, ForkState

-----------------------------------------------------------------------------
(* Prefixes.                                                               *)

(* A run that has a step has its first one.                                *)
LEMMA FirstStep ==
  ASSUME WorkflowIInv, NEW e \in stepJournal
  PROVE  HasEntry(e.run, 1)
<1>1. e.seq \in Nat /\ e.seq >= 1
  <2>1. e.seq \in Seqs
    BY DEF WorkflowIInv, WorkflowTypeOK, JournalTypeOK, StepRow
  <2>2. QED
    BY <2>1 DEF Seqs, MaxSeq
<1>2. CASE e.seq = 1
  BY <1>2 DEF HasEntry
<1>3. CASE e.seq # 1
  <2>1. 1 \in 1 .. e.seq - 1
    BY <1>1, <1>3
  <2>2. QED
    BY <2>1 DEF WorkflowIInv, GapFreeTrajectories
<1>4. QED
  BY <1>2, <1>3

(* Up to a journaled step there is a row for each step.                    *)
LEMMA PrefixFull ==
  ASSUME WorkflowIInv, NEW r, NEW n \in Seqs, HasEntry(r, n), NEW s \in 1 .. n
  PROVE  HasEntry(r, s)
<1>1. CASE s = n
  BY <1>1
<1>2. CASE s # n
  <2>1. s \in 1 .. n - 1
    BY <1>2 DEF Seqs, MaxSeq
  <2>2. QED
    BY <2>1 DEF HasEntry, WorkflowIInv, GapFreeTrajectories
<1>3. QED
  BY <1>1, <1>2

(* ... and so nothing is added there.                                      *)
LEMMA PrefixStands ==
  ASSUME WorkflowIInv, WorkflowIInv', stepJournal \subseteq stepJournal',
         NEW r, NEW n \in Seqs, HasEntry(r, n)
  PROVE  HasEntry(r, n)' /\ RowsThrough(r, n)' = RowsThrough(r, n)
<1>1. HasEntry(r, n)'
  BY DEF HasEntry
<1>2. ASSUME NEW e \in stepJournal', e.run = r, e.seq <= n
      PROVE  e \in stepJournal
  <2>1. e.seq \in Seqs
    BY DEF WorkflowIInv, WorkflowTypeOK, JournalTypeOK, StepRow
  <2>2. e.seq \in 1 .. n
    BY <1>2, <2>1 DEF Seqs, MaxSeq
  <2>3. PICK d \in stepJournal : d.run = r /\ d.seq = e.seq
    BY <2>2, PrefixFull DEF HasEntry
  <2>4. d = e
    BY <1>2, <2>3 DEF WorkflowIInv, OneRowPerStep
  <2>5. QED
    BY <2>4
<1>3. QED
  BY <1>1, <1>2 DEF RowsThrough, trajectory

LEMMA MetaIsRow ==
  ASSUME NEW s \in Runs, NEW n \in Seqs, NEW p \in Prompts
  PROVE  ForkMeta(s, n, p) \in MetaRow /\ ForkMeta(s, n, p) # Nil
<1>1. ForkMeta(s, n, p) \in MetaRow
  BY DEF ForkMeta, MetaRow
<1>2. QED
  BY <1>1, NilIsNoRow

LEMMA PlanFrame ==
  ASSUME WorkflowIInv, WorkflowIInv', ForkTypeOK,
         stepJournal \subseteq stepJournal',
         NEW f \in Forks, PlanHolds(f), fork'[f] = fork[f]
  PROVE  PlanHolds(f)'
<1>1. CASE fork[f].phase \notin {"validated", "read"}
  BY <1>1 DEF PlanHolds
<1>2. CASE fork[f].phase \in {"validated", "read"}
  <2>1. Plan(f).throughSeq \in Seqs
    BY <1>2, PlanTyped
  <2>2. HasEntry(Plan(f).source, Plan(f).throughSeq)
    BY <1>2 DEF PlanHolds
  <2>3. Plan(f)' = Plan(f)
    BY DEF Plan
  <2> DEFINE r == Plan(f).source
             n == Plan(f).throughSeq
  <2>4. HasEntry(r, n)' /\ RowsThrough(r, n)' = RowsThrough(r, n)
    BY <2>1, <2>2, <2>3, PrefixStands
  <2>5. QED
    BY <1>2, <2>3, <2>4 DEF PlanHolds
<1>3. QED
  BY <1>1, <1>2

(* What the database and the engine hold for good.                         *)
Lasts ==
  \A r \in Runs :
    /\ (Parent(r) # Nil /\ runMeta[r].forkedAt \in Seqs) => runMeta'[r] = runMeta[r]
    /\ invocation[r] # Nil => invocation'[r] = invocation[r]
    /\ result[r] # Nil => result'[r] # Nil

LEMMA RequestFrame ==
  ASSUME ForkTypeOK, Lasts, NEW f \in Forks, RequestStands(f), fork'[f] = fork[f]
  PROVE  RequestStands(f)'
<1>1. HasSeeded(f)' = HasSeeded(f) /\ HasInvoked(f)' = HasInvoked(f)
      /\ Plan(f)' = Plan(f) /\ fork'[f].phase = fork[f].phase
  BY DEF HasSeeded, HasInvoked, Plan
<1> DEFINE r == Plan(f).newRun
<1>2. ASSUME HasSeeded(f)
      PROVE  runMeta'[r] = ForkMeta(Plan(f).source, Plan(f).throughSeq, Plan(f).prompt)
  <2>1. /\ Plan(f).source \in Runs /\ Plan(f).newRun \in Runs
        /\ Plan(f).throughSeq \in Seqs /\ Plan(f).prompt \in Prompts
    BY <1>2, PlanTyped DEF HasSeeded
  <2>2. runMeta[r] = ForkMeta(Plan(f).source, Plan(f).throughSeq, Plan(f).prompt)
    BY <1>2 DEF RequestStands
  <2>3. runMeta[r].parent = Plan(f).source /\ runMeta[r].forkedAt \in Seqs
    BY <2>1, <2>2 DEF ForkMeta
  <2>4. Parent(r) # Nil
    BY <2>1, <2>2, <2>3, NilAssumption, MetaIsRow DEF Parent
  <2>5. QED
    BY <2>1, <2>2, <2>3, <2>4 DEF Lasts
<1>3. ASSUME HasInvoked(f)
      PROVE  invocation'[r] = [wf |-> "AgentRun", prompt |-> Plan(f).prompt]
  <2>1. Plan(f).prompt \in Prompts /\ r \in Runs
    BY <1>3, PlanTyped DEF HasInvoked
  <2>2. invocation[r] = [wf |-> "AgentRun", prompt |-> Plan(f).prompt]
    BY <1>3 DEF RequestStands
  <2>3. invocation[r] # Nil
    BY <2>1, <2>2, NilIsNoInvocation DEF Invocations
  <2>4. QED
    BY <2>1, <2>2, <2>3 DEF Lasts
<1>4. ASSUME fork[f].phase = "ok", Plan(f).mode = "fork"
      PROVE  result'[r] # Nil
  BY <1>4, PlanTyped DEF RequestStands, Lasts
<1>5. QED
  BY <1>1, <1>2, <1>3, <1>4 DEF RequestStands

-----------------------------------------------------------------------------
(* The steps of the workflows.                                             *)

RowsInv ==
  /\ ForksCopyTheirPrefix /\ SeededStepsNeverFire
  /\ ToolStepsInPlace /\ StepsLookBack /\ ProducersAreNative
  /\ OwnStepsAreTheWorkflows /\ LineageHasAPoint /\ LineagesEnd

(* A row stays a step of its run's workflow: invocations are final.        *)
LEMMA OwnStepsFrame ==
  ASSUME WorkflowTypeOK, OwnStepsAreTheWorkflows,
         \A r \in Runs : invocation[r] # Nil => invocation'[r] = invocation[r],
         \A e \in stepJournal' : e \in stepJournal \/ e.seededFrom # Nil
  PROVE  OwnStepsAreTheWorkflows'
<1>1. \A e \in stepJournal : e.run \in Runs
  BY DEF WorkflowTypeOK, JournalTypeOK, StepRow
<1>2. SUFFICES ASSUME NEW e \in stepJournal, e.seededFrom = Nil
               PROVE  /\ invocation'[e.run] # Nil
                      /\ e.seq <= Len(Steps(e.run)')
                      /\ e.step = Steps(e.run)'[e.seq]
                      /\ e.key = IdemKey(e.run, e.step)
  BY DEF OwnStepsAreTheWorkflows, Steps
<1>3. /\ invocation[e.run] # Nil /\ e.seq <= Len(Steps(e.run))
      /\ e.step = Steps(e.run)[e.seq] /\ e.key = IdemKey(e.run, e.step)
  BY <1>2 DEF OwnStepsAreTheWorkflows
<1>4. invocation'[e.run] = invocation[e.run]
  BY <1>1, <1>2, <1>3
<1>5. QED
  BY <1>3, <1>4 DEF Steps

LEMMA LineageFrame ==
  ASSUME WorkflowTypeOK, RowsInv, UNCHANGED <<stepJournal, runMeta, invocation>>
  PROVE  OwnStepsAreTheWorkflows' /\ LineageHasAPoint' /\ LineagesEnd'
BY OwnStepsFrame DEF RowsInv, LineageHasAPoint, LineagesEnd, Parent

LEMMA QuietRows ==
  ASSUME WorkflowTypeOK, RowsInv, UNCHANGED <<stepJournal, effectLog>>,
         \A r \in Runs : invocation[r] # Nil => invocation'[r] = invocation[r],
         \A r \in Runs : /\ Parent(r)' = Parent(r)
                         /\ Parent(r) # Nil => runMeta'[r] = runMeta[r],
         \A v \in Workers : at'[v] = at[v] \/ at'[v].pc \notin {"produce", "insert"}
  PROVE  RowsInv'
<1>1. ForksCopyTheirPrefix'
  BY DEF RowsInv, ForksCopyTheirPrefix, trajectory
<1>2. SeededStepsNeverFire' /\ ToolStepsInPlace'
  BY DEF RowsInv, SeededStepsNeverFire, Fired, ToolStepsInPlace
<1>3. StepsLookBack'
  BY DEF RowsInv, StepsLookBack
<1>4. ProducersAreNative'
  BY DEF RowsInv, ProducersAreNative, trajectory
<1>5. OwnStepsAreTheWorkflows'
  BY OwnStepsFrame DEF RowsInv
<1>6. LineageHasAPoint'
  BY DEF RowsInv, LineageHasAPoint
<1>7. LineagesEnd'
  BY DEF RowsInv, LineagesEnd
<1>8. QED
  BY <1>1, <1>2, <1>3, <1>4, <1>5, <1>6, <1>7 DEF RowsInv

LEMMA BeginHandlerRows ==
  ASSUME WorkflowTypeOK, RowsInv, NEW w \in Workers, BeginHandler(w)
  PROVE  RowsInv' /\ Lasts
<1>1. at[w].run \in Runs /\ at[w].pc = "meta"
  BY AttemptTyped DEF BeginHandler
<1>2. UNCHANGED <<stepJournal, effectLog, invocation, result>>
  BY DEF BeginHandler, effectVars, engineVars
<1>3. \A v \in Workers : at'[v] = at[v] \/ at'[v].pc \notin {"produce", "insert"}
  BY <1>1 DEF BeginHandler, WorkflowTypeOK, Attempt
<1>4. ASSUME NEW r \in Runs
      PROVE  Parent(r)' = Parent(r) /\ (Parent(r) # Nil => runMeta'[r] = runMeta[r])
  <2>1. CASE runMeta[r] # Nil
    <3>1. runMeta'[r] = runMeta[r]
      BY <1>1, <2>1 DEF BeginHandler, ensureRunMeta, WorkflowTypeOK, JournalTypeOK
    <3>2. QED
      BY <3>1 DEF Parent
  <2>2. CASE runMeta[r] = Nil
    <3> DEFINE row == [parent |-> Nil, forkedAt |-> Nil,
                       trajectory |-> invocation[at[w].run].prompt]
    <3>1. row.parent = Nil
      OBVIOUS
    <3> HIDE DEF row
    <3>2. runMeta' = IF runMeta[at[w].run] = Nil
                     THEN [runMeta EXCEPT ![at[w].run] = row] ELSE runMeta
      BY DEF BeginHandler, ensureRunMeta, row
    <3>3. runMeta'[r] = row \/ runMeta'[r] = Nil
      BY <1>1, <2>2, <3>2 DEF WorkflowTypeOK, JournalTypeOK
    <3>4. QED
      BY <2>2, <3>1, <3>3 DEF Parent
  <2>3. QED
    BY <2>1, <2>2
<1>5. QED
  BY <1>2, <1>3, <1>4, QuietRows DEF Lasts

(* The tool step of each workflow has its place.                           *)
LEMMA StepPlaces ==
  ASSUME NEW r, invocation[r].wf \in Wfs, NEW k \in Seqs, k <= Len(Steps(r))
  PROVE  /\ Steps(r)[k] = "step2-tool_call" => k = 2
         /\ Steps(r)[k] = "step4-tool_call" => k = 4
         /\ Steps(r)[k] \in ToolSteps => k > 1
<1>1. CASE invocation[r].wf = "AgentRun"
  BY <1>1 DEF Steps, StepsOf, AgentSteps, ToolSteps, Seqs, MaxSeq
<1>2. CASE invocation[r].wf = "HitlAgentRun"
  BY <1>2 DEF Steps, StepsOf, HitlSteps, ToolSteps, Seqs, MaxSeq
<1>3. QED
  BY <1>1, <1>2 DEF Wfs

(* The INSERT of a step: not below a fork point, where every row is taken. *)
LEMMA JournalStepRows ==
  ASSUME WorkflowIInv, RowsInv, NEW w \in Workers, JournalStep(w)
  PROVE  RowsInv' /\ stepJournal \subseteq stepJournal'
<1> DEFINE r   == at[w].run
           row == AttemptRow(w)
<1>1. WorkflowTypeOK /\ AttemptOK(w) /\ at[w].pc = "insert"
  BY DEF WorkflowIInv, AttemptsOK, JournalStep
<1>2. /\ r \in Runs /\ at[w].seq \in Seqs /\ at[w].seq <= Len(Steps(r))
      /\ invocation[r] # Nil
  BY <1>1, StepFacts
<1>3. /\ row.run = r /\ row.seq = at[w].seq /\ row.step = StepOf(w)
      /\ row.output = at[w].val /\ row.seededFrom = Nil
  BY DEF AttemptRow, NativeRow
<1>4. /\ stepJournal' = stepJournal \cup {row} /\ ~Conflicts(row)
      /\ UNCHANGED <<runMeta, effectLog, effectSeq>>
  BY DEF JournalStep, InsertStep, effectVars
<1>5. \A v \in Workers : at'[v] = at[v] \/ at'[v].pc \notin {"produce", "insert"}
  BY <1>1, AttemptTyped DEF JournalStep, WorkflowTypeOK, Attempt
<1> HIDE DEF row
<1>6. ForksCopyTheirPrefix'
  <2>1. SUFFICES ASSUME NEW q \in Runs
                 PROVE
                   /\ Parent(q) # Nil => \A s \in 1 .. runMeta[q].forkedAt :
                        \E e \in trajectory(q)', d \in trajectory(Parent(q))' :
                          e.seq = s /\ e = SeededRow(d, q, Parent(q))
                   /\ \A e \in trajectory(q)' :
                        e.seededFrom # Nil <=>
                          Parent(q) # Nil /\ e.seq <= runMeta[q].forkedAt
    <3>1. \A q \in Runs : Parent(q)' = Parent(q)
      BY <1>4 DEF Parent
    <3>2. \A q : trajectory(q) \subseteq trajectory(q)'
      BY <1>4 DEF trajectory
    <3>3. QED
      BY <1>4, <3>1 DEF ForksCopyTheirPrefix, trajectory
  <2>2. Parent(q) # Nil => \A s \in 1 .. runMeta[q].forkedAt :
          \E e \in trajectory(q), d \in trajectory(Parent(q)) :
            e.seq = s /\ e = SeededRow(d, q, Parent(q))
    BY DEF RowsInv, ForksCopyTheirPrefix
  <2>3. ASSUME NEW e \in trajectory(q)'
        PROVE  e.seededFrom # Nil <=>
                 Parent(q) # Nil /\ e.seq <= runMeta[q].forkedAt
    <3>1. CASE e \in stepJournal
      <4>1. e \in trajectory(q)
        BY <3>1 DEF trajectory
      <4>2. QED
        BY <4>1 DEF RowsInv, ForksCopyTheirPrefix
    <3>2. CASE e = row
      <4>1. q = r
        BY <1>3, <3>2 DEF trajectory
      <4>2. ASSUME Parent(q) # Nil, row.seq <= runMeta[q].forkedAt PROVE FALSE
        <5>1. runMeta[q] \in MetaRow /\ runMeta[q].forkedAt \in Seqs \cup {Nil}
          BY <1>1, <4>2 DEF WorkflowTypeOK, JournalTypeOK, Parent, MetaRow
        <5>2. row.seq \in 1 .. runMeta[q].forkedAt
          BY <1>2, <1>3, <4>2, <5>1 DEF Seqs, MaxSeq
        <5>3. \E d \in trajectory(q) : d.seq = row.seq
          BY <2>2, <4>2, <5>2
        <5>4. QED
          BY <1>3, <1>4, <4>1, <5>3 DEF Conflicts, trajectory
      <4>3. QED
        BY <1>3, <3>2, <4>2
    <3>3. QED
      BY <1>4, <3>1, <3>2 DEF trajectory
  <2>4. \A x : trajectory(x) \subseteq trajectory(x)'
    BY <1>4 DEF trajectory
  <2>5. ASSUME Parent(q) # Nil, NEW s \in 1 .. runMeta[q].forkedAt
        PROVE  \E e \in trajectory(q)', d \in trajectory(Parent(q))' :
                 e.seq = s /\ e = SeededRow(d, q, Parent(q))
    <3>1. PICK e \in trajectory(q), d \in trajectory(Parent(q)) :
            e.seq = s /\ e = SeededRow(d, q, Parent(q))
      BY <2>2, <2>5
    <3>2. Parent(q)' = Parent(q) /\ stepJournal \subseteq stepJournal'
      BY <1>4 DEF Parent
    <3>3. e \in trajectory(q)' /\ d \in trajectory(Parent(q))'
      BY <3>1, <3>2 DEF trajectory
    <3>4. QED
      BY <3>1, <3>3
  <2>6. QED
    BY <2>3, <2>5
<1>7. SeededStepsNeverFire'
  BY <1>3, <1>4 DEF RowsInv, SeededStepsNeverFire, Fired
<1>8. ToolStepsInPlace'
  <2>1. invocation[r].wf \in Wfs
    BY <1>1, <1>2, InvocationTyped
  <2>2. /\ row.step = "step2-tool_call" => row.seq = 2
        /\ row.step = "step4-tool_call" => row.seq = 4
    BY <1>2, <1>3, <2>1, StepPlaces DEF StepOf
  <2>3. QED
    BY <1>4, <2>2 DEF RowsInv, ToolStepsInPlace
<1>9. StepsLookBack'
  BY <1>1, <1>3, <1>4, <1>5 DEF RowsInv, StepsLookBack
<1>10. ProducersAreNative'
  BY <1>3, <1>4, <1>5 DEF RowsInv, ProducersAreNative, trajectory
<1>11. OwnStepsAreTheWorkflows'
  <2>1. /\ row.step = Steps(r)[row.seq] /\ row.seq <= Len(Steps(r))
        /\ row.key = IdemKey(r, row.step)
    BY <1>2, <1>3 DEF StepOf, row, AttemptRow, NativeRow
  <2>2. UNCHANGED invocation
    BY DEF JournalStep, engineVars
  <2>3. QED
    BY <1>2, <1>3, <1>4, <2>1, <2>2 DEF RowsInv, OwnStepsAreTheWorkflows, Steps
<1>12. LineageHasAPoint' /\ LineagesEnd'
  BY <1>4 DEF RowsInv, LineageHasAPoint, LineagesEnd, Parent
<1>13. QED
  BY <1>4, <1>6, <1>7, <1>8, <1>9, <1>10, <1>11, <1>12 DEF RowsInv

(* A producer reads earlier steps only.                                    *)
ProducedLooksBack(w, reads) == \A j \in reads : j < at[w].seq

LEMMA ReadsLookBack ==
  ASSUME NEW w, invocation[at[w].run].wf \in Wfs, at[w].seq \in Seqs, HasStep(w)
  PROVE  ProducedLooksBack(w, {}) /\ ProducedLooksBack(w, OutputReads(StepOf(w)))
<1>1. Len(Steps(at[w].run)) \in Nat
  BY StepTable DEF Steps
<1>2. at[w].seq \in 1 .. Len(Steps(at[w].run)) /\ at[w].seq \in Nat
  BY <1>1 DEF HasStep, Seqs, MaxSeq
<1>3. \A j \in OutputReads(StepOf(w)) : j \in 1 .. at[w].seq - 1
  BY <1>2, StepOrder DEF StepOf, Steps
<1>4. \A j \in 1 .. at[w].seq - 1 : j < at[w].seq
  BY <1>2
<1>5. QED
  BY <1>3, <1>4 DEF ProducedLooksBack

LEMMA ProducedRows ==
  ASSUME WorkflowTypeOK, RowsInv, UNCHANGED stepJournal,
         NEW w \in Workers, at[w].pc = "produce",
         NEW reads, NEW x, Produced(w, reads, x), ProducedLooksBack(w, reads)
  PROVE  StepsLookBack' /\ ProducersAreNative'
<1> DEFINE folds == Values(at[w].run, reads)
           o     == [folds |-> folds, ext |-> x]
<1>1. o.folds = folds
  OBVIOUS
<1>2. at'[w] = [at[w] EXCEPT !.pc = "insert", !.val = o]
      /\ \A v \in Workers : v # w => at'[v] = at[v]
  BY DEF Produced, WorkflowTypeOK
<1> HIDE DEF o
<1>3. at[w] \in Attempt
  BY AttemptTyped
<1>4. at'[w].pc = "insert" /\ at'[w].val = o /\ at'[w].seq = at[w].seq
  BY <1>2, <1>3 DEF Attempt
<1>5. \A y \in folds : y.seq < at[w].seq
  BY DEF Values, ProducedLooksBack
<1> HIDE DEF folds
<1>6. StepsLookBack'
  BY <1>1, <1>2, <1>4, <1>5 DEF RowsInv, StepsLookBack
<1>7. ProducersAreNative'
  <2>1. SUFFICES ASSUME NEW v \in Workers, at'[v].pc = "produce", at'[v].seq > 1,
                        NEW e \in stepJournal, e.run = at'[v].run, e.seq = at'[v].seq
                 PROVE  e.seededFrom = Nil
    BY DEF ProducersAreNative, trajectory
  <2>2. at'[v] = at[v]
    BY <1>2, <1>4, <2>1
  <2>3. QED
    BY <2>1, <2>2 DEF RowsInv, ProducersAreNative, trajectory
<1>8. QED
  BY <1>6, <1>7

(* The effect of a tool step: no seeded row is in its place.               *)
LEMMA FireToolRows ==
  ASSUME WorkflowIInv, RowsInv, NEW w \in Workers, FireTool(w)
  PROVE  RowsInv'
<1> DEFINE r    == at[w].run
           step == StepOf(w)
           key  == IdemKey(r, step)
<1>1. /\ WorkflowTypeOK /\ AttemptOK(w) /\ at[w].pc = "produce" /\ step \in ToolSteps
      /\ UNCHANGED <<stepJournal, runMeta>>
  BY DEF WorkflowIInv, AttemptsOK, FireTool, journalVars
<1>2. PICK id \in 1 .. effectSeq + 1 :
        /\ fireEffect(r, key, Values(r, PayloadReads(step)), id)
        /\ Produced(w, OutputReads(step), id)
  BY DEF FireTool
<1>3. /\ r \in Runs /\ at[w].seq \in Seqs /\ at[w].seq <= Len(Steps(r))
      /\ invocation[r] # Nil
  BY <1>1, StepFacts
<1>4. invocation[r].wf \in Wfs
  BY <1>1, <1>3, InvocationTyped
<1>5. /\ step = "step2-tool_call" => at[w].seq = 2
      /\ step = "step4-tool_call" => at[w].seq = 4
      /\ at[w].seq > 1
  BY <1>1, <1>3, <1>4, StepPlaces DEF StepOf
<1>6. SeededStepsNeverFire'
  <2>1. SUFFICES ASSUME NEW e \in stepJournal, e.seededFrom # Nil,
                        NEW f \in effectLog', f.key = IdemKey(e.run, e.step)
                 PROVE  FALSE
    BY <1>1 DEF SeededStepsNeverFire, Fired
  <2>2. f \notin effectLog
    BY <2>1 DEF RowsInv, SeededStepsNeverFire, Fired
  <2>3. f.key = key
    BY <1>2, <2>2 DEF fireEffect, effectVars
  <2>4. e.run = r /\ e.step = step
    BY <2>1, <2>3 DEF IdemKey
  <2>5. e.seq = at[w].seq
    BY <1>1, <1>5, <2>4 DEF RowsInv, ToolStepsInPlace, ToolSteps
  <2>6. QED
    BY <1>1, <1>5, <2>1, <2>4, <2>5 DEF RowsInv, ProducersAreNative, trajectory
<1>7. ForksCopyTheirPrefix' /\ ToolStepsInPlace'
  BY <1>1 DEF RowsInv, ForksCopyTheirPrefix, ToolStepsInPlace, trajectory, Parent
<1>8. ProducedLooksBack(w, OutputReads(step))
  BY <1>3, <1>4, ReadsLookBack DEF HasStep
<1>9. StepsLookBack' /\ ProducersAreNative'
  BY <1>1, <1>2, <1>8, ProducedRows
<1>10. UNCHANGED invocation
  BY DEF FireTool, engineVars
<1>11. QED
  BY <1>1, <1>6, <1>7, <1>9, <1>10, LineageFrame DEF RowsInv

(* Steps that only compute, and the provider's.                            *)
LEMMA PureProducerRows ==
  ASSUME WorkflowIInv, RowsInv, NEW w \in Workers, CallProvider(w) \/ ComputeStep(w)
  PROVE  RowsInv'
<1>1. /\ WorkflowTypeOK /\ AttemptOK(w) /\ at[w].pc = "produce"
      /\ UNCHANGED <<stepJournal, runMeta, effectLog>>
  BY DEF WorkflowIInv, AttemptsOK, CallProvider, ComputeStep, tableVars
<1>2. /\ at[w].run \in Runs /\ at[w].seq \in Seqs
      /\ at[w].seq <= Len(Steps(at[w].run)) /\ invocation[at[w].run] # Nil
  BY <1>1, StepFacts
<1>3. invocation[at[w].run].wf \in Wfs
  BY <1>1, <1>2, InvocationTyped
<1>4. /\ ForksCopyTheirPrefix' /\ ToolStepsInPlace' /\ SeededStepsNeverFire'
  BY <1>1 DEF RowsInv, ForksCopyTheirPrefix, ToolStepsInPlace, trajectory, Parent,
              SeededStepsNeverFire, Fired
<1>5. ProducedLooksBack(w, {}) /\ ProducedLooksBack(w, OutputReads(StepOf(w)))
  BY <1>2, <1>3, ReadsLookBack DEF HasStep
<1>6. StepsLookBack' /\ ProducersAreNative'
  BY <1>1, <1>5, ProducedRows DEF CallProvider, ComputeStep
<1>7. UNCHANGED <<stepJournal, runMeta, invocation>>
  BY DEF CallProvider, ComputeStep, tableVars, engineVars
<1>8. QED
  BY <1>1, <1>4, <1>6, <1>7, LineageFrame DEF RowsInv

(* A step that is not journaled was not seeded.                            *)
LEMMA MissStepRows ==
  ASSUME WorkflowTypeOK, RowsInv, NEW w \in Workers, MissStep(w)
  PROVE  RowsInv'
<1>1. /\ UNCHANGED <<stepJournal, runMeta, effectLog>>
      /\ ~HasEntry(at[w].run, at[w].seq)
  BY DEF MissStep, tableVars
<1>2. /\ at'[w].pc = "produce" /\ at'[w].run = at[w].run /\ at'[w].seq = at[w].seq
      /\ \A v \in Workers : v # w => at'[v] = at[v]
  <2>1. at'[w] = [at[w] EXCEPT !.pc = "produce"]
    BY DEF MissStep, WorkflowTypeOK
  <2>2. at[w] \in Attempt
    BY AttemptTyped DEF MissStep
  <2>3. QED
    BY <2>1, <2>2 DEF MissStep, WorkflowTypeOK, Attempt
<1>3. /\ ForksCopyTheirPrefix' /\ ToolStepsInPlace' /\ SeededStepsNeverFire'
  BY <1>1 DEF RowsInv, ForksCopyTheirPrefix, ToolStepsInPlace, trajectory, Parent,
              SeededStepsNeverFire, Fired
<1>4. StepsLookBack'
  BY <1>1, <1>2 DEF RowsInv, StepsLookBack
<1>5. ProducersAreNative'
  BY <1>1, <1>2 DEF RowsInv, ProducersAreNative, trajectory, HasEntry
<1>6. UNCHANGED <<stepJournal, runMeta, invocation>>
  BY DEF MissStep, tableVars, engineVars
<1>7. QED
  BY <1>3, <1>4, <1>5, <1>6, LineageFrame DEF RowsInv

(* Every other step leaves the tables and the producers alone.             *)
LEMMA QuietStep ==
  ASSUME WorkflowTypeOK, RowsInv, UNCHANGED tableVars,
         \A v \in Workers : at'[v] = at[v] \/ at'[v].pc \notin {"produce", "insert"},
         \A r \in Runs : /\ invocation[r] # Nil => invocation'[r] = invocation[r]
                         /\ result[r] # Nil => result'[r] # Nil
  PROVE  RowsInv' /\ Lasts /\ stepJournal \subseteq stepJournal'
<1>1. \A r \in Runs : Parent(r)' = Parent(r) /\ runMeta'[r] = runMeta[r]
  BY DEF tableVars, Parent
<1>2. RowsInv'
  BY <1>1, QuietRows DEF tableVars
<1>3. QED
  BY <1>1, <1>2 DEF Lasts, tableVars

LEMMA EndingIsQuiet ==
  ASSUME WorkflowTypeOK, NEW w \in Workers, EndAttempt(w)
  PROVE  \A v \in Workers : at'[v] = at[v] \/ at'[v].pc \notin {"produce", "insert"}
BY DEF EndAttempt, WorkflowTypeOK, Idle

LEMMA HandlerRows ==
  ASSUME WorkflowIInv, RowsInv, NEW w \in Workers, HandlerStep(w)
  PROVE  RowsInv' /\ Lasts /\ stepJournal \subseteq stepJournal'
<1>1. WorkflowTypeOK /\ OwnerPosition
  BY DEF WorkflowIInv
<1>2. CASE BeginHandler(w)
  BY <1>1, <1>2, BeginHandlerRows DEF BeginHandler
<1>3. CASE JournalStep(w)
  <2>1. UNCHANGED <<runMeta, invocation, result>>
    BY <1>3 DEF JournalStep, engineVars
  <2>2. QED
    BY <1>3, <2>1, JournalStepRows DEF Lasts
<1>4. CASE FireTool(w) \/ CallProvider(w) \/ ComputeStep(w) \/ MissStep(w)
  <2>1. UNCHANGED <<stepJournal, runMeta, invocation, result>>
    BY <1>4 DEF FireTool, CallProvider, ComputeStep, MissStep, engineVars,
                journalVars, tableVars
  <2>2. QED
    BY <1>1, <1>4, <2>1, FireToolRows, PureProducerRows, MissStepRows DEF Lasts
<1>5. CASE LoseInsert(w) \/ Suspend(w) \/ Fenced(w)
  <2>1. EndAttempt(w) /\ UNCHANGED <<tableVars, invocation, result>>
    BY <1>5 DEF LoseInsert, Suspend, Fenced
  <2>2. QED
    BY <1>1, <2>1, EndingIsQuiet, QuietStep
<1>6. CASE Finish(w)
  <2>1. EndAttempt(w) /\ UNCHANGED <<tableVars, invocation>>
    BY <1>6 DEF Finish
  <2>2. at[w].run \in Runs /\ result[at[w].run] = Nil
    BY <1>1, <1>6, AttemptTyped, WorkflowAssumption DEF Finish, OwnerPosition
  <2>3. \A r \in Runs : result[r] # Nil => result'[r] # Nil
    BY <1>1, <1>6, <2>2 DEF Finish, WorkflowTypeOK
  <2>4. QED
    BY <1>1, <2>1, <2>3, EndingIsQuiet, QuietStep
<1>7. CASE ReplayStep(w) \/ CommitStep(w)
  <2>1. UNCHANGED <<tableVars, invocation, result>>
    BY <1>7 DEF ReplayStep, CommitStep, engineVars
  <2>2. at[w] \in Attempt
    BY <1>1, <1>7, AttemptTyped DEF ReplayStep, CommitStep
  <2>3. \A v \in Workers : at'[v] = at[v] \/ at'[v].pc \notin {"produce", "insert"}
    BY <1>1, <1>7, <2>2 DEF ReplayStep, CommitStep, WorkflowTypeOK, Attempt
  <2>4. QED
    BY <1>1, <2>1, <2>3, QuietStep
<1>8. QED
  BY <1>2, <1>3, <1>4, <1>5, <1>6, <1>7 DEF HandlerStep, RecordStep

LEMMA WorkflowRows ==
  ASSUME WorkflowIInv, RowsInv, [WorkflowNext]_workflowVars
  PROVE  RowsInv' /\ Lasts /\ stepJournal \subseteq stepJournal'
<1>1. WorkflowTypeOK
  BY DEF WorkflowIInv
<1>2. CASE ClientStep
  <2>1. /\ UNCHANGED <<tableVars, at, result>>
        /\ \A r \in Runs : invocation[r] # Nil => invocation'[r] = invocation[r]
    BY <1>1, <1>2 DEF ClientStep, Invoke, ResolvePromise, WorkflowTypeOK
  <2>2. QED
    BY <1>1, <2>1, QuietStep
<1>3. ASSUME NEW w \in Workers, NEW r \in Runs, StartAttempt(w, r)
      PROVE  RowsInv' /\ Lasts /\ stepJournal \subseteq stepJournal'
  <2>1. UNCHANGED <<tableVars, invocation, result>>
    BY <1>3 DEF StartAttempt
  <2>2. \A v \in Workers : at'[v] = at[v] \/ at'[v].pc \notin {"produce", "insert"}
    BY <1>1, <1>3 DEF StartAttempt, WorkflowTypeOK
  <2>3. QED
    BY <1>1, <2>1, <2>2, QuietStep
<1>4. CASE FaultStep
  <2>1. UNCHANGED <<tableVars, invocation, result>>
    BY <1>4 DEF FaultStep, Crash, ProviderFails, LoseConnection
  <2>2. \A v \in Workers : at'[v] = at[v] \/ at'[v].pc \notin {"produce", "insert"}
    BY <1>1, <1>4, EndingIsQuiet DEF FaultStep, Crash, ProviderFails, LoseConnection
  <2>3. QED
    BY <1>1, <2>1, <2>2, QuietStep
<1>5. CASE UNCHANGED workflowVars
  BY <1>1, <1>5, QuietStep DEF workflowVars, tableVars
<1>6. QED
  BY <1>2, <1>3, <1>4, <1>5, HandlerRows DEF WorkflowNext, EngineStep

-----------------------------------------------------------------------------
(* Requests.                                                               *)

LEMMA ForkParts ==
  ASSUME ForkIInv
  PROVE  /\ WorkflowIInv /\ WorkflowTypeOK /\ ForkTypeOK /\ RowsInv
         /\ \A f \in Forks : PlanHolds(f) /\ RequestStands(f)
BY DEF ForkIInv, RowsInv, ForkTypeOK

LEMMA WorkflowKeepsForks ==
  ASSUME ForkIInv, [WorkflowNext]_workflowVars, UNCHANGED fork
  PROVE  ForkIInv'
<1>1. /\ WorkflowIInv /\ WorkflowTypeOK /\ ForkTypeOK /\ RowsInv
      /\ \A f \in Forks : PlanHolds(f) /\ RequestStands(f)
  BY ForkParts
<1>2. WorkflowIInv' /\ WorkflowTypeOK'
  BY <1>1, NextInv DEF WorkflowIInv
<1>3. RowsInv' /\ Lasts /\ stepJournal \subseteq stepJournal'
  BY <1>1, WorkflowRows
<1>4. ForkTypeOK'
  BY <1>1, <1>2 DEF ForkTypeOK
<1>5. \A f \in Forks : PlanHolds(f)' /\ RequestStands(f)'
  BY <1>1, <1>2, <1>3, PlanFrame, RequestFrame
<1>6. QED
  BY <1>2, <1>3, <1>4, <1>5 DEF ForkIInv, RowsInv

(* A step of one request that leaves database and engine alone.            *)
LEMMA RequestStep ==
  ASSUME ForkIInv, UNCHANGED workflowVars, NEW f \in Forks,
         fork' \in [Forks -> ForkState],
         \A g \in Forks : g # f => fork'[g] = fork[g],
         PlanHolds(f)', RequestStands(f)'
  PROVE  ForkIInv'
<1>1. /\ WorkflowIInv /\ WorkflowTypeOK /\ ForkTypeOK /\ RowsInv
      /\ \A g \in Forks : PlanHolds(g) /\ RequestStands(g)
  BY ForkParts
<1>2. WorkflowIInv' /\ WorkflowTypeOK'
  BY <1>1, NextInv DEF WorkflowIInv
<1>3. RowsInv' /\ Lasts /\ stepJournal \subseteq stepJournal'
  BY <1>1, WorkflowRows
<1>4. ForkTypeOK'
  BY <1>2 DEF ForkTypeOK
<1>5. \A g \in Forks : PlanHolds(g)' /\ RequestStands(g)'
  BY <1>1, <1>2, <1>3, PlanFrame, RequestFrame
<1>6. QED
  BY <1>2, <1>3, <1>4, <1>5 DEF ForkIInv, RowsInv

-----------------------------------------------------------------------------
(* The transaction of a fork.                                              *)

Copies(r, s, n) == {SeededRow(e, r, s) : e \in RowsThrough(s, n)}

(* A prefix of one run is copied into another.                             *)
Seeding(r, s, n, p) ==
  /\ r \in Runs /\ s \in Runs /\ n \in Seqs /\ p \in Prompts /\ s # r
  /\ HasEntry(s, n)
  /\ forkRun(RowsThrough(s, n), r, s, n, p)
  /\ UNCHANGED <<effectVars, engineVars, at, faults>>

LEMMA CopyFields ==
  ASSUME NEW e \in StepRow, NEW r \in Runs, NEW s \in Runs
  PROVE  LET x == SeededRow(e, r, s)
         IN  /\ x \in StepRow /\ x.run = r /\ x.seededFrom = s
             /\ x.seq = e.seq /\ x.step = e.step /\ x.output = e.output
BY DEF SeededRow, StepRow

(* The rows that are copied are a whole prefix of the source, and the new  *)
(* run has none of its own: it would have a first one.                     *)
LEMMA SeedFacts ==
  ASSUME WorkflowIInv, NEW r, NEW s, NEW n, NEW p, Seeding(r, s, n, p)
  PROVE  /\ s \in Runs /\ r \in Runs /\ n \in Seqs /\ p \in Prompts /\ s # r
         /\ HasEntry(s, n)
         /\ stepJournal' = stepJournal \cup Copies(r, s, n)
         /\ \A e \in stepJournal : e.run # r
         /\ \A k \in 1 .. n : \E e \in RowsThrough(s, n) : e.seq = k
         /\ runMeta' = [runMeta EXCEPT ![r] = ForkMeta(s, n, p)]
         /\ UNCHANGED <<effectLog, effectSeq, invocation, engine, promise, owner,
                        result, at, faults>>
<1>1. stepJournal \subseteq StepRow
  BY DEF WorkflowIInv, WorkflowTypeOK, JournalTypeOK
<1>2. s \in Runs /\ r \in Runs /\ n \in Seqs /\ p \in Prompts /\ s # r /\ HasEntry(s, n)
  BY DEF Seeding
<1>3. /\ ~SeedConflicts(RowsThrough(s, n), r, s)
      /\ stepJournal' = stepJournal \cup Copies(r, s, n)
      /\ runMeta' = [runMeta EXCEPT ![r] = ForkMeta(s, n, p)]
      /\ UNCHANGED <<effectLog, effectSeq, invocation, engine, promise, owner,
                     result, at, faults>>
  BY DEF Seeding, forkRun, Copies, effectVars, engineVars
<1>4. ASSUME NEW k \in 1 .. n PROVE \E e \in RowsThrough(s, n) : e.seq = k
  <2>1. HasEntry(s, k)
    BY <1>2, PrefixFull
  <2>2. k <= n
    BY <1>2 DEF Seqs, MaxSeq
  <2>3. QED
    BY <2>1, <2>2 DEF HasEntry, RowsThrough, trajectory
<1>5. ASSUME NEW d \in stepJournal, d.run = r PROVE FALSE
  <2>1. HasEntry(r, 1)
    BY <1>5, FirstStep
  <2>2. PICK e \in RowsThrough(s, n) : e.seq = 1
    BY <1>2, <1>4 DEF Seqs, MaxSeq
  <2>3. e \in StepRow
    BY <1>1 DEF RowsThrough, trajectory
  <2>4. SeededRow(e, r, s).run = r /\ SeededRow(e, r, s).seq = 1
    BY <1>2, <2>2, <2>3, CopyFields
  <2>5. Conflicts(SeededRow(e, r, s))
    BY <2>1, <2>4 DEF Conflicts, HasEntry
  <2>6. QED
    BY <1>3, <2>2, <2>5 DEF SeedConflicts
<1>6. QED
  BY <1>2, <1>3, <1>4, <1>5

LEMMA CopyFacts ==
  ASSUME WorkflowIInv, NEW r, NEW s, NEW n, NEW p, Seeding(r, s, n, p),
         NEW x \in Copies(r, s, n)
  PROVE  \E e \in stepJournal :
           /\ e.run = s /\ e.seq <= n
           /\ x = SeededRow(e, r, s)
           /\ x \in StepRow /\ x.run = r
           /\ x.seededFrom = s /\ x.seededFrom # Nil
           /\ x.seq = e.seq /\ x.step = e.step /\ x.output = e.output
<1>1. PICK e \in RowsThrough(s, n) : x = SeededRow(e, r, s)
  BY DEF Copies
<1>2. e \in stepJournal /\ e.run = s /\ e.seq <= n
  BY <1>1 DEF RowsThrough, trajectory
<1>3. e \in StepRow
  BY <1>2 DEF WorkflowIInv, WorkflowTypeOK, JournalTypeOK
<1>4. s \in Runs /\ r \in Runs
  BY SeedFacts
<1>5. QED
  BY <1>1, <1>2, <1>3, <1>4, CopyFields, NilAssumption

(* ... and each copied row is there.                                       *)
LEMMA CopyThere ==
  ASSUME WorkflowIInv, NEW r, NEW s, NEW n, NEW p, Seeding(r, s, n, p),
         NEW e \in stepJournal, e.run = s, e.seq <= n
  PROVE  \E x \in Copies(r, s, n) :
           /\ x = SeededRow(e, r, s)
           /\ x.run = r /\ x.seq = e.seq /\ x.output = e.output
<1>1. e \in RowsThrough(s, n)
  BY DEF RowsThrough, trajectory
<1> DEFINE x == SeededRow(e, r, s)
<1>2. x \in Copies(r, s, n)
  BY <1>1 DEF Copies
<1>3. e \in StepRow /\ s \in Runs /\ r \in Runs
  BY SeedFacts DEF WorkflowIInv, WorkflowTypeOK, JournalTypeOK
<1>4. x.run = r /\ x.seq = e.seq /\ x.output = e.output
  BY <1>3, CopyFields
<1> HIDE DEF x
<1>5. QED
  BY <1>2, <1>4 DEF x

LEMMA SeedWorkflow ==
  ASSUME WorkflowIInv, RowsInv, NEW r, NEW s, NEW n, NEW p, Seeding(r, s, n, p)
  PROVE  WorkflowIInv'
<1>1. /\ WorkflowTypeOK /\ StoreInv /\ ResultsFromEngine /\ OwnerPosition
      /\ AttemptsOK /\ RowsInv
  BY InvParts
<1>2. /\ s \in Runs /\ r \in Runs /\ n \in Seqs /\ p \in Prompts
      /\ stepJournal' = stepJournal \cup Copies(r, s, n)
      /\ \A e \in stepJournal : e.run # r
      /\ \A k \in 1 .. n : \E e \in RowsThrough(s, n) : e.seq = k
      /\ runMeta' = [runMeta EXCEPT ![r] = ForkMeta(s, n, p)]
      /\ UNCHANGED <<effectLog, effectSeq, invocation, engine, promise, owner,
                     result, at, faults>>
  BY SeedFacts
<1>3. /\ runMeta' \in [Runs -> MetaRow \cup {Nil}] /\ runMeta'[r] # Nil
      /\ \A q \in Runs : runMeta[q] # Nil => runMeta'[q] # Nil
  BY <1>1, <1>2, MetaIsRow DEF WorkflowTypeOK, JournalTypeOK
<1>4. \A x \in Copies(r, s, n) : x \in StepRow /\ x.run = r /\ x.seededFrom # Nil
  BY CopyFacts
<1>5. WorkflowTypeOK'
  BY <1>1, <1>2, <1>3, <1>4 DEF WorkflowTypeOK, JournalTypeOK
<1>6. OneRowPerStep'
  <2>1. SUFFICES ASSUME NEW d \in stepJournal', NEW e \in stepJournal',
                        d.run = e.run, d.seq = e.seq
                 PROVE  d = e
    BY DEF OneRowPerStep
  <2>2. CASE d \in stepJournal /\ e \in stepJournal
    BY <1>1, <2>1, <2>2 DEF StoreInv, OneRowPerStep
  <2>3. CASE d \in Copies(r, s, n) /\ e \in Copies(r, s, n)
    <3>1. PICK d0 \in stepJournal :
            d0.run = s /\ d0.seq = d.seq /\ d = SeededRow(d0, r, s)
      BY <2>3, CopyFacts
    <3>2. PICK e0 \in stepJournal :
            e0.run = s /\ e0.seq = e.seq /\ e = SeededRow(e0, r, s)
      BY <2>3, CopyFacts
    <3>3. d0 = e0
      BY <1>1, <2>1, <3>1, <3>2 DEF StoreInv, OneRowPerStep
    <3>4. QED
      BY <3>1, <3>2, <3>3
  <2>4. QED
    BY <1>2, <1>4, <2>1, <2>2, <2>3
<1>7. GapFreeTrajectories'
  <2>1. SUFFICES ASSUME NEW e \in stepJournal'
                 PROVE  runMeta'[e.run] # Nil /\ \A j \in 1 .. e.seq - 1 : HasEntry(e.run, j)'
    BY DEF GapFreeTrajectories
  <2>2. CASE e \in stepJournal
    <3>1. e.run \in Runs
      BY <1>1, <2>2 DEF WorkflowTypeOK, JournalTypeOK, StepRow
    <3>2. QED
      BY <1>1, <1>2, <1>3, <2>2, <3>1 DEF StoreInv, GapFreeTrajectories, HasEntry
  <2>3. CASE e \in Copies(r, s, n)
    <3>1. PICK e0 \in stepJournal : e0.seq <= n /\ e.run = r /\ e.seq = e0.seq
      BY <2>3, CopyFacts
    <3>2. e.seq \in Seqs
      BY <1>4, <2>3 DEF StepRow
    <3>3. ASSUME NEW j \in 1 .. e.seq - 1 PROVE HasEntry(e.run, j)'
      <4>1. j \in 1 .. n
        BY <1>2, <3>1, <3>2 DEF Seqs, MaxSeq
      <4>2. PICK d \in RowsThrough(s, n) : d.seq = j
        BY <1>2, <4>1
      <4>3. PICK x \in Copies(r, s, n) : x.run = r /\ x.seq = j
        BY <4>2, CopyThere DEF RowsThrough, trajectory
      <4>4. QED
        BY <1>2, <3>1, <4>3 DEF HasEntry
    <3>4. QED
      BY <1>3, <3>1, <3>3
  <2>4. QED
    BY <1>2, <2>2, <2>3
<1>8. OutputsFromJournal'
  <2>1. SUFFICES ASSUME NEW e \in stepJournal', NEW y \in e.output.folds
                 PROVE  \E d \in stepJournal' :
                          d.run = e.run /\ d.seq = y.seq /\ d.output.ext = y.ext
    BY DEF OutputsFromJournal, FoldsJournaled
  <2>2. CASE e \in stepJournal
    BY <1>1, <1>2, <2>1, <2>2 DEF StoreInv, OutputsFromJournal, FoldsJournaled
  <2>3. CASE e \in Copies(r, s, n)
    <3>1. PICK e0 \in stepJournal :
            e0.run = s /\ e0.seq <= n /\ e.run = r /\ e.output = e0.output
      BY <2>3, CopyFacts
    <3>2. PICK d \in stepJournal : d.run = s /\ d.seq = y.seq /\ d.output.ext = y.ext
      BY <1>1, <2>1, <3>1 DEF StoreInv, OutputsFromJournal, FoldsJournaled
    <3>3. y.seq < e0.seq
      BY <1>1, <2>1, <3>1 DEF RowsInv, StepsLookBack
    <3>4. d.seq \in Seqs /\ e0.seq \in Seqs
      BY <1>1, <3>1, <3>2 DEF WorkflowTypeOK, JournalTypeOK, StepRow
    <3>5. d.seq <= n
      BY <1>2, <3>1, <3>2, <3>3, <3>4 DEF Seqs, MaxSeq
    <3>6. PICK x \in Copies(r, s, n) : x.run = r /\ x.seq = d.seq /\ x.output = d.output
      BY <3>2, <3>5, CopyThere
    <3>7. QED
      BY <1>2, <3>1, <3>2, <3>6
  <2>4. QED
    BY <1>2, <2>1, <2>2, <2>3
<1>9. EnginePosition' /\ EngineAgreesWithJournal'
  BY <1>1, <1>2 DEF StoreInv, EnginePosition, Steps, EngineAgreesWithJournal, Recorded
<1>10. EffectRows' /\ EffectsFromJournal'
  BY <1>1, <1>2 DEF StoreInv, EffectRows, Steps, EffectsFromJournal, FoldsJournaled
<1>11. OneEffectPerRun'
  BY <1>1, <1>2, <1>4 DEF StoreInv, OneEffectPerRun, FiredAs
<1>12. ResultsFromEngine' /\ OwnerPosition'
  BY <1>1, <1>2 DEF ResultsFromEngine, OwnerPosition
<1>13. Grows
  BY <1>1, <1>2, <1>3 DEF Grows, WorkflowTypeOK
<1>14. AttemptsOK'
  BY <1>1, <1>2, <1>5, <1>13, AttemptFrame DEF AttemptsOK
<1>15. QED
  BY <1>5, <1>6, <1>7, <1>8, <1>9, <1>10, <1>11, <1>12, <1>14 DEF WorkflowIInv

(* Where nothing is journaled nothing was fired, and no attempt is past    *)
(* the first step.                                                         *)
LEMMA FreshRun ==
  ASSUME WorkflowIInv, NEW r \in Runs, \A e \in stepJournal : e.run # r
  PROVE  /\ \A k \in effectLog : k.run # r
         /\ \A step : ~Fired(IdemKey(r, step))
         /\ \A w \in Workers : (at[w].pc # "idle" /\ at[w].run = r) => at[w].seq = 1
<1>1. \A k \in effectLog : k.run # r
  <2>1. SUFFICES ASSUME NEW k \in effectLog, k.run = r PROVE FALSE
    OBVIOUS
  <2>2. PICK x \in k.payload : x.seq = 1
    BY DEF WorkflowIInv, EffectRows
  <2>3. \E e \in stepJournal : e.run = r
    BY <2>1, <2>2 DEF WorkflowIInv, EffectsFromJournal, FoldsJournaled
  <2>4. QED
    BY <2>3
<1>2. ASSUME NEW step PROVE ~Fired(IdemKey(r, step))
  <2>1. SUFFICES ASSUME NEW k \in effectLog, k.key = IdemKey(r, step) PROVE FALSE
    BY DEF Fired
  <2>2. PICK j \in 1 .. Len(Steps(k.run)) : k.key = IdemKey(k.run, Steps(k.run)[j])
    BY DEF WorkflowIInv, EffectRows
  <2>3. k.run = r
    BY <2>1, <2>2 DEF IdemKey
  <2>4. QED
    BY <1>1, <2>3
<1>3. ASSUME NEW w \in Workers, at[w].pc # "idle", at[w].run = r PROVE at[w].seq = 1
  <2>1. at[w].seq \in 1 .. MaxSeq + 1 /\ at[w].seq <= Len(engine[r]) + 1
        /\ Len(engine[r]) \in Nat
    BY <1>3, AttemptTyped DEF WorkflowIInv, AttemptsOK, AttemptOK, WorkflowTypeOK
  <2>2. ASSUME Len(engine[r]) >= 1 PROVE FALSE
    <3>1. 1 \in 1 .. Len(engine[r])
      BY <2>1, <2>2
    <3>2. Recorded(r, 1, engine[r][1])
      BY <3>1 DEF WorkflowIInv, EngineAgreesWithJournal
    <3>3. QED
      BY <3>2 DEF Recorded
  <2>3. QED
    BY <2>1, <2>2 DEF MaxSeq
<1>4. QED
  BY <1>1, <1>2, <1>3

LEMMA SeedRows ==
  ASSUME WorkflowIInv, RowsInv, NEW r, NEW s, NEW n, NEW p, Seeding(r, s, n, p)
  PROVE  RowsInv'
<1>1. WorkflowIInv /\ WorkflowTypeOK /\ RowsInv
  BY DEF WorkflowIInv
<1>2. /\ s \in Runs /\ r \in Runs /\ n \in Seqs /\ p \in Prompts /\ s # r
      /\ stepJournal' = stepJournal \cup Copies(r, s, n)
      /\ \A e \in stepJournal : e.run # r
      /\ \A k \in 1 .. n : \E e \in RowsThrough(s, n) : e.seq = k
      /\ runMeta' = [runMeta EXCEPT ![r] = ForkMeta(s, n, p)]
      /\ UNCHANGED <<effectLog, at>>
  BY SeedFacts
<1>3. /\ \A step : ~Fired(IdemKey(r, step))
      /\ \A w \in Workers : (at[w].pc # "idle" /\ at[w].run = r) => at[w].seq = 1
  BY <1>1, <1>2, FreshRun
<1>4. /\ Parent(r)' = s /\ runMeta'[r].forkedAt = n
      /\ \A q \in Runs : q # r => Parent(q)' = Parent(q) /\ runMeta'[q] = runMeta[q]
  <2>1. runMeta'[r] = ForkMeta(s, n, p)
        /\ \A q \in Runs : q # r => runMeta'[q] = runMeta[q]
    BY <1>1, <1>2 DEF WorkflowTypeOK, JournalTypeOK
  <2>2. runMeta'[r] # Nil /\ runMeta'[r].parent = s /\ runMeta'[r].forkedAt = n
    BY <1>2, <2>1, MetaIsRow DEF ForkMeta
  <2>3. Parent(r)' = s
    BY <2>2 DEF Parent
  <2>4. \A q \in Runs : q # r => Parent(q)' = Parent(q)
    BY <2>1 DEF Parent
  <2>5. QED
    BY <2>1, <2>2, <2>3, <2>4
<1>5. ForksCopyTheirPrefix'
  <2>1. ASSUME NEW q \in Runs, Parent(q)' # Nil, NEW k \in 1 .. runMeta'[q].forkedAt
        PROVE  \E e \in trajectory(q)', d \in trajectory(Parent(q))' :
                 e.seq = k /\ e = SeededRow(d, q, Parent(q)')
    <3>1. CASE q = r
      <4>1. PICK d \in RowsThrough(s, n) : d.seq = k
        BY <1>2, <1>4, <2>1, <3>1
      <4>2. d \in stepJournal /\ d.run = s /\ d.seq <= n
        BY <4>1 DEF RowsThrough, trajectory
      <4>3. PICK x \in Copies(r, s, n) : x = SeededRow(d, r, s) /\ x.run = r /\ x.seq = d.seq
        BY <4>2, CopyThere
      <4>4. x \in trajectory(q)' /\ d \in trajectory(s)'
        BY <1>2, <3>1, <4>2, <4>3 DEF trajectory
      <4>5. x.seq = k /\ x = SeededRow(d, q, s)
        BY <3>1, <4>1, <4>3
      <4>6. Parent(q)' = s
        BY <1>4, <3>1
      <4>7. QED
        BY <4>4, <4>5, <4>6 DEF trajectory
    <3>2. CASE q # r
      <4>1. Parent(q) # Nil /\ k \in 1 .. runMeta[q].forkedAt
        BY <1>4, <2>1, <3>2
      <4>2. PICK e \in trajectory(q), d \in trajectory(Parent(q)) :
              e.seq = k /\ e = SeededRow(d, q, Parent(q))
        BY <1>1, <4>1 DEF RowsInv, ForksCopyTheirPrefix
      <4>3. Parent(q)' = Parent(q)
        BY <1>4, <3>2
      <4>4. e \in stepJournal' /\ e.run = q /\ d \in stepJournal' /\ d.run = Parent(q)
        BY <1>2, <4>2 DEF trajectory
      <4>5. QED
        BY <4>2, <4>3, <4>4 DEF trajectory
    <3>3. QED
      BY <3>1, <3>2
  <2>2. ASSUME NEW q \in Runs, NEW e \in stepJournal', e.run = q
        PROVE  e.seededFrom # Nil <=>
                 Parent(q)' # Nil /\ e.seq <= runMeta'[q].forkedAt
    <3>1. CASE e \in stepJournal
      <4>1. q # r /\ e \in trajectory(q)
        BY <1>2, <2>2, <3>1 DEF trajectory
      <4>2. e.seededFrom # Nil <=> Parent(q) # Nil /\ e.seq <= runMeta[q].forkedAt
        BY <1>1, <4>1 DEF RowsInv, ForksCopyTheirPrefix
      <4>3. QED
        BY <1>4, <4>1, <4>2
    <3>2. CASE e \in Copies(r, s, n)
      <4>1. e.run = r /\ e.seededFrom # Nil /\ e.seq <= n
        BY <3>2, CopyFacts
      <4>2. q = r /\ Parent(q)' = s /\ runMeta'[q].forkedAt = n
        BY <1>4, <2>2, <4>1
      <4>3. s # Nil
        BY <1>2, NilAssumption
      <4>4. QED
        BY <4>1, <4>2, <4>3
    <3>3. QED
      BY <1>2, <2>2, <3>1, <3>2
  <2>3. QED
    BY <2>1, <2>2 DEF ForksCopyTheirPrefix, trajectory
<1>6. SeededStepsNeverFire'
  <2>1. SUFFICES ASSUME NEW e \in stepJournal', e.seededFrom # Nil
                 PROVE  ~Fired(IdemKey(e.run, e.step))'
    BY DEF SeededStepsNeverFire
  <2>2. ~Fired(IdemKey(e.run, e.step))
    <3>1. CASE e \in stepJournal
      BY <1>1, <2>1, <3>1 DEF RowsInv, SeededStepsNeverFire
    <3>2. CASE e \in Copies(r, s, n)
      BY <1>3, <3>2, CopyFacts
    <3>3. QED
      BY <1>2, <3>1, <3>2
  <2>3. QED
    BY <1>2, <2>2 DEF Fired
<1>7. ToolStepsInPlace'
  <2>1. ASSUME NEW x \in Copies(r, s, n)
        PROVE  /\ x.step = "step2-tool_call" => x.seq = 2
               /\ x.step = "step4-tool_call" => x.seq = 4
    BY <1>1, CopyFacts DEF RowsInv, ToolStepsInPlace
  <2>2. QED
    BY <1>1, <1>2, <2>1 DEF RowsInv, ToolStepsInPlace
<1>8. StepsLookBack'
  <2>1. ASSUME NEW x \in Copies(r, s, n) PROVE \A y \in x.output.folds : y.seq < x.seq
    <3>1. PICK e \in stepJournal : x.seq = e.seq /\ x.output = e.output
      BY CopyFacts
    <3>2. \A y \in e.output.folds : y.seq < e.seq
      BY <1>1 DEF RowsInv, StepsLookBack
    <3>3. QED
      BY <3>1, <3>2
  <2>2. QED
    BY <1>1, <1>2, <2>1 DEF RowsInv, StepsLookBack
<1>9. ProducersAreNative'
  <2>1. SUFFICES ASSUME NEW w \in Workers, at[w].pc = "produce", at[w].seq > 1,
                        NEW e \in stepJournal', e.run = at[w].run, e.seq = at[w].seq
                 PROVE  e.seededFrom = Nil
    BY <1>2 DEF ProducersAreNative, trajectory
  <2>2. at[w].run # r
    BY <1>3, <2>1
  <2>3. e \in stepJournal
    BY <1>2, <2>1, <2>2, CopyFacts
  <2>4. QED
    BY <1>1, <2>1, <2>3 DEF RowsInv, ProducersAreNative, trajectory
<1>10. OwnStepsAreTheWorkflows'
  <2>1. \A e \in stepJournal' : e \in stepJournal \/ e.seededFrom # Nil
    BY <1>2, CopyFacts
  <2>2. UNCHANGED invocation
    BY SeedFacts
  <2>3. QED
    BY <1>1, <2>1, <2>2, OwnStepsFrame DEF RowsInv
<1>11. LineageHasAPoint'
  BY <1>1, <1>2, <1>4 DEF RowsInv, LineageHasAPoint
<1>12. LineagesEnd'
  <2>1. \A q \in Runs : Parent(q) # r
    <3>1. SUFFICES ASSUME NEW q \in Runs, Parent(q) = r PROVE FALSE
      OBVIOUS
    <3>2. Parent(q) # Nil /\ 1 \in 1 .. runMeta[q].forkedAt
      BY <1>1, <1>2, <3>1, NilAssumption DEF RowsInv, LineageHasAPoint, Seqs, MaxSeq
    <3>3. \E d \in trajectory(r) : TRUE
      BY <1>1, <3>1, <3>2 DEF RowsInv, ForksCopyTheirPrefix
    <3>4. QED
      BY <1>2, <3>3 DEF trajectory
  <2>2. SUFFICES ASSUME NEW S \in SUBSET Runs, \A q \in S : Parent(q)' \in S
                 PROVE  S = {}
    BY DEF LineagesEnd
  <2>3. S \ {r} = {}
    <3>1. \A q \in S \ {r} : Parent(q) \in S \ {r}
      BY <1>4, <2>1, <2>2
    <3>2. QED
      BY <1>1, <3>1 DEF RowsInv, LineagesEnd
  <2>4. QED
    BY <1>2, <1>4, <2>2, <2>3
<1>13. QED
  BY <1>5, <1>6, <1>7, <1>8, <1>9, <1>10, <1>11, <1>12 DEF RowsInv

(* Nothing is taken back of a run that has a parent or an invocation.      *)
LEMMA SeedLasts ==
  ASSUME WorkflowIInv, RowsInv, NEW r, NEW s, NEW n, NEW p, Seeding(r, s, n, p)
  PROVE  Lasts
<1>1. /\ r \in Runs /\ \A e \in stepJournal : e.run # r
      /\ runMeta' = [runMeta EXCEPT ![r] = ForkMeta(s, n, p)]
      /\ UNCHANGED <<invocation, result>>
  BY SeedFacts
<1>2. ASSUME Parent(r) # Nil, runMeta[r].forkedAt \in Seqs PROVE FALSE
  <2>1. 1 \in 1 .. runMeta[r].forkedAt
    BY <1>2 DEF Seqs, MaxSeq
  <2>2. \E e \in trajectory(r) : e.seq = 1
    BY <1>1, <1>2, <2>1 DEF RowsInv, ForksCopyTheirPrefix
  <2>3. QED
    BY <1>1, <2>2 DEF trajectory
<1>3. \A q \in Runs : q # r => runMeta'[q] = runMeta[q]
  BY <1>1 DEF WorkflowIInv, WorkflowTypeOK, JournalTypeOK
<1>4. QED
  BY <1>1, <1>2, <1>3 DEF Lasts

(* A request seeds what it planned.                                        *)
LEMMA SeedForkSeeds ==
  ASSUME ForkIInv, NEW f \in Forks, SeedFork(f)
  PROVE  Seeding(Plan(f).newRun, Plan(f).source, Plan(f).throughSeq, Plan(f).prompt)
<1>1. ForkTypeOK /\ PlanHolds(f) /\ fork[f].phase = "read"
  BY ForkParts DEF SeedFork
<1>2. /\ Plan(f).source \in Runs /\ Plan(f).newRun \in Runs
      /\ Plan(f).throughSeq \in Seqs /\ Plan(f).prompt \in Prompts
  BY <1>1, PlanTyped
<1>3. /\ Plan(f).source # Plan(f).newRun
      /\ HasEntry(Plan(f).source, Plan(f).throughSeq)
      /\ fork[f].rows = RowsThrough(Plan(f).source, Plan(f).throughSeq)
  BY <1>1 DEF PlanHolds
<1>4. QED
  BY <1>2, <1>3 DEF SeedFork, Seeding

LEMMA SeedForkInv ==
  ASSUME ForkIInv, NEW f \in Forks, SeedFork(f)
  PROVE  ForkIInv'
<1> DEFINE phase == IF Plan(f).mode = "seed" THEN "ok" ELSE "seeded"
<1>0. PICK r, s, n, p : /\ r = Plan(f).newRun /\ s = Plan(f).source
                        /\ n = Plan(f).throughSeq /\ p = Plan(f).prompt
                        /\ Seeding(r, s, n, p)
  BY SeedForkSeeds
<1>1. /\ WorkflowIInv /\ WorkflowTypeOK /\ ForkTypeOK /\ RowsInv
      /\ \A g \in Forks : PlanHolds(g) /\ RequestStands(g)
  BY ForkParts
<1>2. WorkflowIInv' /\ WorkflowTypeOK' /\ RowsInv' /\ Lasts
  BY <1>0, <1>1, SeedWorkflow, SeedRows, SeedLasts DEF WorkflowIInv
<1>3. /\ r \in Runs /\ stepJournal \subseteq stepJournal'
      /\ runMeta' = [runMeta EXCEPT ![r] = ForkMeta(s, n, p)]
  BY <1>0, <1>1, SeedFacts
<1>4. fork[f].phase = "read" /\ Advance(f, phase) /\ phase \in {"seeded", "ok"}
  BY DEF SeedFork
<1>5. /\ fork' \in [Forks -> ForkState]
      /\ fork'[f].phase = phase /\ Plan(f)' = Plan(f)
      /\ \A g \in Forks : g # f => fork'[g] = fork[g]
  BY <1>1, <1>4, Advanced
<1>6. ForkTypeOK'
  BY <1>2, <1>5 DEF ForkTypeOK
<1>7. \A g \in Forks : g # f => PlanHolds(g)' /\ RequestStands(g)'
  BY <1>1, <1>2, <1>3, <1>5, PlanFrame, RequestFrame
<1>8. PlanHolds(f)'
  BY <1>4, <1>5 DEF PlanHolds
<1>9. RequestStands(f)'
  <2>1. runMeta'[r] = ForkMeta(s, n, p)
    BY <1>0, <1>1, <1>3 DEF WorkflowTypeOK, JournalTypeOK
  <2>2. ~HasInvoked(f)' /\ ~(fork'[f].phase = "ok" /\ Plan(f)'.mode = "fork")
    BY <1>5 DEF HasInvoked
  <2>3. QED
    BY <1>0, <1>5, <2>1, <2>2 DEF RequestStands
<1>10. QED
  BY <1>2, <1>6, <1>7, <1>8, <1>9 DEF ForkIInv, RowsInv

-----------------------------------------------------------------------------
(* The other steps of a request.                                           *)

LEMMA ValidateForkInv ==
  ASSUME ForkIInv, NEW f \in Forks, NEW p \in ForkPlan, ValidateFork(f, p)
  PROVE  ForkIInv'
<1> DEFINE now == [phase |-> AfterValidation(p), plan |-> p, rows |-> {}]
<1>1. ForkTypeOK
  BY ForkParts
<1>2. AfterValidation(p) \in {"ok", "validated"}
      /\ (AfterValidation(p) = "ok" => p.mode = "validate")
  BY DEF AfterValidation
<1>3. now \in ForkState
  BY <1>2 DEF ForkState
<1>4. fork' = [fork EXCEPT ![f] = IF ValidPlan(p) THEN now ELSE Rejected]
      /\ UNCHANGED workflowVars
  BY DEF ValidateFork
<1>5. now.phase = AfterValidation(p) /\ now.plan = p
  OBVIOUS
<1> HIDE DEF now
<1>6. /\ fork' \in [Forks -> ForkState]
      /\ fork'[f] = IF ValidPlan(p) THEN now ELSE Rejected
      /\ \A g \in Forks : g # f => fork'[g] = fork[g]
  BY <1>1, <1>3, <1>4 DEF ForkTypeOK, ForkState
<1>7. PlanHolds(f)'
  BY <1>2, <1>4, <1>5, <1>6
     DEF PlanHolds, Plan, ValidPlan, Rejected, HasEntry, workflowVars
<1>8. RequestStands(f)'
  BY <1>2, <1>5, <1>6 DEF RequestStands, HasSeeded, HasInvoked, Plan, Rejected
<1>9. QED
  BY <1>4, <1>6, <1>7, <1>8, RequestStep

LEMMA ReadSourceInv ==
  ASSUME ForkIInv, NEW f \in Forks, ReadSource(f)
  PROVE  ForkIInv'
<1> DEFINE rows == RowsThrough(Plan(f).source, Plan(f).throughSeq)
<1>1. ForkTypeOK /\ PlanHolds(f) /\ stepJournal \subseteq StepRow
  BY ForkParts DEF WorkflowTypeOK, JournalTypeOK
<1>2. fork[f].phase = "validated" /\ UNCHANGED workflowVars
  BY DEF ReadSource
<1>3. fork[f] \in [phase : {"validated", "read", "seeded", "invoked", "ok"},
                   plan : ForkPlan, rows : SUBSET StepRow]
  BY <1>1, <1>2, PlanTyped
<1>4. rows \subseteq StepRow
  BY <1>1 DEF RowsThrough, trajectory
<1>5. /\ fork'[f] = [fork[f] EXCEPT !.phase = "read", !.rows = rows]
      /\ \A g \in Forks : g # f => fork'[g] = fork[g]
      /\ DOMAIN fork' = Forks /\ fork' = [g \in Forks |-> fork'[g]]
  BY <1>1 DEF ReadSource, ForkTypeOK
<1> HIDE DEF rows
<1>6. /\ fork'[f] \in ForkState /\ fork'[f].phase = "read"
      /\ fork'[f].plan = fork[f].plan /\ fork'[f].rows = rows
  BY <1>3, <1>4, <1>5 DEF ForkState
<1>7. fork' \in [Forks -> ForkState]
  BY <1>1, <1>5, <1>6 DEF ForkTypeOK
<1>8. PlanHolds(f)'
  <2>1. /\ Plan(f).source # Plan(f).newRun
        /\ HasEntry(Plan(f).source, Plan(f).throughSeq)
    BY <1>1, <1>2 DEF PlanHolds
  <2>2. stepJournal' = stepJournal /\ Plan(f)' = Plan(f)
    BY <1>2, <1>6 DEF workflowVars, Plan
  <2>3. QED
    BY <1>6, <2>1, <2>2 DEF PlanHolds, HasEntry, RowsThrough, trajectory, rows
<1>9. RequestStands(f)'
  BY <1>6 DEF RequestStands, HasSeeded, HasInvoked
<1>10. QED
  BY <1>2, <1>5, <1>7, <1>8, <1>9, RequestStep

(* A request that fails, whatever else the step did.                       *)
LEMMA FailStep ==
  ASSUME ForkIInv, NEW f \in Forks, Fail(f), WorkflowIInv', RowsInv', Lasts,
         stepJournal \subseteq stepJournal'
  PROVE  ForkIInv'
<1>1. /\ WorkflowIInv /\ ForkTypeOK /\ RowsInv
      /\ \A g \in Forks : PlanHolds(g) /\ RequestStands(g)
  BY ForkParts
<1>2. /\ fork' \in [Forks -> ForkState]
      /\ fork'[f].phase = "failed"
      /\ \A g \in Forks : g # f => fork'[g] = fork[g]
  BY <1>1, Failing DEF Failed
<1>3. ForkTypeOK'
  BY <1>2 DEF ForkTypeOK, WorkflowIInv
<1>4. \A g \in Forks : g # f => PlanHolds(g)' /\ RequestStands(g)'
  BY <1>1, <1>2, PlanFrame, RequestFrame
<1>5. PlanHolds(f)' /\ RequestStands(f)'
  BY <1>2 DEF PlanHolds, RequestStands, HasSeeded, HasInvoked
<1>6. QED
  BY <1>3, <1>4, <1>5 DEF ForkIInv, RowsInv

LEMMA RefusedInv ==
  ASSUME ForkIInv, NEW f \in Forks, SeedRollsBack(f) \/ InvokeRefused(f)
  PROVE  ForkIInv'
<1>1. WorkflowIInv /\ RowsInv
  BY ForkParts
<1>2. Fail(f) /\ UNCHANGED workflowVars
  BY DEF SeedRollsBack, InvokeRefused
<1>3. WorkflowIInv'
  BY <1>1, <1>2, StutterInv
<1>4. RowsInv' /\ Lasts /\ stepJournal \subseteq stepJournal'
  BY <1>1, <1>2, WorkflowRows
<1>5. QED
  BY <1>2, <1>3, <1>4, FailStep

LEMMA ForkDiesInv ==
  ASSUME ForkIInv, NEW f \in Forks, ForkDies(f)
  PROVE  ForkIInv'
<1> USE DEF engineVars
<1>1. /\ WorkflowIInv /\ RowsInv
      /\ WorkflowTypeOK /\ StoreInv /\ ResultsFromEngine /\ OwnerPosition /\ AttemptsOK
  BY ForkParts, InvParts
<1>2. Fail(f) /\ Fault /\ UNCHANGED <<tableVars, engineVars, at>>
  BY DEF ForkDies
<1>3. WorkflowTypeOK'
  BY <1>1, <1>2, WorkflowAssumption
     DEF WorkflowTypeOK, JournalTypeOK, tableVars, Fault
<1>4. StoreInv' /\ ResultsFromEngine' /\ OwnerPosition'
  BY <1>1, <1>2, StoreFrame DEF ResultsFromEngine, OwnerPosition
<1>5. Grows
  BY <1>1, <1>2 DEF Grows, tableVars, WorkflowTypeOK
<1>6. AttemptsOK'
  BY <1>1, <1>2, <1>3, <1>5, AttemptFrame DEF AttemptsOK
<1>7. WorkflowIInv'
  BY <1>3, <1>4, <1>6, InvParts DEF WorkflowIInv, StoreInv
<1>8. RowsInv' /\ Lasts /\ stepJournal \subseteq stepJournal'
  BY <1>1, <1>2, QuietStep
<1>9. QED
  BY <1>2, <1>7, <1>8, FailStep

LEMMA InvokeForkInv ==
  ASSUME ForkIInv, NEW f \in Forks, InvokeFork(f)
  PROVE  ForkIInv'
<1> DEFINE r == Plan(f).newRun
           p == Plan(f).prompt
<1>1. /\ WorkflowIInv /\ WorkflowTypeOK /\ ForkTypeOK /\ RowsInv
      /\ \A g \in Forks : PlanHolds(g) /\ RequestStands(g)
  BY ForkParts
<1>2. /\ fork[f].phase = "seeded" /\ Advance(f, "invoked")
      /\ Invoke(r, "AgentRun", p)
  BY DEF InvokeFork
<1>3. r \in Runs /\ p \in Prompts
  BY <1>1, <1>2, PlanTyped
<1>4. WorkflowIInv'
  BY <1>1, <1>2, <1>3, InvokeInv DEF Invoke
<1>5. /\ invocation[r] = Nil
      /\ invocation' = [invocation EXCEPT ![r] = [wf |-> "AgentRun", prompt |-> p]]
      /\ UNCHANGED <<tableVars, result, at>>
  BY <1>2 DEF Invoke
<1>6. /\ invocation'[r] = [wf |-> "AgentRun", prompt |-> p]
      /\ \A q \in Runs : invocation[q] # Nil => invocation'[q] = invocation[q]
  BY <1>1, <1>3, <1>5 DEF WorkflowTypeOK
<1>7. RowsInv' /\ Lasts /\ stepJournal \subseteq stepJournal'
  BY <1>1, <1>5, <1>6, QuietStep
<1>8. /\ fork' \in [Forks -> ForkState]
      /\ fork'[f].phase = "invoked" /\ Plan(f)' = Plan(f)
      /\ \A g \in Forks : g # f => fork'[g] = fork[g]
  BY <1>1, <1>2, Advanced
<1>9. ForkTypeOK'
  BY <1>4, <1>8 DEF ForkTypeOK, WorkflowIInv
<1>10. \A g \in Forks : g # f => PlanHolds(g)' /\ RequestStands(g)'
  BY <1>1, <1>4, <1>7, <1>8, PlanFrame, RequestFrame
<1>11. PlanHolds(f)'
  BY <1>8 DEF PlanHolds
<1>12. RequestStands(f)'
  <2>1. runMeta'[r] = ForkMeta(Plan(f).source, Plan(f).throughSeq, p)
    BY <1>1, <1>2, <1>5 DEF RequestStands, HasSeeded, tableVars
  <2>2. QED
    BY <1>6, <1>8, <2>1 DEF RequestStands
<1>13. QED
  BY <1>4, <1>7, <1>9, <1>10, <1>11, <1>12 DEF ForkIInv, RowsInv

LEMMA ForkCompletesInv ==
  ASSUME ForkIInv, NEW f \in Forks, ForkCompletes(f)
  PROVE  ForkIInv'
<1>1. ForkTypeOK /\ RequestStands(f)
  BY ForkParts
<1>2. /\ fork[f].phase = "invoked" /\ Advance(f, "ok")
      /\ result[Plan(f).newRun] # Nil
      /\ UNCHANGED workflowVars
  BY DEF ForkCompletes
<1>3. /\ fork' \in [Forks -> ForkState]
      /\ fork'[f].phase = "ok" /\ Plan(f)' = Plan(f)
      /\ \A g \in Forks : g # f => fork'[g] = fork[g]
  BY <1>1, <1>2, Advanced
<1>4. PlanHolds(f)'
  BY <1>3 DEF PlanHolds
<1>5. RequestStands(f)'
  <2>1. HasSeeded(f) /\ HasInvoked(f)
    BY <1>2 DEF HasSeeded, HasInvoked
  <2>2. UNCHANGED <<runMeta, invocation, result>>
    BY <1>2 DEF workflowVars
  <2>3. QED
    BY <1>1, <1>2, <1>3, <2>1, <2>2 DEF RequestStands
<1>6. QED
  BY <1>2, <1>3, <1>4, <1>5, RequestStep

-----------------------------------------------------------------------------
(* Every step of the specification.                                        *)

LEMMA ForkInitInv == ForkInit => ForkIInv
<1> SUFFICES ASSUME ForkInit PROVE ForkIInv
  OBVIOUS
<1>1. WorkflowInit /\ fork = [f \in Forks |-> NoFork]
  BY DEF ForkInit
<1>2. WorkflowIInv
  BY <1>1, InitInv
<1>3. ForkTypeOK
  BY <1>1, <1>2 DEF ForkTypeOK, ForkState, WorkflowIInv
<1>4. /\ stepJournal = {} /\ runMeta = [r \in Runs |-> Nil]
      /\ \A w \in Workers : at[w].pc = "idle"
  BY <1>1 DEF WorkflowInit, JournalInit, Idle
<1>5. \A r \in Runs : Parent(r) = Nil
  BY <1>4 DEF Parent
<1>6. LineagesEnd
  BY <1>5, NilAssumption DEF LineagesEnd
<1>7. RowsInv
  BY <1>4, <1>5, <1>6 DEF RowsInv, ForksCopyTheirPrefix, SeededStepsNeverFire, ToolStepsInPlace,
              StepsLookBack, ProducersAreNative, OwnStepsAreTheWorkflows,
              LineageHasAPoint, trajectory
<1>8. \A f \in Forks : PlanHolds(f) /\ RequestStands(f)
  BY <1>1 DEF PlanHolds, RequestStands, HasSeeded, HasInvoked, NoFork
<1>9. QED
  BY <1>2, <1>3, <1>7, <1>8 DEF ForkIInv, RowsInv

LEMMA ForkNextInv == ForkIInv /\ [ForkNext]_forkVars => ForkIInv'
<1> SUFFICES ASSUME ForkIInv, [ForkNext]_forkVars PROVE ForkIInv'
  OBVIOUS
<1>1. CASE WorkflowNext /\ UNCHANGED fork
  BY <1>1, WorkflowKeepsForks
<1>2. ASSUME NEW f \in Forks, ForkStep(f) PROVE ForkIInv'
  BY <1>2, ReadSourceInv, SeedForkInv, RefusedInv, InvokeForkInv, ForkCompletesInv
     DEF ForkStep
<1>3. CASE UNCHANGED forkVars
  BY <1>3, WorkflowKeepsForks DEF forkVars, workflowVars
<1>4. QED
  BY <1>1, <1>2, <1>3, ValidateForkInv, ForkDiesInv DEF ForkNext

(* Whatever races for a run id (forks, native submissions, zombies of      *)
(* either), journal, lineage and every fork request fit together.          *)
THEOREM ForkInvariant == ForkSpec => []ForkIInv
<1>1. ForkInit => ForkIInv
  BY ForkInitInv
<1>2. ForkIInv /\ [ForkNext]_forkVars => ForkIInv'
  BY ForkNextInv
<1>3. QED
  BY <1>1, <1>2, PTL DEF ForkSpec

(* A forked run is its parent's trajectory up to the fork point and its    *)
(* own from there on; what is no fork holds nothing seeded.                *)
THEOREM ForkPrefixes == ForkSpec => []ForksCopyTheirPrefix
<1>1. ForkIInv => ForksCopyTheirPrefix
  BY DEF ForkIInv
<1>2. QED
  BY <1>1, ForkInvariant, PTL

(* A step copied into a fork never fires its effect there.                 *)
THEOREM SeededSilent == ForkSpec => []SeededStepsNeverFire
<1>1. ForkIInv => SeededStepsNeverFire
  BY DEF ForkIInv
<1>2. QED
  BY <1>1, ForkInvariant, PTL

(* What a fork request reports is what happened: nobody else seeded the    *)
(* run, it was executed with the request's decision, and its caller got    *)
(* the parent's outputs up to the fork point.                              *)
THEOREM ForkReports == ForkSpec => []ForkReportsAreTrue
<1>1. ASSUME ForkIInv, NEW f \in Forks, fork[f].phase = "ok", Plan(f).mode # "validate"
      PROVE  /\ runMeta[Plan(f).newRun] =
                  ForkMeta(Plan(f).source, Plan(f).throughSeq, Plan(f).prompt)
             /\ Plan(f).mode = "fork" =>
                  /\ invocation[Plan(f).newRun] =
                       [wf |-> "AgentRun", prompt |-> Plan(f).prompt]
                  /\ \A s \in DOMAIN result[Plan(f).newRun] :
                       s <= Plan(f).throughSeq =>
                         \E d \in trajectory(Plan(f).source) :
                           d.seq = s /\ d.output = result[Plan(f).newRun][s]
  <2> DEFINE r == Plan(f).newRun
             p == Plan(f).source
             n == Plan(f).throughSeq
  <2>1. WorkflowIInv /\ WorkflowTypeOK /\ ForkTypeOK /\ RowsInv /\ RequestStands(f)
    BY <1>1, ForkParts
  <2>2. p \in Runs /\ r \in Runs /\ n \in Seqs /\ Plan(f).prompt \in Prompts
    BY <1>1, <2>1, PlanTyped
  <2>3. runMeta[r] = ForkMeta(p, n, Plan(f).prompt)
    BY <1>1, <2>1 DEF RequestStands, HasSeeded
  <2>4. Parent(r) = p /\ p # Nil /\ runMeta[r].forkedAt = n
    BY <2>2, <2>3, NilAssumption, MetaIsRow DEF Parent, ForkMeta
  <2>5. ASSUME Plan(f).mode = "fork"
        PROVE  invocation[r] = [wf |-> "AgentRun", prompt |-> Plan(f).prompt]
    BY <1>1, <2>1, <2>5 DEF RequestStands, HasInvoked
  <2>6. ASSUME Plan(f).mode = "fork", NEW s \in DOMAIN result[r], s <= n
        PROVE  \E d \in trajectory(p) : d.seq = s /\ d.output = result[r][s]
    <3>1. result[r] = engine[r] /\ engine[r] \in Seq(Output)
      BY <1>1, <2>1, <2>2, <2>6
         DEF RequestStands, WorkflowIInv, ResultsFromEngine, WorkflowTypeOK
    <3>2. s \in 1 .. Len(engine[r])
      BY <2>6, <3>1
    <3>3. PICK e \in stepJournal : e.run = r /\ e.seq = s /\ e.output = engine[r][s]
      BY <2>1, <2>2, <3>2 DEF WorkflowIInv, EngineAgreesWithJournal, Recorded
    <3>4. s \in 1 .. n
      BY <2>2, <2>6, <3>2 DEF Seqs, MaxSeq
    <3>5. PICK c \in trajectory(r), d \in trajectory(p) :
            c.seq = s /\ c = SeededRow(d, r, p)
      BY <2>1, <2>2, <2>4, <3>4 DEF RowsInv, ForksCopyTheirPrefix
    <3>6. c = e
      BY <2>1, <3>3, <3>5 DEF trajectory, WorkflowIInv, OneRowPerStep
    <3>7. d \in StepRow
      BY <2>1, <3>5 DEF trajectory, WorkflowTypeOK, JournalTypeOK
    <3>8. c.seq = d.seq /\ c.output = d.output
      BY <2>2, <3>5, <3>7, CopyFields
    <3>9. QED
      BY <3>1, <3>3, <3>5, <3>6, <3>8
  <2>7. QED
    BY <2>3, <2>5, <2>6
<1>2. ForkIInv => ForkReportsAreTrue
  BY <1>1 DEF ForkReportsAreTrue, ForkMeta
<1>3. QED
  BY <1>2, ForkInvariant, PTL

-----------------------------------------------------------------------------
(* The composition of workflows and forks implements DurableRuns: the only *)
(* fork step the abstraction sees is the transaction, as Seed.             *)

Entry(e) == [run |-> e.run, seq |-> e.seq, step |-> e.step, output |-> e.output]

LEMMA EntryFields ==
  ASSUME NEW e
  PROVE  /\ Entry(e).run = e.run /\ Entry(e).seq = e.seq
         /\ \A d, r : (d.run = r /\ d.seq = e.seq /\ d.step = e.step /\ d.output = e.output)
                         => Entry(d) = [Entry(e) EXCEPT !.run = r]
BY DEF Entry

LEMMA SeedMaps ==
  ASSUME WorkflowIInv, NEW r, NEW s, NEW n, NEW p, Seeding(r, s, n, p)
  PROVE  Promised!Next
<1>1. WorkflowIInv /\ stepJournal \subseteq StepRow
  BY DEF WorkflowIInv, WorkflowTypeOK, JournalTypeOK
<1>2. /\ s \in Runs /\ r \in Runs /\ n \in Seqs
      /\ HasEntry(s, n)
      /\ stepJournal' = stepJournal \cup Copies(r, s, n)
      /\ \A e \in stepJournal : e.run # r
      /\ \A k \in 1 .. n : \E e \in RowsThrough(s, n) : e.seq = k
      /\ UNCHANGED <<effectLog, result>>
  BY SeedFacts
<1>3. Log = {Entry(e) : e \in stepJournal} /\ Log' = {Entry(e) : e \in stepJournal'}
  BY DEF Log, Entry
<1> DEFINE prefix == {y \in Log : y.run = s /\ y.seq <= n}
           copied == {[y EXCEPT !.run = r] : y \in prefix}
<1>4. ASSUME NEW x \in Copies(r, s, n) PROVE Entry(x) \in copied
  <2>1. PICK e \in stepJournal :
          /\ e.run = s /\ e.seq <= n /\ x.run = r
          /\ x.seq = e.seq /\ x.step = e.step /\ x.output = e.output
    BY CopyFacts
  <2>2. Entry(e) \in prefix
    BY <1>3, <2>1, EntryFields
  <2>3. Entry(x) = [Entry(e) EXCEPT !.run = r]
    BY <2>1, EntryFields
  <2>4. QED
    BY <2>2, <2>3
<1>5. ASSUME NEW y \in prefix PROVE [y EXCEPT !.run = r] \in Log'
  <2>1. PICK e \in stepJournal : y = Entry(e)
    BY <1>3
  <2>2. e.run = s /\ e.seq <= n
    BY <2>1, EntryFields
  <2>3. PICK x \in Copies(r, s, n) : x = SeededRow(e, r, s)
    BY <2>2, CopyThere
  <2>4. x.run = r /\ x.seq = e.seq /\ x.step = e.step /\ x.output = e.output
    BY <1>1, <1>2, <2>3, CopyFields
  <2>5. Entry(x) = [y EXCEPT !.run = r]
    BY <2>1, <2>4, EntryFields
  <2>6. QED
    BY <1>2, <1>3, <2>5
<1>6. Log' = Log \cup copied
  <2>1. Log' \subseteq Log \cup copied
    BY <1>2, <1>3, <1>4
  <2>2. Log \subseteq Log'
    BY <1>2, <1>3
  <2>3. QED
    BY <1>5, <2>1, <2>2
<1>7. \A x \in Log : x.run # r
  BY <1>2, LogMembers
<1>8. \A a \in Acts : a.run # r
  <2>1. \A step : ~Fired(IdemKey(r, step))
    BY <1>1, <1>2, FreshRun
  <2>2. \A g \in effectLog : g.run # r
    BY <1>1, <2>1 DEF WorkflowIInv, EffectRows, Fired
  <2>3. QED
    BY <2>2 DEF Acts
<1>9. \A j \in 1 .. n : Promised!Logged(s, j)
  BY <1>2, LogFacts DEF RowsThrough, trajectory
<1>10. UNCHANGED <<Acts, result>>
  BY <1>2 DEF Acts
<1>11. Promised!Seed(r, s, n)
  BY <1>6, <1>7, <1>8, <1>9, <1>10 DEF Promised!Seed
<1>12. n \in {y.seq : y \in Log'}
  <2>1. PICK e \in stepJournal : e.run = s /\ e.seq = n
    BY <1>2 DEF HasEntry
  <2>2. Entry(e) \in Log' /\ Entry(e).seq = n
    BY <1>2, <1>3, <2>1, EntryFields
  <2>3. QED
    BY <2>2
<1>13. QED
  BY <1>2, <1>11, <1>12 DEF Promised!Next

LEMMA ForkStepMaps ==
  ASSUME ForkIInv, ForkIInv', [ForkNext]_forkVars
  PROVE  [Promised!Next]_(Promised!vars)
<1> USE DEF tableVars, workflowVars
<1>1. CASE WorkflowNext \/ UNCHANGED forkVars
  BY <1>1, StepMaps DEF ForkIInv, forkVars
<1>2. ASSUME NEW f \in Forks,
             \/ \E p \in ForkPlan : ValidateFork(f, p)
             \/ ReadSource(f) \/ SeedRollsBack(f) \/ InvokeFork(f)
             \/ InvokeRefused(f) \/ ForkCompletes(f) \/ ForkDies(f)
      PROVE  UNCHANGED Promised!vars
  <2>1. UNCHANGED <<stepJournal, effectLog, result>>
    BY <1>2 DEF ValidateFork, ReadSource, SeedRollsBack, InvokeFork, Invoke,
                InvokeRefused, ForkCompletes, ForkDies, engineVars
  <2>2. QED
    BY <2>1, StutterMaps
<1>3. ASSUME NEW f \in Forks, SeedFork(f) PROVE Promised!Next
  <2>1. PICK r, s, n, p : Seeding(r, s, n, p)
    BY <1>3, SeedForkSeeds
  <2>2. QED
    BY <2>1, ForkParts, SeedMaps
<1>4. QED
  BY <1>1, <1>2, <1>3 DEF ForkNext, ForkStep

(* With forks racing each other, the workflows and the engine, a run is    *)
(* still one log written once and in order, and a fork nothing but a copy  *)
(* of a prefix into a run that has done nothing.                           *)
THEOREM ForkRefines == ForkSpec => ImplementsDurableRuns
<1>1. ForkInit => Promised!Init
  BY DEF ForkInit, WorkflowInit, JournalInit, Promised!Init, Log, Acts
<1>2. ForkIInv /\ ForkIInv' /\ [ForkNext]_forkVars => [Promised!Next]_(Promised!vars)
  BY ForkStepMaps
<1>3. QED
  BY <1>1, <1>2, ForkInvariant, PTL
     DEF ForkSpec, ImplementsDurableRuns, Promised!Spec

-----------------------------------------------------------------------------
(* What readers of the live journal see while runs execute and are forked. *)

-----------------------------------------------------------------------------
(* What no step takes back.                                                *)

LEMMA EffectsStay ==
  ASSUME ForkIInv, [ForkNext]_forkVars
  PROVE  effectLog \subseteq effectLog'
<1>1. ASSUME NEW w \in Workers, HandlerStep(w) PROVE effectLog \subseteq effectLog'
  <2>1. CASE FireTool(w)
    BY <2>1 DEF FireTool, fireEffect, effectVars
  <2>2. CASE RecordStep(w) /\ ~FireTool(w)
    BY <2>2 DEF RecordStep, ReplayStep, MissStep, CallProvider, ComputeStep,
                JournalStep, LoseInsert, tableVars, effectVars
  <2>3. CASE BeginHandler(w) \/ CommitStep(w) \/ Finish(w) \/ Suspend(w) \/ Fenced(w)
    BY <2>3 DEF BeginHandler, CommitStep, Finish, Suspend, Fenced, tableVars, effectVars
  <2>4. QED
    BY <1>1, <2>1, <2>2, <2>3 DEF HandlerStep
<1>2. CASE WorkflowNext
  <2>1. CASE ClientStep
    BY <2>1 DEF ClientStep, Invoke, ResolvePromise, tableVars
  <2>2. CASE FaultStep
    BY <2>2 DEF FaultStep, Crash, ProviderFails, LoseConnection, tableVars
  <2>3. ASSUME NEW w \in Workers, NEW r \in Runs, StartAttempt(w, r)
        PROVE  effectLog \subseteq effectLog'
    BY <2>3 DEF StartAttempt, tableVars
  <2>4. QED
    BY <1>1, <1>2, <2>1, <2>2, <2>3 DEF WorkflowNext, EngineStep
<1>3. ASSUME NEW f \in Forks, ForkStep(f) \/ ForkDies(f)
      PROVE  effectLog \subseteq effectLog'
  BY <1>3 DEF ForkStep, ForkDies, ReadSource, SeedFork, SeedRollsBack, InvokeFork,
              Invoke, InvokeRefused, ForkCompletes, workflowVars, tableVars, effectVars
<1>4. ASSUME NEW f \in Forks, NEW p \in ForkPlan, ValidateFork(f, p)
      PROVE  effectLog \subseteq effectLog'
  BY <1>4 DEF ValidateFork, workflowVars
<1>5. CASE UNCHANGED forkVars
  BY <1>5 DEF forkVars
<1>6. QED
  BY <1>2, <1>3, <1>4, <1>5 DEF ForkNext

(* What the reads below rely on.                                           *)
Stands ==
  /\ stepJournal \subseteq stepJournal'
  /\ effectLog \subseteq effectLog'
  /\ \A r \in Runs : Parent(r) # Nil => runMeta'[r] = runMeta[r]

LEMMA JournalStands ==
  ASSUME ForkIInv, [ForkNext]_forkVars
  PROVE  Stands
<1>1. WorkflowIInv /\ WorkflowTypeOK /\ RowsInv
  BY ForkParts
<1>2. CASE [WorkflowNext]_workflowVars
  <2>1. Lasts /\ stepJournal \subseteq stepJournal'
    BY <1>1, <1>2, WorkflowRows
  <2>2. \A r \in Runs : Parent(r) # Nil => runMeta'[r] = runMeta[r]
    BY <1>1, <2>1 DEF Lasts, RowsInv, LineageHasAPoint
  <2>3. QED
    BY <2>1, <2>2, EffectsStay DEF Stands
<1>3. ASSUME NEW f \in Forks, SeedFork(f) PROVE Stands
  <2>1. PICK r, s, n, p : Seeding(r, s, n, p)
    BY <1>3, SeedForkSeeds
  <2>2. /\ r \in Runs /\ s \in Runs /\ n \in Seqs /\ p \in Prompts
        /\ stepJournal' = stepJournal \cup Copies(r, s, n)
        /\ \A e \in stepJournal : e.run # r
        /\ runMeta' = [runMeta EXCEPT ![r] = ForkMeta(s, n, p)]
    BY <1>1, <2>1, SeedFacts
  <2>3. \A q \in Runs : q # r => runMeta'[q] = runMeta[q]
    BY <1>1, <2>2 DEF WorkflowTypeOK, JournalTypeOK
  <2>4. Parent(r) = Nil
    <3>1. SUFFICES ASSUME Parent(r) # Nil PROVE FALSE
      OBVIOUS
    <3>2. 1 \in 1 .. runMeta[r].forkedAt
      BY <1>1, <2>2, <3>1 DEF RowsInv, LineageHasAPoint, Seqs, MaxSeq
    <3>3. \E e \in trajectory(r) : TRUE
      BY <1>1, <2>2, <3>1, <3>2 DEF RowsInv, ForksCopyTheirPrefix
    <3>4. QED
      BY <2>2, <3>3 DEF trajectory
  <2>5. QED
    BY <2>2, <2>3, <2>4, EffectsStay DEF Stands
<1>4. CASE UNCHANGED workflowVars
  BY <1>2, <1>4
<1>5. ASSUME NEW f \in Forks, InvokeFork(f) PROVE Stands
  BY <1>5 DEF InvokeFork, Invoke, tableVars, Stands
<1>6. ASSUME NEW f \in Forks, ForkDies(f) PROVE Stands
  BY <1>6 DEF ForkDies, tableVars, Stands
<1>7. ASSUME NEW f \in Forks, ForkStep(f) PROVE Stands
  <2>1. CASE ReadSource(f) \/ SeedRollsBack(f) \/ InvokeRefused(f) \/ ForkCompletes(f)
    BY <1>4, <2>1 DEF ReadSource, SeedRollsBack, InvokeRefused, ForkCompletes
  <2>2. QED
    BY <1>3, <1>5, <1>7, <2>1 DEF ForkStep
<1>8. ASSUME NEW f \in Forks, NEW p \in ForkPlan, ValidateFork(f, p) PROVE Stands
  BY <1>4, <1>8 DEF ValidateFork
<1>9. CASE UNCHANGED forkVars
  BY <1>4, <1>9 DEF forkVars, workflowVars
<1>10. QED
  BY <1>2, <1>6, <1>7, <1>8, <1>9 DEF ForkNext

-----------------------------------------------------------------------------
(* What a run's steps look like to a reader.                               *)

LEMMA LiveSteps ==
  ASSUME NEW r
  PROVE  /\ stepsOf(LiveSource, r) = trajectory(r)
         /\ effectsOf(LiveSource, r) = {f \in effectLog : f.run = r}
         /\ LiveSource.meta = runMeta
BY DEF stepsOf, effectsOf, LiveSource, trajectory

(* Some number is the largest of a set of step numbers, or there is none.  *)
LEMMA LargestSeq ==
  ASSUME NEW S \in SUBSET Seqs, S # {}
  PROVE  \E m \in S : \A n \in S : n <= m
<1>1. CASE 5 \in S
  BY <1>1 DEF Seqs, MaxSeq
<1>2. CASE 5 \notin S /\ 4 \in S
  BY <1>2 DEF Seqs, MaxSeq
<1>3. CASE 5 \notin S /\ 4 \notin S /\ 3 \in S
  BY <1>3 DEF Seqs, MaxSeq
<1>4. CASE 5 \notin S /\ 4 \notin S /\ 3 \notin S /\ 2 \in S
  BY <1>4 DEF Seqs, MaxSeq
<1>5. CASE 5 \notin S /\ 4 \notin S /\ 3 \notin S /\ 2 \notin S
  <2>1. \A n \in S : n = 1
    BY <1>5 DEF Seqs, MaxSeq
  <2>2. QED
    BY <2>1
<1>6. QED
  BY <1>1, <1>2, <1>3, <1>4, <1>5

(* The steps of a run are numbered from 1 without a gap.                   *)
LEMMA StepsAreNumbered ==
  ASSUME WorkflowIInv, NEW r
  PROVE  /\ LastSeq(trajectory(r)) \in 0 .. MaxSeq
         /\ SeqsOf(LiveSource, r) = 1 .. LastSeq(trajectory(r))
         /\ LastSeq(trajectory(r)) # 0 => HasEntry(r, LastSeq(trajectory(r)))
<1> DEFINE S == {e.seq : e \in trajectory(r)}
           last == LastSeq(trajectory(r))
<1>1. SeqsOf(LiveSource, r) = S
  BY LiveSteps DEF SeqsOf
<1>2. \A e \in trajectory(r) : e.seq \in Seqs
  BY DEF WorkflowIInv, WorkflowTypeOK, JournalTypeOK, StepRow, trajectory
<1>3. CASE trajectory(r) = {}
  <2>1. S = {} /\ last = 0
    BY <1>3 DEF LastSeq
  <2>2. QED
    BY <1>1, <2>1 DEF MaxSeq
<1>4. CASE trajectory(r) # {}
  <2>1. S \in SUBSET Seqs /\ S # {}
    BY <1>2, <1>4
  <2>2. PICK m \in S : \A n \in S : n <= m
    BY <2>1, LargestSeq
  <2>3. \E e \in trajectory(r) : \A d \in trajectory(r) : d.seq <= e.seq
    BY <2>2
  <2>4. PICK e \in trajectory(r) : /\ \A d \in trajectory(r) : d.seq <= e.seq
                                  /\ last = e.seq
    BY <1>4, <2>3 DEF LastSeq
  <2>5. HasEntry(r, last) /\ last \in Seqs
    BY <1>2, <2>4 DEF HasEntry, trajectory
  <2> HIDE DEF last
  <2>6. S \subseteq 1 .. last
    BY <1>2, <2>4, <2>5 DEF Seqs, MaxSeq
  <2>7. ASSUME NEW n \in 1 .. last PROVE n \in S
    <3>1. HasEntry(r, n)
      BY <2>5, PrefixFull
    <3>2. QED
      BY <3>1 DEF HasEntry, trajectory
  <2>8. QED
    BY <1>1, <2>5, <2>6, <2>7 DEF Seqs, MaxSeq, last
<1>5. QED
  BY <1>3, <1>4

(* A step that is journaled and its effects are settled: whoever would     *)
(* still fire for it finds the effect fired, or the step seeded.           *)
LEMMA EffectsAreSettled ==
  ASSUME ForkIInv, ForkIInv', Stands, NEW e \in stepJournal
  PROVE  effectsAtStep(effectsOf(LiveSource, e.run), e.step)' =
         effectsAtStep(effectsOf(LiveSource, e.run), e.step)
<1>1. SUFFICES ASSUME NEW f \in effectLog', f.run = e.run, EffectStep(f) = e.step
               PROVE  f \in effectLog
  BY DEF Stands, effectsAtStep, effectsOf, LiveSource, EffectStep
<1>2. e \in stepJournal' /\ effectLog \subseteq effectLog'
  BY DEF Stands
<1>3. WorkflowIInv' /\ RowsInv'
  BY ForkParts, ForkIInv' DEF ForkIInv, RowsInv
<1>4. \E k \in 1 .. Len(Steps(f.run)') :
        Steps(f.run)'[k] \in ToolSteps /\ f.key = IdemKey(f.run, Steps(f.run)'[k])
  BY <1>3 DEF WorkflowIInv, EffectRows
<1>5. e.step \in ToolSteps /\ f.key = IdemKey(e.run, e.step)
  BY <1>1, <1>4 DEF EffectStep, IdemKey
<1>6. CASE e.seededFrom # Nil
  BY <1>2, <1>3, <1>5, <1>6 DEF RowsInv, SeededStepsNeverFire, Fired
<1>7. CASE e.seededFrom = Nil
  <2>1. PICK g \in effectLog : g.run = e.run
    BY <1>5, <1>7, ForkParts DEF WorkflowIInv, OneEffectPerRun, FiredAs
  <2>2. f = g
    BY <1>1, <1>2, <1>3, <2>1 DEF WorkflowIInv, OneEffectPerRun
  <2>3. QED
    BY <2>1, <2>2
<1>8. QED
  BY <1>6, <1>7

LEMMA ForkPointsStay ==
  ASSUME ForkIInv, Stands, NEW r \in Runs
  PROVE  divergencePoints(LiveSource, r) \subseteq divergencePoints(LiveSource, r)'
<1>1. SUFFICES ASSUME NEW c \in Runs, runMeta[c] # Nil, runMeta[c].parent = r,
                      runMeta[c].forkedAt # Nil
               PROVE  [seq |-> runMeta[c].forkedAt, fork |-> c]
                        \in divergencePoints(LiveSource, r)'
  BY DEF divergencePoints, childRuns, allRunIds, LiveSource
<1>2. runMeta'[c] = runMeta[c]
  BY <1>1, NilAssumption DEF Stands, Parent
<1>3. c \in {x \in childRuns(LiveSource, r)' : LiveSource'.meta[x].forkedAt # Nil}
  BY <1>1, <1>2 DEF childRuns, allRunIds, LiveSource
<1>4. [seq |-> LiveSource'.meta[c].forkedAt, fork |-> c]
        \in divergencePoints(LiveSource, r)'
  BY <1>3 DEF divergencePoints
<1>5. QED
  BY <1>2, <1>4 DEF LiveSource

LEMMA PastIsSettled ==
  ASSUME ForkIInv, ForkIInv', Stands
  PROVE  PastStands
<1>1. WorkflowIInv /\ WorkflowIInv'
  BY DEF ForkIInv
<1>2. SUFFICES ASSUME NEW r \in Runs, NEW n \in TravelRange(LiveSource, r)
               PROVE  /\ stateAt(LiveSource, r, n).current # {}
                      /\ [stateAt(LiveSource, r, n)' EXCEPT !.diverged = {}] =
                         [stateAt(LiveSource, r, n) EXCEPT !.diverged = {}]
                      /\ stateAt(LiveSource, r, n).diverged \subseteq
                           stateAt(LiveSource, r, n)'.diverged
  BY DEF PastStands
<1>3. n \in Seqs /\ HasEntry(r, n)
  <2>1. n \in 1 .. LastSeq(trajectory(r))
    BY <1>2, LiveSteps DEF TravelRange
  <2>2. n \in SeqsOf(LiveSource, r) /\ n \in Seqs
    BY <1>1, <2>1, StepsAreNumbered DEF Seqs, MaxSeq
  <2>3. QED
    BY <2>2, LiveSteps DEF SeqsOf, HasEntry, trajectory
<1>4. /\ StepsUpTo(LiveSource, r, n) = RowsThrough(r, n)
      /\ StepsUpTo(LiveSource, r, n)' = RowsThrough(r, n)
  <2>1. RowsThrough(r, n)' = RowsThrough(r, n)
    BY <1>1, <1>3, PrefixStands DEF Stands
  <2>2. QED
    BY <2>1 DEF StepsUpTo, stepsOf, LiveSource, RowsThrough, trajectory
<1>5. PICK rows, old, new : /\ rows = RowsThrough(r, n)
                            /\ old = effectsOf(LiveSource, r)
                            /\ new = effectsOf(LiveSource, r)'
  OBVIOUS
<1>6. \A e \in rows : /\ e \in stepJournal /\ e.run = r
                      /\ effectsAtStep(new, e.step) = effectsAtStep(old, e.step)
  <2>1. SUFFICES ASSUME NEW e \in rows
                 PROVE  /\ e \in stepJournal /\ e.run = r
                        /\ effectsAtStep(new, e.step) = effectsAtStep(old, e.step)
    OBVIOUS
  <2>2. e \in stepJournal /\ e.run = r
    BY <1>5 DEF RowsThrough, trajectory
  <2>3. QED
    BY <1>5, <2>2, EffectsAreSettled DEF effectsAtStep
<1>7. {e.output : e \in {x \in rows : x.seq = n}} # {}
  <2>1. PICK e \in stepJournal : e.run = r /\ e.seq = n
    BY <1>3 DEF HasEntry
  <2>2. e \in rows /\ e.seq = n
    BY <1>3, <1>5, <2>1 DEF RowsThrough, trajectory, Seqs, MaxSeq
  <2>3. QED
    BY <2>2
<1>8. {ReplayedStep(e, new) : e \in rows} = {ReplayedStep(e, old) : e \in rows}
  BY <1>6 DEF ReplayedStep
<1>9. {f \in new : EffectStep(f) \in {e.step : e \in rows}} =
      {f \in old : EffectStep(f) \in {e.step : e \in rows}}
  BY <1>6 DEF effectsAtStep
<1>10. {d \in divergencePoints(LiveSource, r) : d.seq <= n} \subseteq
       {d \in divergencePoints(LiveSource, r)' : d.seq <= n}
  BY ForkPointsStay
<1>11. PICK steps, current, effects, was, is :
         /\ steps = {ReplayedStep(e, old) : e \in rows}
         /\ current = {e.output : e \in {x \in rows : x.seq = n}}
         /\ effects = {f \in old : EffectStep(f) \in {e.step : e \in rows}}
         /\ was = {d \in divergencePoints(LiveSource, r) : d.seq <= n}
         /\ is = {d \in divergencePoints(LiveSource, r)' : d.seq <= n}
  OBVIOUS
<1>12. stateAt(LiveSource, r, n) = [steps |-> steps, current |-> current,
                                    effects |-> effects, diverged |-> was]
  BY <1>4, <1>5, <1>11 DEF stateAt
<1>13. stateAt(LiveSource, r, n)' = [steps |-> steps, current |-> current,
                                     effects |-> effects, diverged |-> is]
  BY <1>4, <1>5, <1>8, <1>9, <1>11 DEF stateAt
<1>14. current # {} /\ was \subseteq is
  BY <1>7, <1>10, <1>11
<1>15. QED
  BY <1>12, <1>13, <1>14

(* What time travel shows of a step is settled, whatever is appended,      *)
(* seeded or fired later and by whomever (stateAt, src/inspect.ts).        *)
THEOREM HistoryIsSettled == ForkSpec => HistoryStands
<1>1. ForkIInv /\ ForkIInv' /\ [ForkNext]_forkVars => [PastStands]_tableVars
  BY JournalStands, PastIsSettled
<1>2. QED
  BY <1>1, ForkInvariant, PTL DEF ForkSpec, HistoryStands

-----------------------------------------------------------------------------
(* Counting: the least of a set of numbers, and a function that is defined *)
(* step by step exists.                                                    *)

LEMMA LeastOf ==
  ASSUME NEW S \in SUBSET Nat, S # {}
  PROVE  \E m \in S : \A n \in S : m <= n
<1>1. \E R : IsWellFoundedOn(R, Nat) /\ \A m, n \in Nat : m < n => <<m, n>> \in R
  BY NatLessThanWellFounded DEF OpToRel
<1>2. PICK R : IsWellFoundedOn(R, Nat) /\ \A m, n \in Nat : m < n => <<m, n>> \in R
  BY <1>1
<1>3. S \subseteq Nat
  OBVIOUS
<1>4. \E x \in S : \A y \in S : ~ (<<y, x>> \in R)
  <2>1. IsWellFoundedOn(R, Nat)
    BY <1>2
  <2>2. QED
    BY <1>3, <2>1, WFMin
<1>5. PICK m \in S : \A n \in S : ~ (<<n, m>> \in R)
  BY <1>4
<1>6. ASSUME NEW n \in S PROVE m <= n
  <2>1. m \in Nat /\ n \in Nat
    BY <1>3
  <2>2. ~ (<<n, m>> \in R)
    BY <1>5
  <2>3. ~ (n < m)
    BY <1>2, <2>1, <2>2
  <2>4. QED
    BY <2>1, <2>3
<1>7. QED
  BY <1>6

IsIterate(f, S, a, step, C) ==
  f \in [0 .. C -> S] /\ f[0] = a /\ \A n \in 1 .. C : f[n] = step[f[n - 1]]

LEMMA Iterates ==
  ASSUME NEW S, NEW a \in S, NEW step \in [S -> S], NEW C \in Nat
  PROVE  \E f : IsIterate(f, S, a, step, C)
<1> DEFINE Is(k, f) == f \in [0 .. k -> S] /\ f[0] = a /\ \A n \in 1 .. k : f[n] = step[f[n - 1]]
           Bad == {k \in Nat : ~\E f : Is(k, f)}
<1>1. Is(0, [n \in 0 .. 0 |-> a])
  OBVIOUS
<1>2. ASSUME NEW k \in Nat, NEW f, Is(k, f) PROVE \E g : Is(k + 1, g)
  <2> DEFINE g == [n \in 0 .. k + 1 |-> IF n = k + 1 THEN step[f[k]] ELSE f[n]]
  <2>1. g \in [0 .. k + 1 -> S]
    BY <1>2
  <2>2. g[0] = a
    BY <1>2
  <2>3. \A n \in 1 .. k + 1 : g[n] = step[g[n - 1]]
    BY <1>2
  <2>4. Is(k + 1, g)
    BY <2>1, <2>2, <2>3
  <2>5. QED
    BY <2>4
<1> HIDE DEF Is
<1>3. Bad = {}
  <2>1. SUFFICES ASSUME Bad # {} PROVE FALSE
    OBVIOUS
  <2>2. PICK m \in Bad : \A n \in Bad : m <= n
    BY <2>1, LeastOf
  <2>3. m # 0
    BY <1>1
  <2>4. m - 1 \in Nat /\ m - 1 \notin Bad
    BY <2>2, <2>3
  <2>5. \E f : Is(m - 1, f)
    BY <2>4
  <2>6. \E g : Is(m - 1 + 1, g)
    BY <1>2, <2>4, <2>5
  <2>7. QED
    BY <2>2, <2>6
<1>4. PICK f : Is(C, f)
  BY <1>3
<1>5. QED
  BY <1>4 DEF Is, IsIterate

-----------------------------------------------------------------------------
(* Families: what `visit` of a bundle reaches.                             *)

Children(src, X) == UNION {childRuns(src, p) : p \in X}

(* A family as it grows, round by round.                                   *)
Rounds(src, root, f) ==
  /\ f \in [0 .. Cardinality(Runs) -> SUBSET Runs]
  /\ f[0] = {root}
  /\ \A n \in 1 .. Cardinality(Runs) : f[n] = f[n - 1] \cup Children(src, f[n - 1])
  /\ Family(src, root) = f[Cardinality(Runs)]

LEMMA FamilyRounds ==
  ASSUME NEW src, NEW root \in Runs
  PROVE  \E f : Rounds(src, root, f)
<1> DEFINE C == Cardinality(Runs)
           step == [X \in SUBSET Runs |-> X \cup Children(src, X)]
           IsIt(g) == g = [n \in 0 .. C |->
                             IF n = 0 THEN {root}
                             ELSE g[n - 1] \cup UNION {childRuns(src, p) : p \in g[n - 1]}]
           within == CHOOSE g : IsIt(g)
<1>1. C \in Nat
  BY FiniteRuns, FS_CardinalityType
<1>2. step \in [SUBSET Runs -> SUBSET Runs]
  BY DEF Children, childRuns, allRunIds
<1>3. {root} \in SUBSET Runs
  OBVIOUS
<1> HIDE DEF step, C
<1>4. PICK f \in [0 .. C -> SUBSET Runs] :
        f[0] = {root} /\ \A n \in 1 .. C : f[n] = step[f[n - 1]]
  <2>1. \E f : IsIterate(f, SUBSET Runs, {root}, step, C)
    BY <1>1, <1>2, <1>3, Iterates
  <2>2. QED
    BY <2>1 DEF IsIterate
<1>5. ASSUME NEW n \in 1 .. C PROVE f[n] = f[n - 1] \cup Children(src, f[n - 1])
  <2>1. n - 1 \in 0 .. C
    BY <1>1
  <2>2. f[n - 1] \in SUBSET Runs
    BY <1>4, <2>1
  <2>3. QED
    BY <1>4, <2>2 DEF step
<1>6. IsIt(f)
  <2>1. f = [n \in 0 .. C |-> f[n]]
    BY <1>4
  <2>2. \A n \in 0 .. C :
          f[n] = IF n = 0 THEN {root}
                 ELSE f[n - 1] \cup UNION {childRuns(src, p) : p \in f[n - 1]}
    BY <1>1, <1>4, <1>5 DEF Children
  <2>3. QED
    BY <2>1, <2>2
<1>7. IsIt(within)
  BY <1>6
<1>8. Family(src, root) = within[C]
  BY DEF Family, C
<1> HIDE DEF within
<1>9. \A n \in 0 .. C : within[n] = f[n]
  <2> DEFINE Bad == {n \in 0 .. C : within[n] # f[n]}
  <2>1. SUFFICES ASSUME Bad # {} PROVE FALSE
    OBVIOUS
  <2>2. Bad \in SUBSET Nat
    BY <1>1
  <2>3. \E m \in Bad : \A n \in Bad : m <= n
    BY <2>1, <2>2, LeastOf
  <2>4. PICK m \in Bad : \A n \in Bad : m <= n
    BY <2>3
  <2>5. m \in 1 .. C
    BY <1>1, <1>4, <1>7, <2>4
  <2>6. m - 1 \in 0 .. C /\ m - 1 \notin Bad
    BY <1>1, <2>4, <2>5
  <2>7. within[m - 1] = f[m - 1]
    BY <2>6
  <2>8. within[m] = within[m - 1] \cup Children(src, within[m - 1])
    BY <1>1, <1>7, <2>5 DEF Children
  <2>9. QED
    BY <1>5, <2>4, <2>5, <2>7, <2>8
<1>10. Rounds(src, root, f)
  BY <1>4, <1>5, <1>8, <1>9, <1>1 DEF C, Rounds
<1>11. QED
  BY <1>10

(* The last round has found all there is to find: every round before it    *)
(* found a run or was the last that was needed.                            *)
LEMMA FamilyIsClosure ==
  ASSUME NEW src, NEW root \in Runs
  PROVE  /\ root \in Family(src, root)
         /\ Family(src, root) \subseteq Runs
         /\ Children(src, Family(src, root)) \subseteq Family(src, root)
         /\ \A X : (root \in X /\ Children(src, X) \subseteq X)
                     => Family(src, root) \subseteq X
<1> DEFINE C == Cardinality(Runs)
<1>1. C \in Nat
  BY FiniteRuns, FS_CardinalityType
<1>2. PICK f : /\ f \in [0 .. C -> SUBSET Runs] /\ f[0] = {root}
               /\ \A n \in 1 .. C : f[n] = f[n - 1] \cup Children(src, f[n - 1])
               /\ Family(src, root) = f[C]
  <2>1. PICK f : Rounds(src, root, f)
    BY FamilyRounds
  <2>2. QED
    BY <2>1 DEF Rounds
<1> HIDE DEF C
<1>3. \A n \in 1 .. C : n - 1 \in 0 .. C
  BY <1>1
<1>4. \A n \in 0 .. C : IsFiniteSet(f[n]) /\ Cardinality(f[n]) \in Nat
                       /\ Cardinality(f[n]) <= C
  BY <1>2, FiniteRuns, FS_Subset, FS_CardinalityType DEF C
<1>5. \A n \in 0 .. C : \/ Children(src, f[n]) \subseteq f[n]
                       \/ Cardinality(f[n]) >= n + 1
  <2> DEFINE Bad == {n \in 0 .. C : /\ ~(Children(src, f[n]) \subseteq f[n])
                                   /\ ~(Cardinality(f[n]) >= n + 1)}
  <2>1. SUFFICES ASSUME Bad # {} PROVE FALSE
    OBVIOUS
  <2>2. Bad \in SUBSET Nat
    BY <1>1
  <2>3. \E m \in Bad : \A n \in Bad : m <= n
    BY <2>1, <2>2, LeastOf
  <2>4. PICK m \in Bad : \A n \in Bad : m <= n
    BY <2>3
  <2>5. m # 0
    <3>1. SUFFICES ASSUME m = 0 PROVE FALSE
      OBVIOUS
    <3>2. f[m] = {root} /\ Cardinality({root}) = 1
      BY <1>2, <3>1, FS_Singleton
    <3>3. Cardinality(f[m]) >= m + 1
      BY <3>1, <3>2
    <3>4. QED
      BY <2>4, <3>3
  <2>6. m \in 1 .. C /\ m - 1 \in 0 .. C /\ m - 1 \notin Bad
    BY <1>1, <2>4, <2>5
  <2>7. f[m] = f[m - 1] \cup Children(src, f[m - 1])
    BY <1>2, <2>6
  <2>8. ~(Children(src, f[m - 1]) \subseteq f[m - 1])
    BY <2>4, <2>7
  <2>9. Cardinality(f[m - 1]) >= m - 1 + 1
    BY <2>6, <2>8
  <2>10. f[m - 1] \subseteq f[m] /\ f[m - 1] # f[m]
    BY <2>7, <2>8
  <2>11. /\ Cardinality(f[m - 1]) <= Cardinality(f[m])
         /\ Cardinality(f[m - 1]) # Cardinality(f[m])
    BY <1>4, <2>6, <2>10, FS_Subset
  <2>12. Cardinality(f[m]) >= m + 1
    BY <1>1, <1>4, <2>6, <2>9, <2>11
  <2>13. QED
    BY <2>4, <2>12
<1>6. Children(src, f[C]) \subseteq f[C]
  BY <1>1, <1>4, <1>5
<1>7. \A n \in 0 .. C : root \in f[n] /\ \A X :
         (root \in X /\ Children(src, X) \subseteq X) => f[n] \subseteq X
  <2> DEFINE Within(n) == root \in f[n] /\ \A X :
               (root \in X /\ Children(src, X) \subseteq X) => f[n] \subseteq X
             Bad == {n \in 0 .. C : ~Within(n)}
  <2>1. SUFFICES ASSUME Bad # {} PROVE FALSE
    OBVIOUS
  <2>2. Bad \in SUBSET Nat
    BY <1>1
  <2>3. \E m \in Bad : \A n \in Bad : m <= n
    BY <2>1, <2>2, LeastOf
  <2>4. PICK m \in Bad : \A n \in Bad : m <= n
    BY <2>3
  <2>5. m # 0
    BY <1>2, <2>4
  <2>6. m \in 1 .. C /\ m - 1 \in 0 .. C /\ m - 1 \notin Bad
    BY <1>1, <2>4, <2>5
  <2>7. f[m] = f[m - 1] \cup Children(src, f[m - 1])
    BY <1>2, <2>6
  <2>8. Within(m - 1)
    BY <2>6
  <2>9. ASSUME NEW X, root \in X, Children(src, X) \subseteq X
        PROVE  f[m] \subseteq X
    <3>1. f[m - 1] \subseteq X
      BY <2>8, <2>9
    <3>2. Children(src, f[m - 1]) \subseteq Children(src, X)
      BY <3>1 DEF Children
    <3>3. QED
      BY <2>7, <2>9, <3>1, <3>2
  <2>10. Within(m)
    BY <2>7, <2>8, <2>9
  <2>11. QED
    BY <2>4, <2>10
<1>8. C \in 0 .. C /\ f[C] \subseteq Runs
  BY <1>1, <1>2
<1>9. QED
  BY <1>2, <1>6, <1>7, <1>8 DEF C

-----------------------------------------------------------------------------
(* What an import makes of an export.                                      *)

LEMMA LineFields ==
  /\ \A r, m : /\ MetaLine(r, m).record = "run_meta"
               /\ MetaLine(r, m).run = r /\ MetaLine(r, m).row = m
  /\ \A e : /\ StepLine(e).record = "step" /\ StepLine(e).run = e.run
            /\ StepLine(e).row = e
            /\ BareLine(e).record = "none" /\ BareLine(e).run = e.run
            /\ BareLine(e).row = e
            /\ EffectLine(e).record = "effect" /\ EffectLine(e).run = e.run
            /\ EffectLine(e).row = e
BY DEF MetaLine, StepLine, BareLine, EffectLine

(* The lines of the runs of F.                                             *)
BundleOf(F) == UNION {exportJsonl(LiveSource, r) : r \in F}

LEMMA BundleMembers ==
  ASSUME NEW F \in SUBSET Runs, NEW l
  PROVE  l \in BundleOf(F) <=>
           \/ \E r \in F : runMeta[r] # Nil /\ l = MetaLine(r, runMeta[r])
           \/ \E e \in stepJournal : e.run \in F /\ l = StepLine(e)
           \/ \E f \in effectLog : f.run \in F /\ l = EffectLine(f)
<1>1. \A r \in F : /\ l \in metaLines(LiveSource, r) <=>
                        runMeta[r] # Nil /\ l = MetaLine(r, runMeta[r])
                   /\ l \in stepLines(LiveSource, r) <=>
                        \E e \in stepJournal : e.run = r /\ l = StepLine(e)
                   /\ l \in effectLines(LiveSource, r) <=>
                        \E f \in effectLog : f.run = r /\ l = EffectLine(f)
  <2>1. SUFFICES ASSUME NEW r \in F
                 PROVE  /\ l \in metaLines(LiveSource, r) <=>
                             runMeta[r] # Nil /\ l = MetaLine(r, runMeta[r])
                        /\ l \in stepLines(LiveSource, r) <=>
                             \E e \in stepJournal : e.run = r /\ l = StepLine(e)
                        /\ l \in effectLines(LiveSource, r) <=>
                             \E f \in effectLog : f.run = r /\ l = EffectLine(f)
    OBVIOUS
  <2>2. l \in metaLines(LiveSource, r) <=> runMeta[r] # Nil /\ l = MetaLine(r, runMeta[r])
    BY DEF metaLines, allRunIds, LiveSource
  <2>3. l \in stepLines(LiveSource, r) <=> \E e \in stepJournal : e.run = r /\ l = StepLine(e)
    BY DEF stepLines, stepsOf, LiveSource
  <2>4. l \in effectLines(LiveSource, r) <=> \E f \in effectLog : f.run = r /\ l = EffectLine(f)
    BY DEF effectLines, effectsOf, LiveSource
  <2>5. QED
    BY <2>2, <2>3, <2>4
<1>2. l \in BundleOf(F) <=>
        \E r \in F : \/ l \in metaLines(LiveSource, r)
                    \/ l \in stepLines(LiveSource, r)
                    \/ l \in effectLines(LiveSource, r)
  BY DEF BundleOf, exportJsonl
<1>3. QED
  BY <1>1, <1>2

LEMMA ImportOfBundle ==
  ASSUME WorkflowIInv, NEW F \in SUBSET Runs
  PROVE  LET got == importJournalSource(BundleOf(F))
         IN  /\ got.steps = {e \in stepJournal : e.run \in F}
             /\ got.effects = {f \in effectLog : f.run \in F}
             /\ got.meta = [r \in Runs |-> IF r \in F THEN runMeta[r] ELSE Nil]
<1>1. PICK lines : lines = BundleOf(F)
  OBVIOUS
<1>2. \A l : l \in lines <=>
        \/ \E r \in F : runMeta[r] # Nil /\ l = MetaLine(r, runMeta[r])
        \/ \E e \in stepJournal : e.run \in F /\ l = StepLine(e)
        \/ \E f \in effectLog : f.run \in F /\ l = EffectLine(f)
  BY <1>1, BundleMembers
<1> DEFINE steps == {l.row : l \in {x \in lines : x.record \in {"step", "none"}}}
           metas == {l \in lines : l.record = "run_meta"}
           effects == {l.row : l \in {x \in lines : x.record = "effect"}}
<1>3. steps = {e \in stepJournal : e.run \in F}
  <2>1. ASSUME NEW l \in lines, l.record \in {"step", "none"}
        PROVE  l.row \in stepJournal /\ l.row.run \in F
    BY <1>2, <2>1, LineFields
  <2>2. ASSUME NEW e \in stepJournal, e.run \in F PROVE e \in steps
    <3>1. StepLine(e) \in lines /\ StepLine(e).record = "step" /\ StepLine(e).row = e
      BY <1>2, <2>2, LineFields
    <3>2. QED
      BY <3>1
  <2>3. QED
    BY <2>1, <2>2
<1>4. effects = {f \in effectLog : f.run \in F}
  <2>1. ASSUME NEW l \in lines, l.record = "effect"
        PROVE  l.row \in effectLog /\ l.row.run \in F
    BY <1>2, <2>1, LineFields
  <2>2. ASSUME NEW f \in effectLog, f.run \in F PROVE f \in effects
    <3>1. EffectLine(f) \in lines /\ EffectLine(f).record = "effect" /\ EffectLine(f).row = f
      BY <1>2, <2>2, LineFields
    <3>2. QED
      BY <3>1
  <2>3. QED
    BY <2>1, <2>2
<1>5. \A l \in metas : l.run \in F /\ runMeta[l.run] # Nil /\ l.row = runMeta[l.run]
  <2>1. SUFFICES ASSUME NEW l \in lines, l.record = "run_meta"
                 PROVE  l.run \in F /\ runMeta[l.run] # Nil /\ l.row = runMeta[l.run]
    OBVIOUS
  <2>2. PICK r \in F : runMeta[r] # Nil /\ l = MetaLine(r, runMeta[r])
    BY <1>2, <2>1, LineFields
  <2>3. QED
    BY <2>2, LineFields
<1>6. \A r \in F : runMeta[r] # Nil => \E l \in metas : l.run = r
  <2>1. SUFFICES ASSUME NEW r \in F, runMeta[r] # Nil PROVE \E l \in metas : l.run = r
    OBVIOUS
  <2>2. /\ MetaLine(r, runMeta[r]) \in lines
        /\ MetaLine(r, runMeta[r]).record = "run_meta"
        /\ MetaLine(r, runMeta[r]).run = r
    BY <1>2, <2>1, LineFields
  <2>3. QED
    BY <2>2
<1> HIDE DEF steps, metas, effects
<1>7. ASSUME NEW r \in Runs
      PROVE  (IF \E l \in metas : l.run = r
              THEN (CHOOSE l \in metas : l.run = r).row
              ELSE IF \E e \in steps : e.run = r THEN RootMeta ELSE Nil)
             = IF r \in F THEN runMeta[r] ELSE Nil
  <2>1. CASE \E l \in metas : l.run = r
    <3>1. PICK m : m = CHOOSE l \in metas : l.run = r
      OBVIOUS
    <3>2. m \in metas /\ m.run = r
      BY <2>1, <3>1
    <3>3. QED
      BY <1>5, <2>1, <3>1, <3>2
  <2>2. CASE ~\E l \in metas : l.run = r
    <3>1. r \in F => runMeta[r] = Nil
      BY <1>6, <2>2
    <3>2. ~\E e \in steps : e.run = r
      BY <1>3, <3>1 DEF WorkflowIInv, GapFreeTrajectories
    <3>3. QED
      BY <2>2, <3>1, <3>2
  <2>3. QED
    BY <2>1, <2>2
<1>8. importJournalSource(lines) =
        [meta |-> [r \in Runs |-> IF \E l \in metas : l.run = r
                                 THEN (CHOOSE l \in metas : l.run = r).row
                                 ELSE IF \E e \in steps : e.run = r THEN RootMeta ELSE Nil],
         steps |-> steps, effects |-> effects]
  BY DEF importJournalSource, parseExport, steps, metas, effects
<1>9. QED
  BY <1>1, <1>3, <1>4, <1>7, <1>8

(* A bare export holds the steps of its run and nothing else.              *)
LEMMA ImportOfBare ==
  ASSUME NEW r
  PROVE  LET got == importJournalSource(exportBare(LiveSource, r))
         IN  got.steps = trajectory(r) /\ got.effects = {}
<1>1. PICK lines : lines = exportBare(LiveSource, r)
  OBVIOUS
<1>2. \A l : l \in lines <=> \E e \in trajectory(r) : l = BareLine(e)
  BY <1>1, LiveSteps DEF exportBare
<1> DEFINE steps == {l.row : l \in {x \in lines : x.record \in {"step", "none"}}}
           effects == {l.row : l \in {x \in lines : x.record = "effect"}}
<1>3. steps = trajectory(r)
  <2>1. \A l \in lines : l.row \in trajectory(r)
    BY <1>2, LineFields
  <2>2. ASSUME NEW e \in trajectory(r) PROVE e \in steps
    <3>1. BareLine(e) \in lines /\ BareLine(e).record = "none" /\ BareLine(e).row = e
      BY <1>2, LineFields
    <3>2. QED
      BY <3>1
  <2>3. QED
    BY <2>1, <2>2
<1>4. effects = {}
  BY <1>2, LineFields
<1>5. QED
  BY <1>1, <1>3, <1>4 DEF importJournalSource, parseExport

-----------------------------------------------------------------------------
(* Replays of sources that show the same.                                  *)

(* What assertReplayMatches compares of a step does not need the effects.  *)
LEMMA ReplaysMatch ==
  ASSUME NEW a, NEW b, NEW r, stepsOf(a, r) = stepsOf(b, r)
  PROVE  /\ hitlStateFromSource(a, r) = hitlStateFromSource(b, r)
         /\ effectsOf(a, r) = effectsOf(b, r) => Matches(reconstruct(a, r), reconstruct(b, r))
         /\ effectsOf(b, r) = {} => Matches([reconstruct(a, r) EXCEPT !.effects = {}],
                                           reconstruct(b, r))
<1>1. hitlStateFromSource(a, r) = hitlStateFromSource(b, r)
  BY DEF hitlStateFromSource, Shows
<1>2. ASSUME NEW rows, NEW fired
      PROVE  {<<s.seq, s.step, s.output, s.key>> : s \in {ReplayedStep(e, fired) : e \in rows}}
             = {<<e.seq, e.step, e.output, e.key>> : e \in rows}
  <2>1. \A e : LET s == ReplayedStep(e, fired)
              IN  <<s.seq, s.step, s.output, s.key>> = <<e.seq, e.step, e.output, e.key>>
    BY DEF ReplayedStep
  <2>2. QED
    BY <2>1
<1>3. PICK rows : rows = stepsOf(a, r) /\ rows = stepsOf(b, r)
  OBVIOUS
<1>4. PICK fa, fb : fa = effectsOf(a, r) /\ fb = effectsOf(b, r)
  OBVIOUS
<1>5. /\ reconstruct(a, r).steps = {ReplayedStep(e, fa) : e \in rows}
      /\ reconstruct(a, r).effects = fa
      /\ reconstruct(b, r).steps = {ReplayedStep(e, fb) : e \in rows}
      /\ reconstruct(b, r).effects = fb
  BY <1>3, <1>4 DEF reconstruct
<1>6. /\ [reconstruct(a, r) EXCEPT !.effects = {}].steps = reconstruct(a, r).steps
      /\ [reconstruct(a, r) EXCEPT !.effects = {}].effects = {}
  BY DEF reconstruct
<1>7. fa = fb => Matches(reconstruct(a, r), reconstruct(b, r))
  BY <1>5 DEF Matches
<1>8. fb = {} => Matches([reconstruct(a, r) EXCEPT !.effects = {}], reconstruct(b, r))
  <2>1. {<<s.seq, s.step, s.output, s.key>> : s \in reconstruct(a, r).steps} =
        {<<s.seq, s.step, s.output, s.key>> : s \in reconstruct(b, r).steps}
    BY <1>2, <1>5
  <2>2. QED
    BY <1>5, <1>6, <2>1 DEF Matches
<1>9. QED
  BY <1>1, <1>4, <1>7, <1>8

(* A source that shows the lineage of a family shows its fork trees.       *)
ShowsFamily(got, root) ==
  got.meta = [r \in Runs |-> IF r \in Family(LiveSource, root) THEN runMeta[r] ELSE Nil]

LEMMA TreesMatch ==
  ASSUME NEW root \in Runs, NEW got, ShowsFamily(got, root),
         NEW r \in Family(LiveSource, root)
  PROVE  forkTree(got, r) = forkTree(LiveSource, r)
<1>1. PICK F : F = Family(LiveSource, root)
  OBVIOUS
<1>2. F \subseteq Runs /\ Children(LiveSource, F) \subseteq F
  BY <1>1, FamilyIsClosure
<1>3. r \in F /\ r \in Runs
  BY <1>1, <1>2
<1>4. ASSUME NEW x \in F PROVE childRuns(got, x) = childRuns(LiveSource, x)
  <2>1. childRuns(LiveSource, x) \subseteq F
    BY <1>2 DEF Children
  <2>2. \A c \in Runs : c \in F => got.meta[c] = LiveSource.meta[c]
    BY <1>1 DEF LiveSource, ShowsFamily
  <2>3. \A c \in Runs : c \notin F => got.meta[c] = Nil
    BY <1>1 DEF ShowsFamily
  <2>4. QED
    BY <2>1, <2>2, <2>3 DEF childRuns, allRunIds
<1>5. Family(LiveSource, r) \subseteq F
  BY <1>2, <1>3, FamilyIsClosure
<1>6. Family(got, r) \subseteq Family(LiveSource, r)
  <2>1. Children(got, Family(LiveSource, r)) \subseteq Family(LiveSource, r)
    <3>1. Children(LiveSource, Family(LiveSource, r)) \subseteq Family(LiveSource, r)
      BY <1>3, FamilyIsClosure
    <3>2. QED
      BY <1>4, <1>5, <3>1 DEF Children
  <2>2. r \in Family(LiveSource, r)
    BY <1>3, FamilyIsClosure
  <2>3. QED
    BY <1>3, <2>1, <2>2, FamilyIsClosure
<1>7. Family(LiveSource, r) \subseteq Family(got, r)
  <2>1. Children(LiveSource, Family(got, r)) \subseteq Family(got, r)
    <3>1. Children(got, Family(got, r)) \subseteq Family(got, r)
      BY <1>3, FamilyIsClosure
    <3>2. QED
      BY <1>4, <1>5, <1>6, <3>1 DEF Children
  <2>2. r \in Family(got, r)
    BY <1>3, FamilyIsClosure
  <2>3. QED
    BY <1>3, <2>1, <2>2, FamilyIsClosure
<1>8. \A x \in F : TreeNode(got, x) = TreeNode(LiveSource, x)
  BY <1>1, <1>2, <1>4 DEF TreeNode, LiveSource, ShowsFamily
<1>9. QED
  BY <1>5, <1>6, <1>7, <1>8 DEF forkTree

LEMMA ExportsMatch == WorkflowIInv => ExportsReplayTheSame
<1> SUFFICES ASSUME WorkflowIInv, NEW root \in Runs, NEW r \in Family(LiveSource, root)
             PROVE
  LET imported == importJournalSource(exportBundle(LiveSource, root))
      bare == importJournalSource(exportBare(LiveSource, r))
  IN  /\ Matches(reconstruct(LiveSource, r), reconstruct(imported, r))
      /\ hitlStateFromSource(imported, r) = hitlStateFromSource(LiveSource, r)
      /\ forkTree(imported, r) = forkTree(LiveSource, r)
      /\ Matches([reconstruct(LiveSource, r) EXCEPT !.effects = {}], reconstruct(bare, r))
      /\ hitlStateFromSource(bare, r) = hitlStateFromSource(LiveSource, r)
  BY DEF ExportsReplayTheSame
<1>1. PICK imported, bare :
        /\ imported = importJournalSource(exportBundle(LiveSource, root))
        /\ bare = importJournalSource(exportBare(LiveSource, r))
  OBVIOUS
<1>2. Family(LiveSource, root) \subseteq Runs
  BY FamilyIsClosure
<1>3. imported = importJournalSource(BundleOf(Family(LiveSource, root)))
  BY <1>1 DEF exportBundle, BundleOf
<1>4. /\ imported.steps = {e \in stepJournal : e.run \in Family(LiveSource, root)}
      /\ imported.effects = {f \in effectLog : f.run \in Family(LiveSource, root)}
      /\ imported.meta = [q \in Runs |-> IF q \in Family(LiveSource, root)
                                         THEN runMeta[q] ELSE Nil]
  BY <1>2, <1>3, ImportOfBundle
<1>5. /\ stepsOf(imported, r) = stepsOf(LiveSource, r)
      /\ effectsOf(imported, r) = effectsOf(LiveSource, r)
  BY <1>4 DEF stepsOf, effectsOf, LiveSource
<1>6. bare.steps = trajectory(r) /\ bare.effects = {}
  BY <1>1, ImportOfBare
<1>7. stepsOf(bare, r) = stepsOf(LiveSource, r) /\ effectsOf(bare, r) = {}
  BY <1>6 DEF stepsOf, effectsOf, LiveSource, trajectory
<1>8. forkTree(imported, r) = forkTree(LiveSource, r)
  <2>1. ShowsFamily(imported, root)
    BY <1>4 DEF ShowsFamily
  <2>2. QED
    BY <2>1, TreesMatch
<1>9. QED
  BY <1>1, <1>5, <1>7, <1>8, ReplaysMatch

(* An export taken at any moment and imported elsewhere replays like the   *)
(* journal it was taken from (exportBundleJsonl, compareSources).          *)
THEOREM ExportsReplay == ForkSpec => []ExportsReplayTheSame
<1>1. ForkIInv => ExportsReplayTheSame
  BY ExportsMatch DEF ForkIInv
<1>2. QED
  BY <1>1, ForkInvariant, PTL

-----------------------------------------------------------------------------
(* Lineages.                                                               *)

(* A walk up from r: each run forked off the one before it, none twice.    *)
IsChain(c, r) ==
  /\ c \in Seq(Runs) /\ Len(c) >= 1 /\ c[Len(c)] = r
  /\ \A i \in 1 .. Len(c) : runMeta[c[i]] # Nil
  /\ \A i \in 1 .. Len(c) : i > 1 => Parent(c[i]) = c[i - 1]
  /\ \A i, j \in 1 .. Len(c) : c[i] = c[j] => i = j

(* A parent is a run with rows, and its fork's point is one of its steps.  *)
LEMMA ParentIsRun ==
  ASSUME ForkIInv, NEW r \in Runs, Parent(r) # Nil
  PROVE  Parent(r) \in Runs /\ runMeta[Parent(r)] # Nil /\ runMeta[r].forkedAt \in Seqs
<1>1. WorkflowIInv /\ WorkflowTypeOK /\ RowsInv
  BY ForkParts
<1>2. runMeta[r].forkedAt \in Seqs
  BY <1>1 DEF RowsInv, LineageHasAPoint
<1>3. PICK d \in trajectory(Parent(r)) : TRUE
  <2>1. 1 \in 1 .. runMeta[r].forkedAt
    BY <1>2 DEF Seqs, MaxSeq
  <2>2. QED
    BY <1>1, <2>1 DEF RowsInv, ForksCopyTheirPrefix
<1>4. d \in StepRow /\ d.run = Parent(r) /\ runMeta[d.run] # Nil
  BY <1>1, <1>3 DEF WorkflowIInv, GapFreeTrajectories, WorkflowTypeOK, JournalTypeOK,
                    trajectory
<1>5. QED
  BY <1>2, <1>4 DEF StepRow

(* One hop up a lineage: to the parent if there is one.                    *)
LEMMA HopUp ==
  ASSUME ForkIInv, NEW r \in Runs, NEW c, IsChain(c, r)
  PROVE  /\ Parent(c[1]) = Nil => Hop(LiveSource, c) = c
         /\ Parent(c[1]) # Nil =>
              /\ Hop(LiveSource, c) = <<Parent(c[1])>> \o c
              /\ \A j \in 1 .. Len(c) : c[j] # Parent(c[1])
<1>1. /\ c \in Seq(Runs) /\ Len(c) \in Nat /\ Len(c) >= 1 /\ c # <<>>
      /\ Head(c) = c[1] /\ c[1] \in Runs /\ runMeta[c[1]] # Nil
      /\ 1 \in 1 .. Len(c) /\ DOMAIN c = 1 .. Len(c)
  BY DEF IsChain
<1>2. LiveSource.meta[Head(c)].parent = Parent(c[1])
  BY <1>1 DEF LiveSource, Parent
<1>3. CASE Parent(c[1]) = Nil
  BY <1>2, <1>3 DEF Hop
<1>4. CASE Parent(c[1]) # Nil
  <2>1. PICK p : p = Parent(c[1])
    OBVIOUS
  <2>2. p \in Runs /\ runMeta[p] # Nil /\ p # Nil
    BY <1>1, <1>4, <2>1, ParentIsRun
  <2>3. ASSUME NEW i \in 1 .. Len(c), c[i] = p PROVE FALSE
    <3> DEFINE S == {c[j] : j \in 1 .. i}
    <3>1. S \in SUBSET Runs /\ S # {}
      BY <1>1, <2>3
    <3>2. ASSUME NEW j \in 1 .. i PROVE Parent(c[j]) \in S
      <4>1. CASE j = 1
        BY <2>1, <2>3, <4>1
      <4>2. CASE j > 1
        <5>1. j \in 1 .. Len(c) /\ j - 1 \in 1 .. i
          BY <1>1, <2>3, <4>2
        <5>2. Parent(c[j]) = c[j - 1]
          BY <4>2, <5>1 DEF IsChain
        <5>3. QED
          BY <5>1, <5>2
      <4>3. QED
        BY <4>1, <4>2
    <3>3. \A q \in S : Parent(q) \in S
      BY <3>2
    <3> HIDE DEF S
    <3>4. QED
      BY <3>1, <3>3, ForkParts DEF RowsInv, LineagesEnd
  <2>4. Hop(LiveSource, c) = <<p>> \o c
    BY <1>1, <1>2, <2>1, <2>2, <2>3 DEF Hop, LiveSource
  <2>5. QED
    BY <1>4, <2>1, <2>3, <2>4
<1>5. QED
  BY <1>3, <1>4

LEMMA HopKeepsChain ==
  ASSUME ForkIInv, NEW r \in Runs, NEW c, IsChain(c, r)
  PROVE  /\ IsChain(Hop(LiveSource, c), r)
         /\ Parent(c[1]) # Nil => Len(Hop(LiveSource, c)) = Len(c) + 1
<1>1. CASE Parent(c[1]) = Nil
  BY <1>1, HopUp
<1>2. CASE Parent(c[1]) # Nil
  <2>1. PICK p, d : p = Parent(c[1]) /\ d = Hop(LiveSource, c)
    OBVIOUS
  <2>2. d = <<p>> \o c
    BY <1>2, <2>1, HopUp
  <2>3. c \in Seq(Runs) /\ Len(c) \in Nat /\ Len(c) >= 1 /\ c[1] \in Runs
    BY DEF IsChain
  <2>4. p \in Runs /\ runMeta[p] # Nil
    BY <1>2, <2>1, <2>3, ParentIsRun
  <2>5. d \in Seq(Runs) /\ Len(d) = Len(c) + 1 /\ d[1] = p
    BY <2>2, <2>3, <2>4
  <2>6. \A i \in 1 .. Len(d) : i > 1 => i - 1 \in 1 .. Len(c) /\ d[i] = c[i - 1]
    BY <2>2, <2>3, <2>5
  <2>7. d[Len(d)] = r
    BY <2>3, <2>5, <2>6 DEF IsChain
  <2>8. \A i \in 1 .. Len(d) : runMeta[d[i]] # Nil
    BY <2>4, <2>5, <2>6 DEF IsChain
  <2>9. ASSUME NEW i \in 1 .. Len(d), i > 1 PROVE Parent(d[i]) = d[i - 1]
    <3>1. CASE i = 2
      BY <2>1, <2>3, <2>5, <2>6, <3>1
    <3>2. CASE i > 2
      <4>1. i - 1 \in 1 .. Len(c) /\ i - 1 > 1 /\ i - 1 \in 1 .. Len(d)
        BY <2>5, <2>9, <3>2
      <4>2. Parent(c[i - 1]) = c[i - 1 - 1]
        BY <4>1 DEF IsChain
      <4>3. d[i] = c[i - 1] /\ d[i - 1] = c[i - 1 - 1]
        BY <2>6, <2>9, <4>1
      <4>4. QED
        BY <4>2, <4>3
    <3>3. QED
      BY <2>5, <2>9, <3>1, <3>2
  <2>10. \A j \in 1 .. Len(c) : c[j] # p
    BY <1>2, <2>1, HopUp
  <2>11. ASSUME NEW i \in 1 .. Len(d), NEW j \in 1 .. Len(d), d[i] = d[j] PROVE i = j
    <3>1. CASE i = 1 \/ j = 1
      BY <2>5, <2>6, <2>10, <2>11, <3>1
    <3>2. CASE i > 1 /\ j > 1
      <4>1. i - 1 = j - 1
        BY <2>6, <2>11, <3>2 DEF IsChain
      <4>2. QED
        BY <2>5, <4>1
    <3>3. QED
      BY <2>5, <3>1, <3>2
  <2>12. IsChain(d, r)
    BY <2>3, <2>5, <2>7, <2>8, <2>9, <2>11 DEF IsChain
  <2>13. QED
    BY <1>2, <2>1, <2>5, <2>12
<1>3. QED
  BY <1>1, <1>2

(* A lineage is the walk that has reached a root: as long as it has not,   *)
(* every hop adds a run, and there are no more than Cardinality(Runs).     *)
LEMMA LineageIsChain ==
  ASSUME ForkIInv, NEW r \in Runs, runMeta[r] # Nil
  PROVE  IsChain(lineage(LiveSource, r), r) /\ Parent(lineage(LiveSource, r)[1]) = Nil
<1> DEFINE C == Cardinality(Runs)
           S == {c \in Seq(Runs) : IsChain(c, r)}
           step == [c \in S |-> Hop(LiveSource, c)]
           IsIt(g) == g = [n \in 0 .. C |-> IF n = 0 THEN <<r>> ELSE Hop(LiveSource, g[n - 1])]
           up == CHOOSE g : IsIt(g)
<1>1. C \in Nat
  BY FiniteRuns, FS_CardinalityType
<1>2. \A c : c \in S <=> IsChain(c, r)
  BY DEF IsChain
<1>3. step \in [S -> S]
  BY <1>2, HopKeepsChain
<1>4. <<r>> \in S
  <2>1. IsChain(<<r>>, r)
    BY DEF IsChain
  <2>2. QED
    BY <1>2, <2>1
<1> HIDE DEF step, C, S
<1>5. PICK f \in [0 .. C -> S] : f[0] = <<r>> /\ \A n \in 1 .. C : f[n] = step[f[n - 1]]
  <2>1. \E f : IsIterate(f, S, <<r>>, step, C)
    BY <1>1, <1>3, <1>4, Iterates
  <2>2. QED
    BY <2>1 DEF IsIterate
<1>6. ASSUME NEW n \in 1 .. C PROVE f[n] = Hop(LiveSource, f[n - 1])
  <2>1. f[n - 1] \in S
    BY <1>1, <1>5
  <2>2. QED
    BY <1>5, <2>1 DEF step
<1>7. IsIt(f)
  <2>1. f = [n \in 0 .. C |-> f[n]]
    BY <1>5
  <2>2. \A n \in 0 .. C : f[n] = IF n = 0 THEN <<r>> ELSE Hop(LiveSource, f[n - 1])
    <3>1. SUFFICES ASSUME NEW n \in 0 .. C
                   PROVE f[n] = IF n = 0 THEN <<r>> ELSE Hop(LiveSource, f[n - 1])
      OBVIOUS
    <3>2. n # 0 => n \in 1 .. C
      BY <1>1
    <3>3. QED
      BY <1>5, <1>6, <3>2
  <2>3. QED
    BY <2>1, <2>2
<1>8. IsIt(up)
  BY <1>7
<1>9. lineage(LiveSource, r) = up[C]
  BY DEF lineage, C, LiveSource
<1> HIDE DEF up
<1>10. \A n \in 0 .. C : up[n] = f[n]
  <2> DEFINE Bad == {n \in 0 .. C : up[n] # f[n]}
  <2>1. SUFFICES ASSUME Bad # {} PROVE FALSE
    OBVIOUS
  <2>2. Bad \in SUBSET Nat
    BY <1>1
  <2>3. \E m \in Bad : \A n \in Bad : m <= n
    BY <2>1, <2>2, LeastOf
  <2>4. PICK m \in Bad : \A n \in Bad : m <= n
    BY <2>3
  <2>5. m \in 1 .. C
    BY <1>1, <1>5, <1>8, <2>4
  <2>6. m - 1 \in 0 .. C /\ m - 1 \notin Bad
    BY <1>1, <2>4, <2>5
  <2>7. up[m - 1] = f[m - 1]
    BY <2>6
  <2>8. up[m] = Hop(LiveSource, up[m - 1])
    BY <1>1, <1>8, <2>5
  <2>9. QED
    BY <1>6, <2>4, <2>5, <2>7, <2>8
<1>11. \A n \in 0 .. C : IsChain(f[n], r)
  BY <1>2, <1>5
<1>12. \A n \in 0 .. C : Parent(f[n][1]) = Nil \/ Len(f[n]) >= n + 1
  <2> DEFINE Bad == {n \in 0 .. C : ~(Parent(f[n][1]) = Nil \/ Len(f[n]) >= n + 1)}
  <2>1. SUFFICES ASSUME Bad # {} PROVE FALSE
    OBVIOUS
  <2>2. Bad \in SUBSET Nat
    BY <1>1
  <2>3. \E m \in Bad : \A n \in Bad : m <= n
    BY <2>1, <2>2, LeastOf
  <2>4. PICK m \in Bad : \A n \in Bad : m <= n
    BY <2>3
  <2>5. m # 0
    <3>1. Len(f[0]) = 1
      BY <1>5
    <3>2. QED
      BY <2>4, <3>1
  <2>6. m \in 1 .. C /\ m - 1 \in 0 .. C /\ m - 1 \notin Bad
    BY <1>1, <2>4, <2>5
  <2>7. PICK c, d : c = f[m - 1] /\ d = f[m]
    OBVIOUS
  <2>8. IsChain(c, r) /\ IsChain(d, r) /\ d = Hop(LiveSource, c)
    BY <1>6, <1>11, <2>6, <2>7
  <2>9. Len(c) \in Nat /\ Len(d) \in Nat
    BY <2>8 DEF IsChain
  <2>10. CASE Parent(c[1]) = Nil
    <3>1. d = c
      BY <2>8, <2>10, HopUp
    <3>2. QED
      BY <2>4, <2>7, <2>10, <3>1
  <2>11. CASE Parent(c[1]) # Nil
    <3>1. Len(d) = Len(c) + 1
      BY <2>8, <2>11, HopKeepsChain
    <3>2. Len(c) >= m - 1 + 1
      BY <2>6, <2>7, <2>11
    <3>3. Len(d) >= m + 1
      BY <1>1, <2>6, <2>9, <3>1, <3>2
    <3>4. QED
      BY <2>4, <2>7, <3>3
  <2>12. QED
    BY <2>10, <2>11
<1>13. ASSUME NEW c, IsChain(c, r) PROVE Len(c) <= C
  <2>1. c \in [1 .. Len(c) -> Runs] /\ Len(c) \in Nat
    BY <1>13 DEF IsChain
  <2>2. IsFiniteSet(1 .. Len(c)) /\ Cardinality(1 .. Len(c)) = Len(c)
    <3>1. PICK k : k = Len(c)
      OBVIOUS
    <3>2. k \in Int /\ 1 \in Int /\ k >= 1
      BY <1>13, <2>1, <3>1 DEF IsChain
    <3>3. IsFiniteSet(1 .. k) /\ Cardinality(1 .. k) = k
      BY <3>2, FS_Interval
    <3>4. QED
      BY <3>1, <3>3
  <2>3. \A i, j \in 1 .. Len(c) : c[i] = c[j] => i = j
    BY <1>13 DEF IsChain
  <2>4. ~ (C < Cardinality(1 .. Len(c)))
    <3>1. SUFFICES ASSUME C < Cardinality(1 .. Len(c)) PROVE FALSE
      OBVIOUS
    <3>2. \E x, y \in 1 .. Len(c) : x # y /\ c[x] = c[y]
      BY <2>1, <2>2, <3>1, FiniteRuns, FS_PigeonHole DEF C
    <3>3. QED
      BY <2>3, <3>2
  <2>5. QED
    BY <1>1, <2>1, <2>2, <2>4
<1>14. IsChain(f[C], r) /\ Len(f[C]) \in Nat /\ C \in 0 .. C
  <2>1. C \in 0 .. C
    BY <1>1
  <2>2. IsChain(f[C], r)
    BY <1>11, <2>1
  <2>3. QED
    BY <2>1, <2>2 DEF IsChain
<1>15. Parent(f[C][1]) = Nil
  BY <1>1, <1>12, <1>13, <1>14
<1>16. QED
  BY <1>9, <1>10, <1>14, <1>15

(* What a reader sees of a run's seeded steps is its fork point.           *)
LEMMA SeededThrough ==
  ASSUME ForkIInv, NEW r \in Runs, runMeta[r] # Nil
  PROVE  seededSeqs(LiveSource, r) =
           IF runMeta[r].parent = Nil THEN {} ELSE 1 .. runMeta[r].forkedAt
<1>1. RowsInv /\ WorkflowTypeOK
  BY ForkParts
<1>2. Parent(r) = runMeta[r].parent
  BY DEF Parent
<1>3. /\ \A e \in trajectory(r) : e.seq \in Seqs
      /\ \A e \in trajectory(r) :
           e.seededFrom # Nil <=> (Parent(r) # Nil /\ e.seq <= runMeta[r].forkedAt)
  <2>1. \A e \in trajectory(r) : e.seq \in Seqs
    BY <1>1 DEF WorkflowTypeOK, JournalTypeOK, StepRow, trajectory
  <2>2. QED
    BY <1>1, <2>1 DEF RowsInv, ForksCopyTheirPrefix
<1>4. seededSeqs(LiveSource, r) = {e.seq : e \in {x \in trajectory(r) : x.seededFrom # Nil}}
  BY LiveSteps DEF seededSeqs
<1>5. CASE Parent(r) = Nil
  <2>1. {x \in trajectory(r) : x.seededFrom # Nil} = {}
    BY <1>3, <1>5
  <2>2. QED
    BY <1>2, <1>4, <1>5, <2>1
<1>6. CASE Parent(r) # Nil
  <2>1. runMeta[r].forkedAt \in Seqs
    BY <1>6, ParentIsRun
  <2>2. ASSUME NEW n \in 1 .. runMeta[r].forkedAt
        PROVE  n \in seededSeqs(LiveSource, r)
    <3>1. PICK e \in trajectory(r) : e.seq = n
      BY <1>1, <1>6 DEF RowsInv, ForksCopyTheirPrefix
    <3>2. e.seededFrom # Nil
      BY <1>3, <1>6, <2>1, <3>1 DEF Seqs, MaxSeq
    <3>3. QED
      BY <1>4, <3>1, <3>2
  <2>3. ASSUME NEW e \in trajectory(r), e.seededFrom # Nil
        PROVE  e.seq \in 1 .. runMeta[r].forkedAt
    <3>1. e.seq \in Seqs
      BY <1>3
    <3>2. e.seq <= runMeta[r].forkedAt
      BY <1>3, <2>3
    <3>3. QED
      BY <2>1, <3>1, <3>2 DEF Seqs, MaxSeq
  <2>4. QED
    BY <1>2, <1>4, <1>6, <2>2, <2>3
<1>7. QED
  BY <1>5, <1>6

(* Both runs have the step, with the same output.                          *)
Agree(a, b, n) ==
  \E d \in trajectory(a), e \in trajectory(b) : d.seq = n /\ e.seq = n /\ d.output = e.output

LEMMA AgreeIsSame ==
  ASSUME WorkflowIInv, NEW a, NEW b, NEW n, Agree(a, b, n)
  PROVE  StepDiff(LiveSource, a, b, n) = "same"
<1>1. PICK d \in trajectory(a), e \in trajectory(b) :
        d.seq = n /\ e.seq = n /\ d.output = e.output
  BY DEF Agree
<1>2. n \in SeqsOf(LiveSource, a) /\ n \in SeqsOf(LiveSource, b)
  BY <1>1, LiveSteps DEF SeqsOf
<1>3. OneRowPerStep
  BY DEF WorkflowIInv
<1>4. OutputAt(LiveSource, a, n) = d.output
  <2>1. \A x \in trajectory(a) : x.seq = n => x = d
    BY <1>1, <1>3 DEF OneRowPerStep, trajectory
  <2>2. (CHOOSE x \in trajectory(a) : x.seq = n) = d
    BY <1>1, <2>1
  <2>3. QED
    BY <2>2, LiveSteps DEF OutputAt
<1>5. OutputAt(LiveSource, b, n) = e.output
  <2>1. \A x \in trajectory(b) : x.seq = n => x = e
    BY <1>1, <1>3 DEF OneRowPerStep, trajectory
  <2>2. (CHOOSE x \in trajectory(b) : x.seq = n) = e
    BY <1>1, <2>1
  <2>3. QED
    BY <2>2, LiveSteps DEF OutputAt
<1>6. QED
  BY <1>1, <1>2, <1>4, <1>5 DEF StepDiff

(* Down a lineage all runs agree up to the smallest fork point between.    *)
LEMMA ChainAgrees ==
  ASSUME ForkIInv, NEW r \in Runs, NEW c, IsChain(c, r), NEW i \in 1 .. Len(c) - 1,
         NEW k \in Seqs, \A j \in i + 1 .. Len(c) : k <= runMeta[c[j]].forkedAt,
         NEW n \in 1 .. k
  PROVE  Agree(c[i], r, n)
<1>1. RowsInv /\ WorkflowIInv
  BY ForkParts
<1>2. /\ Len(c) \in Nat /\ c \in Seq(Runs) /\ i \in Nat /\ k \in Nat /\ n \in Nat
      /\ 1 <= i /\ i <= Len(c) - 1 /\ n <= k /\ 1 <= n /\ c[Len(c)] = r
  BY DEF IsChain, Seqs, MaxSeq
<1>3. ASSUME NEW j \in i + 1 .. Len(c)
      PROVE  Agree(c[j - 1], c[j], n)
  <2>1. j \in 1 .. Len(c) /\ j > 1 /\ c[j] \in Runs /\ c[j - 1] \in Runs
    BY <1>2
  <2>2. Parent(c[j]) = c[j - 1] /\ Parent(c[j]) # Nil
    BY <2>1, NilAssumption DEF IsChain
  <2>3. runMeta[c[j]].forkedAt \in Seqs
    BY <2>1, <2>2, ParentIsRun
  <2>4. n \in 1 .. runMeta[c[j]].forkedAt
    BY <1>2, <1>3, <2>3 DEF Seqs, MaxSeq
  <2>5. PICK e \in trajectory(c[j]), d \in trajectory(Parent(c[j])) :
          e.seq = n /\ e = SeededRow(d, c[j], Parent(c[j]))
    BY <1>1, <2>1, <2>2, <2>4 DEF RowsInv, ForksCopyTheirPrefix
  <2>6. d \in StepRow
    BY ForkParts DEF WorkflowTypeOK, JournalTypeOK, trajectory
  <2>7. e.seq = d.seq /\ e.output = d.output
    <3>1. PICK q, s : q = c[j] /\ s = Parent(c[j])
      OBVIOUS
    <3>2. q \in Runs /\ s \in Runs /\ e = SeededRow(d, q, s)
      BY <2>1, <2>2, <2>5, <3>1
    <3>3. SeededRow(d, q, s).seq = d.seq /\ SeededRow(d, q, s).output = d.output
      BY <2>6, <3>2 DEF SeededRow, StepRow
    <3>4. QED
      BY <3>2, <3>3
  <2>8. QED
    BY <2>2, <2>5, <2>7 DEF Agree
<1>4. HasEntry(c[i], n)
  <2>1. i + 1 \in i + 1 .. Len(c)
    BY <1>2
  <2>2. Agree(c[i + 1 - 1], c[i + 1], n)
    BY <1>3, <2>1
  <2>3. QED
    BY <1>2, <2>2 DEF Agree, HasEntry, trajectory
<1>5. \A j \in i .. Len(c) : Agree(c[i], c[j], n)
  <2> DEFINE Bad == {j \in i .. Len(c) : ~Agree(c[i], c[j], n)}
  <2>1. SUFFICES ASSUME Bad # {} PROVE FALSE
    OBVIOUS
  <2>2. Bad \in SUBSET Nat
    BY <1>2
  <2>3. \E m \in Bad : \A j \in Bad : m <= j
    BY <2>1, <2>2, LeastOf
  <2>4. PICK m \in Bad : \A j \in Bad : m <= j
    BY <2>3
  <2>5. m # i
    BY <1>4, <2>4 DEF Agree, HasEntry, trajectory
  <2>6. m \in i + 1 .. Len(c) /\ m - 1 \in i .. Len(c) /\ m - 1 \notin Bad
    BY <1>2, <2>4, <2>5
  <2>7. Agree(c[i], c[m - 1], n) /\ Agree(c[m - 1], c[m], n)
    BY <1>3, <2>6
  <2>8. Agree(c[i], c[m], n)
    <3>1. PICK a, b, x : a = c[i] /\ b = c[m - 1] /\ x = c[m]
      OBVIOUS
    <3>2. OneRowPerStep
      BY <1>1 DEF WorkflowIInv
    <3>3. Agree(a, b, n) /\ Agree(b, x, n)
      BY <2>7, <3>1
    <3>4. Agree(a, x, n)
      BY <3>2, <3>3 DEF Agree, OneRowPerStep, trajectory
    <3>5. QED
      BY <3>1, <3>4
  <2>9. QED
    BY <2>4, <2>8
<1>6. QED
  BY <1>2, <1>5

LEMMA LineagesExplain == ForkIInv => LineagesExplainDiffs
<1> SUFFICES ASSUME ForkIInv, NEW r \in allRunIds(LiveSource)
             PROVE
  LET chain == lineage(LiveSource, r)
  IN  /\ runMeta[chain[1]].parent = Nil
      /\ seededSeqs(LiveSource, r) =
           IF runMeta[r].parent = Nil THEN {} ELSE 1 .. runMeta[r].forkedAt
      /\ \A i \in 1 .. Len(chain) - 1 :
           LET first == firstDivergenceSeq(LiveSource, chain[i], r)
           IN  first = Nil \/ first > SharedThrough(chain, i)
  BY DEF LineagesExplainDiffs
<1>1. r \in Runs /\ runMeta[r] # Nil /\ WorkflowIInv
  BY ForkParts DEF allRunIds, LiveSource
<1>2. PICK c : c = lineage(LiveSource, r)
  OBVIOUS
<1>3. IsChain(c, r) /\ Parent(c[1]) = Nil
  BY <1>1, <1>2, LineageIsChain
<1>4. c \in Seq(Runs) /\ Len(c) \in Nat /\ Len(c) >= 1 /\ runMeta[c[1]] # Nil
  BY <1>3 DEF IsChain
<1>5. runMeta[c[1]].parent = Nil
  BY <1>3, <1>4 DEF Parent
<1>6. ASSUME NEW i \in 1 .. Len(c) - 1
      PROVE  LET first == firstDivergenceSeq(LiveSource, c[i], r)
             IN  first = Nil \/ first > SharedThrough(c, i)
  <2>1. \A j \in i + 1 .. Len(c) : runMeta[c[j]].forkedAt \in Seqs
    <3>1. SUFFICES ASSUME NEW j \in i + 1 .. Len(c) PROVE runMeta[c[j]].forkedAt \in Seqs
      OBVIOUS
    <3>2. j \in 1 .. Len(c) /\ j > 1 /\ c[j] \in Runs /\ c[j - 1] \in Runs
      BY <1>4, <1>6
    <3>3. Parent(c[j]) # Nil
      BY <1>3, <3>2, NilAssumption DEF IsChain
    <3>4. QED
      BY <3>2, <3>3, ParentIsRun
  <2> DEFINE T == {runMeta[c[j]].forkedAt : j \in (i + 1) .. Len(c)}
  <2>2. T \in SUBSET Nat /\ T \subseteq Seqs /\ T # {}
    <3>1. i + 1 \in i + 1 .. Len(c)
      BY <1>4, <1>6
    <3>2. QED
      BY <2>1, <3>1 DEF Seqs, MaxSeq
  <2>3. \E n \in T : \A m \in T : n <= m
    BY <2>2, LeastOf
  <2>4. \E n \in T : \A j \in (i + 1) .. Len(c) : n <= runMeta[c[j]].forkedAt
    BY <2>3
  <2>5. PICK k : k = SharedThrough(c, i)
    OBVIOUS
  <2>6. k \in T /\ \A j \in (i + 1) .. Len(c) : k <= runMeta[c[j]].forkedAt
    BY <2>4, <2>5 DEF SharedThrough
  <2>7. k \in Seqs
    BY <2>2, <2>6
  <2> HIDE DEF T
  <2>8. \A n \in 1 .. k : StepDiff(LiveSource, c[i], r, n) = "same"
    <3>1. SUFFICES ASSUME NEW n \in 1 .. k PROVE StepDiff(LiveSource, c[i], r, n) = "same"
      OBVIOUS
    <3>2. Agree(c[i], r, n)
      BY <1>1, <1>3, <2>6, <2>7, ChainAgrees
    <3>3. QED
      BY <1>1, <3>2, AgreeIsSame
  <2>9. PICK D : D = Divergent(LiveSource, c[i], r)
    OBVIOUS
  <2>10. D \in SUBSET Nat /\ \A n \in D : n \notin 1 .. k /\ n \in Seqs
    <3>1. SeqsOf(LiveSource, c[i]) \subseteq Seqs /\ SeqsOf(LiveSource, r) \subseteq Seqs
      BY <1>1, LiveSteps DEF SeqsOf, WorkflowIInv, WorkflowTypeOK, JournalTypeOK, StepRow,
                             trajectory
    <3>2. QED
      BY <2>8, <2>9, <3>1 DEF Divergent, Seqs, MaxSeq
  <2>11. CASE D = {}
    BY <2>9, <2>11 DEF firstDivergenceSeq
  <2>12. CASE D # {}
    <3>1. \E n \in D : \A m \in D : n <= m
      BY <2>10, <2>12, LeastOf
    <3>2. firstDivergenceSeq(LiveSource, c[i], r) \in D
      BY <2>9, <2>12, <3>1 DEF firstDivergenceSeq
    <3>3. \A n \in D : n > k
      BY <2>7, <2>10 DEF Seqs, MaxSeq
    <3>4. QED
      BY <2>5, <3>2, <3>3
  <2>13. QED
    BY <2>11, <2>12
<1>7. QED
  BY <1>1, <1>2, <1>5, <1>6, SeededThrough

(* Lineages end at a root, and a diff with an ancestor shows no divergence *)
(* before a fork point in between (diffTrajectories, lineage).             *)
THEOREM LineagesTell == ForkSpec => []LineagesExplainDiffs
<1>1. QED
  BY LineagesExplain, ForkInvariant, PTL

=============================================================================
