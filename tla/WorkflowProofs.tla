--------------------------- MODULE WorkflowProofs ---------------------------
(***************************************************************************)
(* Machine-checked proofs about Workflow.                                  *)
(***************************************************************************)
EXTENDS Workflow, TLAPS

-----------------------------------------------------------------------------
(* The step tables.                                                        *)

Wfs == {"AgentRun", "HitlAgentRun"}

(* A table lists steps of the journal's vocabulary and is short enough.    *)
LEMMA StepTable ==
  ASSUME NEW wf \in Wfs
  PROVE  /\ StepsOf(wf) \in Seq(StepNames)
         /\ Len(StepsOf(wf)) \in Nat /\ 3 <= Len(StepsOf(wf)) /\ Len(StepsOf(wf)) <= 5
         /\ \A k \in 1 .. Len(StepsOf(wf)) : StepsOf(wf)[k] \in StepNames
<1>1. CASE wf = "AgentRun"
  BY <1>1 DEF StepsOf, AgentSteps, StepNames
<1>2. CASE wf = "HitlAgentRun"
  BY <1>2 DEF StepsOf, HitlSteps, StepNames
<1>3. QED
  BY <1>1, <1>2 DEF Wfs

(* A workflow has one tool step; a step reads only steps before it.        *)
LEMMA StepOrder ==
  ASSUME NEW wf \in Wfs, NEW k \in 1 .. Len(StepsOf(wf))
  PROVE  /\ StepsOf(wf)[k] = "step1-plan" <=> k = 1
         /\ \A j \in OutputReads(StepsOf(wf)[k]) : j \in 1 .. k - 1
         /\ StepsOf(wf)[k] \in ToolSteps =>
              /\ \A j \in PayloadReads(StepsOf(wf)[k]) : j \in 1 .. k - 1
              /\ 1 \in PayloadReads(StepsOf(wf)[k])
              /\ \A j \in 1 .. Len(StepsOf(wf)) :
                   StepsOf(wf)[j] \in ToolSteps => j = k
<1>1. CASE wf = "AgentRun"
  BY <1>1 DEF StepsOf, AgentSteps, ToolSteps, OutputReads, PayloadReads,
         OutputUses, PayloadUses, Seqs, MaxSeq
<1>2. CASE wf = "HitlAgentRun"
  <2>1. k \in 1 .. 5
    BY <1>2 DEF StepsOf, HitlSteps
  <2>2. QED
    BY <1>2, <2>1 DEF StepsOf, HitlSteps, ToolSteps, OutputReads, PayloadReads,
         OutputUses, PayloadUses, Seqs, MaxSeq
<1>3. QED
  BY <1>1, <1>2 DEF Wfs

-----------------------------------------------------------------------------
(* Types of the pieces an action reads.                                    *)

LEMMA AttemptTyped ==
  ASSUME WorkflowTypeOK, NEW w \in Workers, at[w].pc # "idle"
  PROVE  /\ at[w] \in Attempt
         /\ at[w].run \in Runs
         /\ at[w].seq \in 1 .. MaxSeq + 1
         /\ at[w].val \in Output \cup {Nil}
<1>1. at[w] \in Attempt
  BY DEF WorkflowTypeOK, Idle
<1>2. QED
  BY <1>1 DEF Attempt

LEMMA InvocationTyped ==
  ASSUME WorkflowTypeOK, NEW r \in Runs, invocation[r] # Nil
  PROVE  /\ invocation[r].wf \in Wfs
         /\ invocation[r].prompt \in Prompts
         /\ Steps(r) \in Seq(StepNames)
         /\ Len(Steps(r)) \in Nat /\ 3 <= Len(Steps(r)) /\ Len(Steps(r)) <= 5
         /\ \A k \in 1 .. Len(Steps(r)) : Steps(r)[k] \in StepNames
<1>1. invocation[r] \in Invocations
  BY DEF WorkflowTypeOK
<1>2. invocation[r].wf \in Wfs /\ invocation[r].prompt \in Prompts
  BY <1>1 DEF Invocations, Wfs
<1>3. QED
  BY <1>2, StepTable DEF Steps

-----------------------------------------------------------------------------
(* The invariant holds initially.                                          *)

LEMMA InitInv == WorkflowInit => WorkflowIInv
<1> SUFFICES ASSUME WorkflowInit PROVE WorkflowIInv
  OBVIOUS
<1> USE DEF WorkflowInit, JournalInit
<1>1. WorkflowTypeOK
  BY WorkflowAssumption DEF WorkflowTypeOK, JournalTypeOK
<1>2. \A w \in Workers : at[w].pc = "idle"
  BY DEF Idle
<1>3. OneRowPerStep /\ GapFreeTrajectories /\ OutputsFromJournal
  BY DEF OneRowPerStep, GapFreeTrajectories, OutputsFromJournal
<1>4. EnginePosition /\ EngineAgreesWithJournal /\ ResultsFromEngine
  BY DEF EnginePosition, EngineAgreesWithJournal, ResultsFromEngine
<1>5. OwnerPosition /\ AttemptsOK
  BY <1>2 DEF OwnerPosition, AttemptsOK, AttemptOK
<1>6. EffectRows /\ EffectsFromJournal /\ OneEffectPerRun
  BY DEF EffectRows, EffectsFromJournal, OneEffectPerRun
<1>7. QED
  BY <1>1, <1>3, <1>4, <1>5, <1>6 DEF WorkflowIInv

-----------------------------------------------------------------------------
(* Steps that leave the databases and the engine's results alone.          *)

(* The part of the invariant that only speaks of those.                    *)
StoreInv ==
  /\ OneRowPerStep /\ GapFreeTrajectories /\ OutputsFromJournal
  /\ EnginePosition /\ EngineAgreesWithJournal
  /\ EffectRows /\ EffectsFromJournal /\ OneEffectPerRun

LEMMA StoreFrame ==
  ASSUME StoreInv, UNCHANGED <<tableVars, invocation, engine>>
  PROVE  StoreInv'
<1> USE DEF tableVars
<1>1. OneRowPerStep' /\ GapFreeTrajectories' /\ OutputsFromJournal'
  BY DEF StoreInv, OneRowPerStep, GapFreeTrajectories, HasEntry,
         OutputsFromJournal, FoldsJournaled
<1>2. EnginePosition' /\ EngineAgreesWithJournal'
  BY DEF StoreInv, EnginePosition, Steps, EngineAgreesWithJournal, Recorded
<1>3. EffectRows' /\ EffectsFromJournal' /\ OneEffectPerRun'
  BY DEF StoreInv, EffectRows, Steps, EffectsFromJournal, FoldsJournaled,
         OneEffectPerRun, FiredAs
<1>4. QED
  BY <1>1, <1>2, <1>3 DEF StoreInv

LEMMA InvParts ==
  WorkflowIInv <=> /\ WorkflowTypeOK /\ StoreInv /\ ResultsFromEngine
                   /\ OwnerPosition /\ AttemptsOK
BY DEF WorkflowIInv, StoreInv

LEMMA EngineBound ==
  ASSUME WorkflowTypeOK, EnginePosition, NEW r \in Runs
  PROVE  engine[r] \in Seq(Output) /\ Len(engine[r]) \in Nat /\ Len(engine[r]) <= 5
<1>1. engine[r] \in Seq(Output) /\ Len(engine[r]) \in Nat
  BY DEF WorkflowTypeOK
<1>2. CASE engine[r] = <<>>
  BY <1>1, <1>2
<1>3. CASE engine[r] # <<>>
  <2>1. invocation[r] # Nil /\ Len(engine[r]) <= Len(Steps(r))
    BY <1>3 DEF EnginePosition
  <2>2. Len(Steps(r)) \in Nat /\ Len(Steps(r)) <= 5
    BY <2>1, InvocationTyped
  <2>3. QED
    BY <1>1, <2>1, <2>2
<1>4. QED
  BY <1>1, <1>2, <1>3

(* Nothing an attempt relies on is ever taken back.                        *)
Grows ==
  /\ stepJournal \subseteq stepJournal'
  /\ effectLog \subseteq effectLog'
  /\ \A r \in Runs :
       /\ invocation[r] # Nil => invocation'[r] = invocation[r]
       /\ runMeta[r] # Nil => runMeta'[r] # Nil
       /\ Len(engine[r]) <= Len(engine'[r])

LEMMA AttemptFrame ==
  ASSUME WorkflowTypeOK, WorkflowTypeOK', Grows, NEW v \in Workers,
         AttemptOK(v), at'[v] = at[v]
  PROVE  AttemptOK(v)'
<1>1. CASE at[v].pc = "idle"
  BY <1>1 DEF AttemptOK
<1>2. CASE at[v].pc # "idle"
  <2> DEFINE r == at[v].run
  <2>1. r \in Runs /\ at[v].seq \in Nat
    BY <1>2, AttemptTyped DEF MaxSeq
  <2>2. invocation[r] # Nil /\ invocation'[r] = invocation[r]
        /\ Len(engine[r]) <= Len(engine'[r])
        /\ Len(engine[r]) \in Nat /\ Len(engine'[r]) \in Nat
    BY <1>2, <2>1 DEF AttemptOK, Grows, WorkflowTypeOK
  <2>3. StepOf(v)' = StepOf(v) /\ HasStep(v)' = HasStep(v)
    BY <2>2 DEF StepOf, HasStep, Steps
  <2>4. (at[v].pc # "idle" =>
          /\ invocation[at[v].run] # Nil
          /\ at[v].seq <= Len(engine[at[v].run]) + 1
          /\ at[v].pc # "meta" => runMeta[at[v].run] # Nil
          /\ at[v].pc \in {"produce", "insert", "return"} => HasStep(v))'
    BY <1>2, <2>1, <2>2, <2>3 DEF AttemptOK, Grows
  <2>5. (at[v].pc = "return" => Recorded(at[v].run, at[v].seq, at[v].val))'
    BY DEF AttemptOK, Grows, Recorded
  <2>6. (at[v].pc = "insert" =>
          /\ at[v].val \in Output
          /\ FoldsJournaled(at[v].run, at[v].val.folds)
          /\ StepOf(v) \in ToolSteps => FiredAs(at[v].run, at[v].val.ext))'
    BY <2>3 DEF AttemptOK, Grows, FoldsJournaled, FiredAs
  <2>7. QED
    BY <2>4, <2>5, <2>6 DEF AttemptOK
<1>3. QED
  BY <1>1, <1>2

(* A step that only moves attempts: what is left to show of it.            *)
LEMMA AttemptStep ==
  ASSUME WorkflowIInv, NEW w \in Workers,
         UNCHANGED <<tableVars, invocation, engine, promise, result>>,
         faults' \in 0 .. MaxFaults,
         owner' \in [Runs -> Workers \cup {Nil}],
         at' \in [Workers -> Attempt \cup {Idle}],
         \A v \in Workers : v # w => at'[v] = at[v],
         OwnerPosition', AttemptOK(w)'
  PROVE  WorkflowIInv'
<1>1. WorkflowTypeOK /\ StoreInv /\ ResultsFromEngine /\ AttemptsOK
  BY InvParts
<1>2. WorkflowTypeOK'
  BY <1>1 DEF WorkflowTypeOK, JournalTypeOK, tableVars
<1>3. StoreInv' /\ ResultsFromEngine'
  BY <1>1, StoreFrame DEF ResultsFromEngine
<1>4. Grows
  BY <1>1 DEF Grows, tableVars, WorkflowTypeOK
<1>5. AttemptsOK'
  BY <1>1, <1>2, <1>4, AttemptFrame DEF AttemptsOK
<1>6. QED
  BY <1>2, <1>3, <1>5, InvParts DEF WorkflowIInv, StoreInv

LEMMA StartAttemptInv ==
  ASSUME WorkflowIInv, NEW w \in Workers, NEW r \in Runs, StartAttempt(w, r)
  PROVE  WorkflowIInv'
<1> USE DEF StartAttempt
<1>1. WorkflowTypeOK /\ OwnerPosition /\ AttemptsOK /\ EnginePosition
  BY DEF WorkflowIInv
<1>2. engine[r] \in Seq(Output) /\ Len(engine[r]) \in Nat /\ Len(engine[r]) <= 5
  BY <1>1, EngineBound
<1>3. at'[w] = [pc |-> "meta", run |-> r, seq |-> Len(engine[r]) + 1, val |-> Nil]
  BY <1>1 DEF WorkflowTypeOK
<1>4. at'[w] \in Attempt
  <2>1. Len(engine[r]) + 1 \in 1 .. MaxSeq + 1
    BY <1>2 DEF MaxSeq
  <2>2. QED
    BY <1>3, <2>1 DEF Attempt
<1>5. at' \in [Workers -> Attempt \cup {Idle}]
  BY <1>1, <1>3, <1>4 DEF WorkflowTypeOK
<1>6. owner' \in [Runs -> Workers \cup {Nil}] /\ faults' \in 0 .. MaxFaults
  BY <1>1 DEF WorkflowTypeOK
<1>7. OwnerPosition'
  <2>1. SUFFICES ASSUME NEW q \in Runs, owner'[q] # Nil
                 PROVE  /\ result[q] = Nil
                        /\ at'[owner'[q]].pc # "idle" /\ at'[owner'[q]].run = q
                        /\ at'[owner'[q]].seq = Len(engine[q]) + 1
    BY DEF OwnerPosition
  <2>2. CASE q = r
    BY <1>1, <1>3, <2>2 DEF WorkflowTypeOK
  <2>3. CASE q # r
    BY <1>1, <2>1, <2>3 DEF OwnerPosition, WorkflowTypeOK
  <2>4. QED
    BY <2>2, <2>3
<1>8. AttemptOK(w)'
  BY <1>2, <1>3 DEF AttemptOK
<1>9. \A v \in Workers : v # w => at'[v] = at[v]
  BY <1>1 DEF WorkflowTypeOK
<1>10. QED
  BY <1>5, <1>6, <1>7, <1>8, <1>9, AttemptStep

(* recordStep up to the INSERT leaves run, step and owner alone.           *)
LEMMA OwnerFrame ==
  ASSUME WorkflowTypeOK, OwnerPosition, NEW w \in Workers,
         UNCHANGED <<owner, engine, result>>,
         \A v \in Workers : v # w => at'[v] = at[v],
         at'[w].run = at[w].run, at'[w].seq = at[w].seq, at'[w].pc # "idle"
  PROVE  OwnerPosition'
<1>1. SUFFICES ASSUME NEW r \in Runs, owner[r] # Nil
               PROVE  /\ result[r] = Nil
                      /\ at'[owner[r]].pc # "idle" /\ at'[owner[r]].run = r
                      /\ at'[owner[r]].seq = Len(engine[r]) + 1
  BY DEF OwnerPosition
<1>2. owner[r] \in Workers
  BY <1>1 DEF WorkflowTypeOK
<1>3. QED
  BY <1>1, <1>2 DEF OwnerPosition

LEMMA ReplayStepInv ==
  ASSUME WorkflowIInv, NEW w \in Workers, ReplayStep(w)
  PROVE  WorkflowIInv'
<1> USE DEF ReplayStep
<1>1. WorkflowTypeOK /\ OwnerPosition /\ AttemptOK(w)
  BY DEF WorkflowIInv, AttemptsOK
<1>2. at[w] \in Attempt /\ at[w].pc # "idle"
  BY <1>1, AttemptTyped
<1> DEFINE e == getEntry(at[w].run, at[w].seq)
<1>3. e \in stepJournal /\ e.run = at[w].run /\ e.seq = at[w].seq
  BY DEF HasEntry, getEntry
<1>4. e.output \in Output
  BY <1>1, <1>3 DEF WorkflowTypeOK, JournalTypeOK, StepRow
<1> HIDE DEF e
<1>5. at'[w] = [at[w] EXCEPT !.pc = "return", !.val = e.output]
  BY <1>1 DEF WorkflowTypeOK, e
<1>6. at'[w] \in Attempt /\ at'[w].pc = "return" /\ at'[w].val = e.output
      /\ at'[w].run = at[w].run /\ at'[w].seq = at[w].seq
  <2> HIDE DEF ReplayStep
  <2>1. e.output \in Output \cup {Nil}
    BY <1>4
  <2>2. QED
    BY <1>2, <1>5, <2>1 DEF Attempt
<1>7. \A v \in Workers : v # w => at'[v] = at[v]
  BY <1>1 DEF WorkflowTypeOK
<1>8. at' \in [Workers -> Attempt \cup {Idle}]
  BY <1>1, <1>6, <1>7 DEF WorkflowTypeOK
<1>9. owner' \in [Runs -> Workers \cup {Nil}] /\ faults' \in 0 .. MaxFaults
  BY <1>1 DEF WorkflowTypeOK, engineVars
<1>10. OwnerPosition'
  BY <1>1, <1>6, <1>7, OwnerFrame DEF engineVars
<1>11. AttemptOK(w)'
  BY <1>1, <1>3, <1>6 DEF AttemptOK, Recorded, HasStep, Steps, tableVars, engineVars
<1>12. QED
  BY <1>7, <1>8, <1>9, <1>10, <1>11, AttemptStep DEF engineVars

LEMMA MissStepInv ==
  ASSUME WorkflowIInv, NEW w \in Workers, MissStep(w)
  PROVE  WorkflowIInv'
<1> USE DEF MissStep
<1>1. WorkflowTypeOK /\ OwnerPosition /\ AttemptOK(w)
  BY DEF WorkflowIInv, AttemptsOK
<1>2. at[w] \in Attempt /\ at[w].pc # "idle"
  BY <1>1, AttemptTyped
<1>3. at'[w] = [at[w] EXCEPT !.pc = "produce"]
  BY <1>1 DEF WorkflowTypeOK
<1>4. at'[w] \in Attempt /\ at'[w].pc = "produce"
      /\ at'[w].run = at[w].run /\ at'[w].seq = at[w].seq
  BY <1>2, <1>3 DEF Attempt
<1>5. \A v \in Workers : v # w => at'[v] = at[v]
  BY <1>1 DEF WorkflowTypeOK
<1>6. at' \in [Workers -> Attempt \cup {Idle}]
  BY <1>1, <1>4, <1>5 DEF WorkflowTypeOK
<1>7. owner' \in [Runs -> Workers \cup {Nil}] /\ faults' \in 0 .. MaxFaults
  BY <1>1 DEF WorkflowTypeOK, engineVars
<1>8. OwnerPosition'
  BY <1>1, <1>4, <1>5, OwnerFrame DEF engineVars
<1>9. AttemptOK(w)'
  BY <1>1, <1>4 DEF AttemptOK, HasStep, Steps, tableVars, engineVars
<1>10. QED
  BY <1>5, <1>6, <1>7, <1>8, <1>9, AttemptStep DEF engineVars

(* CallProvider and ComputeStep: the attempt now carries an output built   *)
(* from what the engine holds, hence from the journal.                     *)
LEMMA ValuesJournaled ==
  ASSUME WorkflowTypeOK, EnginePosition, EngineAgreesWithJournal,
         NEW r \in Runs, NEW S \in SUBSET Nat,
         \A j \in S : 1 <= j /\ j <= Len(engine[r])
  PROVE  Values(r, S) \in Folds /\ FoldsJournaled(r, Values(r, S))
<1>1. engine[r] \in Seq(Output) /\ Len(engine[r]) \in Nat /\ Len(engine[r]) <= 5
  BY EngineBound
<1>2. ASSUME NEW j \in S
      PROVE  /\ [seq |-> j, ext |-> engine[r][j].ext] \in [seq : Seqs, ext : Ext]
             /\ \E e \in stepJournal : e.run = r /\ e.seq = j
                                       /\ e.output.ext = engine[r][j].ext
  <2>1. j \in Nat /\ 1 <= j /\ j <= Len(engine[r]) /\ j <= 5
    BY <1>1
  <2>2. engine[r][j] \in Output
    BY <1>1, <2>1
  <2>3. engine[r][j].ext \in Ext /\ j \in Seqs
    BY <2>1, <2>2 DEF Output, Seqs, MaxSeq
  <2>4. Recorded(r, j, engine[r][j])
    BY <1>1, <2>1 DEF EngineAgreesWithJournal
  <2>5. QED
    BY <2>3, <2>4 DEF Recorded
<1>3. Values(r, S) \in Folds
  BY <1>2 DEF Values, Folds
<1>4. FoldsJournaled(r, Values(r, S))
  BY <1>2 DEF Values, FoldsJournaled
<1>5. QED
  BY <1>3, <1>4

(* Where a worker stands in its table while it runs a step.                *)
LEMMA StepFacts ==
  ASSUME WorkflowTypeOK, NEW w \in Workers, AttemptOK(w),
         at[w].pc \in {"produce", "insert", "return"}
  PROVE  /\ at[w].run \in Runs /\ at[w].seq \in Seqs
         /\ at[w].seq <= Len(Steps(at[w].run))
         /\ invocation[at[w].run] # Nil
         /\ runMeta[at[w].run] # Nil
         /\ StepOf(w) \in StepNames
         /\ \A j \in OutputReads(StepOf(w)) :
              j \in Nat /\ 1 <= j /\ j <= Len(engine[at[w].run])
         /\ StepOf(w) \in ToolSteps => \A j \in PayloadReads(StepOf(w)) :
              j \in Nat /\ 1 <= j /\ j <= Len(engine[at[w].run])
         /\ StepOf(w) \in ToolSteps => 1 \in PayloadReads(StepOf(w))
<1> DEFINE r == at[w].run
<1>1. at[w].pc # "idle" /\ r \in Runs /\ at[w].seq \in 1 .. MaxSeq + 1
  BY AttemptTyped
<1>2. invocation[r] # Nil /\ runMeta[r] # Nil
      /\ at[w].seq <= Len(Steps(r)) /\ at[w].seq <= Len(engine[r]) + 1
  BY <1>1 DEF AttemptOK, HasStep
<1>3. /\ invocation[r].wf \in Wfs
      /\ Len(Steps(r)) \in Nat /\ Len(Steps(r)) <= 5
      /\ \A k \in 1 .. Len(Steps(r)) : Steps(r)[k] \in StepNames
  BY <1>1, <1>2, InvocationTyped
<1>4. at[w].seq \in 1 .. Len(Steps(r)) /\ at[w].seq \in Nat
  BY <1>1, <1>2, <1>3
<1>5. at[w].seq \in Seqs
  BY <1>2, <1>3, <1>4 DEF Seqs, MaxSeq
<1>6. Len(engine[r]) \in Nat
  BY <1>1 DEF WorkflowTypeOK
<1>7. \A j \in OutputReads(StepOf(w)) : j \in 1 .. at[w].seq - 1
  BY <1>3, <1>4, StepOrder DEF StepOf, Steps
<1>8. StepOf(w) \in ToolSteps =>
        /\ \A j \in PayloadReads(StepOf(w)) : j \in 1 .. at[w].seq - 1
        /\ 1 \in PayloadReads(StepOf(w))
  BY <1>3, <1>4, StepOrder DEF StepOf, Steps
<1>9. \A j \in 1 .. at[w].seq - 1 : j \in Nat /\ 1 <= j /\ j <= Len(engine[r])
  BY <1>2, <1>4, <1>6
<1>10. StepOf(w) \in StepNames
  BY <1>3, <1>4 DEF StepOf
<1>11. QED
  BY <1>1, <1>2, <1>5, <1>7, <1>8, <1>9, <1>10

(* What a producer leaves behind: an output that can go into the journal.  *)
LEMMA ProducedOutput ==
  ASSUME WorkflowTypeOK, EnginePosition, EngineAgreesWithJournal,
         NEW w \in Workers, at[w].pc = "produce",
         NEW reads \in SUBSET Nat,
         \A j \in reads : 1 <= j /\ j <= Len(engine[at[w].run]),
         NEW x \in Ext, Produced(w, reads, x)
  PROVE  /\ at'[w] \in Attempt /\ at'[w].pc = "insert"
         /\ at'[w].run = at[w].run /\ at'[w].seq = at[w].seq
         /\ at'[w].val \in Output /\ at'[w].val.ext = x
         /\ FoldsJournaled(at[w].run, at'[w].val.folds)
         /\ \A v \in Workers : v # w => at'[v] = at[v]
         /\ at' \in [Workers -> Attempt \cup {Idle}]
<1>1. at[w] \in Attempt /\ at[w].run \in Runs
  BY AttemptTyped
<1> DEFINE folds == Values(at[w].run, reads)
           o     == [folds |-> folds, ext |-> x]
<1>2. folds \in Folds /\ FoldsJournaled(at[w].run, folds)
  BY <1>1, ValuesJournaled
<1> HIDE DEF folds
<1>3. o \in Output /\ o.folds = folds /\ o.ext = x
  BY <1>2 DEF Output
<1>4. at'[w] = [at[w] EXCEPT !.pc = "insert", !.val = o]
  BY DEF Produced, WorkflowTypeOK, folds
<1> HIDE DEF o
<1>5. /\ at'[w] \in Attempt /\ at'[w].pc = "insert" /\ at'[w].val = o
      /\ at'[w].run = at[w].run /\ at'[w].seq = at[w].seq
  BY <1>1, <1>3, <1>4 DEF Attempt
<1>6. \A v \in Workers : v # w => at'[v] = at[v]
  BY DEF Produced, WorkflowTypeOK
<1>7. at' \in [Workers -> Attempt \cup {Idle}]
  BY <1>5, <1>6 DEF Produced, WorkflowTypeOK
<1>8. QED
  BY <1>2, <1>3, <1>5, <1>6, <1>7

(* The two producers that leave every table alone.                         *)
LEMMA PureProducerInv ==
  ASSUME WorkflowIInv, NEW w \in Workers, at[w].pc = "produce",
         StepOf(w) \notin ToolSteps,
         NEW reads \in SUBSET OutputReads(StepOf(w)),
         NEW x \in Ext, Produced(w, reads, x),
         UNCHANGED <<tableVars, engineVars, faults>>
  PROVE  WorkflowIInv'
<1> USE DEF engineVars
<1>1. /\ WorkflowTypeOK /\ OwnerPosition /\ AttemptOK(w)
      /\ EnginePosition /\ EngineAgreesWithJournal
  BY DEF WorkflowIInv, AttemptsOK
<1>2. \A j \in reads : j \in Nat /\ 1 <= j /\ j <= Len(engine[at[w].run])
  BY <1>1, StepFacts
<1>3. /\ at'[w] \in Attempt /\ at'[w].pc = "insert"
      /\ at'[w].run = at[w].run /\ at'[w].seq = at[w].seq
      /\ at'[w].val \in Output
      /\ FoldsJournaled(at[w].run, at'[w].val.folds)
      /\ \A v \in Workers : v # w => at'[v] = at[v]
      /\ at' \in [Workers -> Attempt \cup {Idle}]
  BY <1>1, <1>2, ProducedOutput
<1>4. owner' \in [Runs -> Workers \cup {Nil}] /\ faults' \in 0 .. MaxFaults
  BY <1>1 DEF WorkflowTypeOK
<1>5. OwnerPosition'
  BY <1>1, <1>3, OwnerFrame
<1>6. StepOf(w)' = StepOf(w) /\ HasStep(w)' = HasStep(w)
  BY <1>3 DEF StepOf, HasStep, Steps
<1>7. FoldsJournaled(at[w].run, at[w].val.folds)'
  BY <1>3 DEF FoldsJournaled, tableVars
<1>8. AttemptOK(w)'
  BY <1>1, <1>3, <1>6, <1>7 DEF AttemptOK, tableVars
<1>9. QED
  BY <1>3, <1>4, <1>5, <1>8, AttemptStep

LEMMA CallProviderInv ==
  ASSUME WorkflowIInv, NEW w \in Workers, CallProvider(w)
  PROVE  WorkflowIInv'
<1>1. PICK c \in Completions : Produced(w, {}, c)
  BY DEF CallProvider
<1>2. c \in Ext /\ StepOf(w) \notin ToolSteps
  BY DEF CallProvider, Ext, ToolSteps
<1>3. QED
  BY <1>1, <1>2, PureProducerInv DEF CallProvider

LEMMA ComputeStepInv ==
  ASSUME WorkflowIInv, NEW w \in Workers, ComputeStep(w)
  PROVE  WorkflowIInv'
<1>1. WorkflowTypeOK /\ AttemptOK(w) /\ at[w].pc = "produce"
  BY DEF WorkflowIInv, AttemptsOK, ComputeStep
<1>2. at[w].run \in Runs /\ invocation[at[w].run] # Nil
  BY <1>1, StepFacts
<1>3. promise[at[w].run] \in Ext /\ invocation[at[w].run].prompt \in Ext
  BY <1>1, <1>2, InvocationTyped DEF WorkflowTypeOK, Ext
<1>4. OwnExt(w) \in Ext
  BY <1>3 DEF OwnExt, Ext
<1>5. QED
  BY <1>1, <1>4, PureProducerInv DEF ComputeStep

-----------------------------------------------------------------------------
(* Steps that end an attempt.                                              *)

LEMMA EndAttemptFrame ==
  ASSUME WorkflowTypeOK, OwnerPosition, NEW w \in Workers, at[w].pc # "idle",
         EndAttempt(w), UNCHANGED engine,
         \A r \in Runs : owner'[r] # Nil => result'[r] = result[r]
  PROVE  /\ at'[w] = Idle /\ \A v \in Workers : v # w => at'[v] = at[v]
         /\ at' \in [Workers -> Attempt \cup {Idle}]
         /\ owner' \in [Runs -> Workers \cup {Nil}]
         /\ OwnerPosition'
         /\ AttemptOK(w)'
<1>1. at'[w] = Idle /\ \A v \in Workers : v # w => at'[v] = at[v]
  BY DEF EndAttempt, WorkflowTypeOK
<1>2. at' \in [Workers -> Attempt \cup {Idle}]
  BY DEF EndAttempt, WorkflowTypeOK
<1>3. owner' \in [Runs -> Workers \cup {Nil}]
  BY DEF EndAttempt, WorkflowTypeOK
<1>4. \A r \in Runs : owner'[r] # Nil => owner'[r] = owner[r] /\ owner[r] # w
  BY DEF EndAttempt, WorkflowTypeOK, OwnerPosition
<1>5. OwnerPosition'
  BY <1>1, <1>4 DEF OwnerPosition, WorkflowTypeOK
<1>6. AttemptOK(w)'
  BY <1>1 DEF AttemptOK, Idle
<1>7. QED
  BY <1>1, <1>2, <1>3, <1>5, <1>6

LEMMA EndAttemptInv ==
  ASSUME WorkflowIInv, NEW w \in Workers, at[w].pc # "idle", EndAttempt(w),
         UNCHANGED <<tableVars, invocation, engine, promise, result>>,
         faults' \in 0 .. MaxFaults
  PROVE  WorkflowIInv'
<1>1. WorkflowTypeOK /\ OwnerPosition
  BY DEF WorkflowIInv
<1>2. UNCHANGED engine /\ \A r \in Runs : owner'[r] # Nil => result'[r] = result[r]
  OBVIOUS
<1>3. QED
  BY <1>1, <1>2, EndAttemptFrame, AttemptStep

LEMMA LoseConnectionInv ==
  ASSUME WorkflowIInv, NEW r \in Runs, LoseConnection(r)
  PROVE  WorkflowIInv'
<1> USE DEF LoseConnection
<1>1. WorkflowTypeOK /\ StoreInv /\ ResultsFromEngine /\ OwnerPosition /\ AttemptsOK
  BY InvParts
<1>2. WorkflowTypeOK'
  BY <1>1, WorkflowAssumption
     DEF WorkflowTypeOK, JournalTypeOK, tableVars, Fault
<1>3. StoreInv' /\ ResultsFromEngine'
  BY <1>1, StoreFrame DEF ResultsFromEngine
<1>4. OwnerPosition'
  BY <1>1 DEF OwnerPosition, WorkflowTypeOK
<1>5. Grows
  BY <1>1 DEF Grows, tableVars, WorkflowTypeOK
<1>6. AttemptsOK'
  BY <1>1, <1>2, <1>5, AttemptFrame DEF AttemptsOK
<1>7. QED
  BY <1>2, <1>3, <1>4, <1>6, InvParts DEF WorkflowIInv, StoreInv

LEMMA FinishInv ==
  ASSUME WorkflowIInv, NEW w \in Workers, Finish(w)
  PROVE  WorkflowIInv'
<1> USE DEF Finish
<1>1. WorkflowTypeOK /\ StoreInv /\ ResultsFromEngine /\ OwnerPosition /\ AttemptsOK
  BY InvParts
<1>2. at[w].run \in Runs /\ at[w].pc # "idle"
  BY <1>1, AttemptTyped
<1>3. /\ \A v \in Workers : v # w => at'[v] = at[v]
      /\ at' \in [Workers -> Attempt \cup {Idle}]
      /\ owner' \in [Runs -> Workers \cup {Nil}]
      /\ OwnerPosition' /\ AttemptOK(w)'
  <2>1. \A r \in Runs : owner'[r] # Nil => result'[r] = result[r]
    BY <1>1, <1>2 DEF EndAttempt, WorkflowTypeOK
  <2>2. QED
    BY <1>1, <1>2, <2>1, EndAttemptFrame
<1>4. result' \in [Runs -> Seq(Output) \cup {Nil}] /\ ResultsFromEngine'
  BY <1>1, <1>2 DEF WorkflowTypeOK, ResultsFromEngine
<1>5. WorkflowTypeOK'
  BY <1>1, <1>3, <1>4 DEF WorkflowTypeOK, JournalTypeOK, tableVars
<1>6. StoreInv'
  BY <1>1, StoreFrame
<1>7. Grows
  BY <1>1 DEF Grows, tableVars, WorkflowTypeOK
<1>8. AttemptsOK'
  BY <1>1, <1>3, <1>5, <1>7, AttemptFrame DEF AttemptsOK
<1>9. QED
  BY <1>3, <1>4, <1>5, <1>6, <1>8, InvParts DEF WorkflowIInv, StoreInv

-----------------------------------------------------------------------------
(* Steps that write a table, the engine's results or an invocation.        *)

LEMMA BeginHandlerInv ==
  ASSUME WorkflowIInv, NEW w \in Workers, BeginHandler(w)
  PROVE  WorkflowIInv'
<1> USE DEF BeginHandler, effectVars, engineVars
<1>1. WorkflowTypeOK /\ StoreInv /\ ResultsFromEngine /\ OwnerPosition /\ AttemptsOK
  BY InvParts
<1>2. at[w] \in Attempt /\ at[w].run \in Runs
  BY <1>1, AttemptTyped
<1> DEFINE r   == at[w].run
           row == [parent |-> Nil, forkedAt |-> Nil,
                   trajectory |-> invocation[r].prompt]
<1>3. invocation[r] # Nil /\ invocation[r].prompt \in Prompts
  BY <1>1, <1>2, InvocationTyped DEF AttemptsOK, AttemptOK
<1>4. row \in MetaRow /\ row # Nil
  BY <1>3, NilIsNoRow DEF MetaRow
<1>5. /\ runMeta' \in [Runs -> MetaRow \cup {Nil}]
      /\ \A q \in Runs : runMeta[q] # Nil => runMeta'[q] = runMeta[q]
      /\ runMeta'[r] # Nil
  <2> HIDE DEF row
  <2>1. runMeta' = IF runMeta[r] = Nil THEN [runMeta EXCEPT ![r] = row] ELSE runMeta
    BY DEF ensureRunMeta, row
  <2>2. QED
    BY <1>1, <1>2, <1>4, <2>1 DEF WorkflowTypeOK, JournalTypeOK
<1>6. /\ at'[w] \in Attempt /\ at'[w].pc = "next"
      /\ at'[w].run = r /\ at'[w].seq = at[w].seq
      /\ \A v \in Workers : v # w => at'[v] = at[v]
      /\ at' \in [Workers -> Attempt \cup {Idle}]
  <2>1. at'[w] = [at[w] EXCEPT !.pc = "next"]
    BY <1>1 DEF WorkflowTypeOK
  <2>2. \A v \in Workers : v # w => at'[v] = at[v]
    BY <1>1 DEF WorkflowTypeOK
  <2>3. at'[w] \in Attempt /\ at'[w].pc = "next"
        /\ at'[w].run = r /\ at'[w].seq = at[w].seq
    BY <1>2, <2>1 DEF Attempt
  <2>4. QED
    BY <1>1, <2>2, <2>3 DEF WorkflowTypeOK
<1>7. WorkflowTypeOK'
  BY <1>1, <1>5, <1>6 DEF WorkflowTypeOK, JournalTypeOK
<1>8. StoreInv'
  <2>1. OneRowPerStep' /\ OutputsFromJournal'
    BY <1>1 DEF StoreInv, OneRowPerStep, OutputsFromJournal, FoldsJournaled
  <2>2. GapFreeTrajectories'
    BY <1>1, <1>5 DEF StoreInv, GapFreeTrajectories, HasEntry,
                      WorkflowTypeOK, JournalTypeOK, StepRow
  <2>3. EnginePosition' /\ EngineAgreesWithJournal'
    BY <1>1 DEF StoreInv, EnginePosition, Steps, EngineAgreesWithJournal, Recorded
  <2>4. EffectRows' /\ EffectsFromJournal' /\ OneEffectPerRun'
    BY <1>1 DEF StoreInv, EffectRows, Steps, EffectsFromJournal, FoldsJournaled,
                OneEffectPerRun, FiredAs
  <2>5. QED
    BY <2>1, <2>2, <2>3, <2>4 DEF StoreInv
<1>9. ResultsFromEngine'
  BY <1>1 DEF ResultsFromEngine
<1>10. OwnerPosition'
  BY <1>1, <1>6, OwnerFrame
<1>11. Grows
  BY <1>1, <1>5 DEF Grows, WorkflowTypeOK
<1>12. AttemptOK(w)'
  <2>1. at[w].seq <= Len(engine[r]) + 1
    BY <1>1 DEF AttemptsOK, AttemptOK
  <2>2. UNCHANGED <<invocation, engine>>
    OBVIOUS
  <2>3. QED
    BY <1>3, <1>5, <1>6, <2>1, <2>2 DEF AttemptOK
<1>13. AttemptsOK'
  BY <1>1, <1>6, <1>7, <1>11, <1>12, AttemptFrame DEF AttemptsOK
<1>14. QED
  BY <1>7, <1>8, <1>9, <1>10, <1>13, InvParts DEF WorkflowIInv, StoreInv

LEMMA CommitStepInv ==
  ASSUME WorkflowIInv, NEW w \in Workers, CommitStep(w)
  PROVE  WorkflowIInv'
<1> USE DEF CommitStep
<1> DEFINE r == at[w].run
<1>1. WorkflowTypeOK /\ StoreInv /\ ResultsFromEngine /\ OwnerPosition /\ AttemptsOK
  BY InvParts
<1>2. /\ at[w] \in Attempt /\ r \in Runs /\ at[w].seq \in Seqs
      /\ at[w].seq <= Len(Steps(r)) /\ invocation[r] # Nil /\ runMeta[r] # Nil
      /\ Recorded(r, at[w].seq, at[w].val)
  BY <1>1, AttemptTyped, StepFacts DEF AttemptsOK, AttemptOK
<1>3. at[w].val \in Output
  BY <1>1, <1>2 DEF Recorded, WorkflowTypeOK, JournalTypeOK, StepRow
<1>4. /\ engine[r] \in Seq(Output) /\ Len(engine[r]) \in Nat
      /\ at[w].seq = Len(engine[r]) + 1 /\ result[r] = Nil
  <2>1. owner[r] = w /\ w # Nil
    BY WorkflowAssumption
  <2>2. at[w].seq = Len(engine[r]) + 1 /\ result[r] = Nil
    BY <1>1, <1>2, <2>1 DEF OwnerPosition
  <2>3. QED
    BY <1>1, <1>2, <2>2 DEF WorkflowTypeOK
<1>5. /\ engine'[r] \in Seq(Output) /\ engine'[r] # <<>>
      /\ Len(engine'[r]) = at[w].seq
      /\ engine'[r][at[w].seq] = at[w].val
      /\ \A k \in 1 .. Len(engine[r]) : engine'[r][k] = engine[r][k]
  <2>1. engine'[r] = Append(engine[r], at[w].val)
    BY <1>1, <1>2 DEF WorkflowTypeOK
  <2> DEFINE s == engine[r]
  <2>2. s \in Seq(Output) /\ Len(s) \in Nat
    BY <1>4
  <2>3. at[w].seq = Len(s) + 1
    BY <1>4
  <2> HIDE DEF s
  <2>4. /\ Append(s, at[w].val) \in Seq(Output)
        /\ Len(Append(s, at[w].val)) = Len(s) + 1
        /\ Append(s, at[w].val)[Len(s) + 1] = at[w].val
        /\ \A k \in 1 .. Len(s) : Append(s, at[w].val)[k] = s[k]
    BY <1>3, <2>2
  <2>5. Append(s, at[w].val) # <<>>
    BY <2>2, <2>4
  <2>6. engine'[r] = Append(s, at[w].val)
    BY <2>1 DEF s
  <2>7. QED
    BY <2>3, <2>4, <2>5, <2>6 DEF s
<1>6. engine' \in [Runs -> Seq(Output)] /\ \A q \in Runs : q # r => engine'[q] = engine[q]
  BY <1>1, <1>2, <1>5 DEF WorkflowTypeOK
<1>7. /\ at'[w] \in Attempt /\ at'[w].pc = "next"
      /\ at'[w].run = r /\ at'[w].seq = at[w].seq + 1
      /\ \A v \in Workers : v # w => at'[v] = at[v]
      /\ at' \in [Workers -> Attempt \cup {Idle}]
  <2> DEFINE s == at[w].seq + 1
  <2>1. at'[w] = [at[w] EXCEPT !.pc = "next", !.seq = s, !.val = Nil]
    BY <1>1 DEF WorkflowTypeOK
  <2>2. \A v \in Workers : v # w => at'[v] = at[v]
    BY <1>1 DEF WorkflowTypeOK
  <2>3. s \in 1 .. MaxSeq + 1
    BY <1>2 DEF Seqs, MaxSeq
  <2> HIDE DEF s, CommitStep
  <2>4. at'[w] \in Attempt /\ at'[w].pc = "next"
        /\ at'[w].run = r /\ at'[w].seq = s
    BY <1>2, <2>1, <2>3 DEF Attempt
  <2>5. at' \in [Workers -> Attempt \cup {Idle}]
    BY <1>1, <2>2, <2>4 DEF WorkflowTypeOK, CommitStep
  <2>6. QED
    BY <2>2, <2>4, <2>5 DEF s
<1>8. WorkflowTypeOK'
  BY <1>1, <1>6, <1>7 DEF WorkflowTypeOK, JournalTypeOK, tableVars
<1>9. StoreInv'
  <2>1. OneRowPerStep' /\ OutputsFromJournal' /\ GapFreeTrajectories'
    BY <1>1 DEF StoreInv, OneRowPerStep, OutputsFromJournal, FoldsJournaled,
                GapFreeTrajectories, HasEntry, tableVars
  <2>2. EnginePosition'
    BY <1>1, <1>2, <1>5, <1>6 DEF StoreInv, EnginePosition, Steps
  <2>3. EngineAgreesWithJournal'
    <3>1. SUFFICES ASSUME NEW q \in Runs, NEW k \in 1 .. Len(engine'[q])
                   PROVE  Recorded(q, k, engine[q][k])'
      BY DEF EngineAgreesWithJournal
    <3>2. CASE q # r
      BY <1>1, <1>6, <3>2
         DEF StoreInv, EngineAgreesWithJournal, Recorded, tableVars
    <3>3. CASE q = r /\ k = at[w].seq
      BY <1>2, <1>5, <3>3 DEF Recorded, tableVars
    <3>4. CASE q = r /\ k # at[w].seq
      <4>1. k \in 1 .. Len(engine[r])
        BY <1>4, <1>5, <3>4
      <4>2. engine'[q][k] = engine[r][k]
        BY <1>5, <3>4, <4>1
      <4>3. QED
        BY <1>1, <1>2, <3>4, <4>1, <4>2
           DEF StoreInv, EngineAgreesWithJournal, Recorded, tableVars
    <3>5. QED
      BY <3>2, <3>3, <3>4
  <2>4. EffectRows' /\ EffectsFromJournal' /\ OneEffectPerRun'
    BY <1>1 DEF StoreInv, EffectRows, Steps, EffectsFromJournal, FoldsJournaled,
                OneEffectPerRun, FiredAs, tableVars
  <2>5. QED
    BY <2>1, <2>2, <2>3, <2>4 DEF StoreInv
<1>10. ResultsFromEngine'
  BY <1>1, <1>4, <1>6 DEF ResultsFromEngine
<1>11. OwnerPosition'
  <2>1. SUFFICES ASSUME NEW q \in Runs, owner[q] # Nil
                 PROVE  /\ result[q] = Nil
                        /\ at'[owner[q]].pc # "idle" /\ at'[owner[q]].run = q
                        /\ at'[owner[q]].seq = Len(engine'[q]) + 1
    BY DEF OwnerPosition
  <2>2. owner[q] \in Workers /\ result[q] = Nil
        /\ at[owner[q]].pc # "idle" /\ at[owner[q]].run = q
        /\ at[owner[q]].seq = Len(engine[q]) + 1
    BY <1>1, <2>1 DEF OwnerPosition, WorkflowTypeOK
  <2>3. CASE q = r
    BY <1>5, <1>7, <2>2, <2>3
  <2>4. CASE q # r
    BY <1>6, <1>7, <2>2, <2>4
  <2>5. QED
    BY <2>3, <2>4
<1>12. Grows
  BY <1>1, <1>4, <1>5, <1>6 DEF Grows, WorkflowTypeOK, tableVars
<1>13. AttemptOK(w)'
  BY <1>2, <1>5, <1>7 DEF AttemptOK, tableVars
<1>14. AttemptsOK'
  BY <1>1, <1>7, <1>8, <1>12, <1>13, AttemptFrame DEF AttemptsOK
<1>15. QED
  BY <1>8, <1>9, <1>10, <1>11, <1>14, InvParts DEF WorkflowIInv, StoreInv

LEMMA InvokeInv ==
  ASSUME WorkflowIInv, NEW r \in Runs, NEW wf \in Handlers, NEW p \in Prompts,
         Invoke(r, wf, p)
  PROVE  WorkflowIInv'
<1> USE DEF Invoke
<1>1. WorkflowTypeOK /\ StoreInv /\ ResultsFromEngine /\ OwnerPosition /\ AttemptsOK
  BY InvParts
<1>2. [wf |-> wf, prompt |-> p] \in Invocations
  BY WorkflowAssumption DEF Invocations
<1>3. /\ invocation' \in [Runs -> Invocations \cup {Nil}]
      /\ invocation[r] = Nil
      /\ \A q \in Runs : q # r => invocation'[q] = invocation[q]
  BY <1>1, <1>2 DEF WorkflowTypeOK
<1>4. WorkflowTypeOK'
  BY <1>1, <1>3 DEF WorkflowTypeOK, JournalTypeOK, tableVars
<1>5. \A q \in Runs : invocation[q] # Nil =>
                      invocation'[q] = invocation[q] /\ Steps(q)' = Steps(q)
  BY <1>3 DEF Steps
<1>6. StoreInv'
  <2>1. OneRowPerStep' /\ OutputsFromJournal' /\ GapFreeTrajectories'
        /\ EngineAgreesWithJournal' /\ EffectsFromJournal' /\ OneEffectPerRun'
    BY <1>1 DEF StoreInv, OneRowPerStep, OutputsFromJournal, FoldsJournaled,
                GapFreeTrajectories, HasEntry, EngineAgreesWithJournal, Recorded,
                EffectsFromJournal, OneEffectPerRun, FiredAs, tableVars
  <2>2. EnginePosition'
    BY <1>1, <1>5 DEF StoreInv, EnginePosition
  <2>3. EffectRows'
    <3>1. UNCHANGED <<effectLog, effectSeq>>
      BY DEF tableVars
    <3>2. \A f \in effectLog : f.run \in Runs
      BY <1>1 DEF WorkflowTypeOK, JournalTypeOK, EffectRow
    <3>3. ASSUME NEW f \in effectLog
          PROVE  /\ f.id <= effectSeq
                 /\ invocation'[f.run] # Nil
                 /\ \E k \in 1 .. Len(Steps(f.run)') :
                      /\ Steps(f.run)'[k] \in ToolSteps
                      /\ f.key = IdemKey(f.run, Steps(f.run)'[k])
                 /\ \E x \in f.payload : x.seq = 1
      <4>1. /\ f.id <= effectSeq /\ invocation[f.run] # Nil
            /\ \E k \in 1 .. Len(Steps(f.run)) :
                 /\ Steps(f.run)[k] \in ToolSteps
                 /\ f.key = IdemKey(f.run, Steps(f.run)[k])
            /\ \E x \in f.payload : x.seq = 1
        BY <1>1 DEF StoreInv, EffectRows
      <4>2. invocation'[f.run] = invocation[f.run] /\ Steps(f.run)' = Steps(f.run)
        BY <1>5, <3>2, <4>1
      <4>3. QED
        BY <4>1, <4>2
    <3>4. \A f, g \in effectLog : f.id = g.id => f = g
      BY <1>1 DEF StoreInv, EffectRows
    <3>5. QED
      BY <3>1, <3>3, <3>4 DEF EffectRows
  <2>4. QED
    BY <2>1, <2>2, <2>3 DEF StoreInv
<1>7. ResultsFromEngine' /\ OwnerPosition'
  BY <1>1 DEF ResultsFromEngine, OwnerPosition
<1>8. Grows
  BY <1>1, <1>3 DEF Grows, WorkflowTypeOK, tableVars
<1>9. AttemptsOK'
  BY <1>1, <1>4, <1>8, AttemptFrame DEF AttemptsOK
<1>10. QED
  BY <1>4, <1>6, <1>7, <1>9, InvParts DEF WorkflowIInv, StoreInv

LEMMA ResolvePromiseInv ==
  ASSUME WorkflowIInv, NEW r \in Runs, NEW d \in Decisions, ResolvePromise(r, d)
  PROVE  WorkflowIInv'
<1> USE DEF ResolvePromise
<1>1. WorkflowTypeOK /\ StoreInv /\ ResultsFromEngine /\ OwnerPosition /\ AttemptsOK
  BY InvParts
<1>2. WorkflowTypeOK'
  BY <1>1 DEF WorkflowTypeOK, JournalTypeOK, tableVars
<1>3. StoreInv'
  BY <1>1, StoreFrame
<1>4. ResultsFromEngine' /\ OwnerPosition'
  BY <1>1 DEF ResultsFromEngine, OwnerPosition
<1>5. Grows
  BY <1>1 DEF Grows, WorkflowTypeOK, tableVars
<1>6. AttemptsOK'
  BY <1>1, <1>2, <1>5, AttemptFrame DEF AttemptsOK
<1>7. QED
  BY <1>2, <1>3, <1>4, <1>6, InvParts DEF WorkflowIInv, StoreInv

LEMMA JournalStepInv ==
  ASSUME WorkflowIInv, NEW w \in Workers, JournalStep(w)
  PROVE  WorkflowIInv'
<1> USE DEF JournalStep, InsertStep, effectVars, engineVars
<1> DEFINE r   == at[w].run
           row == AttemptRow(w)
<1>1. WorkflowTypeOK /\ StoreInv /\ ResultsFromEngine /\ OwnerPosition /\ AttemptsOK
  BY InvParts
<1>2. /\ at[w] \in Attempt /\ r \in Runs /\ at[w].seq \in Seqs
      /\ runMeta[r] # Nil /\ StepOf(w) \in StepNames
      /\ at[w].seq <= Len(engine[r]) + 1 /\ at[w].val \in Output
      /\ FoldsJournaled(r, at[w].val.folds)
      /\ StepOf(w) \in ToolSteps => FiredAs(r, at[w].val.ext)
  BY <1>1, AttemptTyped, StepFacts DEF AttemptsOK, AttemptOK
<1>3. /\ row.run = r /\ row.seq = at[w].seq /\ row.step = StepOf(w)
      /\ row.output = at[w].val /\ row.seededFrom = Nil
      /\ row \in StepRow
  BY <1>2 DEF AttemptRow, NativeRow, StepRow, IdemKey, IdemKeys
<1>4. \A e \in stepJournal : ~(e.run = row.run /\ e.seq = row.seq)
  BY DEF Conflicts
<1>5. stepJournal' = stepJournal \cup {row}
  OBVIOUS
<1> HIDE DEF row
<1>6. /\ at'[w] \in Attempt /\ at'[w].pc = "return"
      /\ at'[w].run = r /\ at'[w].seq = at[w].seq /\ at'[w].val = at[w].val
      /\ \A v \in Workers : v # w => at'[v] = at[v]
      /\ at' \in [Workers -> Attempt \cup {Idle}]
  <2>1. at'[w] = [at[w] EXCEPT !.pc = "return"]
    BY <1>1 DEF WorkflowTypeOK
  <2>2. \A v \in Workers : v # w => at'[v] = at[v]
    BY <1>1 DEF WorkflowTypeOK
  <2>3. at'[w] \in Attempt /\ at'[w].pc = "return"
        /\ at'[w].run = r /\ at'[w].seq = at[w].seq /\ at'[w].val = at[w].val
    BY <1>2, <2>1 DEF Attempt
  <2>4. QED
    BY <1>1, <2>2, <2>3 DEF WorkflowTypeOK
<1>7. WorkflowTypeOK'
  BY <1>1, <1>3, <1>5, <1>6 DEF WorkflowTypeOK, JournalTypeOK
<1>8. StoreInv'
  <2>1. OneRowPerStep'
    BY <1>1, <1>3, <1>4, <1>5 DEF StoreInv, OneRowPerStep
  <2>2. GapFreeTrajectories'
    <3>1. SUFFICES ASSUME NEW e \in stepJournal'
                   PROVE  /\ runMeta[e.run] # Nil
                          /\ \A j \in 1 .. e.seq - 1 : HasEntry(e.run, j)'
      BY DEF GapFreeTrajectories
    <3>2. CASE e \in stepJournal
      BY <1>1, <1>5, <3>2 DEF StoreInv, GapFreeTrajectories, HasEntry
    <3>3. CASE e = row
      <4>1. ASSUME NEW j \in 1 .. e.seq - 1 PROVE HasEntry(e.run, j)'
        <5>1. Len(engine[r]) \in Nat
          BY <1>1, <1>2 DEF WorkflowTypeOK
        <5>2. j \in 1 .. Len(engine[r])
          BY <1>2, <1>3, <3>3, <5>1 DEF Seqs, MaxSeq
        <5>3. Recorded(r, j, engine[r][j])
          BY <1>1, <1>2, <5>2 DEF StoreInv, EngineAgreesWithJournal
        <5>4. QED
          BY <1>3, <1>5, <3>3, <5>3 DEF Recorded, HasEntry
      <4>2. QED
        BY <1>2, <1>3, <3>3, <4>1
    <3>4. QED
      BY <1>5, <3>2, <3>3
  <2>3. OutputsFromJournal'
    BY <1>1, <1>2, <1>3, <1>5 DEF StoreInv, OutputsFromJournal, FoldsJournaled
  <2>4. EnginePosition' /\ EngineAgreesWithJournal'
    BY <1>1, <1>5 DEF StoreInv, EnginePosition, Steps, EngineAgreesWithJournal, Recorded
  <2>5. EffectRows' /\ EffectsFromJournal'
    BY <1>1, <1>5 DEF StoreInv, EffectRows, Steps, EffectsFromJournal, FoldsJournaled
  <2>6. OneEffectPerRun'
    BY <1>1, <1>2, <1>3, <1>5 DEF StoreInv, OneEffectPerRun, FiredAs
  <2>7. QED
    BY <2>1, <2>2, <2>3, <2>4, <2>5, <2>6 DEF StoreInv
<1>9. ResultsFromEngine'
  BY <1>1 DEF ResultsFromEngine
<1>10. OwnerPosition'
  BY <1>1, <1>6, OwnerFrame
<1>11. Grows
  BY <1>1, <1>5 DEF Grows, WorkflowTypeOK
<1>12. AttemptOK(w)'
  <2>1. /\ invocation[r] # Nil /\ at[w].seq <= Len(engine[r]) + 1
        /\ at[w].seq <= Len(Steps(r))
    BY <1>1 DEF AttemptsOK, AttemptOK, HasStep
  <2>2. Recorded(at[w].run, at[w].seq, at[w].val)'
    BY <1>3, <1>5, <1>6 DEF Recorded
  <2>3. HasStep(w)'
    BY <1>6, <2>1 DEF HasStep, Steps
  <2>4. QED
    BY <1>2, <1>6, <2>1, <2>2, <2>3 DEF AttemptOK
<1>13. AttemptsOK'
  BY <1>1, <1>6, <1>7, <1>11, <1>12, AttemptFrame DEF AttemptsOK
<1>14. QED
  BY <1>7, <1>8, <1>9, <1>10, <1>13, InvParts DEF WorkflowIInv, StoreInv

(* The effect of a tool step: the key is the run's own, so a row under it  *)
(* is the run's, and without one the run has no row at all.                *)
LEMMA FireToolInv ==
  ASSUME WorkflowIInv, NEW w \in Workers, FireTool(w)
  PROVE  WorkflowIInv'
<1> USE DEF engineVars, journalVars
<1> DEFINE r       == at[w].run
           step    == StepOf(w)
           key     == IdemKey(r, step)
           payload == Values(r, PayloadReads(step))
<1>1. WorkflowTypeOK /\ StoreInv /\ ResultsFromEngine /\ OwnerPosition /\ AttemptsOK
  BY InvParts
<1>2. /\ EnginePosition /\ EngineAgreesWithJournal
      /\ EffectRows /\ EffectsFromJournal /\ OneEffectPerRun
  BY <1>1 DEF StoreInv
<1>3. /\ at[w].pc = "produce" /\ step \in ToolSteps
      /\ UNCHANGED <<stepJournal, runMeta, engineVars, faults>>
  BY DEF FireTool
<1>4. PICK id \in 1 .. effectSeq + 1 :
        fireEffect(r, key, payload, id) /\ Produced(w, OutputReads(step), id)
  BY DEF FireTool
<1>5. /\ r \in Runs /\ at[w].seq \in Seqs /\ at[w].seq <= Len(Steps(r))
      /\ invocation[r] # Nil /\ runMeta[r] # Nil /\ step \in StepNames
      /\ \A j \in OutputReads(step) : j \in Nat /\ 1 <= j /\ j <= Len(engine[r])
      /\ \A j \in PayloadReads(step) : j \in Nat /\ 1 <= j /\ j <= Len(engine[r])
      /\ 1 \in PayloadReads(step)
      /\ at[w].seq <= Len(engine[r]) + 1
  BY <1>1, <1>3, StepFacts DEF AttemptsOK, AttemptOK
<1>6. effectSeq \in Nat /\ id \in Nat \ {0} /\ id \in Ext
  BY <1>1, <1>4 DEF WorkflowTypeOK, JournalTypeOK, Ext
<1>7. payload \in Folds /\ FoldsJournaled(r, payload)
  BY <1>1, <1>2, <1>5, ValuesJournaled
<1>8. \E x \in payload : x.seq = 1
  <2>1. [seq |-> 1, ext |-> engine[r][1].ext] \in payload
    BY <1>5 DEF Values
  <2>2. QED
    BY <2>1
<1>9. key \in IdemKeys
  BY <1>5 DEF IdemKey, IdemKeys
<1>10. /\ at'[w] \in Attempt /\ at'[w].pc = "insert"
       /\ at'[w].run = r /\ at'[w].seq = at[w].seq
       /\ at'[w].val \in Output /\ at'[w].val.ext = id
       /\ FoldsJournaled(r, at'[w].val.folds)
       /\ \A v \in Workers : v # w => at'[v] = at[v]
       /\ at' \in [Workers -> Attempt \cup {Idle}]
  BY <1>1, <1>2, <1>3, <1>4, <1>5, <1>6, ProducedOutput
<1>11. /\ at[w].seq \in 1 .. Len(Steps(r)) /\ Steps(r)[at[w].seq] = step
       /\ \A k \in 1 .. Len(Steps(r)) : Steps(r)[k] \in ToolSteps => k = at[w].seq
  <2>1. invocation[r].wf \in Wfs /\ Len(Steps(r)) \in Nat
    BY <1>1, <1>5, InvocationTyped
  <2>2. at[w].seq \in 1 .. Len(Steps(r))
    BY <1>5, <2>1 DEF Seqs, MaxSeq
  <2>3. QED
    BY <1>3, <2>1, <2>2, StepOrder DEF StepOf, Steps
<1> HIDE DEF payload
<1>12. \A f \in effectLog : f.run \in Runs /\ (f.run = r => f.key = key)
  <2>1. SUFFICES ASSUME NEW f \in effectLog, f.run = r PROVE f.key = key
    BY <1>1 DEF WorkflowTypeOK, JournalTypeOK, EffectRow
  <2>2. PICK k \in 1 .. Len(Steps(r)) :
          Steps(r)[k] \in ToolSteps /\ f.key = IdemKey(r, Steps(r)[k])
    BY <1>2, <2>1 DEF EffectRows
  <2>3. QED
    BY <1>11, <2>2
<1>13. \A f \in effectLog : f.key = key => f.run = r
  <2>1. SUFFICES ASSUME NEW f \in effectLog, f.key = key PROVE f.run = r
    OBVIOUS
  <2>2. PICK k \in 1 .. Len(Steps(f.run)) : f.key = IdemKey(f.run, Steps(f.run)[k])
    BY <1>2 DEF EffectRows
  <2>3. QED
    BY <2>1, <2>2 DEF IdemKey
<1> DEFINE row == [id |-> id, run |-> r, key |-> key, payload |-> payload]
<1>14. /\ effectLog \subseteq effectLog' /\ effectLog' \subseteq EffectRow
       /\ effectSeq' \in Nat
       /\ EffectRows' /\ EffectsFromJournal' /\ OneEffectPerRun'
       /\ \E f \in effectLog' : f.run = r /\ f.id = id
  <2>1. CASE Fired(key)
    <3>1. UNCHANGED <<effectLog, effectSeq>>
          /\ \E f \in effectLog : f.key = key /\ id = f.id
      BY <1>4, <2>1 DEF fireEffect, effectVars
    <3>2. EffectRows' /\ EffectsFromJournal' /\ OneEffectPerRun'
      BY <1>2, <1>3, <3>1 DEF EffectRows, Steps, EffectsFromJournal,
                              FoldsJournaled, OneEffectPerRun, FiredAs
    <3>3. QED
      BY <1>1, <1>13, <3>1, <3>2 DEF WorkflowTypeOK, JournalTypeOK
  <2>2. CASE ~Fired(key)
    <3>1. /\ id = effectSeq + 1 /\ effectSeq' = id
          /\ effectLog' = effectLog \cup {row}
      BY <1>4, <2>2 DEF fireEffect
    <3>2. /\ row \in EffectRow /\ row.id = id /\ row.run = r
          /\ row.key = key /\ row.payload = payload
      BY <1>5, <1>6, <1>7, <1>9 DEF EffectRow
    <3> HIDE DEF row
    <3>3. \A f \in effectLog : f.run # r
      BY <1>12, <2>2 DEF Fired
    <3>4. \A f \in effectLog : f.id \in Nat /\ f.id <= effectSeq
      BY <1>1, <1>2 DEF EffectRows, WorkflowTypeOK, JournalTypeOK, EffectRow
    <3>5. EffectRows'
      <4>1. ASSUME NEW f \in effectLog'
            PROVE  /\ f.id <= effectSeq'
                   /\ invocation[f.run] # Nil
                   /\ \E k \in 1 .. Len(Steps(f.run)) :
                        /\ Steps(f.run)[k] \in ToolSteps
                        /\ f.key = IdemKey(f.run, Steps(f.run)[k])
                   /\ \E x \in f.payload : x.seq = 1
        <5>1. CASE f \in effectLog
          BY <1>2, <1>6, <3>1, <3>4, <5>1 DEF EffectRows
        <5>2. CASE f = row
          BY <1>3, <1>5, <1>6, <1>8, <1>11, <3>1, <3>2, <5>2
        <5>3. QED
          BY <3>1, <5>1, <5>2
      <4>2. \A f, g \in effectLog' : f.id = g.id => f = g
        BY <1>2, <1>6, <3>1, <3>2, <3>4 DEF EffectRows
      <4>3. \A q : Steps(q)' = Steps(q)
        BY <1>3 DEF Steps
      <4>4. QED
        BY <1>3, <4>1, <4>2, <4>3 DEF EffectRows
    <3>6. EffectsFromJournal'
      BY <1>2, <1>3, <1>7, <3>1, <3>2 DEF EffectsFromJournal, FoldsJournaled
    <3>7. OneEffectPerRun'
      BY <1>2, <1>3, <3>1, <3>2, <3>3 DEF OneEffectPerRun, FiredAs
    <3>8. QED
      BY <1>1, <1>6, <3>1, <3>2, <3>5, <3>6, <3>7
         DEF WorkflowTypeOK, JournalTypeOK
  <2>3. QED
    BY <2>1, <2>2
<1>15. WorkflowTypeOK'
  BY <1>1, <1>3, <1>10, <1>14 DEF WorkflowTypeOK, JournalTypeOK
<1>16. StoreInv'
  <2>1. OneRowPerStep' /\ OutputsFromJournal' /\ GapFreeTrajectories'
    BY <1>1, <1>3 DEF StoreInv, OneRowPerStep, OutputsFromJournal, FoldsJournaled,
                      GapFreeTrajectories, HasEntry
  <2>2. EnginePosition' /\ EngineAgreesWithJournal'
    BY <1>2, <1>3 DEF EnginePosition, Steps, EngineAgreesWithJournal, Recorded
  <2>3. QED
    BY <1>14, <2>1, <2>2 DEF StoreInv
<1>17. ResultsFromEngine'
  BY <1>1, <1>3 DEF ResultsFromEngine
<1>18. OwnerPosition'
  BY <1>1, <1>3, <1>10, OwnerFrame
<1>19. Grows
  BY <1>1, <1>3, <1>14 DEF Grows, WorkflowTypeOK
<1>20. AttemptOK(w)'
  <2>1. HasStep(w)' /\ StepOf(w)' = step
    BY <1>3, <1>5, <1>10 DEF HasStep, StepOf, Steps
  <2>2. FoldsJournaled(at[w].run, at[w].val.folds)'
    BY <1>3, <1>10 DEF FoldsJournaled
  <2>3. FiredAs(at[w].run, at[w].val.ext)'
    BY <1>10, <1>14 DEF FiredAs
  <2>4. QED
    BY <1>3, <1>5, <1>10, <2>1, <2>2, <2>3 DEF AttemptOK
<1>21. AttemptsOK'
  BY <1>1, <1>10, <1>15, <1>19, <1>20, AttemptFrame DEF AttemptsOK
<1>22. QED
  BY <1>15, <1>16, <1>17, <1>18, <1>21, InvParts DEF WorkflowIInv, StoreInv

LEMMA StutterInv ==
  ASSUME WorkflowIInv, UNCHANGED workflowVars
  PROVE  WorkflowIInv'
<1> USE DEF workflowVars
<1>1. WorkflowTypeOK /\ StoreInv /\ ResultsFromEngine /\ OwnerPosition /\ AttemptsOK
  BY InvParts
<1>2. WorkflowTypeOK'
  BY <1>1 DEF WorkflowTypeOK, JournalTypeOK
<1>3. StoreInv'
  BY <1>1, StoreFrame DEF tableVars
<1>4. ResultsFromEngine' /\ OwnerPosition'
  BY <1>1 DEF ResultsFromEngine, OwnerPosition
<1>5. Grows
  BY <1>1 DEF Grows, WorkflowTypeOK
<1>6. AttemptsOK'
  BY <1>1, <1>2, <1>5, AttemptFrame DEF AttemptsOK
<1>7. QED
  BY <1>2, <1>3, <1>4, <1>6, InvParts DEF WorkflowIInv, StoreInv

-----------------------------------------------------------------------------
(* Every step of the specification.                                        *)

LEMMA RecordStepInv ==
  ASSUME WorkflowIInv, NEW w \in Workers, RecordStep(w)
  PROVE  WorkflowIInv'
<1>1. ASSUME LoseInsert(w) PROVE WorkflowIInv'
  <2>1. faults' \in 0 .. MaxFaults
    BY <1>1 DEF LoseInsert, WorkflowIInv, WorkflowTypeOK
  <2>2. QED
    BY <1>1, <2>1, EndAttemptInv DEF LoseInsert
<1>2. QED
  BY <1>1, ReplayStepInv, MissStepInv, CallProviderInv, FireToolInv,
     ComputeStepInv, JournalStepInv DEF RecordStep

LEMMA HandlerStepInv ==
  ASSUME WorkflowIInv, NEW w \in Workers, HandlerStep(w)
  PROVE  WorkflowIInv'
<1>1. ASSUME Suspend(w) \/ Fenced(w) PROVE WorkflowIInv'
  <2>1. faults' \in 0 .. MaxFaults
    BY <1>1 DEF Suspend, Fenced, WorkflowIInv, WorkflowTypeOK
  <2>2. QED
    BY <1>1, <2>1, EndAttemptInv DEF Suspend, Fenced
<1>2. QED
  BY <1>1, BeginHandlerInv, RecordStepInv, CommitStepInv, FinishInv
     DEF HandlerStep

LEMMA FaultStepInv ==
  ASSUME WorkflowIInv, FaultStep
  PROVE  WorkflowIInv'
<1>1. ASSUME NEW w \in Workers, Crash(w) \/ ProviderFails(w) PROVE WorkflowIInv'
  <2>1. faults' \in 0 .. MaxFaults
    BY <1>1, WorkflowAssumption
       DEF Crash, ProviderFails, Fault, WorkflowIInv, WorkflowTypeOK
  <2>2. QED
    BY <1>1, <2>1, EndAttemptInv DEF Crash, ProviderFails
<1>2. QED
  BY <1>1, LoseConnectionInv DEF FaultStep

LEMMA NextInv == WorkflowIInv /\ [WorkflowNext]_workflowVars => WorkflowIInv'
<1> SUFFICES ASSUME WorkflowIInv, [WorkflowNext]_workflowVars PROVE WorkflowIInv'
  OBVIOUS
<1>1. CASE ClientStep
  BY <1>1, InvokeInv, ResolvePromiseInv, WorkflowAssumption DEF ClientStep
<1>2. CASE EngineStep
  BY <1>2, StartAttemptInv, HandlerStepInv DEF EngineStep
<1>3. CASE FaultStep
  BY <1>3, FaultStepInv
<1>4. CASE UNCHANGED workflowVars
  BY <1>4, StutterInv
<1>5. QED
  BY <1>1, <1>2, <1>3, <1>4 DEF WorkflowNext

(* Whatever the number of runs, workers and faults, every reachable state  *)
(* satisfies the inductive invariant: the journal, the engine's results,   *)
(* the effect log and every attempt, zombies included, fit together.       *)
THEOREM WorkflowInvariant == WorkflowSpec => []WorkflowIInv
<1>1. WorkflowInit => WorkflowIInv
  BY InitInv
<1>2. WorkflowIInv /\ [WorkflowNext]_workflowVars => WorkflowIInv'
  BY NextInv
<1>3. QED
  BY <1>1, <1>2, PTL DEF WorkflowSpec

(* Every variable keeps its type: the runs never pass their last step.     *)
THEOREM WorkflowTypes == WorkflowSpec => []WorkflowTypeOK
<1>1. WorkflowIInv => WorkflowTypeOK
  BY DEF WorkflowIInv
<1>2. QED
  BY <1>1, WorkflowInvariant, PTL

(* The engine's own log never disagrees with the portable journal, although *)
(* recordStep writes one before the other learns of it.                    *)
THEOREM JournalAgreement == WorkflowSpec => []EngineAgreesWithJournal
<1>1. WorkflowIInv => EngineAgreesWithJournal
  BY DEF WorkflowIInv
<1>2. QED
  BY <1>1, WorkflowInvariant, PTL

(* However many attempts of however many processes run a tool step, the    *)
(* effect is fired at most once per run, and the journal names that firing. *)
THEOREM ExactlyOneEffect == WorkflowSpec => []OneEffectPerRun
<1>1. WorkflowIInv => OneEffectPerRun
  BY DEF WorkflowIInv
<1>2. QED
  BY <1>1, WorkflowInvariant, PTL

(* An effect's payload was built from journaled outputs, so a retry would  *)
(* send what the effect log already holds.                                 *)
THEOREM EffectProvenance == WorkflowSpec => []EffectsFromJournal
<1>1. WorkflowIInv => EffectsFromJournal
  BY DEF WorkflowIInv
<1>2. QED
  BY <1>1, WorkflowInvariant, PTL

(* No trajectory ever mixes outputs of two attempts that disagreed, skips  *)
(* a step or precedes its run's metadata.                                  *)
THEOREM TrajectoryIntegrity ==
  WorkflowSpec => [](OutputsFromJournal /\ GapFreeTrajectories)
<1>1. WorkflowIInv => OutputsFromJournal /\ GapFreeTrajectories
  BY DEF WorkflowIInv
<1>2. QED
  BY <1>1, WorkflowInvariant, PTL

-----------------------------------------------------------------------------
(* The workflow layer implements DurableRuns: which steps the abstraction  *)
(* sees, and as what.                                                      *)

LEMMA LogMembers ==
  /\ \A e \in stepJournal : \E x \in Log :
       x.run = e.run /\ x.seq = e.seq /\ x.output = e.output
  /\ \A x \in Log : \E e \in stepJournal :
       x.run = e.run /\ x.seq = e.seq /\ x.output = e.output
  /\ \A f \in effectLog : \E a \in Acts : a.run = f.run /\ a.id = f.id
<1>1. ASSUME NEW e \in stepJournal
      PROVE  \E x \in Log : x.run = e.run /\ x.seq = e.seq /\ x.output = e.output
  <2> DEFINE x == [run |-> e.run, seq |-> e.seq, step |-> e.step, output |-> e.output]
  <2>1. x \in Log /\ x.run = e.run /\ x.seq = e.seq /\ x.output = e.output
    BY DEF Log
  <2> HIDE DEF x
  <2>2. QED
    BY <2>1
<1>2. ASSUME NEW x \in Log
      PROVE  \E e \in stepJournal :
               x.run = e.run /\ x.seq = e.seq /\ x.output = e.output
  BY DEF Log
<1>3. ASSUME NEW f \in effectLog
      PROVE  \E a \in Acts : a.run = f.run /\ a.id = f.id
  <2> DEFINE a == [run |-> f.run, id |-> f.id, payload |-> f.payload]
  <2>1. a \in Acts /\ a.run = f.run /\ a.id = f.id
    BY DEF Acts
  <2> HIDE DEF a
  <2>2. QED
    BY <2>1
<1>4. QED
  BY <1>1, <1>2, <1>3

LEMMA LogFacts ==
  /\ \A r, s : Promised!Logged(r, s) <=>
       \E e \in stepJournal : e.run = r /\ e.seq = s
  /\ \A r, F : Promised!AllHeld(r, F) <=> FoldsJournaled(r, F)
<1>1. ASSUME NEW r, NEW s
      PROVE  Promised!Logged(r, s) <=> \E e \in stepJournal : e.run = r /\ e.seq = s
  BY LogMembers DEF Promised!Logged
<1>2. ASSUME NEW r, NEW F
      PROVE  Promised!AllHeld(r, F) <=> FoldsJournaled(r, F)
  <2>1. ASSUME NEW v
        PROVE  (\E x \in Log : x.run = r /\ x.seq = v.seq /\ x.output.ext = v.ext)
               <=> (\E e \in stepJournal :
                      e.run = r /\ e.seq = v.seq /\ e.output.ext = v.ext)
    BY LogMembers
  <2>2. QED
    BY <2>1 DEF Promised!AllHeld, FoldsJournaled
<1>3. QED
  BY <1>1, <1>2

LEMMA StutterMaps ==
  ASSUME UNCHANGED <<stepJournal, effectLog, result>>
  PROVE  UNCHANGED Promised!vars
BY DEF Promised!vars, Log, Acts

(* The INSERT is the abstract Record: it is the first for its step, and    *)
(* everything it was built from is logged.                                 *)
LEMMA JournalStepMaps ==
  ASSUME WorkflowIInv, WorkflowIInv', NEW w \in Workers, JournalStep(w)
  PROVE  Promised!Next
<1> DEFINE row == AttemptRow(w)
           x   == [run |-> row.run, seq |-> row.seq, step |-> row.step,
                   output |-> row.output]
<1>1. WorkflowTypeOK /\ AttemptOK(w) /\ GapFreeTrajectories'
  BY DEF WorkflowIInv, AttemptsOK
<1>2. /\ at[w].pc = "insert" /\ ~Conflicts(row)
      /\ stepJournal' = stepJournal \cup {row}
      /\ UNCHANGED <<effectLog, result>>
  BY DEF JournalStep, InsertStep, effectVars, engineVars
<1>3. /\ row.run = at[w].run /\ row.seq = at[w].seq /\ row.step = StepOf(w)
      /\ row.output = at[w].val
  BY DEF AttemptRow, NativeRow
<1>4. row.seq \in Seqs
  BY <1>1, <1>2, <1>3, StepFacts
<1> HIDE DEF row
<1>5. x.run = row.run /\ x.seq = row.seq /\ x.step = row.step /\ x.output = row.output
  OBVIOUS
<1>6. Log' = Log \cup {x}
  BY <1>2 DEF Log
<1> HIDE DEF x
<1>7. ~Promised!Logged(x.run, x.seq)
  BY <1>2, <1>5, LogFacts DEF Conflicts
<1>8. \A j \in 1 .. x.seq - 1 : Promised!Logged(x.run, j)
  <2>1. SUFFICES ASSUME NEW j \in 1 .. row.seq - 1
                 PROVE  \E e \in stepJournal : e.run = row.run /\ e.seq = j
    BY <1>5, LogFacts
  <2>2. \E e \in stepJournal' : e.run = row.run /\ e.seq = j
    BY <1>1, <1>2 DEF GapFreeTrajectories, HasEntry
  <2>3. j # row.seq
    BY <1>4 DEF Seqs, MaxSeq
  <2>4. QED
    BY <1>2, <2>2, <2>3
<1>9. Promised!AllHeld(x.run, x.output.folds)
  BY <1>1, <1>2, <1>3, <1>5, LogFacts DEF AttemptOK
<1>10. x.step \in ToolSteps => \E a \in Acts : a.run = x.run /\ a.id = x.output.ext
  BY <1>1, <1>2, <1>3, <1>5, LogMembers DEF AttemptOK, FiredAs
<1>11. UNCHANGED <<Acts, result>>
  BY <1>2 DEF Acts
<1>12. Promised!Record(x)
  BY <1>6, <1>7, <1>8, <1>9, <1>10, <1>11 DEF Promised!Record
<1>13. x \in Log'
  BY <1>6
<1>14. QED
  BY <1>12, <1>13 DEF Promised!Next

(* A tool step that fires is the abstract Act; one that finds its key      *)
(* taken is invisible.                                                     *)
LEMMA FireToolMaps ==
  ASSUME WorkflowIInv, WorkflowIInv', NEW w \in Workers, FireTool(w)
  PROVE  Promised!Next \/ UNCHANGED Promised!vars
<1>1. PICK id \in 1 .. effectSeq + 1 :
        fireEffect(at[w].run, IdemKey(at[w].run, StepOf(w)),
                   Values(at[w].run, PayloadReads(StepOf(w))), id)
  BY DEF FireTool
<1>2. UNCHANGED <<stepJournal, result>>
  BY DEF FireTool, journalVars, engineVars
<1> DEFINE key     == IdemKey(at[w].run, StepOf(w))
           payload == Values(at[w].run, PayloadReads(StepOf(w)))
           row     == [id |-> id, run |-> at[w].run, key |-> key,
                       payload |-> payload]
           a       == [run |-> row.run, id |-> row.id, payload |-> row.payload]
<1>3. CASE Fired(key)
  BY <1>1, <1>2, <1>3, StutterMaps DEF fireEffect, effectVars
<1>4. CASE ~Fired(key)
  <2>1. effectLog' = effectLog \cup {row} /\ row.key = key
    BY <1>1, <1>4 DEF fireEffect
  <2>2. \A f \in effectLog : f # row
    BY <1>4, <2>1 DEF Fired
  <2> HIDE DEF row
  <2>3. a.run = row.run /\ a.id = row.id /\ a.payload = row.payload
    OBVIOUS
  <2>4. Acts' = Acts \cup {a}
    BY <2>1 DEF Acts
  <2> HIDE DEF a
  <2>5. \A b \in Acts : b.run # a.run /\ b.id # a.id
    <3>1. \A f \in effectLog : f.run # row.run /\ f.id # row.id
      BY <2>1, <2>2 DEF WorkflowIInv, OneEffectPerRun, EffectRows
    <3>2. QED
      BY <2>3, <3>1 DEF Acts
  <2>6. Promised!AllHeld(a.run, a.payload)
    <3>1. FoldsJournaled(row.run, row.payload)
      BY <1>2, <2>1 DEF WorkflowIInv, EffectsFromJournal, FoldsJournaled
    <3>2. QED
      BY <2>3, <3>1, LogFacts
  <2>7. UNCHANGED <<Log, result>>
    BY <1>2 DEF Log
  <2>8. Promised!Act(a) /\ a \in Acts'
    BY <2>4, <2>5, <2>6, <2>7 DEF Promised!Act
  <2>9. QED
    BY <2>8 DEF Promised!Next
<1>5. QED
  BY <1>3, <1>4

(* Completion hands the caller exactly what the journal holds.             *)
LEMMA FinishMaps ==
  ASSUME WorkflowIInv, NEW w \in Workers, Finish(w)
  PROVE  Promised!Next \/ UNCHANGED Promised!vars
<1> DEFINE r == at[w].run
<1>1. WorkflowTypeOK /\ OwnerPosition /\ EngineAgreesWithJournal
  BY DEF WorkflowIInv
<1>2. /\ at[w].pc = "next" /\ owner[r] = w
      /\ result' = [result EXCEPT ![r] = engine[r]]
      /\ UNCHANGED <<stepJournal, effectLog>>
  BY DEF Finish, tableVars
<1>3. r \in Runs
  BY <1>1, <1>2, AttemptTyped
<1>4. result[r] = Nil
  BY <1>1, <1>2, <1>3, WorkflowAssumption DEF OwnerPosition
<1>5. result'[r] = engine[r]
  BY <1>1, <1>2, <1>3 DEF WorkflowTypeOK
<1>6. CASE engine[r] = Nil
  <2>1. UNCHANGED result
    BY <1>1, <1>2, <1>3, <1>4, <1>6 DEF WorkflowTypeOK
  <2>2. QED
    BY <1>2, <2>1, StutterMaps
<1>7. CASE engine[r] # Nil
  <2>1. engine[r] \in Seq(Output) /\ DOMAIN engine[r] = 1 .. Len(engine[r])
    BY <1>1, <1>3 DEF WorkflowTypeOK
  <2>2. \A s \in DOMAIN engine[r] :
          \E x \in Log : x.run = r /\ x.seq = s /\ x.output = engine[r][s]
    BY <1>1, <1>3, <2>1, LogMembers DEF EngineAgreesWithJournal, Recorded
  <2>3. UNCHANGED <<Log, Acts>>
    BY <1>2 DEF Log, Acts
  <2>4. Promised!Complete(r, engine[r])
    <3> DEFINE out == engine[r]
    <3>1. result' = [result EXCEPT ![r] = out]
      BY <1>2
    <3>2. \A s \in DOMAIN out : \E x \in Log : x.run = r /\ x.seq = s /\ x.output = out[s]
      BY <2>2
    <3> HIDE DEF out
    <3>3. out # Nil
      BY <1>7 DEF out
    <3>4. Promised!Complete(r, out)
      BY <1>4, <2>3, <3>1, <3>2, <3>3 DEF Promised!Complete
    <3>5. QED
      BY <3>4 DEF out
  <2>5. QED
    BY <1>3, <1>5, <2>4 DEF Promised!Next
<1>8. QED
  BY <1>6, <1>7

LEMMA StepMaps ==
  ASSUME WorkflowIInv, WorkflowIInv', [WorkflowNext]_workflowVars
  PROVE  [Promised!Next]_(Promised!vars)
<1> USE DEF tableVars, journalVars, effectVars, engineVars
<1>1. CASE ClientStep
  <2>1. UNCHANGED <<stepJournal, effectLog, result>>
    BY <1>1 DEF ClientStep, Invoke, ResolvePromise
  <2>2. QED
    BY <2>1, StutterMaps
<1>2. CASE FaultStep
  <2>1. UNCHANGED <<stepJournal, effectLog, result>>
    BY <1>2 DEF FaultStep, Crash, ProviderFails, LoseConnection
  <2>2. QED
    BY <2>1, StutterMaps
<1>3. ASSUME NEW w \in Workers, NEW r \in Runs, StartAttempt(w, r)
      PROVE  UNCHANGED Promised!vars
  BY <1>3, StutterMaps DEF StartAttempt
<1>4. ASSUME NEW w \in Workers, HandlerStep(w)
      PROVE  Promised!Next \/ UNCHANGED Promised!vars
  <2>1. CASE JournalStep(w)
    BY <2>1, JournalStepMaps
  <2>2. CASE FireTool(w)
    BY <2>2, FireToolMaps
  <2>3. CASE Finish(w)
    BY <2>3, FinishMaps
  <2>4. CASE \/ BeginHandler(w) \/ ReplayStep(w) \/ MissStep(w) \/ CallProvider(w)
             \/ ComputeStep(w) \/ LoseInsert(w) \/ CommitStep(w)
             \/ Suspend(w) \/ Fenced(w)
    <3>1. UNCHANGED <<stepJournal, effectLog, result>>
      BY <2>4 DEF BeginHandler, ReplayStep, MissStep, CallProvider, ComputeStep,
                  LoseInsert, CommitStep, Suspend, Fenced
    <3>2. QED
      BY <3>1, StutterMaps
  <2>5. QED
    BY <1>4, <2>1, <2>2, <2>3, <2>4 DEF HandlerStep, RecordStep
<1>5. CASE UNCHANGED workflowVars
  BY <1>5, StutterMaps DEF workflowVars
<1>6. QED
  BY <1>1, <1>2, <1>3, <1>4, <1>5 DEF WorkflowNext, EngineStep

(* Seen through its tables, a workflow layer with crashes, zombies and     *)
(* racing attempts behaves as one log per run written once and in order,   *)
(* one act per run, and callers that receive exactly that log.             *)
THEOREM WorkflowRefines == WorkflowSpec => ImplementsDurableRuns
<1>1. WorkflowInit => Promised!Init
  BY DEF WorkflowInit, JournalInit, Promised!Init, Log, Acts
<1>2. WorkflowIInv /\ WorkflowIInv' /\ [WorkflowNext]_workflowVars
        => [Promised!Next]_(Promised!vars)
  BY StepMaps
<1>3. QED
  BY <1>1, <1>2, WorkflowInvariant, PTL
     DEF WorkflowSpec, ImplementsDurableRuns, Promised!Spec

=============================================================================
