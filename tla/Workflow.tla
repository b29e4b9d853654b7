------------------------------ MODULE Workflow ------------------------------
(***************************************************************************)
(* The two durable workflows, AgentRun (src/workflow.ts) and HitlAgentRun  *)
(* (src/hitl-workflow.ts), executed by the Restate engine.                 *)
(*                                                                         *)
(* The engine is external.  What src/ relies on: a workflow runs once per  *)
(* key; its handler is attempted again after a failure; an attempt replays *)
(* the ctx.run results the engine already holds and a new result reaches   *)
(* the handler only once the engine holds it; one attempt at a time owns   *)
(* the invocation.  An attempt the engine gave up on may still be running  *)
(* in its process (a "zombie"): it can finish the recordStep it is in, but *)
(* the engine takes nothing more from it.                                  *)
(*                                                                         *)
(* A worker is one handler slot of some service process.  recordStep is    *)
(* not a transaction: its SELECT, its producer and its INSERT are separate *)
(* steps here, and a crash may fall between any two of them.               *)
(***************************************************************************)
EXTENDS Journal, Sequences

CONSTANTS
  Workers,      \* handler slots
  Handlers,     \* the workflows that may be invoked
  NativeRuns,   \* the run ids clients submit themselves
  MaxFaults     \* bound on crashes, provider failures and lost connections

ASSUME WorkflowAssumption ==
  /\ Nil \notin Workers
  /\ Handlers \subseteq {"AgentRun", "HitlAgentRun"}
  /\ NativeRuns \subseteq Runs
  /\ MaxFaults \in Nat

VARIABLES
  invocation,   \* run -> the accepted invocation [wf, prompt], or Nil
  engine,       \* run -> the ctx.run results the engine holds, in order
  promise,      \* run -> value of the durable promise "hitl.input", or Nil
  owner,        \* run -> the worker whose attempt the engine listens to
  result,       \* run -> what the completed handler returned, or Nil
  at,           \* worker -> where its attempt is
  faults        \* faults so far

engineVars   == <<invocation, engine, promise, owner, result>>
workflowVars == <<stepJournal, runMeta, effectLog, effectSeq,
                  invocation, engine, promise, owner, result, at, faults>>

-----------------------------------------------------------------------------
(* The step tables.  A step's seq is its position.                         *)

AgentSteps == <<"step1-plan", "step2-tool_call", "step3-summarize">>

HitlSteps  == <<"step1-plan", "hitl-pause", "hitl-input", "step4-tool_call",
                "step5-summarize">>

StepsOf(wf) == IF wf = "AgentRun" THEN AgentSteps ELSE HitlSteps

ToolSteps == {"step2-tool_call", "step4-tool_call"}

(* The earlier steps whose values the step's output string is built from.  *)
OutputUses ==
  {<<"hitl-pause", 1>>, <<"step4-tool_call", 3>>,
   <<"step3-summarize", 1>>, <<"step3-summarize", 2>>,
   <<"step5-summarize", 1>>, <<"step5-summarize", 3>>, <<"step5-summarize", 4>>}

(* The earlier steps whose values go into the effect's payload.            *)
PayloadUses ==
  {<<"step2-tool_call", 1>>, <<"step4-tool_call", 1>>, <<"step4-tool_call", 3>>}

OutputReads(step)  == {j \in Seqs : <<step, j>> \in OutputUses}
PayloadReads(step) == {j \in Seqs : <<step, j>> \in PayloadUses}

Invocations == [wf : {"AgentRun", "HitlAgentRun"}, prompt : Prompts]

Idle == [pc |-> "idle", run |-> Nil, seq |-> 0, val |-> Nil]

Attempt == [pc : {"meta", "next", "produce", "insert", "return"},
            run : Runs, seq : 1 .. MaxSeq + 1, val : Output \cup {Nil}]

WorkflowTypeOK ==
  /\ JournalTypeOK
  /\ invocation \in [Runs -> Invocations \cup {Nil}]
  /\ engine \in [Runs -> Seq(Output)]
  /\ promise \in [Runs -> Decisions \cup {Nil}]
  /\ owner \in [Runs -> Workers \cup {Nil}]
  /\ result \in [Runs -> Seq(Output) \cup {Nil}]
  /\ at \in [Workers -> Attempt \cup {Idle}]
  /\ faults \in 0 .. MaxFaults

WorkflowInit ==
  /\ JournalInit
  /\ invocation = [r \in Runs |-> Nil]
  /\ engine = [r \in Runs |-> <<>>]
  /\ promise = [r \in Runs |-> Nil]
  /\ owner = [r \in Runs |-> Nil]
  /\ result = [r \in Runs |-> Nil]
  /\ at = [w \in Workers |-> Idle]
  /\ faults = 0

-----------------------------------------------------------------------------
(* Where a worker is.                                                      *)

Steps(r) == StepsOf(invocation[r].wf)

HasStep(w) == at[w].seq <= Len(Steps(at[w].run))

StepOf(w) == Steps(at[w].run)[at[w].seq]

(* What the local variables plan, humanDecision, toolResult hold: an       *)
(* attempt gets them from the engine, replayed or acknowledged.            *)
Values(r, S) == {[seq |-> j, ext |-> engine[r][j].ext] : j \in S}

(* `await ctx.promise(HITL_PROMISE)` stands before the input step.         *)
Blocked(w) == StepOf(w) = "hitl-input" /\ promise[at[w].run] = Nil

Suspended(r) ==
  /\ invocation[r].wf = "HitlAgentRun"
  /\ Len(engine[r]) = 2
  /\ promise[r] = Nil

(* The attempt ends without a result; the engine, if it still listened to  *)
(* it, will start another.                                                 *)
EndAttempt(w) ==
  /\ at' = [at EXCEPT ![w] = Idle]
  /\ owner' = [owner EXCEPT ![at[w].run] = IF @ = w THEN Nil ELSE @]

Fault == faults < MaxFaults /\ faults' = faults + 1

-----------------------------------------------------------------------------
(* The engine accepts an invocation: a workflow runs once per key, so a    *)
(* second one for the same key is refused.                                 *)
Invoke(r, wf, p) ==
  /\ wf \in Handlers
  /\ invocation[r] = Nil
  /\ invocation' = [invocation EXCEPT ![r] = [wf |-> wf, prompt |-> p]]
  /\ UNCHANGED <<tableVars, engine, promise, owner, result, at, faults>>

(* The engine resolves the durable promise for a human's decision; the     *)
(* first value stays.                                                      *)
ResolvePromise(r, d) ==
  /\ invocation[r] # Nil
  /\ invocation[r].wf = "HitlAgentRun"
  /\ promise[r] = Nil
  /\ promise' = [promise EXCEPT ![r] = d]
  /\ UNCHANGED <<tableVars, invocation, engine, owner, result, at, faults>>

(* The engine starts an attempt; it will replay every result it holds.     *)
StartAttempt(w, r) ==
  /\ at[w].pc = "idle"
  /\ invocation[r] # Nil
  /\ result[r] = Nil
  /\ owner[r] = Nil
  /\ ~Suspended(r)
  /\ owner' = [owner EXCEPT ![r] = w]
  /\ at' = [at EXCEPT ![w] = [pc |-> "meta", run |-> r,
                              seq |-> Len(engine[r]) + 1, val |-> Nil]]
  /\ UNCHANGED <<tableVars, invocation, engine, promise, result, faults>>

(* Mistake: the handler does not write its run_meta row.                   *)
BeginHandlerWithoutMeta(w) ==
  /\ at[w].pc = "meta"
  /\ at' = [at EXCEPT ![w].pc = "next"]
  /\ UNCHANGED <<tableVars, engineVars, faults>>

(* ensureRunMeta is outside ctx.run: every attempt executes it.            *)
BeginHandler(w) ==
  /\ at[w].pc = "meta"
  /\ ensureRunMeta(at[w].run, invocation[at[w].run].prompt)
  /\ at' = [at EXCEPT ![w].pc = "next"]
  /\ UNCHANGED <<stepJournal, effectVars, engineVars, faults>>

(* Mistake: the row found is returned, not its output.                     *)
ReplayStepAsRow(w) ==
  /\ at[w].pc = "next" /\ HasStep(w) /\ ~Blocked(w)
  /\ HasEntry(at[w].run, at[w].seq)
  /\ at' = [at EXCEPT ![w].pc = "return",
                      ![w].val = getEntry(at[w].run, at[w].seq)]
  /\ UNCHANGED <<tableVars, engineVars, faults>>

(* recordStep finds the step journaled: its producer does not run.         *)
ReplayStep(w) ==
  /\ at[w].pc = "next"
  /\ HasStep(w)
  /\ ~Blocked(w)
  /\ HasEntry(at[w].run, at[w].seq)
  /\ at' = [at EXCEPT ![w].pc = "return",
                      ![w].val = getEntry(at[w].run, at[w].seq).output]
  /\ UNCHANGED <<tableVars, engineVars, faults>>

(* Mistake: rows seeded by a fork are not looked at.                       *)
MissStepDespiteSeed(w) ==
  /\ at[w].pc = "next" /\ HasStep(w) /\ ~Blocked(w)
  /\ \A e \in trajectory(at[w].run) : e.seq = at[w].seq => e.seededFrom # Nil
  /\ at' = [at EXCEPT ![w].pc = "produce"]
  /\ UNCHANGED <<tableVars, engineVars, faults>>

(* recordStep finds no row and calls the producer.                         *)
MissStep(w) ==
  /\ at[w].pc = "next"
  /\ HasStep(w)
  /\ ~Blocked(w)
  /\ ~HasEntry(at[w].run, at[w].seq)
  /\ at' = [at EXCEPT ![w].pc = "produce"]
  /\ UNCHANGED <<tableVars, engineVars, faults>>

Produced(w, reads, ext) ==
  at' = [at EXCEPT ![w].pc = "insert",
                   ![w].val = [folds |-> Values(at[w].run, reads), ext |-> ext]]

(* The provider answers; the call is made with no database handle held.    *)
CallProvider(w) ==
  /\ at[w].pc = "produce"
  /\ StepOf(w) = "step1-plan"
  /\ \E c \in Completions : Produced(w, {}, c)
  /\ UNCHANGED <<tableVars, engineVars, faults>>

(* The tool step's producer: fire the effect, return its id.               *)
FireTool(w) ==
  /\ at[w].pc = "produce"
  /\ StepOf(w) \in ToolSteps
  /\ \E id \in 1 .. effectSeq + 1 :
       /\ fireEffect(at[w].run, IdemKey(at[w].run, StepOf(w)),
                     Values(at[w].run, PayloadReads(StepOf(w))), id)
       /\ Produced(w, OutputReads(StepOf(w)), id)
  /\ UNCHANGED <<journalVars, engineVars, faults>>

(* The pause adds nothing, the input the human's decision, a summary the   *)
(* prompt.                                                                 *)
OwnExt(w) ==
  IF StepOf(w) = "hitl-pause" THEN Nil
  ELSE IF StepOf(w) = "hitl-input" THEN promise[at[w].run]
  ELSE invocation[at[w].run].prompt

(* The producers that only compute: pause, input and summarize.            *)
ComputeStep(w) ==
  /\ at[w].pc = "produce"
  /\ StepOf(w) \notin ToolSteps \cup {"step1-plan"}
  /\ Produced(w, OutputReads(StepOf(w)), OwnExt(w))
  /\ UNCHANGED <<tableVars, engineVars, faults>>

AttemptRow(w) == NativeRow(at[w].run, at[w].seq, StepOf(w), at[w].val)

(* recordStep journals the output it produced.                             *)
JournalStep(w) ==
  /\ at[w].pc = "insert"
  /\ InsertStep(AttemptRow(w))
  /\ at' = [at EXCEPT ![w].pc = "return"]
  /\ UNCHANGED <<runMeta, effectVars, engineVars, faults>>

(* Mistake: the error of the INSERT is swallowed and the step returns.     *)
LoseInsertSilently(w) ==
  /\ at[w].pc = "insert"
  /\ Conflicts(AttemptRow(w))
  /\ at' = [at EXCEPT ![w].pc = "return"]
  /\ UNCHANGED <<tableVars, engineVars, faults>>

(* Another process journaled the step first: the INSERT throws, the        *)
(* attempt fails, and the next one reads the row that won.                 *)
LoseInsert(w) ==
  /\ at[w].pc = "insert"
  /\ Conflicts(AttemptRow(w))
  /\ EndAttempt(w)
  /\ UNCHANGED <<tableVars, invocation, engine, promise, result, faults>>

(* ctx.run resolves: the engine holds the result, the handler goes on.     *)
CommitStep(w) ==
  /\ at[w].pc = "return"
  /\ owner[at[w].run] = w
  /\ engine' = [engine EXCEPT ![at[w].run] = Append(@, at[w].val)]
  /\ at' = [at EXCEPT ![w].pc = "next", ![w].seq = @ + 1, ![w].val = Nil]
  /\ UNCHANGED <<tableVars, invocation, promise, owner, result, faults>>

(* The handler returns its outputs; the engine completes the workflow.     *)
Finish(w) ==
  /\ at[w].pc = "next"
  /\ ~HasStep(w)
  /\ owner[at[w].run] = w
  /\ result' = [result EXCEPT ![at[w].run] = engine[at[w].run]]
  /\ EndAttempt(w)
  /\ UNCHANGED <<tableVars, invocation, engine, promise, faults>>

(* The run waits for its human without a process: the attempt is dropped   *)
(* and restarted when the promise resolves.                                *)
Suspend(w) ==
  /\ at[w].pc = "next"
  /\ HasStep(w)
  /\ Blocked(w)
  /\ EndAttempt(w)
  /\ UNCHANGED <<tableVars, invocation, engine, promise, result, faults>>

(* The stream of a zombie is closed: its handler stops at an await.        *)
Fenced(w) ==
  /\ at[w].pc \in {"meta", "next", "return"}
  /\ owner[at[w].run] # w
  /\ EndAttempt(w)
  /\ UNCHANGED <<tableVars, invocation, engine, promise, result, faults>>

-----------------------------------------------------------------------------
(* Faults.                                                                 *)

(* SIGKILL of the worker's process: between any two steps.                 *)
Crash(w) ==
  /\ at[w].pc # "idle"
  /\ Fault
  /\ EndAttempt(w)
  /\ UNCHANGED <<tableVars, invocation, engine, promise, result>>

(* The provider call throws (HTTP error, timeout): so does the step.       *)
ProviderFails(w) ==
  /\ at[w].pc = "produce"
  /\ StepOf(w) = "step1-plan"
  /\ Fault
  /\ EndAttempt(w)
  /\ UNCHANGED <<tableVars, invocation, engine, promise, result>>

(* The engine loses the connection to a live attempt and gives up on it.   *)
LoseConnection(r) ==
  /\ owner[r] # Nil
  /\ Fault
  /\ owner' = [owner EXCEPT ![r] = Nil]
  /\ UNCHANGED <<tableVars, invocation, engine, promise, result, at>>

-----------------------------------------------------------------------------

RecordStep(w) ==
  \/ ReplayStep(w) \/ MissStep(w)
  \/ CallProvider(w) \/ FireTool(w) \/ ComputeStep(w)
  \/ JournalStep(w) \/ LoseInsert(w)

HandlerStep(w) ==
  \/ BeginHandler(w) \/ RecordStep(w) \/ CommitStep(w)
  \/ Finish(w) \/ Suspend(w) \/ Fenced(w)

FaultStep ==
  \/ \E w \in Workers : Crash(w) \/ ProviderFails(w)
  \/ \E r \in Runs : LoseConnection(r)

ClientStep ==
  \/ \E r \in NativeRuns, wf \in Handlers, p \in Prompts : Invoke(r, wf, p)
  \/ \E r \in Runs, d \in Decisions : ResolvePromise(r, d)

EngineStep ==
  \/ \E w \in Workers, r \in Runs : StartAttempt(w, r)
  \/ \E w \in Workers : HandlerStep(w)

WorkflowNext == ClientStep \/ EngineStep \/ FaultStep

(* The engine keeps retrying an accepted invocation and a running handler  *)
(* goes on; nothing obliges a client to invoke, a human to answer, or a    *)
(* fault to happen.                                                        *)
EngineFairness ==
  /\ \A r \in Runs : WF_workflowVars(\E w \in Workers : StartAttempt(w, r))
  /\ \A w \in Workers : WF_workflowVars(HandlerStep(w))

WorkflowSpec == WorkflowInit /\ [][WorkflowNext]_workflowVars /\ EngineFairness

-----------------------------------------------------------------------------
(* What must be true of the workflow layer.                                *)

Recorded(r, s, out) ==
  \E e \in stepJournal : e.run = r /\ e.seq = s /\ e.output = out

(* Every value folded in is what a journaled step of the same run gave.    *)
FoldsJournaled(r, folds) ==
  \A x \in folds :
    \E e \in stepJournal : e.run = r /\ e.seq = x.seq /\ e.output.ext = x.ext

FiredAs(r, id) == \E f \in effectLog : f.run = r /\ f.id = id

(* The engine's own log and the portable journal agree on every step both  *)
(* hold, and the engine is never ahead: journal.ts 13-15, "Both must agree *)
(* on a step's output - they do", although each is written without the     *)
(* other and two attempts may produce different values for one step.       *)
EngineAgreesWithJournal ==
  \A r \in Runs : \A k \in 1 .. Len(engine[r]) : Recorded(r, k, engine[r][k])

(* The tool step acts at most once per run however many attempts run it,   *)
(* and a natively journaled tool output names exactly the effect its own   *)
(* run fired.                                                              *)
OneEffectPerRun ==
  /\ \A f, g \in effectLog : f.run = g.run => f = g
  /\ \A e \in stepJournal :
       (e.step \in ToolSteps /\ e.seededFrom = Nil) => FiredAs(e.run, e.output.ext)

(* In the window between the two databases, too, an effect was fired from  *)
(* outputs the journal already holds, so that whoever retries the step     *)
(* would send the payload the effect log kept from the first firing.       *)
EffectsFromJournal == \A f \in effectLog : FoldsJournaled(f.run, f.payload)

(* Every journaled output was built from the outputs journaled before it   *)
(* in its own run, never from the ones a losing attempt computed.          *)
OutputsFromJournal == \A e \in stepJournal : FoldsJournaled(e.run, e.output.folds)

(* A run's trajectory has no gap and no step before its run_meta row.      *)
GapFreeTrajectories ==
  \A e \in stepJournal :
    /\ runMeta[e.run] # Nil
    /\ \A j \in 1 .. e.seq - 1 : HasEntry(e.run, j)

-----------------------------------------------------------------------------
(* Why the above holds: what every reachable state satisfies, stated so    *)
(* that each step preserves it.                                            *)

(* The primary key.                                                        *)
OneRowPerStep ==
  \A d, e \in stepJournal : (d.run = e.run /\ d.seq = e.seq) => d = e

EnginePosition ==
  \A r \in Runs :
    engine[r] # <<>> => invocation[r] # Nil /\ Len(engine[r]) <= Len(Steps(r))

(* The attempt the engine listens to is at the step after the engine's,    *)
(* and it listens to none once the run has completed.                      *)
OwnerPosition ==
  \A r \in Runs : owner[r] # Nil =>
    /\ result[r] = Nil
    /\ at[owner[r]].pc # "idle"
    /\ at[owner[r]].run = r
    /\ at[owner[r]].seq = Len(engine[r]) + 1

(* Any attempt, a zombie's included, is at most there, and what it carries *)
(* came from the journal or can go into it.                                *)
AttemptOK(w) ==
  /\ at[w].pc # "idle" =>
       /\ invocation[at[w].run] # Nil
       /\ at[w].seq <= Len(engine[at[w].run]) + 1
       /\ at[w].pc # "meta" => runMeta[at[w].run] # Nil
       /\ at[w].pc \in {"produce", "insert", "return"} => HasStep(w)
  /\ at[w].pc = "return" => Recorded(at[w].run, at[w].seq, at[w].val)
  /\ at[w].pc = "insert" =>
       /\ at[w].val \in Output
       /\ FoldsJournaled(at[w].run, at[w].val.folds)
       /\ StepOf(w) \in ToolSteps => FiredAs(at[w].run, at[w].val.ext)

AttemptsOK == \A w \in Workers : AttemptOK(w)

(* Every effect row is its run's tool step; ids come from the counter.     *)
EffectRows ==
  /\ \A f \in effectLog :
       /\ f.id <= effectSeq
       /\ invocation[f.run] # Nil
       /\ \E k \in 1 .. Len(Steps(f.run)) :
            Steps(f.run)[k] \in ToolSteps /\ f.key = IdemKey(f.run, Steps(f.run)[k])
       /\ \E x \in f.payload : x.seq = 1
  /\ \A f, g \in effectLog : f.id = g.id => f = g

ResultsFromEngine ==
  \A r \in Runs : result[r] # Nil => result[r] = engine[r]

WorkflowIInv ==
  /\ WorkflowTypeOK
  /\ OneRowPerStep /\ GapFreeTrajectories /\ OutputsFromJournal
  /\ EnginePosition /\ EngineAgreesWithJournal /\ ResultsFromEngine
  /\ OwnerPosition /\ AttemptsOK
  /\ EffectRows /\ EffectsFromJournal /\ OneEffectPerRun

-----------------------------------------------------------------------------
(* The workflow layer implements what DurableRuns promises: the journal    *)
(* rows are the log, the effect rows are the acts, the results are the     *)
(* outcomes.                                                               *)
Log  == {[run |-> e.run, seq |-> e.seq, step |-> e.step,
          output |-> e.output] : e \in stepJournal}
Acts == {[run |-> f.run, id |-> f.id, payload |-> f.payload] : f \in effectLog}

Promised == INSTANCE DurableRuns WITH log <- Log, acts <- Acts, outcome <- result

ImplementsDurableRuns == Promised!Spec

(* An accepted run completes once the faults are over, and a HITL run once *)
(* its human has answered.                                                 *)
RunsComplete ==
  \A r \in Runs :
    /\ invocation[r] # Nil
    /\ invocation[r].wf = "HitlAgentRun" => promise[r] # Nil
    ~> result[r] # Nil

(* An effect fired just before a crash does not stay unjournaled: a later  *)
(* attempt closes the dual-write window.                                   *)
EffectsGetJournaled ==
  \A r \in Runs :
    effectsFor(r) # {} ~> \E e \in trajectory(r) : e.step \in ToolSteps

=============================================================================
