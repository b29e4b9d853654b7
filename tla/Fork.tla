-------------------------------- MODULE Fork --------------------------------
(***************************************************************************)
(* Logical step-level fork (src/fork.ts over forkRun of src/journal.ts),   *)
(* as POST /api/fork, the CLI and the MCP server run it (src/api-fork.ts), *)
(* concurrently with the workflows and with each other.                    *)
(*                                                                         *)
(* A fork request validates its plan against the journal, then seeds the   *)
(* new run in one transaction, then submits the new run to the engine.     *)
(* The three are separate: nothing is locked between them, so another      *)
(* fork, or a native submission of the same run id, may come in between.   *)
(***************************************************************************)
EXTENDS Workflow

CONSTANTS
  Forks,        \* fork requests
  Targets,      \* the run ids forks create
  ForkPoints    \* the fork points asked for

ASSUME ForkAssumption == Targets \subseteq Runs /\ ForkPoints \subseteq Seqs

ASSUME NilIsNoInvocation == Nil \notin Invocations

VARIABLE
  fork          \* fork request -> its plan and how far it is

forkVars == <<stepJournal, runMeta, effectLog, effectSeq, invocation, engine,
              promise, owner, result, at, faults, fork>>

Modes == {"validate", "seed", "fork"}

ForkPlan == [mode : Modes, source : Runs, newRun : Targets,
             throughSeq : ForkPoints, prompt : Prompts]

(* Before the request, and once it was answered with an error.             *)
NoFork   == [phase |-> "idle"]
Rejected == [phase |-> "rejected"]
Failed   == [phase |-> "failed"]

ForkState ==
  {NoFork, Rejected, Failed} \cup
  [phase : {"validated", "read", "seeded", "invoked", "ok"},
   plan : ForkPlan, rows : SUBSET StepRow]

ForkTypeOK == WorkflowTypeOK /\ fork \in [Forks -> ForkState]

ForkInit == WorkflowInit /\ fork = [f \in Forks |-> NoFork]

Plan(f) == fork[f].plan

Advance(f, phase) == fork' = [fork EXCEPT ![f].phase = phase, ![f].rows = {}]

Fail(f) == fork' = [fork EXCEPT ![f] = Failed]

-----------------------------------------------------------------------------

(* validateForkPlan.  The rows of the source only grow, so reading them    *)
(* together with the target's loses no outcome.                            *)
ValidPlan(p) ==
  /\ p.source # p.newRun
  /\ HasEntry(p.source, p.throughSeq)
  /\ runMeta[p.newRun] = Nil
  /\ trajectory(p.newRun) = {}

AfterValidation(p) == IF p.mode = "validate" THEN "ok" ELSE "validated"

ValidateFork(f, p) ==
  /\ fork[f] = NoFork
  /\ fork' = [fork EXCEPT ![f] =
                IF ValidPlan(p)
                THEN [phase |-> AfterValidation(p), plan |-> p, rows |-> {}]
                ELSE Rejected]
  /\ UNCHANGED workflowVars

(* forkRun's SELECT, before its BEGIN.                                     *)
ReadSource(f) ==
  /\ fork[f].phase = "validated"
  /\ fork' = [fork EXCEPT ![f].phase = "read",
                          ![f].rows = RowsThrough(Plan(f).source,
                                                  Plan(f).throughSeq)]
  /\ UNCHANGED workflowVars

(* The transaction commits.                                                *)
SeedFork(f) ==
  /\ fork[f].phase = "read"
  /\ forkRun(fork[f].rows, Plan(f).newRun, Plan(f).source, Plan(f).throughSeq,
             Plan(f).prompt)
  /\ Advance(f, IF Plan(f).mode = "seed" THEN "ok" ELSE "seeded")
  /\ UNCHANGED <<effectVars, engineVars, at, faults>>

(* Mistake: no ROLLBACK; the replaced run_meta row stays.                  *)
SeedKeepsMeta(f) ==
  /\ fork[f].phase = "read"
  /\ SeedConflicts(fork[f].rows, Plan(f).newRun, Plan(f).source)
  /\ runMeta' = [runMeta EXCEPT ![Plan(f).newRun] =
                   ForkMeta(Plan(f).source, Plan(f).throughSeq, Plan(f).prompt)]
  /\ Fail(f)
  /\ UNCHANGED <<stepJournal, effectVars, engineVars, at, faults>>

(* A step of the new run is journaled already: rollback and throw.         *)
SeedRollsBack(f) ==
  /\ fork[f].phase = "read"
  /\ SeedConflicts(fork[f].rows, Plan(f).newRun, Plan(f).source)
  /\ Fail(f)
  /\ UNCHANGED workflowVars

(* POST <ingress>/AgentRun/<newRun>/run: always the AgentRun handler.      *)
InvokeFork(f) ==
  /\ fork[f].phase = "seeded"
  /\ Invoke(Plan(f).newRun, "AgentRun", Plan(f).prompt)
  /\ Advance(f, "invoked")

(* The engine already has a workflow under that key: the POST fails.       *)
InvokeRefused(f) ==
  /\ fork[f].phase = "seeded"
  /\ invocation[Plan(f).newRun] # Nil
  /\ Fail(f)
  /\ UNCHANGED workflowVars

(* The POST answers once the diverged run has completed.                   *)
ForkCompletes(f) ==
  /\ fork[f].phase = "invoked"
  /\ result[Plan(f).newRun] # Nil
  /\ Advance(f, "ok")
  /\ UNCHANGED workflowVars

(* The requesting process dies, or its POST is lost before or after the    *)
(* engine took it.                                                         *)
ForkDies(f) ==
  /\ fork[f].phase \in {"validated", "read", "seeded", "invoked"}
  /\ Fault
  /\ Fail(f)
  /\ UNCHANGED <<tableVars, engineVars, at>>

-----------------------------------------------------------------------------

ForkStep(f) ==
  \/ ReadSource(f) \/ SeedFork(f) \/ SeedRollsBack(f)
  \/ InvokeFork(f) \/ InvokeRefused(f) \/ ForkCompletes(f)

ForkNext ==
  \/ WorkflowNext /\ UNCHANGED fork
  \/ \E f \in Forks, p \in ForkPlan : ValidateFork(f, p)
  \/ \E f \in Forks : ForkStep(f) \/ ForkDies(f)

(* As for the workflows, plus: a fork request that is under way goes on.   *)
ForkFairness ==
  /\ \A r \in Runs : WF_forkVars(/\ \E w \in Workers : StartAttempt(w, r)
                                 /\ UNCHANGED fork)
  /\ \A w \in Workers : WF_forkVars(HandlerStep(w) /\ UNCHANGED fork)
  /\ \A f \in Forks : WF_forkVars(ForkStep(f))

ForkSpec == ForkInit /\ [][ForkNext]_forkVars /\ ForkFairness

-----------------------------------------------------------------------------
(* What must be true of forks.                                             *)

Parent(r) == IF runMeta[r] = Nil THEN Nil ELSE runMeta[r].parent

(* A forked run is its parent's trajectory up to the fork point, word for  *)
(* word and marked as such, and its own from there on; a run that is not a *)
(* fork holds nothing seeded.  Whatever raced for the run id, lineage and  *)
(* rows tell the same story.                                               *)
ForksCopyTheirPrefix ==
  \A r \in Runs :
    /\ Parent(r) # Nil => \A s \in 1 .. runMeta[r].forkedAt :
         \E e \in trajectory(r), d \in trajectory(Parent(r)) :
           e.seq = s /\ e = SeededRow(d, r, Parent(r))
    /\ \A e \in trajectory(r) :
         e.seededFrom # Nil <=> Parent(r) # Nil /\ e.seq <= runMeta[r].forkedAt

(* A step copied into a fork never fires its effect for the fork, even     *)
(* when an attempt of the same run id had started before the rows came.    *)
SeededStepsNeverFire ==
  \A e \in stepJournal :
    e.seededFrom # Nil => ~Fired(IdemKey(e.run, e.step))

(* What a fork request reports is what happened: the run it names was      *)
(* seeded by it and nobody else, and executed with its decision.           *)
ForkReportsAreTrue ==
  \A f \in Forks :
    (fork[f].phase = "ok" /\ Plan(f).mode # "validate") =>
      LET p == Plan(f) IN
      /\ runMeta[p.newRun] = [parent |-> p.source, forkedAt |-> p.throughSeq,
                              trajectory |-> p.prompt]
      /\ p.mode = "fork" =>
           /\ invocation[p.newRun] = [wf |-> "AgentRun", prompt |-> p.prompt]
           /\ \A s \in DOMAIN result[p.newRun] : s <= p.throughSeq =>
                \E d \in trajectory(p.source) :
                  d.seq = s /\ d.output = result[p.newRun][s]

(* A fork whose point lies before the side-effecting step executes that    *)
(* step itself, once (docs/m2-trajectory-branching.md 67-74).              *)
ForksPastNoEffectFireTheirOwn ==
  \A r \in Runs :
    /\ result[r] # Nil
    /\ Parent(r) # Nil
    /\ \A e \in trajectory(r) : e.step \in ToolSteps => e.seededFrom = Nil
    => \E f \in effectLog : f.run = r

(* A fork request that got as far as the engine is answered, by success or *)
(* failure.                                                                *)
ForksAnswered ==
  \A f \in Forks : fork[f].phase = "invoked" ~> fork[f].phase \in {"ok", "failed"}

-----------------------------------------------------------------------------
(* Why the safety above holds.                                             *)

(* What was read of the source is what is still there up to the fork       *)
(* point: nothing is inserted below a step that is journaled.              *)
PlanHolds(f) ==
  /\ fork[f].phase \in {"validated", "read"} =>
       /\ Plan(f).source # Plan(f).newRun
       /\ HasEntry(Plan(f).source, Plan(f).throughSeq)
  /\ fork[f].phase = "read" =>
       fork[f].rows = RowsThrough(Plan(f).source, Plan(f).throughSeq)

HasSeeded(f) ==
  \/ fork[f].phase \in {"seeded", "invoked"}
  \/ fork[f].phase = "ok" /\ Plan(f).mode # "validate"

HasInvoked(f) ==
  \/ fork[f].phase = "invoked"
  \/ fork[f].phase = "ok" /\ Plan(f).mode = "fork"

(* What a request did is not undone by another.                            *)
RequestStands(f) ==
  /\ HasSeeded(f) =>
       runMeta[Plan(f).newRun] =
         ForkMeta(Plan(f).source, Plan(f).throughSeq, Plan(f).prompt)
  /\ HasInvoked(f) =>
       invocation[Plan(f).newRun] = [wf |-> "AgentRun", prompt |-> Plan(f).prompt]
  /\ (fork[f].phase = "ok" /\ Plan(f).mode = "fork") => result[Plan(f).newRun] # Nil

(* A tool step has one place, whichever workflow the run is resumed as.    *)
ToolStepsInPlace ==
  \A e \in stepJournal :
    /\ e.step = "step2-tool_call" => e.seq = 2
    /\ e.step = "step4-tool_call" => e.seq = 4

(* An output is built from earlier steps only, so that a prefix is closed. *)
StepsLookBack ==
  /\ \A e \in stepJournal : \A x \in e.output.folds : x.seq < e.seq
  /\ \A w \in Workers : at[w].pc = "insert" =>
       \A x \in at[w].val.folds : x.seq < at[w].seq

(* A producer past the first step runs for a step that was not seeded, and *)
(* never will be: its run has a first step.                                *)
ProducersAreNative ==
  \A w \in Workers : (at[w].pc = "produce" /\ at[w].seq > 1) =>
    \A e \in trajectory(at[w].run) : e.seq = at[w].seq => e.seededFrom = Nil

(* A step a run executed itself is a step of its workflow.                 *)
OwnStepsAreTheWorkflows ==
  \A e \in stepJournal : e.seededFrom = Nil =>
    /\ invocation[e.run] # Nil
    /\ e.seq <= Len(Steps(e.run))
    /\ e.step = Steps(e.run)[e.seq]
    /\ e.key = IdemKey(e.run, e.step)

(* A parent is recorded together with the fork point.                      *)
LineageHasAPoint == \A r \in Runs : Parent(r) # Nil => runMeta[r].forkedAt \in Seqs

(* No lineage goes in a circle: a run that is seeded is nobody's parent    *)
(* yet, as a parent has rows.                                              *)
LineagesEnd == \A S \in SUBSET Runs : S # {} => \E r \in S : Parent(r) \notin S

ForkIInv ==
  /\ WorkflowIInv /\ ForkTypeOK
  /\ ForksCopyTheirPrefix /\ SeededStepsNeverFire
  /\ ToolStepsInPlace /\ StepsLookBack /\ ProducersAreNative
  /\ OwnStepsAreTheWorkflows /\ LineageHasAPoint /\ LineagesEnd
  /\ \A f \in Forks : PlanHolds(f) /\ RequestStands(f)

=============================================================================
