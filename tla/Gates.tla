-------------------------------- MODULE Gates --------------------------------
(***************************************************************************)
(* The verification gates of the repository (src/harness/run-gate.ts and   *)
(* run-m2-gate.ts to run-m5-gate.ts): programs that start the service,     *)
(* submit, fork and resume runs, have the service kill itself at a named   *)
(* point, and then read the journal and the effect sink.  A gate is a      *)
(* script of commands and checks; the workflows, the engine and the        *)
(* service go their own pace under it.                                     *)
(*                                                                         *)
(* Waits with a deadline are waits without one here: the deadlines are     *)
(* tens of seconds.  The one fetch whose answer may really never come is   *)
(* cut off by FetchTimesOut.                                               *)
(***************************************************************************)
EXTENDS Fork, Replay

CONSTANT
  GatesRun      \* the gates that are run

VARIABLES
  gate,         \* the gate
  line,         \* the command it is at
  service,      \* the service process and its environment
  crashed,      \* the crash marker files: points that were reached once
  input,        \* the provideInput call the gate waits for, or Nil
  answers,      \* what its provideInput calls answered
  before,       \* the journal as the gate read it at an earlier command
  verdict       \* of the gate

gateVars == <<gate, line, service, crashed, input, answers, before, verdict>>
gatesVars == <<stepJournal, runMeta, effectLog, effectSeq, invocation, engine,
               promise, owner, result, at, faults, fork,
               gate, line, service, crashed, input, answers, before, verdict>>

-----------------------------------------------------------------------------
(* Scripts.  Every gate has its own run ids; the decision of a fork is     *)
(* named like the fork.                                                    *)

RootRun == "root"
ForkA   == "forkA"
ForkB   == "forkB"
SubFork == "subFork"

ASSUME GatesAssumption ==
  /\ {RootRun, ForkA, ForkB, SubFork} \subseteq Runs \cap Prompts
  /\ {"fake-echo", "fake-upper"} \subseteq Completions
  /\ {"first", "second"} \subseteq Decisions

(* Where in the handlers a crash point stands: the position of the attempt *)
(* that reaches it.                                                        *)
PointAt == [p \in {"before:step1", "after:step1", "before-effect:step2",
                   "after-effect:step2", "after:step2", "before:step3",
                   "after:step3", "on-resume:after-effect"} |->
  CASE p = "before:step1"           -> <<"next", 1>>
    [] p = "after:step1"            -> <<"next", 2>>
    [] p = "before-effect:step2"    -> <<"produce", 2>>
    [] p = "after-effect:step2"     -> <<"insert", 2>>
    [] p = "after:step2"            -> <<"next", 3>>
    [] p = "before:step3"           -> <<"next", 3>>
    [] p = "after:step3"            -> <<"next", 4>>
    [] p = "on-resume:after-effect" -> <<"insert", 4>>]

CrashPoints == {"before:step1", "after:step1", "before-effect:step2",
                "after-effect:step2", "after:step2", "before:step3", "after:step3"}

Start(provider, point) == <<[do |-> "start", provider |-> provider, point |-> point]>>
Service                == Start("fake-echo", Nil)
Submit(r, wf)          == <<[do |-> "submit", run |-> r, wf |-> wf]>>
Await(r)               == <<[do |-> "await", run |-> r]>>
Seed(src, r, n)        == <<[do |-> "seed", source |-> src, run |-> r, through |-> n]>>
Paused(r)              == <<[do |-> "paused", run |-> r]>>
Input(r, d)            == <<[do |-> "input", run |-> r, decision |-> d],
                            [do |-> "answered"]>>
Do(what)               == <<[do |-> what]>>
Check(what)            == <<[do |-> "check", what |-> what]>>

Invoke1(r) == Submit(r, "AgentRun") \o Await(r)

(* crashGate: crash, restart with the same environment, recover.           *)
CrashAndRecover(r, wf, provider, point) ==
  Start(provider, point) \o Submit(r, wf) \o Do("died") \o Do("kill")
    \o Start(provider, point) \o Await(r)

SourceThenFork(n) ==
  Service \o Invoke1(RootRun) \o Do("kill") \o Seed(RootRun, ForkA, n)

(* One service serves a run under its provider, the next one another run:  *)
(* under another provider, or for another engine (g3 with Docker).         *)
TwoServices(first, second) ==
  Start(first, Nil) \o Invoke1(RootRun) \o Do("kill")
    \o Start(second, Nil) \o Invoke1(ForkA) \o Do("kill")

HitlPaused == Service \o Submit(RootRun, "HitlAgentRun") \o Paused(RootRun)

HitlResumed == Input(RootRun, "first") \o Await(RootRun)

(* run-gate.ts *)
concurrencyGate ==
  Service \o Submit(RootRun, "AgentRun") \o Submit(RootRun, "AgentRun")
    \o Await(RootRun) \o Check("crash")

forkGate ==
  Service \o Invoke1(RootRun) \o Seed(RootRun, ForkA, 2) \o Invoke1(ForkA)
    \o Check("fork")

replayGate ==
  Service \o Invoke1(RootRun) \o Do("read") \o Await(RootRun) \o Check("replay")

(* run-m2-gate.ts *)
forkNoRefireGate ==
  Service \o Invoke1(RootRun) \o Seed(RootRun, ForkA, 2) \o Invoke1(ForkA)
    \o Check("fork") \o Check("forkNoRefire")

multiLevelForkGate ==
  Service \o Invoke1(RootRun) \o Seed(RootRun, ForkA, 2) \o Invoke1(ForkA)
    \o Seed(ForkA, ForkB, 2) \o Invoke1(ForkB)
    \o Seed(ForkB, SubFork, 2) \o Invoke1(SubFork) \o Check("multiLevelFork")

concurrentForksGate ==
  Service \o Invoke1(RootRun) \o Seed(RootRun, ForkA, 2) \o Seed(RootRun, ForkB, 2)
    \o Submit(ForkA, "AgentRun") \o Submit(ForkB, "AgentRun")
    \o Await(ForkA) \o Await(ForkB) \o Check("concurrentForks")

crashDuringForkNewEffectGate ==
  SourceThenFork(1)
    \o CrashAndRecover(ForkA, "AgentRun", "fake-echo", "after-effect:step2")
    \o Check("newEffect")

crashDuringForkSeededGate ==
  SourceThenFork(2)
    \o CrashAndRecover(ForkA, "AgentRun", "fake-echo", "before:step3")
    \o Check("seededEffect")

forkValidationGate ==
  Service \o Invoke1(RootRun) \o Check("forkValidation")

(* run-m3-gate.ts: the export is written, and the live runs are            *)
(* reconstructed, before everything is killed; the rest is offline.        *)
replayOfflineGate ==
  Service \o Invoke1(RootRun)
    \o Seed(RootRun, ForkA, 2) \o Invoke1(ForkA)
    \o Seed(RootRun, ForkB, 1) \o Invoke1(ForkB)
    \o Seed(ForkB, SubFork, 2) \o Invoke1(SubFork)
    \o Check("reconstruct") \o Do("read") \o Do("kill")
    \o Check("offline") \o Check("timeTravel") \o Check("forkTreeAndDiff")
    \o Check("uiApi")

(* run-m4-gate.ts *)
g1ModelNeutrality == TwoServices("fake-echo", "fake-upper") \o Check("neutral")

g2DurabilityUnderSwitch ==
  CrashAndRecover(RootRun, "AgentRun", "fake-upper", "after-effect:step2")
    \o Check("crash") \o Check("upperPlan")

g3DeployNeutrality == TwoServices("fake-echo", "fake-echo") \o Check("answered")

g4Portability ==
  TwoServices("fake-echo", "fake-upper") \o Do("read") \o Check("offline")

(* run-m5-gate.ts *)
pauseRestartResume ==
  HitlPaused \o Check("stillPaused") \o Do("kill") \o Check("stillPaused")
    \o Service \o HitlResumed \o Check("resumed")

crashDuringResume ==
  Start("fake-echo", "on-resume:after-effect")
    \o Submit(RootRun, "HitlAgentRun") \o Paused(RootRun)
    \o Input(RootRun, "first") \o Do("died") \o Do("kill")
    \o Start("fake-echo", "on-resume:after-effect")
    \o Await(RootRun) \o Check("resumed")

doubleSubmit ==
  HitlPaused \o Input(RootRun, "first") \o Input(RootRun, "first")
    \o Input(RootRun, "second") \o Await(RootRun) \o Check("resumed")

hitlExport ==
  HitlPaused \o HitlResumed \o Do("read") \o Do("kill")
    \o Check("offline") \o Check("resumed")

g5HitlWebUiApi ==
  HitlPaused \o Check("stillPaused") \o HitlResumed \o Check("resumed")

Scripts == [
  concurrency |-> concurrencyGate, fork |-> forkGate, replay |-> replayGate,
  forkNoRefire |-> forkNoRefireGate, multiLevelFork |-> multiLevelForkGate,
  concurrentForks |-> concurrentForksGate,
  crashDuringForkNewEffect |-> crashDuringForkNewEffectGate,
  crashDuringForkSeeded |-> crashDuringForkSeededGate,
  forkValidation |-> forkValidationGate, m3 |-> replayOfflineGate,
  modelNeutrality |-> g1ModelNeutrality,
  durabilityUnderSwitch |-> g2DurabilityUnderSwitch,
  deployNeutrality |-> g3DeployNeutrality, portability |-> g4Portability,
  pauseRestartResume |-> pauseRestartResume,
  crashDuringResume |-> crashDuringResume, doubleSubmit |-> doubleSubmit,
  hitlExport |-> hitlExport, webUi |-> g5HitlWebUiApi]

(* crashGate, for the seven points of the first gate.                      *)
crashGate(point) ==
  CrashAndRecover(RootRun, "AgentRun", "fake-echo", point) \o Check("crash")

Script(g) == IF g \in CrashPoints THEN crashGate(g) ELSE Scripts[g]

ASSUME GatesRunAssumption == GatesRun \subseteq CrashPoints \cup DOMAIN Scripts

(* The calls of provideInput.                                              *)
Inputs == [run : Runs, decision : Decisions,
           pc : {"peek", "resolve", "answer"}, accepted : BOOLEAN]

ASSUME NilIsNoInput == Nil \notin Inputs

-----------------------------------------------------------------------------
(* What the gates check, of the journal and the effect sink as they are at *)
(* that command.                                                           *)

countEffects(r, step) == Cardinality({f \in effectsFor(r) : EffectStep(f) = step})

StepsJournaled(r) == {e.step : e \in trajectory(r)}
AllSteps(wf)      == {StepsOf(wf)[i] : i \in DOMAIN StepsOf(wf)}
Answer(r)         == result[r][Len(result[r])]
At2(r)            == OutputAt(LiveSource, r, 2)

(* Effects of the tool step: n of run r.                                   *)
Effects(r, n) == countEffects(r, "step2-tool_call") = n

Complete(r) == StepsJournaled(r) = AllSteps("AgentRun")

CrashCheck == Effects(RootRun, 1) /\ Complete(RootRun)

ReplayCheck ==
  /\ stepsOf(LiveSource, RootRun) = stepsOf(before, RootRun)
  /\ Effects(RootRun, 1)

ForkCheck ==
  /\ Effects(RootRun, 1) /\ Effects(ForkA, 0)
  /\ Complete(RootRun) /\ Complete(ForkA)
  /\ At2(ForkA) = At2(RootRun)
  /\ Answer(ForkA) # Answer(RootRun)
  /\ runMeta[ForkA].parent = RootRun /\ runMeta[ForkA].forkedAt = 2

ForkNoRefireCheck ==
  /\ seededSeqs(LiveSource, ForkA) = {1, 2}
  /\ runMeta[RootRun].forkedAt = Nil
  /\ firstDivergenceSeq(LiveSource, RootRun, ForkA) = 3
  /\ lineage(LiveSource, ForkA) = <<RootRun, ForkA>>

Forked == {ForkA, ForkB, SubFork}

MultiLevelForkCheck ==
  /\ Effects(RootRun, 1)
  /\ lineage(LiveSource, SubFork) = <<RootRun, ForkA, ForkB, SubFork>>
  /\ Cardinality({Answer(r) : r \in Forked}) = 3
  /\ \A r \in Forked : Effects(r, 0) /\ At2(r) = At2(RootRun)

ConcurrentForksCheck ==
  /\ Effects(RootRun, 1)
  /\ \A r \in {ForkA, ForkB} : Effects(r, 0) /\ Complete(r)
  /\ Answer(ForkA) # Answer(ForkB)

CrashDuringForkCheck(own, seeded) ==
  /\ Effects(RootRun, 1) /\ Effects(ForkA, own)
  /\ Complete(ForkA)
  /\ seededSeqs(LiveSource, ForkA) = seeded

ForkValidationCheck ==
  LET plan(src, new, n) == [source |-> src, newRun |-> new, throughSeq |-> n]
  IN  /\ ~ValidPlan(plan(SubFork, ForkA, 1))
      /\ ~ValidPlan(plan(RootRun, ForkA, 4))
      /\ ~ValidPlan(plan(RootRun, RootRun, 1))
      /\ ValidPlan(plan(RootRun, ForkA, 2))

ReconstructCheck ==
  LET r == reconstruct(LiveSource, RootRun)
  IN  /\ r.outcome = {Answer(RootRun)}
      /\ {s.step : s \in r.steps} = AllSteps("AgentRun")
      /\ Cardinality(r.effects) = 1

(* The journal as exported before the kill, imported and reconstructed.    *)
Offline(r) == importJournalSource(exportBundle(before, r))

OfflineCheck ==
  \A r \in rootRuns(before) : \A x \in Family(before, r) :
    Matches(reconstruct(LiveSource, x), reconstruct(Offline(r), x))

TimeTravelCheck ==
  LET then(n) == stateAt(Offline(RootRun), RootRun, n)
      forks(n) == {d.fork : d \in then(n).diverged}
  IN  /\ {s.seq : s \in then(2).steps} = {1, 2}
      /\ then(2).current = {At2(RootRun)}
      /\ Cardinality(then(2).effects) = 1 /\ then(1).effects = {}
      /\ ForkB \in forks(1) /\ ForkA \in forks(2)
      /\ 4 \notin TravelRange(Offline(RootRun), RootRun)

ForkTreeAndDiffCheck ==
  LET src == Offline(RootRun)
  IN  /\ childRuns(src, RootRun) = {ForkA, ForkB} /\ childRuns(src, ForkB) = {SubFork}
      /\ \A n \in 1 .. 3 :
           StepDiff(src, RootRun, ForkA, n) = IF n = 3 THEN "changed" ELSE "same"

(* What the UI's server shows of the import.                               *)
UiApiCheck ==
  LET src == Offline(RootRun)
  IN  /\ Cardinality(allRunIds(src)) >= 4 /\ rootRuns(src) = {RootRun}
      /\ Cardinality(reconstruct(src, RootRun).steps) = 3
      /\ Cardinality(reconstruct(src, RootRun).effects) = 1
      /\ Cardinality(childRuns(src, RootRun)) = 2
      /\ Cardinality(stateAt(src, RootRun, 2).steps) = 2

(* The provider is recorded in the plan.                                   *)
PlannedBy(r, provider) == OutputAt(LiveSource, r, 1).ext = provider

NeutralCheck == PlannedBy(RootRun, "fake-echo") /\ PlannedBy(ForkA, "fake-upper")

(* The first decision was accepted and no other, and it is the one acted   *)
(* upon, once.                                                             *)
ResumedCheck ==
  /\ answers = [i \in 1 .. Len(answers) |-> i = 1]
  /\ StepsJournaled(RootRun) = AllSteps("HitlAgentRun")
  /\ countEffects(RootRun, "step4-tool_call") = 1
  /\ hitlStateFromSource(LiveSource, RootRun) = "resumed"
  /\ OutputAt(LiveSource, RootRun, 3).ext = "first"
  /\ [seq |-> 3, ext |-> "first"] \in Answer(RootRun).folds

Holds(what) ==
  CASE what = "crash"           -> CrashCheck
    [] what = "fork"            -> ForkCheck
    [] what = "replay"          -> ReplayCheck
    [] what = "forkNoRefire"    -> ForkNoRefireCheck
    [] what = "multiLevelFork"  -> MultiLevelForkCheck
    [] what = "concurrentForks" -> ConcurrentForksCheck
    [] what = "newEffect"       -> CrashDuringForkCheck(1, {1})
    [] what = "seededEffect"    -> CrashDuringForkCheck(0, {1, 2})
    [] what = "forkValidation"  -> ForkValidationCheck
    [] what = "reconstruct"     -> ReconstructCheck
    [] what = "offline"         -> OfflineCheck
    [] what = "timeTravel"      -> TimeTravelCheck
    [] what = "forkTreeAndDiff" -> ForkTreeAndDiffCheck
    [] what = "uiApi"           -> UiApiCheck
    [] what = "neutral"         -> NeutralCheck
    [] what = "upperPlan"       -> PlannedBy(RootRun, "fake-upper")
    [] what = "answered"        -> Complete(RootRun) /\ Complete(ForkA)
    [] what = "stillPaused"     -> RootRun \in pausedRuns(LiveSource)
                                     /\ effectsFor(RootRun) = {}
    [] what = "resumed"         -> ResumedCheck

-----------------------------------------------------------------------------

GatesInit ==
  /\ ForkInit
  /\ gate \in GatesRun
  /\ line = 1
  /\ service = [up |-> FALSE, provider |-> "fake-echo", point |-> Nil]
  /\ crashed = {}
  /\ input = Nil
  /\ answers = <<>>
  /\ before = Nil
  /\ verdict = "running"

Command == Script(gate)[line]

At(what) == verdict = "running" /\ Command.do = what

GoOn == line' = line + 1 /\ UNCHANGED <<gate, verdict>>

(* SIGKILL: the attempts of the process are gone.                          *)
KillProc ==
  /\ at' = [w \in Workers |-> Idle]
  /\ owner' = [r \in Runs |-> Nil]
  /\ UNCHANGED <<tableVars, invocation, engine, promise, result, faults, fork>>

(* startAndRegisterService reaps what is left of an earlier service.       *)
StartService ==
  /\ At("start")
  /\ KillProc
  /\ service' = [up |-> TRUE, provider |-> Command.provider, point |-> Command.point]
  /\ GoOn
  /\ UNCHANGED <<crashed, input, answers, before>>

(* killProc, and killSubstrate: what the engine holds is on its disk.      *)
KillService ==
  /\ At("kill")
  /\ KillProc
  /\ service' = [service EXCEPT !.up = FALSE]
  /\ GoOn
  /\ UNCHANGED <<crashed, input, answers, before>>

(* The POST of a run; the engine refuses a second one for the same key.    *)
SubmitRun ==
  /\ At("submit")
  /\ \/ Invoke(Command.run, Command.wf, Command.run)
     \/ invocation[Command.run] # Nil /\ UNCHANGED workflowVars
  /\ GoOn
  /\ UNCHANGED <<fork, service, crashed, input, answers, before>>

SeedRun ==
  /\ At("seed")
  /\ LET p == [source |-> Command.source, newRun |-> Command.run,
               throughSeq |-> Command.through]
     IN  /\ ValidPlan(p)
         /\ forkRun(RowsThrough(p.source, p.throughSeq), p.newRun, p.source,
                    p.throughSeq, p.newRun)
  /\ GoOn
  /\ UNCHANGED <<effectVars, engineVars, at, faults, fork,
                 service, crashed, input, answers, before>>

SendInput ==
  /\ At("input")
  /\ input' = [run |-> Command.run, decision |-> Command.decision,
               pc |-> "peek", accepted |-> FALSE]
  /\ GoOn
  /\ UNCHANGED <<forkVars, service, crashed, answers, before>>

Read ==
  /\ At("read")
  /\ before' = LiveSource
  /\ GoOn
  /\ UNCHANGED <<forkVars, service, crashed, input, answers>>

(* The commands that wait.                                                 *)
Waited ==
  \/ At("await") /\ result[Command.run] # Nil
  \/ At("paused") /\ hitlStateFromSource(LiveSource, Command.run) = "paused"
  \/ At("died") /\ ~service.up
  \/ At("answered") /\ input = Nil

EndWait ==
  /\ Waited
  /\ GoOn
  /\ UNCHANGED <<forkVars, service, crashed, input, answers, before>>

CheckNow ==
  /\ At("check")
  /\ verdict' = IF ~Holds(Command.what) THEN "fail"
                ELSE IF line = Len(Script(gate)) THEN "pass" ELSE "running"
  /\ line' = line + 1
  /\ UNCHANGED <<forkVars, gate, service, crashed, input, answers, before>>

(* The service killed itself with the answer not yet given, and the gate,  *)
(* which would start it again, waits for that answer: the fetch gives up   *)
(* and the gate ends with a harness error.                                 *)
FetchTimesOut ==
  /\ At("answered")
  /\ input # Nil
  /\ ~service.up
  /\ verdict' = "error"
  /\ UNCHANGED <<forkVars, gate, line, service, crashed, input, answers, before>>

GateStep ==
  \/ StartService \/ KillService \/ SubmitRun \/ SeedRun \/ SendInput
  \/ Read \/ EndWait \/ CheckNow \/ FetchTimesOut

-----------------------------------------------------------------------------
(* The service.                                                            *)

(* maybeCrash: the attempt is at the armed point, for the first time.      *)
Reaches(w) ==
  /\ service.point # Nil
  /\ <<at[w].run, service.point>> \notin crashed
  /\ <<at[w].pc, at[w].seq>> = PointAt[service.point]

CrashAtPoint(w) ==
  /\ Reaches(w)
  /\ crashed' = crashed \cup {<<at[w].run, service.point>>}
  /\ KillProc
  /\ service' = [service EXCEPT !.up = FALSE]
  /\ UNCHANGED <<gate, line, input, answers, before, verdict>>

(* Each provider answers in its own way.                                   *)
Attempting(w) ==
  /\ ~Reaches(w)
  /\ HandlerStep(w)
  /\ at[w].pc = "produce" /\ at[w].seq = 1 => at'[w].val.ext = service.provider
  /\ UNCHANGED <<fork, gateVars>>

StartRun(w, r) ==
  /\ service.up
  /\ StartAttempt(w, r)
  /\ UNCHANGED <<fork, gateVars>>

(* The provideInput handler; what it learned from the engine stays known   *)
(* to the engine if the service dies.                                      *)
InputAt(pc) == service.up /\ input # Nil /\ input.pc = pc

PeekInput ==
  /\ InputAt("peek")
  /\ input' = [input EXCEPT !.pc = IF promise[input.run] = Nil THEN "resolve" ELSE "answer"]
  /\ UNCHANGED <<forkVars, gate, line, service, crashed, answers, before, verdict>>

ResolveInput ==
  /\ InputAt("resolve")
  /\ ResolvePromise(input.run, input.decision)
  /\ input' = [input EXCEPT !.pc = "answer", !.accepted = TRUE]
  /\ UNCHANGED <<fork, gate, line, service, crashed, answers, before, verdict>>

AnswerInput ==
  /\ InputAt("answer")
  /\ answers' = Append(answers, input.accepted)
  /\ input' = Nil
  /\ UNCHANGED <<forkVars, gate, line, service, crashed, before, verdict>>

InputStep == PeekInput \/ ResolveInput \/ AnswerInput

GatesNext ==
  \/ GateStep
  \/ InputStep
  \/ \E w \in Workers : Attempting(w) \/ CrashAtPoint(w)
  \/ \E w \in Workers, r \in Runs : StartRun(w, r)
  \/ \E r \in Runs : LoseConnection(r) /\ UNCHANGED <<fork, gateVars>>

(* Gate, service and engine go on.                                         *)
GatesFairness ==
  /\ WF_gatesVars(GateStep)
  /\ WF_gatesVars(InputStep)
  /\ \A w \in Workers : WF_gatesVars(Attempting(w) \/ CrashAtPoint(w))
  /\ \A r \in Runs : WF_gatesVars(\E w \in Workers : StartRun(w, r))

GatesSpec == GatesInit /\ [][GatesNext]_gatesVars /\ GatesFairness

-----------------------------------------------------------------------------

(* A gate does not fail: whatever the order in which the service, the      *)
(* engine and the gate itself come to act, and although an attempt is      *)
(* given up while it runs, what the gate reads is what it expects.  Only   *)
(* the gate that crashes a run while it resumes may end without a verdict. *)
GatesPass ==
  /\ verdict # "fail"
  /\ verdict = "error" => gate = "crashDuringResume"

(* A gate ends: the service dies where it was told to, recovers, and the   *)
(* runs complete.                                                          *)
GatesEnd == <>(verdict # "running")

-----------------------------------------------------------------------------
(* Why a gate passes.                                                      *)

Commands == Script(gate)

Earlier == 1 .. line - 1

GatesTypeOK ==
  /\ gate \in GatesRun
  /\ line \in Nat \ {0}
  /\ service \in [up : BOOLEAN, provider : {"fake-echo", "fake-upper"},
                  point : DOMAIN PointAt \cup {Nil}]
  /\ input \in Inputs \cup {Nil}
  /\ answers \in Seq(BOOLEAN)
  /\ verdict \in {"running", "pass", "fail", "error"}
  /\ line <= IF verdict = "running" THEN Len(Commands) ELSE Len(Commands) + 1

(* A command has had its effect, for good.                                 *)
Done(c) ==
  /\ c.do = "submit" => invocation[c.run] = [wf |-> c.wf, prompt |-> c.run]
  /\ c.do = "await"  => result[c.run] # Nil
  /\ c.do = "seed"   => runMeta[c.run] = ForkMeta(c.source, c.through, c.run)
  /\ c.do = "paused" => Shows(LiveSource, c.run, "hitl-pause")

CommandsDone == \A i \in Earlier : Done(Commands[i])

DidTo(r, what) == \E i \in Earlier : Commands[i].do = what /\ Commands[i].run = r

ForkPoint(r) == IF runMeta[r] = Nil THEN Nil ELSE runMeta[r].forkedAt

(* Nothing happens to a run but by a command.                              *)
OnlyOnCommand ==
  \A r \in Runs :
    /\ invocation[r] # Nil => DidTo(r, "submit")
    /\ runMeta[r] # Nil => invocation[r] # Nil \/ DidTo(r, "seed")
    /\ Parent(r) # Nil \/ ForkPoint(r) # Nil => DidTo(r, "seed")
    /\ promise[r] # Nil => DidTo(r, "input")

(* What a step of a run's own is made of.                                  *)
MadeOf(r, step, out) ==
  /\ \A j \in OutputReads(step) : \E x \in out.folds : x.seq = j
  /\ step \in {"step3-summarize", "step5-summarize"} =>
       out.ext = invocation[r].prompt
  /\ step = "hitl-input" => promise[r] # Nil /\ out.ext = promise[r]

OutputsAreMade ==
  /\ \A e \in stepJournal : e.seededFrom = Nil => MadeOf(e.run, e.step, e.output)
  /\ \A w \in Workers :
       /\ at[w].pc = "insert" => MadeOf(at[w].run, StepOf(w), at[w].val)
       /\ (at[w].pc = "produce" /\ StepOf(w) = "hitl-input") =>
            promise[at[w].run] # Nil

(* A human is asked before anything is fired.                              *)
EffectsFollowInputs ==
  \A f \in effectLog :
    invocation[f.run].wf = "HitlAgentRun" => HasEntry(f.run, 3)

ResultsAreWhole ==
  \A r \in Runs : result[r] # Nil =>
    invocation[r] # Nil /\ Len(result[r]) = Len(Steps(r))

(* The command that started the service there is, or that died last.       *)
Started(i) ==
  /\ i \in Earlier
  /\ Commands[i].do = "start"
  /\ \A j \in i + 1 .. line - 1 : Commands[j].do \notin {"start", "kill"}

Awaits(i, r) == Commands[i].do = "await" /\ Commands[i].run = r

ServiceAsStarted ==
  /\ service.up => \E i \in Earlier : Started(i) /\ Commands[i].provider = service.provider
  /\ (~service.up /\ service.point = Nil) => \A i \in Earlier : ~Started(i)
  /\ service.point # Nil =>
       \E i \in Earlier : Commands[i].do = "start" /\ Commands[i].point = service.point
  /\ \A w \in Workers : at[w].pc # "idle" =>
       /\ service.up
       /\ \A i \in Earlier : Started(i) => \A j \in 1 .. i - 1 : ~Awaits(j, at[w].run)

(* The provider of a service that ran while the run was to be executed.    *)
Provided(r, p) ==
  \E i, m \in Earlier :
    /\ Commands[i].do = "start" /\ Commands[i].provider = p
    /\ Commands[m].do = "submit" /\ Commands[m].run = r
    /\ \A j \in 1 .. i - 1 : ~Awaits(j, r)
    /\ \A j \in i + 1 .. m : Commands[j].do # "start"

PlansAreProvided ==
  /\ \A e \in stepJournal : (e.seededFrom = Nil /\ e.seq = 1) => Provided(e.run, e.output.ext)
  /\ \A w \in Workers : (at[w].pc = "insert" /\ at[w].seq = 1) =>
       Provided(at[w].run, at[w].val.ext)

(* The first decision is the one that is taken, and answered so.           *)
InputsInOrder ==
  /\ answers = [i \in 1 .. Len(answers) |-> i = 1]
  /\ \A r \in Runs : promise[r] # Nil => promise[r] = "first"
  /\ \A i \in Earlier : Commands[i].do = "input" =>
       \/ input # Nil /\ i = line - 1
       \/ answers # <<>>
  /\ answers # <<>> => promise[RootRun] # Nil
  /\ (input = Nil /\ promise[RootRun] # Nil) => answers # <<>>
  /\ input # Nil =>
       /\ line - 1 \in Earlier /\ Commands[line - 1].do = "input"
       /\ input.run = Commands[line - 1].run
       /\ input.decision = Commands[line - 1].decision
       /\ input.accepted => input.pc = "answer"
       /\ input.pc = "resolve" => promise[input.run] = Nil
       /\ input.pc = "answer" => /\ promise[input.run] # Nil
                                 /\ input.accepted <=> answers = <<>>
       /\ (input.pc = "peek" /\ promise[input.run] # Nil) => answers # <<>>

(* What was read is what is there: the runs had completed.                 *)
ReadsStand ==
  \A i \in Earlier : Commands[i].do = "read" =>
    /\ before = LiveSource
    /\ \A r \in Runs : invocation[r] # Nil => result[r] # Nil

GatesIInv ==
  /\ ForkIInv /\ GatesTypeOK /\ GatesPass
  /\ CommandsDone /\ OnlyOnCommand
  /\ OutputsAreMade /\ EffectsFollowInputs /\ ResultsAreWhole
  /\ ServiceAsStarted /\ PlansAreProvided
  /\ InputsInOrder /\ ReadsStand

=============================================================================
