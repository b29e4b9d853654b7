----------------------------- MODULE GatesProofs -----------------------------
(***************************************************************************)
(* Why the gates pass: the inductive invariant of Gates, that a gate never *)
(* fails whatever the order of the steps, and that what it drives keeps    *)
(* the invariant of Fork and implements DurableRuns, for any number of     *)
(* slots, faults and gates.                                                *)
(*                                                                         *)
(* The scripts are spelled out first.  Then: each step of a gate, of its   *)
(* service or of the engine is one of a few kinds of steps of the journal  *)
(* and the engine (ModelStep); each conjunct of GatesIInv is kept; a       *)
(* completed run has a shape that follows from GatesIInv (AgentShape,      *)
(* HitlRows), and every check follows from the shapes of the runs it is    *)
(* about; last, each script has brought about what its checks are about.   *)
(***************************************************************************)
EXTENDS Gates, ForkProofs

-----------------------------------------------------------------------------
(* The scripts.                                                            *)

Verbs == {"start", "submit", "await", "seed", "paused", "input", "answered",
          "died", "kill", "read", "check"}

Points == CrashPoints \cup {"on-resume:after-effect"}

LEMMA PointNames == DOMAIN PointAt = Points
BY DEF PointAt, Points, CrashPoints

(* Every command can be carried out, and a script ends with a check.       *)
WellTyped(S) ==
  /\ Len(S) \in Nat \ {0}
  /\ \A i \in 1 .. Len(S) :
       /\ S[i].do \in Verbs
       /\ S[i].do # "check" => i < Len(S)
       /\ S[i].do = "start" => /\ S[i].provider \in {"fake-echo", "fake-upper"}
                               /\ S[i].point \in Points \cup {Nil}
       /\ S[i].do \in {"submit", "await", "seed", "paused", "input"} =>
            S[i].run \in {RootRun, ForkA, ForkB, SubFork}
       /\ S[i].do = "submit" => S[i].wf \in {"AgentRun", "HitlAgentRun"}
       /\ S[i].do = "seed" => /\ S[i].source \in {RootRun, ForkA, ForkB, SubFork}
                              /\ S[i].through \in {1, 2}

(* A run is submitted as one workflow.                                     *)
OneWorkflow(S) ==
  \A i, j \in 1 .. Len(S) :
    (S[i].do = "submit" /\ S[j].do = "submit" /\ S[i].run = S[j].run) => S[i].wf = S[j].wf

(* An input is waited for, and the first one is the first decision.        *)
InputsAwaited(S) ==
  \A i \in 1 .. Len(S) : S[i].do = "input" =>
    /\ S[i].run = RootRun /\ S[i].decision \in {"first", "second"}
    /\ S[i + 1].do = "answered"
    /\ S[i].decision = "first" \/ \E k \in 1 .. i - 1 : S[k].do = "input"

(* What is read is the end: every run was awaited, and none comes after.   *)
ReadsAtTheEnd(S) ==
  \A i \in 1 .. Len(S) : S[i].do = "read" =>
    \A j \in 1 .. Len(S) :
      /\ S[j].do = "submit" =>
           /\ j < i
           /\ \E k \in 1 .. i - 1 : S[k].do = "await" /\ S[k].run = S[j].run
      /\ S[j].do = "seed" => j < i

(* No crash point is armed while an answer is waited for.                  *)
Answerable(S) ==
  \A i \in 1 .. Len(S) : S[i].do = "answered" =>
    /\ \A j \in 1 .. Len(S) : S[j].do = "start" => S[j].point = Nil
    /\ \E k \in 1 .. i - 1 :
         /\ S[k].do = "start"
         /\ \A j \in k + 1 .. i - 1 : S[j].do \notin {"start", "kill"}

WellFormed(S) ==
  WellTyped(S) /\ OneWorkflow(S) /\ InputsAwaited(S) /\ ReadsAtTheEnd(S)

(* Each script, command by command, and that it is well formed.            *)
LEMMA ConcurrencyScript ==
  /\ Len(concurrencyGate) = 5
  /\ concurrencyGate[1] = [do |-> "start", provider |-> "fake-echo", point |-> Nil]
  /\ concurrencyGate[2] = [do |-> "submit", run |-> RootRun, wf |-> "AgentRun"]
  /\ concurrencyGate[3] = [do |-> "submit", run |-> RootRun, wf |-> "AgentRun"]
  /\ concurrencyGate[4] = [do |-> "await", run |-> RootRun]
  /\ concurrencyGate[5] = [do |-> "check", what |-> "crash"]
BY DEF Start, Submit, Await, Check, Service, concurrencyGate

LEMMA ConcurrencyWell == WellFormed(concurrencyGate) /\ Answerable(concurrencyGate)
<1>1. WellTyped(concurrencyGate)
  BY ConcurrencyScript DEF WellTyped, Verbs, Points, CrashPoints
<1>2. OneWorkflow(concurrencyGate) /\ InputsAwaited(concurrencyGate)
  BY ConcurrencyScript DEF OneWorkflow, InputsAwaited, RootRun, ForkA, ForkB, SubFork
<1>3. ReadsAtTheEnd(concurrencyGate)
  BY ConcurrencyScript DEF ReadsAtTheEnd
<1>4. Answerable(concurrencyGate)
  BY ConcurrencyScript DEF Answerable
<1>5. QED
  BY <1>1, <1>2, <1>3, <1>4 DEF WellFormed

LEMMA ForkScript ==
  /\ Len(forkGate) = 7
  /\ forkGate[1] = [do |-> "start", provider |-> "fake-echo", point |-> Nil]
  /\ forkGate[2] = [do |-> "submit", run |-> RootRun, wf |-> "AgentRun"]
  /\ forkGate[3] = [do |-> "await", run |-> RootRun]
  /\ forkGate[4] = [do |-> "seed", source |-> RootRun, run |-> ForkA, through |-> 2]
  /\ forkGate[5] = [do |-> "submit", run |-> ForkA, wf |-> "AgentRun"]
  /\ forkGate[6] = [do |-> "await", run |-> ForkA]
  /\ forkGate[7] = [do |-> "check", what |-> "fork"]
BY DEF Start, Submit, Await, Check, Seed, Service, Invoke1, forkGate

LEMMA ForkWell == WellFormed(forkGate) /\ Answerable(forkGate)
<1>1. WellTyped(forkGate)
  BY ForkScript DEF WellTyped, Verbs, Points, CrashPoints
<1>2. OneWorkflow(forkGate) /\ InputsAwaited(forkGate)
  BY ForkScript DEF OneWorkflow, InputsAwaited, RootRun, ForkA, ForkB, SubFork
<1>3. ReadsAtTheEnd(forkGate)
  BY ForkScript DEF ReadsAtTheEnd
<1>4. Answerable(forkGate)
  BY ForkScript DEF Answerable
<1>5. QED
  BY <1>1, <1>2, <1>3, <1>4 DEF WellFormed

LEMMA ReplayScript ==
  /\ Len(replayGate) = 6
  /\ replayGate[1] = [do |-> "start", provider |-> "fake-echo", point |-> Nil]
  /\ replayGate[2] = [do |-> "submit", run |-> RootRun, wf |-> "AgentRun"]
  /\ replayGate[3] = [do |-> "await", run |-> RootRun]
  /\ replayGate[4] = [do |-> "read"]
  /\ replayGate[5] = [do |-> "await", run |-> RootRun]
  /\ replayGate[6] = [do |-> "check", what |-> "replay"]
BY DEF Start, Submit, Await, Check, Do, Service, Invoke1, replayGate

LEMMA ReplayWell == WellFormed(replayGate) /\ Answerable(replayGate)
<1>1. WellTyped(replayGate)
  BY ReplayScript DEF WellTyped, Verbs, Points, CrashPoints
<1>2. OneWorkflow(replayGate) /\ InputsAwaited(replayGate)
  BY ReplayScript DEF OneWorkflow, InputsAwaited, RootRun, ForkA, ForkB, SubFork
<1>3. ReadsAtTheEnd(replayGate)
  BY ReplayScript DEF ReadsAtTheEnd
<1>4. Answerable(replayGate)
  BY ReplayScript DEF Answerable
<1>5. QED
  BY <1>1, <1>2, <1>3, <1>4 DEF WellFormed

LEMMA NoRefireScript ==
  /\ Len(forkNoRefireGate) = 8
  /\ forkNoRefireGate[1] = [do |-> "start", provider |-> "fake-echo", point |-> Nil]
  /\ forkNoRefireGate[2] = [do |-> "submit", run |-> RootRun, wf |-> "AgentRun"]
  /\ forkNoRefireGate[3] = [do |-> "await", run |-> RootRun]
  /\ forkNoRefireGate[4] = [do |-> "seed", source |-> RootRun, run |-> ForkA, through |-> 2]
  /\ forkNoRefireGate[5] = [do |-> "submit", run |-> ForkA, wf |-> "AgentRun"]
  /\ forkNoRefireGate[6] = [do |-> "await", run |-> ForkA]
  /\ forkNoRefireGate[7] = [do |-> "check", what |-> "fork"]
  /\ forkNoRefireGate[8] = [do |-> "check", what |-> "forkNoRefire"]
BY DEF Start, Submit, Await, Check, Seed, Service, Invoke1, forkNoRefireGate

LEMMA NoRefireWell == WellFormed(forkNoRefireGate) /\ Answerable(forkNoRefireGate)
<1>1. WellTyped(forkNoRefireGate)
  BY NoRefireScript DEF WellTyped, Verbs, Points, CrashPoints
<1>2. OneWorkflow(forkNoRefireGate) /\ InputsAwaited(forkNoRefireGate)
  BY NoRefireScript DEF OneWorkflow, InputsAwaited, RootRun, ForkA, ForkB, SubFork
<1>3. ReadsAtTheEnd(forkNoRefireGate)
  BY NoRefireScript DEF ReadsAtTheEnd
<1>4. Answerable(forkNoRefireGate)
  BY NoRefireScript DEF Answerable
<1>5. QED
  BY <1>1, <1>2, <1>3, <1>4 DEF WellFormed

LEMMA MultiLevelScript ==
  /\ Len(multiLevelForkGate) = 13
  /\ multiLevelForkGate[1] = [do |-> "start", provider |-> "fake-echo", point |-> Nil]
  /\ multiLevelForkGate[2] = [do |-> "submit", run |-> RootRun, wf |-> "AgentRun"]
  /\ multiLevelForkGate[3] = [do |-> "await", run |-> RootRun]
  /\ multiLevelForkGate[4] = [do |-> "seed", source |-> RootRun, run |-> ForkA, through |-> 2]
  /\ multiLevelForkGate[5] = [do |-> "submit", run |-> ForkA, wf |-> "AgentRun"]
  /\ multiLevelForkGate[6] = [do |-> "await", run |-> ForkA]
  /\ multiLevelForkGate[7] = [do |-> "seed", source |-> ForkA, run |-> ForkB, through |-> 2]
  /\ multiLevelForkGate[8] = [do |-> "submit", run |-> ForkB, wf |-> "AgentRun"]
  /\ multiLevelForkGate[9] = [do |-> "await", run |-> ForkB]
  /\ multiLevelForkGate[10] = [do |-> "seed", source |-> ForkB, run |-> SubFork, through |-> 2]
  /\ multiLevelForkGate[11] = [do |-> "submit", run |-> SubFork, wf |-> "AgentRun"]
  /\ multiLevelForkGate[12] = [do |-> "await", run |-> SubFork]
  /\ multiLevelForkGate[13] = [do |-> "check", what |-> "multiLevelFork"]
BY DEF Start, Submit, Await, Check, Seed, Service, Invoke1, multiLevelForkGate

LEMMA MultiLevelWell == WellFormed(multiLevelForkGate) /\ Answerable(multiLevelForkGate)
<1>1. WellTyped(multiLevelForkGate)
  BY MultiLevelScript DEF WellTyped, Verbs, Points, CrashPoints
<1>2. OneWorkflow(multiLevelForkGate) /\ InputsAwaited(multiLevelForkGate)
  BY MultiLevelScript DEF OneWorkflow, InputsAwaited, RootRun, ForkA, ForkB, SubFork
<1>3. ReadsAtTheEnd(multiLevelForkGate)
  BY MultiLevelScript DEF ReadsAtTheEnd
<1>4. Answerable(multiLevelForkGate)
  BY MultiLevelScript DEF Answerable
<1>5. QED
  BY <1>1, <1>2, <1>3, <1>4 DEF WellFormed

LEMMA ConcurrentScript ==
  /\ Len(concurrentForksGate) = 10
  /\ concurrentForksGate[1] = [do |-> "start", provider |-> "fake-echo", point |-> Nil]
  /\ concurrentForksGate[2] = [do |-> "submit", run |-> RootRun, wf |-> "AgentRun"]
  /\ concurrentForksGate[3] = [do |-> "await", run |-> RootRun]
  /\ concurrentForksGate[4] = [do |-> "seed", source |-> RootRun, run |-> ForkA, through |-> 2]
  /\ concurrentForksGate[5] = [do |-> "seed", source |-> RootRun, run |-> ForkB, through |-> 2]
  /\ concurrentForksGate[6] = [do |-> "submit", run |-> ForkA, wf |-> "AgentRun"]
  /\ concurrentForksGate[7] = [do |-> "submit", run |-> ForkB, wf |-> "AgentRun"]
  /\ concurrentForksGate[8] = [do |-> "await", run |-> ForkA]
  /\ concurrentForksGate[9] = [do |-> "await", run |-> ForkB]
  /\ concurrentForksGate[10] = [do |-> "check", what |-> "concurrentForks"]
BY DEF Start, Submit, Await, Check, Seed, Service, Invoke1, concurrentForksGate

LEMMA ConcurrentWell == WellFormed(concurrentForksGate) /\ Answerable(concurrentForksGate)
<1>1. WellTyped(concurrentForksGate)
  BY ConcurrentScript DEF WellTyped, Verbs, Points, CrashPoints
<1>2. OneWorkflow(concurrentForksGate) /\ InputsAwaited(concurrentForksGate)
  BY ConcurrentScript DEF OneWorkflow, InputsAwaited, RootRun, ForkA, ForkB, SubFork
<1>3. ReadsAtTheEnd(concurrentForksGate)
  BY ConcurrentScript DEF ReadsAtTheEnd
<1>4. Answerable(concurrentForksGate)
  BY ConcurrentScript DEF Answerable
<1>5. QED
  BY <1>1, <1>2, <1>3, <1>4 DEF WellFormed

LEMMA NewEffectScript ==
  /\ Len(crashDuringForkNewEffectGate) = 12
  /\ crashDuringForkNewEffectGate[1] = [do |-> "start", provider |-> "fake-echo", point |-> Nil]
  /\ crashDuringForkNewEffectGate[2] = [do |-> "submit", run |-> RootRun, wf |-> "AgentRun"]
  /\ crashDuringForkNewEffectGate[3] = [do |-> "await", run |-> RootRun]
  /\ crashDuringForkNewEffectGate[4] = [do |-> "kill"]
  /\ crashDuringForkNewEffectGate[5] = [do |-> "seed", source |-> RootRun, run |-> ForkA, through |-> 1]
  /\ crashDuringForkNewEffectGate[6] = [do |-> "start", provider |-> "fake-echo", point |-> "after-effect:step2"]
  /\ crashDuringForkNewEffectGate[7] = [do |-> "submit", run |-> ForkA, wf |-> "AgentRun"]
  /\ crashDuringForkNewEffectGate[8] = [do |-> "died"]
  /\ crashDuringForkNewEffectGate[9] = [do |-> "kill"]
  /\ crashDuringForkNewEffectGate[10] = [do |-> "start", provider |-> "fake-echo", point |-> "after-effect:step2"]
  /\ crashDuringForkNewEffectGate[11] = [do |-> "await", run |-> ForkA]
  /\ crashDuringForkNewEffectGate[12] = [do |-> "check", what |-> "newEffect"]
BY DEF Start, Submit, Await, Check, Seed, Do, SourceThenFork, CrashAndRecover,
       Service, Invoke1, crashDuringForkNewEffectGate

LEMMA NewEffectWell == WellFormed(crashDuringForkNewEffectGate) /\ Answerable(crashDuringForkNewEffectGate)
<1>1. WellTyped(crashDuringForkNewEffectGate)
  BY NewEffectScript DEF WellTyped, Verbs, Points, CrashPoints
<1>2. OneWorkflow(crashDuringForkNewEffectGate) /\ InputsAwaited(crashDuringForkNewEffectGate)
  BY NewEffectScript DEF OneWorkflow, InputsAwaited, RootRun, ForkA, ForkB, SubFork
<1>3. ReadsAtTheEnd(crashDuringForkNewEffectGate)
  BY NewEffectScript DEF ReadsAtTheEnd
<1>4. Answerable(crashDuringForkNewEffectGate)
  BY NewEffectScript DEF Answerable
<1>5. QED
  BY <1>1, <1>2, <1>3, <1>4 DEF WellFormed

LEMMA SeededEffectScript ==
  /\ Len(crashDuringForkSeededGate) = 12
  /\ crashDuringForkSeededGate[1] = [do |-> "start", provider |-> "fake-echo", point |-> Nil]
  /\ crashDuringForkSeededGate[2] = [do |-> "submit", run |-> RootRun, wf |-> "AgentRun"]
  /\ crashDuringForkSeededGate[3] = [do |-> "await", run |-> RootRun]
  /\ crashDuringForkSeededGate[4] = [do |-> "kill"]
  /\ crashDuringForkSeededGate[5] = [do |-> "seed", source |-> RootRun, run |-> ForkA, through |-> 2]
  /\ crashDuringForkSeededGate[6] = [do |-> "start", provider |-> "fake-echo", point |-> "before:step3"]
  /\ crashDuringForkSeededGate[7] = [do |-> "submit", run |-> ForkA, wf |-> "AgentRun"]
  /\ crashDuringForkSeededGate[8] = [do |-> "died"]
  /\ crashDuringForkSeededGate[9] = [do |-> "kill"]
  /\ crashDuringForkSeededGate[10] = [do |-> "start", provider |-> "fake-echo", point |-> "before:step3"]
  /\ crashDuringForkSeededGate[11] = [do |-> "await", run |-> ForkA]
  /\ crashDuringForkSeededGate[12] = [do |-> "check", what |-> "seededEffect"]
BY DEF Start, Submit, Await, Check, Seed, Do, SourceThenFork, CrashAndRecover,
       Service, Invoke1, crashDuringForkSeededGate

LEMMA SeededEffectWell == WellFormed(crashDuringForkSeededGate) /\ Answerable(crashDuringForkSeededGate)
<1>1. WellTyped(crashDuringForkSeededGate)
  BY SeededEffectScript DEF WellTyped, Verbs, Points, CrashPoints
<1>2. OneWorkflow(crashDuringForkSeededGate) /\ InputsAwaited(crashDuringForkSeededGate)
  BY SeededEffectScript DEF OneWorkflow, InputsAwaited, RootRun, ForkA, ForkB, SubFork
<1>3. ReadsAtTheEnd(crashDuringForkSeededGate)
  BY SeededEffectScript DEF ReadsAtTheEnd
<1>4. Answerable(crashDuringForkSeededGate)
  BY SeededEffectScript DEF Answerable
<1>5. QED
  BY <1>1, <1>2, <1>3, <1>4 DEF WellFormed

LEMMA ValidationScript ==
  /\ Len(forkValidationGate) = 4
  /\ forkValidationGate[1] = [do |-> "start", provider |-> "fake-echo", point |-> Nil]
  /\ forkValidationGate[2] = [do |-> "submit", run |-> RootRun, wf |-> "AgentRun"]
  /\ forkValidationGate[3] = [do |-> "await", run |-> RootRun]
  /\ forkValidationGate[4] = [do |-> "check", what |-> "forkValidation"]
BY DEF Start, Submit, Await, Check, Service, Invoke1, forkValidationGate

LEMMA ValidationWell == WellFormed(forkValidationGate) /\ Answerable(forkValidationGate)
<1>1. WellTyped(forkValidationGate)
  BY ValidationScript DEF WellTyped, Verbs, Points, CrashPoints
<1>2. OneWorkflow(forkValidationGate) /\ InputsAwaited(forkValidationGate)
  BY ValidationScript DEF OneWorkflow, InputsAwaited, RootRun, ForkA, ForkB, SubFork
<1>3. ReadsAtTheEnd(forkValidationGate)
  BY ValidationScript DEF ReadsAtTheEnd
<1>4. Answerable(forkValidationGate)
  BY ValidationScript DEF Answerable
<1>5. QED
  BY <1>1, <1>2, <1>3, <1>4 DEF WellFormed

LEMMA OfflineScript ==
  /\ Len(replayOfflineGate) = 19
  /\ replayOfflineGate[1] = [do |-> "start", provider |-> "fake-echo", point |-> Nil]
  /\ replayOfflineGate[2] = [do |-> "submit", run |-> RootRun, wf |-> "AgentRun"]
  /\ replayOfflineGate[3] = [do |-> "await", run |-> RootRun]
  /\ replayOfflineGate[4] = [do |-> "seed", source |-> RootRun, run |-> ForkA, through |-> 2]
  /\ replayOfflineGate[5] = [do |-> "submit", run |-> ForkA, wf |-> "AgentRun"]
  /\ replayOfflineGate[6] = [do |-> "await", run |-> ForkA]
  /\ replayOfflineGate[7] = [do |-> "seed", source |-> RootRun, run |-> ForkB, through |-> 1]
  /\ replayOfflineGate[8] = [do |-> "submit", run |-> ForkB, wf |-> "AgentRun"]
  /\ replayOfflineGate[9] = [do |-> "await", run |-> ForkB]
  /\ replayOfflineGate[10] = [do |-> "seed", source |-> ForkB, run |-> SubFork, through |-> 2]
  /\ replayOfflineGate[11] = [do |-> "submit", run |-> SubFork, wf |-> "AgentRun"]
  /\ replayOfflineGate[12] = [do |-> "await", run |-> SubFork]
  /\ replayOfflineGate[13] = [do |-> "check", what |-> "reconstruct"]
  /\ replayOfflineGate[14] = [do |-> "read"]
  /\ replayOfflineGate[15] = [do |-> "kill"]
  /\ replayOfflineGate[16] = [do |-> "check", what |-> "offline"]
  /\ replayOfflineGate[17] = [do |-> "check", what |-> "timeTravel"]
  /\ replayOfflineGate[18] = [do |-> "check", what |-> "forkTreeAndDiff"]
  /\ replayOfflineGate[19] = [do |-> "check", what |-> "uiApi"]
BY DEF Start, Submit, Await, Check, Seed, Do, Service, Invoke1,
       replayOfflineGate

LEMMA OfflineWell == WellFormed(replayOfflineGate) /\ Answerable(replayOfflineGate)
<1>1. WellTyped(replayOfflineGate)
  BY OfflineScript DEF WellTyped, Verbs, Points, CrashPoints
<1>2. OneWorkflow(replayOfflineGate) /\ InputsAwaited(replayOfflineGate)
  <2>1. \A i \in 1 .. Len(replayOfflineGate) :
          replayOfflineGate[i].do = "submit" => replayOfflineGate[i].wf = "AgentRun"
    BY OfflineScript
  <2>2. \A i \in 1 .. Len(replayOfflineGate) : replayOfflineGate[i].do # "input"
    BY OfflineScript
  <2>3. QED
    BY <2>1, <2>2 DEF OneWorkflow, InputsAwaited
<1>3. ReadsAtTheEnd(replayOfflineGate)
  BY OfflineScript DEF ReadsAtTheEnd
<1>4. Answerable(replayOfflineGate)
  BY OfflineScript DEF Answerable
<1>5. QED
  BY <1>1, <1>2, <1>3, <1>4 DEF WellFormed

LEMMA NeutralityScript ==
  /\ Len(g1ModelNeutrality) = 9
  /\ g1ModelNeutrality[1] = [do |-> "start", provider |-> "fake-echo", point |-> Nil]
  /\ g1ModelNeutrality[2] = [do |-> "submit", run |-> RootRun, wf |-> "AgentRun"]
  /\ g1ModelNeutrality[3] = [do |-> "await", run |-> RootRun]
  /\ g1ModelNeutrality[4] = [do |-> "kill"]
  /\ g1ModelNeutrality[5] = [do |-> "start", provider |-> "fake-upper", point |-> Nil]
  /\ g1ModelNeutrality[6] = [do |-> "submit", run |-> ForkA, wf |-> "AgentRun"]
  /\ g1ModelNeutrality[7] = [do |-> "await", run |-> ForkA]
  /\ g1ModelNeutrality[8] = [do |-> "kill"]
  /\ g1ModelNeutrality[9] = [do |-> "check", what |-> "neutral"]
BY DEF Start, Submit, Await, Check, Do, TwoServices, Invoke1, g1ModelNeutrality

LEMMA NeutralityWell == WellFormed(g1ModelNeutrality) /\ Answerable(g1ModelNeutrality)
<1>1. WellTyped(g1ModelNeutrality)
  BY NeutralityScript DEF WellTyped, Verbs, Points, CrashPoints
<1>2. OneWorkflow(g1ModelNeutrality) /\ InputsAwaited(g1ModelNeutrality)
  BY NeutralityScript DEF OneWorkflow, InputsAwaited, RootRun, ForkA, ForkB, SubFork
<1>3. ReadsAtTheEnd(g1ModelNeutrality)
  BY NeutralityScript DEF ReadsAtTheEnd
<1>4. Answerable(g1ModelNeutrality)
  BY NeutralityScript DEF Answerable
<1>5. QED
  BY <1>1, <1>2, <1>3, <1>4 DEF WellFormed

LEMMA SwitchScript ==
  /\ Len(g2DurabilityUnderSwitch) = 8
  /\ g2DurabilityUnderSwitch[1] = [do |-> "start", provider |-> "fake-upper", point |-> "after-effect:step2"]
  /\ g2DurabilityUnderSwitch[2] = [do |-> "submit", run |-> RootRun, wf |-> "AgentRun"]
  /\ g2DurabilityUnderSwitch[3] = [do |-> "died"]
  /\ g2DurabilityUnderSwitch[4] = [do |-> "kill"]
  /\ g2DurabilityUnderSwitch[5] = [do |-> "start", provider |-> "fake-upper", point |-> "after-effect:step2"]
  /\ g2DurabilityUnderSwitch[6] = [do |-> "await", run |-> RootRun]
  /\ g2DurabilityUnderSwitch[7] = [do |-> "check", what |-> "crash"]
  /\ g2DurabilityUnderSwitch[8] = [do |-> "check", what |-> "upperPlan"]
BY DEF Start, Submit, Await, Check, Do, CrashAndRecover,
       g2DurabilityUnderSwitch

LEMMA SwitchWell == WellFormed(g2DurabilityUnderSwitch) /\ Answerable(g2DurabilityUnderSwitch)
<1>1. WellTyped(g2DurabilityUnderSwitch)
  BY SwitchScript DEF WellTyped, Verbs, Points, CrashPoints
<1>2. OneWorkflow(g2DurabilityUnderSwitch) /\ InputsAwaited(g2DurabilityUnderSwitch)
  BY SwitchScript DEF OneWorkflow, InputsAwaited, RootRun, ForkA, ForkB, SubFork
<1>3. ReadsAtTheEnd(g2DurabilityUnderSwitch)
  BY SwitchScript DEF ReadsAtTheEnd
<1>4. Answerable(g2DurabilityUnderSwitch)
  BY SwitchScript DEF Answerable
<1>5. QED
  BY <1>1, <1>2, <1>3, <1>4 DEF WellFormed

LEMMA DeployScript ==
  /\ Len(g3DeployNeutrality) = 9
  /\ g3DeployNeutrality[1] = [do |-> "start", provider |-> "fake-echo", point |-> Nil]
  /\ g3DeployNeutrality[2] = [do |-> "submit", run |-> RootRun, wf |-> "AgentRun"]
  /\ g3DeployNeutrality[3] = [do |-> "await", run |-> RootRun]
  /\ g3DeployNeutrality[4] = [do |-> "kill"]
  /\ g3DeployNeutrality[5] = [do |-> "start", provider |-> "fake-echo", point |-> Nil]
  /\ g3DeployNeutrality[6] = [do |-> "submit", run |-> ForkA, wf |-> "AgentRun"]
  /\ g3DeployNeutrality[7] = [do |-> "await", run |-> ForkA]
  /\ g3DeployNeutrality[8] = [do |-> "kill"]
  /\ g3DeployNeutrality[9] = [do |-> "check", what |-> "answered"]
BY DEF Start, Submit, Await, Check, Do, TwoServices, Invoke1,
       g3DeployNeutrality

LEMMA DeployWell == WellFormed(g3DeployNeutrality) /\ Answerable(g3DeployNeutrality)
<1>1. WellTyped(g3DeployNeutrality)
  BY DeployScript DEF WellTyped, Verbs, Points, CrashPoints
<1>2. OneWorkflow(g3DeployNeutrality) /\ InputsAwaited(g3DeployNeutrality)
  BY DeployScript DEF OneWorkflow, InputsAwaited, RootRun, ForkA, ForkB, SubFork
<1>3. ReadsAtTheEnd(g3DeployNeutrality)
  BY DeployScript DEF ReadsAtTheEnd
<1>4. Answerable(g3DeployNeutrality)
  BY DeployScript DEF Answerable
<1>5. QED
  BY <1>1, <1>2, <1>3, <1>4 DEF WellFormed

LEMMA PortabilityScript ==
  /\ Len(g4Portability) = 10
  /\ g4Portability[1] = [do |-> "start", provider |-> "fake-echo", point |-> Nil]
  /\ g4Portability[2] = [do |-> "submit", run |-> RootRun, wf |-> "AgentRun"]
  /\ g4Portability[3] = [do |-> "await", run |-> RootRun]
  /\ g4Portability[4] = [do |-> "kill"]
  /\ g4Portability[5] = [do |-> "start", provider |-> "fake-upper", point |-> Nil]
  /\ g4Portability[6] = [do |-> "submit", run |-> ForkA, wf |-> "AgentRun"]
  /\ g4Portability[7] = [do |-> "await", run |-> ForkA]
  /\ g4Portability[8] = [do |-> "kill"]
  /\ g4Portability[9] = [do |-> "read"]
  /\ g4Portability[10] = [do |-> "check", what |-> "offline"]
BY DEF Start, Submit, Await, Check, Do, TwoServices, Invoke1, g4Portability

LEMMA PortabilityWell == WellFormed(g4Portability) /\ Answerable(g4Portability)
<1>1. WellTyped(g4Portability)
  BY PortabilityScript DEF WellTyped, Verbs, Points, CrashPoints
<1>2. OneWorkflow(g4Portability) /\ InputsAwaited(g4Portability)
  BY PortabilityScript DEF OneWorkflow, InputsAwaited, RootRun, ForkA, ForkB, SubFork
<1>3. ReadsAtTheEnd(g4Portability)
  BY PortabilityScript DEF ReadsAtTheEnd
<1>4. Answerable(g4Portability)
  BY PortabilityScript DEF Answerable
<1>5. QED
  BY <1>1, <1>2, <1>3, <1>4 DEF WellFormed

LEMMA RestartScript ==
  /\ Len(pauseRestartResume) = 11
  /\ pauseRestartResume[1] = [do |-> "start", provider |-> "fake-echo", point |-> Nil]
  /\ pauseRestartResume[2] = [do |-> "submit", run |-> RootRun, wf |-> "HitlAgentRun"]
  /\ pauseRestartResume[3] = [do |-> "paused", run |-> RootRun]
  /\ pauseRestartResume[4] = [do |-> "check", what |-> "stillPaused"]
  /\ pauseRestartResume[5] = [do |-> "kill"]
  /\ pauseRestartResume[6] = [do |-> "check", what |-> "stillPaused"]
  /\ pauseRestartResume[7] = [do |-> "start", provider |-> "fake-echo", point |-> Nil]
  /\ pauseRestartResume[8] = [do |-> "input", run |-> RootRun, decision |-> "first"]
  /\ pauseRestartResume[9] = [do |-> "answered"]
  /\ pauseRestartResume[10] = [do |-> "await", run |-> RootRun]
  /\ pauseRestartResume[11] = [do |-> "check", what |-> "resumed"]
BY DEF Start, Submit, Await, Check, Paused, HitlPaused, Input, Do, HitlResumed,
       Service, pauseRestartResume

LEMMA RestartWell == WellFormed(pauseRestartResume) /\ Answerable(pauseRestartResume)
<1>1. WellTyped(pauseRestartResume)
  BY RestartScript DEF WellTyped, Verbs, Points, CrashPoints
<1>2. OneWorkflow(pauseRestartResume) /\ InputsAwaited(pauseRestartResume)
  BY RestartScript DEF OneWorkflow, InputsAwaited, RootRun, ForkA, ForkB, SubFork
<1>3. ReadsAtTheEnd(pauseRestartResume)
  BY RestartScript DEF ReadsAtTheEnd
<1>4. Answerable(pauseRestartResume)
  BY RestartScript DEF Answerable
<1>5. QED
  BY <1>1, <1>2, <1>3, <1>4 DEF WellFormed

LEMMA ResumeCrashScript ==
  /\ Len(crashDuringResume) = 10
  /\ crashDuringResume[1] = [do |-> "start", provider |-> "fake-echo", point |-> "on-resume:after-effect"]
  /\ crashDuringResume[2] = [do |-> "submit", run |-> RootRun, wf |-> "HitlAgentRun"]
  /\ crashDuringResume[3] = [do |-> "paused", run |-> RootRun]
  /\ crashDuringResume[4] = [do |-> "input", run |-> RootRun, decision |-> "first"]
  /\ crashDuringResume[5] = [do |-> "answered"]
  /\ crashDuringResume[6] = [do |-> "died"]
  /\ crashDuringResume[7] = [do |-> "kill"]
  /\ crashDuringResume[8] = [do |-> "start", provider |-> "fake-echo", point |-> "on-resume:after-effect"]
  /\ crashDuringResume[9] = [do |-> "await", run |-> RootRun]
  /\ crashDuringResume[10] = [do |-> "check", what |-> "resumed"]
BY DEF Start, Submit, Await, Check, Paused, Input, Do, crashDuringResume

LEMMA ResumeCrashWell == WellFormed(crashDuringResume)
<1>1. WellTyped(crashDuringResume)
  BY ResumeCrashScript DEF WellTyped, Verbs, Points, CrashPoints
<1>2. OneWorkflow(crashDuringResume) /\ InputsAwaited(crashDuringResume)
  BY ResumeCrashScript DEF OneWorkflow, InputsAwaited, RootRun, ForkA, ForkB, SubFork
<1>3. ReadsAtTheEnd(crashDuringResume)
  BY ResumeCrashScript DEF ReadsAtTheEnd
<1>5. QED
  BY <1>1, <1>2, <1>3 DEF WellFormed

LEMMA DoubleSubmitScript ==
  /\ Len(doubleSubmit) = 11
  /\ doubleSubmit[1] = [do |-> "start", provider |-> "fake-echo", point |-> Nil]
  /\ doubleSubmit[2] = [do |-> "submit", run |-> RootRun, wf |-> "HitlAgentRun"]
  /\ doubleSubmit[3] = [do |-> "paused", run |-> RootRun]
  /\ doubleSubmit[4] = [do |-> "input", run |-> RootRun, decision |-> "first"]
  /\ doubleSubmit[5] = [do |-> "answered"]
  /\ doubleSubmit[6] = [do |-> "input", run |-> RootRun, decision |-> "first"]
  /\ doubleSubmit[7] = [do |-> "answered"]
  /\ doubleSubmit[8] = [do |-> "input", run |-> RootRun, decision |-> "second"]
  /\ doubleSubmit[9] = [do |-> "answered"]
  /\ doubleSubmit[10] = [do |-> "await", run |-> RootRun]
  /\ doubleSubmit[11] = [do |-> "check", what |-> "resumed"]
BY DEF Start, Submit, Await, Check, Paused, HitlPaused, Input, Service,
       doubleSubmit

LEMMA DoubleSubmitWell == WellFormed(doubleSubmit) /\ Answerable(doubleSubmit)
<1>1. WellTyped(doubleSubmit)
  BY DoubleSubmitScript DEF WellTyped, Verbs, Points, CrashPoints
<1>2. OneWorkflow(doubleSubmit) /\ InputsAwaited(doubleSubmit)
  BY DoubleSubmitScript DEF OneWorkflow, InputsAwaited, RootRun, ForkA, ForkB, SubFork
<1>3. ReadsAtTheEnd(doubleSubmit)
  BY DoubleSubmitScript DEF ReadsAtTheEnd
<1>4. Answerable(doubleSubmit)
  BY DoubleSubmitScript DEF Answerable
<1>5. QED
  BY <1>1, <1>2, <1>3, <1>4 DEF WellFormed

LEMMA ExportScript ==
  /\ Len(hitlExport) = 10
  /\ hitlExport[1] = [do |-> "start", provider |-> "fake-echo", point |-> Nil]
  /\ hitlExport[2] = [do |-> "submit", run |-> RootRun, wf |-> "HitlAgentRun"]
  /\ hitlExport[3] = [do |-> "paused", run |-> RootRun]
  /\ hitlExport[4] = [do |-> "input", run |-> RootRun, decision |-> "first"]
  /\ hitlExport[5] = [do |-> "answered"]
  /\ hitlExport[6] = [do |-> "await", run |-> RootRun]
  /\ hitlExport[7] = [do |-> "read"]
  /\ hitlExport[8] = [do |-> "kill"]
  /\ hitlExport[9] = [do |-> "check", what |-> "offline"]
  /\ hitlExport[10] = [do |-> "check", what |-> "resumed"]
BY DEF Start, Submit, Await, Check, Paused, HitlPaused, Input, Do, HitlResumed,
       Service, hitlExport

LEMMA ExportWell == WellFormed(hitlExport) /\ Answerable(hitlExport)
<1>1. WellTyped(hitlExport)
  BY ExportScript DEF WellTyped, Verbs, Points, CrashPoints
<1>2. OneWorkflow(hitlExport) /\ InputsAwaited(hitlExport)
  BY ExportScript DEF OneWorkflow, InputsAwaited, RootRun, ForkA, ForkB, SubFork
<1>3. ReadsAtTheEnd(hitlExport)
  BY ExportScript DEF ReadsAtTheEnd
<1>4. Answerable(hitlExport)
  BY ExportScript DEF Answerable
<1>5. QED
  BY <1>1, <1>2, <1>3, <1>4 DEF WellFormed

LEMMA WebUiScript ==
  /\ Len(g5HitlWebUiApi) = 8
  /\ g5HitlWebUiApi[1] = [do |-> "start", provider |-> "fake-echo", point |-> Nil]
  /\ g5HitlWebUiApi[2] = [do |-> "submit", run |-> RootRun, wf |-> "HitlAgentRun"]
  /\ g5HitlWebUiApi[3] = [do |-> "paused", run |-> RootRun]
  /\ g5HitlWebUiApi[4] = [do |-> "check", what |-> "stillPaused"]
  /\ g5HitlWebUiApi[5] = [do |-> "input", run |-> RootRun, decision |-> "first"]
  /\ g5HitlWebUiApi[6] = [do |-> "answered"]
  /\ g5HitlWebUiApi[7] = [do |-> "await", run |-> RootRun]
  /\ g5HitlWebUiApi[8] = [do |-> "check", what |-> "resumed"]
BY DEF Start, Submit, Await, Check, Paused, HitlPaused, Input, HitlResumed,
       Service, g5HitlWebUiApi

LEMMA WebUiWell == WellFormed(g5HitlWebUiApi) /\ Answerable(g5HitlWebUiApi)
<1>1. WellTyped(g5HitlWebUiApi)
  BY WebUiScript DEF WellTyped, Verbs, Points, CrashPoints
<1>2. OneWorkflow(g5HitlWebUiApi) /\ InputsAwaited(g5HitlWebUiApi)
  BY WebUiScript DEF OneWorkflow, InputsAwaited, RootRun, ForkA, ForkB, SubFork
<1>3. ReadsAtTheEnd(g5HitlWebUiApi)
  BY WebUiScript DEF ReadsAtTheEnd
<1>4. Answerable(g5HitlWebUiApi)
  BY WebUiScript DEF Answerable
<1>5. QED
  BY <1>1, <1>2, <1>3, <1>4 DEF WellFormed

LEMMA CrashScript ==
  ASSUME NEW p \in CrashPoints
  PROVE  /\ Len(crashGate(p)) = 7
         /\ crashGate(p)[1] = [do |-> "start", provider |-> "fake-echo", point |-> p]
         /\ crashGate(p)[2] = [do |-> "submit", run |-> RootRun, wf |-> "AgentRun"]
         /\ crashGate(p)[3] = [do |-> "died"]
         /\ crashGate(p)[4] = [do |-> "kill"]
         /\ crashGate(p)[5] = [do |-> "start", provider |-> "fake-echo", point |-> p]
         /\ crashGate(p)[6] = [do |-> "await", run |-> RootRun]
         /\ crashGate(p)[7] = [do |-> "check", what |-> "crash"]
BY DEF Start, Submit, Await, Check, Do, CrashAndRecover, crashGate

LEMMA CrashWell ==
  ASSUME NEW p \in CrashPoints
  PROVE  WellFormed(crashGate(p)) /\ Answerable(crashGate(p))
<1> DEFINE S == crashGate(p)
<1>1. /\ Len(S) = 7
      /\ S[1] = [do |-> "start", provider |-> "fake-echo", point |-> p]
      /\ S[2] = [do |-> "submit", run |-> RootRun, wf |-> "AgentRun"]
      /\ S[3] = [do |-> "died"]
      /\ S[4] = [do |-> "kill"]
      /\ S[5] = [do |-> "start", provider |-> "fake-echo", point |-> p]
      /\ S[6] = [do |-> "await", run |-> RootRun]
      /\ S[7] = [do |-> "check", what |-> "crash"]
  BY CrashScript
<1> HIDE DEF S
<1>2. WellTyped(S)
  BY <1>1 DEF WellTyped, Verbs, Points, CrashPoints
<1>3. OneWorkflow(S) /\ InputsAwaited(S)
  BY <1>1 DEF OneWorkflow, InputsAwaited, RootRun, ForkA, ForkB, SubFork
<1>4. ReadsAtTheEnd(S)
  BY <1>1 DEF ReadsAtTheEnd
<1>5. Answerable(S)
  BY <1>1 DEF Answerable
<1>6. QED
  BY <1>2, <1>3, <1>4, <1>5 DEF WellFormed, S

(* Which script a gate runs.                                               *)
LEMMA ScriptOf ==
  /\ \A g \in CrashPoints : Script(g) = crashGate(g)
  /\ Script("concurrency") = concurrencyGate
  /\ Script("fork") = forkGate
  /\ Script("replay") = replayGate
  /\ Script("forkNoRefire") = forkNoRefireGate
  /\ Script("multiLevelFork") = multiLevelForkGate
  /\ Script("concurrentForks") = concurrentForksGate
  /\ Script("crashDuringForkNewEffect") = crashDuringForkNewEffectGate
  /\ Script("crashDuringForkSeeded") = crashDuringForkSeededGate
  /\ Script("forkValidation") = forkValidationGate
  /\ Script("m3") = replayOfflineGate
  /\ Script("modelNeutrality") = g1ModelNeutrality
  /\ Script("durabilityUnderSwitch") = g2DurabilityUnderSwitch
  /\ Script("deployNeutrality") = g3DeployNeutrality
  /\ Script("portability") = g4Portability
  /\ Script("pauseRestartResume") = pauseRestartResume
  /\ Script("crashDuringResume") = crashDuringResume
  /\ Script("doubleSubmit") = doubleSubmit
  /\ Script("hitlExport") = hitlExport
  /\ Script("webUi") = g5HitlWebUiApi
<1>1. \A g \in CrashPoints : Script(g) = crashGate(g)
  BY DEF Script
<1>2. DOMAIN Scripts \cap CrashPoints = {}
  BY DEF Scripts, CrashPoints
<1>3. \A g \in DOMAIN Scripts : Script(g) = Scripts[g]
  BY <1>2 DEF Script
<1>4. QED
  BY <1>1, <1>3 DEF Scripts

LEMMA ScriptsAreWell ==
  ASSUME NEW g \in GatesRun
  PROVE  /\ WellFormed(Script(g))
         /\ g # "crashDuringResume" => Answerable(Script(g))
<1>1. CASE g \in CrashPoints
  BY <1>1, ScriptOf, CrashWell
<1>2. CASE g \in DOMAIN Scripts
  <2>1. g \in {"concurrency", "fork", "replay", "forkNoRefire", "multiLevelFork", "concurrentForks", "crashDuringForkNewEffect", "crashDuringForkSeeded", "forkValidation", "m3", "modelNeutrality", "durabilityUnderSwitch", "deployNeutrality", "portability", "pauseRestartResume", "crashDuringResume", "doubleSubmit", "hitlExport", "webUi"}
    BY <1>2 DEF Scripts
  <2>2. QED
    BY <2>1, ScriptOf, ConcurrencyWell, ForkWell, ReplayWell, NoRefireWell, MultiLevelWell, ConcurrentWell, NewEffectWell, SeededEffectWell, ValidationWell, OfflineWell, NeutralityWell, SwitchWell, DeployWell, PortabilityWell, RestartWell, ResumeCrashWell, DoubleSubmitWell, ExportWell, WebUiWell
<1>3. QED
  BY <1>1, <1>2, GatesRunAssumption

-----------------------------------------------------------------------------
(* What the steps do to journal, effect sink and engine.                   *)

(* The command a running gate is at.                                       *)
LEMMA CommandAt ==
  ASSUME gate \in GatesRun, line \in Nat \ {0},
         verdict = "running" => line <= Len(Commands)
  PROVE  /\ WellFormed(Commands) /\ Len(Commands) \in Nat
         /\ verdict = "running" => /\ line \in 1 .. Len(Commands)
                                   /\ Command = Commands[line]
<1>1. WellFormed(Commands)
  BY ScriptsAreWell DEF Commands
<1>2. Len(Commands) \in Nat
  BY <1>1 DEF WellFormed, WellTyped
<1>3. QED
  BY <1>1, <1>2 DEF Command, Commands

Named == {RootRun, ForkA, ForkB, SubFork}

LEMMA NamedRuns == Named \subseteq Runs /\ Named \subseteq Prompts
BY GatesAssumption DEF Named

(* A gate submits a run under its own id as the prompt.                    *)
Submitting ==
  \E r \in Named, wf \in {"AgentRun", "HitlAgentRun"} :
    Invoke(r, wf, r) /\ UNCHANGED fork

(* It forks with the new run's id as the decision.                         *)
Forking ==
  \E r, s \in Named, n \in {1, 2} : Seeding(r, s, n, r) /\ UNCHANGED fork

(* Every step of a gate, its service or the engine is one of these.        *)
ModelStep ==
  \/ WorkflowNext /\ UNCHANGED fork
  \/ KillProc
  \/ Submitting
  \/ Forking
  \/ UNCHANGED forkVars

(* Where the gate stands, as far as the steps above need it.               *)
GateAt ==
  /\ gate \in GatesRun
  /\ line \in Nat \ {0}
  /\ verdict = "running" => line <= Len(Commands)
  /\ input # Nil => input.run \in Runs /\ input.decision \in Decisions

LEMMA SubmitRunSubmits ==
  ASSUME GateAt, SubmitRun
  PROVE  Submitting \/ UNCHANGED forkVars
<1>1. Command.run \in Named /\ Command.wf \in {"AgentRun", "HitlAgentRun"}
  <2>1. PICK k : k = line
    OBVIOUS
  <2>2. k \in 1 .. Len(Commands) /\ Command = Commands[k] /\ WellTyped(Commands)
        /\ Commands[k].do = "submit"
    BY <2>1, CommandAt DEF GateAt, SubmitRun, At, WellFormed
  <2>3. QED
    BY <2>2 DEF WellTyped, Named
<1>2. CASE Invoke(Command.run, Command.wf, Command.run)
  BY <1>1, <1>2 DEF Submitting, SubmitRun
<1>3. CASE invocation[Command.run] # Nil /\ UNCHANGED workflowVars
  BY <1>3 DEF SubmitRun, workflowVars, forkVars
<1>4. QED
  BY <1>2, <1>3 DEF SubmitRun

LEMMA SeedRunForks ==
  ASSUME WorkflowIInv, GateAt, SeedRun
  PROVE  /\ Seeding(Command.run, Command.source, Command.through, Command.run)
         /\ Command.run \in Named /\ Command.source \in Named /\ Command.through \in {1, 2}
         /\ UNCHANGED fork
<1>1. PICK r, s, n : r = Command.run /\ s = Command.source /\ n = Command.through
  OBVIOUS
<1>2. r \in Named /\ s \in Named /\ n \in {1, 2}
  <2>1. PICK k : k = line
    OBVIOUS
  <2>2. k \in 1 .. Len(Commands) /\ Command = Commands[k] /\ WellTyped(Commands)
        /\ Commands[k].do = "seed"
    BY <2>1, CommandAt DEF GateAt, SeedRun, At, WellFormed
  <2>3. QED
    BY <1>1, <2>2 DEF WellTyped, Named
<1>3. PICK p : p = [source |-> s, newRun |-> r, throughSeq |-> n]
  OBVIOUS
<1>4. /\ ValidPlan(p)
      /\ forkRun(RowsThrough(p.source, p.throughSeq), p.newRun, p.source,
                 p.throughSeq, p.newRun)
  BY <1>1, <1>3 DEF SeedRun
<1>5. p.source = s /\ p.newRun = r /\ p.throughSeq = n
  BY <1>3
<1>6. /\ s # r /\ HasEntry(s, n) /\ forkRun(RowsThrough(s, n), r, s, n, r)
      /\ UNCHANGED <<effectVars, engineVars, at, faults, fork>>
  BY <1>4, <1>5 DEF ValidPlan, SeedRun
<1>7. r \in Runs /\ s \in Runs /\ n \in Seqs /\ r \in Prompts
  BY <1>2, NamedRuns DEF Seqs, MaxSeq
<1>8. Seeding(r, s, n, r)
  BY <1>6, <1>7 DEF Seeding
<1>9. QED
  BY <1>1, <1>2, <1>6, <1>8

LEMMA GatesModelStep ==
  ASSUME WorkflowIInv, GateAt, [GatesNext]_gatesVars
  PROVE  ModelStep
<1>1. CASE SubmitRun
  BY <1>1, SubmitRunSubmits DEF ModelStep
<1>2. CASE SeedRun
  BY <1>2, SeedRunForks DEF ModelStep, Forking
<1>3. CASE StartService \/ KillService \/ \E w \in Workers : CrashAtPoint(w)
  BY <1>3 DEF StartService, KillService, CrashAtPoint, ModelStep
<1>4. CASE SendInput \/ Read \/ EndWait \/ CheckNow \/ FetchTimesOut \/ PeekInput
           \/ AnswerInput \/ UNCHANGED gatesVars
  BY <1>4 DEF SendInput, Read, EndWait, CheckNow, FetchTimesOut, PeekInput,
              AnswerInput, ModelStep, gatesVars, forkVars
<1>5. CASE ResolveInput
  <2>1. PICK r \in Runs, d \in Decisions : ResolvePromise(r, d)
    BY <1>5 DEF ResolveInput, InputAt, GateAt
  <2>2. QED
    BY <1>5, <2>1 DEF ResolveInput, ModelStep, WorkflowNext, ClientStep
<1>6. ASSUME NEW w \in Workers, Attempting(w) PROVE ModelStep
  BY <1>6 DEF Attempting, ModelStep, WorkflowNext, EngineStep
<1>7. ASSUME NEW w \in Workers, NEW r \in Runs, StartRun(w, r) PROVE ModelStep
  BY <1>7 DEF StartRun, ModelStep, WorkflowNext, EngineStep
<1>8. ASSUME NEW r \in Runs, LoseConnection(r), UNCHANGED fork PROVE ModelStep
  BY <1>8 DEF ModelStep, WorkflowNext, FaultStep
<1>9. QED
  BY <1>1, <1>2, <1>3, <1>4, <1>5, <1>6, <1>7, <1>8
     DEF GatesNext, GateStep, InputStep

-----------------------------------------------------------------------------
(* What is true of forks stays true under the gates.                       *)

LEMMA KillKeepsWorkflow ==
  ASSUME WorkflowIInv, KillProc
  PROVE  WorkflowIInv'
<1>1. WorkflowTypeOK /\ StoreInv /\ ResultsFromEngine /\ OwnerPosition /\ AttemptsOK
  BY InvParts
<1>2. WorkflowTypeOK'
  BY <1>1 DEF KillProc, WorkflowTypeOK, JournalTypeOK, tableVars
<1>3. StoreInv' /\ ResultsFromEngine'
  BY <1>1, StoreFrame DEF KillProc, ResultsFromEngine
<1>4. OwnerPosition'
  BY DEF KillProc, OwnerPosition
<1>5. AttemptsOK'
  BY DEF KillProc, AttemptsOK, AttemptOK, Idle
<1>6. QED
  BY <1>2, <1>3, <1>4, <1>5, InvParts DEF WorkflowIInv, StoreInv

LEMMA ModelKeepsRows ==
  ASSUME WorkflowIInv, RowsInv, ModelStep
  PROVE  /\ WorkflowIInv' /\ RowsInv' /\ Lasts /\ stepJournal \subseteq stepJournal'
         /\ UNCHANGED fork
<1>1. WorkflowTypeOK
  BY DEF WorkflowIInv
<1>2. CASE WorkflowNext /\ UNCHANGED fork
  BY <1>2, NextInv, WorkflowRows
<1>3. CASE KillProc
  <2>1. \A v \in Workers : at'[v] = at[v] \/ at'[v].pc \notin {"produce", "insert"}
    BY <1>3 DEF KillProc, Idle
  <2>2. QED
    BY <1>1, <1>3, <2>1, KillKeepsWorkflow, QuietStep DEF KillProc
<1>4. CASE Submitting
  <2>1. PICK r \in Named, wf \in {"AgentRun", "HitlAgentRun"} :
          Invoke(r, wf, r) /\ UNCHANGED fork
    BY <1>4 DEF Submitting
  <2>2. r \in Runs /\ r \in Prompts
    BY <2>1, NamedRuns
  <2>3. WorkflowIInv'
    BY <2>1, <2>2, InvokeInv DEF Invoke
  <2>4. /\ UNCHANGED <<tableVars, at, result>>
        /\ \A q \in Runs : invocation[q] # Nil => invocation'[q] = invocation[q]
    BY <1>1, <2>1, <2>2 DEF Invoke, WorkflowTypeOK
  <2>5. QED
    BY <1>1, <2>1, <2>3, <2>4, QuietStep
<1>5. CASE Forking
  <2>1. PICK r, s, n : Seeding(r, s, n, r) /\ UNCHANGED fork
    BY <1>5 DEF Forking
  <2>2. stepJournal \subseteq stepJournal'
    BY <2>1, SeedFacts
  <2>3. QED
    BY <2>1, <2>2, SeedWorkflow, SeedRows, SeedLasts
<1>6. CASE UNCHANGED forkVars
  <2>1. UNCHANGED workflowVars /\ UNCHANGED fork
    BY <1>6 DEF forkVars, workflowVars
  <2>2. QED
    BY <2>1, NextInv, WorkflowRows
<1>7. QED
  BY <1>2, <1>3, <1>4, <1>5, <1>6 DEF ModelStep

LEMMA ModelKeepsForks ==
  ASSUME ForkIInv, ModelStep
  PROVE  ForkIInv'
<1>1. /\ WorkflowIInv /\ WorkflowTypeOK /\ ForkTypeOK /\ RowsInv
      /\ \A f \in Forks : PlanHolds(f) /\ RequestStands(f)
  BY ForkParts
<1>2. /\ WorkflowIInv' /\ RowsInv' /\ Lasts /\ stepJournal \subseteq stepJournal'
      /\ UNCHANGED fork
  BY <1>1, ModelKeepsRows
<1>3. ForkTypeOK'
  BY <1>1, <1>2 DEF ForkTypeOK, WorkflowIInv
<1>4. \A f \in Forks : PlanHolds(f)' /\ RequestStands(f)'
  BY <1>1, <1>2, PlanFrame, RequestFrame
<1>5. QED
  BY <1>2, <1>3, <1>4 DEF ForkIInv, RowsInv

LEMMA ModelMaps ==
  ASSUME ForkIInv, ModelStep
  PROVE  [Promised!Next]_(Promised!vars)
<1>1. WorkflowIInv /\ WorkflowTypeOK /\ RowsInv /\ ForkTypeOK
  BY ForkParts
<1>2. CASE WorkflowNext
  BY <1>1, <1>2, NextInv, StepMaps
<1>3. CASE KillProc \/ Submitting \/ UNCHANGED forkVars
  <2>1. UNCHANGED <<stepJournal, effectLog, result>>
    BY <1>3 DEF KillProc, Submitting, Invoke, forkVars, tableVars
  <2>2. QED
    BY <2>1, StutterMaps
<1>4. CASE Forking
  <2>1. PICK r, s, n : Seeding(r, s, n, r)
    BY <1>4 DEF Forking
  <2>2. QED
    BY <1>1, <2>1, SeedMaps
<1>5. QED
  BY <1>2, <1>3, <1>4 DEF ModelStep

-----------------------------------------------------------------------------
(* What the gates have brought about is not taken back.                    *)

Persists ==
  /\ stepJournal \subseteq stepJournal'
  /\ \A r \in Runs :
       /\ invocation[r] # Nil => invocation'[r] = invocation[r]
       /\ result[r] # Nil => result'[r] # Nil
       /\ promise[r] # Nil => promise'[r] = promise[r]
       /\ Parent(r) # Nil => runMeta'[r] = runMeta[r]

LEMMA HandlersKeepPromises ==
  ASSUME NEW w \in Workers, HandlerStep(w)
  PROVE  UNCHANGED <<invocation, promise>>
<1>1. CASE RecordStep(w)
  BY <1>1 DEF RecordStep, ReplayStep, MissStep, CallProvider, FireTool, ComputeStep,
              JournalStep, LoseInsert, engineVars
<1>2. CASE BeginHandler(w) \/ CommitStep(w) \/ Finish(w) \/ Suspend(w) \/ Fenced(w)
  BY <1>2 DEF BeginHandler, CommitStep, Finish, Suspend, Fenced, engineVars
<1>3. QED
  BY <1>1, <1>2 DEF HandlerStep

LEMMA ModelPersists ==
  ASSUME ForkIInv, ModelStep
  PROVE  Persists
<1>1. WorkflowIInv /\ WorkflowTypeOK /\ RowsInv
  BY ForkParts
<1>2. Lasts /\ stepJournal \subseteq stepJournal'
  BY <1>1, ModelKeepsRows
<1>3. \A r \in Runs : promise[r] # Nil => promise'[r] = promise[r]
  <2>1. CASE WorkflowNext
    <3>1. CASE \E r \in Runs, d \in Decisions : ResolvePromise(r, d)
      BY <1>1, <3>1 DEF ResolvePromise, WorkflowTypeOK
    <3>2. ASSUME NEW w \in Workers, HandlerStep(w) PROVE UNCHANGED promise
      BY <3>2, HandlersKeepPromises
    <3>3. CASE FaultStep
      BY <3>3 DEF FaultStep, Crash, ProviderFails, LoseConnection
    <3>4. CASE \E r, p, wf : Invoke(r, wf, p)
      BY <3>4 DEF Invoke
    <3>5. CASE \E w \in Workers, r \in Runs : StartAttempt(w, r)
      BY <3>5 DEF StartAttempt
    <3>6. QED
      BY <2>1, <3>1, <3>2, <3>3, <3>4, <3>5 DEF WorkflowNext, ClientStep, EngineStep
  <2>2. CASE KillProc \/ Submitting \/ UNCHANGED forkVars
    BY <2>2 DEF KillProc, Submitting, Invoke, forkVars
  <2>3. CASE Forking
    BY <2>3 DEF Forking, Seeding, engineVars
  <2>4. QED
    BY <2>1, <2>2, <2>3 DEF ModelStep
<1>4. QED
  BY <1>1, <1>2, <1>3 DEF Persists, Lasts, RowsInv, LineageHasAPoint

-----------------------------------------------------------------------------
(* The gate and its commands.                                              *)

LEMMA GatesParts ==
  ASSUME GatesIInv
  PROVE  /\ ForkIInv /\ WorkflowIInv /\ WorkflowTypeOK /\ RowsInv
         /\ GatesTypeOK /\ GateAt
         /\ WellFormed(Commands) /\ Len(Commands) \in Nat
         /\ verdict = "running" => line \in 1 .. Len(Commands) /\ Command = Commands[line]
         /\ Earlier \subseteq 1 .. Len(Commands)
<1>1. ForkIInv /\ GatesTypeOK
  BY DEF GatesIInv
<1>2. GateAt
  BY <1>1 DEF GatesTypeOK, GateAt, Inputs
<1>3. Len(Commands) \in Nat
  BY <1>2, CommandAt DEF GateAt
<1>4. Earlier \subseteq 1 .. Len(Commands)
  BY <1>1, <1>3 DEF GatesTypeOK, Earlier
<1>5. QED
  BY <1>1, <1>2, <1>4, ForkParts, CommandAt DEF GateAt

(* The gate goes on to the next command, or stays where it is.             *)
GateMove ==
  StartService \/ KillService \/ SubmitRun \/ SeedRun \/ SendInput \/ Read \/ EndWait
    \/ CheckNow

Moving == verdict = "running" /\ line' = line + 1 /\ GateMove

LEMMA GateMoves ==
  ASSUME [GatesNext]_gatesVars
  PROVE  gate' = gate /\ (line' = line \/ Moving)
<1>1. CASE GateMove
  BY <1>1 DEF GateMove, Moving, At, GoOn, StartService, KillService, SubmitRun, SeedRun,
              SendInput, Read, EndWait, Waited, CheckNow
<1>2. CASE FetchTimesOut \/ InputStep \/ UNCHANGED gatesVars
  BY <1>2 DEF FetchTimesOut, InputStep, PeekInput, ResolveInput, AnswerInput, gatesVars
<1>3. CASE \/ \E w \in Workers : Attempting(w) \/ CrashAtPoint(w)
           \/ \E w \in Workers, r \in Runs : StartRun(w, r)
           \/ \E r \in Runs : LoseConnection(r) /\ UNCHANGED <<fork, gateVars>>
  BY <1>3 DEF Attempting, CrashAtPoint, StartRun, gateVars
<1>4. QED
  BY <1>1, <1>2, <1>3 DEF GatesNext, GateStep, GateMove

(* Steps the gate has no part in.                                          *)
Elsewhere ==
  \/ InputStep \/ UNCHANGED gatesVars
  \/ \E w \in Workers : Attempting(w) \/ CrashAtPoint(w)
  \/ \E w \in Workers, r \in Runs : StartRun(w, r)
  \/ \E r \in Runs : LoseConnection(r) /\ UNCHANGED <<fork, gateVars>>

LEMMA NextIs ==
  [GatesNext]_gatesVars <=> GateMove \/ FetchTimesOut \/ Elsewhere
BY DEF GatesNext, GateStep, GateMove, Elsewhere

LEMMA ElsewhereWaits ==
  ASSUME Elsewhere PROVE UNCHANGED <<gate, line, before, verdict>>
<1>1. CASE InputStep \/ UNCHANGED gatesVars
  BY <1>1 DEF InputStep, PeekInput, ResolveInput, AnswerInput, gatesVars
<1>2. QED
  BY <1>1 DEF Elsewhere, Attempting, CrashAtPoint, StartRun, gateVars

LEMMA TypesKept ==
  ASSUME GatesIInv, [GatesNext]_gatesVars
  PROVE  GatesTypeOK'
<1>1. /\ GatesTypeOK /\ WellTyped(Commands) /\ InputsAwaited(Commands) /\ Len(Commands) \in Nat
      /\ verdict = "running" => line \in 1 .. Len(Commands) /\ Command = Commands[line]
  BY GatesParts DEF WellFormed
<1>2. gate' \in GatesRun /\ line' \in Nat \ {0} /\ Commands' = Commands
  <2>1. gate' = gate /\ (line' = line \/ line' = line + 1)
    BY GateMoves DEF Moving
  <2>2. QED
    BY <1>1, <2>1 DEF GatesTypeOK, Commands
<1>3. PICK k : k = line
  OBVIOUS
<1>4. service' \in [up : BOOLEAN, provider : {"fake-echo", "fake-upper"},
                    point : DOMAIN PointAt \cup {Nil}]
  <2>1. CASE StartService
    <3>1. k \in 1 .. Len(Commands) /\ Command = Commands[k] /\ Commands[k].do = "start"
      BY <1>1, <1>3, <2>1 DEF StartService, At
    <3>2. /\ Command.provider \in {"fake-echo", "fake-upper"}
          /\ Command.point \in DOMAIN PointAt \cup {Nil}
      BY <1>1, <3>1, PointNames DEF WellTyped
    <3>3. QED
      BY <2>1, <3>2 DEF StartService
  <2>2. CASE KillService \/ \E w \in Workers : CrashAtPoint(w)
    BY <1>1, <2>2 DEF KillService, CrashAtPoint, GatesTypeOK
  <2>3. CASE UNCHANGED service
    BY <1>1, <2>3 DEF GatesTypeOK
  <2>4. QED
    BY <2>1, <2>2, <2>3, NextIs
       DEF GateMove, SubmitRun, SeedRun, SendInput, Read, EndWait, CheckNow, FetchTimesOut,
           Elsewhere, InputStep, PeekInput, ResolveInput, AnswerInput, Attempting, StartRun,
           gateVars, gatesVars
<1>5. input' \in Inputs \cup {Nil}
  <2>1. CASE SendInput
    <3>1. k \in 1 .. Len(Commands) /\ Command = Commands[k] /\ Commands[k].do = "input"
      BY <1>1, <1>3, <2>1 DEF SendInput, At
    <3>2. Command.run \in Runs /\ Command.decision \in Decisions
      BY <1>1, <3>1, GatesAssumption DEF InputsAwaited
    <3>3. QED
      BY <2>1, <3>2 DEF SendInput, Inputs
  <2>2. CASE PeekInput \/ ResolveInput \/ AnswerInput
    <3>1. CASE AnswerInput
      BY <3>1 DEF AnswerInput
    <3>2. CASE PeekInput \/ ResolveInput
      <4>1. input \in Inputs
        BY <1>1, <3>2 DEF PeekInput, ResolveInput, InputAt, GatesTypeOK
      <4>2. QED
        BY <3>2, <4>1 DEF PeekInput, ResolveInput, Inputs
    <3>3. QED
      BY <2>2, <3>1, <3>2
  <2>3. CASE UNCHANGED input
    BY <1>1, <2>3 DEF GatesTypeOK
  <2>4. QED
    BY <2>1, <2>2, <2>3, NextIs
       DEF GateMove, StartService, KillService, SubmitRun, SeedRun, Read, EndWait, CheckNow,
           FetchTimesOut, Elsewhere, InputStep, Attempting, CrashAtPoint, StartRun,
           gateVars, gatesVars
<1>6. answers' \in Seq(BOOLEAN)
  <2>1. CASE AnswerInput
    <3>1. input.accepted \in BOOLEAN
      BY <1>1, <2>1 DEF AnswerInput, InputAt, GatesTypeOK, Inputs
    <3>2. QED
      BY <1>1, <2>1, <3>1 DEF AnswerInput, GatesTypeOK
  <2>2. CASE UNCHANGED answers
    BY <1>1, <2>2 DEF GatesTypeOK
  <2>3. QED
    BY <2>1, <2>2, NextIs
       DEF GateMove, StartService, KillService, SubmitRun, SeedRun, SendInput, Read, EndWait,
           CheckNow, FetchTimesOut, Elsewhere, InputStep, PeekInput, ResolveInput,
           Attempting, CrashAtPoint, StartRun, gateVars, gatesVars
<1>7. /\ verdict' \in {"running", "pass", "fail", "error"}
      /\ line' <= IF verdict' = "running" THEN Len(Commands) ELSE Len(Commands) + 1
  <2>1. CASE CheckNow
    <3>1. line \in 1 .. Len(Commands) /\ Commands = Script(gate)
      BY <1>1, <2>1 DEF CheckNow, At, Commands
    <3>2. QED
      BY <1>1, <2>1, <3>1 DEF CheckNow, GatesTypeOK
  <2>2. CASE GateMove /\ ~CheckNow
    <3>1. /\ verdict = "running" /\ verdict' = "running" /\ line' = line + 1
          /\ Command.do # "check"
      BY <2>2 DEF GateMove, At, GoOn, StartService, KillService, SubmitRun, SeedRun,
                  SendInput, Read, EndWait, Waited
    <3>2. k \in 1 .. Len(Commands) /\ Commands[k].do # "check"
      BY <1>1, <1>3, <3>1
    <3>3. k < Len(Commands)
      BY <1>1, <3>2 DEF WellTyped
    <3>4. QED
      BY <1>1, <1>3, <3>1, <3>2, <3>3
  <2>3. CASE FetchTimesOut
    BY <1>1, <2>3 DEF FetchTimesOut, At
  <2>4. CASE Elsewhere
    BY <1>1, <2>4, ElsewhereWaits DEF GatesTypeOK
  <2>5. QED
    BY <2>1, <2>2, <2>3, <2>4, NextIs
<1>8. QED
  BY <1>2, <1>4, <1>5, <1>6, <1>7 DEF GatesTypeOK

-----------------------------------------------------------------------------
(* What was commanded stands.                                              *)

LEMMA DoneStands ==
  ASSUME ForkIInv, Persists, NEW c,
         c.do \in {"submit", "await", "seed", "paused"} => c.run \in Named,
         c.do = "submit" => c.wf \in {"AgentRun", "HitlAgentRun"},
         c.do = "seed" => c.source \in Named /\ c.through \in {1, 2},
         Done(c)
  PROVE  Done(c)'
<1>1. Named \subseteq Runs \cap Prompts /\ WorkflowTypeOK
  BY NamedRuns, ForkParts
<1>2. ASSUME c.do = "submit" PROVE invocation'[c.run] = [wf |-> c.wf, prompt |-> c.run]
  <2>1. invocation[c.run] = [wf |-> c.wf, prompt |-> c.run]
    BY <1>2 DEF Done
  <2>2. invocation[c.run] \in Invocations
    BY <1>1, <1>2, <2>1 DEF Invocations
  <2>3. QED
    BY <1>1, <1>2, <2>1, <2>2, NilIsNoInvocation DEF Persists
<1>3. ASSUME c.do = "await" PROVE result'[c.run] # Nil
  BY <1>1, <1>3 DEF Done, Persists
<1>4. ASSUME c.do = "seed" PROVE runMeta'[c.run] = ForkMeta(c.source, c.through, c.run)
  <2>1. runMeta[c.run] = ForkMeta(c.source, c.through, c.run)
    BY <1>4 DEF Done
  <2>2. runMeta[c.run] \in MetaRow /\ runMeta[c.run].parent = c.source
    BY <1>1, <1>4, <2>1 DEF ForkMeta, MetaRow, Seqs, MaxSeq
  <2>3. Parent(c.run) # Nil
    BY <1>1, <1>4, <2>2, NilIsNoRow, NilAssumption DEF Parent
  <2>4. QED
    BY <1>1, <1>4, <2>1, <2>3 DEF Persists
<1>5. ASSUME c.do = "paused" PROVE Shows(LiveSource, c.run, "hitl-pause")'
  BY <1>5 DEF Done, Persists, Shows, stepsOf, LiveSource
<1>6. QED
  BY <1>2, <1>3, <1>4, <1>5 DEF Done

LEMMA CommandFields ==
  ASSUME NEW S, WellTyped(S), NEW i \in 1 .. Len(S), NEW c, c = S[i]
  PROVE  /\ c.do \in {"submit", "await", "seed", "paused", "input"} => c.run \in Named
         /\ c.do = "submit" => c.wf \in {"AgentRun", "HitlAgentRun"}
         /\ c.do = "seed" => c.source \in Named /\ c.through \in {1, 2}
BY DEF WellTyped, Named

(* What the command just carried out brought about.                        *)
LEMMA CommandDone ==
  ASSUME GatesIInv, Moving, NEW c, c = Command
  PROVE  Done(c)'
<1>1. /\ ForkIInv /\ WorkflowIInv /\ WorkflowTypeOK /\ GateAt
      /\ WellTyped(Commands) /\ OneWorkflow(Commands)
      /\ line \in 1 .. Len(Commands) /\ Command = Commands[line]
      /\ Earlier \subseteq 1 .. Len(Commands)
  BY GatesParts DEF Moving, WellFormed
<1>2. /\ c.do \in {"submit", "await", "seed", "paused", "input"} => c.run \in Named
      /\ c.do = "submit" => c.wf \in {"AgentRun", "HitlAgentRun"}
  <2>1. PICK k : k = line
    OBVIOUS
  <2>2. QED
    BY <1>1, <2>1, CommandFields
<1>3. ASSUME c.do = "submit" PROVE invocation'[c.run] = [wf |-> c.wf, prompt |-> c.run]
  <2>1. SubmitRun
    BY <1>3 DEF Moving, GateMove, At, StartService, KillService, SeedRun, SendInput, Read,
                EndWait, Waited, CheckNow
  <2>2. CASE Invoke(Command.run, Command.wf, Command.run)
    BY <1>1, <1>2, <1>3, <2>2, NamedRuns DEF Invoke, WorkflowTypeOK
  <2>3. CASE invocation[Command.run] # Nil /\ UNCHANGED workflowVars
    <3>1. c.run \in Runs /\ DidTo(c.run, "submit")
      BY <1>2, <1>3, <2>3, NamedRuns DEF GatesIInv, OnlyOnCommand
    <3>2. PICK i \in Earlier : Commands[i].do = "submit" /\ Commands[i].run = c.run
      BY <3>1 DEF DidTo
    <3>3. PICK k : k = line
      OBVIOUS
    <3>4. Commands[i].wf = c.wf
      BY <1>1, <1>3, <3>2, <3>3 DEF OneWorkflow
    <3>5. Done(Commands[i])
      BY <3>2 DEF GatesIInv, CommandsDone
    <3>6. invocation[c.run] = [wf |-> c.wf, prompt |-> c.run]
      BY <3>2, <3>4, <3>5 DEF Done
    <3>7. QED
      BY <2>3, <3>6 DEF workflowVars
  <2>4. QED
    BY <2>1, <2>2, <2>3 DEF SubmitRun
<1>4. ASSUME c.do = "seed" PROVE runMeta'[c.run] = ForkMeta(c.source, c.through, c.run)
  <2>1. SeedRun
    BY <1>4 DEF Moving, GateMove, At, StartService, KillService, SubmitRun, SendInput, Read,
                EndWait, Waited, CheckNow
  <2>2. PICK r, s, n : r = c.run /\ s = c.source /\ n = c.through
    OBVIOUS
  <2>3. Seeding(r, s, n, r)
    BY <1>1, <2>1, <2>2, SeedRunForks
  <2>4. r \in Runs /\ runMeta' = [runMeta EXCEPT ![r] = ForkMeta(s, n, r)]
    BY <1>1, <2>3, SeedFacts
  <2>5. QED
    BY <1>1, <2>2, <2>4 DEF WorkflowTypeOK, JournalTypeOK
<1>5. ASSUME c.do \in {"await", "paused"}
      PROVE  /\ c.do = "await" => result'[c.run] # Nil
             /\ c.do = "paused" => Shows(LiveSource, c.run, "hitl-pause")'
  <2>1. EndWait
    BY <1>5 DEF Moving, GateMove, At, StartService, KillService, SubmitRun, SeedRun,
                SendInput, Read, CheckNow
  <2>2. UNCHANGED <<result, stepJournal>>
    BY <2>1 DEF EndWait, forkVars
  <2>3. /\ c.do = "await" => result[c.run] # Nil
        /\ c.do = "paused" => Shows(LiveSource, c.run, "hitl-pause")
    BY <1>5, <2>1 DEF EndWait, Waited, At, hitlStateFromSource
  <2>4. QED
    BY <2>2, <2>3 DEF Shows, stepsOf, LiveSource
<1>6. QED
  BY <1>3, <1>4, <1>5 DEF Done

(* Every step of the gates, as far as the tables and the engine go.        *)
LEMMA GatesKeep ==
  ASSUME GatesIInv, [GatesNext]_gatesVars
  PROVE  ModelStep /\ ForkIInv' /\ Persists
<1>1. ForkIInv /\ WorkflowIInv /\ GateAt
  BY GatesParts
<1>2. ModelStep
  BY <1>1, GatesModelStep
<1>3. QED
  BY <1>1, <1>2, ModelKeepsForks, ModelPersists

LEMMA CommandsStayDone ==
  ASSUME GatesIInv, [GatesNext]_gatesVars
  PROVE  CommandsDone'
<1>1. /\ ForkIInv /\ Persists /\ WellTyped(Commands) /\ Earlier \subseteq 1 .. Len(Commands)
      /\ line \in Nat \ {0} /\ CommandsDone
  BY GatesParts, GatesKeep DEF WellFormed, GatesIInv, GatesTypeOK
<1>2. Commands' = Commands /\ (line' = line \/ Moving)
  BY GateMoves DEF Commands
<1>3. SUFFICES ASSUME NEW i \in 1 .. line' - 1, NEW c, c = Commands[i] PROVE Done(c)'
  BY <1>2 DEF CommandsDone, Earlier
<1>4. CASE i \in Earlier
  <2>1. Done(c) /\ i \in 1 .. Len(Commands)
    BY <1>1, <1>3, <1>4 DEF CommandsDone
  <2>2. QED
    BY <1>1, <1>3, <2>1, CommandFields, DoneStands
<1>5. CASE i \notin Earlier
  <2>1. Moving /\ i = line
    BY <1>1, <1>2, <1>3, <1>5 DEF Earlier, Moving
  <2>2. c = Command
    BY <1>3, <2>1, GatesParts DEF Moving
  <2>3. QED
    BY <2>1, <2>2, GatesKeep, CommandDone
<1>6. QED
  BY <1>4, <1>5

-----------------------------------------------------------------------------
(* Which step changes what.                                                *)

LEMMA WhatChanges ==
  ASSUME [GatesNext]_gatesVars
  PROVE  /\ SubmitRun \/ UNCHANGED invocation
         /\ ResolveInput \/ UNCHANGED promise
         /\ SeedRun \/ (\E w \in Workers : Attempting(w)) \/ UNCHANGED tableVars
         /\ (\E w \in Workers : Attempting(w)) \/ UNCHANGED <<engine, result>>
<1>1. CASE StartService \/ KillService \/ \E w \in Workers : CrashAtPoint(w)
  BY <1>1 DEF StartService, KillService, CrashAtPoint, KillProc, tableVars
<1>2. CASE SubmitRun
  BY <1>2 DEF SubmitRun, Invoke, workflowVars, tableVars
<1>3. CASE SeedRun
  BY <1>3 DEF SeedRun, engineVars
<1>4. CASE SendInput \/ Read \/ EndWait \/ CheckNow \/ FetchTimesOut \/ PeekInput
           \/ AnswerInput \/ UNCHANGED gatesVars
  BY <1>4 DEF SendInput, Read, EndWait, CheckNow, FetchTimesOut, PeekInput,
              AnswerInput, gatesVars, forkVars, tableVars
<1>5. CASE ResolveInput
  BY <1>5 DEF ResolveInput, ResolvePromise
<1>6. CASE \E w \in Workers : Attempting(w)
  BY <1>6, HandlersKeepPromises DEF Attempting
<1>7. CASE \E w \in Workers, r \in Runs : StartRun(w, r)
  BY <1>7 DEF StartRun, StartAttempt
<1>8. CASE \E r \in Runs : LoseConnection(r) /\ UNCHANGED <<fork, gateVars>>
  BY <1>8 DEF LoseConnection
<1>9. QED
  BY <1>1, <1>2, <1>3, <1>4, <1>5, <1>6, <1>7, <1>8 DEF GatesNext, GateStep, InputStep

LEMMA EarlierGrows ==
  ASSUME GatesIInv, [GatesNext]_gatesVars
  PROVE  /\ Commands' = Commands
         /\ Earlier \subseteq Earlier'
         /\ Moving => line \in Earlier'
         /\ line' = line => Earlier' = Earlier
         /\ Earlier' \subseteq Earlier \cup {line}
         /\ \A r, what : DidTo(r, what) => DidTo(r, what)'
<1>1. line \in Nat \ {0}
  BY DEF GatesIInv, GatesTypeOK
<1>2. Commands' = Commands /\ (line' = line \/ line' = line + 1)
      /\ (Moving => line' = line + 1)
  BY GateMoves DEF Commands, Moving
<1>3. /\ Earlier \subseteq Earlier'
      /\ Moving => line \in Earlier'
      /\ line' = line => Earlier' = Earlier
      /\ Earlier' \subseteq Earlier \cup {line}
  BY <1>1, <1>2 DEF Earlier
<1>4. QED
  BY <1>2, <1>3 DEF DidTo

(* What the journal knows of a run it got from an attempt or a seed.       *)
LEMMA MetaChanges ==
  ASSUME GatesIInv, [GatesNext]_gatesVars, NEW r \in Runs, ~DidTo(r, "seed")'
  PROVE  /\ runMeta'[r] # Nil => runMeta[r] # Nil \/ invocation[r] # Nil
         /\ Parent(r)' # Nil => Parent(r) # Nil
         /\ ForkPoint(r)' # Nil => ForkPoint(r) # Nil
<1>1. WorkflowIInv /\ WorkflowTypeOK /\ GateAt
  BY GatesParts
<1>2. CASE UNCHANGED tableVars
  BY <1>2 DEF tableVars, Parent, ForkPoint
<1>3. CASE SeedRun
  <2>1. PICK q, s, n : q = Command.run /\ s = Command.source /\ n = Command.through
    OBVIOUS
  <2>2. Seeding(q, s, n, q)
    BY <1>1, <1>3, <2>1, SeedRunForks
  <2>3. runMeta' = [runMeta EXCEPT ![q] = ForkMeta(s, n, q)]
    BY <1>1, <2>2, SeedFacts
  <2>4. Moving /\ Command.do = "seed"
    BY <1>3 DEF SeedRun, Moving, GateMove, At, GoOn
  <2>5. q # r
    <3>1. line \in Earlier' /\ Commands' = Commands /\ Commands[line] = Command
      BY <2>4, EarlierGrows, GatesParts DEF Moving
    <3>2. DidTo(q, "seed")'
      BY <2>1, <2>4, <3>1 DEF DidTo
    <3>3. QED
      BY <3>2
  <2>6. QED
    BY <1>1, <2>3, <2>5 DEF WorkflowTypeOK, JournalTypeOK, Parent, ForkPoint
<1>4. ASSUME NEW w \in Workers, HandlerStep(w)
      PROVE  /\ runMeta'[r] # Nil => runMeta[r] # Nil \/ invocation[r] # Nil
             /\ Parent(r)' # Nil => Parent(r) # Nil
             /\ ForkPoint(r)' # Nil => ForkPoint(r) # Nil
  <2>1. CASE UNCHANGED runMeta
    BY <2>1 DEF Parent, ForkPoint
  <2>2. CASE BeginHandler(w)
    <3>1. PICK q, p : q = at[w].run /\ p = invocation[at[w].run].prompt
      OBVIOUS
    <3>2. q \in Runs /\ invocation[q] # Nil
      BY <1>1, <2>2, <3>1, AttemptTyped DEF BeginHandler, WorkflowIInv, AttemptsOK, AttemptOK
    <3>3. PICK m : m = [parent |-> Nil, forkedAt |-> Nil, trajectory |-> p]
      OBVIOUS
    <3>4. runMeta' = runMeta \/ runMeta' = [runMeta EXCEPT ![q] = m]
      BY <2>2, <3>1, <3>3 DEF BeginHandler, ensureRunMeta
    <3>5. m.parent = Nil /\ m.forkedAt = Nil
      BY <3>3
    <3>6. QED
      BY <1>1, <3>2, <3>4, <3>5 DEF WorkflowTypeOK, JournalTypeOK, Parent, ForkPoint
  <2>3. QED
    BY <1>4, <2>1, <2>2
       DEF HandlerStep, RecordStep, ReplayStep, MissStep, CallProvider, FireTool, ComputeStep,
           JournalStep, LoseInsert, CommitStep, Finish, Suspend, Fenced, tableVars, journalVars
<1>5. QED
  BY <1>2, <1>3, <1>4, WhatChanges DEF Attempting

LEMMA OnlyOnCommandKept ==
  ASSUME GatesIInv, [GatesNext]_gatesVars
  PROVE  OnlyOnCommand'
<1>1. /\ WorkflowIInv /\ WorkflowTypeOK /\ GateAt /\ OnlyOnCommand
      /\ Persists
  BY GatesParts, GatesKeep DEF GatesIInv
<1>2. SUFFICES ASSUME NEW r \in Runs
               PROVE  /\ invocation'[r] # Nil => DidTo(r, "submit")'
                      /\ runMeta'[r] # Nil => invocation'[r] # Nil \/ DidTo(r, "seed")'
                      /\ Parent(r)' # Nil => DidTo(r, "seed")'
                      /\ ForkPoint(r)' # Nil => DidTo(r, "seed")'
                      /\ promise'[r] # Nil => DidTo(r, "input")'
  BY DEF OnlyOnCommand
<1>3. ASSUME invocation'[r] # Nil PROVE DidTo(r, "submit")'
  <2>1. CASE invocation[r] # Nil
    BY <1>1, <2>1, EarlierGrows DEF OnlyOnCommand
  <2>2. CASE invocation[r] = Nil
    <3>1. SubmitRun
      BY <1>3, <2>2, WhatChanges
    <3>2. Invoke(Command.run, Command.wf, Command.run)
      BY <1>3, <2>2, <3>1 DEF SubmitRun, workflowVars
    <3>3. Command.run = r
      BY <1>1, <1>3, <2>2, <3>2 DEF Invoke, WorkflowTypeOK
    <3>4. Moving /\ Command.do = "submit"
      BY <3>1 DEF SubmitRun, Moving, GateMove, At, GoOn
    <3>5. line \in Earlier' /\ Commands' = Commands /\ Commands[line] = Command
      BY <3>4, EarlierGrows, GatesParts DEF Moving
    <3>6. QED
      BY <3>3, <3>4, <3>5 DEF DidTo
  <2>3. QED
    BY <2>1, <2>2
<1>4. ASSUME runMeta'[r] # Nil, ~DidTo(r, "seed")' PROVE invocation'[r] # Nil
  <2>1. runMeta[r] # Nil \/ invocation[r] # Nil
    BY <1>4, MetaChanges
  <2>2. ~DidTo(r, "seed")
    BY <1>4, EarlierGrows
  <2>3. QED
    BY <1>1, <2>1, <2>2 DEF OnlyOnCommand, Persists
<1>5. ASSUME Parent(r)' # Nil PROVE DidTo(r, "seed")'
  BY <1>1, <1>5, MetaChanges, EarlierGrows DEF OnlyOnCommand
<1>6. ASSUME ForkPoint(r)' # Nil PROVE DidTo(r, "seed")'
  BY <1>1, <1>6, MetaChanges, EarlierGrows DEF OnlyOnCommand
<1>7. ASSUME promise'[r] # Nil PROVE DidTo(r, "input")'
  <2>1. CASE promise[r] # Nil
    BY <1>1, <2>1, EarlierGrows DEF OnlyOnCommand
  <2>2. CASE promise[r] = Nil
    <3>1. ResolveInput
      BY <1>7, <2>2, WhatChanges
    <3>2. r = input.run
      BY <1>1, <1>7, <2>2, <3>1 DEF ResolveInput, ResolvePromise, WorkflowTypeOK
    <3>3. /\ line - 1 \in Earlier /\ Commands[line - 1].do = "input"
          /\ input.run = Commands[line - 1].run
      BY <3>1 DEF ResolveInput, InputAt, GatesIInv, InputsInOrder
    <3>4. DidTo(r, "input")
      BY <3>2, <3>3 DEF DidTo
    <3>5. QED
      BY <3>4, EarlierGrows
  <2>3. QED
    BY <2>1, <2>2
<1>8. QED
  BY <1>3, <1>4, <1>5, <1>6, <1>7

-----------------------------------------------------------------------------
(* What the outputs of a run are made of.                                  *)

LEMMA MadeStands ==
  ASSUME Persists, NEW r \in Runs, invocation[r] # Nil, NEW step, NEW out,
         MadeOf(r, step, out)
  PROVE  MadeOf(r, step, out)'
BY DEF Persists, MadeOf

AttemptMade(w) ==
  /\ at[w].pc = "insert" => MadeOf(at[w].run, StepOf(w), at[w].val)
  /\ (at[w].pc = "produce" /\ StepOf(w) = "hitl-input") => promise[at[w].run] # Nil

LEMMA AttemptMadeStands ==
  ASSUME WorkflowIInv, Persists, NEW v \in Workers, AttemptMade(v),
         at'[v] = at[v] \/ at'[v].pc \notin {"produce", "insert"}
  PROVE  AttemptMade(v)'
<1>1. CASE at'[v].pc \notin {"produce", "insert"}
  BY <1>1 DEF AttemptMade
<1>2. CASE at'[v] = at[v] /\ at[v].pc \in {"produce", "insert"}
  <2>1. PICK r : r = at[v].run
    OBVIOUS
  <2>2. r \in Runs /\ invocation[r] # Nil
    BY <1>2, <2>1, StepFacts DEF WorkflowIInv, AttemptsOK
  <2>3. StepOf(v)' = StepOf(v)
    BY <1>2, <2>1, <2>2 DEF Persists, StepOf, Steps
  <2>4. at[v].pc = "insert" => MadeOf(r, StepOf(v), at[v].val)'
    BY <1>2, <2>1, <2>2, <2>3, MadeStands DEF AttemptMade
  <2>5. QED
    BY <1>2, <2>1, <2>2, <2>3, <2>4 DEF AttemptMade, Persists
<1>3. QED
  BY <1>1, <1>2

(* What a producer leaves with its attempt.                                *)
LEMMA Producing ==
  ASSUME WorkflowTypeOK, NEW w \in Workers, at[w].pc = "produce",
         NEW reads, NEW x, Produced(w, reads, x)
  PROVE  /\ at'[w].pc = "insert" /\ at'[w].run = at[w].run /\ at'[w].seq = at[w].seq
         /\ at'[w].val.ext = x
         /\ \A j \in reads : \E y \in at'[w].val.folds : y.seq = j
         /\ \A v \in Workers : v # w => at'[v] = at[v]
<1>1. at[w] \in Attempt
  BY AttemptTyped
<1>2. PICK F : F = Values(at[w].run, reads)
  OBVIOUS
<1>3. PICK o : o = [folds |-> F, ext |-> x]
  OBVIOUS
<1>4. at' = [at EXCEPT ![w].pc = "insert", ![w].val = o]
  BY <1>2, <1>3 DEF Produced
<1>5. /\ at'[w].pc = "insert" /\ at'[w].run = at[w].run /\ at'[w].seq = at[w].seq
      /\ at'[w].val = o
      /\ \A v \in Workers : v # w => at'[v] = at[v]
  BY <1>1, <1>4 DEF WorkflowTypeOK, Attempt
<1>6. ASSUME NEW j \in reads PROVE \E y \in F : y.seq = j
  <2>1. PICK y : y = [seq |-> j, ext |-> engine[at[w].run][j].ext]
    OBVIOUS
  <2>2. y \in F /\ y.seq = j
    BY <1>2, <2>1 DEF Values
  <2>3. QED
    BY <2>2
<1>7. QED
  BY <1>3, <1>5, <1>6

LEMMA HandlerMakes ==
  ASSUME WorkflowIInv, Persists, NEW w \in Workers, AttemptMade(w), HandlerStep(w)
  PROVE  /\ AttemptMade(w)'
         /\ \A v \in Workers : v # w => at'[v] = at[v]
<1>1. WorkflowTypeOK /\ AttemptOK(w) /\ at[w].pc # "idle"
  BY DEF WorkflowIInv, AttemptsOK, HandlerStep, RecordStep, BeginHandler, ReplayStep,
         MissStep, CallProvider, FireTool, ComputeStep, JournalStep, LoseInsert,
         CommitStep, Finish, Suspend, Fenced
<1>2. at[w] \in Attempt
  BY <1>1, AttemptTyped
<1>3. PICK r : r = at[w].run
  OBVIOUS
<1>4. r \in Runs /\ invocation[r] # Nil /\ UNCHANGED <<invocation, promise>>
  BY <1>1, <1>3, AttemptTyped, HandlersKeepPromises DEF AttemptOK
<1>5. CASE MissStep(w)
  <2>1. /\ at'[w].pc = "produce" /\ at'[w].run = r /\ at'[w].seq = at[w].seq
        /\ \A v \in Workers : v # w => at'[v] = at[v]
    BY <1>1, <1>2, <1>3, <1>5 DEF MissStep, WorkflowTypeOK, Attempt
  <2>2. StepOf(w)' = StepOf(w)
    BY <1>3, <1>4, <2>1 DEF StepOf, Steps
  <2>3. QED
    BY <1>3, <1>4, <1>5, <2>1, <2>2 DEF AttemptMade, MissStep, Blocked
<1>6. CASE CallProvider(w) \/ FireTool(w) \/ ComputeStep(w)
  <2>1. PICK reads, x :
          /\ Produced(w, reads, x)
          /\ reads = OutputReads(StepOf(w))
          /\ x = OwnExt(w) \/ StepOf(w) \in ToolSteps \cup {"step1-plan"}
    <3>1. CASE CallProvider(w)
      <4>1. PICK c \in Completions : Produced(w, {}, c)
        BY <3>1 DEF CallProvider
      <4>2. {} = OutputReads(StepOf(w))
        BY <3>1 DEF CallProvider, OutputReads, OutputUses
      <4>3. QED
        BY <3>1, <4>1, <4>2 DEF CallProvider
    <3>2. CASE FireTool(w)
      BY <3>2 DEF FireTool
    <3>3. CASE ComputeStep(w)
      BY <3>3 DEF ComputeStep
    <3>4. QED
      BY <1>6, <3>1, <3>2, <3>3
  <2>2. at[w].pc = "produce"
    BY <1>6 DEF CallProvider, FireTool, ComputeStep
  <2>3. /\ at'[w].pc = "insert" /\ at'[w].run = r /\ at'[w].seq = at[w].seq
        /\ at'[w].val.ext = x
        /\ \A j \in reads : \E y \in at'[w].val.folds : y.seq = j
        /\ \A v \in Workers : v # w => at'[v] = at[v]
    BY <1>1, <1>3, <2>1, <2>2, Producing
  <2>4. StepOf(w)' = StepOf(w)
    BY <1>3, <1>4, <2>3 DEF StepOf, Steps
  <2>5. StepOf(w) \in {"step3-summarize", "step5-summarize"} => x = invocation[r].prompt
    BY <1>3, <2>1 DEF OwnExt, ToolSteps
  <2>6. StepOf(w) = "hitl-input" => promise[r] # Nil /\ x = promise[r]
    BY <1>3, <2>1, <2>2 DEF OwnExt, ToolSteps, AttemptMade
  <2>7. PICK step, out : step = StepOf(w) /\ out = at'[w].val
    OBVIOUS
  <2>8. MadeOf(r, step, out)'
    BY <1>4, <2>1, <2>3, <2>5, <2>6, <2>7 DEF MadeOf
  <2>9. QED
    BY <2>3, <2>4, <2>7, <2>8 DEF AttemptMade
<1>7. CASE BeginHandler(w) \/ ReplayStep(w) \/ JournalStep(w) \/ CommitStep(w)
  <2>1. /\ at'[w].pc \notin {"produce", "insert"}
        /\ \A v \in Workers : v # w => at'[v] = at[v]
    BY <1>1, <1>2, <1>7
       DEF BeginHandler, ReplayStep, JournalStep, CommitStep, WorkflowTypeOK, Attempt
  <2>2. QED
    BY <2>1 DEF AttemptMade
<1>8. CASE LoseInsert(w) \/ Finish(w) \/ Suspend(w) \/ Fenced(w)
  <2>1. EndAttempt(w)
    BY <1>8 DEF LoseInsert, Finish, Suspend, Fenced
  <2>2. /\ at'[w].pc = "idle"
        /\ \A v \in Workers : v # w => at'[v] = at[v]
    BY <1>1, <2>1 DEF EndAttempt, WorkflowTypeOK, Idle
  <2>3. QED
    BY <2>2 DEF AttemptMade
<1>9. QED
  BY <1>5, <1>6, <1>7, <1>8 DEF HandlerStep, RecordStep

(* A step of the journal that was not there is an attempt's or a copy.     *)
LEMMA NewRows ==
  ASSUME GatesIInv, [GatesNext]_gatesVars, NEW e \in stepJournal', e \notin stepJournal
  PROVE  \/ e.seededFrom # Nil
         \/ \E w \in Workers : Attempting(w) /\ JournalStep(w) /\ e = AttemptRow(w)
<1>1. WorkflowIInv /\ GateAt
  BY GatesParts
<1>2. CASE SeedRun
  <2>1. PICK r, s, n : Seeding(r, s, n, r)
    BY <1>1, <1>2, SeedRunForks
  <2>2. /\ s \in Runs /\ stepJournal' = stepJournal \cup Copies(r, s, n)
    BY <1>1, <2>1, SeedFacts
  <2>3. e \in Copies(r, s, n)
    BY <2>2
  <2>4. e.seededFrom = s
    BY <1>1, <2>1, <2>3, CopyFacts
  <2>5. QED
    BY <2>2, <2>4, NilAssumption
<1>3. CASE \E w \in Workers : Attempting(w)
  <2>1. PICK w \in Workers : Attempting(w)
    BY <1>3
  <2>2. JournalStep(w)
    BY <2>1 DEF Attempting, HandlerStep, RecordStep, BeginHandler, ReplayStep, MissStep,
                CallProvider, FireTool, ComputeStep, LoseInsert, CommitStep, Finish,
                Suspend, Fenced, tableVars, journalVars
  <2>3. QED
    BY <2>1, <2>2 DEF JournalStep, InsertStep
<1>4. QED
  BY <1>2, <1>3, WhatChanges DEF tableVars

(* Between two steps of its own an attempt stands still or is given up.    *)
LEMMA OthersStand ==
  ASSUME GatesIInv, [GatesNext]_gatesVars, NEW v \in Workers, ~Attempting(v)
  PROVE  at'[v] = at[v] \/ at'[v].pc \notin {"produce", "insert"}
<1>1. WorkflowIInv /\ WorkflowTypeOK
  BY GatesParts
<1>2. CASE StartService \/ KillService \/ \E w \in Workers : CrashAtPoint(w)
  BY <1>2 DEF StartService, KillService, CrashAtPoint, KillProc, Idle
<1>3. CASE SubmitRun \/ SeedRun \/ InputStep
  BY <1>3 DEF SubmitRun, Invoke, workflowVars, SeedRun, InputStep, PeekInput, ResolveInput,
              AnswerInput, ResolvePromise, forkVars
<1>4. CASE SendInput \/ Read \/ EndWait \/ CheckNow \/ FetchTimesOut \/ UNCHANGED gatesVars
  BY <1>4 DEF SendInput, Read, EndWait, CheckNow, FetchTimesOut, gatesVars, forkVars
<1>5. ASSUME NEW w \in Workers, Attempting(w)
      PROVE  at'[v] = at[v] \/ at'[v].pc \notin {"produce", "insert"}
  <2>1. v # w /\ HandlerStep(w) /\ AttemptMade(w) /\ Persists
    BY <1>5, GatesKeep DEF Attempting, GatesIInv, OutputsAreMade, AttemptMade
  <2>2. QED
    BY <1>1, <2>1, HandlerMakes
<1>6. ASSUME NEW w \in Workers, NEW r \in Runs, StartRun(w, r)
      PROVE  at'[v] = at[v] \/ at'[v].pc \notin {"produce", "insert"}
  BY <1>1, <1>6 DEF StartRun, StartAttempt, WorkflowTypeOK
<1>7. CASE \E r \in Runs : LoseConnection(r) /\ UNCHANGED <<fork, gateVars>>
  BY <1>7 DEF LoseConnection
<1>8. QED
  BY <1>2, <1>3, <1>4, <1>5, <1>6, <1>7 DEF GatesNext, GateStep

LEMMA OutputsStayMade ==
  ASSUME GatesIInv, [GatesNext]_gatesVars
  PROVE  OutputsAreMade'
<1>1. /\ WorkflowIInv /\ WorkflowTypeOK /\ RowsInv /\ Persists
      /\ \A w \in Workers : AttemptMade(w)
      /\ \A e \in stepJournal : e.seededFrom = Nil => MadeOf(e.run, e.step, e.output)
  BY GatesParts, GatesKeep DEF GatesIInv, OutputsAreMade, AttemptMade
<1>2. ASSUME NEW e \in stepJournal', e.seededFrom = Nil
      PROVE  MadeOf(e.run, e.step, e.output)'
  <2>1. CASE e \in stepJournal
    <3>1. e.run \in Runs /\ invocation[e.run] # Nil
      BY <1>1, <1>2, <2>1
         DEF WorkflowTypeOK, JournalTypeOK, StepRow, RowsInv, OwnStepsAreTheWorkflows
    <3>2. QED
      BY <1>1, <1>2, <2>1, <3>1, MadeStands
  <2>2. CASE e \notin stepJournal
    <3>1. PICK w \in Workers : JournalStep(w) /\ e = AttemptRow(w)
      BY <1>2, <2>2, NewRows
    <3>2. /\ e.run = at[w].run /\ e.step = StepOf(w) /\ e.output = at[w].val
          /\ at[w].pc = "insert"
      BY <3>1 DEF AttemptRow, NativeRow, JournalStep
    <3>3. e.run \in Runs /\ invocation[e.run] # Nil
      BY <1>1, <3>2, StepFacts DEF WorkflowIInv, AttemptsOK
    <3>4. MadeOf(e.run, e.step, e.output)
      BY <1>1, <3>2 DEF AttemptMade
    <3>5. QED
      BY <1>1, <3>3, <3>4, MadeStands
  <2>3. QED
    BY <2>1, <2>2
<1>3. ASSUME NEW w \in Workers PROVE AttemptMade(w)'
  <2>1. CASE Attempting(w)
    BY <1>1, <2>1, HandlerMakes DEF Attempting
  <2>2. CASE ~Attempting(w)
    BY <1>1, <2>2, OthersStand, AttemptMadeStands
  <2>3. QED
    BY <2>1, <2>2
<1>4. QED
  BY <1>2, <1>3 DEF OutputsAreMade, AttemptMade

-----------------------------------------------------------------------------
(* What was fired, and what was returned.                                  *)

LEMMA EffectsStillFollow ==
  ASSUME GatesIInv, [GatesNext]_gatesVars
  PROVE  EffectsFollowInputs'
<1>1. /\ WorkflowIInv /\ WorkflowTypeOK /\ EffectRows /\ EngineAgreesWithJournal
      /\ Persists /\ EffectsFollowInputs
  BY GatesParts, GatesKeep DEF GatesIInv, WorkflowIInv
<1>2. SUFFICES ASSUME NEW f \in effectLog', invocation'[f.run].wf = "HitlAgentRun"
               PROVE  HasEntry(f.run, 3)'
  BY DEF EffectsFollowInputs
<1>3. CASE f \in effectLog
  <2>1. f.run \in Runs /\ invocation[f.run] # Nil
    BY <1>1, <1>3 DEF EffectRows, WorkflowTypeOK, JournalTypeOK, EffectRow
  <2>2. HasEntry(f.run, 3)
    BY <1>1, <1>2, <1>3, <2>1 DEF Persists, EffectsFollowInputs
  <2>3. QED
    BY <1>1, <2>2 DEF Persists, HasEntry
<1>4. CASE f \notin effectLog
  <2>1. PICK w \in Workers : Attempting(w)
    BY <1>4, WhatChanges DEF SeedRun, effectVars, tableVars
  <2>2. FireTool(w)
    BY <1>4, <2>1 DEF Attempting, HandlerStep, RecordStep, BeginHandler, ReplayStep, MissStep,
                      CallProvider, ComputeStep, JournalStep, LoseInsert, CommitStep, Finish,
                      Suspend, Fenced, tableVars, effectVars
  <2>3. PICK r, k : r = at[w].run /\ k = at[w].seq
    OBVIOUS
  <2>4. f.run = r
    BY <1>4, <2>2, <2>3 DEF FireTool, fireEffect, effectVars
  <2>5. /\ r \in Runs /\ k \in Seqs /\ k <= Len(Steps(r)) /\ invocation[r] # Nil
        /\ k <= Len(engine[r]) + 1
    BY <1>1, <2>2, <2>3, StepFacts
       DEF FireTool, WorkflowIInv, AttemptsOK, AttemptOK
  <2>6. invocation[r].wf = "HitlAgentRun"
    BY <1>1, <1>2, <2>4, <2>5 DEF Persists
  <2>7. Steps(r)[k] \in ToolSteps
    BY <2>2, <2>3 DEF FireTool, StepOf
  <2>8. k = 4
    BY <2>5, <2>6, <2>7 DEF Steps, StepsOf, HitlSteps, ToolSteps, Seqs, MaxSeq
  <2>9. Len(engine[r]) \in Nat
    BY <1>1, <2>5 DEF WorkflowTypeOK
  <2>10. 3 \in 1 .. Len(engine[r])
    BY <2>5, <2>8, <2>9
  <2>11. HasEntry(r, 3)
    BY <1>1, <2>5, <2>10 DEF EngineAgreesWithJournal, Recorded, HasEntry
  <2>12. QED
    BY <1>1, <2>4, <2>11 DEF Persists, HasEntry
<1>5. QED
  BY <1>3, <1>4

(* An attempt completes its run with all its steps.                        *)
LEMMA ResultsStayWhole ==
  ASSUME GatesIInv, [GatesNext]_gatesVars
  PROVE  ResultsAreWhole'
<1>1. /\ WorkflowIInv /\ WorkflowTypeOK /\ EnginePosition /\ OwnerPosition
      /\ Persists /\ ResultsAreWhole
  BY GatesParts, GatesKeep DEF GatesIInv, WorkflowIInv
<1>2. SUFFICES ASSUME NEW r \in Runs, result'[r] # Nil
               PROVE  invocation'[r] # Nil /\ Len(result'[r]) = Len(Steps(r)')
  BY DEF ResultsAreWhole, Steps
<1>3. SUFFICES /\ invocation[r] # Nil
               /\ Len(result'[r]) = Len(Steps(r))
  BY <1>1 DEF Persists, Steps
<1>4. CASE result'[r] = result[r]
  BY <1>1, <1>2, <1>4 DEF ResultsAreWhole
<1>5. CASE result'[r] # result[r]
  <2>1. PICK w \in Workers : Attempting(w)
    BY <1>5, WhatChanges
  <2>2. Finish(w)
    BY <1>5, <2>1 DEF Attempting, HandlerStep, RecordStep, BeginHandler, ReplayStep, MissStep,
                      CallProvider, FireTool, ComputeStep, JournalStep, LoseInsert, CommitStep,
                      Suspend, Fenced, engineVars
  <2>3. r = at[w].run /\ result'[r] = engine[r]
    BY <1>1, <1>5, <2>2 DEF Finish, WorkflowTypeOK
  <2>4. owner[r] = w /\ at[w].seq = Len(engine[r]) + 1
    BY <1>1, <2>2, <2>3, WorkflowAssumption DEF Finish, OwnerPosition
  <2>5. invocation[r] # Nil /\ ~(at[w].seq <= Len(Steps(r)))
    BY <1>1, <2>2, <2>3 DEF Finish, HasStep, WorkflowIInv, AttemptsOK, AttemptOK
  <2>6. /\ Len(engine[r]) \in Nat
        /\ engine[r] # <<>> => Len(engine[r]) <= Len(Steps(r))
        /\ engine[r] = <<>> => Len(engine[r]) = 0
    BY <1>1 DEF WorkflowTypeOK, EnginePosition
  <2>7. Len(Steps(r)) \in Nat /\ 3 <= Len(Steps(r))
    BY <1>1, <2>5, InvocationTyped
  <2>8. Len(engine[r]) = Len(Steps(r))
    BY <2>4, <2>5, <2>6, <2>7
  <2>9. QED
    BY <2>3, <2>5, <2>8
<1>6. QED
  BY <1>4, <1>5

-----------------------------------------------------------------------------
(* The service.                                                            *)

LEMMA StartedStays ==
  ASSUME GatesIInv, [GatesNext]_gatesVars, ~StartService, ~KillService
  PROVE  \A i : Started(i)' <=> Started(i)
<1>1. line \in Nat \ {0} /\ Commands' = Commands /\ (line' = line \/ line' = line + 1)
  BY EarlierGrows, GateMoves DEF Moving, GatesIInv, GatesTypeOK
<1>2. line' = line + 1 => Commands[line].do \notin {"start", "kill"}
  <2>1. SUFFICES ASSUME line' = line + 1 PROVE Commands[line].do \notin {"start", "kill"}
    OBVIOUS
  <2>2. Moving
    BY <1>1, <2>1, GateMoves
  <2>3. Command.do \notin {"start", "kill"}
    BY <2>2 DEF Moving, GateMove, SubmitRun, SeedRun, SendInput, Read, EndWait, Waited,
                CheckNow, At
  <2>4. QED
    BY <2>2, <2>3, GatesParts DEF Moving
<1>3. ASSUME NEW i PROVE Started(i)' <=> Started(i)
  BY <1>1, <1>2 DEF Started, Earlier
<1>4. QED
  BY <1>3

LEMMA StartServiceStarts ==
  ASSUME GatesIInv, [GatesNext]_gatesVars, StartService
  PROVE  /\ line \in Earlier' /\ Commands' = Commands /\ Commands[line] = Command
         /\ Command.do = "start"
         /\ \A i : Started(i)' <=> i = line
<1>1. Moving /\ Command.do = "start" /\ line' = line + 1
  BY DEF StartService, Moving, GateMove, At, GoOn
<1>2. /\ line \in Nat \ {0} /\ Commands' = Commands /\ line \in Earlier'
      /\ Commands[line] = Command
  BY <1>1, EarlierGrows, GatesParts DEF Moving, GatesIInv, GatesTypeOK
<1>3. ASSUME NEW i, i = line PROVE Started(i)'
  BY <1>1, <1>2, <1>3 DEF Started
<1>4. ASSUME NEW i, Started(i)' PROVE i = line
  BY <1>1, <1>2, <1>4 DEF Started, Earlier
<1>5. QED
  BY <1>1, <1>2, <1>3, <1>4

LEMMA KillServiceEnds ==
  ASSUME GatesIInv, [GatesNext]_gatesVars, KillService
  PROVE  \A i : ~Started(i)'
<1>1. Moving /\ Command.do = "kill" /\ line' = line + 1
  BY DEF KillService, Moving, GateMove, At, GoOn
<1>2. line \in Nat \ {0} /\ Commands' = Commands /\ Commands[line] = Command
  BY <1>1, EarlierGrows, GatesParts DEF Moving, GatesIInv, GatesTypeOK
<1>3. ASSUME NEW i, Started(i)' PROVE FALSE
  BY <1>1, <1>2, <1>3 DEF Started, Earlier
<1>4. QED
  BY <1>3

(* Who touches the service and the attempts.                               *)
LEMMA ServiceChanges ==
  ASSUME [GatesNext]_gatesVars, ~StartService, ~KillService,
         ~\E w \in Workers : CrashAtPoint(w)
  PROVE  /\ UNCHANGED service
         /\ \/ UNCHANGED at
            \/ \E w \in Workers : Attempting(w)
            \/ \E w \in Workers, r \in Runs : StartRun(w, r)
<1>1. CASE SubmitRun \/ SeedRun \/ InputStep
  BY <1>1 DEF SubmitRun, Invoke, workflowVars, SeedRun, InputStep, PeekInput, ResolveInput,
              AnswerInput, ResolvePromise, forkVars
<1>2. CASE SendInput \/ Read \/ EndWait \/ CheckNow \/ FetchTimesOut \/ UNCHANGED gatesVars
  BY <1>2 DEF SendInput, Read, EndWait, CheckNow, FetchTimesOut, gatesVars, forkVars
<1>3. CASE \/ \E w \in Workers : Attempting(w)
           \/ \E w \in Workers, r \in Runs : StartRun(w, r)
           \/ \E r \in Runs : LoseConnection(r) /\ UNCHANGED <<fork, gateVars>>
  BY <1>3 DEF Attempting, StartRun, LoseConnection, gateVars
<1>4. QED
  BY <1>1, <1>2, <1>3 DEF GatesNext, GateStep

(* An attempt serves one run, and what it inserts it produced.             *)
LEMMA HandlerRuns ==
  ASSUME WorkflowTypeOK, NEW w \in Workers, HandlerStep(w)
  PROVE  /\ at[w].pc # "idle"
         /\ at'[w].pc = "idle" \/ at'[w].run = at[w].run
         /\ at'[w].pc = "insert" => at[w].pc = "produce" /\ at'[w].seq = at[w].seq
         /\ \A v \in Workers : v # w => at'[v] = at[v]
<1>1. at[w].pc # "idle"
  BY DEF HandlerStep, RecordStep, BeginHandler, ReplayStep, MissStep, CallProvider, FireTool,
         ComputeStep, JournalStep, LoseInsert, CommitStep, Finish, Suspend, Fenced
<1>2. at[w] \in Attempt
  BY <1>1, AttemptTyped
<1>3. CASE CallProvider(w) \/ FireTool(w) \/ ComputeStep(w)
  <2>1. at[w].pc = "produce" /\ \E reads, x : Produced(w, reads, x)
    BY <1>3 DEF CallProvider, FireTool, ComputeStep
  <2>2. QED
    BY <2>1, Producing
<1>4. CASE BeginHandler(w) \/ ReplayStep(w) \/ MissStep(w) \/ JournalStep(w) \/ CommitStep(w)
  BY <1>1, <1>2, <1>4
     DEF BeginHandler, ReplayStep, MissStep, JournalStep, CommitStep, WorkflowTypeOK, Attempt
<1>5. CASE LoseInsert(w) \/ Finish(w) \/ Suspend(w) \/ Fenced(w)
  <2>1. EndAttempt(w)
    BY <1>5 DEF LoseInsert, Finish, Suspend, Fenced
  <2>2. QED
    BY <1>1, <2>1 DEF EndAttempt, WorkflowTypeOK, Idle
<1>6. QED
  BY <1>3, <1>4, <1>5 DEF HandlerStep, RecordStep

LEMMA ServiceStaysStarted ==
  ASSUME GatesIInv, [GatesNext]_gatesVars
  PROVE  ServiceAsStarted'
<1>1. /\ WorkflowIInv /\ WorkflowTypeOK /\ ServiceAsStarted /\ CommandsDone /\ GatesTypeOK
      /\ line \in Nat \ {0} /\ Commands' = Commands /\ Earlier \subseteq Earlier'
  BY GatesParts, EarlierGrows DEF GatesIInv, GatesTypeOK
<1>2. CASE StartService
  <2>1. /\ service'.up /\ service'.provider = Command.provider
        /\ service'.point = Command.point
        /\ \A w \in Workers : at'[w].pc = "idle"
    BY <1>2 DEF StartService, KillProc, Idle
  <2>2. PICK k : k = line
    OBVIOUS
  <2>3. k \in Earlier' /\ Commands[k] = Command /\ Command.do = "start" /\ Started(k)'
    BY <1>2, <2>2, StartServiceStarts
  <2>4. QED
    BY <1>1, <2>1, <2>3 DEF ServiceAsStarted
<1>3. CASE KillService
  <2>1. /\ service'.up = FALSE /\ service'.point = service.point
        /\ \A w \in Workers : at'[w].pc = "idle"
    BY <1>1, <1>3 DEF KillService, KillProc, Idle, GatesTypeOK
  <2>2. QED
    BY <1>1, <1>3, <2>1, KillServiceEnds DEF ServiceAsStarted
<1>4. CASE ~StartService /\ ~KillService
  <2>1. \A i : Started(i)' <=> Started(i)
    BY <1>4, StartedStays
  <2>2. \A i \in Earlier' : Started(i) => i \in Earlier
    BY DEF Started
  <2>3. CASE \E w \in Workers : CrashAtPoint(w)
    <3>1. /\ service'.up = FALSE /\ service'.point = service.point /\ service.point # Nil
          /\ \A w \in Workers : at'[w].pc = "idle"
      BY <1>1, <2>3 DEF CrashAtPoint, Reaches, KillProc, Idle, GatesTypeOK
    <3>2. QED
      BY <1>1, <3>1 DEF ServiceAsStarted
  <2>4. CASE ~\E w \in Workers : CrashAtPoint(w)
    <3>1. service' = service
      BY <1>4, <2>4, ServiceChanges
    <3>2. ASSUME NEW w \in Workers, at'[w].pc # "idle"
          PROVE  /\ service.up
                 /\ \A i \in Earlier' : Started(i) =>
                      \A j \in 1 .. i - 1 : ~Awaits(j, at'[w].run)
      <4>1. CASE at[w].pc # "idle" /\ at'[w].run = at[w].run
        BY <1>1, <2>2, <4>1 DEF ServiceAsStarted
      <4>2. CASE \E r \in Runs : StartRun(w, r)
        <5>1. PICK r \in Runs : StartRun(w, r)
          BY <4>2
        <5>2. service.up /\ at'[w].run = r /\ result[r] = Nil
          BY <1>1, <5>1 DEF StartRun, StartAttempt, WorkflowTypeOK
        <5>3. \A j \in Earlier : ~Awaits(j, r)
          BY <1>1, <5>2 DEF CommandsDone, Done, Awaits
        <5>4. \A i \in Earlier : 1 .. i - 1 \subseteq Earlier
          BY <1>1 DEF Earlier
        <5>5. QED
          BY <2>2, <5>2, <5>3, <5>4
      <4>3. CASE UNCHANGED at
        BY <3>2, <4>1, <4>3
      <4>4. CASE \E v \in Workers : Attempting(v)
        <5>1. PICK v \in Workers : HandlerStep(v)
          BY <4>4 DEF Attempting
        <5>2. at[w].pc # "idle" /\ at'[w].run = at[w].run
          BY <1>1, <3>2, <5>1, HandlerRuns
        <5>3. QED
          BY <4>1, <5>2
      <4>5. CASE \E v \in Workers, r \in Runs : v # w /\ StartRun(v, r)
        <5>1. at'[w] = at[w]
          BY <1>1, <4>5 DEF StartRun, StartAttempt, WorkflowTypeOK
        <5>2. QED
          BY <3>2, <4>1, <5>1
      <4>6. QED
        BY <1>4, <2>4, <4>2, <4>3, <4>4, <4>5, ServiceChanges
    <3>3. service'.up => \E i \in Earlier' : Started(i)' /\ Commands[i].provider = service'.provider
      BY <1>1, <2>1, <3>1 DEF ServiceAsStarted
    <3>4. (~service'.up /\ service'.point = Nil) => \A i \in Earlier' : ~Started(i)'
      BY <1>1, <2>1, <2>2, <3>1 DEF ServiceAsStarted
    <3>5. service'.point # Nil =>
            \E i \in Earlier' : Commands[i].do = "start" /\ Commands[i].point = service'.point
      BY <1>1, <3>1 DEF ServiceAsStarted
    <3>6. \A w \in Workers : at'[w].pc # "idle" =>
            /\ service'.up
            /\ \A i \in Earlier' : Started(i)' =>
                 \A j \in 1 .. i - 1 : ~Awaits(j, at'[w].run)
      BY <2>1, <3>1, <3>2
    <3>7. \A j, r : Awaits(j, r)' <=> Awaits(j, r)
      BY <1>1 DEF Awaits
    <3>8. QED
      BY <1>1, <3>3, <3>4, <3>5, <3>6, <3>7 DEF ServiceAsStarted, Awaits
  <2>5. QED
    BY <2>3, <2>4
<1>5. QED
  BY <1>2, <1>3, <1>4

-----------------------------------------------------------------------------
(* Who planned a run.                                                      *)

LEMMA ProvidedStands ==
  ASSUME GatesIInv, [GatesNext]_gatesVars, NEW r, NEW p, Provided(r, p)
  PROVE  Provided(r, p)'
<1>1. Commands' = Commands /\ Earlier \subseteq Earlier'
  BY EarlierGrows
<1>2. PICK i \in Earlier, m \in Earlier :
        /\ Commands[i].do = "start" /\ Commands[i].provider = p
        /\ Commands[m].do = "submit" /\ Commands[m].run = r
        /\ \A j \in 1 .. i - 1 : ~Awaits(j, r)
        /\ \A j \in i + 1 .. m : Commands[j].do # "start"
  BY DEF Provided
<1>3. \A j \in 1 .. i - 1 : ~Awaits(j, r)'
  BY <1>1, <1>2 DEF Awaits
<1>4. QED
  BY <1>1, <1>2, <1>3 DEF Provided

(* The provider of the service an attempt runs in.                         *)
LEMMA ServedBy ==
  ASSUME GatesIInv, NEW w \in Workers, at[w].pc # "idle"
  PROVE  Provided(at[w].run, service.provider)
<1>1. /\ WorkflowIInv /\ WorkflowTypeOK /\ ServiceAsStarted /\ OnlyOnCommand
      /\ line \in Nat \ {0}
  BY GatesParts DEF GatesIInv, GatesTypeOK
<1>2. PICK r, p : r = at[w].run /\ p = service.provider
  OBVIOUS
<1>3. r \in Runs /\ DidTo(r, "submit")
  BY <1>1, <1>2, AttemptTyped DEF WorkflowIInv, AttemptsOK, AttemptOK, OnlyOnCommand
<1>4. PICK m \in Earlier : Commands[m].do = "submit" /\ Commands[m].run = r
  BY <1>3 DEF DidTo
<1>5. PICK i \in Earlier : Started(i) /\ Commands[i].provider = p
  BY <1>1, <1>2 DEF ServiceAsStarted
<1>6. \A j \in 1 .. i - 1 : ~Awaits(j, r)
  BY <1>1, <1>2, <1>5 DEF ServiceAsStarted
<1>7. \A j \in i + 1 .. m : Commands[j].do # "start"
  BY <1>1, <1>4, <1>5 DEF Started, Earlier
<1>8. QED
  BY <1>2, <1>4, <1>5, <1>6, <1>7 DEF Provided, Started

LEMMA PlansStayProvided ==
  ASSUME GatesIInv, [GatesNext]_gatesVars
  PROVE  PlansAreProvided'
<1>1. WorkflowIInv /\ WorkflowTypeOK /\ PlansAreProvided
  BY GatesParts DEF GatesIInv
<1>2. ASSUME NEW e \in stepJournal', e.seededFrom = Nil, e.seq = 1
      PROVE  Provided(e.run, e.output.ext)'
  <2>1. CASE e \in stepJournal
    BY <1>1, <1>2, <2>1, ProvidedStands DEF PlansAreProvided
  <2>2. CASE e \notin stepJournal
    <3>1. PICK w \in Workers : JournalStep(w) /\ e = AttemptRow(w)
      BY <1>2, <2>2, NewRows
    <3>2. /\ e.run = at[w].run /\ e.seq = at[w].seq /\ e.output = at[w].val
          /\ at[w].pc = "insert"
      BY <3>1 DEF AttemptRow, NativeRow, JournalStep
    <3>3. PICK r, p : r = e.run /\ p = e.output.ext
      OBVIOUS
    <3>4. Provided(r, p)
      BY <1>1, <1>2, <3>2, <3>3 DEF PlansAreProvided
    <3>5. QED
      BY <3>3, <3>4, ProvidedStands
  <2>3. QED
    BY <2>1, <2>2
<1>3. ASSUME NEW w \in Workers, at'[w].pc = "insert", at'[w].seq = 1
      PROVE  \E r, p : r = at'[w].run /\ p = at'[w].val.ext /\ Provided(r, p)
  <2>1. PICK r, p : r = at'[w].run /\ p = at'[w].val.ext
    OBVIOUS
  <2>2. CASE Attempting(w)
    <3>1. /\ at[w].pc = "produce" /\ at[w].seq = 1 /\ at'[w].run = at[w].run
      BY <1>1, <1>3, <2>2, HandlerRuns DEF Attempting
    <3>2. p = service.provider
      BY <2>1, <2>2, <3>1 DEF Attempting
    <3>3. QED
      BY <2>1, <3>1, <3>2, ServedBy
  <2>3. CASE ~Attempting(w)
    <3>1. at'[w] = at[w]
      BY <1>3, <2>3, OthersStand
    <3>2. QED
      BY <1>1, <1>3, <2>1, <3>1 DEF PlansAreProvided
  <2>4. QED
    BY <2>2, <2>3
<1>4. ASSUME NEW w \in Workers, at'[w].pc = "insert", at'[w].seq = 1
      PROVE  (Provided(at[w].run, at[w].val.ext))'
  <2>1. PICK r, p : r = at'[w].run /\ p = at'[w].val.ext /\ Provided(r, p)
    BY <1>3, <1>4
  <2>2. Provided(r, p)'
    BY <2>1, ProvidedStands
  <2>3. QED
    BY <2>1, <2>2 DEF Provided, Awaits
<1>5. QED
  BY <1>2, <1>4 DEF PlansAreProvided

-----------------------------------------------------------------------------
(* The inputs.                                                             *)

LEMMA MovingNoInput ==
  ASSUME GatesIInv, Moving
  PROVE  input = Nil
<1>1. SUFFICES ASSUME input # Nil PROVE FALSE
  OBVIOUS
<1>2. /\ line \in Nat \ {0} /\ line - 1 \in Earlier /\ Commands[line - 1].do = "input"
      /\ InputsAwaited(Commands) /\ Earlier \subseteq 1 .. Len(Commands)
      /\ Command = Commands[line]
  BY <1>1, GatesParts DEF GatesIInv, GatesTypeOK, InputsInOrder, WellFormed, Moving
<1>3. PICK i : i = line - 1
  OBVIOUS
<1>4. i \in 1 .. Len(Commands) /\ Commands[i].do = "input" /\ i + 1 = line
  BY <1>2, <1>3
<1>5. Commands[i + 1].do = "answered"
  BY <1>2, <1>4 DEF InputsAwaited
<1>6. Command.do = "answered"
  BY <1>2, <1>4, <1>5
<1>7. QED
  BY <1>1, <1>6 DEF Moving, GateMove, StartService, KillService, SubmitRun, SeedRun, SendInput,
                    Read, EndWait, Waited, CheckNow, At

(* The call that is under way.                                             *)
InputOK ==
  /\ line - 1 \in Earlier /\ Commands[line - 1].do = "input"
  /\ input.run = Commands[line - 1].run
  /\ input.decision = Commands[line - 1].decision
  /\ input.accepted => input.pc = "answer"
  /\ input.pc = "resolve" => promise[input.run] = Nil
  /\ input.pc = "answer" => /\ promise[input.run] # Nil
                            /\ input.accepted <=> answers = <<>>
  /\ (input.pc = "peek" /\ promise[input.run] # Nil) => answers # <<>>

InputsSeen ==
  \A i \in Earlier : Commands[i].do = "input" =>
    \/ input # Nil /\ i = line - 1
    \/ answers # <<>>

AnswersFit ==
  /\ answers = [i \in 1 .. Len(answers) |-> i = 1]
  /\ \A r \in Runs : promise[r] # Nil => promise[r] = "first"
  /\ answers # <<>> => promise[RootRun] # Nil
  /\ (input = Nil /\ promise[RootRun] # Nil) => answers # <<>>

LEMMA InputParts ==
  InputsInOrder <=> AnswersFit /\ InputsSeen /\ (input # Nil => InputOK)
BY DEF InputsInOrder, AnswersFit, InputsSeen, InputOK

LEMMA InputOfRoot ==
  ASSUME GatesIInv, input # Nil
  PROVE  /\ input.run = RootRun /\ RootRun \in Runs /\ input \in Inputs
         /\ input.decision = "first" \/ answers # <<>>
<1>1. /\ line \in Nat \ {0} /\ InputOK /\ InputsSeen /\ InputsAwaited(Commands)
      /\ Earlier \subseteq 1 .. Len(Commands) /\ input \in Inputs
  BY GatesParts, InputParts DEF GatesIInv, GatesTypeOK, WellFormed
<1>2. PICK i : i = line - 1
  OBVIOUS
<1>3. /\ i \in 1 .. Len(Commands) /\ i \in Earlier /\ Commands[i].do = "input"
      /\ input.run = Commands[i].run /\ input.decision = Commands[i].decision
  BY <1>1, <1>2 DEF InputOK
<1>4. /\ Commands[i].run = RootRun
      /\ Commands[i].decision = "first" \/ \E k \in 1 .. i - 1 : Commands[k].do = "input"
  BY <1>1, <1>3 DEF InputsAwaited
<1>5. ASSUME NEW k \in 1 .. i - 1, Commands[k].do = "input" PROVE answers # <<>>
  BY <1>1, <1>2, <1>3, <1>5 DEF InputsSeen, Earlier
<1>6. QED
  BY <1>1, <1>3, <1>4, <1>5, GatesAssumption

LEMMA InputsStayInOrder ==
  ASSUME GatesIInv, [GatesNext]_gatesVars
  PROVE  InputsInOrder'
<1>1. /\ WorkflowTypeOK /\ GatesTypeOK /\ line \in Nat \ {0} /\ WellTyped(Commands)
      /\ InputsAwaited(Commands)
      /\ AnswersFit /\ InputsSeen /\ (input # Nil => InputOK)
      /\ RootRun \in Runs
  BY GatesParts, InputParts, GatesAssumption DEF GatesIInv, GatesTypeOK, WellFormed
<1>2. CASE Moving /\ ~SendInput
  <2>1. input = Nil /\ UNCHANGED <<input, answers, promise>>
    BY <1>2, MovingNoInput
       DEF Moving, GateMove, StartService, KillService, KillProc, SubmitRun, Invoke, SeedRun,
           Read, EndWait, CheckNow, forkVars, workflowVars, engineVars
  <2>2. Command.do # "input" /\ Command = Commands[line]
    BY <1>2, GatesParts
       DEF Moving, GateMove, At, StartService, KillService, SubmitRun, SeedRun, Read, EndWait,
           Waited, CheckNow
  <2>3. InputsSeen'
    BY <1>1, <2>1, <2>2, EarlierGrows DEF InputsSeen
  <2>4. AnswersFit'
    BY <1>1, <2>1 DEF AnswersFit
  <2>5. QED
    BY <2>1, <2>3, <2>4, InputParts DEF InputsInOrder, AnswersFit, InputsSeen
<1>3. CASE SendInput
  <2>1. Moving /\ Command.do = "input" /\ line' = line + 1
        /\ UNCHANGED <<answers, promise>>
    BY <1>3 DEF SendInput, Moving, GateMove, At, GoOn, forkVars
  <2>2. input = Nil
    BY <2>1, MovingNoInput
  <2>3. PICK k : k = line
    OBVIOUS
  <2>4. /\ k \in 1 .. Len(Commands) /\ Commands[k] = Command /\ k \in Earlier'
        /\ Commands' = Commands /\ k = line' - 1
    BY <1>1, <2>1, <2>3, GatesParts, EarlierGrows DEF Moving
  <2>5. Command.run = RootRun /\ Command.decision \in {"first", "second"}
    BY <1>1, <2>1, <2>4 DEF InputsAwaited
  <2>6. /\ input' = [run |-> RootRun, decision |-> Command.decision,
                     pc |-> "peek", accepted |-> FALSE]
    BY <1>3, <2>5 DEF SendInput
  <2>7. input' \in Inputs /\ input' # Nil
    <3>1. PICK d : d = Command.decision
      OBVIOUS
    <3>2. d \in Decisions
      BY <2>5, <3>1, GatesAssumption
    <3>3. input' = [run |-> RootRun, decision |-> d, pc |-> "peek", accepted |-> FALSE]
      BY <2>6, <3>1
    <3>4. input' \in Inputs
      BY <1>1, <3>2, <3>3 DEF Inputs
    <3>5. QED
      BY <3>4, NilIsNoInput
  <2>8. InputsSeen'
    BY <1>1, <2>1, <2>2, <2>3, <2>4, <2>7, EarlierGrows DEF InputsSeen
  <2>9. AnswersFit'
    BY <1>1, <2>1, <2>7 DEF AnswersFit
  <2>10. InputOK'
    BY <1>1, <2>1, <2>2, <2>4, <2>5, <2>6 DEF InputOK, AnswersFit
  <2>11. QED
    BY <2>8, <2>9, <2>10 DEF InputsInOrder, AnswersFit, InputsSeen, InputOK
<1>4. CASE PeekInput
  <2>1. /\ input # Nil /\ input.pc = "peek"
        /\ input' = [input EXCEPT !.pc = IF promise[input.run] = Nil THEN "resolve" ELSE "answer"]
        /\ UNCHANGED <<gate, line, answers, promise>>
    BY <1>4 DEF PeekInput, InputAt, forkVars
  <2>2. /\ input \in Inputs /\ input.run = RootRun
    BY <2>1, InputOfRoot
  <2>3. /\ input' \in Inputs /\ input' # Nil
        /\ input'.run = input.run /\ input'.decision = input.decision
        /\ input'.accepted = input.accepted
        /\ input'.pc = IF promise[RootRun] = Nil THEN "resolve" ELSE "answer"
    BY <2>1, <2>2, NilIsNoInput DEF Inputs
  <2>4. Commands' = Commands /\ Earlier' = Earlier
    BY <2>1 DEF Commands, Earlier
  <2>5. InputsSeen' /\ AnswersFit'
    BY <1>1, <2>1, <2>3, <2>4 DEF InputsSeen, AnswersFit
  <2>6. input.accepted = FALSE
    BY <1>1, <2>1, <2>2 DEF InputOK, Inputs
  <2>7. InputOK'
    BY <1>1, <2>1, <2>2, <2>3, <2>4, <2>6 DEF InputOK
  <2>8. QED
    BY <2>5, <2>7 DEF InputsInOrder, AnswersFit, InputsSeen, InputOK
<1>5. CASE ResolveInput
  <2>1. /\ input # Nil /\ input.pc = "resolve"
        /\ input' = [input EXCEPT !.pc = "answer", !.accepted = TRUE]
        /\ promise' = [promise EXCEPT ![input.run] = input.decision]
        /\ UNCHANGED <<gate, line, answers>>
    BY <1>5 DEF ResolveInput, InputAt, ResolvePromise
  <2>2. /\ input \in Inputs /\ input.run = RootRun
        /\ input.decision = "first" \/ answers # <<>>
    BY <2>1, InputOfRoot
  <2>3. promise[RootRun] = Nil
    BY <1>1, <2>1, <2>2 DEF InputOK
  <2>4. answers = <<>> /\ input.decision = "first"
    BY <1>1, <2>2, <2>3 DEF AnswersFit
  <2>5. /\ input' \in Inputs /\ input' # Nil
        /\ input'.run = RootRun /\ input'.decision = input.decision
        /\ input'.accepted = TRUE /\ input'.pc = "answer"
    BY <2>1, <2>2, NilIsNoInput DEF Inputs
  <2>6. /\ promise'[RootRun] = "first"
        /\ \A r \in Runs : r # RootRun => promise'[r] = promise[r]
    BY <1>1, <2>1, <2>2, <2>4 DEF WorkflowTypeOK
  <2>7. "first" # Nil
    BY GatesAssumption, NilAssumption
  <2>8. Commands' = Commands /\ Earlier' = Earlier
    BY <2>1 DEF Commands, Earlier
  <2>9. InputsSeen'
    BY <1>1, <2>1, <2>5, <2>8 DEF InputsSeen
  <2>10. AnswersFit'
    BY <1>1, <2>1, <2>4, <2>5, <2>6 DEF AnswersFit
  <2>11. InputOK'
    BY <1>1, <2>1, <2>2, <2>4, <2>5, <2>6, <2>7, <2>8 DEF InputOK
  <2>12. QED
    BY <2>9, <2>10, <2>11 DEF InputsInOrder, AnswersFit, InputsSeen, InputOK
<1>6. CASE AnswerInput
  <2>1. /\ input # Nil /\ input.pc = "answer" /\ input' = Nil
        /\ answers' = Append(answers, input.accepted)
        /\ UNCHANGED <<gate, line, promise>>
    BY <1>6 DEF AnswerInput, InputAt, forkVars
  <2>2. input \in Inputs /\ input.run = RootRun
    BY <2>1, InputOfRoot
  <2>3. promise[RootRun] # Nil /\ (input.accepted <=> answers = <<>>)
    BY <1>1, <2>1, <2>2 DEF InputOK
  <2>4. PICK b \in BOOLEAN : b = input.accepted
    BY <2>2 DEF Inputs
  <2>5. answers \in Seq(BOOLEAN) /\ answers' = Append(answers, b)
    BY <1>1, <2>1, <2>4 DEF GatesTypeOK
  <2>6. /\ Len(answers') = Len(answers) + 1 /\ Len(answers) \in Nat /\ answers' # <<>>
        /\ answers' \in Seq(BOOLEAN)
        /\ answers'[Len(answers) + 1] = b
        /\ \A i \in 1 .. Len(answers) : answers'[i] = answers[i]
        /\ answers = <<>> <=> Len(answers) = 0
    BY <2>5
  <2>7. \A i \in 1 .. Len(answers) : answers[i] = (i = 1)
    BY <1>1 DEF AnswersFit
  <2>8. b <=> Len(answers) = 0
    BY <2>3, <2>4, <2>6
  <2>9. \A i \in 1 .. Len(answers') : answers'[i] = (i = 1)
    <3>1. SUFFICES ASSUME NEW i \in 1 .. Len(answers') PROVE answers'[i] = (i = 1)
      OBVIOUS
    <3>2. CASE i = Len(answers) + 1
      <4>1. b = (i = 1)
        BY <2>6, <2>8, <3>2
      <4>2. QED
        BY <2>6, <3>2, <4>1
    <3>3. CASE i # Len(answers) + 1
      BY <2>6, <2>7, <3>1, <3>3
    <3>4. QED
      BY <3>2, <3>3
  <2>10. answers' = [i \in 1 .. Len(answers') |-> i = 1]
    BY <2>6, <2>9
  <2>11. InputsSeen' /\ AnswersFit'
    BY <1>1, <2>1, <2>3, <2>6, <2>10 DEF InputsSeen, AnswersFit
  <2>12. QED
    BY <2>1, <2>11 DEF InputsInOrder, AnswersFit, InputsSeen, InputOK
<1>7. CASE FetchTimesOut \/ (Elsewhere /\ ~InputStep)
  <2>1. UNCHANGED <<gate, line, input, answers, promise>>
    <3>1. CASE FetchTimesOut \/ UNCHANGED gatesVars
      BY <3>1 DEF FetchTimesOut, forkVars, gatesVars
    <3>2. ASSUME NEW w \in Workers, Attempting(w) \/ CrashAtPoint(w)
          PROVE  UNCHANGED <<gate, line, input, answers, promise>>
      BY <3>2, HandlersKeepPromises DEF Attempting, CrashAtPoint, KillProc, gateVars
    <3>3. CASE \/ \E w \in Workers, r \in Runs : StartRun(w, r)
               \/ \E r \in Runs : LoseConnection(r) /\ UNCHANGED <<fork, gateVars>>
      BY <3>3 DEF StartRun, StartAttempt, LoseConnection, gateVars
    <3>4. QED
      BY <1>7, <3>1, <3>2, <3>3 DEF Elsewhere
  <2>2. Commands' = Commands /\ Earlier' = Earlier
    BY <2>1 DEF Commands, Earlier
  <2>3. InputsSeen' /\ AnswersFit' /\ (input' # Nil => InputOK')
    BY <1>1, <2>1, <2>2 DEF InputsSeen, AnswersFit, InputOK
  <2>4. QED
    BY <2>3 DEF InputsInOrder, AnswersFit, InputsSeen, InputOK
<1>8. GateMove => Moving
  BY DEF GateMove, Moving, At, GoOn, StartService, KillService, SubmitRun, SeedRun, SendInput,
         Read, EndWait, Waited, CheckNow
<1>9. QED
  BY <1>2, <1>3, <1>4, <1>5, <1>6, <1>7, <1>8, NextIs DEF InputStep

-----------------------------------------------------------------------------
(* What a gate read stands.                                                *)

(* A completed run has all its steps, with the outputs it returned.        *)
LEMMA WholeRun ==
  ASSUME WorkflowIInv, ResultsAreWhole, NEW r \in Runs, result[r] # Nil
  PROVE  /\ invocation[r] # Nil /\ invocation[r].wf \in Wfs
         /\ Len(result[r]) = Len(Steps(r)) /\ Len(Steps(r)) \in 3 .. 5
         /\ \A k \in 1 .. Len(Steps(r)) :
              \E e \in stepJournal : e.run = r /\ e.seq = k /\ e.output = result[r][k]
<1>1. WorkflowTypeOK /\ EngineAgreesWithJournal /\ result[r] = engine[r]
  BY DEF WorkflowIInv, ResultsFromEngine
<1>2. /\ invocation[r] # Nil /\ invocation[r].wf \in Wfs
      /\ Len(result[r]) = Len(Steps(r)) /\ Len(Steps(r)) \in 3 .. 5
  <2>1. invocation[r] # Nil /\ Len(result[r]) = Len(Steps(r))
    BY DEF ResultsAreWhole
  <2>2. PICK n : n = Len(Steps(r))
    OBVIOUS
  <2>3. invocation[r].wf \in Wfs /\ n \in Nat /\ 3 <= n /\ n <= 5
    BY <1>1, <2>1, <2>2, InvocationTyped
  <2>4. QED
    BY <2>1, <2>2, <2>3
<1>3. \A k \in 1 .. Len(Steps(r)) : Recorded(r, k, engine[r][k])
  BY <1>1, <1>2 DEF EngineAgreesWithJournal
<1>4. QED
  BY <1>1, <1>2, <1>3 DEF Recorded

(* An attempt that is left of a completed run changes no table.            *)
LEMMA QuietHandlers ==
  ASSUME WorkflowIInv, RowsInv, ResultsAreWhole, NEW w \in Workers, HandlerStep(w),
         result[at[w].run] # Nil
  PROVE  UNCHANGED tableVars
<1>1. /\ WorkflowTypeOK /\ AttemptOK(w) /\ GapFreeTrajectories /\ OneEffectPerRun /\ EffectRows
      /\ ProducersAreNative /\ OwnStepsAreTheWorkflows
  BY DEF WorkflowIInv, AttemptsOK, RowsInv
<1>2. PICK r, k : r = at[w].run /\ k = at[w].seq
  OBVIOUS
<1>3. r \in Runs
  BY <1>1, <1>2, AttemptTyped
     DEF HandlerStep, RecordStep, BeginHandler, ReplayStep, MissStep, CallProvider, FireTool,
         ComputeStep, JournalStep, LoseInsert, CommitStep, Finish, Suspend, Fenced
<1>4. /\ invocation[r] # Nil /\ invocation[r].wf \in Wfs /\ Len(Steps(r)) \in 3 .. 5
      /\ \A j \in 1 .. Len(Steps(r)) : HasEntry(r, j)
  BY <1>2, <1>3, WholeRun DEF HasEntry
<1>5. CASE BeginHandler(w)
  <2>1. runMeta[r] # Nil
    <3>1. PICK e \in stepJournal : e.run = r
      <4>1. PICK n : n = Len(Steps(r))
        OBVIOUS
      <4>2. n \in 3 .. 5
        BY <1>4, <4>1
      <4>3. 1 \in 1 .. Len(Steps(r))
        BY <4>1, <4>2
      <4>4. QED
        BY <1>4, <4>3 DEF HasEntry
    <3>2. QED
      BY <1>1, <3>1 DEF GapFreeTrajectories
  <2>2. QED
    BY <1>2, <1>5, <2>1 DEF BeginHandler, ensureRunMeta, effectVars, tableVars
<1>6. CASE JournalStep(w)
  <2>1. k \in 1 .. Len(Steps(r))
    BY <1>1, <1>2, <1>6, StepFacts DEF JournalStep, Seqs
  <2>2. PICK e \in stepJournal : e.run = r /\ e.seq = k
    BY <1>4, <2>1 DEF HasEntry
  <2>3. AttemptRow(w).run = r /\ AttemptRow(w).seq = k
    BY <1>2 DEF AttemptRow, NativeRow
  <2>4. QED
    BY <1>6, <2>2, <2>3 DEF JournalStep, InsertStep, Conflicts
<1>7. CASE FireTool(w)
  <2>1. /\ k \in 1 .. Len(Steps(r)) /\ k \in Seqs /\ Steps(r)[k] \in ToolSteps
        /\ at[w].pc = "produce"
    BY <1>1, <1>2, <1>7, StepFacts DEF FireTool, Seqs, StepOf
  <2>2. PICK e \in stepJournal : e.run = r /\ e.seq = k
    BY <1>4, <2>1 DEF HasEntry
  <2>3. k > 1
    BY <1>4, <2>1, StepPlaces
  <2>4. e.seededFrom = Nil
    BY <1>1, <1>2, <2>1, <2>2, <2>3 DEF ProducersAreNative, trajectory
  <2>5. e.step \in ToolSteps
    BY <1>1, <2>1, <2>2, <2>4 DEF OwnStepsAreTheWorkflows
  <2>6. PICK f \in effectLog : f.run = r
    BY <1>1, <2>2, <2>4, <2>5 DEF OneEffectPerRun, FiredAs
  <2>7. PICK j \in 1 .. Len(Steps(r)) :
          Steps(r)[j] \in ToolSteps /\ f.key = IdemKey(r, Steps(r)[j])
    BY <1>1, <2>6 DEF EffectRows
  <2>8. j = k
    BY <1>4, <2>1, <2>7, StepOrder DEF Steps
  <2>9. Fired(IdemKey(at[w].run, StepOf(w)))
    BY <1>2, <2>6, <2>7, <2>8 DEF Fired, StepOf
  <2>10. QED
    BY <1>7, <2>9 DEF FireTool, fireEffect, effectVars, journalVars, tableVars
<1>8. QED
  BY <1>5, <1>6, <1>7
     DEF HandlerStep, RecordStep, ReplayStep, MissStep, CallProvider, ComputeStep, LoseInsert,
         CommitStep, Finish, Suspend, Fenced, tableVars

LEMMA ReadsStillStand ==
  ASSUME GatesIInv, [GatesNext]_gatesVars
  PROVE  ReadsStand'
<1>1. /\ WorkflowIInv /\ WorkflowTypeOK /\ RowsInv /\ ResultsAreWhole /\ CommandsDone
      /\ OnlyOnCommand /\ ReadsStand /\ Persists
      /\ ReadsAtTheEnd(Commands) /\ Earlier \subseteq 1 .. Len(Commands)
      /\ line \in Nat \ {0} /\ Len(Commands) \in Nat
      /\ Commands' = Commands /\ Earlier' \subseteq Earlier \cup {line}
  BY GatesParts, GatesKeep, EarlierGrows DEF GatesIInv, WellFormed, GatesTypeOK
<1>2. SUFFICES ASSUME NEW i \in Earlier', Commands[i].do = "read"
               PROVE  /\ before' = LiveSource'
                      /\ \A r \in Runs : invocation'[r] # Nil => result'[r] # Nil
  BY <1>1 DEF ReadsStand
<1>3. CASE i \in Earlier
  <2>1. before = LiveSource /\ \A r \in Runs : invocation[r] # Nil => result[r] # Nil
    BY <1>1, <1>2, <1>3 DEF ReadsStand
  <2>2. ~SubmitRun /\ ~SeedRun
    <3>1. SUFFICES ASSUME SubmitRun \/ SeedRun PROVE FALSE
      OBVIOUS
    <3>2. verdict = "running" /\ Command.do \in {"submit", "seed"}
      BY <3>1 DEF SubmitRun, SeedRun, At
    <3>3. PICK k : k = line
      OBVIOUS
    <3>4. k \in 1 .. Len(Commands) /\ Commands[k].do \in {"submit", "seed"}
      BY <3>2, <3>3, GatesParts
    <3>5. k < i
      BY <1>1, <1>2, <1>3, <3>4 DEF ReadsAtTheEnd
    <3>6. QED
      BY <1>1, <1>3, <3>3, <3>5 DEF Earlier
  <2>3. UNCHANGED invocation
    BY <2>2, WhatChanges
  <2>4. UNCHANGED tableVars
    <3>1. ASSUME NEW w \in Workers, Attempting(w) PROVE UNCHANGED tableVars
      <4>1. HandlerStep(w) /\ at[w].pc # "idle"
        BY <1>1, <3>1, HandlerRuns DEF Attempting
      <4>2. at[w].run \in Runs /\ invocation[at[w].run] # Nil
        BY <1>1, <4>1, AttemptTyped DEF WorkflowIInv, AttemptsOK, AttemptOK
      <4>3. QED
        BY <1>1, <2>1, <4>1, <4>2, QuietHandlers
    <3>2. QED
      BY <2>2, <3>1, WhatChanges
  <2>5. LiveSource' = LiveSource
    BY <2>4 DEF LiveSource, tableVars
  <2>6. before' = before \/ before' = LiveSource
    BY NextIs, ElsewhereWaits
       DEF GateMove, StartService, KillService, SubmitRun, SeedRun, SendInput, Read, EndWait,
           CheckNow, FetchTimesOut
  <2>7. QED
    BY <1>1, <2>1, <2>3, <2>5, <2>6 DEF Persists
<1>4. CASE i \notin Earlier
  <2>1. i = line /\ Moving
    BY <1>1, <1>2, <1>4, EarlierGrows, GateMoves
  <2>2. i \in 1 .. Len(Commands) /\ Command = Commands[i]
    BY <2>1, GatesParts DEF Moving
  <2>3. Read
    BY <1>2, <2>1, <2>2
       DEF Moving, GateMove, At, StartService, KillService, SubmitRun, SeedRun, SendInput,
           EndWait, Waited, CheckNow
  <2>4. before' = LiveSource /\ UNCHANGED <<tableVars, invocation, result>>
    BY <2>3 DEF Read, forkVars, tableVars
  <2>5. LiveSource' = LiveSource
    BY <2>4 DEF LiveSource, tableVars
  <2>6. ASSUME NEW r \in Runs, invocation[r] # Nil PROVE result[r] # Nil
    <3>1. PICK j \in Earlier : Commands[j].do = "submit" /\ Commands[j].run = r
      BY <1>1, <2>6 DEF OnlyOnCommand, DidTo
    <3>2. PICK k \in 1 .. i - 1 : Commands[k].do = "await" /\ Commands[k].run = r
      BY <1>1, <1>2, <2>2, <3>1 DEF ReadsAtTheEnd
    <3>3. k \in Earlier
      BY <1>1, <2>1 DEF Earlier
    <3>4. QED
      BY <1>1, <3>2, <3>3 DEF CommandsDone, Done
  <2>7. QED
    BY <2>4, <2>5, <2>6
<1>5. QED
  BY <1>3, <1>4

-----------------------------------------------------------------------------
(* The harness error, and the start.                                       *)

LEMMA NoErrors ==
  ASSUME GatesIInv, [GatesNext]_gatesVars, verdict' = "error"
  PROVE  gate' = "crashDuringResume"
<1>1. /\ GatesPass /\ ServiceAsStarted /\ gate \in GatesRun /\ gate' = gate
      /\ line \in Nat \ {0} /\ Len(Commands) \in Nat
  BY GatesParts, GateMoves DEF GatesIInv, GatesTypeOK
<1>2. CASE verdict = "error"
  BY <1>1, <1>2 DEF GatesPass
<1>3. CASE verdict # "error"
  <2>1. FetchTimesOut
    BY <1>3, NextIs, ElsewhereWaits
       DEF GateMove, StartService, KillService, SubmitRun, SeedRun, SendInput, Read, EndWait,
           CheckNow, GoOn
  <2>2. verdict = "running" /\ Command.do = "answered" /\ input # Nil /\ ~service.up
    BY <2>1 DEF FetchTimesOut, At
  <2>3. SUFFICES ASSUME gate # "crashDuringResume" PROVE FALSE
    BY <1>1
  <2>4. Answerable(Commands)
    BY <1>1, <2>3, ScriptsAreWell DEF Commands
  <2>5. PICK i : i = line
    OBVIOUS
  <2>6. i \in 1 .. Len(Commands) /\ Commands[i].do = "answered"
    BY <2>2, <2>5, GatesParts
  <2>7. \A j \in 1 .. Len(Commands) : Commands[j].do = "start" => Commands[j].point = Nil
    BY <2>4, <2>6 DEF Answerable
  <2>8. PICK k \in 1 .. i - 1 :
          /\ Commands[k].do = "start"
          /\ \A j \in k + 1 .. i - 1 : Commands[j].do \notin {"start", "kill"}
    BY <2>4, <2>6 DEF Answerable
  <2>9. k \in Earlier /\ Started(k)
    BY <1>1, <2>5, <2>8 DEF Started, Earlier
  <2>10. service.point # Nil
    BY <1>1, <2>2, <2>9 DEF ServiceAsStarted
  <2>11. PICK j \in Earlier : Commands[j].do = "start" /\ Commands[j].point = service.point
    BY <1>1, <2>10 DEF ServiceAsStarted
  <2>12. QED
    BY <2>7, <2>10, <2>11, GatesParts
<1>4. QED
  BY <1>2, <1>3

LEMMA GatesInitInv == GatesInit => GatesIInv
<1>1. SUFFICES ASSUME GatesInit PROVE GatesIInv
  OBVIOUS
<1>2. /\ ForkIInv /\ gate \in GatesRun /\ line = 1 /\ input = Nil /\ answers = <<>>
      /\ service = [up |-> FALSE, provider |-> "fake-echo", point |-> Nil]
      /\ verdict = "running"
  BY <1>1, ForkInitInv DEF GatesInit
<1>3. Earlier = {}
  BY <1>2 DEF Earlier
<1>4. /\ stepJournal = {} /\ effectLog = {}
      /\ \A r \in Runs : /\ runMeta[r] = Nil /\ invocation[r] = Nil /\ promise[r] = Nil
                         /\ result[r] = Nil
      /\ \A w \in Workers : at[w].pc = "idle"
  BY <1>1 DEF GatesInit, ForkInit, WorkflowInit, JournalInit, Idle
<1>5. GatesTypeOK /\ GatesPass
  <2>1. WellTyped(Commands)
    BY <1>2, ScriptsAreWell DEF Commands, WellFormed
  <2>2. PICK n : n = Len(Commands)
    OBVIOUS
  <2>3. 1 <= n /\ n \in Nat
    BY <2>1, <2>2 DEF WellTyped
  <2>4. answers \in Seq(BOOLEAN)
    BY <1>2
  <2>5. QED
    BY <1>2, <2>2, <2>3, <2>4 DEF GatesTypeOK, GatesPass
<1>6. CommandsDone /\ OnlyOnCommand /\ ReadsStand
  BY <1>3, <1>4 DEF CommandsDone, OnlyOnCommand, ReadsStand, Parent, ForkPoint
<1>7. OutputsAreMade /\ EffectsFollowInputs /\ ResultsAreWhole /\ PlansAreProvided
  BY <1>4 DEF OutputsAreMade, EffectsFollowInputs, ResultsAreWhole, PlansAreProvided
<1>8. ServiceAsStarted
  BY <1>2, <1>3, <1>4 DEF ServiceAsStarted
<1>9. InputsInOrder
  <2>1. answers = [i \in 1 .. Len(answers) |-> i = 1]
    BY <1>2
  <2>2. RootRun \in Runs
    BY GatesAssumption
  <2>3. QED
    BY <1>2, <1>3, <1>4, <2>1, <2>2 DEF InputsInOrder
<1>10. QED
  BY <1>2, <1>5, <1>6, <1>7, <1>8, <1>9 DEF GatesIInv

-----------------------------------------------------------------------------
(* What a completed AgentRun looks like.                                   *)

Ran(r) == invocation[r] = [wf |-> "AgentRun", prompt |-> r] /\ result[r] # Nil

(* Its three steps, the first n of which it got from its parent.           *)
AgentShape(r, n) ==
  /\ \A k \in 1 .. 3 : \E e \in trajectory(r) : e.seq = k /\ e.output = result[r][k]
  /\ \A e \in trajectory(r) :
       /\ e.seq \in 1 .. 3
       /\ e.step = AgentSteps[e.seq]
       /\ e.seededFrom # Nil <=> e.seq <= n

LEMMA RanSteps ==
  ASSUME GatesIInv, NEW r \in Runs, Ran(r)
  PROVE  /\ Steps(r) = AgentSteps /\ Len(AgentSteps) = 3 /\ Len(result[r]) = 3
         /\ invocation[r] # Nil /\ invocation[r].wf = "AgentRun" /\ invocation[r].prompt = r
         /\ \A k \in 1 .. 3 : \E e \in trajectory(r) : e.seq = k /\ e.output = result[r][k]
<1>1. WorkflowIInv /\ ResultsAreWhole /\ result[r] # Nil
  BY GatesParts DEF GatesIInv, Ran
<1>2. /\ invocation[r].wf = "AgentRun" /\ invocation[r].prompt = r
  BY DEF Ran
<1>3. Steps(r) = AgentSteps /\ Len(AgentSteps) = 3
  BY <1>2 DEF Steps, StepsOf, AgentSteps
<1>4. /\ invocation[r] # Nil /\ Len(result[r]) = 3
      /\ \A k \in 1 .. 3 :
           \E e \in stepJournal : e.run = r /\ e.seq = k /\ e.output = result[r][k]
  BY <1>1, <1>3, WholeRun
<1>5. QED
  BY <1>2, <1>3, <1>4, NilAssumption DEF trajectory

LEMMA RootShape ==
  ASSUME GatesIInv, NEW r \in Runs, Ran(r), Parent(r) = Nil
  PROVE  AgentShape(r, 0)
<1>1. /\ ForksCopyTheirPrefix /\ OwnStepsAreTheWorkflows /\ stepJournal \subseteq StepRow
  BY GatesParts DEF RowsInv, WorkflowTypeOK, JournalTypeOK
<1>2. ASSUME NEW e \in trajectory(r)
      PROVE  /\ e.seq \in 1 .. 3 /\ e.step = AgentSteps[e.seq]
             /\ e.seededFrom = Nil /\ ~(e.seq <= 0)
  <2>1. e.seededFrom = Nil /\ e \in stepJournal /\ e.run = r
    BY <1>1 DEF ForksCopyTheirPrefix, trajectory
  <2>2. e.seq \in 1 .. 5
    BY <1>1, <2>1 DEF StepRow, Seqs, MaxSeq
  <2>3. e.seq <= Len(Steps(r)) /\ e.step = Steps(r)[e.seq]
    BY <1>1, <2>1 DEF OwnStepsAreTheWorkflows
  <2>4. QED
    BY <2>1, <2>2, <2>3, RanSteps
<1>3. QED
  BY <1>2, RanSteps DEF AgentShape

LEMMA ForkShape ==
  ASSUME GatesIInv, NEW r \in Runs, r \in Prompts, Ran(r),
         NEW s \in Runs, NEW m, AgentShape(s, m),
         NEW n \in {1, 2}, runMeta[r] = ForkMeta(s, n, r)
  PROVE  /\ AgentShape(r, n)
         /\ \A k \in 1 .. n : \E e \in trajectory(r), d \in trajectory(s) :
              e.seq = k /\ d.seq = k /\ e.output = d.output
<1>1. /\ ForksCopyTheirPrefix /\ OwnStepsAreTheWorkflows /\ stepJournal \subseteq StepRow
      /\ OneRowPerStep /\ WorkflowTypeOK
  BY GatesParts DEF RowsInv, WorkflowTypeOK, JournalTypeOK, WorkflowIInv
<1>2. Parent(r) = s /\ runMeta[r].forkedAt = n /\ s # Nil
  <2>1. runMeta[r] # Nil
    BY MetaIsRow DEF Seqs, MaxSeq
  <2>2. QED
    BY <2>1, NilAssumption DEF ForkMeta, Parent
<1>3. ASSUME NEW k \in 1 .. n
      PROVE  \E e \in trajectory(r), d \in trajectory(s) :
               /\ e.seq = k /\ d.seq = k /\ e.output = d.output /\ e.step = d.step
  <2>1. PICK e \in trajectory(r), d \in trajectory(s) : e.seq = k /\ e = SeededRow(d, r, s)
    BY <1>1, <1>2 DEF ForksCopyTheirPrefix
  <2>2. d \in StepRow
    BY <1>1 DEF trajectory
  <2>3. e.seq = d.seq /\ e.output = d.output /\ e.step = d.step
    BY <2>1, <2>2, CopyFields
  <2>4. QED
    BY <2>1, <2>3
<1>4. ASSUME NEW e \in trajectory(r)
      PROVE  /\ e.seq \in 1 .. 3 /\ e.step = AgentSteps[e.seq]
             /\ e.seededFrom # Nil <=> e.seq <= n
  <2>1. /\ e \in stepJournal /\ e.run = r /\ e.seq \in 1 .. 5
        /\ e.seededFrom # Nil <=> e.seq <= n
    BY <1>1, <1>2 DEF ForksCopyTheirPrefix, trajectory, StepRow, Seqs, MaxSeq
  <2>2. CASE e.seq <= n
    <3>1. e.seq \in 1 .. n
      BY <2>1, <2>2
    <3>2. PICK c \in trajectory(r), d \in trajectory(s) :
            c.seq = e.seq /\ d.seq = e.seq /\ c.step = d.step
      BY <1>3, <3>1
    <3>3. c = e
      BY <1>1, <2>1, <3>2 DEF OneRowPerStep, trajectory
    <3>4. QED
      BY <2>1, <3>2, <3>3 DEF AgentShape
  <2>3. CASE ~(e.seq <= n)
    <3>1. e.seq <= Len(Steps(r)) /\ e.step = Steps(r)[e.seq]
      BY <1>1, <2>1, <2>3 DEF OwnStepsAreTheWorkflows
    <3>2. QED
      BY <2>1, <3>1, RanSteps
  <2>4. QED
    BY <2>2, <2>3
<1>5. QED
  BY <1>3, <1>4, RanSteps DEF AgentShape

(* The output of a step.                                                   *)
LEMMA OutputOf ==
  ASSUME WorkflowIInv, NEW r, NEW e \in trajectory(r)
  PROVE  OutputAt(LiveSource, r, e.seq) = e.output
<1>1. \A d \in trajectory(r) : d.seq = e.seq => d = e
  BY DEF WorkflowIInv, OneRowPerStep, trajectory
<1>2. (CHOOSE d \in trajectory(r) : d.seq = e.seq) = e
  BY <1>1
<1>3. QED
  BY <1>2, LiveSteps DEF OutputAt

LEMMA ShapeComplete ==
  ASSUME GatesIInv, NEW r \in Runs, Ran(r), NEW n, AgentShape(r, n)
  PROVE  /\ Complete(r) /\ StepsJournaled(r) = AllSteps("AgentRun")
         /\ SeqsOf(LiveSource, r) = 1 .. 3 /\ LastSeq(trajectory(r)) = 3
         /\ Answer(r) = OutputAt(LiveSource, r, 3)
         /\ \A k \in 1 .. 3 : \E e \in trajectory(r) :
              e.seq = k /\ OutputAt(LiveSource, r, k) = e.output
<1>1. WorkflowIInv
  BY GatesParts
<1>2. StepsJournaled(r) = AllSteps("AgentRun")
  <2>1. AllSteps("AgentRun") = {AgentSteps[k] : k \in 1 .. 3}
    BY DEF AllSteps, StepsOf, AgentSteps
  <2>2. QED
    BY <2>1 DEF StepsJournaled, AgentShape
<1>3. SeqsOf(LiveSource, r) = 1 .. 3
  BY LiveSteps DEF SeqsOf, AgentShape
<1>4. LastSeq(trajectory(r)) = 3
  <2>1. PICK m : m = LastSeq(trajectory(r))
    OBVIOUS
  <2>2. m \in 0 .. 5 /\ 1 .. m = 1 .. 3
    BY <1>1, <1>3, <2>1, StepsAreNumbered DEF MaxSeq
  <2>3. \A x \in 1 .. m : x \in 1 .. 3
    BY <2>2
  <2>4. \A x \in 1 .. 3 : x \in 1 .. m
    BY <2>2
  <2>5. 3 <= m
    BY <2>2, <2>4
  <2>6. m <= 3
    BY <2>2, <2>3, <2>5
  <2>7. QED
    BY <2>1, <2>2, <2>5, <2>6
<1>5. \A k \in 1 .. 3 : \E e \in trajectory(r) :
        e.seq = k /\ e.output = result[r][k] /\ OutputAt(LiveSource, r, k) = e.output
  BY <1>1, OutputOf DEF AgentShape
<1>6. Answer(r) = result[r][3]
  BY RanSteps DEF Answer
<1>7. QED
  BY <1>2, <1>3, <1>4, <1>5, <1>6 DEF Complete

(* A summary names the decision the run was submitted with.                *)
LEMMA ShapeAnswer ==
  ASSUME GatesIInv, NEW r \in Runs, Ran(r), NEW n \in {0, 1, 2}, AgentShape(r, n)
  PROVE  Answer(r).ext = r
<1>1. PICK e \in trajectory(r) : e.seq = 3 /\ e.output = result[r][3]
  BY DEF AgentShape
<1>2. e.step = "step3-summarize" /\ e.seededFrom = Nil
  BY <1>1 DEF AgentShape, AgentSteps
<1>3. MadeOf(r, e.step, e.output)
  BY <1>2 DEF GatesIInv, OutputsAreMade, trajectory
<1>4. e.output.ext = r
  BY <1>2, <1>3, RanSteps DEF MadeOf
<1>5. QED
  BY <1>1, <1>4, RanSteps DEF Answer

(* The tool step fires for the run that executes it.                       *)
LEMMA ShapeEffects ==
  ASSUME GatesIInv, NEW r \in Runs, Ran(r), NEW n \in {0, 1, 2}, AgentShape(r, n)
  PROVE  /\ n \in {0, 1} => \E f \in effectLog :
              effectsFor(r) = {f} /\ EffectStep(f) = "step2-tool_call"
         /\ n \in {0, 1} => Effects(r, 1)
         /\ n = 2 => effectsFor(r) = {} /\ Effects(r, 0)
<1>1. /\ OneEffectPerRun /\ EffectRows /\ SeededStepsNeverFire
  BY GatesParts DEF WorkflowIInv, RowsInv
<1>2. PICK e \in trajectory(r) : e.seq = 2
  BY DEF AgentShape
<1>3. e.step = "step2-tool_call" /\ (e.seededFrom # Nil <=> n = 2)
  BY <1>2 DEF AgentShape, AgentSteps
<1>4. ASSUME NEW f \in effectsFor(r)
      PROVE  f.key = IdemKey(r, "step2-tool_call") /\ EffectStep(f) = "step2-tool_call"
  <2>1. f \in effectLog /\ f.run = r
    BY DEF effectsFor
  <2>2. PICK k \in 1 .. Len(Steps(r)) :
          Steps(r)[k] \in ToolSteps /\ f.key = IdemKey(r, Steps(r)[k])
    BY <1>1, <2>1 DEF EffectRows
  <2>3. Steps(r)[k] = "step2-tool_call"
    BY <2>2, RanSteps DEF AgentSteps, ToolSteps
  <2>4. QED
    BY <2>2, <2>3 DEF EffectStep, IdemKey
<1>5. CASE n \in {0, 1}
  <2>1. FiredAs(r, e.output.ext)
    BY <1>1, <1>3, <1>5 DEF OneEffectPerRun, ToolSteps, trajectory
  <2>2. PICK f \in effectLog : f.run = r
    BY <2>1 DEF FiredAs
  <2>3. effectsFor(r) = {f}
    BY <1>1, <2>2 DEF OneEffectPerRun, effectsFor
  <2>4. EffectStep(f) = "step2-tool_call"
    BY <1>4, <2>3
  <2>5. {g \in effectsFor(r) : EffectStep(g) = "step2-tool_call"} = {f}
    BY <2>3, <2>4
  <2>6. Effects(r, 1)
    BY <2>5, FS_Singleton DEF Effects, countEffects
  <2>7. QED
    BY <1>5, <2>3, <2>4, <2>6
<1>6. CASE n = 2
  <2>1. ~Fired(IdemKey(r, "step2-tool_call"))
    BY <1>1, <1>3, <1>6 DEF SeededStepsNeverFire, trajectory
  <2>2. effectsFor(r) = {}
    BY <1>4, <2>1 DEF Fired, effectsFor
  <2>3. Effects(r, 0)
    BY <2>2, FS_EmptySet DEF Effects, countEffects
  <2>4. QED
    BY <1>6, <2>2, <2>3
<1>7. QED
  BY <1>5, <1>6

-----------------------------------------------------------------------------
(* The checks of the gates that run AgentRun.                              *)

LEMMA RunNames ==
  /\ RootRun \in Runs /\ ForkA \in Runs /\ ForkB \in Runs /\ SubFork \in Runs
  /\ RootRun \in Prompts /\ ForkA \in Prompts /\ ForkB \in Prompts /\ SubFork \in Prompts
  /\ RootRun # Nil /\ ForkA # Nil /\ ForkB # Nil /\ SubFork # Nil
  /\ RootRun # ForkA /\ RootRun # ForkB /\ RootRun # SubFork
  /\ ForkA # ForkB /\ ForkA # SubFork /\ ForkB # SubFork
<1>1. /\ RootRun \in Runs /\ ForkA \in Runs /\ ForkB \in Runs /\ SubFork \in Runs
      /\ RootRun \in Prompts /\ ForkA \in Prompts /\ ForkB \in Prompts /\ SubFork \in Prompts
  BY GatesAssumption
<1>2. QED
  BY <1>1, NilAssumption DEF RootRun, ForkA, ForkB, SubFork

(* A run that was executed, and one that was forked and executed.          *)
IsRoot(r) == Ran(r) /\ Parent(r) = Nil

IsFork(r, s, n) == Ran(r) /\ runMeta[r] = ForkMeta(s, n, r)

LEMMA ForkIsFork ==
  ASSUME NEW r \in Runs, r \in Prompts, NEW s \in Runs, NEW n \in {1, 2},
         runMeta[r] = ForkMeta(s, n, r)
  PROVE  /\ runMeta[r] # Nil /\ Parent(r) = s /\ Parent(r) # Nil
         /\ runMeta[r].parent = s /\ runMeta[r].forkedAt = n
<1>1. runMeta[r] # Nil
  BY MetaIsRow DEF Seqs, MaxSeq
<1>2. QED
  BY <1>1, NilAssumption DEF ForkMeta, Parent

LEMMA RanMeta ==
  ASSUME GatesIInv, NEW r \in Runs, Ran(r)
  PROVE  runMeta[r] # Nil
<1>1. PICK e \in trajectory(r) : e.seq = 1
  BY RanSteps
<1>2. QED
  BY <1>1, GatesParts DEF WorkflowIInv, GapFreeTrajectories, trajectory

LEMMA CrashHolds ==
  ASSUME GatesIInv, IsRoot(RootRun)
  PROVE  CrashCheck
BY RunNames, RootShape, ShapeComplete, ShapeEffects DEF IsRoot, CrashCheck

(* A fork through the tool step, of a run with that shape.                 *)
LEMMA ForkKeepsEffect ==
  ASSUME GatesIInv, NEW r \in Runs, r \in Prompts, NEW s \in Runs, Ran(s), NEW m,
         AgentShape(s, m), IsFork(r, s, 2)
  PROVE  /\ AgentShape(r, 2) /\ Complete(r) /\ Effects(r, 0)
         /\ At2(r) = At2(s) /\ Answer(r).ext = r
<1>1. /\ Ran(r) /\ runMeta[r] = ForkMeta(s, 2, r) /\ WorkflowIInv
  BY GatesParts DEF IsFork
<1>2. /\ AgentShape(r, 2)
      /\ \A k \in 1 .. 2 : \E e \in trajectory(r), d \in trajectory(s) :
           e.seq = k /\ d.seq = k /\ e.output = d.output
  BY <1>1, ForkShape
<1>3. Complete(r) /\ Effects(r, 0) /\ Answer(r).ext = r
  BY <1>1, <1>2, ShapeComplete, ShapeEffects, ShapeAnswer
<1>4. PICK e \in trajectory(r), d \in trajectory(s) :
        e.seq = 2 /\ d.seq = 2 /\ e.output = d.output
  BY <1>2
<1>5. OutputAt(LiveSource, r, 2) = e.output /\ OutputAt(LiveSource, s, 2) = d.output
  BY <1>1, <1>4, OutputOf
<1>6. QED
  BY <1>2, <1>3, <1>4, <1>5 DEF At2

LEMMA ForkHolds ==
  ASSUME GatesIInv, IsRoot(RootRun), IsFork(ForkA, RootRun, 2)
  PROVE  ForkCheck
<1>1. AgentShape(RootRun, 0) /\ Ran(RootRun)
  BY RunNames, RootShape DEF IsRoot
<1>2. Complete(RootRun) /\ Effects(RootRun, 1) /\ Answer(RootRun).ext = RootRun
  BY <1>1, RunNames, ShapeComplete, ShapeEffects, ShapeAnswer
<1>3. /\ Complete(ForkA) /\ Effects(ForkA, 0) /\ At2(ForkA) = At2(RootRun)
      /\ Answer(ForkA).ext = ForkA
  BY <1>1, RunNames, ForkKeepsEffect
<1>4. runMeta[ForkA].parent = RootRun /\ runMeta[ForkA].forkedAt = 2
  BY RunNames, ForkIsFork DEF IsFork
<1>5. QED
  BY <1>2, <1>3, <1>4, RunNames DEF ForkCheck

(* Up a lineage that ends at a root.                                       *)
LEMMA ChainUp ==
  ASSUME NEW r, NEW c, IsChain(c, r), Parent(c[1]) = Nil, NEW i \in 1 .. Len(c)
  PROVE  /\ c[i] \in Runs
         /\ Parent(c[i]) = Nil <=> i = 1
         /\ Parent(c[i]) # Nil => i - 1 \in 1 .. Len(c) /\ c[i - 1] = Parent(c[i])
<1>1. /\ c \in Seq(Runs) /\ Len(c) \in Nat /\ c[i] \in Runs
      /\ \A j \in 1 .. Len(c) : j > 1 => Parent(c[j]) = c[j - 1]
  BY DEF IsChain
<1>2. CASE i = 1
  BY <1>1, <1>2
<1>3. CASE i > 1
  <2>1. i - 1 \in 1 .. Len(c) /\ Parent(c[i]) = c[i - 1]
    BY <1>1, <1>3
  <2>2. c[i - 1] \in Runs
    BY <1>1, <2>1
  <2>3. QED
    BY <1>1, <1>3, <2>1, <2>2, NilAssumption
<1>4. QED
  BY <1>2, <1>3

LEMMA SeqIsFunction ==
  ASSUME NEW S, NEW c \in Seq(S)
  PROVE  c = [i \in 1 .. Len(c) |-> c[i]]
<1>1. c \in [1 .. Len(c) -> S]
  OBVIOUS
<1>2. QED
  BY <1>1, Zenon

LEMMA LineageTwo ==
  ASSUME ForkIInv, NEW r \in Runs, runMeta[r] # Nil, NEW s, Parent(r) = s, s # Nil,
         Parent(s) = Nil
  PROVE  lineage(LiveSource, r) = <<s, r>>
<1>1. PICK c : c = lineage(LiveSource, r)
  OBVIOUS
<1>2. IsChain(c, r) /\ Parent(c[1]) = Nil
  BY <1>1, LineageIsChain
<1>3. PICK n : n = Len(c)
  OBVIOUS
<1>4. c \in Seq(Runs) /\ n \in Nat /\ n \in 1 .. n /\ c[n] = r
  BY <1>2, <1>3 DEF IsChain
<1>5. n - 1 \in 1 .. n /\ c[n - 1] = s
  BY <1>2, <1>3, <1>4, ChainUp
<1>6. n - 1 = 1
  BY <1>2, <1>3, <1>5, ChainUp
<1>7. n = 2 /\ c[1] = s /\ c[2] = r
  BY <1>4, <1>5, <1>6
<1>8. c = [i \in 1 .. 2 |-> c[i]]
  BY <1>3, <1>4, <1>7, SeqIsFunction
<1>9. <<s, r>> = [i \in 1 .. 2 |-> <<s, r>>[i]]
  OBVIOUS
<1>10. \A i \in 1 .. 2 : c[i] = <<s, r>>[i]
  BY <1>7
<1>11. QED
  BY <1>1, <1>8, <1>9, <1>10

LEMMA LineageFour ==
  ASSUME ForkIInv, NEW r \in Runs, runMeta[r] # Nil, NEW p, NEW q, NEW s,
         Parent(r) = p, Parent(p) = q, Parent(q) = s, p # Nil, q # Nil, s # Nil,
         Parent(s) = Nil
  PROVE  lineage(LiveSource, r) = <<s, q, p, r>>
<1>1. PICK c : c = lineage(LiveSource, r)
  OBVIOUS
<1>2. IsChain(c, r) /\ Parent(c[1]) = Nil
  BY <1>1, LineageIsChain
<1>3. PICK n : n = Len(c)
  OBVIOUS
<1>4. c \in Seq(Runs) /\ n \in Nat /\ n \in 1 .. n /\ c[n] = r
  BY <1>2, <1>3 DEF IsChain
<1>5. n - 1 \in 1 .. n /\ c[n - 1] = p
  BY <1>2, <1>3, <1>4, ChainUp
<1>6. n - 2 \in 1 .. n /\ c[n - 2] = q
  <2>1. PICK i : i = n - 1
    OBVIOUS
  <2>2. i - 1 \in 1 .. n /\ c[i - 1] = q
    BY <1>2, <1>3, <1>5, <2>1, ChainUp
  <2>3. i - 1 = n - 2
    BY <1>4, <2>1
  <2>4. QED
    BY <2>2, <2>3
<1>7. n - 3 \in 1 .. n /\ c[n - 3] = s
  <2>1. PICK i : i = n - 2
    OBVIOUS
  <2>2. i \in 1 .. n /\ c[i] = q
    BY <1>6, <2>1
  <2>3. i - 1 \in 1 .. n /\ c[i - 1] = s
    BY <1>2, <1>3, <2>2, ChainUp
  <2>4. i - 1 = n - 3
    BY <1>4, <2>1
  <2>5. QED
    BY <2>3, <2>4
<1>8. n - 3 = 1
  <2>1. PICK i : i = n - 3
    OBVIOUS
  <2>2. i \in 1 .. Len(c) /\ c[i] = s
    BY <1>3, <1>7, <2>1
  <2>3. Parent(c[i]) = Nil <=> i = 1
    BY <1>2, <2>2, ChainUp
  <2>4. QED
    BY <2>1, <2>2, <2>3
<1>9. n = 4 /\ c[1] = s /\ c[2] = q /\ c[3] = p /\ c[4] = r
  <2>1. n = 4
    BY <1>4, <1>8
  <2>2. QED
    BY <1>4, <1>5, <1>6, <1>7, <2>1
<1>10. c = [i \in 1 .. 4 |-> c[i]]
  BY <1>3, <1>4, <1>9, SeqIsFunction
<1>11. <<s, q, p, r>> = [i \in 1 .. 4 |-> <<s, q, p, r>>[i]]
  OBVIOUS
<1>12. \A i \in 1 .. 4 : c[i] = <<s, q, p, r>>[i]
  BY <1>9
<1>13. QED
  BY <1>1, <1>10, <1>11, <1>12

(* Two runs with different summaries of the same first two steps.          *)
LEMMA DiffAtThree ==
  ASSUME GatesIInv, NEW s \in Runs, NEW r \in Runs, Ran(s), Ran(r), NEW m, NEW n,
         AgentShape(s, m), AgentShape(r, n), Answer(s) # Answer(r),
         Agree(s, r, 1), Agree(s, r, 2)
  PROVE  /\ \A k \in 1 .. 3 :
              StepDiff(LiveSource, s, r, k) = IF k = 3 THEN "changed" ELSE "same"
         /\ firstDivergenceSeq(LiveSource, s, r) = 3
<1>1. WorkflowIInv
  BY GatesParts
<1>2. /\ SeqsOf(LiveSource, s) = 1 .. 3 /\ SeqsOf(LiveSource, r) = 1 .. 3
      /\ OutputAt(LiveSource, s, 3) # OutputAt(LiveSource, r, 3)
  BY ShapeComplete
<1>3. StepDiff(LiveSource, s, r, 1) = "same" /\ StepDiff(LiveSource, s, r, 2) = "same"
  BY <1>1, AgreeIsSame
<1>4. StepDiff(LiveSource, s, r, 3) = "changed"
  BY <1>2 DEF StepDiff
<1>5. Divergent(LiveSource, s, r) = {3}
  BY <1>2, <1>3, <1>4 DEF Divergent
<1>6. (CHOOSE k \in {3} : \A j \in {3} : k <= j) = 3
  OBVIOUS
<1>7. QED
  BY <1>3, <1>4, <1>5, <1>6 DEF firstDivergenceSeq

LEMMA ForkAgrees ==
  ASSUME GatesIInv, IsRoot(RootRun), IsFork(ForkA, RootRun, 2)
  PROVE  Agree(RootRun, ForkA, 1) /\ Agree(RootRun, ForkA, 2)
<1>1. AgentShape(RootRun, 0) /\ Ran(ForkA) /\ runMeta[ForkA] = ForkMeta(RootRun, 2, ForkA)
  BY RunNames, RootShape DEF IsRoot, IsFork
<1>2. \A k \in 1 .. 2 : \E e \in trajectory(ForkA), d \in trajectory(RootRun) :
        e.seq = k /\ d.seq = k /\ e.output = d.output
  BY <1>1, RunNames, ForkShape
<1>3. QED
  BY <1>2 DEF Agree

LEMMA ForkNoRefireHolds ==
  ASSUME GatesIInv, IsRoot(RootRun), runMeta[RootRun].forkedAt = Nil,
         IsFork(ForkA, RootRun, 2)
  PROVE  ForkNoRefireCheck
<1>1. AgentShape(RootRun, 0) /\ Ran(RootRun) /\ Parent(RootRun) = Nil /\ ForkIInv
  BY RunNames, RootShape, GatesParts DEF IsRoot
<1>2. AgentShape(ForkA, 2) /\ Ran(ForkA)
  BY <1>1, RunNames, ForkKeepsEffect DEF IsFork
<1>3. /\ runMeta[ForkA] # Nil /\ Parent(ForkA) = RootRun
      /\ runMeta[ForkA].parent = RootRun /\ runMeta[ForkA].forkedAt = 2
  BY RunNames, ForkIsFork DEF IsFork
<1>4. Answer(RootRun) # Answer(ForkA)
  BY <1>1, <1>2, RunNames, ShapeAnswer
<1>5. firstDivergenceSeq(LiveSource, RootRun, ForkA) = 3
  BY <1>1, <1>2, <1>4, RunNames, ForkAgrees, DiffAtThree
<1>6. lineage(LiveSource, ForkA) = <<RootRun, ForkA>>
  BY <1>1, <1>3, RunNames, LineageTwo
<1>7. seededSeqs(LiveSource, ForkA) = {1, 2}
  BY <1>1, <1>3, RunNames, SeededThrough
<1>8. QED
  BY <1>5, <1>6, <1>7 DEF ForkNoRefireCheck

LEMMA TwoElements ==
  ASSUME NEW a, NEW b, a # b
  PROVE  Cardinality({a, b}) = 2 /\ IsFiniteSet({a, b})
<1>1. IsFiniteSet({a}) /\ Cardinality({a}) = 1 /\ b \notin {a}
  BY FS_Singleton
<1>2. IsFiniteSet({a} \cup {b}) /\ Cardinality({a} \cup {b}) = 1 + 1
  BY <1>1, FS_AddElement
<1>3. {a} \cup {b} = {a, b}
  OBVIOUS
<1>4. QED
  BY <1>2, <1>3

LEMMA MultiLevelHolds ==
  ASSUME GatesIInv, IsRoot(RootRun), IsFork(ForkA, RootRun, 2), IsFork(ForkB, ForkA, 2),
         IsFork(SubFork, ForkB, 2)
  PROVE  MultiLevelForkCheck
<1>1. AgentShape(RootRun, 0) /\ Ran(RootRun) /\ Parent(RootRun) = Nil /\ ForkIInv
  BY RunNames, RootShape, GatesParts DEF IsRoot
<1>2. Effects(RootRun, 1)
  BY <1>1, RunNames, ShapeEffects
<1>3. /\ AgentShape(ForkA, 2) /\ Effects(ForkA, 0) /\ At2(ForkA) = At2(RootRun)
      /\ Answer(ForkA).ext = ForkA /\ Ran(ForkA)
  BY <1>1, RunNames, ForkKeepsEffect DEF IsFork
<1>4. /\ AgentShape(ForkB, 2) /\ Effects(ForkB, 0) /\ At2(ForkB) = At2(ForkA)
      /\ Answer(ForkB).ext = ForkB /\ Ran(ForkB)
  BY <1>3, RunNames, ForkKeepsEffect DEF IsFork
<1>5. /\ Effects(SubFork, 0) /\ At2(SubFork) = At2(ForkB) /\ Answer(SubFork).ext = SubFork
  BY <1>4, RunNames, ForkKeepsEffect DEF IsFork
<1>6. /\ Parent(ForkA) = RootRun /\ Parent(ForkB) = ForkA /\ Parent(SubFork) = ForkB
      /\ runMeta[SubFork] # Nil
  BY RunNames, ForkIsFork DEF IsFork
<1>7. lineage(LiveSource, SubFork) = <<RootRun, ForkA, ForkB, SubFork>>
  BY <1>1, <1>6, RunNames, LineageFour
<1>8. Cardinality({Answer(r) : r \in Forked}) = 3
  <2>1. PICK a, b, c : a = Answer(ForkA) /\ b = Answer(ForkB) /\ c = Answer(SubFork)
    OBVIOUS
  <2>2. a # b /\ a # c /\ b # c
    BY <1>3, <1>4, <1>5, <2>1, RunNames
  <2>3. {Answer(r) : r \in Forked} = {a, b} \cup {c}
    BY <2>1 DEF Forked
  <2>4. Cardinality({a, b}) = 2 /\ IsFiniteSet({a, b})
    BY <2>2, TwoElements
  <2>5. Cardinality({a, b} \cup {c}) = 2 + 1
    BY <2>2, <2>4, FS_AddElement
  <2>6. QED
    BY <2>3, <2>5
<1>9. QED
  BY <1>2, <1>3, <1>4, <1>5, <1>7, <1>8 DEF MultiLevelForkCheck, Forked

LEMMA ConcurrentHolds ==
  ASSUME GatesIInv, IsRoot(RootRun), IsFork(ForkA, RootRun, 2), IsFork(ForkB, RootRun, 2)
  PROVE  ConcurrentForksCheck
<1>1. AgentShape(RootRun, 0) /\ Ran(RootRun)
  BY RunNames, RootShape DEF IsRoot
<1>2. Effects(RootRun, 1)
  BY <1>1, RunNames, ShapeEffects
<1>3. Effects(ForkA, 0) /\ Complete(ForkA) /\ Answer(ForkA).ext = ForkA
  BY <1>1, RunNames, ForkKeepsEffect
<1>4. Effects(ForkB, 0) /\ Complete(ForkB) /\ Answer(ForkB).ext = ForkB
  BY <1>1, RunNames, ForkKeepsEffect
<1>5. QED
  BY <1>2, <1>3, <1>4, RunNames DEF ConcurrentForksCheck

LEMMA CrashDuringForkHolds ==
  ASSUME GatesIInv, IsRoot(RootRun)
  PROVE  /\ IsFork(ForkA, RootRun, 1) => CrashDuringForkCheck(1, {1})
         /\ IsFork(ForkA, RootRun, 2) => CrashDuringForkCheck(0, {1, 2})
<1>1. AgentShape(RootRun, 0) /\ Ran(RootRun) /\ ForkIInv
  BY RunNames, RootShape, GatesParts DEF IsRoot
<1>2. Effects(RootRun, 1)
  BY <1>1, RunNames, ShapeEffects
<1>3. ASSUME NEW n \in {1, 2}, IsFork(ForkA, RootRun, n)
      PROVE  /\ AgentShape(ForkA, n) /\ Ran(ForkA)
             /\ seededSeqs(LiveSource, ForkA) = 1 .. n
  <2>1. Ran(ForkA) /\ runMeta[ForkA] = ForkMeta(RootRun, n, ForkA)
    BY <1>3 DEF IsFork
  <2>2. /\ runMeta[ForkA] # Nil /\ runMeta[ForkA].parent = RootRun
        /\ runMeta[ForkA].forkedAt = n
    BY <2>1, RunNames, ForkIsFork
  <2>3. seededSeqs(LiveSource, ForkA) = 1 .. n
    BY <1>1, <2>2, RunNames, SeededThrough
  <2>4. AgentShape(ForkA, n)
    BY <1>1, <2>1, RunNames, ForkShape
  <2>5. QED
    BY <2>1, <2>3, <2>4
<1>4. ASSUME IsFork(ForkA, RootRun, 1) PROVE CrashDuringForkCheck(1, {1})
  <2>1. /\ AgentShape(ForkA, 1) /\ Ran(ForkA)
        /\ seededSeqs(LiveSource, ForkA) = 1 .. 1
    BY <1>3, <1>4
  <2>2. Effects(ForkA, 1) /\ Complete(ForkA)
    BY <2>1, RunNames, ShapeEffects, ShapeComplete
  <2>3. QED
    BY <1>2, <2>1, <2>2 DEF CrashDuringForkCheck
<1>5. ASSUME IsFork(ForkA, RootRun, 2) PROVE CrashDuringForkCheck(0, {1, 2})
  <2>1. /\ AgentShape(ForkA, 2) /\ Ran(ForkA)
        /\ seededSeqs(LiveSource, ForkA) = 1 .. 2
    BY <1>3, <1>5
  <2>2. Effects(ForkA, 0) /\ Complete(ForkA)
    BY <2>1, RunNames, ShapeEffects, ShapeComplete
  <2>3. QED
    BY <1>2, <2>1, <2>2 DEF CrashDuringForkCheck
<1>6. QED
  BY <1>4, <1>5

LEMMA ValidationHolds ==
  ASSUME GatesIInv, IsRoot(RootRun),
         runMeta[ForkA] = Nil, runMeta[SubFork] = Nil
  PROVE  ForkValidationCheck
<1>1. AgentShape(RootRun, 0) /\ Ran(RootRun) /\ GapFreeTrajectories
  BY RunNames, RootShape, GatesParts DEF IsRoot, WorkflowIInv
<1>2. \A e \in stepJournal : e.run # ForkA /\ e.run # SubFork
  BY <1>1 DEF GapFreeTrajectories
<1>3. ~HasEntry(SubFork, 1) /\ trajectory(ForkA) = {}
  BY <1>2 DEF HasEntry, trajectory
<1>4. ~HasEntry(RootRun, 4) /\ HasEntry(RootRun, 2)
  BY <1>1 DEF HasEntry, AgentShape, trajectory
<1>5. QED
  BY <1>3, <1>4, RunNames DEF ForkValidationCheck, ValidPlan

-----------------------------------------------------------------------------
(* The checks of what was read and exported.                               *)

(* The journal that the m3 gate leaves.                                    *)
FamilyMade ==
  /\ IsRoot(RootRun) /\ IsFork(ForkA, RootRun, 2) /\ IsFork(ForkB, RootRun, 1)
  /\ IsFork(SubFork, ForkB, 2)
  /\ \A r \in Runs : runMeta[r] # Nil => r \in Named

LEMMA ReconstructHolds ==
  ASSUME GatesIInv, IsRoot(RootRun)
  PROVE  ReconstructCheck
<1>1. AgentShape(RootRun, 0) /\ Ran(RootRun) /\ WorkflowIInv
  BY RunNames, RootShape, GatesParts DEF IsRoot
<1>2. PICK rows, fired : rows = trajectory(RootRun) /\ fired = effectsFor(RootRun)
  OBVIOUS
<1>3. stepsOf(LiveSource, RootRun) = rows /\ effectsOf(LiveSource, RootRun) = fired
  BY <1>2, LiveSteps DEF effectsFor
<1>4. PICK f : fired = {f}
  BY <1>1, <1>2, RunNames, ShapeEffects
<1>5. /\ StepsJournaled(RootRun) = AllSteps("AgentRun") /\ LastSeq(rows) = 3
      /\ Answer(RootRun) = OutputAt(LiveSource, RootRun, 3)
  BY <1>1, <1>2, RunNames, ShapeComplete
<1>6. {e.output : e \in {x \in rows : x.seq = 3}} = {Answer(RootRun)}
  <2>1. \A e \in rows : e.seq = 3 => e.output = Answer(RootRun)
    BY <1>1, <1>2, <1>5, OutputOf
  <2>2. \E e \in rows : e.seq = 3
    BY <1>1, <1>2 DEF AgentShape
  <2>3. QED
    BY <2>1, <2>2
<1>7. {s.step : s \in {ReplayedStep(e, fired) : e \in rows}} = StepsJournaled(RootRun)
  <2>1. \A e : ReplayedStep(e, fired).step = e.step
    BY DEF ReplayedStep
  <2>2. {s.step : s \in {ReplayedStep(e, fired) : e \in rows}} = {e.step : e \in rows}
    <3>1. PICK S : S = {ReplayedStep(e, fired) : e \in rows}
      OBVIOUS
    <3>2. ASSUME NEW e \in rows PROVE \E s \in S : s.step = e.step
      BY <2>1, <3>1
    <3>3. ASSUME NEW s \in S PROVE \E e \in rows : s.step = e.step
      BY <2>1, <3>1
    <3>4. {s.step : s \in S} = {e.step : e \in rows}
      BY <3>2, <3>3
    <3>5. QED
      BY <3>1, <3>4
  <2>3. QED
    BY <1>2, <2>2 DEF StepsJournaled
<1>8. PICK r : r = reconstruct(LiveSource, RootRun)
  OBVIOUS
<1>9. /\ r.outcome = {e.output : e \in {x \in rows : x.seq = 3}}
      /\ r.steps = {ReplayedStep(e, fired) : e \in rows}
      /\ r.effects = fired
  BY <1>3, <1>5, <1>8 DEF reconstruct
<1>10. Cardinality(r.effects) = 1
  BY <1>4, <1>9, FS_Singleton
<1>11. QED
  BY <1>5, <1>6, <1>7, <1>8, <1>9, <1>10 DEF ReconstructCheck

LEMMA OfflineHolds ==
  ASSUME GatesIInv, before = LiveSource
  PROVE  OfflineCheck
<1>1. ExportsReplayTheSame
  BY GatesParts, ExportsMatch
<1>2. rootRuns(before) \subseteq Runs
  BY DEF rootRuns, allRunIds
<1>3. ASSUME NEW r \in Runs, NEW x \in Family(LiveSource, r)
      PROVE  Matches(reconstruct(LiveSource, x),
                     reconstruct(importJournalSource(exportBundle(LiveSource, r)), x))
  BY <1>1, <1>3 DEF ExportsReplayTheSame
<1>4. QED
  BY <1>2, <1>3 DEF OfflineCheck, Offline

LEMMA ReplayHolds ==
  ASSUME GatesIInv, IsRoot(RootRun), before = LiveSource
  PROVE  ReplayCheck
<1>1. Effects(RootRun, 1)
  BY RunNames, RootShape, ShapeEffects DEF IsRoot
<1>2. QED
  BY <1>1 DEF ReplayCheck

(* What the import shows of that journal.                                  *)
LEMMA FamilySource ==
  ASSUME GatesIInv, FamilyMade, before = LiveSource, NEW src, src = Offline(RootRun)
  PROVE  /\ \A r \in Named : /\ stepsOf(src, r) = trajectory(r)
                             /\ effectsOf(src, r) = effectsFor(r)
                             /\ src.meta[r] = runMeta[r]
         /\ allRunIds(src) = Named /\ rootRuns(src) = {RootRun}
         /\ childRuns(src, RootRun) = {ForkA, ForkB} /\ childRuns(src, ForkB) = {SubFork}
         /\ runMeta[ForkA].forkedAt = 2 /\ runMeta[ForkB].forkedAt = 1
<1>1. /\ WorkflowIInv /\ Named \subseteq Runs /\ Ran(RootRun) /\ Parent(RootRun) = Nil
  BY GatesParts, NamedRuns DEF FamilyMade, IsRoot
<1>2. /\ runMeta[RootRun] # Nil /\ runMeta[RootRun].parent = Nil
  BY <1>1, RunNames, RanMeta DEF Parent
<1>3. /\ runMeta[ForkA] # Nil /\ runMeta[ForkA].parent = RootRun /\ runMeta[ForkA].forkedAt = 2
      /\ runMeta[ForkB] # Nil /\ runMeta[ForkB].parent = RootRun /\ runMeta[ForkB].forkedAt = 1
      /\ runMeta[SubFork] # Nil /\ runMeta[SubFork].parent = ForkB
  BY RunNames, ForkIsFork DEF FamilyMade, IsFork
<1>4. PICK F : F = Family(LiveSource, RootRun)
  OBVIOUS
<1>5. F \subseteq Runs /\ RootRun \in F /\ Children(LiveSource, F) \subseteq F
  BY <1>4, RunNames, FamilyIsClosure
<1>6. \A p \in F : \A r \in Runs : (runMeta[r] # Nil /\ runMeta[r].parent = p) => r \in F
  BY <1>5 DEF Children, childRuns, allRunIds, LiveSource
<1>7. Named \subseteq F
  BY <1>3, <1>5, <1>6, RunNames DEF Named
<1>8. src = importJournalSource(BundleOf(F))
  BY <1>4 DEF Offline, exportBundle, BundleOf
<1>9. /\ src.steps = {e \in stepJournal : e.run \in F}
      /\ src.effects = {f \in effectLog : f.run \in F}
      /\ src.meta = [r \in Runs |-> IF r \in F THEN runMeta[r] ELSE Nil]
  BY <1>1, <1>5, <1>8, ImportOfBundle
<1>10. \A r \in Named : /\ stepsOf(src, r) = trajectory(r)
                        /\ effectsOf(src, r) = effectsFor(r)
                        /\ src.meta[r] = runMeta[r]
  <2>1. SUFFICES ASSUME NEW r \in Named
                 PROVE  /\ stepsOf(src, r) = trajectory(r)
                        /\ effectsOf(src, r) = effectsFor(r)
                        /\ src.meta[r] = runMeta[r]
    OBVIOUS
  <2>2. r \in F /\ r \in Runs
    BY <1>1, <1>7
  <2>3. stepsOf(src, r) = trajectory(r)
    BY <1>9, <2>2 DEF stepsOf, trajectory
  <2>4. effectsOf(src, r) = effectsFor(r)
    BY <1>9, <2>2 DEF effectsOf, effectsFor
  <2>5. src.meta[r] = runMeta[r]
    BY <1>9, <2>2
  <2>6. QED
    BY <2>3, <2>4, <2>5
<1>11. \A r \in Runs : src.meta[r] # Nil => r \in Named
  BY <1>9 DEF FamilyMade
<1>12. \A r \in Named : runMeta[r] # Nil
  BY <1>2, <1>3 DEF Named
<1>13. allRunIds(src) = Named
  BY <1>1, <1>10, <1>11, <1>12 DEF allRunIds
<1>14. \A p : childRuns(src, p) = {r \in Named : runMeta[r].parent = p}
  BY <1>10, <1>13 DEF childRuns
<1>15. rootRuns(src) = {r \in Named : runMeta[r].parent = Nil}
  BY <1>10, <1>13 DEF rootRuns
<1>16. /\ {r \in Named : runMeta[r].parent = RootRun} = {ForkA, ForkB}
       /\ {r \in Named : runMeta[r].parent = ForkB} = {SubFork}
       /\ {r \in Named : runMeta[r].parent = Nil} = {RootRun}
  BY <1>2, <1>3, RunNames DEF Named
<1>17. QED
  BY <1>3, <1>10, <1>13, <1>14, <1>15, <1>16

LEMMA ShapeRows ==
  ASSUME GatesIInv, NEW r \in Runs, NEW n, AgentShape(r, n)
  PROVE  \E a, b, c :
           /\ trajectory(r) = {a, b, c} /\ a.seq = 1 /\ b.seq = 2 /\ c.seq = 3
           /\ a.step = "step1-plan" /\ b.step = "step2-tool_call"
<1>1. OneRowPerStep
  BY GatesParts DEF WorkflowIInv
<1>2. PICK a \in trajectory(r), b \in trajectory(r), c \in trajectory(r) :
        a.seq = 1 /\ b.seq = 2 /\ c.seq = 3
  BY DEF AgentShape
<1>3. \A e \in trajectory(r) : e.seq \in 1 .. 3
  BY DEF AgentShape
<1>4. ASSUME NEW e \in trajectory(r) PROVE e \in {a, b, c}
  <2>1. e.seq = 1 \/ e.seq = 2 \/ e.seq = 3
    BY <1>3
  <2>2. QED
    BY <1>1, <1>2, <2>1 DEF OneRowPerStep, trajectory
<1>5. a.step = "step1-plan" /\ b.step = "step2-tool_call"
  BY <1>2 DEF AgentShape, AgentSteps
<1>6. QED
  BY <1>2, <1>4, <1>5

(* Time travel over the import.                                            *)
LEMMA TravelSteps ==
  ASSUME GatesIInv, FamilyMade, before = LiveSource, NEW src, src = Offline(RootRun)
  PROVE  /\ {s.seq : s \in stateAt(src, RootRun, 2).steps} = {1, 2}
         /\ Cardinality(stateAt(src, RootRun, 2).steps) = 2
         /\ stateAt(src, RootRun, 2).current = {At2(RootRun)}
         /\ Cardinality(stateAt(src, RootRun, 2).effects) = 1
         /\ stateAt(src, RootRun, 1).effects = {}
         /\ TravelRange(src, RootRun) = 1 .. 3
         /\ Cardinality(reconstruct(src, RootRun).steps) = 3
         /\ Cardinality(reconstruct(src, RootRun).effects) = 1
<1>1. AgentShape(RootRun, 0) /\ Ran(RootRun) /\ WorkflowIInv
  BY RunNames, RootShape, GatesParts DEF FamilyMade, IsRoot
<1>2. PICK rows, fired : rows = trajectory(RootRun) /\ fired = effectsFor(RootRun)
  OBVIOUS
<1>3. stepsOf(src, RootRun) = rows /\ effectsOf(src, RootRun) = fired
  BY <1>2, FamilySource DEF Named
<1>4. PICK f : fired = {f} /\ EffectStep(f) = "step2-tool_call"
  BY <1>1, <1>2, RunNames, ShapeEffects
<1>5. PICK a, b, c :
        /\ rows = {a, b, c} /\ a.seq = 1 /\ b.seq = 2 /\ c.seq = 3
        /\ a.step = "step1-plan" /\ b.step = "step2-tool_call"
  BY <1>1, <1>2, RunNames, ShapeRows
<1>6. PICK x, y, z : x = ReplayedStep(a, fired) /\ y = ReplayedStep(b, fired)
                     /\ z = ReplayedStep(c, fired)
  OBVIOUS
<1>7. x.seq = 1 /\ y.seq = 2 /\ z.seq = 3
  BY <1>5, <1>6 DEF ReplayedStep
<1>8. x # y /\ x # z /\ y # z
  BY <1>7
<1>9. /\ StepsUpTo(src, RootRun, 2) = {a, b} /\ StepsUpTo(src, RootRun, 1) = {a}
  BY <1>3, <1>5 DEF StepsUpTo
<1>10. stateAt(src, RootRun, 2).steps = {x, y}
  BY <1>3, <1>6, <1>9 DEF stateAt
<1>11. Cardinality({x, y}) = 2 /\ IsFiniteSet({x, y})
  BY <1>8, TwoElements
<1>12. stateAt(src, RootRun, 2).current = {At2(RootRun)}
  <2>1. At2(RootRun) = b.output
    BY <1>1, <1>2, <1>5, OutputOf DEF At2
  <2>2. {e.output : e \in {d \in {a, b} : d.seq = 2}} = {b.output}
    BY <1>5
  <2>3. QED
    BY <1>9, <2>1, <2>2 DEF stateAt
<1>13. stateAt(src, RootRun, 2).effects = {f} /\ stateAt(src, RootRun, 1).effects = {}
  <2>1. {e.step : e \in {a, b}} = {"step1-plan", "step2-tool_call"}
        /\ {e.step : e \in {a}} = {"step1-plan"}
    BY <1>5
  <2>2. QED
    BY <1>3, <1>4, <1>9, <2>1 DEF stateAt
<1>14. TravelRange(src, RootRun) = 1 .. 3
  BY <1>1, <1>2, <1>3, RunNames, ShapeComplete DEF TravelRange
<1>15. /\ reconstruct(src, RootRun).steps = {x, y, z}
       /\ reconstruct(src, RootRun).effects = {f}
  BY <1>3, <1>4, <1>5, <1>6 DEF reconstruct
<1>16. Cardinality({x, y, z}) = 3
  <2>1. Cardinality({x, y} \cup {z}) = 2 + 1
    BY <1>8, <1>11, FS_AddElement
  <2>2. {x, y, z} = {x, y} \cup {z}
    OBVIOUS
  <2>3. QED
    BY <2>1, <2>2
<1>17. {s.seq : s \in {x, y}} = {1, 2}
  BY <1>7
<1>18. {s.seq : s \in stateAt(src, RootRun, 2).steps} = {1, 2}
  BY <1>10, <1>17
<1>19. Cardinality(stateAt(src, RootRun, 2).steps) = 2
  BY <1>10, <1>11
<1>20. Cardinality({f}) = 1
  BY FS_Singleton
<1>21. Cardinality(stateAt(src, RootRun, 2).effects) = 1
  BY <1>13, <1>20
<1>22. stateAt(src, RootRun, 1).effects = {}
  BY <1>13
<1>23. Cardinality(reconstruct(src, RootRun).steps) = 3
  BY <1>15, <1>16
<1>24. Cardinality(reconstruct(src, RootRun).effects) = 1
  BY <1>15, <1>20
<1>25. QED
  BY <1>12, <1>14, <1>18, <1>19, <1>21, <1>22, <1>23, <1>24

LEMMA TimeTravelHolds ==
  ASSUME GatesIInv, FamilyMade, before = LiveSource
  PROVE  TimeTravelCheck
<1>1. PICK src : src = Offline(RootRun)
  OBVIOUS
<1>2. ASSUME NEW n, NEW c \in {ForkA, ForkB}, runMeta[c].forkedAt = n, n \in {1, 2}
      PROVE  c \in {d.fork : d \in stateAt(src, RootRun, n).diverged}
  <2>1. /\ c \in childRuns(src, RootRun) /\ src.meta[c] = runMeta[c]
    BY <1>1, <1>2, FamilySource DEF Named
  <2>2. PICK d : d = [seq |-> n, fork |-> c]
    OBVIOUS
  <2>3. n # Nil
    BY <1>2, NilAssumption
  <2>4. d \in divergencePoints(src, RootRun)
    BY <1>2, <2>1, <2>2, <2>3 DEF divergencePoints
  <2>5. d \in stateAt(src, RootRun, n).diverged /\ d.fork = c
    BY <1>2, <2>2, <2>4 DEF stateAt
  <2>6. QED
    BY <2>5
<1>3. /\ ForkB \in {d.fork : d \in stateAt(src, RootRun, 1).diverged}
      /\ ForkA \in {d.fork : d \in stateAt(src, RootRun, 2).diverged}
  BY <1>1, <1>2, FamilySource
<1>4. 4 \notin TravelRange(src, RootRun)
  BY <1>1, TravelSteps
<1>5. QED
  BY <1>1, <1>3, <1>4, TravelSteps DEF TimeTravelCheck

LEMMA TreeAndDiffHolds ==
  ASSUME GatesIInv, FamilyMade, before = LiveSource
  PROVE  ForkTreeAndDiffCheck
<1>1. PICK src : src = Offline(RootRun)
  OBVIOUS
<1>2. /\ childRuns(src, RootRun) = {ForkA, ForkB} /\ childRuns(src, ForkB) = {SubFork}
      /\ stepsOf(src, RootRun) = stepsOf(LiveSource, RootRun)
      /\ stepsOf(src, ForkA) = stepsOf(LiveSource, ForkA)
  BY <1>1, FamilySource, LiveSteps DEF Named
<1>3. IsRoot(RootRun) /\ IsFork(ForkA, RootRun, 2) /\ Ran(RootRun) /\ Ran(ForkA)
  BY DEF FamilyMade, IsRoot, IsFork
<1>4. AgentShape(RootRun, 0)
  BY <1>3, RunNames, RootShape DEF IsRoot
<1>5. AgentShape(ForkA, 2)
  BY <1>3, <1>4, RunNames, ForkKeepsEffect
<1>6. Answer(RootRun) # Answer(ForkA)
  BY <1>3, <1>4, <1>5, RunNames, ShapeAnswer
<1>7. \A n \in 1 .. 3 :
        StepDiff(LiveSource, RootRun, ForkA, n) = IF n = 3 THEN "changed" ELSE "same"
  BY <1>3, <1>4, <1>5, <1>6, RunNames, ForkAgrees, DiffAtThree
<1>8. \A n \in 1 .. 3 : StepDiff(src, RootRun, ForkA, n) = StepDiff(LiveSource, RootRun, ForkA, n)
  BY <1>2 DEF StepDiff, SeqsOf, OutputAt
<1>9. QED
  BY <1>1, <1>2, <1>7, <1>8 DEF ForkTreeAndDiffCheck

LEMMA UiApiHolds ==
  ASSUME GatesIInv, FamilyMade, before = LiveSource
  PROVE  UiApiCheck
<1>1. PICK src : src = Offline(RootRun)
  OBVIOUS
<1>2. /\ allRunIds(src) = Named /\ rootRuns(src) = {RootRun}
      /\ childRuns(src, RootRun) = {ForkA, ForkB}
  BY <1>1, FamilySource
<1>3. Cardinality({ForkA, ForkB}) = 2 /\ IsFiniteSet({ForkA, ForkB})
  BY RunNames, TwoElements
<1>4. /\ Cardinality({ForkA, ForkB} \cup {SubFork}) = 3
      /\ IsFiniteSet({ForkA, ForkB} \cup {SubFork})
  <2>1. SubFork \notin {ForkA, ForkB}
    BY RunNames
  <2>2. /\ Cardinality({ForkA, ForkB} \cup {SubFork}) = 2 + 1
        /\ IsFiniteSet({ForkA, ForkB} \cup {SubFork})
    BY <1>3, <2>1, FS_AddElement
  <2>3. QED
    BY <2>2
<1>5. Cardinality({ForkA, ForkB} \cup {SubFork} \cup {RootRun}) = 4
  <2>1. RootRun \notin {ForkA, ForkB} \cup {SubFork}
    BY RunNames
  <2>2. Cardinality({ForkA, ForkB} \cup {SubFork} \cup {RootRun}) = 3 + 1
    BY <1>4, <2>1, FS_AddElement
  <2>3. QED
    BY <2>2
<1>6. Named = {ForkA, ForkB} \cup {SubFork} \cup {RootRun}
  BY DEF Named
<1>7. Cardinality(allRunIds(src)) >= 4
  BY <1>2, <1>5, <1>6
<1>8. QED
  BY <1>1, <1>2, <1>3, <1>7, TravelSteps DEF UiApiCheck

-----------------------------------------------------------------------------
(* The checks of plans, pauses and answers.                                *)

LEMMA PlannedIs ==
  ASSUME GatesIInv, NEW r \in Runs, IsRoot(r), NEW p, \A q : Provided(r, q) => q = p
  PROVE  PlannedBy(r, p)
<1>1. AgentShape(r, 0) /\ WorkflowIInv /\ PlansAreProvided
  BY RootShape, GatesParts DEF IsRoot, GatesIInv
<1>2. PICK e \in trajectory(r) : e.seq = 1
  BY <1>1 DEF AgentShape
<1>3. e.seededFrom = Nil /\ e \in stepJournal /\ e.run = r
  BY <1>1, <1>2 DEF AgentShape, trajectory
<1>4. Provided(r, e.output.ext)
  BY <1>1, <1>2, <1>3 DEF PlansAreProvided
<1>5. OutputAt(LiveSource, r, 1) = e.output
  BY <1>1, <1>2, OutputOf
<1>6. QED
  BY <1>4, <1>5 DEF PlannedBy

LEMMA AnsweredHolds ==
  ASSUME GatesIInv, IsRoot(RootRun), IsRoot(ForkA)
  PROVE  Complete(RootRun) /\ Complete(ForkA)
BY RunNames, RootShape, ShapeComplete DEF IsRoot

(* A HITL run that is no fork: every row is its own.                       *)
IsHitl(r) == invocation[r] = [wf |-> "HitlAgentRun", prompt |-> r] /\ Parent(r) = Nil

LEMMA HitlRows ==
  ASSUME GatesIInv, NEW r \in Runs, IsHitl(r), NEW e \in trajectory(r)
  PROVE  /\ e.seq \in 1 .. 5 /\ e.step = HitlSteps[e.seq]
         /\ MadeOf(r, e.step, e.output) /\ runMeta[r] # Nil
         /\ e \in stepJournal /\ e.run = r /\ e.seededFrom = Nil
<1>1. /\ ForksCopyTheirPrefix /\ OwnStepsAreTheWorkflows /\ stepJournal \subseteq StepRow
      /\ OutputsAreMade /\ GapFreeTrajectories
  BY GatesParts DEF RowsInv, WorkflowTypeOK, JournalTypeOK, GatesIInv, WorkflowIInv
<1>2. Steps(r) = HitlSteps
  BY DEF IsHitl, Steps, StepsOf
<1>3. e.seededFrom = Nil /\ e \in stepJournal /\ e.run = r
  BY <1>1 DEF ForksCopyTheirPrefix, trajectory, IsHitl
<1>4. e.seq \in 1 .. 5
  BY <1>1, <1>3 DEF StepRow, Seqs, MaxSeq
<1>5. e.step = HitlSteps[e.seq]
  BY <1>1, <1>2, <1>3 DEF OwnStepsAreTheWorkflows
<1>6. MadeOf(r, e.step, e.output) /\ runMeta[r] # Nil
  BY <1>1, <1>3 DEF OutputsAreMade, GapFreeTrajectories
<1>7. QED
  BY <1>3, <1>4, <1>5, <1>6

LEMMA StillPausedHolds ==
  ASSUME GatesIInv, IsHitl(RootRun), promise[RootRun] = Nil,
         Shows(LiveSource, RootRun, "hitl-pause")
  PROVE  Holds("stillPaused")
<1>1. ASSUME NEW e \in trajectory(RootRun) PROVE e.step # "hitl-input" /\ e.seq # 3
  <2>1. /\ e.step = HitlSteps[e.seq] /\ MadeOf(RootRun, e.step, e.output)
    BY RunNames, HitlRows
  <2>2. e.step # "hitl-input"
    BY <2>1 DEF MadeOf
  <2>3. QED
    BY <2>1, <2>2 DEF HitlSteps
<1>2. PICK e \in trajectory(RootRun) : e.step = "hitl-pause"
  BY LiveSteps DEF Shows
<1>3. RootRun \in allRunIds(LiveSource)
  BY <1>2, RunNames, HitlRows DEF allRunIds, LiveSource
<1>4. hitlStateFromSource(LiveSource, RootRun) = "paused"
  BY <1>1, LiveSteps DEF hitlStateFromSource, Shows
<1>5. effectsFor(RootRun) = {}
  <2>1. SUFFICES ASSUME NEW f \in effectsFor(RootRun) PROVE FALSE
    OBVIOUS
  <2>2. HasEntry(RootRun, 3)
    BY DEF effectsFor, IsHitl, GatesIInv, EffectsFollowInputs
  <2>3. QED
    BY <1>1, <2>2 DEF HasEntry, trajectory
<1>6. QED
  BY <1>3, <1>4, <1>5 DEF Holds, pausedRuns

LEMMA ResumedHolds ==
  ASSUME GatesIInv, IsHitl(RootRun), result[RootRun] # Nil
  PROVE  ResumedCheck
<1>1. /\ WorkflowIInv /\ ResultsAreWhole /\ InputsInOrder /\ OneEffectPerRun /\ EffectRows
      /\ OutputsFromJournal /\ stepJournal \subseteq StepRow
  BY GatesParts DEF GatesIInv, WorkflowIInv, WorkflowTypeOK, JournalTypeOK
<1>2. Steps(RootRun) = HitlSteps /\ Len(HitlSteps) = 5
  BY DEF IsHitl, Steps, StepsOf, HitlSteps
<1>3. /\ invocation[RootRun] # Nil /\ Len(result[RootRun]) = 5
      /\ \A k \in 1 .. 5 : \E e \in trajectory(RootRun) :
           e.seq = k /\ e.output = result[RootRun][k]
  <2>1. /\ invocation[RootRun] # Nil /\ Len(result[RootRun]) = 5
        /\ \A k \in 1 .. 5 : \E e \in stepJournal :
             e.run = RootRun /\ e.seq = k /\ e.output = result[RootRun][k]
    <3>1. RootRun \in Runs
      BY RunNames
    <3>2. /\ invocation[RootRun] # Nil /\ Len(result[RootRun]) = Len(Steps(RootRun))
          /\ \A k \in 1 .. Len(Steps(RootRun)) : \E e \in stepJournal :
               e.run = RootRun /\ e.seq = k /\ e.output = result[RootRun][k]
      BY <1>1, <3>1, WholeRun
    <3>3. QED
      BY <1>2, <3>2
  <2>2. QED
    BY <2>1 DEF trajectory
<1>4. StepsJournaled(RootRun) = AllSteps("HitlAgentRun")
  <2>1. AllSteps("HitlAgentRun") = {HitlSteps[k] : k \in 1 .. 5}
    BY DEF AllSteps, StepsOf, HitlSteps
  <2>2. \A e \in trajectory(RootRun) : e.seq \in 1 .. 5 /\ e.step = HitlSteps[e.seq]
    BY RunNames, HitlRows
  <2>3. QED
    BY <1>3, <2>1, <2>2 DEF StepsJournaled
<1>5. PICK a \in trajectory(RootRun) : a.seq = 3
  BY <1>3
<1>6. /\ a.step = "hitl-input" /\ MadeOf(RootRun, a.step, a.output)
      /\ a \in stepJournal /\ a.run = RootRun
  BY <1>5, RunNames, HitlRows DEF HitlSteps
<1>7. promise[RootRun] = "first" /\ a.output.ext = "first"
  BY <1>1, <1>6, RunNames DEF MadeOf, InputsInOrder
<1>8. OutputAt(LiveSource, RootRun, 3).ext = "first"
  BY <1>1, <1>5, <1>7, OutputOf
<1>9. hitlStateFromSource(LiveSource, RootRun) = "resumed"
  <2>1. PICK p \in trajectory(RootRun) : p.seq = 2
    BY <1>3
  <2>2. p.step = "hitl-pause"
    BY <2>1, RunNames, HitlRows DEF HitlSteps
  <2>3. QED
    BY <1>6, <2>2, LiveSteps DEF hitlStateFromSource, Shows
<1>10. countEffects(RootRun, "step4-tool_call") = 1
  <2>1. PICK t \in trajectory(RootRun) : t.seq = 4
    BY <1>3
  <2>2. t.step = "step4-tool_call" /\ t.seededFrom = Nil /\ t \in stepJournal /\ t.run = RootRun
    BY <2>1, RunNames, HitlRows DEF HitlSteps
  <2>3. FiredAs(RootRun, t.output.ext)
    BY <1>1, <2>2 DEF OneEffectPerRun, ToolSteps
  <2>4. PICK f \in effectLog : f.run = RootRun
    BY <2>3 DEF FiredAs
  <2>5. effectsFor(RootRun) = {f}
    BY <1>1, <2>4 DEF OneEffectPerRun, effectsFor
  <2>6. PICK k \in 1 .. Len(Steps(RootRun)) :
          Steps(RootRun)[k] \in ToolSteps /\ f.key = IdemKey(RootRun, Steps(RootRun)[k])
    BY <1>1, <2>4 DEF EffectRows
  <2>7. Steps(RootRun)[k] = "step4-tool_call"
    BY <1>2, <2>6 DEF HitlSteps, ToolSteps
  <2>8. EffectStep(f) = "step4-tool_call"
    BY <2>6, <2>7 DEF EffectStep, IdemKey
  <2>9. {g \in effectsFor(RootRun) : EffectStep(g) = "step4-tool_call"} = {f}
    BY <2>5, <2>8
  <2>10. QED
    BY <2>9, FS_Singleton DEF countEffects
<1>11. [seq |-> 3, ext |-> "first"] \in Answer(RootRun).folds
  <2>1. PICK s \in trajectory(RootRun) : s.seq = 5 /\ s.output = result[RootRun][5]
    BY <1>3
  <2>2. /\ s.step = "step5-summarize" /\ MadeOf(RootRun, s.step, s.output)
        /\ s \in stepJournal /\ s.run = RootRun
    BY <2>1, RunNames, HitlRows DEF HitlSteps
  <2>3. 3 \in OutputReads("step5-summarize")
    BY DEF OutputReads, OutputUses, Seqs, MaxSeq
  <2>4. PICK x \in s.output.folds : x.seq = 3
    BY <2>2, <2>3 DEF MadeOf
  <2>5. Recorded(RootRun, 3, a.output) /\ FoldsJournaled(RootRun, s.output.folds)
    BY <1>1, <1>5, <1>6, <2>2 DEF OutputsFromJournal, Recorded
  <2>6. x.ext = "first"
    BY <1>1, <1>5, <1>6, <1>7, <2>4, <2>5 DEF FoldsJournaled, Recorded, OneRowPerStep, WorkflowIInv
  <2>7. x \in [seq : Seqs, ext : Ext]
    BY <1>1, <2>2, <2>4 DEF StepRow, Output, Folds
  <2>8. x = [seq |-> 3, ext |-> "first"]
    BY <2>4, <2>6, <2>7
  <2>9. Answer(RootRun) = s.output
    BY <1>3, <2>1 DEF Answer
  <2>10. QED
    BY <2>4, <2>8, <2>9
<1>12. answers = [i \in 1 .. Len(answers) |-> i = 1]
  BY <1>1 DEF InputsInOrder
<1>13. QED
  BY <1>4, <1>8, <1>9, <1>10, <1>11, <1>12 DEF ResumedCheck

-----------------------------------------------------------------------------
(* What a gate may expect of the commands behind it.                       *)

LEMMA AtCheck ==
  ASSUME GatesIInv, verdict = "running", NEW S, Commands = S
  PROVE  /\ line \in 1 .. Len(S) /\ Command = S[line]
         /\ Earlier = 1 .. line - 1
BY GatesParts DEF Earlier

LEMMA WasDone ==
  ASSUME GatesIInv, NEW i \in Earlier, NEW c, Commands[i] = c
  PROVE  Done(c)
BY DEF GatesIInv, CommandsDone

LEMMA WasSubmitted ==
  ASSUME GatesIInv, NEW i \in Earlier, NEW r, NEW wf,
         Commands[i] = [do |-> "submit", run |-> r, wf |-> wf]
  PROVE  invocation[r] = [wf |-> wf, prompt |-> r]
<1>1. PICK c : c = [do |-> "submit", run |-> r, wf |-> wf]
  OBVIOUS
<1>2. Done(c) /\ c.do = "submit" /\ c.run = r /\ c.wf = wf
  BY <1>1, WasDone
<1>3. QED
  BY <1>2 DEF Done

LEMMA WasAwaited ==
  ASSUME GatesIInv, NEW i \in Earlier, NEW r, Commands[i] = [do |-> "await", run |-> r]
  PROVE  result[r] # Nil
<1>1. PICK c : c = [do |-> "await", run |-> r]
  OBVIOUS
<1>2. Done(c) /\ c.do = "await" /\ c.run = r
  BY <1>1, WasDone
<1>3. QED
  BY <1>2 DEF Done

LEMMA WasSeeded ==
  ASSUME GatesIInv, NEW i \in Earlier, NEW r, NEW s, NEW n,
         Commands[i] = [do |-> "seed", source |-> s, run |-> r, through |-> n]
  PROVE  runMeta[r] = ForkMeta(s, n, r)
<1>1. PICK c : c = [do |-> "seed", source |-> s, run |-> r, through |-> n]
  OBVIOUS
<1>2. Done(c) /\ c.do = "seed" /\ c.run = r /\ c.source = s /\ c.through = n
  BY <1>1, WasDone
<1>3. QED
  BY <1>2 DEF Done

LEMMA WasPaused ==
  ASSUME GatesIInv, NEW i \in Earlier, NEW r, Commands[i] = [do |-> "paused", run |-> r]
  PROVE  Shows(LiveSource, r, "hitl-pause")
<1>1. PICK c : c = [do |-> "paused", run |-> r]
  OBVIOUS
<1>2. Done(c) /\ c.do = "paused" /\ c.run = r
  BY <1>1, WasDone
<1>3. QED
  BY <1>2 DEF Done

LEMMA WasRun ==
  ASSUME GatesIInv, NEW i \in Earlier, NEW j \in Earlier, NEW r,
         Commands[i] = [do |-> "submit", run |-> r, wf |-> "AgentRun"],
         Commands[j] = [do |-> "await", run |-> r]
  PROVE  Ran(r)
<1>1. invocation[r] = [wf |-> "AgentRun", prompt |-> r]
  BY WasSubmitted
<1>2. result[r] # Nil
  BY WasAwaited
<1>3. QED
  BY <1>1, <1>2 DEF Ran

LEMMA WasRead ==
  ASSUME GatesIInv, NEW i \in Earlier, Commands[i] = [do |-> "read"]
  PROVE  before = LiveSource
<1>1. Commands[i].do = "read"
  OBVIOUS
<1>2. QED
  BY <1>1 DEF GatesIInv, ReadsStand

(* What no command was about did not happen.                               *)
Untouched(r, what) == \A i \in Earlier : Commands[i].do = what => Commands[i].run # r

LEMMA NeverSeeded ==
  ASSUME GatesIInv, NEW r \in Runs, Untouched(r, "seed")
  PROVE  Parent(r) = Nil /\ ForkPoint(r) = Nil
BY DEF GatesIInv, OnlyOnCommand, DidTo, Untouched

LEMMA NeverMade ==
  ASSUME GatesIInv, NEW r \in Runs, Untouched(r, "seed"), Untouched(r, "submit")
  PROVE  runMeta[r] = Nil
BY DEF GatesIInv, OnlyOnCommand, DidTo, Untouched

LEMMA NeverAnswered ==
  ASSUME GatesIInv, NEW r \in Runs, Untouched(r, "input")
  PROVE  promise[r] = Nil
BY DEF GatesIInv, OnlyOnCommand, DidTo, Untouched

LEMMA OnlyNamed ==
  ASSUME GatesIInv, NEW r \in Runs, runMeta[r] # Nil
  PROVE  r \in Named
<1>1. DidTo(r, "submit") \/ DidTo(r, "seed")
  BY DEF GatesIInv, OnlyOnCommand
<1>2. PICK i \in Earlier : Commands[i].do \in {"submit", "seed"} /\ Commands[i].run = r
  BY <1>1 DEF DidTo
<1>3. i \in 1 .. Len(Commands) /\ WellTyped(Commands)
  BY GatesParts DEF WellFormed
<1>4. QED
  BY <1>2, <1>3 DEF WellTyped, Named

-----------------------------------------------------------------------------
(* Every gate's checks.                                                    *)

(* A crash at any of the seven points.                                     *)
LEMMA CrashPasses ==
  ASSUME GatesIInv, verdict = "running", Command.do = "check",
         NEW p \in CrashPoints, Commands = crashGate(p)
  PROVE  Holds(Command.what)
<1>1. PICK S : S = crashGate(p)
  OBVIOUS
<1>2. /\ Len(S) = 7
      /\ S[1] = [do |-> "start", provider |-> "fake-echo", point |-> p]
      /\ S[2] = [do |-> "submit", run |-> RootRun, wf |-> "AgentRun"]
      /\ S[3] = [do |-> "died"]
      /\ S[4] = [do |-> "kill"]
      /\ S[5] = [do |-> "start", provider |-> "fake-echo", point |-> p]
      /\ S[6] = [do |-> "await", run |-> RootRun]
      /\ S[7] = [do |-> "check", what |-> "crash"]
  BY <1>1, CrashScript
<1>3. PICK k : k = line /\ k = 7 /\ Command = S[k] /\ Earlier = 1 .. 6
  <2>1. PICK k : k = line
    OBVIOUS
  <2>2. k \in 1 .. 7 /\ Command = S[k] /\ Earlier = 1 .. k - 1
    BY <1>1, <1>2, <2>1, AtCheck
  <2>3. k = 7
    BY <1>2, <2>2
  <2>4. QED
    BY <2>1, <2>2, <2>3
<1>4. Commands = S
  BY <1>1
<1>5. Untouched(RootRun, "seed")
  BY <1>2, <1>3, <1>4 DEF Untouched
<1>6. Ran(RootRun)
  <2>1. 2 \in Earlier /\ 6 \in Earlier
    BY <1>3
  <2>2. QED
    BY <1>2, <1>4, <2>1, WasRun
<1>7. IsRoot(RootRun)
  BY <1>5, <1>6, RunNames, NeverSeeded DEF IsRoot
<1>8. Command.what = "crash"
  BY <1>2, <1>3
<1>9. QED
  BY <1>7, <1>8, CrashHolds DEF Holds

(* A second submission.                                                    *)
LEMMA ConcurrencyPasses ==
  ASSUME GatesIInv, verdict = "running", Commands = concurrencyGate, Command.do = "check"
  PROVE  Holds(Command.what)
<1>1. PICK k : k = line /\ k \in {5} /\ Command = concurrencyGate[k] /\ Earlier = 1 .. k - 1
  <2>1. PICK k : k = line
    OBVIOUS
  <2>2. k \in 1 .. 5 /\ Command = concurrencyGate[k] /\ Earlier = 1 .. k - 1
    BY <2>1, AtCheck, ConcurrencyScript
  <2>3. k \in {5}
    BY <2>2, ConcurrencyScript
  <2>4. QED
    BY <2>1, <2>2, <2>3
<1>2. Untouched(RootRun, "seed")
  BY <1>1, RunNames, ConcurrencyScript DEF Untouched
<1>3. Ran(RootRun)
  <2>1. 2 \in Earlier /\ 4 \in Earlier
    BY <1>1
  <2>2. QED
    BY <2>1, WasRun, ConcurrencyScript
<1>4. IsRoot(RootRun)
  BY <1>2, <1>3, RunNames, NeverSeeded DEF IsRoot
<1>5. Command.what = "crash"
  BY <1>1, ConcurrencyScript
<1>6. QED
  BY <1>5, <1>4, CrashHolds DEF Holds

(* A fork.                                                                 *)
LEMMA ForkPasses ==
  ASSUME GatesIInv, verdict = "running", Commands = forkGate, Command.do = "check"
  PROVE  Holds(Command.what)
<1>1. PICK k : k = line /\ k \in {7} /\ Command = forkGate[k] /\ Earlier = 1 .. k - 1
  <2>1. PICK k : k = line
    OBVIOUS
  <2>2. k \in 1 .. 7 /\ Command = forkGate[k] /\ Earlier = 1 .. k - 1
    BY <2>1, AtCheck, ForkScript
  <2>3. k \in {7}
    BY <2>2, ForkScript
  <2>4. QED
    BY <2>1, <2>2, <2>3
<1>2. Untouched(RootRun, "seed")
  BY <1>1, RunNames, ForkScript DEF Untouched
<1>3. Ran(RootRun)
  <2>1. 2 \in Earlier /\ 3 \in Earlier
    BY <1>1
  <2>2. QED
    BY <2>1, WasRun, ForkScript
<1>4. IsRoot(RootRun)
  BY <1>2, <1>3, RunNames, NeverSeeded DEF IsRoot
<1>5. Ran(ForkA)
  <2>1. 5 \in Earlier /\ 6 \in Earlier
    BY <1>1
  <2>2. QED
    BY <2>1, WasRun, ForkScript
<1>6. runMeta[ForkA] = ForkMeta(RootRun, 2, ForkA)
  <2>1. 4 \in Earlier
    BY <1>1
  <2>2. QED
    BY <2>1, WasSeeded, ForkScript
<1>7. IsFork(ForkA, RootRun, 2)
  BY <1>5, <1>6 DEF IsFork
<1>8. Command.what = "fork"
  BY <1>1, ForkScript
<1>9. QED
  BY <1>8, <1>4, <1>7, ForkHolds DEF Holds

(* Forks of forks.                                                         *)
LEMMA MultiLevelPasses ==
  ASSUME GatesIInv, verdict = "running", Commands = multiLevelForkGate, Command.do = "check"
  PROVE  Holds(Command.what)
<1>1. PICK k : k = line /\ k \in {13} /\ Command = multiLevelForkGate[k] /\ Earlier = 1 .. k - 1
  <2>1. PICK k : k = line
    OBVIOUS
  <2>2. k \in 1 .. 13 /\ Command = multiLevelForkGate[k] /\ Earlier = 1 .. k - 1
    BY <2>1, AtCheck, MultiLevelScript
  <2>3. k \in {13}
    BY <2>2, MultiLevelScript
  <2>4. QED
    BY <2>1, <2>2, <2>3
<1>2. Untouched(RootRun, "seed")
  BY <1>1, RunNames, MultiLevelScript DEF Untouched
<1>3. Ran(RootRun)
  <2>1. 2 \in Earlier /\ 3 \in Earlier
    BY <1>1
  <2>2. QED
    BY <2>1, WasRun, MultiLevelScript
<1>4. IsRoot(RootRun)
  BY <1>2, <1>3, RunNames, NeverSeeded DEF IsRoot
<1>5. Ran(ForkA)
  <2>1. 5 \in Earlier /\ 6 \in Earlier
    BY <1>1
  <2>2. QED
    BY <2>1, WasRun, MultiLevelScript
<1>6. runMeta[ForkA] = ForkMeta(RootRun, 2, ForkA)
  <2>1. 4 \in Earlier
    BY <1>1
  <2>2. QED
    BY <2>1, WasSeeded, MultiLevelScript
<1>7. IsFork(ForkA, RootRun, 2)
  BY <1>5, <1>6 DEF IsFork
<1>8. Ran(ForkB)
  <2>1. 8 \in Earlier /\ 9 \in Earlier
    BY <1>1
  <2>2. QED
    BY <2>1, WasRun, MultiLevelScript
<1>9. runMeta[ForkB] = ForkMeta(ForkA, 2, ForkB)
  <2>1. 7 \in Earlier
    BY <1>1
  <2>2. QED
    BY <2>1, WasSeeded, MultiLevelScript
<1>10. IsFork(ForkB, ForkA, 2)
  BY <1>8, <1>9 DEF IsFork
<1>11. Ran(SubFork)
  <2>1. 11 \in Earlier /\ 12 \in Earlier
    BY <1>1
  <2>2. QED
    BY <2>1, WasRun, MultiLevelScript
<1>12. runMeta[SubFork] = ForkMeta(ForkB, 2, SubFork)
  <2>1. 10 \in Earlier
    BY <1>1
  <2>2. QED
    BY <2>1, WasSeeded, MultiLevelScript
<1>13. IsFork(SubFork, ForkB, 2)
  BY <1>11, <1>12 DEF IsFork
<1>14. Command.what = "multiLevelFork"
  BY <1>1, MultiLevelScript
<1>15. QED
  BY <1>14, <1>4, <1>7, <1>10, <1>13, MultiLevelHolds DEF Holds

(* Forks side by side.                                                     *)
LEMMA ConcurrentPasses ==
  ASSUME GatesIInv, verdict = "running", Commands = concurrentForksGate, Command.do = "check"
  PROVE  Holds(Command.what)
<1>1. PICK k : k = line /\ k \in {10} /\ Command = concurrentForksGate[k] /\ Earlier = 1 .. k - 1
  <2>1. PICK k : k = line
    OBVIOUS
  <2>2. k \in 1 .. 10 /\ Command = concurrentForksGate[k] /\ Earlier = 1 .. k - 1
    BY <2>1, AtCheck, ConcurrentScript
  <2>3. k \in {10}
    BY <2>2, ConcurrentScript
  <2>4. QED
    BY <2>1, <2>2, <2>3
<1>2. Untouched(RootRun, "seed")
  BY <1>1, RunNames, ConcurrentScript DEF Untouched
<1>3. Ran(RootRun)
  <2>1. 2 \in Earlier /\ 3 \in Earlier
    BY <1>1
  <2>2. QED
    BY <2>1, WasRun, ConcurrentScript
<1>4. IsRoot(RootRun)
  BY <1>2, <1>3, RunNames, NeverSeeded DEF IsRoot
<1>5. Ran(ForkA)
  <2>1. 6 \in Earlier /\ 8 \in Earlier
    BY <1>1
  <2>2. QED
    BY <2>1, WasRun, ConcurrentScript
<1>6. runMeta[ForkA] = ForkMeta(RootRun, 2, ForkA)
  <2>1. 4 \in Earlier
    BY <1>1
  <2>2. QED
    BY <2>1, WasSeeded, ConcurrentScript
<1>7. IsFork(ForkA, RootRun, 2)
  BY <1>5, <1>6 DEF IsFork
<1>8. Ran(ForkB)
  <2>1. 7 \in Earlier /\ 9 \in Earlier
    BY <1>1
  <2>2. QED
    BY <2>1, WasRun, ConcurrentScript
<1>9. runMeta[ForkB] = ForkMeta(RootRun, 2, ForkB)
  <2>1. 5 \in Earlier
    BY <1>1
  <2>2. QED
    BY <2>1, WasSeeded, ConcurrentScript
<1>10. IsFork(ForkB, RootRun, 2)
  BY <1>8, <1>9 DEF IsFork
<1>11. Command.what = "concurrentForks"
  BY <1>1, ConcurrentScript
<1>12. QED
  BY <1>11, <1>4, <1>7, <1>10, ConcurrentHolds DEF Holds

(* A crash in a fork, at its own tool step.                                *)
LEMMA NewEffectPasses ==
  ASSUME GatesIInv, verdict = "running", Commands = crashDuringForkNewEffectGate, Command.do = "check"
  PROVE  Holds(Command.what)
<1>1. PICK k : k = line /\ k \in {12} /\ Command = crashDuringForkNewEffectGate[k] /\ Earlier = 1 .. k - 1
  <2>1. PICK k : k = line
    OBVIOUS
  <2>2. k \in 1 .. 12 /\ Command = crashDuringForkNewEffectGate[k] /\ Earlier = 1 .. k - 1
    BY <2>1, AtCheck, NewEffectScript
  <2>3. k \in {12}
    BY <2>2, NewEffectScript
  <2>4. QED
    BY <2>1, <2>2, <2>3
<1>2. Untouched(RootRun, "seed")
  BY <1>1, RunNames, NewEffectScript DEF Untouched
<1>3. Ran(RootRun)
  <2>1. 2 \in Earlier /\ 3 \in Earlier
    BY <1>1
  <2>2. QED
    BY <2>1, WasRun, NewEffectScript
<1>4. IsRoot(RootRun)
  BY <1>2, <1>3, RunNames, NeverSeeded DEF IsRoot
<1>5. Ran(ForkA)
  <2>1. 7 \in Earlier /\ 11 \in Earlier
    BY <1>1
  <2>2. QED
    BY <2>1, WasRun, NewEffectScript
<1>6. runMeta[ForkA] = ForkMeta(RootRun, 1, ForkA)
  <2>1. 5 \in Earlier
    BY <1>1
  <2>2. QED
    BY <2>1, WasSeeded, NewEffectScript
<1>7. IsFork(ForkA, RootRun, 1)
  BY <1>5, <1>6 DEF IsFork
<1>8. Command.what = "newEffect"
  BY <1>1, NewEffectScript
<1>9. QED
  BY <1>8, <1>4, <1>7, CrashDuringForkHolds DEF Holds

(* A crash in a fork, past a seeded tool step.                             *)
LEMMA SeededEffectPasses ==
  ASSUME GatesIInv, verdict = "running", Commands = crashDuringForkSeededGate, Command.do = "check"
  PROVE  Holds(Command.what)
<1>1. PICK k : k = line /\ k \in {12} /\ Command = crashDuringForkSeededGate[k] /\ Earlier = 1 .. k - 1
  <2>1. PICK k : k = line
    OBVIOUS
  <2>2. k \in 1 .. 12 /\ Command = crashDuringForkSeededGate[k] /\ Earlier = 1 .. k - 1
    BY <2>1, AtCheck, SeededEffectScript
  <2>3. k \in {12}
    BY <2>2, SeededEffectScript
  <2>4. QED
    BY <2>1, <2>2, <2>3
<1>2. Untouched(RootRun, "seed")
  BY <1>1, RunNames, SeededEffectScript DEF Untouched
<1>3. Ran(RootRun)
  <2>1. 2 \in Earlier /\ 3 \in Earlier
    BY <1>1
  <2>2. QED
    BY <2>1, WasRun, SeededEffectScript
<1>4. IsRoot(RootRun)
  BY <1>2, <1>3, RunNames, NeverSeeded DEF IsRoot
<1>5. Ran(ForkA)
  <2>1. 7 \in Earlier /\ 11 \in Earlier
    BY <1>1
  <2>2. QED
    BY <2>1, WasRun, SeededEffectScript
<1>6. runMeta[ForkA] = ForkMeta(RootRun, 2, ForkA)
  <2>1. 5 \in Earlier
    BY <1>1
  <2>2. QED
    BY <2>1, WasSeeded, SeededEffectScript
<1>7. IsFork(ForkA, RootRun, 2)
  BY <1>5, <1>6 DEF IsFork
<1>8. Command.what = "seededEffect"
  BY <1>1, SeededEffectScript
<1>9. QED
  BY <1>8, <1>4, <1>7, CrashDuringForkHolds DEF Holds

(* The validation of fork plans.                                           *)
LEMMA ValidationPasses ==
  ASSUME GatesIInv, verdict = "running", Commands = forkValidationGate, Command.do = "check"
  PROVE  Holds(Command.what)
<1>1. PICK k : k = line /\ k \in {4} /\ Command = forkValidationGate[k] /\ Earlier = 1 .. k - 1
  <2>1. PICK k : k = line
    OBVIOUS
  <2>2. k \in 1 .. 4 /\ Command = forkValidationGate[k] /\ Earlier = 1 .. k - 1
    BY <2>1, AtCheck, ValidationScript
  <2>3. k \in {4}
    BY <2>2, ValidationScript
  <2>4. QED
    BY <2>1, <2>2, <2>3
<1>2. Untouched(RootRun, "seed")
  BY <1>1, RunNames, ValidationScript DEF Untouched
<1>3. Ran(RootRun)
  <2>1. 2 \in Earlier /\ 3 \in Earlier
    BY <1>1
  <2>2. QED
    BY <2>1, WasRun, ValidationScript
<1>4. IsRoot(RootRun)
  BY <1>2, <1>3, RunNames, NeverSeeded DEF IsRoot
<1>5. Untouched(ForkA, "seed")
  BY <1>1, RunNames, ValidationScript DEF Untouched
<1>6. Untouched(ForkA, "submit")
  BY <1>1, RunNames, ValidationScript DEF Untouched
<1>7. runMeta[ForkA] = Nil
  BY <1>5, <1>6, RunNames, NeverMade
<1>8. Untouched(SubFork, "seed")
  BY <1>1, RunNames, ValidationScript DEF Untouched
<1>9. Untouched(SubFork, "submit")
  BY <1>1, RunNames, ValidationScript DEF Untouched
<1>10. runMeta[SubFork] = Nil
  BY <1>8, <1>9, RunNames, NeverMade
<1>11. Command.what = "forkValidation"
  BY <1>1, ValidationScript
<1>12. QED
  BY <1>11, <1>4, <1>7, <1>10, ValidationHolds DEF Holds

(* A completed run, awaited again.                                         *)
LEMMA ReplayPasses ==
  ASSUME GatesIInv, verdict = "running", Commands = replayGate, Command.do = "check"
  PROVE  Holds(Command.what)
<1>1. PICK k : k = line /\ k \in {6} /\ Command = replayGate[k] /\ Earlier = 1 .. k - 1
  <2>1. PICK k : k = line
    OBVIOUS
  <2>2. k \in 1 .. 6 /\ Command = replayGate[k] /\ Earlier = 1 .. k - 1
    BY <2>1, AtCheck, ReplayScript
  <2>3. k \in {6}
    BY <2>2, ReplayScript
  <2>4. QED
    BY <2>1, <2>2, <2>3
<1>2. Untouched(RootRun, "seed")
  BY <1>1, RunNames, ReplayScript DEF Untouched
<1>3. Ran(RootRun)
  <2>1. 2 \in Earlier /\ 3 \in Earlier
    BY <1>1
  <2>2. QED
    BY <2>1, WasRun, ReplayScript
<1>4. IsRoot(RootRun)
  BY <1>2, <1>3, RunNames, NeverSeeded DEF IsRoot
<1>5. before = LiveSource
  <2>1. 4 \in Earlier
    BY <1>1
  <2>2. QED
    BY <2>1, WasRead, ReplayScript
<1>6. Command.what = "replay"
  BY <1>1, ReplayScript
<1>7. QED
  BY <1>6, <1>4, <1>5, ReplayHolds DEF Holds

(* Two services, one after the other.                                      *)
LEMMA DeployPasses ==
  ASSUME GatesIInv, verdict = "running", Commands = g3DeployNeutrality, Command.do = "check"
  PROVE  Holds(Command.what)
<1>1. PICK k : k = line /\ k \in {9} /\ Command = g3DeployNeutrality[k] /\ Earlier = 1 .. k - 1
  <2>1. PICK k : k = line
    OBVIOUS
  <2>2. k \in 1 .. 9 /\ Command = g3DeployNeutrality[k] /\ Earlier = 1 .. k - 1
    BY <2>1, AtCheck, DeployScript
  <2>3. k \in {9}
    BY <2>2, DeployScript
  <2>4. QED
    BY <2>1, <2>2, <2>3
<1>2. Untouched(RootRun, "seed")
  BY <1>1, RunNames, DeployScript DEF Untouched
<1>3. Ran(RootRun)
  <2>1. 2 \in Earlier /\ 3 \in Earlier
    BY <1>1
  <2>2. QED
    BY <2>1, WasRun, DeployScript
<1>4. IsRoot(RootRun)
  BY <1>2, <1>3, RunNames, NeverSeeded DEF IsRoot
<1>5. Untouched(ForkA, "seed")
  BY <1>1, RunNames, DeployScript DEF Untouched
<1>6. Ran(ForkA)
  <2>1. 6 \in Earlier /\ 7 \in Earlier
    BY <1>1
  <2>2. QED
    BY <2>1, WasRun, DeployScript
<1>7. IsRoot(ForkA)
  BY <1>5, <1>6, RunNames, NeverSeeded DEF IsRoot
<1>8. Command.what = "answered"
  BY <1>1, DeployScript
<1>9. QED
  BY <1>8, <1>4, <1>7, AnsweredHolds DEF Holds

(* The journal of both, exported.                                          *)
LEMMA PortabilityPasses ==
  ASSUME GatesIInv, verdict = "running", Commands = g4Portability, Command.do = "check"
  PROVE  Holds(Command.what)
<1>1. PICK k : k = line /\ k \in {10} /\ Command = g4Portability[k] /\ Earlier = 1 .. k - 1
  <2>1. PICK k : k = line
    OBVIOUS
  <2>2. k \in 1 .. 10 /\ Command = g4Portability[k] /\ Earlier = 1 .. k - 1
    BY <2>1, AtCheck, PortabilityScript
  <2>3. k \in {10}
    BY <2>2, PortabilityScript
  <2>4. QED
    BY <2>1, <2>2, <2>3
<1>2. before = LiveSource
  <2>1. 9 \in Earlier
    BY <1>1
  <2>2. QED
    BY <2>1, WasRead, PortabilityScript
<1>3. Command.what = "offline"
  BY <1>1, PortabilityScript
<1>4. QED
  BY <1>3, <1>2, OfflineHolds DEF Holds

(* Each run planned by its provider.                                       *)
LEMMA NeutralityPasses ==
  ASSUME GatesIInv, verdict = "running", Commands = g1ModelNeutrality, Command.do = "check"
  PROVE  Holds(Command.what)
<1>1. PICK k : k = line /\ k \in {9} /\ Command = g1ModelNeutrality[k] /\ Earlier = 1 .. k - 1
  <2>1. PICK k : k = line
    OBVIOUS
  <2>2. k \in 1 .. 9 /\ Command = g1ModelNeutrality[k] /\ Earlier = 1 .. k - 1
    BY <2>1, AtCheck, NeutralityScript
  <2>3. k \in {9}
    BY <2>2, NeutralityScript
  <2>4. QED
    BY <2>1, <2>2, <2>3
<1>2. Untouched(RootRun, "seed")
  BY <1>1, RunNames, NeutralityScript DEF Untouched
<1>3. Ran(RootRun)
  <2>1. 2 \in Earlier /\ 3 \in Earlier
    BY <1>1
  <2>2. QED
    BY <2>1, WasRun, NeutralityScript
<1>4. IsRoot(RootRun)
  BY <1>2, <1>3, RunNames, NeverSeeded DEF IsRoot
<1>5. \A q : Provided(RootRun, q) => q = "fake-echo"
  <2>1. SUFFICES ASSUME NEW q, Provided(RootRun, q) PROVE q = "fake-echo"
    OBVIOUS
  <2>2. PICK i, m \in 1 .. 8 :
          /\ g1ModelNeutrality[i].do = "start" /\ g1ModelNeutrality[i].provider = q
          /\ g1ModelNeutrality[m].do = "submit" /\ g1ModelNeutrality[m].run = RootRun
          /\ \A j \in 1 .. i - 1 : ~(g1ModelNeutrality[j].do = "await" /\ g1ModelNeutrality[j].run = RootRun)
          /\ \A j \in i + 1 .. m : g1ModelNeutrality[j].do # "start"
    BY <1>1, <2>1 DEF Provided, Awaits
  <2>3. QED
    BY <2>2, NeutralityScript, RunNames
<1>6. PlannedBy(RootRun, "fake-echo")
  BY <1>4, <1>5, RunNames, PlannedIs
<1>7. Untouched(ForkA, "seed")
  BY <1>1, RunNames, NeutralityScript DEF Untouched
<1>8. Ran(ForkA)
  <2>1. 6 \in Earlier /\ 7 \in Earlier
    BY <1>1
  <2>2. QED
    BY <2>1, WasRun, NeutralityScript
<1>9. IsRoot(ForkA)
  BY <1>7, <1>8, RunNames, NeverSeeded DEF IsRoot
<1>10. \A q : Provided(ForkA, q) => q = "fake-upper"
  <2>1. SUFFICES ASSUME NEW q, Provided(ForkA, q) PROVE q = "fake-upper"
    OBVIOUS
  <2>2. PICK i, m \in 1 .. 8 :
          /\ g1ModelNeutrality[i].do = "start" /\ g1ModelNeutrality[i].provider = q
          /\ g1ModelNeutrality[m].do = "submit" /\ g1ModelNeutrality[m].run = ForkA
          /\ \A j \in 1 .. i - 1 : ~(g1ModelNeutrality[j].do = "await" /\ g1ModelNeutrality[j].run = ForkA)
          /\ \A j \in i + 1 .. m : g1ModelNeutrality[j].do # "start"
    BY <1>1, <2>1 DEF Provided, Awaits
  <2>3. QED
    BY <2>2, NeutralityScript, RunNames
<1>11. PlannedBy(ForkA, "fake-upper")
  BY <1>9, <1>10, RunNames, PlannedIs
<1>12. Command.what = "neutral"
  BY <1>1, NeutralityScript
<1>13. QED
  BY <1>12, <1>6, <1>11 DEF Holds, NeutralCheck

(* A fork, its lineage and where it diverges.                              *)
LEMMA NoRefirePasses ==
  ASSUME GatesIInv, verdict = "running", Commands = forkNoRefireGate, Command.do = "check"
  PROVE  Holds(Command.what)
<1>1. PICK k : k = line /\ k \in {7, 8} /\ Command = forkNoRefireGate[k] /\ Earlier = 1 .. k - 1
  <2>1. PICK k : k = line
    OBVIOUS
  <2>2. k \in 1 .. 8 /\ Command = forkNoRefireGate[k] /\ Earlier = 1 .. k - 1
    BY <2>1, AtCheck, NoRefireScript
  <2>3. k \in {7, 8}
    BY <2>2, NoRefireScript
  <2>4. QED
    BY <2>1, <2>2, <2>3
<1>2. Untouched(RootRun, "seed")
  BY <1>1, RunNames, NoRefireScript DEF Untouched
<1>3. Ran(RootRun)
  <2>1. 2 \in Earlier /\ 3 \in Earlier
    BY <1>1
  <2>2. QED
    BY <2>1, WasRun, NoRefireScript
<1>4. IsRoot(RootRun)
  BY <1>2, <1>3, RunNames, NeverSeeded DEF IsRoot
<1>5. runMeta[RootRun].forkedAt = Nil
  BY RunNames, <1>2, <1>4, RanMeta, NeverSeeded DEF ForkPoint, IsRoot
<1>6. Ran(ForkA)
  <2>1. 5 \in Earlier /\ 6 \in Earlier
    BY <1>1
  <2>2. QED
    BY <2>1, WasRun, NoRefireScript
<1>7. runMeta[ForkA] = ForkMeta(RootRun, 2, ForkA)
  <2>1. 4 \in Earlier
    BY <1>1
  <2>2. QED
    BY <2>1, WasSeeded, NoRefireScript
<1>8. IsFork(ForkA, RootRun, 2)
  BY <1>6, <1>7 DEF IsFork
<1>9. CASE k = 7
  BY <1>1, <1>9, NoRefireScript, <1>4, <1>8, ForkHolds DEF Holds
<1>10. CASE k = 8
  BY <1>1, <1>10, NoRefireScript, <1>4, <1>5, <1>8, ForkNoRefireHolds DEF Holds
<1>11. QED
  BY <1>1, <1>9, <1>10

(* A crash and a recovery under the other provider.                        *)
LEMMA SwitchPasses ==
  ASSUME GatesIInv, verdict = "running", Commands = g2DurabilityUnderSwitch, Command.do = "check"
  PROVE  Holds(Command.what)
<1>1. PICK k : k = line /\ k \in {7, 8} /\ Command = g2DurabilityUnderSwitch[k] /\ Earlier = 1 .. k - 1
  <2>1. PICK k : k = line
    OBVIOUS
  <2>2. k \in 1 .. 8 /\ Command = g2DurabilityUnderSwitch[k] /\ Earlier = 1 .. k - 1
    BY <2>1, AtCheck, SwitchScript
  <2>3. k \in {7, 8}
    BY <2>2, SwitchScript
  <2>4. QED
    BY <2>1, <2>2, <2>3
<1>2. Untouched(RootRun, "seed")
  BY <1>1, RunNames, SwitchScript DEF Untouched
<1>3. Ran(RootRun)
  <2>1. 2 \in Earlier /\ 6 \in Earlier
    BY <1>1
  <2>2. QED
    BY <2>1, WasRun, SwitchScript
<1>4. IsRoot(RootRun)
  BY <1>2, <1>3, RunNames, NeverSeeded DEF IsRoot
<1>5. \A q : Provided(RootRun, q) => q = "fake-upper"
  <2>1. SUFFICES ASSUME NEW q, Provided(RootRun, q) PROVE q = "fake-upper"
    OBVIOUS
  <2>2. PICK i \in 1 .. 7 :
          g2DurabilityUnderSwitch[i].do = "start" /\ g2DurabilityUnderSwitch[i].provider = q
    BY <1>1, <2>1 DEF Provided
  <2>3. QED
    BY <2>2, SwitchScript
<1>6. CASE k = 7
  BY <1>1, <1>6, SwitchScript, <1>4, CrashHolds DEF Holds
<1>7. CASE k = 8
  BY <1>1, <1>7, SwitchScript, <1>4, <1>5, RunNames, PlannedIs DEF Holds
<1>8. QED
  BY <1>1, <1>6, <1>7

(* Replay, offline.                                                        *)
LEMMA OfflinePasses ==
  ASSUME GatesIInv, verdict = "running", Commands = replayOfflineGate, Command.do = "check"
  PROVE  Holds(Command.what)
<1>1. PICK k : k = line /\ k \in {13, 16, 17, 18, 19} /\ Command = replayOfflineGate[k] /\ Earlier = 1 .. k - 1
  <2>1. PICK k : k = line
    OBVIOUS
  <2>2. k \in 1 .. 19 /\ Command = replayOfflineGate[k] /\ Earlier = 1 .. k - 1
    BY <2>1, AtCheck, OfflineScript
  <2>3. k \in {13, 16, 17, 18, 19}
    BY <2>2, OfflineScript
  <2>4. QED
    BY <2>1, <2>2, <2>3
<1>2. Untouched(RootRun, "seed")
  <2>1. SUFFICES ASSUME NEW i \in Earlier, Commands[i].do = "seed"
                 PROVE  Commands[i].run # RootRun
    BY DEF Untouched
  <2>2. i \in 1 .. 18
    BY <1>1
  <2>3. i \in {4, 7, 10}
    BY <2>1, <2>2, OfflineScript
  <2>4. QED
    BY <2>3, RunNames, OfflineScript
<1>3. Ran(RootRun)
  <2>1. 2 \in Earlier /\ 3 \in Earlier
    BY <1>1
  <2>2. QED
    BY <2>1, WasRun, OfflineScript
<1>4. IsRoot(RootRun)
  BY <1>2, <1>3, RunNames, NeverSeeded DEF IsRoot
<1>5. Ran(ForkA)
  <2>1. 5 \in Earlier /\ 6 \in Earlier
    BY <1>1
  <2>2. QED
    BY <2>1, WasRun, OfflineScript
<1>6. runMeta[ForkA] = ForkMeta(RootRun, 2, ForkA)
  <2>1. 4 \in Earlier
    BY <1>1
  <2>2. QED
    BY <2>1, WasSeeded, OfflineScript
<1>7. IsFork(ForkA, RootRun, 2)
  BY <1>5, <1>6 DEF IsFork
<1>8. Ran(ForkB)
  <2>1. 8 \in Earlier /\ 9 \in Earlier
    BY <1>1
  <2>2. QED
    BY <2>1, WasRun, OfflineScript
<1>9. runMeta[ForkB] = ForkMeta(RootRun, 1, ForkB)
  <2>1. 7 \in Earlier
    BY <1>1
  <2>2. QED
    BY <2>1, WasSeeded, OfflineScript
<1>10. IsFork(ForkB, RootRun, 1)
  BY <1>8, <1>9 DEF IsFork
<1>11. Ran(SubFork)
  <2>1. 11 \in Earlier /\ 12 \in Earlier
    BY <1>1
  <2>2. QED
    BY <2>1, WasRun, OfflineScript
<1>12. runMeta[SubFork] = ForkMeta(ForkB, 2, SubFork)
  <2>1. 10 \in Earlier
    BY <1>1
  <2>2. QED
    BY <2>1, WasSeeded, OfflineScript
<1>13. IsFork(SubFork, ForkB, 2)
  BY <1>11, <1>12 DEF IsFork
<1>14. FamilyMade
  BY <1>4, <1>7, <1>10, <1>13, OnlyNamed DEF FamilyMade
<1>15. k # 13 => before = LiveSource
  <2>1. k # 13 => 14 \in Earlier
    BY <1>1
  <2>2. QED
    BY <2>1, WasRead, OfflineScript
<1>16. CASE k = 13
  BY <1>1, <1>16, OfflineScript, <1>4, ReconstructHolds DEF Holds
<1>17. CASE k = 16
  BY <1>1, <1>17, OfflineScript, <1>15, OfflineHolds DEF Holds
<1>18. CASE k = 17
  BY <1>1, <1>18, OfflineScript, <1>14, <1>15, TimeTravelHolds DEF Holds
<1>19. CASE k = 18
  BY <1>1, <1>19, OfflineScript, <1>14, <1>15, TreeAndDiffHolds DEF Holds
<1>20. CASE k = 19
  BY <1>1, <1>20, OfflineScript, <1>14, <1>15, UiApiHolds DEF Holds
<1>21. QED
  BY <1>1, <1>16, <1>17, <1>18, <1>19, <1>20

(* A pause that outlives the service.                                      *)
LEMMA RestartPasses ==
  ASSUME GatesIInv, verdict = "running", Commands = pauseRestartResume, Command.do = "check"
  PROVE  Holds(Command.what)
<1>1. PICK k : k = line /\ k \in {4, 6, 11} /\ Command = pauseRestartResume[k] /\ Earlier = 1 .. k - 1
  <2>1. PICK k : k = line
    OBVIOUS
  <2>2. k \in 1 .. 11 /\ Command = pauseRestartResume[k] /\ Earlier = 1 .. k - 1
    BY <2>1, AtCheck, RestartScript
  <2>3. k \in {4, 6, 11}
    BY <2>2, RestartScript
  <2>4. QED
    BY <2>1, <2>2, <2>3
<1>2. invocation[RootRun] = [wf |-> "HitlAgentRun", prompt |-> RootRun]
  <2>1. 2 \in Earlier
    BY <1>1
  <2>2. QED
    BY <2>1, WasSubmitted, RestartScript
<1>3. Untouched(RootRun, "seed")
  BY <1>1, RunNames, RestartScript DEF Untouched
<1>4. IsHitl(RootRun)
  BY <1>2, <1>3, RunNames, NeverSeeded DEF IsHitl
<1>5. CASE k = 4
  <2>1. Untouched(RootRun, "input") /\ 3 \in Earlier
    BY <1>1, <1>5, RunNames, RestartScript DEF Untouched
  <2>2. promise[RootRun] = Nil
    BY <2>1, RunNames, NeverAnswered
  <2>3. Shows(LiveSource, RootRun, "hitl-pause")
    BY <2>1, WasPaused, RestartScript
  <2>4. QED
    BY <1>1, <1>5, <2>2, <2>3, <1>4, RestartScript, StillPausedHolds
<1>6. CASE k = 6
  <2>1. Untouched(RootRun, "input") /\ 3 \in Earlier
    BY <1>1, <1>6, RunNames, RestartScript DEF Untouched
  <2>2. promise[RootRun] = Nil
    BY <2>1, RunNames, NeverAnswered
  <2>3. Shows(LiveSource, RootRun, "hitl-pause")
    BY <2>1, WasPaused, RestartScript
  <2>4. QED
    BY <1>1, <1>6, <2>2, <2>3, <1>4, RestartScript, StillPausedHolds
<1>7. CASE k = 11
  <2>1. 10 \in Earlier
    BY <1>1, <1>7
  <2>2. result[RootRun] # Nil
    BY <2>1, WasAwaited, RestartScript
  <2>3. QED
    BY <1>1, <1>7, <2>2, <1>4, RestartScript, ResumedHolds DEF Holds
<1>8. QED
  BY <1>1, <1>5, <1>6, <1>7

(* A crash while the run resumes.                                          *)
LEMMA ResumeCrashPasses ==
  ASSUME GatesIInv, verdict = "running", Commands = crashDuringResume, Command.do = "check"
  PROVE  Holds(Command.what)
<1>1. PICK k : k = line /\ k \in {10} /\ Command = crashDuringResume[k] /\ Earlier = 1 .. k - 1
  <2>1. PICK k : k = line
    OBVIOUS
  <2>2. k \in 1 .. 10 /\ Command = crashDuringResume[k] /\ Earlier = 1 .. k - 1
    BY <2>1, AtCheck, ResumeCrashScript
  <2>3. k \in {10}
    BY <2>2, ResumeCrashScript
  <2>4. QED
    BY <2>1, <2>2, <2>3
<1>2. invocation[RootRun] = [wf |-> "HitlAgentRun", prompt |-> RootRun]
  <2>1. 2 \in Earlier
    BY <1>1
  <2>2. QED
    BY <2>1, WasSubmitted, ResumeCrashScript
<1>3. Untouched(RootRun, "seed")
  BY <1>1, RunNames, ResumeCrashScript DEF Untouched
<1>4. IsHitl(RootRun)
  BY <1>2, <1>3, RunNames, NeverSeeded DEF IsHitl
<1>5. CASE k = 10
  <2>1. 9 \in Earlier
    BY <1>1, <1>5
  <2>2. result[RootRun] # Nil
    BY <2>1, WasAwaited, ResumeCrashScript
  <2>3. QED
    BY <1>1, <1>5, <2>2, <1>4, ResumeCrashScript, ResumedHolds DEF Holds
<1>6. QED
  BY <1>1, <1>5

(* Three decisions.                                                        *)
LEMMA DoubleSubmitPasses ==
  ASSUME GatesIInv, verdict = "running", Commands = doubleSubmit, Command.do = "check"
  PROVE  Holds(Command.what)
<1>1. PICK k : k = line /\ k \in {11} /\ Command = doubleSubmit[k] /\ Earlier = 1 .. k - 1
  <2>1. PICK k : k = line
    OBVIOUS
  <2>2. k \in 1 .. 11 /\ Command = doubleSubmit[k] /\ Earlier = 1 .. k - 1
    BY <2>1, AtCheck, DoubleSubmitScript
  <2>3. k \in {11}
    BY <2>2, DoubleSubmitScript
  <2>4. QED
    BY <2>1, <2>2, <2>3
<1>2. invocation[RootRun] = [wf |-> "HitlAgentRun", prompt |-> RootRun]
  <2>1. 2 \in Earlier
    BY <1>1
  <2>2. QED
    BY <2>1, WasSubmitted, DoubleSubmitScript
<1>3. Untouched(RootRun, "seed")
  BY <1>1, RunNames, DoubleSubmitScript DEF Untouched
<1>4. IsHitl(RootRun)
  BY <1>2, <1>3, RunNames, NeverSeeded DEF IsHitl
<1>5. CASE k = 11
  <2>1. 10 \in Earlier
    BY <1>1, <1>5
  <2>2. result[RootRun] # Nil
    BY <2>1, WasAwaited, DoubleSubmitScript
  <2>3. QED
    BY <1>1, <1>5, <2>2, <1>4, DoubleSubmitScript, ResumedHolds DEF Holds
<1>6. QED
  BY <1>1, <1>5

(* A resumed run, exported.                                                *)
LEMMA ExportPasses ==
  ASSUME GatesIInv, verdict = "running", Commands = hitlExport, Command.do = "check"
  PROVE  Holds(Command.what)
<1>1. PICK k : k = line /\ k \in {9, 10} /\ Command = hitlExport[k] /\ Earlier = 1 .. k - 1
  <2>1. PICK k : k = line
    OBVIOUS
  <2>2. k \in 1 .. 10 /\ Command = hitlExport[k] /\ Earlier = 1 .. k - 1
    BY <2>1, AtCheck, ExportScript
  <2>3. k \in {9, 10}
    BY <2>2, ExportScript
  <2>4. QED
    BY <2>1, <2>2, <2>3
<1>2. invocation[RootRun] = [wf |-> "HitlAgentRun", prompt |-> RootRun]
  <2>1. 2 \in Earlier
    BY <1>1
  <2>2. QED
    BY <2>1, WasSubmitted, ExportScript
<1>3. Untouched(RootRun, "seed")
  BY <1>1, RunNames, ExportScript DEF Untouched
<1>4. IsHitl(RootRun)
  BY <1>2, <1>3, RunNames, NeverSeeded DEF IsHitl
<1>5. CASE k = 9
  <2>1. 7 \in Earlier
    BY <1>1, <1>5
  <2>2. before = LiveSource
    BY <2>1, WasRead, ExportScript
  <2>3. QED
    BY <1>1, <1>5, <2>2, ExportScript, OfflineHolds DEF Holds
<1>6. CASE k = 10
  <2>1. 6 \in Earlier
    BY <1>1, <1>6
  <2>2. result[RootRun] # Nil
    BY <2>1, WasAwaited, ExportScript
  <2>3. QED
    BY <1>1, <1>6, <2>2, <1>4, ExportScript, ResumedHolds DEF Holds
<1>7. QED
  BY <1>1, <1>5, <1>6

(* The pause as the UI drives it.                                          *)
LEMMA WebUiPasses ==
  ASSUME GatesIInv, verdict = "running", Commands = g5HitlWebUiApi, Command.do = "check"
  PROVE  Holds(Command.what)
<1>1. PICK k : k = line /\ k \in {4, 8} /\ Command = g5HitlWebUiApi[k] /\ Earlier = 1 .. k - 1
  <2>1. PICK k : k = line
    OBVIOUS
  <2>2. k \in 1 .. 8 /\ Command = g5HitlWebUiApi[k] /\ Earlier = 1 .. k - 1
    BY <2>1, AtCheck, WebUiScript
  <2>3. k \in {4, 8}
    BY <2>2, WebUiScript
  <2>4. QED
    BY <2>1, <2>2, <2>3
<1>2. invocation[RootRun] = [wf |-> "HitlAgentRun", prompt |-> RootRun]
  <2>1. 2 \in Earlier
    BY <1>1
  <2>2. QED
    BY <2>1, WasSubmitted, WebUiScript
<1>3. Untouched(RootRun, "seed")
  BY <1>1, RunNames, WebUiScript DEF Untouched
<1>4. IsHitl(RootRun)
  BY <1>2, <1>3, RunNames, NeverSeeded DEF IsHitl
<1>5. CASE k = 4
  <2>1. Untouched(RootRun, "input") /\ 3 \in Earlier
    BY <1>1, <1>5, RunNames, WebUiScript DEF Untouched
  <2>2. promise[RootRun] = Nil
    BY <2>1, RunNames, NeverAnswered
  <2>3. Shows(LiveSource, RootRun, "hitl-pause")
    BY <2>1, WasPaused, WebUiScript
  <2>4. QED
    BY <1>1, <1>5, <2>2, <2>3, <1>4, WebUiScript, StillPausedHolds
<1>6. CASE k = 8
  <2>1. 7 \in Earlier
    BY <1>1, <1>6
  <2>2. result[RootRun] # Nil
    BY <2>1, WasAwaited, WebUiScript
  <2>3. QED
    BY <1>1, <1>6, <2>2, <1>4, WebUiScript, ResumedHolds DEF Holds
<1>7. QED
  BY <1>1, <1>5, <1>6

LEMMA ChecksHold ==
  ASSUME GatesIInv, verdict = "running", Command.do = "check"
  PROVE  Holds(Command.what)
<1>1. gate \in CrashPoints \cup DOMAIN Scripts /\ Commands = Script(gate)
  BY GatesRunAssumption DEF GatesIInv, GatesTypeOK, Commands
<1>2. CASE gate \in CrashPoints
  BY <1>1, <1>2, ScriptOf, CrashPasses
<1>3. CASE gate \in DOMAIN Scripts
  <2>1. PICK g : g = gate
    OBVIOUS
  <2>2. g \in {"concurrency", "fork", "replay", "forkNoRefire", "multiLevelFork",
               "concurrentForks", "crashDuringForkNewEffect", "crashDuringForkSeeded",
               "forkValidation", "m3"}
        \cup {"modelNeutrality", "durabilityUnderSwitch", "deployNeutrality", "portability",
              "pauseRestartResume", "crashDuringResume", "doubleSubmit", "hitlExport", "webUi"}
    BY <1>3, <2>1 DEF Scripts
  <2>3. Commands = Script(g)
    BY <1>1, <2>1
  <2>4. CASE g \in {"concurrency", "fork", "replay", "forkNoRefire", "multiLevelFork",
                    "concurrentForks", "crashDuringForkNewEffect", "crashDuringForkSeeded",
                    "forkValidation", "m3"}
    BY <2>3, <2>4, ScriptOf, ConcurrencyPasses, ForkPasses, ReplayPasses, NoRefirePasses,
       MultiLevelPasses, ConcurrentPasses, NewEffectPasses, SeededEffectPasses,
       ValidationPasses, OfflinePasses
  <2>5. CASE g \in {"modelNeutrality", "durabilityUnderSwitch", "deployNeutrality",
                    "portability", "pauseRestartResume", "crashDuringResume",
                    "doubleSubmit", "hitlExport", "webUi"}
    BY <2>3, <2>5, ScriptOf, NeutralityPasses, SwitchPasses, DeployPasses, PortabilityPasses,
       RestartPasses, ResumeCrashPasses, DoubleSubmitPasses, ExportPasses, WebUiPasses
  <2>6. QED
    BY <2>2, <2>4, <2>5
<1>4. QED
  BY <1>1, <1>2, <1>3

(* No gate fails.                                                          *)
LEMMA NoFailures ==
  ASSUME GatesIInv, [GatesNext]_gatesVars
  PROVE  verdict' # "fail"
<1>1. verdict # "fail"
  BY DEF GatesIInv, GatesPass
<1>2. CASE CheckNow
  <2>1. Holds(Command.what)
    BY <1>2, ChecksHold DEF CheckNow, At
  <2>2. QED
    BY <1>2, <2>1 DEF CheckNow
<1>3. CASE GateMove /\ ~CheckNow
  BY <1>1, <1>3 DEF GateMove, GoOn, StartService, KillService, SubmitRun, SeedRun, SendInput,
                    Read, EndWait
<1>4. CASE FetchTimesOut
  BY <1>4 DEF FetchTimesOut
<1>5. CASE Elsewhere
  BY <1>1, <1>5, ElsewhereWaits
<1>6. QED
  BY <1>2, <1>3, <1>4, <1>5, NextIs

-----------------------------------------------------------------------------
(* The invariant, and what it is for.                                      *)

LEMMA GatesNextInv ==
  ASSUME GatesIInv, [GatesNext]_gatesVars
  PROVE  GatesIInv'
<1>1. ForkIInv' /\ GatesTypeOK'
  BY GatesKeep, TypesKept
<1>2. GatesPass'
  BY NoFailures, NoErrors DEF GatesPass
<1>3. CommandsDone' /\ OnlyOnCommand'
  BY CommandsStayDone, OnlyOnCommandKept
<1>4. OutputsAreMade' /\ EffectsFollowInputs' /\ ResultsAreWhole'
  BY OutputsStayMade, EffectsStillFollow, ResultsStayWhole
<1>5. ServiceAsStarted' /\ PlansAreProvided'
  BY ServiceStaysStarted, PlansStayProvided
<1>6. InputsInOrder' /\ ReadsStand'
  BY InputsStayInOrder, ReadsStillStand
<1>7. QED
  BY <1>1, <1>2, <1>3, <1>4, <1>5, <1>6 DEF GatesIInv

(* The invariant of the gates: the workflows and forks stay in order       *)
(* although the service is killed at chosen points and restarted, what a   *)
(* command brought about stands, and nothing happens that no command asked *)
(* for.                                                                    *)
THEOREM GatesInvariant == GatesSpec => []GatesIInv
<1>1. GatesInit => GatesIInv
  BY GatesInitInv
<1>2. GatesIInv /\ [GatesNext]_gatesVars => GatesIInv'
  BY GatesNextInv
<1>3. QED
  BY <1>1, <1>2, PTL DEF GatesSpec

(* A gate does not fail: in whatever order the service, the engine and the *)
(* gate come to act, and wherever in its handlers the service kills        *)
(* itself, every check of run-gate.ts and run-m2-gate.ts to run-m5-gate.ts *)
(* finds what it expects, and only crashDuringResume may end without a     *)
(* verdict.                                                                *)
THEOREM GatesPasses == GatesSpec => []GatesPass
<1>1. GatesIInv => GatesPass
  BY DEF GatesIInv
<1>2. QED
  BY <1>1, GatesInvariant, PTL

(* The invariant of the forks, which ForkProofs proves of the clients of   *)
(* Fork, holds of the gates' runs too: of kills of the whole service and   *)
(* of forks that are seeded by the gate itself (journal.ts forkRun called  *)
(* from the harness).                                                      *)
THEOREM GatesKeepForks == GatesSpec => []ForkIInv
<1>1. GatesIInv => ForkIInv
  BY DEF GatesIInv
<1>2. QED
  BY <1>1, GatesInvariant, PTL

(* What every gate drives implements the promise of DurableRuns: whenever  *)
(* the service kills itself, a journaled step stays, an action is done     *)
(* once, and an outcome is made of journaled steps.                        *)
THEOREM GatesRefine == GatesSpec => ImplementsDurableRuns
<1>1. GatesInit => Promised!Init
  BY DEF GatesInit, ForkInit, WorkflowInit, JournalInit, Promised!Init, Log, Acts
<1>2. GatesIInv /\ GatesIInv' /\ [GatesNext]_gatesVars => [Promised!Next]_(Promised!vars)
  <2>1. SUFFICES ASSUME GatesIInv, [GatesNext]_gatesVars
                 PROVE  [Promised!Next]_(Promised!vars)
    OBVIOUS
  <2>2. ModelStep
    BY <2>1, GatesKeep
  <2>3. QED
    BY <2>1, <2>2, ModelMaps, GatesParts
<1>3. QED
  BY <1>1, <1>2, GatesInvariant, PTL DEF GatesSpec, ImplementsDurableRuns, Promised!Spec

=============================================================================
