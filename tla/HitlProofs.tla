----------------------------- MODULE HitlProofs -----------------------------
(***************************************************************************)
(* The way of a decision (Hitl) keeps the workflow layer's invariant and   *)
(* adds its own: an answer means that the promise is resolved, and the     *)
(* input that is journaled is the promise's value.                         *)
(***************************************************************************)
EXTENDS Hitl, WorkflowProofs

-----------------------------------------------------------------------------
(* Hitl's steps seen from the workflow layer.                              *)

LEMMA PostTyped ==
  ASSUME HitlTypeOK, NEW p \in posts
  PROVE  p.by \in Clients /\ p.run \in Runs /\ p.decision \in Decisions
BY DEF HitlTypeOK, Post

(* A step that is not the workflow layer's leaves it alone or resolves a   *)
(* promise.                                                                *)
LEMMA PostStepMaps ==
  ASSUME HitlTypeOK, PostStep
  PROVE  \/ UNCHANGED workflowVars
         \/ \E r \in Runs, d \in Decisions : ResolvePromise(r, d)
<1>1. PICK p \in posts :
        PeekResolved(p) \/ PeekUnresolved(p) \/ Resolve(p) \/ ResolveAgain(p)
  BY DEF PostStep
<1>2. CASE Resolve(p)
  BY <1>2, PostTyped DEF Resolve
<1>3. CASE PeekResolved(p) \/ PeekUnresolved(p) \/ ResolveAgain(p)
  BY <1>3 DEF PeekResolved, PeekUnresolved, ResolveAgain
<1>4. QED
  BY <1>1, <1>2, <1>3

LEMMA CallStepMaps ==
  ASSUME NEW c \in Clients, CallStep(c) \/ Retry(c) \/ GiveUp(c)
  PROVE  UNCHANGED workflowVars
BY DEF CallStep, SendPost, Answer, Enqueue, Retry, GiveUp

LEMMA FlushStepMaps ==
  ASSUME NEW f \in Flushes, FlushStep(f)
  PROVE  UNCHANGED workflowVars
BY DEF FlushStep, SkipRow, FlushRow, MarkFlushed, CountFailed, EndFlush

LEMMA FrontStepMaps ==
  ASSUME Submit \/ ServerStep
  PROVE  UNCHANGED workflowVars
BY DEF Submit, CliInput, UiInput, ServerStep, TakeExport, ReceiveExport,
       StartOffline, Import, StartLive, StartFlush, StopServer

LEMMA RunStepMaps ==
  ASSUME RunStep
  PROVE  WorkflowNext
BY HitlAssumption DEF RunStep, WorkflowNext, ClientStep

LEMMA HitlStepMaps ==
  ASSUME HitlTypeOK, [HitlNext]_hitlVars
  PROVE  [WorkflowNext]_workflowVars
<1>1. CASE UNCHANGED hitlVars
  BY <1>1 DEF hitlVars, workflowVars
<1>2. CASE PostStep
  BY <1>2, PostStepMaps DEF WorkflowNext, ClientStep
<1>3. QED
  BY <1>1, <1>2, RunStepMaps, CallStepMaps, FlushStepMaps, FrontStepMaps
     DEF HitlNext

(* Promises are resolved by provideInput alone, and only once.             *)
LEMMA HandlersKeepPromises ==
  ASSUME RunStep
  PROVE  promise' = promise
<1>1. ASSUME NEW w \in Workers, HandlerStep(w) PROVE promise' = promise
  <2>1. CASE RecordStep(w)
    BY <2>1 DEF RecordStep, ReplayStep, MissStep, CallProvider, FireTool,
                ComputeStep, JournalStep, LoseInsert, engineVars
  <2>2. CASE BeginHandler(w) \/ CommitStep(w) \/ Finish(w) \/ Suspend(w) \/ Fenced(w)
    BY <2>2 DEF BeginHandler, CommitStep, Finish, Suspend, Fenced, engineVars
  <2>3. QED
    BY <1>1, <2>1, <2>2 DEF HandlerStep
<1>2. CASE EngineStep
  BY <1>1, <1>2 DEF EngineStep, StartAttempt
<1>3. CASE FaultStep
  BY <1>3 DEF FaultStep, Crash, ProviderFails, LoseConnection
<1>4. CASE \E r \in NativeRuns, p \in Prompts : Invoke(r, "HitlAgentRun", p)
  BY <1>4 DEF Invoke
<1>5. QED
  BY <1>2, <1>3, <1>4 DEF RunStep

LEMMA PromisesStand ==
  ASSUME HitlTypeOK, WorkflowTypeOK, [HitlNext]_hitlVars,
         NEW r \in Runs, promise[r] # Nil
  PROVE  promise'[r] = promise[r]
<1>1. CASE UNCHANGED workflowVars
  BY <1>1 DEF workflowVars
<1>2. CASE RunStep
  BY <1>2, HandlersKeepPromises
<1>3. ASSUME NEW q \in Runs, NEW d \in Decisions, ResolvePromise(q, d)
      PROVE  promise'[r] = promise[r]
  BY <1>3 DEF ResolvePromise, WorkflowTypeOK
<1>4. CASE UNCHANGED hitlVars
  BY <1>4 DEF hitlVars
<1>5. QED
  BY <1>1, <1>2, <1>3, <1>4, PostStepMaps, CallStepMaps, FlushStepMaps,
     FrontStepMaps DEF HitlNext

-----------------------------------------------------------------------------
(* What concerns clients, servers, the queue and flushes.                  *)

FrontInv ==
  /\ HitlTypeOK
  /\ ServersShowExports /\ AnswersFollowDecisions /\ FlushesSendTheirRow
  /\ AnsweredMeansDecided

PromisesKept == \A r \in Runs : promise[r] # Nil => promise'[r] # Nil

LEMMA CallTyped ==
  ASSUME HitlTypeOK, NEW c \in Clients, call[c].phase # "idle"
  PROVE  /\ call[c] \in Call /\ call[c] # NoCall /\ call[c].run \in Runs
         /\ call[c].server \in Servers \cup {Nil}
<1>1. call[c] \in Call
  BY DEF HitlTypeOK, NoCall
<1>2. call[c] # NoCall
  BY DEF NoCall
<1>3. QED
  BY <1>1, <1>2 DEF Call

LEMMA FlushTyped ==
  ASSUME HitlTypeOK, NEW f \in Flushes, flush[f].phase # "idle"
  PROVE  /\ flush[f] \in Flush /\ flush[f] # NoFlush
         /\ flush[f].server \in Servers
         /\ flush[f].todo \subseteq QueueRow
         /\ flush[f].row \in QueueRow \cup {Nil}
<1>1. flush[f] \in Flush
  BY DEF HitlTypeOK, NoFlush
<1>2. flush[f] # NoFlush
  BY DEF NoFlush
<1>3. QED
  BY <1>1, <1>2 DEF Flush

LEMMA ServerTyped ==
  ASSUME HitlTypeOK, NEW s \in Servers
  PROVE  /\ server[s].mode \in {"down", "live", "offline"}
         /\ server[s].mode = "down" <=> server[s] = Down
         /\ server[s].mode = "live" <=> server[s] = Live
         /\ server[s].mode = "offline" => server[s].key \in ExportKeys
BY DEF HitlTypeOK, Down, Live, Offline

(* Steps that leave the front alone.                                       *)
LEMMA FrontFrame ==
  ASSUME FrontInv, PromisesKept, UNCHANGED frontVars
  PROVE  FrontInv'
<1> USE DEF FrontInv, frontVars
<1>1. HitlTypeOK'
  BY DEF HitlTypeOK
<1>2. ServersShowExports' /\ FlushesSendTheirRow'
  BY DEF ServersShowExports, FlushesSendTheirRow
<1>3. AnswersFollowDecisions'
  BY PostTyped DEF AnswersFollowDecisions, PromisesKept
<1>4. \A q \in queue : q.run \in Runs
  BY DEF HitlTypeOK, QueueRow
<1>5. \A c \in Clients : call[c].phase # "idle" => call[c].run \in Runs
  BY CallTyped
<1>6. AnsweredMeansDecided'
  BY <1>4, <1>5 DEF AnsweredMeansDecided, PromisesKept
<1>7. QED
  BY <1>1, <1>2, <1>3, <1>6

(* provideInput.                                                           *)
LEMMA AdvanceInv ==
  ASSUME FrontInv, PromisesKept, NEW p \in posts,
         NEW phase \in {"resolve", "accepted", "duplicate"}, Advance(p, phase),
         phase # "resolve" => promise'[p.run] # Nil,
         UNCHANGED <<call, server, export, queue, flush, losses>>
  PROVE  FrontInv'
<1> USE DEF FrontInv
<1> DEFINE q == [p EXCEPT !.phase = phase]
<1>1. p \in Post /\ posts \subseteq Post
  BY DEF HitlTypeOK
<1>2. /\ q \in Post /\ q.phase = phase /\ q.by = p.by /\ q.key = p.key
      /\ q.try = p.try /\ q.run = p.run
  BY <1>1 DEF Post
<1>3. posts' = (posts \ {p}) \cup {q}
  BY DEF Advance
<1> HIDE DEF q
<1>4. HitlTypeOK'
  BY <1>1, <1>2, <1>3 DEF HitlTypeOK
<1>5. ServersShowExports' /\ FlushesSendTheirRow'
  BY DEF ServersShowExports, FlushesSendTheirRow
<1>6. AnswersFollowDecisions'
  <2>1. ASSUME NEW c \in Clients, call[c].phase = "waiting"
        PROVE  \E x \in posts' : /\ x.by = c /\ x.key = call[c].key
                                 /\ x.try = call[c].try /\ x.run = call[c].run
    <3>1. PICK x \in posts : /\ x.by = c /\ x.key = call[c].key
                             /\ x.try = call[c].try /\ x.run = call[c].run
      BY <2>1 DEF AnswersFollowDecisions
    <3>2. QED
      BY <1>2, <1>3, <3>1
  <2>2. ASSUME NEW x \in posts', x.phase \in {"accepted", "duplicate"}
        PROVE  promise'[x.run] # Nil
    BY <1>2, <1>3, <2>2, PostTyped DEF AnswersFollowDecisions, PromisesKept
  <2>3. QED
    BY <2>1, <2>2 DEF AnswersFollowDecisions
<1>7. \A x \in queue : x.run \in Runs
  BY DEF HitlTypeOK, QueueRow
<1>8. AnsweredMeansDecided'
  BY <1>7, CallTyped DEF AnsweredMeansDecided, PromisesKept
<1>9. QED
  BY <1>4, <1>5, <1>6, <1>8

LEMMA PostStepInv ==
  ASSUME FrontInv, PromisesKept, WorkflowTypeOK, PostStep
  PROVE  FrontInv'
<1>1. PICK p \in posts :
        PeekResolved(p) \/ PeekUnresolved(p) \/ Resolve(p) \/ ResolveAgain(p)
  BY DEF PostStep
<1>2. p.run \in Runs /\ p.decision \in Decisions
  BY PostTyped DEF FrontInv
<1>3. CASE PeekResolved(p)
  BY <1>2, <1>3, AdvanceInv DEF PeekResolved, PromisesKept
<1>4. CASE PeekUnresolved(p)
  BY <1>4, AdvanceInv DEF PeekUnresolved
<1>5. CASE Resolve(p)
  <2>1. promise'[p.run] # Nil
    BY <1>2, <1>5, NilAssumption DEF Resolve, ResolvePromise, WorkflowTypeOK
  <2>2. QED
    BY <1>5, <2>1, AdvanceInv DEF Resolve
<1>6. CASE ResolveAgain(p)
  BY <1>2, <1>6, AdvanceInv DEF ResolveAgain, PromisesKept
<1>7. QED
  BY <1>1, <1>3, <1>4, <1>5, <1>6

(* A client's submission goes on; the engine may take a call.              *)
LEMMA CallInv ==
  ASSUME FrontInv, NEW c \in Clients, NEW x \in Call \cup {NoCall},
         call' = [call EXCEPT ![c] = x],
         posts \subseteq posts', posts' \subseteq Post,
         \A p \in posts' : p \in posts \/ p.phase = "peek",
         losses' \in 0 .. MaxLosses,
         UNCHANGED <<promise, server, export, queue, flush>>,
         x.phase = "enqueue" =>
           x.server # Nil /\ server[x.server].mode = "offline",
         x.phase = "waiting" =>
           \E p \in posts' : /\ p.by = c /\ p.key = x.key
                             /\ p.try = x.try /\ p.run = x.run,
         x.phase \in {"accepted", "duplicate"} => promise[x.run] # Nil,
         c \in Flushes /\ call[c] # NoCall => x # NoCall /\ x.run = call[c].run
  PROVE  FrontInv'
<1> USE DEF FrontInv
<1>1. \A b \in Clients : call'[b] = IF b = c THEN x ELSE call[b]
  BY DEF HitlTypeOK
<1>2. HitlTypeOK'
  BY <1>1 DEF HitlTypeOK
<1>3. ServersShowExports'
  BY <1>1 DEF ServersShowExports
<1>4. AnswersFollowDecisions'
  BY <1>1 DEF AnswersFollowDecisions
<1>5. FlushesSendTheirRow'
  BY <1>1 DEF FlushesSendTheirRow, Clients
<1>6. AnsweredMeansDecided'
  BY <1>1 DEF AnsweredMeansDecided
<1>7. QED
  BY <1>2, <1>3, <1>4, <1>5, <1>6

(* A submission in another phase, at another try.                          *)
Moved(c, phase, try) == [call[c] EXCEPT !.phase = phase, !.try = try]

LEMMA MovedTyped ==
  ASSUME FrontInv, NEW c \in Clients, call[c].phase # "idle",
         NEW phase \in {"sending", "waiting", "accepted", "duplicate", "failed"},
         NEW try \in 1 .. MaxTries
  PROVE  /\ Moved(c, phase, try) \in Call /\ Moved(c, phase, try) # NoCall
         /\ Moved(c, phase, try).phase = phase
         /\ Moved(c, phase, try).try = try
         /\ Moved(c, phase, try).run = call[c].run
         /\ Moved(c, phase, try).key = call[c].key
<1> DEFINE x == Moved(c, phase, try)
<1>1. call[c] \in Call
  BY CallTyped DEF FrontInv
<1>2. x \in Call /\ x.phase = phase /\ x.try = try /\ x.run = call[c].run
      /\ x.key = call[c].key
  BY <1>1 DEF Call, Moved
<1>3. x # NoCall
  BY <1>2 DEF NoCall
<1>4. QED
  BY <1>2, <1>3

LEMMA SendPostInv ==
  ASSUME FrontInv, NEW c \in Clients, SendPost(c)
  PROVE  FrontInv'
<1> DEFINE p == [by |-> c, key |-> call[c].key, try |-> call[c].try,
                 run |-> call[c].run, decision |-> call[c].decision,
                 phase |-> "peek"]
           x == Moved(c, "waiting", call[c].try)
<1>1. call[c] \in Call /\ call[c].phase = "sending"
  BY CallTyped DEF FrontInv, SendPost
<1>2. call' = [call EXCEPT ![c] = x]
  BY <1>1 DEF SendPost, Call, Moved
<1>3. call[c].try \in 1 .. MaxTries
  BY <1>1 DEF Call
<1>4. p \in Post /\ p.phase = "peek"
  BY <1>1 DEF Call, Post
<1>5. posts' = posts \cup {p} /\ posts \subseteq Post /\ losses \in 0 .. MaxLosses
  BY DEF SendPost, FrontInv, HitlTypeOK
<1>6. p.by = c /\ p.key = call[c].key /\ p.try = call[c].try /\ p.run = call[c].run
  OBVIOUS
<1>7. /\ x \in Call /\ x.phase = "waiting" /\ x.try = call[c].try
      /\ x.run = call[c].run /\ x.key = call[c].key /\ x # NoCall
  BY <1>1, <1>3, MovedTyped
<1>8. UNCHANGED <<promise, server, export, queue, flush, losses>>
  BY DEF SendPost, workflowVars
<1> HIDE DEF p, x
<1>9. /\ posts \subseteq posts' /\ posts' \subseteq Post
      /\ \A b \in posts' : b \in posts \/ b.phase = "peek"
      /\ \E b \in posts' : /\ b.by = c /\ b.key = x.key
                            /\ b.try = x.try /\ b.run = x.run
  BY <1>4, <1>5, <1>6, <1>7
<1>10. QED
  BY <1>2, <1>5, <1>7, <1>8, <1>9, CallInv

LEMMA AnswerInv ==
  ASSUME FrontInv, NEW c \in Clients, Answer(c)
  PROVE  FrontInv'
<1> DEFINE phase == PostOf(c).phase
           x == Moved(c, phase, call[c].try)
<1>1. call[c] \in Call /\ call[c].phase = "waiting"
  BY CallTyped DEF FrontInv, Answer
<1>2. PostOf(c) \in posts /\ PostOf(c).run = call[c].run
  BY <1>1 DEF PostOf, FrontInv, AnswersFollowDecisions
<1>3. phase \in {"accepted", "duplicate"}
  BY DEF Answer
<1>4. promise[call[c].run] # Nil
  BY <1>2, <1>3 DEF FrontInv, AnswersFollowDecisions
<1>5. UNCHANGED <<posts, promise, server, export, queue, flush, losses>>
      /\ posts \subseteq Post /\ losses \in 0 .. MaxLosses
  BY DEF Answer, workflowVars, FrontInv, HitlTypeOK
<1>6. call[c].try \in 1 .. MaxTries
  BY <1>1 DEF Call
<1>7. call' = [call EXCEPT ![c] = x]
  BY <1>1 DEF Answer, Call, Moved
<1> HIDE DEF phase
<1>8. x \in Call /\ x.phase = phase /\ x.run = call[c].run /\ x # NoCall
  BY <1>1, <1>3, <1>6, MovedTyped
<1> HIDE DEF x
<1>9. QED
  BY <1>3, <1>4, <1>5, <1>7, <1>8, CallInv

LEMMA LossInv ==
  ASSUME FrontInv, NEW c \in Clients, Retry(c) \/ GiveUp(c)
  PROVE  FrontInv'
<1>1. call[c] \in Call /\ call[c].phase \in {"sending", "waiting"}
  BY CallTyped DEF FrontInv, Retry, GiveUp, Gone
<1>2. UNCHANGED <<posts, promise, server, export, queue, flush>>
      /\ posts \subseteq Post /\ losses' \in 0 .. MaxLosses
  BY HitlAssumption
     DEF Retry, GiveUp, Loss, workflowVars, FrontInv, HitlTypeOK
<1>3. CASE Retry(c)
  <2> DEFINE x == Moved(c, "sending", call[c].try + 1)
  <2>1. call' = [call EXCEPT ![c] = x]
    BY <1>1, <1>3 DEF Retry, Call, Moved
  <2>2. call[c].try + 1 \in 1 .. MaxTries
    BY <1>1, <1>3, HitlAssumption DEF Retry, Call
  <2>3. x \in Call /\ x.phase = "sending" /\ x.run = call[c].run /\ x # NoCall
    BY <1>1, <2>2, MovedTyped
  <2> HIDE DEF x
  <2>4. QED
    BY <1>2, <2>1, <2>3, CallInv
<1>4. CASE GiveUp(c)
  <2> DEFINE x == Moved(c, "failed", call[c].try)
  <2>1. call' = [call EXCEPT ![c] = x]
    BY <1>1, <1>4 DEF GiveUp, Call, Moved
  <2>2. call[c].try \in 1 .. MaxTries
    BY <1>1 DEF Call
  <2>3. x \in Call /\ x.phase = "failed" /\ x.run = call[c].run /\ x # NoCall
    BY <1>1, <2>2, MovedTyped
  <2> HIDE DEF x
  <2>4. QED
    BY <1>2, <2>1, <2>3, CallInv
<1>5. QED
  BY <1>3, <1>4

(* What a source shows has one of three values.                            *)
LEMMA SourceTyped ==
  ASSUME FrontInv, NEW s \in Servers, server[s].mode # "down", NEW r \in Runs
  PROVE  SourceState(s, r) \in HitlStates
<1>1. CASE server[s] = Live
  BY <1>1 DEF SourceState, hitlState, HitlStates
<1>2. CASE server[s] # Live
  <2>1. server[s].mode = "offline" /\ server[s].key \in ExportKeys
    BY <1>2, ServerTyped DEF FrontInv
  <2>2. export[server[s].key] \in [Runs -> HitlStates]
    BY <2>1 DEF FrontInv, HitlTypeOK, ServersShowExports
  <2>3. export[server[s].key][r] \in HitlStates
    BY <2>2
  <2>4. QED
    BY <1>2, <2>3 DEF SourceState, Overlay, HitlStates
<1>3. QED
  BY <1>1, <1>2

LEMMA SubmitInv ==
  ASSUME FrontInv, Submit
  PROVE  FrontInv'
<1>1. PICK c \in Callers, r \in Runs, d \in Decisions :
        CliInput(c, r, d) \/ \E s \in Servers : UiInput(c, s, r, d)
  BY DEF Submit
<1>2. UNCHANGED <<promise, posts, server, export, queue, flush, losses>>
      /\ posts \subseteq Post /\ losses \in 0 .. MaxLosses
  BY <1>1 DEF CliInput, UiInput, workflowVars, FrontInv, HitlTypeOK
<1>3. c \in Clients /\ c \notin Flushes /\ 1 \in 1 .. MaxTries
  BY HitlAssumption DEF Clients
<1>4. CASE CliInput(c, r, d)
  <2> DEFINE x == Request("sending", Nil, Nil, r, d)
  <2>1. x \in Call /\ x.phase = "sending"
    BY <1>3 DEF Request, Call
  <2>2. call' = [call EXCEPT ![c] = x]
    BY <1>4 DEF CliInput
  <2> HIDE DEF x
  <2>3. QED
    BY <1>2, <1>3, <2>1, <2>2, CallInv
<1>5. ASSUME NEW s \in Servers, UiInput(c, s, r, d) PROVE FrontInv'
  <2> DEFINE phase == InputPhase(s, r)
             x == Request(phase, s, Nil, r, d)
  <2>1. call' = [call EXCEPT ![c] = x] /\ server[s].mode # "down"
    BY <1>5, ServerTyped DEF UiInput, FrontInv
  <2>2. SourceState(s, r) \in HitlStates
    BY <2>1, SourceTyped
  <2>3. /\ phase \in {"none", "resumed", "sending", "enqueue"}
        /\ phase = "enqueue" => server[s] # Live
    BY <2>2 DEF InputPhase, HitlStates
  <2>4. phase = "enqueue" => server[s].mode = "offline"
    BY <2>1, <2>3, ServerTyped DEF FrontInv
  <2> HIDE DEF phase
  <2>5. x \in Call /\ x.phase = phase /\ x.server = s
    BY <1>3, <2>3 DEF Request, Call
  <2> HIDE DEF x
  <2>6. s # Nil
    BY HitlAssumption
  <2>7. QED
    BY <1>2, <1>3, <2>1, <2>3, <2>4, <2>5, <2>6, CallInv
<1>6. QED
  BY <1>1, <1>4, <1>5

LEMMA EnqueueInv ==
  ASSUME FrontInv, NEW c \in Clients, Enqueue(c)
  PROVE  FrontInv'
<1> DEFINE k == server[call[c].server].key
           x == [call[c] EXCEPT !.phase = "queued", !.key = k]
           row == [key |-> k, run |-> call[c].run,
                   decision |-> call[c].decision, flushed |-> FALSE]
<1> USE DEF FrontInv
<1>1. call[c] \in Call /\ call[c].phase = "enqueue" /\ call[c].server \in Servers
  BY CallTyped DEF Enqueue, ServersShowExports
<1>2. k \in ExportKeys
  BY <1>1, ServerTyped DEF ServersShowExports
<1>3. call' = [call EXCEPT ![c] = x]
  BY <1>1 DEF Enqueue, Call
<1>4. row \in QueueRow /\ row.flushed = FALSE
  BY <1>1, <1>2 DEF QueueRow, Call
<1>5. queue' = {q \in queue : ~(q.key = k /\ q.run = call[c].run)} \cup {row}
  BY DEF Enqueue
<1> HIDE DEF k
<1>6. x \in Call /\ x.phase = "queued" /\ x.run = call[c].run
  BY <1>1, <1>2 DEF Call
<1>7. x # NoCall
  BY <1>6 DEF NoCall
<1> HIDE DEF x, row
<1>8. \A b \in Clients : call'[b] = IF b = c THEN x ELSE call[b]
  BY <1>3 DEF HitlTypeOK
<1>9. UNCHANGED <<promise, posts, server, export, flush, losses>>
  BY DEF Enqueue, workflowVars
<1>10. HitlTypeOK'
  <2>1. call' \in [Clients -> Call \cup {NoCall}]
    BY <1>3, <1>6 DEF HitlTypeOK
  <2>2. queue' \subseteq QueueRow
    BY <1>4, <1>5 DEF HitlTypeOK
  <2>3. QED
    BY <1>9, <2>1, <2>2 DEF HitlTypeOK
<1>11. ServersShowExports'
  BY <1>6, <1>8, <1>9 DEF ServersShowExports
<1>12. AnswersFollowDecisions'
  BY <1>6, <1>8, <1>9 DEF AnswersFollowDecisions
<1>13. FlushesSendTheirRow'
  BY <1>6, <1>7, <1>8, <1>9 DEF FlushesSendTheirRow, Clients
<1>14. AnsweredMeansDecided'
  <2>1. \A q \in queue' : q \in queue \/ q.flushed = FALSE
    BY <1>4, <1>5
  <2>2. QED
    BY <1>6, <1>8, <1>9, <2>1 DEF AnsweredMeansDecided
<1>15. QED
  BY <1>10, <1>11, <1>12, <1>13, <1>14

-----------------------------------------------------------------------------
(* Flushes.                                                                *)

(* A flush takes, or puts away, a row; the queue keeps what was decided.   *)
LEMMA FlushInv ==
  ASSUME FrontInv, NEW f \in Flushes,
         NEW fl \in Flush, flush' = [flush EXCEPT ![f] = fl],
         NEW x \in Call \cup {NoCall}, call' = [call EXCEPT ![f] = x],
         x.phase \in {"idle", "sending"} \/ x = call[f],
         (fl.phase = "running" /\ fl.row # Nil) =>
           x # NoCall /\ x.run = fl.row.run,
         queue' \subseteq QueueRow,
         \A q \in queue' : q.flushed => q \in queue \/ promise[q.run] # Nil,
         server' \in [Servers -> {Down, Live} \cup {Offline(k) : k \in ExportKeys}],
         ServersShowExports',
         UNCHANGED <<promise, posts, export, losses>>
  PROVE  FrontInv'
<1> USE DEF FrontInv
<1>1. f \in Clients
  BY DEF Clients
<1>2. /\ \A b \in Clients : call'[b] = IF b = f THEN x ELSE call[b]
      /\ \A g \in Flushes : flush'[g] = IF g = f THEN fl ELSE flush[g]
  BY <1>1 DEF HitlTypeOK
<1>3. HitlTypeOK'
  BY <1>1 DEF HitlTypeOK
<1>4. AnswersFollowDecisions'
  BY <1>2 DEF AnswersFollowDecisions
<1>5. FlushesSendTheirRow'
  BY <1>2 DEF FlushesSendTheirRow, Clients
<1>6. AnsweredMeansDecided'
  BY <1>2 DEF AnsweredMeansDecided
<1>7. QED
  BY <1>3, <1>4, <1>5, <1>6

(* Unless it enqueues, a client may do what it likes to the servers' part. *)
LEMMA ExportsFrame ==
  ASSUME FrontInv, NEW f \in Flushes,
         NEW x \in Call \cup {NoCall}, call' = [call EXCEPT ![f] = x],
         x.phase # "enqueue" \/ x = call[f],
         UNCHANGED <<server, export>>
  PROVE  /\ ServersShowExports'
         /\ server' \in [Servers -> {Down, Live} \cup {Offline(k) : k \in ExportKeys}]
BY DEF FrontInv, HitlTypeOK, ServersShowExports, Clients


(* A flush with another row in hand and other rows to do.                  *)
Holding(f, phase, todo, row) ==
  [flush[f] EXCEPT !.phase = phase, !.todo = todo, !.row = row]

LEMMA HoldingTyped ==
  ASSUME FrontInv, NEW f \in Flushes, InHand(f),
         NEW phase \in {"running", "over"}, NEW todo \in SUBSET QueueRow,
         NEW row \in QueueRow \cup {Nil}
  PROVE  /\ Holding(f, phase, todo, row) \in Flush
         /\ Holding(f, phase, todo, row).phase = phase
         /\ Holding(f, phase, todo, row).row = row
<1>1. flush[f] \in Flush
  BY FlushTyped DEF FrontInv, InHand
<1>2. QED
  BY <1>1 DEF Holding, Flush

LEMMA SkipRowInv ==
  ASSUME FrontInv, NEW f \in Flushes, NEW q \in flush[f].todo, SkipRow(f, q)
  PROVE  FrontInv'
<1> DEFINE fl == Holding(f, "running", flush[f].todo \ {q}, Nil)
<1>1. InHand(f) /\ flush[f] \in Flush /\ flush[f].todo \subseteq QueueRow
  BY FlushTyped DEF FrontInv, SkipRow, InHand
<1>2. flush' = [flush EXCEPT ![f] = fl]
  BY <1>1 DEF SkipRow, Holding, InHand, Flush
<1>3. fl \in Flush /\ fl.row = Nil
  BY <1>1, HoldingTyped
<1> HIDE DEF fl
<1>4. call[f] \in Call \cup {NoCall} /\ call' = [call EXCEPT ![f] = call[f]]
  BY DEF FrontInv, HitlTypeOK, SkipRow, Clients
<1>5. UNCHANGED <<promise, posts, server, export, queue, losses>>
      /\ queue \subseteq QueueRow
  BY DEF SkipRow, workflowVars, FrontInv, HitlTypeOK
<1>6. QED
  BY <1>2, <1>3, <1>4, <1>5, ExportsFrame, FlushInv

LEMMA FlushRowInv ==
  ASSUME FrontInv, NEW f \in Flushes, NEW q \in flush[f].todo, FlushRow(f, q)
  PROVE  FrontInv'
<1> DEFINE fl == Holding(f, "running", flush[f].todo \ {q}, q)
           x == Request("sending", flush[f].server, q.key, q.run, q.decision)
<1>1. InHand(f) /\ flush[f] \in Flush /\ flush[f].todo \subseteq QueueRow
      /\ flush[f].server \in Servers
  BY FlushTyped DEF FrontInv, FlushRow, InHand
<1>2. flush' = [flush EXCEPT ![f] = fl]
  BY <1>1 DEF FlushRow, Holding, InHand, Flush
<1>3. q \in QueueRow /\ 1 \in 1 .. MaxTries
  BY <1>1, HitlAssumption
<1>4. fl \in Flush /\ fl.row = q
  BY <1>1, <1>3, HoldingTyped
<1>5. x \in Call /\ x.phase = "sending" /\ x.run = q.run
  BY <1>1, <1>3 DEF Request, Call, QueueRow
<1>6. call' = [call EXCEPT ![f] = x]
  BY DEF FlushRow
<1>7. x # NoCall
  BY <1>5 DEF NoCall
<1> HIDE DEF fl, x
<1>8. UNCHANGED <<promise, posts, server, export, queue, losses>>
      /\ queue \subseteq QueueRow
  BY DEF FlushRow, workflowVars, FrontInv, HitlTypeOK
<1>9. ServersShowExports'
      /\ server' \in [Servers -> {Down, Live} \cup {Offline(k) : k \in ExportKeys}]
  BY <1>5, <1>6, <1>8, ExportsFrame
<1>10. QED
  BY <1>2, <1>4, <1>5, <1>6, <1>7, <1>8, <1>9, FlushInv

(* Both ways in which a row goes out of hand.                              *)
LEMMA PutAwayInv ==
  ASSUME FrontInv, NEW f \in Flushes, MarkFlushed(f) \/ CountFailed(f)
  PROVE  FrontInv'
<1> DEFINE fl == Holding(f, "running", flush[f].todo, Nil)
<1>1. InHand(f) /\ flush[f] \in Flush /\ flush[f].todo \subseteq QueueRow
      /\ flush[f].phase = "running" /\ flush[f].row # Nil
  BY FlushTyped DEF FrontInv, MarkFlushed, CountFailed, InHand
<1>2. flush' = [flush EXCEPT ![f] = fl] /\ call' = [call EXCEPT ![f] = NoCall]
  BY <1>1 DEF MarkFlushed, CountFailed, Holding, Flush
<1>3. fl \in Flush /\ fl.row = Nil
  BY <1>1, HoldingTyped
<1> HIDE DEF fl
<1>4. NoCall.phase = "idle"
  BY DEF NoCall
<1>5. UNCHANGED <<promise, posts, server, export, losses>>
      /\ queue \subseteq QueueRow
  BY DEF MarkFlushed, CountFailed, workflowVars, FrontInv, HitlTypeOK
<1>6. ServersShowExports'
      /\ server' \in [Servers -> {Down, Live} \cup {Offline(k) : k \in ExportKeys}]
  BY <1>2, <1>4, <1>5, ExportsFrame
<1>7. queue' \subseteq QueueRow
      /\ \A q \in queue' : q.flushed => q \in queue \/ promise[q.run] # Nil
  <2>1. CASE CountFailed(f)
    BY <1>5, <2>1 DEF CountFailed
  <2>2. CASE MarkFlushed(f)
    <3>1. promise[call[f].run] # Nil /\ call[f].run = flush[f].row.run
      BY <1>1, <2>2
         DEF MarkFlushed, FrontInv, AnsweredMeansDecided, FlushesSendTheirRow,
             Clients
    <3>2. ASSUME NEW q \in queue PROVE [q EXCEPT !.flushed = TRUE] \in QueueRow
                                       /\ [q EXCEPT !.flushed = TRUE].run = q.run
      BY <1>5 DEF QueueRow
    <3>3. ASSUME NEW a \in queue'
          PROVE  a \in QueueRow /\ (a \in queue \/ promise[a.run] # Nil)
      <4>1. PICK q \in queue : \/ a = q
                               \/ /\ a = [q EXCEPT !.flushed = TRUE]
                                  /\ q.run = flush[f].row.run
        BY <2>2 DEF MarkFlushed
      <4>2. QED
        BY <1>5, <3>1, <3>2, <4>1
    <3>4. QED
      BY <3>3
  <2>3. QED
    BY <2>1, <2>2
<1>8. QED
  BY <1>2, <1>3, <1>4, <1>5, <1>6, <1>7, FlushInv

LEMMA EndFlushInv ==
  ASSUME FrontInv, NEW f \in Flushes, EndFlush(f)
  PROVE  FrontInv'
<1> DEFINE fl == Holding(f, "over", flush[f].todo, Nil)
<1>1. InHand(f) /\ flush[f] \in Flush /\ flush[f].todo \subseteq QueueRow
  BY FlushTyped DEF FrontInv, EndFlush, InHand
<1>2. flush' = [flush EXCEPT ![f] = fl]
  BY <1>1 DEF EndFlush, Holding, Flush
<1>3. fl \in Flush /\ fl.row = Nil
  BY <1>1, HoldingTyped
<1> HIDE DEF fl
<1>4. call[f] \in Call \cup {NoCall} /\ call' = [call EXCEPT ![f] = call[f]]
  BY DEF FrontInv, HitlTypeOK, EndFlush, Clients
<1>5. UNCHANGED <<promise, posts, server, export, queue, losses>>
      /\ queue \subseteq QueueRow
  BY DEF EndFlush, workflowVars, FrontInv, HitlTypeOK
<1>6. QED
  BY <1>2, <1>3, <1>4, <1>5, ExportsFrame, FlushInv

LEMMA FlushStepInv ==
  ASSUME FrontInv, NEW f \in Flushes, FlushStep(f)
  PROVE  FrontInv'
BY SkipRowInv, FlushRowInv, PutAwayInv, EndFlushInv DEF FlushStep


-----------------------------------------------------------------------------
(* Servers.                                                                *)

(* A flush begins on a server that is live, or just became it.             *)
LEMMA BeginInv ==
  ASSUME FrontInv, NEW f \in Flushes, NEW s \in Servers, Begin(f, s),
         flush[f] = NoFlush,
         server' \in [Servers -> {Down, Live} \cup {Offline(k) : k \in ExportKeys}],
         ServersShowExports',
         UNCHANGED <<promise, posts, call, export, queue, losses>>
  PROVE  FrontInv'
<1> DEFINE fl == [phase |-> "running", server |-> s, todo |-> Pending, row |-> Nil]
<1>1. queue \subseteq QueueRow /\ call[f] \in Call \cup {NoCall}
      /\ call' = [call EXCEPT ![f] = call[f]]
  BY DEF FrontInv, HitlTypeOK, Clients
<1>2. fl \in Flush /\ fl.row = Nil
  BY <1>1 DEF Flush, Pending
<1>3. flush' = [flush EXCEPT ![f] = fl]
  BY DEF Begin
<1> HIDE DEF fl
<1>4. QED
  BY <1>1, <1>2, <1>3, FlushInv

LEMMA StartInv ==
  ASSUME FrontInv, NEW s \in Servers, NEW f \in Flushes,
         StartLive(s, f) \/ StartFlush(f, s)
  PROVE  FrontInv'
<1>1. Begin(f, s) /\ flush[f] = NoFlush
      /\ UNCHANGED <<promise, posts, call, export, queue, losses>>
  BY DEF StartLive, StartFlush, workflowVars
<1>2. CASE StartFlush(f, s)
  <2>1. ServersShowExports'
        /\ server' \in [Servers -> {Down, Live} \cup {Offline(k) : k \in ExportKeys}]
    BY <1>2 DEF StartFlush, FrontInv, HitlTypeOK, ServersShowExports
  <2>2. QED
    BY <1>1, <2>1, BeginInv
<1>3. CASE StartLive(s, f)
  <2>1. /\ server[s].mode = "down" /\ Live.mode = "live"
        /\ \A t \in Servers : server'[t] = IF t = s THEN Live ELSE server[t]
    BY <1>3, ServerTyped DEF StartLive, FrontInv, HitlTypeOK, Live
  <2>2. server' \in [Servers -> {Down, Live} \cup {Offline(k) : k \in ExportKeys}]
    BY <1>3 DEF StartLive, FrontInv, HitlTypeOK
  <2>3. \A c \in Clients :
          call[c].phase = "enqueue" => call[c].server \in Servers /\ call[c].server # s
    BY <2>1, CallTyped DEF FrontInv, ServersShowExports
  <2>4. ServersShowExports'
    BY <1>1, <2>1, <2>3 DEF FrontInv, ServersShowExports
  <2>5. QED
    BY <1>1, <2>2, <2>4, BeginInv
<1>4. QED
  BY <1>2, <1>3

(* A file or an upload gets what it shows.                                 *)
LEMMA ShowsInv ==
  ASSUME FrontInv, NEW k \in ExportKeys, NEW shows \in [Runs -> HitlStates],
         export' = [export EXCEPT ![k] = shows],
         UNCHANGED <<promise, posts, call, queue, flush, losses>>,
         \/ UNCHANGED server
         \/ \E s \in Servers : server' = [server EXCEPT ![s] = Offline(k)]
  PROVE  FrontInv'
<1>1. shows # Nil
  BY NilIsNoExport
<1>2. Offline(k).mode = "offline" /\ Offline(k).key = k
  BY DEF Offline
<1>3. \A j \in ExportKeys : export'[j] # Nil <=> j = k \/ export[j] # Nil
  BY <1>1 DEF FrontInv, HitlTypeOK
<1>4. \A t \in Servers : server'[t] = server[t] \/ server'[t] = Offline(k)
  BY DEF FrontInv, HitlTypeOK
<1>5. HitlTypeOK'
  <2>1. server' \in [Servers -> {Down, Live} \cup {Offline(j) : j \in ExportKeys}]
    BY DEF FrontInv, HitlTypeOK
  <2>2. export' \in [ExportKeys -> [Runs -> HitlStates] \cup {Nil}]
    BY DEF FrontInv, HitlTypeOK
  <2>3. QED
    BY <2>1, <2>2 DEF FrontInv, HitlTypeOK
<1>6. \A c \in Clients : call[c].phase = "enqueue" => call[c].server \in Servers
  BY CallTyped DEF FrontInv, ServersShowExports
<1>7. \A t \in Servers : server[t].mode = "offline" => server[t].key \in ExportKeys
  BY ServerTyped DEF FrontInv
<1>8. ServersShowExports'
  BY <1>2, <1>3, <1>4, <1>6, <1>7 DEF FrontInv, ServersShowExports
<1>9. AnswersFollowDecisions' /\ FlushesSendTheirRow' /\ AnsweredMeansDecided'
  BY DEF FrontInv, AnswersFollowDecisions, FlushesSendTheirRow,
         AnsweredMeansDecided
<1>10. QED
  BY <1>5, <1>8, <1>9 DEF FrontInv

LEMMA ExportInv ==
  ASSUME FrontInv, NEW k \in ExportKeys,
         \/ TakeExport(k)
         \/ \E shows \in [Runs -> HitlStates] :
              ReceiveExport(k, shows) \/ \E s \in Servers : Import(s, k, shows)
  PROVE  FrontInv'
<1>1. CASE TakeExport(k)
  <2> DEFINE shown == [r \in Runs |-> hitlState(r)]
  <2>1. shown \in [Runs -> HitlStates]
    BY DEF hitlState, HitlStates
  <2>2. export' = [export EXCEPT ![k] = shown]
        /\ UNCHANGED <<promise, posts, call, server, queue, flush, losses>>
    BY <1>1 DEF TakeExport, workflowVars
  <2> HIDE DEF shown
  <2>3. QED
    BY <2>1, <2>2, ShowsInv
<1>2. ASSUME NEW shows \in [Runs -> HitlStates], ReceiveExport(k, shows)
      PROVE  FrontInv'
  BY <1>2, ShowsInv DEF ReceiveExport, workflowVars
<1>3. ASSUME NEW shows \in [Runs -> HitlStates], NEW s \in Servers, Import(s, k, shows)
      PROVE  FrontInv'
  BY <1>3, ShowsInv DEF Import, workflowVars
<1>4. QED
  BY <1>1, <1>2, <1>3

(* A server opens an export that was written.                              *)
LEMMA OpenExportInv ==
  ASSUME FrontInv, NEW s \in Servers, NEW k \in ExportKeys, StartOffline(s, k)
  PROVE  FrontInv'
<1>1. export[k] # Nil /\ server' = [server EXCEPT ![s] = Offline(k)]
      /\ UNCHANGED <<promise, posts, call, export, queue, flush, losses>>
  BY DEF StartOffline, workflowVars
<1>2. Offline(k).mode = "offline" /\ Offline(k).key = k
  BY DEF Offline
<1>3. \A t \in Servers : server'[t] = IF t = s THEN Offline(k) ELSE server[t]
  BY <1>1 DEF FrontInv, HitlTypeOK
<1>4. HitlTypeOK'
  BY <1>1 DEF FrontInv, HitlTypeOK
<1>5. \A c \in Clients : call[c].phase = "enqueue" => call[c].server \in Servers
  BY CallTyped DEF FrontInv, ServersShowExports
<1>6. ServersShowExports'
  BY <1>1, <1>2, <1>3, <1>5 DEF FrontInv, ServersShowExports
<1>7. AnswersFollowDecisions' /\ FlushesSendTheirRow' /\ AnsweredMeansDecided'
  BY <1>1
     DEF FrontInv, AnswersFollowDecisions, FlushesSendTheirRow,
         AnsweredMeansDecided
<1>8. QED
  BY <1>4, <1>6, <1>7 DEF FrontInv

LEMMA StopServerInv ==
  ASSUME FrontInv, NEW s \in Servers, StopServer(s)
  PROVE  FrontInv'
<1>1. server' = [server EXCEPT ![s] = Down] /\ losses' \in 0 .. MaxLosses
      /\ UNCHANGED <<promise, posts, export, queue>>
  BY HitlAssumption DEF StopServer, Loss, workflowVars, FrontInv, HitlTypeOK
<1>2. ASSUME NEW c \in Clients
      PROVE  /\ call'[c] \in Call \cup {NoCall}
             /\ \/ call'[c] = call[c]
                \/ call'[c].phase = "failed" /\ call'[c].run = call[c].run
                   /\ call[c] # NoCall /\ call'[c] # NoCall
             /\ (call[c].phase = "enqueue" /\ call[c].server = s) =>
                   call'[c].phase = "failed"
  <2>1. CASE /\ call[c] # NoCall
             /\ call[c].server = s
             /\ call[c].phase \in {"sending", "waiting", "enqueue"}
    <3> DEFINE x == [call[c] EXCEPT !.phase = "failed"]
    <3>1. call[c] \in Call /\ call'[c] = x
      BY <2>1 DEF StopServer, FrontInv, HitlTypeOK
    <3>2. x \in Call /\ x.phase = "failed" /\ x.run = call[c].run
      BY <3>1 DEF Call
    <3>3. x # NoCall
      BY <3>2 DEF NoCall
    <3>4. QED
      BY <2>1, <3>1, <3>2, <3>3
  <2>2. CASE ~ /\ call[c] # NoCall
               /\ call[c].server = s
               /\ call[c].phase \in {"sending", "waiting", "enqueue"}
    <3>1. call'[c] = call[c] /\ call[c] \in Call \cup {NoCall}
      BY <2>2 DEF StopServer, FrontInv, HitlTypeOK
    <3>2. call[c].phase = "enqueue" => call[c] # NoCall
      BY DEF NoCall
    <3>3. QED
      BY <2>2, <3>1, <3>2
  <2>3. QED
    BY <2>1, <2>2
<1>3. ASSUME NEW f \in Flushes
      PROVE  /\ flush'[f] \in Flush \cup {NoFlush}
             /\ flush'[f].phase = "running" => flush'[f] = flush[f]
  <2>1. flush[f] \in Flush \cup {NoFlush}
    BY DEF FrontInv, HitlTypeOK
  <2>2. CASE flush[f] # NoFlush /\ flush[f].server = s
    <3>1. flush'[f] = [flush[f] EXCEPT !.phase = "over"]
      BY <2>2 DEF StopServer
    <3>2. QED
      BY <2>1, <2>2, <3>1 DEF Flush
  <2>3. CASE ~(flush[f] # NoFlush /\ flush[f].server = s)
    BY <2>1, <2>3 DEF StopServer
  <2>4. QED
    BY <2>2, <2>3
<1>4. HitlTypeOK'
  <2>1. call' \in [Clients -> Call \cup {NoCall}]
    BY <1>2 DEF StopServer
  <2>2. flush' \in [Flushes -> Flush \cup {NoFlush}]
    BY <1>3 DEF StopServer
  <2>3. QED
    BY <1>1, <2>1, <2>2 DEF FrontInv, HitlTypeOK
<1>5. ServersShowExports'
  <2>1. Down.mode = "down"
    BY DEF Down
  <2>2. \A t \in Servers : server'[t] = IF t = s THEN Down ELSE server[t]
    BY <1>1 DEF FrontInv, HitlTypeOK
  <2>3. \A c \in Clients : call[c].phase = "enqueue" => call[c].server \in Servers
    BY CallTyped DEF FrontInv, ServersShowExports
  <2>4. QED
    BY <1>1, <1>2, <2>1, <2>2, <2>3 DEF FrontInv, ServersShowExports
<1>6. AnswersFollowDecisions'
  BY <1>1, <1>2 DEF FrontInv, AnswersFollowDecisions
<1>7. FlushesSendTheirRow'
  BY <1>2, <1>3 DEF FrontInv, FlushesSendTheirRow, Clients
<1>8. AnsweredMeansDecided'
  BY <1>1, <1>2 DEF FrontInv, AnsweredMeansDecided
<1>9. QED
  BY <1>4, <1>5, <1>6, <1>7, <1>8 DEF FrontInv

LEMMA ServerStepInv ==
  ASSUME FrontInv, ServerStep
  PROVE  FrontInv'
BY ExportInv, OpenExportInv, StartInv, StopServerInv DEF ServerStep


-----------------------------------------------------------------------------
(* Posts, and the rows flushes send, are told apart.                       *)

IdInv == PostsAreTold /\ FlushesTakeRowsOnce

PostPhases == {"sending", "waiting", "accepted", "duplicate", "failed"}

(* A post goes on: whose it is stays.                                      *)
LEMMA IdAdvance ==
  ASSUME FrontInv, IdInv, NEW p \in posts, NEW phase \in {"resolve", "accepted", "duplicate"},
         Advance(p, phase), UNCHANGED <<call, queue, flush>>
  PROVE  IdInv'
<1> DEFINE q == [p EXCEPT !.phase = phase]
<1>1. p \in Post
  BY DEF FrontInv, HitlTypeOK
<1>2. q.by = p.by /\ q.key = p.key /\ q.try = p.try /\ q.run = p.run
  BY <1>1 DEF Post
<1>3. posts' = (posts \ {p}) \cup {q}
  BY DEF Advance
<1> HIDE DEF q
<1>4. ASSUME NEW a \in posts'
      PROVE  \E b \in posts : /\ a.by = b.by /\ a.key = b.key /\ a.try = b.try
                              /\ a.run = b.run /\ (b = p => a = q) /\ (b # p => a = b)
  BY <1>2, <1>3, <1>4
<1>5. ASSUME NEW a \in posts', NEW b \in posts',
             a.by = b.by, a.key = b.key, a.try = b.try, a.run = b.run
      PROVE  a = b
  <2>1. PICK c \in posts : /\ a.by = c.by /\ a.key = c.key /\ a.try = c.try
                           /\ a.run = c.run /\ (c = p => a = q) /\ (c # p => a = c)
    BY <1>4
  <2>2. PICK d \in posts : /\ b.by = d.by /\ b.key = d.key /\ b.try = d.try
                           /\ b.run = d.run /\ (d = p => b = q) /\ (d # p => b = d)
    BY <1>4
  <2>3. \A x, y \in posts :
          (x.by = y.by /\ x.key = y.key /\ x.try = y.try /\ x.run = y.run) => x = y
    BY DEF IdInv, PostsAreTold
  <2>4. c.by = d.by /\ c.key = d.key /\ c.try = d.try /\ c.run = d.run
    BY <1>5, <2>1, <2>2
  <2>5. c = d
    BY <2>3, <2>4
  <2>6. QED
    BY <2>1, <2>2, <2>5
<1>6. PostsAreTold'
  <2>1. ASSUME NEW c \in Clients, NEW a \in posts', call[c] # NoCall,
               a.by = c, a.key = call[c].key, a.run = call[c].run
        PROVE  a.try <= call[c].try /\ (call[c].phase = "sending" => a.try # call[c].try)
    BY <1>4, <2>1 DEF IdInv, PostsAreTold, Tries
  <2>2. ASSUME NEW a \in posts', a.by \in Callers
        PROVE  call[a.by].phase \in PostPhases
    BY <1>4, <2>2 DEF IdInv, PostsAreTold, PostPhases
  <2>3. QED
    BY <1>5, <2>1, <2>2 DEF PostsAreTold, Tries, PostPhases
<1>7. FlushesTakeRowsOnce'
  <2>1. \A a \in posts' : \E b \in posts : a.by = b.by /\ a.key = b.key /\ a.run = b.run
    BY <1>4
  <2>2. QED
    BY <2>1 DEF IdInv, FlushesTakeRowsOnce, RowsAreOne
<1>8. QED
  BY <1>6, <1>7 DEF IdInv

LEMMA IdPost ==
  ASSUME FrontInv, IdInv, PostStep
  PROVE  IdInv'
<1>1. PICK p \in posts :
        PeekResolved(p) \/ PeekUnresolved(p) \/ Resolve(p) \/ ResolveAgain(p)
  BY DEF PostStep
<1>2. PICK phase \in {"resolve", "accepted", "duplicate"} : Advance(p, phase)
  BY <1>1 DEF PeekResolved, PeekUnresolved, Resolve, ResolveAgain
<1>3. UNCHANGED <<call, queue, flush>>
  BY <1>1 DEF PeekResolved, PeekUnresolved, Resolve, ResolveAgain
<1>4. QED
  BY <1>2, <1>3, IdAdvance

(* A submission goes on as the same one.                                   *)
LEMMA IdCall ==
  ASSUME FrontInv, IdInv, NEW c \in Clients, NEW x \in Call,
         call' = [call EXCEPT ![c] = x], UNCHANGED <<posts, queue, flush>>,
         call[c] # NoCall, x.key = call[c].key, x.run = call[c].run,
         x.phase \in PostPhases,
         \A p \in posts : Tries(c, p) =>
           p.try <= x.try /\ (x.phase = "sending" => p.try # x.try)
  PROVE  IdInv'
<1>1. \A b \in Clients : call'[b] = IF b = c THEN x ELSE call[b]
  BY DEF FrontInv, HitlTypeOK
<1>2. PostsAreTold'
  <2>1. \A b \in Clients, p \in posts : Tries(b, p)' <=> Tries(b, p)
    BY <1>1 DEF Tries
  <2>2. \A b \in Clients, p \in posts : (call'[b] # NoCall /\ Tries(b, p)) =>
          p.try <= call'[b].try /\ (call'[b].phase = "sending" => p.try # call'[b].try)
    BY <1>1 DEF IdInv, PostsAreTold
  <2>3. \A p \in posts : p.by \in Callers => call'[p.by].phase \in PostPhases
    BY <1>1 DEF IdInv, PostsAreTold, PostPhases, Clients
  <2>4. QED
    BY <2>1, <2>2, <2>3 DEF IdInv, PostsAreTold, PostPhases
<1>3. FlushesTakeRowsOnce'
  BY <1>1 DEF IdInv, FlushesTakeRowsOnce, RowsAreOne, Clients
<1>4. QED
  BY <1>2, <1>3 DEF IdInv

LEMMA IdAnswer ==
  ASSUME FrontInv, IdInv, NEW c \in Clients, Answer(c) \/ Retry(c) \/ GiveUp(c)
  PROVE  IdInv'
<1>1. call[c] \in Call /\ call[c] # NoCall /\ call[c].phase \in {"sending", "waiting"}
  BY CallTyped DEF FrontInv, Answer, Retry, GiveUp, Gone
<1>2. \A p \in posts : Tries(c, p) => p.try \in Nat /\ p.try <= call[c].try
  BY <1>1 DEF IdInv, PostsAreTold, FrontInv, HitlTypeOK, Post
<1>3. call[c].try \in 1 .. MaxTries
  BY <1>1 DEF Call
<1>4. UNCHANGED <<posts, queue, flush>>
  BY DEF Answer, Retry, GiveUp
<1>5. CASE Retry(c)
  <2> DEFINE x == Moved(c, "sending", call[c].try + 1)
  <2>1. call' = [call EXCEPT ![c] = x]
    BY <1>1, <1>5 DEF Retry, Call, Moved
  <2>2. call[c].try + 1 \in 1 .. MaxTries
    BY <1>3, <1>5, HitlAssumption DEF Retry
  <2>3. /\ x \in Call /\ x.phase = "sending" /\ x.run = call[c].run
        /\ x.key = call[c].key /\ x.try = call[c].try + 1
    BY <1>1, <2>2, MovedTyped
  <2> HIDE DEF x
  <2>4. \A p \in posts : Tries(c, p) => p.try <= x.try /\ p.try # x.try
    BY <1>2, <1>3, <2>3
  <2>5. QED
    BY <1>1, <1>4, <2>1, <2>3, <2>4, IdCall DEF PostPhases
<1>6. CASE Answer(c) \/ GiveUp(c)
  <2>1. PICK phase \in {"accepted", "duplicate", "failed"} :
          call' = [call EXCEPT ![c].phase = phase]
    BY <1>6 DEF Answer, GiveUp
  <2> DEFINE x == Moved(c, phase, call[c].try)
  <2>2. call' = [call EXCEPT ![c] = x]
    BY <1>1, <2>1 DEF Call, Moved
  <2>3. /\ x \in Call /\ x.phase = phase /\ x.run = call[c].run
        /\ x.key = call[c].key /\ x.try = call[c].try
    BY <1>1, <1>3, MovedTyped
  <2> HIDE DEF x
  <2>4. QED
    BY <1>1, <1>2, <1>4, <2>2, <2>3, IdCall DEF PostPhases
<1>7. QED
  BY <1>5, <1>6

LEMMA IdSend ==
  ASSUME FrontInv, IdInv, NEW c \in Clients, SendPost(c)
  PROVE  IdInv'
<1> DEFINE p == [by |-> c, key |-> call[c].key, try |-> call[c].try,
                 run |-> call[c].run, decision |-> call[c].decision,
                 phase |-> "peek"]
           x == Moved(c, "waiting", call[c].try)
<1>1. call[c] \in Call /\ call[c] # NoCall /\ call[c].phase = "sending"
  BY CallTyped DEF FrontInv, SendPost
<1>2. call[c].try \in 1 .. MaxTries
  BY <1>1 DEF Call
<1>3. call' = [call EXCEPT ![c] = x]
  BY <1>1 DEF SendPost, Call, Moved
<1>4. /\ x \in Call /\ x.phase = "waiting" /\ x.run = call[c].run
      /\ x.key = call[c].key /\ x.try = call[c].try
  BY <1>1, <1>2, MovedTyped
<1>5. p.by = c /\ p.key = call[c].key /\ p.try = call[c].try /\ p.run = call[c].run
  OBVIOUS
<1>6. posts' = posts \cup {p} /\ UNCHANGED <<queue, flush>>
  BY DEF SendPost
<1> HIDE DEF p, x
<1>7. \A b \in Clients : call'[b] = IF b = c THEN x ELSE call[b]
  BY <1>3 DEF FrontInv, HitlTypeOK
<1>8. \A a \in posts : a.try \in Nat
  BY DEF FrontInv, HitlTypeOK, Post
<1>9. PostsAreTold'
  <2>1. \A a \in posts : ~(a.by = p.by /\ a.key = p.key /\ a.try = p.try /\ a.run = p.run)
    BY <1>1, <1>5 DEF IdInv, PostsAreTold, Tries
  <2>2. \A a, b \in posts' : (a.by = b.by /\ a.key = b.key /\ a.try = b.try /\ a.run = b.run)
          => a = b
    BY <1>6, <2>1 DEF IdInv, PostsAreTold
  <2>3. \A b \in Clients, a \in posts' :
          (call'[b] # NoCall /\ a.by = b /\ a.key = call'[b].key /\ a.run = call'[b].run) =>
            a.try <= call'[b].try /\ (call'[b].phase = "sending" => a.try # call'[b].try)
    BY <1>1, <1>2, <1>4, <1>5, <1>6, <1>7 DEF IdInv, PostsAreTold, Tries
  <2>4. \A a \in posts' : a.by \in Callers => call'[a.by].phase \in PostPhases
    BY <1>4, <1>5, <1>6, <1>7 DEF IdInv, PostsAreTold, PostPhases, Clients
  <2>5. QED
    BY <2>2, <2>3, <2>4 DEF PostsAreTold, Tries, PostPhases
<1>10. FlushesTakeRowsOnce'
  <2>1. ASSUME NEW f \in Flushes, flush[f] = NoFlush
        PROVE  call'[f] = NoCall /\ \A a \in posts' : a.by # f
    BY <1>1, <1>5, <1>6, <1>7, <2>1 DEF IdInv, FlushesTakeRowsOnce, Clients
  <2>2. ASSUME NEW f \in Flushes, flush[f] # NoFlush, NEW q \in flush[f].todo
        PROVE  /\ \A a \in posts' : a.by = f => a.key # q.key \/ a.run # q.run
               /\ call'[f] # NoCall => call'[f].key # q.key \/ call'[f].run # q.run
    BY <1>1, <1>4, <1>5, <1>6, <1>7, <2>2 DEF IdInv, FlushesTakeRowsOnce, Clients
  <2>3. QED
    BY <1>6, <2>1, <2>2 DEF IdInv, FlushesTakeRowsOnce, RowsAreOne
<1>11. QED
  BY <1>9, <1>10 DEF IdInv

(* A caller that sent nothing.                                             *)
LEMMA IdCaller ==
  ASSUME FrontInv, IdInv, NEW c \in Callers, call[c].phase \notin PostPhases,
         NEW x \in Call, call' = [call EXCEPT ![c] = x],
         RowsAreOne(queue)', UNCHANGED <<posts, flush>>
  PROVE  IdInv'
<1>1. c \in Clients /\ c \notin Flushes
  BY HitlAssumption DEF Clients
<1>2. \A b \in Clients : call'[b] = IF b = c THEN x ELSE call[b]
  BY <1>1 DEF FrontInv, HitlTypeOK
<1>3. \A p \in posts : p.by # c
  BY DEF IdInv, PostsAreTold, PostPhases
<1>4. PostsAreTold'
  BY <1>2, <1>3 DEF IdInv, PostsAreTold, Tries, Clients
<1>5. FlushesTakeRowsOnce'
  BY <1>1, <1>2 DEF IdInv, FlushesTakeRowsOnce, RowsAreOne, Clients
<1>6. QED
  BY <1>4, <1>5 DEF IdInv

LEMMA IdSubmit ==
  ASSUME FrontInv, IdInv, Submit
  PROVE  IdInv'
<1>1. PICK c \in Callers, r \in Runs, d \in Decisions :
        CliInput(c, r, d) \/ \E s \in Servers : UiInput(c, s, r, d)
  BY DEF Submit
<1>2. call[c] = NoCall /\ UNCHANGED <<posts, flush, queue>> /\ c \in Clients
  BY <1>1 DEF CliInput, UiInput, Clients
<1>3. call[c].phase \notin PostPhases
  BY <1>2 DEF NoCall, PostPhases
<1>4. PICK x : call' = [call EXCEPT ![c] = x]
  BY <1>1 DEF CliInput, UiInput
<1>5. FrontInv'
  BY SubmitInv
<1>6. call'[c] = x /\ x.phase # "idle"
  <2>1. call'[c] = x
    BY <1>2, <1>4 DEF FrontInv, HitlTypeOK
  <2>2. CASE CliInput(c, r, d)
    BY <1>2, <2>1, <2>2 DEF CliInput, Request, FrontInv, HitlTypeOK
  <2>3. ASSUME NEW s \in Servers, UiInput(c, s, r, d)
        PROVE  x.phase # "idle"
    <3>1. server[s].mode # "down"
      BY <2>3, ServerTyped DEF UiInput, FrontInv
    <3>2. SourceState(s, r) \in HitlStates
      BY <3>1, SourceTyped
    <3>3. x.phase = InputPhase(s, r)
      BY <1>2, <2>1, <2>3 DEF UiInput, Request, FrontInv, HitlTypeOK
    <3>4. QED
      BY <3>2, <3>3 DEF InputPhase, HitlStates
  <2>4. QED
    BY <1>1, <2>1, <2>2, <2>3
<1>7. x \in Call
  BY <1>2, <1>5, <1>6 DEF FrontInv, HitlTypeOK, NoCall
<1>8. RowsAreOne(queue)'
  BY <1>2 DEF IdInv, FlushesTakeRowsOnce, RowsAreOne
<1>9. QED
  BY <1>2, <1>3, <1>4, <1>7, <1>8, IdCaller

LEMMA IdEnqueue ==
  ASSUME FrontInv, IdInv, NEW c \in Callers, Enqueue(c)
  PROVE  IdInv'
<1> DEFINE k == server[call[c].server].key
           x == [call[c] EXCEPT !.phase = "queued", !.key = k]
           row == [key |-> k, run |-> call[c].run,
                   decision |-> call[c].decision, flushed |-> FALSE]
<1>1. c \in Clients /\ call[c].phase = "enqueue"
  BY DEF Clients, Enqueue
<1>2. call[c] \in Call /\ call[c].server \in Servers
  BY <1>1, CallTyped DEF FrontInv, ServersShowExports
<1>3. k \in ExportKeys
  BY <1>1, <1>2, ServerTyped DEF ServersShowExports, FrontInv
<1>4. call' = [call EXCEPT ![c] = x]
  BY <1>2 DEF Enqueue, Call
<1>5. queue' = {q \in queue : ~(q.key = k /\ q.run = call[c].run)} \cup {row}
      /\ UNCHANGED <<posts, flush>>
  BY DEF Enqueue
<1>6. row.key = k /\ row.run = call[c].run
  OBVIOUS
<1>7. x \in Call
  BY <1>2, <1>3 DEF Call
<1> HIDE DEF x, row, k
<1>8. RowsAreOne(queue)'
  BY <1>5, <1>6 DEF IdInv, FlushesTakeRowsOnce, RowsAreOne
<1>9. QED
  BY <1>1, <1>4, <1>5, <1>7, <1>8, IdCaller DEF PostPhases


(* What a flush has still to do, and its call in hand, are about rows it   *)
(* has not sent.                                                           *)
Unsent(f, x, todo) ==
  /\ RowsAreOne(todo)
  /\ \A q \in todo :
       /\ \A p \in posts : p.by = f => p.key # q.key \/ p.run # q.run
       /\ x # NoCall => x.key # q.key \/ x.run # q.run
  /\ x # NoCall => \A p \in posts :
       (p.by = f /\ p.key = x.key /\ p.run = x.run) =>
         p.try <= x.try /\ (x.phase = "sending" => p.try # x.try)

(* A flush takes, or puts away, a row.                                     *)
LEMMA IdFlush ==
  ASSUME FrontInv, IdInv, NEW f \in Flushes,
         NEW fl \in Flush, flush' = [flush EXCEPT ![f] = fl],
         NEW x \in Call \cup {NoCall}, call' = [call EXCEPT ![f] = x],
         RowsAreOne(queue)', UNCHANGED posts, Unsent(f, x, fl.todo)
  PROVE  IdInv'
<1>1. f \in Clients /\ f \notin Callers
  BY HitlAssumption DEF Clients
<1>2. \A b \in Clients : call'[b] = IF b = f THEN x ELSE call[b]
  BY <1>1 DEF FrontInv, HitlTypeOK
<1>3. \A g \in Flushes : flush'[g] = IF g = f THEN fl ELSE flush[g]
  BY DEF FrontInv, HitlTypeOK
<1>4. fl # NoFlush
  BY DEF Flush, NoFlush
<1>5. PostsAreTold'
  BY <1>1, <1>2 DEF IdInv, PostsAreTold, Tries, Clients, Unsent
<1>6. FlushesTakeRowsOnce'
  <2>1. ASSUME NEW g \in Flushes, g # f
        PROVE  flush'[g] = flush[g] /\ call'[g] = call[g]
    BY <1>2, <1>3, <2>1 DEF Clients
  <2>2. flush'[f] = fl /\ call'[f] = x
    BY <1>1, <1>2, <1>3
  <2>3. QED
    BY <1>4, <2>1, <2>2 DEF IdInv, FlushesTakeRowsOnce, RowsAreOne, Unsent
<1>7. QED
  BY <1>5, <1>6 DEF IdInv

LEMMA IdFlushStep ==
  ASSUME FrontInv, IdInv, NEW f \in Flushes, FlushStep(f)
  PROVE  IdInv'
<1>1. InHand(f) /\ flush[f] \in Flush /\ flush[f] # NoFlush
      /\ flush[f].todo \subseteq QueueRow /\ flush[f].server \in Servers
  BY FlushTyped
     DEF FrontInv, FlushStep, SkipRow, FlushRow, MarkFlushed, CountFailed,
         EndFlush, InHand
<1>2. f \in Clients /\ call[f] \in Call \cup {NoCall}
      /\ call' = [call EXCEPT ![f] = call'[f]]
  BY DEF Clients, FrontInv, HitlTypeOK, FlushStep, SkipRow, FlushRow, MarkFlushed,
         CountFailed, EndFlush
<1>3. RowsAreOne(queue) /\ RowsAreOne(flush[f].todo)
      /\ \A q \in flush[f].todo :
           /\ \A p \in posts : p.by = f => p.key # q.key \/ p.run # q.run
           /\ call[f] # NoCall => call[f].key # q.key \/ call[f].run # q.run
  BY <1>1 DEF IdInv, FlushesTakeRowsOnce
<1>4. call[f] # NoCall => \A p \in posts :
        (p.by = f /\ p.key = call[f].key /\ p.run = call[f].run) =>
          p.try <= call[f].try /\ (call[f].phase = "sending" => p.try # call[f].try)
  BY <1>2 DEF IdInv, PostsAreTold, Tries
<1>5. UNCHANGED posts
  BY DEF FlushStep, SkipRow, FlushRow, MarkFlushed, CountFailed, EndFlush
<1>6. ASSUME NEW q \in flush[f].todo, SkipRow(f, q)
      PROVE  IdInv'
  <2> DEFINE fl == Holding(f, "running", flush[f].todo \ {q}, Nil)
  <2>1. flush' = [flush EXCEPT ![f] = fl]
    BY <1>1, <1>6 DEF SkipRow, Holding, InHand, Flush
  <2>2. fl \in Flush /\ fl.todo = flush[f].todo \ {q}
    BY <1>1, HoldingTyped DEF Holding, Flush
  <2> HIDE DEF fl
  <2>3. call' = [call EXCEPT ![f] = call[f]] /\ RowsAreOne(queue)'
    BY <1>2, <1>3, <1>6 DEF SkipRow, FrontInv, HitlTypeOK, RowsAreOne
  <2>4. Unsent(f, call[f], fl.todo)
    BY <1>3, <1>4, <2>2 DEF Unsent, RowsAreOne
  <2>5. QED
    BY <1>2, <1>5, <2>1, <2>2, <2>3, <2>4, IdFlush
<1>7. ASSUME NEW q \in flush[f].todo, FlushRow(f, q)
      PROVE  IdInv'
  <2> DEFINE fl == Holding(f, "running", flush[f].todo \ {q}, q)
             x == Request("sending", flush[f].server, q.key, q.run, q.decision)
  <2>1. flush' = [flush EXCEPT ![f] = fl]
    BY <1>1, <1>7 DEF FlushRow, Holding, InHand, Flush
  <2>2. fl \in Flush /\ fl.todo = flush[f].todo \ {q}
    BY <1>1, HoldingTyped DEF Holding, Flush
  <2>3. call' = [call EXCEPT ![f] = x] /\ RowsAreOne(queue)'
    BY <1>3, <1>7 DEF FlushRow, RowsAreOne
  <2>4. x \in Call /\ x.key = q.key /\ x.run = q.run
    BY <1>1, HitlAssumption DEF Request, Call, QueueRow
  <2> HIDE DEF fl, x
  <2>5. RowsAreOne(fl.todo)
    BY <1>3, <2>2 DEF RowsAreOne
  <2>6. \A o \in fl.todo :
          /\ \A p \in posts : p.by = f => p.key # o.key \/ p.run # o.run
          /\ x # NoCall => x.key # o.key \/ x.run # o.run
    BY <1>3, <2>2, <2>4 DEF RowsAreOne
  <2>7. \A p \in posts : ~(p.by = f /\ p.key = x.key /\ p.run = x.run)
    BY <1>3, <2>4
  <2>8. Unsent(f, x, fl.todo)
    BY <2>5, <2>6, <2>7 DEF Unsent
  <2>9. QED
    BY <1>5, <2>1, <2>2, <2>3, <2>4, <2>8, IdFlush
<1>8. CASE MarkFlushed(f) \/ CountFailed(f)
  <2> DEFINE fl == Holding(f, "running", flush[f].todo, Nil)
  <2>1. flush' = [flush EXCEPT ![f] = fl] /\ call' = [call EXCEPT ![f] = NoCall]
    BY <1>1, <1>8 DEF MarkFlushed, CountFailed, Holding, InHand, Flush
  <2>2. fl \in Flush /\ fl.todo = flush[f].todo
    BY <1>1, HoldingTyped DEF Holding, Flush
  <2> HIDE DEF fl
  <2>3. RowsAreOne(queue)'
    <3>1. CASE CountFailed(f)
      BY <1>3, <3>1 DEF CountFailed, RowsAreOne
    <3>2. CASE MarkFlushed(f)
      <4>1. ASSUME NEW q \in queue
            PROVE  [q EXCEPT !.flushed = TRUE].key = q.key
                   /\ [q EXCEPT !.flushed = TRUE].run = q.run
        BY DEF FrontInv, HitlTypeOK, QueueRow
      <4>2. ASSUME NEW n \in queue'
            PROVE  \E q \in queue :
                     /\ n.key = q.key /\ n.run = q.run
                     /\ n = IF q.key = flush[f].row.key /\ q.run = flush[f].row.run
                            THEN [q EXCEPT !.flushed = TRUE] ELSE q
        <5>1. PICK q \in queue :
                n = IF q.key = flush[f].row.key /\ q.run = flush[f].row.run
                    THEN [q EXCEPT !.flushed = TRUE] ELSE q
          BY <3>2 DEF MarkFlushed
        <5>2. QED
          BY <4>1, <5>1
      <4>3. ASSUME NEW m \in queue', NEW n \in queue', m.key = n.key, m.run = n.run
            PROVE  m = n
        <5>1. PICK q \in queue :
                /\ n.key = q.key /\ n.run = q.run
                /\ n = IF q.key = flush[f].row.key /\ q.run = flush[f].row.run
                       THEN [q EXCEPT !.flushed = TRUE] ELSE q
          BY <4>2
        <5>2. PICK o \in queue :
                /\ m.key = o.key /\ m.run = o.run
                /\ m = IF o.key = flush[f].row.key /\ o.run = flush[f].row.run
                       THEN [o EXCEPT !.flushed = TRUE] ELSE o
          BY <4>2
        <5>3. o = q
          BY <1>3, <4>3, <5>1, <5>2 DEF RowsAreOne
        <5>4. QED
          BY <5>1, <5>2, <5>3
      <4>4. QED
        BY <4>3 DEF RowsAreOne
    <3>3. QED
      BY <1>8, <3>1, <3>2
  <2>4. Unsent(f, NoCall, fl.todo)
    BY <1>3, <2>2 DEF Unsent
  <2>5. QED
    BY <1>5, <2>1, <2>2, <2>3, <2>4, IdFlush
<1>9. CASE EndFlush(f)
  <2> DEFINE fl == Holding(f, "over", flush[f].todo, Nil)
  <2>1. flush' = [flush EXCEPT ![f] = fl]
    BY <1>1, <1>9 DEF EndFlush, Holding, InHand, Flush
  <2>2. fl \in Flush /\ fl.todo = flush[f].todo
    BY <1>1, HoldingTyped DEF Holding, Flush
  <2> HIDE DEF fl
  <2>3. call' = [call EXCEPT ![f] = call[f]] /\ RowsAreOne(queue)'
    BY <1>2, <1>3, <1>9 DEF EndFlush, FrontInv, HitlTypeOK, RowsAreOne
  <2>4. Unsent(f, call[f], fl.todo)
    BY <1>3, <1>4, <2>2 DEF Unsent
  <2>5. QED
    BY <1>2, <1>5, <2>1, <2>2, <2>3, <2>4, IdFlush
<1>10. QED
  BY <1>6, <1>7, <1>8, <1>9 DEF FlushStep

(* What a stopped server leaves of a call.                                 *)
LEMMA StopCalls ==
  ASSUME FrontInv, NEW s \in Servers, StopServer(s), NEW c \in Clients
  PROVE  \/ call'[c] = call[c]
         \/ /\ call[c] # NoCall /\ call'[c] # NoCall
            /\ call'[c] \in Call
            /\ call'[c].phase = "failed"
            /\ call[c].phase \in {"sending", "waiting", "enqueue"}
            /\ call'[c].run = call[c].run /\ call'[c].key = call[c].key
            /\ call'[c].try = call[c].try /\ call'[c].server = call[c].server
<1>1. CASE /\ call[c] # NoCall
           /\ call[c].server = s
           /\ call[c].phase \in {"sending", "waiting", "enqueue"}
  <2> DEFINE x == [call[c] EXCEPT !.phase = "failed"]
  <2>1. call[c] \in Call /\ call'[c] = x
    BY <1>1 DEF StopServer, FrontInv, HitlTypeOK
  <2>2. /\ x \in Call /\ x.phase = "failed" /\ x.run = call[c].run
        /\ x.key = call[c].key /\ x.try = call[c].try
        /\ x.server = call[c].server
    BY <2>1 DEF Call
  <2>3. x # NoCall
    BY <2>2 DEF NoCall
  <2>4. QED
    BY <1>1, <2>1, <2>2, <2>3
<1>2. CASE ~ /\ call[c] # NoCall
             /\ call[c].server = s
             /\ call[c].phase \in {"sending", "waiting", "enqueue"}
  BY <1>2 DEF StopServer
<1>3. QED
  BY <1>1, <1>2

LEMMA StopFlushes ==
  ASSUME FrontInv, NEW s \in Servers, StopServer(s), NEW f \in Flushes
  PROVE  \/ flush'[f] = flush[f]
         \/ /\ flush[f] # NoFlush /\ flush'[f] # NoFlush
            /\ flush'[f].todo = flush[f].todo
<1>1. CASE flush[f] # NoFlush /\ flush[f].server = s
  <2>1. flush[f] \in Flush /\ flush'[f] = [flush[f] EXCEPT !.phase = "over"]
    BY <1>1 DEF StopServer, FrontInv, HitlTypeOK
  <2>2. flush'[f].todo = flush[f].todo /\ flush'[f].phase = "over"
    BY <2>1 DEF Flush
  <2>3. QED
    BY <1>1, <2>2 DEF NoFlush
<1>2. CASE ~(flush[f] # NoFlush /\ flush[f].server = s)
  BY <1>2 DEF StopServer
<1>3. QED
  BY <1>1, <1>2

LEMMA IdServer ==
  ASSUME FrontInv, IdInv, ServerStep
  PROVE  IdInv'
<1>1. CASE UNCHANGED <<posts, call, queue, flush>>
  BY <1>1 DEF IdInv, PostsAreTold, FlushesTakeRowsOnce, Tries, RowsAreOne
<1>2. ASSUME NEW s \in Servers, NEW f \in Flushes, StartLive(s, f) \/ StartFlush(f, s)
      PROVE  IdInv'
  <2> DEFINE fl == [phase |-> "running", server |-> s, todo |-> Pending, row |-> Nil]
  <2>1. flush[f] = NoFlush /\ flush' = [flush EXCEPT ![f] = fl]
        /\ UNCHANGED <<posts, call, queue>>
    BY <1>2 DEF StartLive, StartFlush, Begin
  <2>2. Pending \subseteq queue /\ queue \subseteq QueueRow
    BY DEF Pending, FrontInv, HitlTypeOK
  <2>3. fl \in Flush /\ fl.todo = Pending
    BY <2>2 DEF Flush
  <2> HIDE DEF fl
  <2>4. call[f] = NoCall /\ call' = [call EXCEPT ![f] = NoCall]
        /\ \A p \in posts : p.by # f
    BY <2>1 DEF IdInv, FlushesTakeRowsOnce, FrontInv, HitlTypeOK
  <2>5. RowsAreOne(queue)' /\ Unsent(f, NoCall, fl.todo)
    BY <2>1, <2>2, <2>3, <2>4 DEF IdInv, FlushesTakeRowsOnce, RowsAreOne, Unsent
  <2>6. QED
    BY <2>1, <2>3, <2>4, <2>5, IdFlush
<1>3. ASSUME NEW s \in Servers, StopServer(s)
      PROVE  IdInv'
  <2>1. UNCHANGED <<posts, queue>>
    BY <1>3 DEF StopServer
  <2>2. PostsAreTold'
    <3>1. ASSUME NEW c \in Clients, NEW p \in posts, call'[c] # NoCall,
                 p.by = c, p.key = call'[c].key, p.run = call'[c].run
          PROVE  p.try <= call'[c].try
                 /\ (call'[c].phase = "sending" => p.try # call'[c].try)
      BY <1>3, <3>1, StopCalls DEF IdInv, PostsAreTold, Tries
    <3>2. ASSUME NEW p \in posts, p.by \in Callers
          PROVE  call'[p.by].phase \in PostPhases
      <4>1. p.by \in Clients
        BY <3>2 DEF Clients
      <4>2. QED
        BY <1>3, <3>2, <4>1, StopCalls DEF IdInv, PostsAreTold, PostPhases
    <3>3. QED
      BY <2>1, <3>1, <3>2 DEF IdInv, PostsAreTold, Tries, PostPhases
  <2>3. FlushesTakeRowsOnce'
    <3>1. ASSUME NEW f \in Flushes
          PROVE  /\ flush'[f] = NoFlush <=> flush[f] = NoFlush
                 /\ flush'[f].todo = flush[f].todo
                 /\ call'[f] = NoCall <=> call[f] = NoCall
                 /\ call'[f].key = call[f].key /\ call'[f].run = call[f].run
      <4>1. f \in Clients
        BY DEF Clients
      <4>2. QED
        BY <1>3, <4>1, StopCalls, StopFlushes
    <3>2. QED
      BY <2>1, <3>1 DEF IdInv, FlushesTakeRowsOnce, RowsAreOne
  <2>4. QED
    BY <2>2, <2>3 DEF IdInv
<1>4. QED
  BY <1>1, <1>2, <1>3
     DEF ServerStep, TakeExport, ReceiveExport, StartOffline, Import

LEMMA IdStep ==
  ASSUME FrontInv, IdInv, [HitlNext]_hitlVars
  PROVE  IdInv'
<1>1. CASE RunStep \/ UNCHANGED hitlVars
  BY <1>1
     DEF RunStep, hitlVars, frontVars, IdInv, PostsAreTold, FlushesTakeRowsOnce,
         Tries, RowsAreOne
<1>2. QED
  BY <1>1, IdPost, IdSubmit, IdServer, IdSend, IdAnswer, IdEnqueue, IdFlushStep
     DEF HitlNext, CallStep

-----------------------------------------------------------------------------
(* What a promise holds, and whom it made too late.                        *)

LEMMA ResolveFrame ==
  ASSUME FrontInv, CallsResolve, UNCHANGED promise, posts \subseteq posts',
         \A c \in Clients : call'[c] = call[c] \/ call'[c].phase # "duplicate"
  PROVE  CallsResolve'
<1>1. ASSUME NEW c \in Clients, call'[c].phase = "duplicate"
      PROVE  \E p \in posts' : /\ Tries(c, p)' /\ p.try = call'[c].try
                               /\ p.phase = "duplicate"
  <2>1. call'[c] = call[c]
    BY <1>1
  <2>2. PICK p \in posts : Tries(c, p) /\ p.try = call[c].try /\ p.phase = "duplicate"
    BY <1>1, <2>1 DEF CallsResolve
  <2>3. QED
    BY <2>1, <2>2 DEF Tries
<1>2. QED
  BY <1>1 DEF CallsResolve

LEMMA ResolvePost ==
  ASSUME FrontInv, WorkflowTypeOK, CallsResolve, PostStep
  PROVE  CallsResolve'
<1>1. PICK p \in posts :
        PeekResolved(p) \/ PeekUnresolved(p) \/ Resolve(p) \/ ResolveAgain(p)
  BY DEF PostStep
<1>2. PICK phase \in {"resolve", "accepted", "duplicate"} :
        Advance(p, phase) /\ (Resolve(p) => phase = "accepted")
  BY <1>1 DEF PeekResolved, PeekUnresolved, Resolve, ResolveAgain
<1>3. p \in Post /\ p.phase \in {"peek", "resolve"} /\ UNCHANGED call
  BY <1>1
     DEF FrontInv, HitlTypeOK, PeekResolved, PeekUnresolved, Resolve, ResolveAgain
<1>4. \A q \in posts : q.phase \in {"accepted", "duplicate"} => q \in posts'
  BY <1>2, <1>3 DEF Advance
<1>5. ASSUME NEW r \in Runs, promise'[r] # Nil
      PROVE  \E q \in posts' : /\ q.phase = "accepted" /\ q.run = r
                               /\ q.decision = promise'[r]
  <2>1. CASE promise'[r] = promise[r]
    BY <1>4, <1>5, <2>1 DEF CallsResolve
  <2>2. CASE promise'[r] # promise[r]
    <3>1. Resolve(p)
      BY <1>1, <2>2
         DEF PeekResolved, PeekUnresolved, ResolveAgain, workflowVars
    <3>2. r = p.run /\ promise'[r] = p.decision
      BY <1>3, <2>2, <3>1 DEF Resolve, ResolvePromise, WorkflowTypeOK
    <3> DEFINE q == [p EXCEPT !.phase = phase]
    <3>3. q \in posts' /\ q.phase = "accepted" /\ q.run = p.run
          /\ q.decision = p.decision
      BY <1>2, <1>3, <3>1 DEF Advance, Post
    <3>4. QED
      BY <3>2, <3>3
  <2>3. QED
    BY <2>1, <2>2
<1>6. ASSUME NEW c \in Clients, call[c].phase = "duplicate"
      PROVE  \E q \in posts' : /\ Tries(c, q) /\ q.try = call[c].try
                               /\ q.phase = "duplicate"
  BY <1>4, <1>6 DEF CallsResolve
<1>7. QED
  BY <1>3, <1>5, <1>6 DEF CallsResolve, Tries

LEMMA ResolveAnswer ==
  ASSUME FrontInv, CallsResolve, NEW c \in Clients, Answer(c)
  PROVE  CallsResolve'
<1>1. call[c] \in Call /\ call[c].phase = "waiting"
  BY CallTyped DEF FrontInv, Answer
<1>2. /\ PostOf(c) \in posts /\ PostOf(c).by = c /\ PostOf(c).key = call[c].key
      /\ PostOf(c).try = call[c].try /\ PostOf(c).run = call[c].run
  BY <1>1 DEF PostOf, FrontInv, AnswersFollowDecisions
<1>3. UNCHANGED <<promise, posts>>
  BY DEF Answer, workflowVars
<1>4. \A b \in Clients : b # c => call'[b] = call[b]
  BY DEF Answer, FrontInv, HitlTypeOK
<1>5. /\ call'[c].phase = PostOf(c).phase /\ call'[c].key = call[c].key
      /\ call'[c].run = call[c].run /\ call'[c].try = call[c].try
  BY <1>1 DEF Answer, FrontInv, HitlTypeOK, Call
<1>6. ASSUME NEW b \in Clients, call'[b].phase = "duplicate"
      PROVE  \E p \in posts : /\ Tries(b, p)' /\ p.try = call'[b].try
                              /\ p.phase = "duplicate"
  <2>1. CASE b = c
    BY <1>2, <1>5, <1>6, <2>1 DEF Tries
  <2>2. CASE b # c
    BY <1>4, <1>6, <2>2 DEF CallsResolve, Tries
  <2>3. QED
    BY <2>1, <2>2
<1>7. QED
  BY <1>3, <1>6 DEF CallsResolve

LEMMA ResolveStep ==
  ASSUME FrontInv, WorkflowTypeOK, CallsResolve, [HitlNext]_hitlVars
  PROVE  CallsResolve'
<1>1. CASE RunStep \/ UNCHANGED hitlVars
  <2>1. UNCHANGED promise
    BY <1>1, HandlersKeepPromises DEF hitlVars
  <2>2. UNCHANGED <<posts, call>>
    BY <1>1 DEF RunStep, hitlVars, frontVars
  <2>3. QED
    BY <2>1, <2>2, ResolveFrame
<1>2. ASSUME NEW c \in Clients, SendPost(c) \/ Enqueue(c) \/ Retry(c) \/ GiveUp(c)
      PROVE  CallsResolve'
  <2>1. call[c] \in Call /\ call[c].phase \in {"sending", "waiting", "enqueue"}
    BY <1>2, CallTyped DEF FrontInv, SendPost, Enqueue, Retry, GiveUp, Gone
  <2>2. UNCHANGED promise /\ posts \subseteq posts'
    BY <1>2 DEF SendPost, Enqueue, Retry, GiveUp, workflowVars
  <2>3. \A b \in Clients : call'[b] = call[b] \/ call'[b].phase # "duplicate"
    BY <1>2, <2>1 DEF FrontInv, HitlTypeOK, SendPost, Enqueue, Retry, GiveUp, Call
  <2>4. QED
    BY <2>2, <2>3, ResolveFrame
<1>3. CASE Submit
  <2>1. UNCHANGED <<promise, posts>>
    BY <1>3 DEF Submit, CliInput, UiInput, workflowVars
  <2>2. PICK c \in Callers, r \in Runs, d \in Decisions :
          CliInput(c, r, d) \/ \E s \in Servers : UiInput(c, s, r, d)
    BY <1>3 DEF Submit
  <2>3. c \in Clients /\ \A b \in Clients : b # c => call'[b] = call[b]
    BY <2>2 DEF CliInput, UiInput, FrontInv, HitlTypeOK, Clients
  <2>4. CASE CliInput(c, r, d)
    <3>1. call'[c].phase = "sending"
      BY <2>3, <2>4 DEF CliInput, Request, FrontInv, HitlTypeOK
    <3>2. QED
      BY <2>1, <2>3, <3>1, ResolveFrame
  <2>5. ASSUME NEW s \in Servers, UiInput(c, s, r, d) PROVE CallsResolve'
    <3>1. server[s].mode # "down"
      BY <2>5, ServerTyped DEF UiInput, FrontInv
    <3>2. SourceState(s, r) \in HitlStates
      BY <3>1, SourceTyped
    <3>3. call'[c].phase = InputPhase(s, r)
      BY <2>3, <2>5 DEF UiInput, Request, FrontInv, HitlTypeOK
    <3>4. call'[c].phase # "duplicate"
      BY <3>2, <3>3 DEF InputPhase, HitlStates
    <3>5. QED
      BY <2>1, <2>3, <3>4, ResolveFrame
  <2>6. QED
    BY <2>2, <2>4, <2>5
<1>4. ASSUME NEW f \in Flushes, FlushStep(f)
      PROVE  CallsResolve'
  <2>1. UNCHANGED <<promise, posts>>
    BY <1>4
       DEF FlushStep, SkipRow, FlushRow, MarkFlushed, CountFailed, EndFlush,
           workflowVars
  <2>2. NoCall.phase # "duplicate"
    BY DEF NoCall
  <2>3. f \in Clients
    BY DEF Clients
  <2>4. \A b \in Clients : call'[b] = call[b] \/ call'[b].phase # "duplicate"
    <3>1. CASE UNCHANGED call
      BY <3>1
    <3>2. CASE call' = [call EXCEPT ![f] = NoCall]
      BY <2>2, <2>3, <3>2 DEF FrontInv, HitlTypeOK
    <3>3. ASSUME NEW q \in flush[f].todo, FlushRow(f, q)
          PROVE  \A b \in Clients : call'[b] = call[b] \/ call'[b].phase # "duplicate"
      BY <2>3, <3>3 DEF FrontInv, HitlTypeOK, FlushRow, Request
    <3>4. QED
      BY <1>4, <3>1, <3>2, <3>3
         DEF FlushStep, SkipRow, MarkFlushed, CountFailed, EndFlush
  <2>5. QED
    BY <2>1, <2>4, ResolveFrame
<1>5. CASE ServerStep
  <2>1. UNCHANGED <<promise, posts>>
    BY <1>5
       DEF ServerStep, TakeExport, ReceiveExport, StartOffline, Import,
           StartLive, StartFlush, StopServer, workflowVars
  <2>2. \A b \in Clients : call'[b] = call[b] \/ call'[b].phase # "duplicate"
    BY <1>5, StopCalls
       DEF ServerStep, TakeExport, ReceiveExport, StartOffline, Import,
           StartLive, StartFlush
  <2>3. QED
    BY <2>1, <2>2, ResolveFrame
<1>6. QED
  BY <1>1, <1>2, <1>3, <1>4, <1>5, ResolvePost, ResolveAnswer
     DEF HitlNext, CallStep


-----------------------------------------------------------------------------
(* Submissions and flushes follow the pause, or an upload that shows it.   *)

PauseInv == PausesAreShown /\ UiDecisionsFollowThePause

Shown(r) == Journaled(r, "hitl-pause") \/ UploadShowsPause(r)

PassedOn == {"sending", "waiting", "accepted", "duplicate"}

Running(f) == flush[f] # NoFlush /\ flush[f].phase = "running"

(* Its present source is one that a flush's server may have.               *)
Askable(s) ==
  server[s] = Live \/ (server[s].mode = "offline" /\ server[s].key \in Uploads)

LEMMA JournalGrows ==
  ASSUME WorkflowIInv, HitlTypeOK, [HitlNext]_hitlVars
  PROVE  stepJournal \subseteq stepJournal'
<1>1. ASSUME NEW w \in Workers, HandlerStep(w)
      PROVE  stepJournal \subseteq stepJournal'
  BY <1>1
     DEF HandlerStep, BeginHandler, RecordStep, ReplayStep, MissStep,
         CallProvider, FireTool, ComputeStep, JournalStep, InsertStep, LoseInsert,
         CommitStep, Finish, Suspend, Fenced, tableVars, journalVars
<1>2. CASE EngineStep
  BY <1>1, <1>2 DEF EngineStep, StartAttempt, tableVars
<1>3. CASE FaultStep
  BY <1>3 DEF FaultStep, Crash, ProviderFails, LoseConnection, tableVars
<1>4. CASE \E r \in NativeRuns, p \in Prompts : Invoke(r, "HitlAgentRun", p)
  BY <1>4 DEF Invoke, tableVars
<1>5. CASE RunStep
  BY <1>2, <1>3, <1>4, <1>5 DEF RunStep
<1>6. CASE UNCHANGED hitlVars
  BY <1>6 DEF hitlVars
<1>7. UNCHANGED workflowVars => stepJournal' = stepJournal
  BY DEF workflowVars
<1>8. \A r \in Runs, d \in Decisions :
        ResolvePromise(r, d) => stepJournal' = stepJournal
  BY DEF ResolvePromise, tableVars
<1>9. QED
  BY <1>5, <1>6, <1>7, <1>8, PostStepMaps, CallStepMaps, FlushStepMaps,
     FrontStepMaps DEF HitlNext

(* An upload stays as it was taken.                                        *)
LEMMA UploadsStand ==
  ASSUME FrontInv, ServerStep, NEW r \in Runs, UploadShowsPause(r)
  PROVE  UploadShowsPause(r)'
<1>1. PICK k \in Uploads : export[k] # Nil /\ export[k][r] = "paused"
  BY DEF UploadShowsPause
<1>2. k \in ExportKeys
  BY HitlAssumption
<1>3. export'[k] = export[k]
  BY <1>1, <1>2
     DEF ServerStep, TakeExport, ReceiveExport, Writable, StartOffline, Import,
         StartLive, StartFlush, StopServer, FrontInv, HitlTypeOK
<1>4. QED
  BY <1>1, <1>3 DEF UploadShowsPause

(* No submission moves, and no flush begins: what was shown still is.      *)
LEMMA PauseFrame ==
  ASSUME PauseInv, stepJournal \subseteq stepJournal', UNCHANGED frontVars
  PROVE  PauseInv'
<1>1. \A r : Journaled(r, "hitl-pause") => Journaled(r, "hitl-pause")'
  BY DEF Journaled, trajectory
<1>2. \A r : UploadShowsPause(r)' <=> UploadShowsPause(r)
  BY DEF UploadShowsPause, frontVars
<1>3. PausesAreShown'
  BY <1>1, <1>2 DEF PauseInv, PausesAreShown, frontVars
<1>4. UiDecisionsFollowThePause'
  BY <1>1, <1>2 DEF PauseInv, UiDecisionsFollowThePause, frontVars
<1>5. QED
  BY <1>3, <1>4 DEF PauseInv

(* A submission that goes on as the same one, or a new one.                *)
LEMMA PauseCall ==
  ASSUME FrontInv, PauseInv, NEW c \in Clients, NEW x \in Call \cup {NoCall},
         call' = [call EXCEPT ![c] = x],
         UNCHANGED <<stepJournal, export, server>>,
         (c \in Callers /\ x # NoCall /\ x.server # Nil /\ x.phase \in PassedOn) =>
           Journaled(x.run, "hitl-pause"),
         (c \in Flushes /\ x # NoCall) => Shown(x.run),
         \A p \in posts' :
           \/ p \in posts
           \/ /\ p.by = c
              /\ (c \in Callers /\ x.server # Nil) => Journaled(p.run, "hitl-pause")
              /\ c \in Flushes => Shown(p.run),
         \/ x.server = call[c].server
         \/ c \in Flushes
         \/ \A p \in posts' : p.by # c,
         \A f \in Flushes : Running(f)' =>
           Running(f) /\ flush'[f].server = flush[f].server
  PROVE  PauseInv'
<1>1. \A b \in Clients : call'[b] = IF b = c THEN x ELSE call[b]
  BY DEF FrontInv, HitlTypeOK
<1>2. \A r : /\ Journaled(r, "hitl-pause")' <=> Journaled(r, "hitl-pause")
             /\ UploadShowsPause(r)' <=> UploadShowsPause(r)
  BY DEF Journaled, trajectory, UploadShowsPause
<1>3. PausesAreShown'
  <2>1. ASSUME NEW b \in Callers, call'[b] # NoCall, call'[b].server # Nil,
               call'[b].phase \in PassedOn
        PROVE  Journaled(call'[b].run, "hitl-pause")
    BY <1>1, <2>1 DEF PauseInv, PausesAreShown, Clients, PassedOn
  <2>2. ASSUME NEW f \in Flushes, call'[f] # NoCall
        PROVE  Shown(call'[f].run)
    BY <1>1, <2>2 DEF PauseInv, PausesAreShown, Clients, Shown
  <2>3. ASSUME NEW f \in Flushes, Running(f)'
        PROVE  Askable(flush'[f].server)
    BY <2>3 DEF PauseInv, PausesAreShown, Running, Askable
  <2>4. QED
    BY <1>2, <2>1, <2>2, <2>3 DEF PausesAreShown, PassedOn, Shown, Running, Askable
<1>4. UiDecisionsFollowThePause'
  <2>1. \A f \in Flushes : f \notin Callers
    BY HitlAssumption
  <2>2. ASSUME NEW p \in posts', p.by \in Callers, call'[p.by].server # Nil
        PROVE  Journaled(p.run, "hitl-pause")
    BY <1>1, <2>1, <2>2 DEF PauseInv, UiDecisionsFollowThePause, Clients
  <2>3. ASSUME NEW p \in posts', p.by \in Flushes
        PROVE  Shown(p.run)
    BY <2>3 DEF PauseInv, UiDecisionsFollowThePause, Shown
  <2>4. QED
    BY <1>2, <2>2, <2>3 DEF UiDecisionsFollowThePause, Shown
<1>5. QED
  BY <1>3, <1>4 DEF PauseInv

LEMMA PausePost ==
  ASSUME FrontInv, PauseInv, PostStep
  PROVE  PauseInv'
<1>1. PICK p \in posts :
        PeekResolved(p) \/ PeekUnresolved(p) \/ Resolve(p) \/ ResolveAgain(p)
  BY DEF PostStep
<1>2. PICK phase \in {"resolve", "accepted", "duplicate"} : Advance(p, phase)
  BY <1>1 DEF PeekResolved, PeekUnresolved, Resolve, ResolveAgain
<1>3. UNCHANGED <<stepJournal, call, queue, flush, export, server>>
  BY <1>1
     DEF PeekResolved, PeekUnresolved, Resolve, ResolveAgain, ResolvePromise,
         workflowVars, tableVars
<1>4. p \in Post
  BY DEF FrontInv, HitlTypeOK
<1>5. \A a \in posts' : \E b \in posts : a.by = b.by /\ a.run = b.run
  BY <1>2, <1>4 DEF Advance, Post
<1>6. \A r : /\ Journaled(r, "hitl-pause")' <=> Journaled(r, "hitl-pause")
             /\ UploadShowsPause(r)' <=> UploadShowsPause(r)
  BY <1>3 DEF Journaled, trajectory, UploadShowsPause
<1>7. UiDecisionsFollowThePause'
  BY <1>3, <1>5, <1>6 DEF PauseInv, UiDecisionsFollowThePause
<1>8. PausesAreShown'
  BY <1>3, <1>6 DEF PauseInv, PausesAreShown
<1>9. QED
  BY <1>7, <1>8 DEF PauseInv

LEMMA PauseOn ==
  ASSUME FrontInv, PauseInv, NEW c \in Clients,
         SendPost(c) \/ Answer(c) \/ Retry(c) \/ GiveUp(c)
  PROVE  PauseInv'
<1>1. call[c] \in Call /\ call[c] # NoCall /\ call[c].phase \in {"sending", "waiting"}
  BY CallTyped DEF FrontInv, SendPost, Answer, Retry, GiveUp, Gone
<1>2. call[c].try \in 1 .. MaxTries
  BY <1>1 DEF Call
<1>3. UNCHANGED <<stepJournal, export, server, flush>>
  BY DEF SendPost, Answer, Retry, GiveUp, workflowVars
<1>4. PICK phase \in {"sending", "waiting", "accepted", "duplicate", "failed"},
           try \in 1 .. MaxTries : call' = [call EXCEPT ![c] = Moved(c, phase, try)]
  <2>1. CASE SendPost(c)
    BY <1>1, <1>2, <2>1 DEF SendPost, Moved, Call
  <2>2. CASE Answer(c)
    BY <1>1, <1>2, <2>2 DEF Answer, Moved, Call
  <2>3. CASE Retry(c)
    <3>1. call[c].try + 1 \in 1 .. MaxTries
      BY <1>2, <2>3, HitlAssumption DEF Retry
    <3>2. call' = [call EXCEPT ![c] = Moved(c, "sending", call[c].try + 1)]
      BY <1>1, <2>3 DEF Retry, Moved, Call
    <3>3. QED
      BY <3>1, <3>2
  <2>4. CASE GiveUp(c)
    BY <1>1, <1>2, <2>4 DEF GiveUp, Moved, Call
  <2>5. QED
    BY <2>1, <2>2, <2>3, <2>4
<1> DEFINE x == Moved(c, phase, try)
<1>5. /\ x \in Call /\ x # NoCall /\ x.phase = phase /\ x.run = call[c].run
      /\ x.server = call[c].server
  <2>1. x \in Call /\ x # NoCall /\ x.phase = phase /\ x.run = call[c].run
    BY <1>1, MovedTyped
  <2>2. x.server = call[c].server
    BY <1>1 DEF Moved, Call
  <2>3. QED
    BY <2>1, <2>2
<1>6. call' = [call EXCEPT ![c] = x]
  BY <1>4
<1> HIDE DEF x
<1>7. (c \in Callers /\ call[c].server # Nil) => Journaled(call[c].run, "hitl-pause")
  BY <1>1 DEF PauseInv, PausesAreShown
<1>8. c \in Flushes => Shown(call[c].run)
  BY <1>1 DEF PauseInv, PausesAreShown, Shown
<1>9. \A p \in posts' : p \in posts \/ (p.by = c /\ p.run = call[c].run)
  BY DEF SendPost, Answer, Retry, GiveUp
<1>10. \A p \in posts' :
           \/ p \in posts
           \/ /\ p.by = c
              /\ (c \in Callers /\ x.server # Nil) => Journaled(p.run, "hitl-pause")
              /\ c \in Flushes => Shown(p.run)
  BY <1>5, <1>7, <1>8, <1>9
<1>11. \A f \in Flushes : Running(f)' =>
         Running(f) /\ flush'[f].server = flush[f].server
  BY <1>3 DEF Running
<1>12. QED
  BY <1>3, <1>5, <1>6, <1>7, <1>8, <1>10, <1>11, PauseCall

LEMMA PauseSubmit ==
  ASSUME FrontInv, IdInv, PauseInv, Submit
  PROVE  PauseInv'
<1>1. PICK c \in Callers, r \in Runs, d \in Decisions :
        CliInput(c, r, d) \/ \E s \in Servers : UiInput(c, s, r, d)
  BY DEF Submit
<1>2. call[c] = NoCall /\ UNCHANGED <<stepJournal, export, server, posts, flush>>
  BY <1>1 DEF CliInput, UiInput, workflowVars
<1>3. c \in Clients /\ c \notin Flushes
  BY HitlAssumption DEF Clients
<1>4. \A p \in posts' : p.by # c /\ p \in posts
  BY <1>2 DEF IdInv, PostsAreTold, NoCall
<1>5. \A f \in Flushes : Running(f)' =>
        Running(f) /\ flush'[f].server = flush[f].server
  BY <1>2 DEF Running
<1>6. FrontInv'
  BY SubmitInv
<1>7. CASE CliInput(c, r, d)
  <2> DEFINE x == Request("sending", Nil, Nil, r, d)
  <2>1. call' = [call EXCEPT ![c] = x] /\ x.server = Nil
    BY <1>7 DEF CliInput, Request
  <2>2. call'[c] \in Call \cup {NoCall}
    BY <1>3, <1>6 DEF FrontInv, HitlTypeOK
  <2>3. x \in Call \cup {NoCall}
    BY <1>3, <2>1, <2>2 DEF FrontInv, HitlTypeOK
  <2> HIDE DEF x
  <2>4. QED
    BY <1>2, <1>3, <1>4, <1>5, <2>1, <2>3, PauseCall
<1>8. ASSUME NEW s \in Servers, UiInput(c, s, r, d) PROVE PauseInv'
  <2> DEFINE x == Request(InputPhase(s, r), s, Nil, r, d)
  <2>1. call' = [call EXCEPT ![c] = x] /\ x.run = r /\ x.phase = InputPhase(s, r)
    BY <1>8 DEF UiInput, Request
  <2>2. call'[c] \in Call \cup {NoCall}
    BY <1>3, <1>6 DEF FrontInv, HitlTypeOK
  <2>3. x \in Call \cup {NoCall}
    BY <1>3, <2>1, <2>2 DEF FrontInv, HitlTypeOK
  <2>4. server[s].mode # "down"
    BY <1>8, ServerTyped DEF UiInput, FrontInv
  <2>5. SourceState(s, r) \in HitlStates
    BY <2>4, SourceTyped
  <2>6. x.phase \in PassedOn => server[s] = Live /\ SourceState(s, r) = "paused"
    BY <2>1, <2>5 DEF InputPhase, PassedOn, HitlStates
  <2>7. x.phase \in PassedOn => Journaled(x.run, "hitl-pause")
    BY <2>1, <2>6 DEF SourceState, hitlState
  <2> HIDE DEF x
  <2>8. QED
    BY <1>2, <1>3, <1>4, <1>5, <2>1, <2>3, <2>7, PauseCall
<1>9. QED
  BY <1>1, <1>7, <1>8

LEMMA PauseEnqueue ==
  ASSUME FrontInv, PauseInv, NEW c \in Callers, Enqueue(c)
  PROVE  PauseInv'
<1>1. c \in Clients /\ call[c].phase = "enqueue" /\ c \notin Flushes
  BY HitlAssumption DEF Clients, Enqueue
<1>2. call[c] \in Call
  BY <1>1, CallTyped DEF FrontInv
<1>3. UNCHANGED <<stepJournal, export, server, posts, flush>>
  BY DEF Enqueue, workflowVars
<1>4. FrontInv'
  BY <1>1, EnqueueInv
<1> DEFINE x == call'[c]
<1>5. x \in Call \cup {NoCall}
  BY <1>1, <1>4 DEF FrontInv, HitlTypeOK
<1>6. call' = [call EXCEPT ![c] = x] /\ x.server = call[c].server
      /\ x.phase = "queued"
  BY <1>1, <1>2 DEF Enqueue, Call, FrontInv, HitlTypeOK
<1> HIDE DEF x
<1>7. \A f \in Flushes : Running(f)' =>
        Running(f) /\ flush'[f].server = flush[f].server
  BY <1>3 DEF Running
<1>8. x.phase \notin PassedOn
  BY <1>6 DEF PassedOn
<1>9. QED
  BY <1>1, <1>3, <1>5, <1>6, <1>7, <1>8, PauseCall

(* The source that a flush asks for its next row.                          *)
LEMMA AskedPause ==
  ASSUME FrontInv, NEW s \in Servers, Askable(s), NEW r \in Runs,
         SourceState(s, r) = "paused"
  PROVE  Shown(r)
<1>1. CASE server[s] = Live
  BY <1>1 DEF SourceState, hitlState, Shown
<1>2. CASE server[s] # Live
  <2>1. server[s].mode = "offline" /\ server[s].key \in Uploads
    BY <1>2 DEF Askable
  <2>2. export[server[s].key] # Nil
    BY <2>1 DEF FrontInv, ServersShowExports
  <2>3. export[server[s].key][r] = "paused"
    BY <1>2 DEF SourceState, Overlay
  <2>4. QED
    BY <2>1, <2>2, <2>3 DEF Shown, UploadShowsPause
<1>3. QED
  BY <1>1, <1>2

LEMMA PauseFlush ==
  ASSUME FrontInv, PauseInv, NEW f \in Flushes, FlushStep(f)
  PROVE  PauseInv'
<1>1. InHand(f) /\ flush[f] \in Flush /\ Running(f)
      /\ flush[f].todo \subseteq QueueRow /\ flush[f].server \in Servers
  BY FlushTyped
     DEF FrontInv, FlushStep, SkipRow, FlushRow, MarkFlushed, CountFailed,
         EndFlush, InHand, Running
<1>2. f \in Clients /\ f \notin Callers
  BY HitlAssumption DEF Clients
<1>3. UNCHANGED <<stepJournal, export, server, posts>>
  BY DEF FlushStep, SkipRow, FlushRow, MarkFlushed, CountFailed, EndFlush,
         workflowVars
<1>4. ASSUME NEW g \in Flushes, Running(g)'
      PROVE  Running(g) /\ flush'[g].server = flush[g].server
  <2>1. CASE g # f
    <3>1. flush'[g] = flush[g]
      BY <2>1
         DEF FlushStep, SkipRow, FlushRow, MarkFlushed, CountFailed, EndFlush,
             FrontInv, HitlTypeOK
    <3>2. QED
      BY <1>4, <3>1 DEF Running
  <2>2. CASE g = f
    <3>1. flush[f] \in [phase : {"running", "over"}, server : Servers,
                        todo : SUBSET QueueRow, row : QueueRow \cup {Nil}]
      BY <1>1 DEF Flush
    <3>2. flush'[f].server = flush[f].server
      <4>1. ASSUME NEW q \in flush[f].todo, SkipRow(f, q) \/ FlushRow(f, q)
            PROVE  flush'[f].server = flush[f].server
        BY <3>1, <4>1 DEF SkipRow, FlushRow, FrontInv, HitlTypeOK
      <4>2. ASSUME MarkFlushed(f) \/ CountFailed(f) \/ EndFlush(f)
            PROVE  flush'[f].server = flush[f].server
        BY <3>1, <4>2 DEF MarkFlushed, CountFailed, EndFlush, FrontInv, HitlTypeOK
      <4>3. QED
        BY <4>1, <4>2 DEF FlushStep
    <3>3. QED
      BY <1>1, <2>2, <3>2
  <2>3. QED
    BY <2>1, <2>2
<1>5. CASE UNCHANGED call
  <2>1. call' = [call EXCEPT ![f] = call[f]] /\ call[f] \in Call \cup {NoCall}
    BY <1>2, <1>5 DEF FrontInv, HitlTypeOK
  <2>2. call[f] # NoCall => Shown(call[f].run)
    BY DEF PauseInv, PausesAreShown, Shown
  <2>3. QED
    BY <1>2, <1>3, <1>4, <2>1, <2>2, PauseCall
<1>6. CASE call' = [call EXCEPT ![f] = NoCall]
  BY <1>2, <1>3, <1>4, <1>6, PauseCall
<1>7. ASSUME NEW q \in flush[f].todo, FlushRow(f, q)
      PROVE  PauseInv'
  <2> DEFINE x == Request("sending", flush[f].server, q.key, q.run, q.decision)
  <2>1. call' = [call EXCEPT ![f] = x]
    BY <1>7 DEF FlushRow
  <2>2. x \in Call /\ x.run = q.run /\ q.run \in Runs
    BY <1>1, HitlAssumption DEF Request, Call, QueueRow
  <2> HIDE DEF x
  <2>3. Askable(flush[f].server)
    BY <1>1 DEF PauseInv, PausesAreShown, Running, Askable
  <2>4. Shown(q.run)
    BY <1>1, <1>7, <2>2, <2>3, AskedPause DEF FlushRow
  <2>5. QED
    BY <1>2, <1>3, <1>4, <2>1, <2>2, <2>4, PauseCall
<1>8. QED
  BY <1>5, <1>6, <1>7
     DEF FlushStep, SkipRow, MarkFlushed, CountFailed, EndFlush

(* A flush keeps its server while it runs, and a server that has one shows *)
(* the journal or an upload.                                               *)
LEMMA ServerAskable ==
  ASSUME FrontInv, PauseInv, ServerStep, NEW f \in Flushes, Running(f)',
         NEW t, t = flush'[f].server
  PROVE  Askable(t)'
<1>1. ASSUME NEW s \in Servers, NEW g \in Flushes, StartLive(s, g) \/ StartFlush(g, s)
      PROVE  Askable(t)'
  <2>1. /\ server'[s] = Live /\ \A u \in Servers : u # s => server'[u] = server[u]
        /\ \A h \in Flushes : h # g => flush'[h] = flush[h]
        /\ flush'[g].server = s
    BY <1>1 DEF StartLive, StartFlush, Begin, FrontInv, HitlTypeOK
  <2>2. CASE t = s
    BY <2>1, <2>2 DEF Askable
  <2>3. CASE t # s
    <3>1. Running(f) /\ flush[f].server = t
      BY <2>1, <2>3 DEF Running
    <3>2. t \in Servers
      BY <3>1, FlushTyped DEF Running, FrontInv
    <3>3. Askable(t)
      BY <3>1 DEF PauseInv, PausesAreShown, Running, Askable
    <3>4. QED
      BY <2>1, <2>3, <3>2, <3>3 DEF Askable
  <2>4. QED
    BY <2>2, <2>3
<1>2. ASSUME NEW s \in Servers, StopServer(s)
      PROVE  Askable(t)'
  <2>1. CASE flush[f] # NoFlush /\ flush[f].server = s
    <3>1. flush[f] \in Flush /\ flush'[f] = [flush[f] EXCEPT !.phase = "over"]
      BY <1>2, <2>1 DEF StopServer, FrontInv, HitlTypeOK
    <3>2. flush'[f].phase = "over"
      BY <3>1 DEF Flush
    <3>3. QED
      BY <3>2 DEF Running
  <2>2. CASE ~(flush[f] # NoFlush /\ flush[f].server = s)
    <3>1. flush'[f] = flush[f]
      BY <1>2, <2>2 DEF StopServer
    <3>2. Running(f) /\ flush[f].server = t /\ t # s
      BY <2>2, <3>1 DEF Running
    <3>3. t \in Servers /\ Askable(t)
      BY <3>2, FlushTyped DEF Running, FrontInv, PauseInv, PausesAreShown, Askable
    <3>4. server'[t] = server[t]
      BY <1>2, <3>2, <3>3 DEF StopServer, FrontInv, HitlTypeOK
    <3>5. QED
      BY <3>3, <3>4 DEF Askable
  <2>3. QED
    BY <2>1, <2>2
<1>3. ASSUME UNCHANGED flush
      PROVE  t \in Servers /\ Askable(t)
  BY <1>3, FlushTyped DEF Running, FrontInv, PauseInv, PausesAreShown, Askable
<1>4. ASSUME NEW s \in Servers, NEW k \in ExportKeys, StartOffline(s, k)
      PROVE  Askable(t)'
  <2>1. server[s] = Down /\ server' = [server EXCEPT ![s] = Offline(k)]
    BY <1>4 DEF StartOffline
  <2>2. t \in Servers /\ Askable(t)
    BY <1>3, <1>4 DEF StartOffline
  <2>3. server[t] # Down
    BY <2>2 DEF Askable, Down, Live
  <2>4. server'[t] = server[t]
    BY <2>1, <2>2, <2>3 DEF FrontInv, HitlTypeOK
  <2>5. QED
    BY <2>2, <2>4 DEF Askable
<1>5. ASSUME NEW s \in Servers, NEW k \in ExportKeys,
             NEW shows \in [Runs -> HitlStates], Import(s, k, shows)
      PROVE  Askable(t)'
  <2>1. k \in Uploads /\ server' = [server EXCEPT ![s] = Offline(k)]
    BY <1>5 DEF Import
  <2>2. t \in Servers /\ Askable(t)
    BY <1>3, <1>5 DEF Import
  <2>3. server'[t] = IF t = s THEN Offline(k) ELSE server[t]
    BY <2>1, <2>2 DEF FrontInv, HitlTypeOK
  <2>4. Offline(k).mode = "offline" /\ Offline(k).key = k
    BY DEF Offline
  <2>5. QED
    BY <2>1, <2>2, <2>3, <2>4 DEF Askable
<1>6. CASE UNCHANGED <<server, flush>>
  BY <1>3, <1>6 DEF Askable
<1>7. QED
  BY <1>1, <1>2, <1>4, <1>5, <1>6 DEF ServerStep, TakeExport, ReceiveExport

LEMMA PauseServer ==
  ASSUME FrontInv, PauseInv, ServerStep
  PROVE  PauseInv'
<1>1. UNCHANGED <<stepJournal, posts>>
  BY DEF ServerStep, TakeExport, ReceiveExport, StartOffline, Import, StartLive,
         StartFlush, StopServer, workflowVars
<1>2. \A r : Journaled(r, "hitl-pause")' <=> Journaled(r, "hitl-pause")
  BY <1>1 DEF Journaled, trajectory
<1>3. ASSUME NEW c \in Clients
      PROVE  \/ call'[c] = call[c]
             \/ /\ call[c] # NoCall /\ call'[c] # NoCall
                /\ call'[c].phase = "failed"
                /\ call'[c].run = call[c].run
                /\ call'[c].server = call[c].server
  BY StopCalls
     DEF ServerStep, TakeExport, ReceiveExport, StartOffline, Import, StartLive,
         StartFlush
<1>4. ASSUME NEW r \in Runs, Shown(r)
      PROVE  Journaled(r, "hitl-pause")' \/ UploadShowsPause(r)'
  BY <1>2, <1>4, UploadsStand DEF Shown
<1>5. PausesAreShown'
  <2>1. ASSUME NEW c \in Callers, call'[c] # NoCall, call'[c].server # Nil,
               call'[c].phase \in PassedOn
        PROVE  Journaled(call'[c].run, "hitl-pause")
    <3>1. call'[c] = call[c]
      BY <1>3, <2>1 DEF Clients, PassedOn
    <3>2. QED
      BY <2>1, <3>1 DEF PauseInv, PausesAreShown, PassedOn
  <2>2. ASSUME NEW f \in Flushes, call'[f] # NoCall, NEW r, r = call'[f].run
        PROVE  Journaled(r, "hitl-pause")' \/ UploadShowsPause(r)'
    <3>1. f \in Clients
      BY DEF Clients
    <3>2. call[f] # NoCall /\ r = call[f].run /\ r \in Runs
      BY <1>3, <2>2, <3>1 DEF FrontInv, HitlTypeOK, Call
    <3>3. Shown(r)
      BY <3>2 DEF PauseInv, PausesAreShown, Shown
    <3>4. QED
      BY <1>4, <3>2, <3>3
  <2>3. ASSUME NEW f \in Flushes, Running(f)', NEW s, s = flush'[f].server
        PROVE  Askable(s)'
    BY <2>3, ServerAskable
  <2>4. QED
    BY <1>2, <2>1, <2>2, <2>3 DEF PausesAreShown, PassedOn, Running, Askable
<1>6. UiDecisionsFollowThePause'
  <2>1. ASSUME NEW p \in posts, p.by \in Callers, call'[p.by].server # Nil
        PROVE  Journaled(p.run, "hitl-pause")
    <3>1. p.by \in Clients
      BY <2>1 DEF Clients
    <3>2. call'[p.by].server = call[p.by].server
      BY <1>3, <3>1
    <3>3. QED
      BY <2>1, <3>2 DEF PauseInv, UiDecisionsFollowThePause
  <2>2. ASSUME NEW p \in posts, p.by \in Flushes
        PROVE  Journaled(p.run, "hitl-pause")' \/ UploadShowsPause(p.run)'
    <3>1. p.run \in Runs
      BY PostTyped DEF FrontInv
    <3>2. Shown(p.run)
      BY <2>2 DEF PauseInv, UiDecisionsFollowThePause, Shown
    <3>3. QED
      BY <1>4, <3>1, <3>2
  <2>3. QED
    BY <1>1, <1>2, <2>1, <2>2 DEF UiDecisionsFollowThePause
<1>7. QED
  BY <1>5, <1>6 DEF PauseInv

LEMMA PauseStep ==
  ASSUME WorkflowIInv, FrontInv, IdInv, PauseInv, [HitlNext]_hitlVars
  PROVE  PauseInv'
<1>1. CASE RunStep \/ UNCHANGED hitlVars
  <2>1. UNCHANGED frontVars
    BY <1>1 DEF RunStep, hitlVars, frontVars
  <2>2. stepJournal \subseteq stepJournal'
    BY JournalGrows DEF FrontInv
  <2>3. QED
    BY <2>1, <2>2, PauseFrame
<1>2. QED
  BY <1>1, PausePost, PauseSubmit, PauseServer, PauseOn, PauseEnqueue, PauseFlush
     DEF HitlNext, CallStep


-----------------------------------------------------------------------------
(* Offline acceptances of one server are never replaced through it.        *)

EnqInv == EnqueuesAreNew /\ QueuedDecisionsStay

LEMMA EnqFrame ==
  ASSUME EnqInv,
         \A c \in Callers : call'[c].phase = "enqueue" =>
           /\ call'[c] = call[c]
           /\ server'[call[c].server].key = server[call[c].server].key,
         \A c \in Callers :
           (call'[c].phase = "queued" \/ call[c].phase = "queued") => call'[c] = call[c],
         \A o \in queue : \E q \in queue' :
           q.key = o.key /\ q.run = o.run /\ q.decision = o.decision
  PROVE  EnqInv'
<1>1. EnqueuesAreNew'
  BY DEF EnqInv, EnqueuesAreNew
<1>2. QueuedDecisionsStay'
  <2>1. ASSUME NEW c \in Callers, call'[c].phase = "queued"
        PROVE  \E q \in queue' :
                 /\ q.key = call'[c].key /\ q.run = call'[c].run
                 /\ \/ q.decision = call'[c].decision
                    \/ \E b \in Callers : /\ call'[b].phase = "queued"
                                          /\ call'[b].server # call'[c].server
                                          /\ call'[b].key = q.key
                                          /\ call'[b].run = q.run
                                          /\ call'[b].decision = q.decision
    <3>1. call'[c] = call[c] /\ call[c].phase = "queued"
      BY <2>1
    <3>2. PICK o \in queue :
            /\ o.key = call[c].key /\ o.run = call[c].run
            /\ \/ o.decision = call[c].decision
               \/ \E b \in Callers : /\ call[b].phase = "queued"
                                     /\ call[b].server # call[c].server
                                     /\ call[b].key = o.key
                                     /\ call[b].run = o.run
                                     /\ call[b].decision = o.decision
      BY <3>1 DEF EnqInv, QueuedDecisionsStay
    <3>3. PICK q \in queue' : q.key = o.key /\ q.run = o.run /\ q.decision = o.decision
      BY <3>2
    <3>4. CASE o.decision = call[c].decision
      BY <3>1, <3>2, <3>3, <3>4
    <3>5. CASE o.decision # call[c].decision
      <4>1. PICK b \in Callers : /\ call[b].phase = "queued"
                                 /\ call[b].server # call[c].server
                                 /\ call[b].key = o.key /\ call[b].run = o.run
                                 /\ call[b].decision = o.decision
        BY <3>2, <3>5
      <4>2. call'[b] = call[b]
        BY <4>1
      <4>3. QED
        BY <3>1, <3>2, <3>3, <4>1, <4>2
    <3>6. QED
      BY <3>4, <3>5
  <2>2. QED
    BY <2>1 DEF QueuedDecisionsStay
<1>3. QED
  BY <1>1, <1>2 DEF EnqInv

(* No step but Submit and Enqueue makes an acceptance or a submission that *)
(* was queued, and none takes a decision out of the queue.                 *)
LEMMA EnqServer ==
  ASSUME FrontInv, EnqInv, ServerStep
  PROVE  EnqInv'
<1>1. UNCHANGED queue
  BY DEF ServerStep, TakeExport, ReceiveExport, StartOffline, Import, StartLive,
         StartFlush, StopServer
<1>2. ASSUME NEW c \in Callers,
             call'[c].phase \in {"enqueue", "queued"} \/ call[c].phase = "queued"
      PROVE  call'[c] = call[c]
  BY <1>2, StopCalls
     DEF ServerStep, TakeExport, ReceiveExport, StartOffline, Import, StartLive,
         StartFlush, Clients
<1>3. ASSUME NEW c \in Callers, call'[c].phase = "enqueue"
      PROVE  server'[call[c].server] = server[call[c].server]
  <2>1. c \in Clients /\ call[c].phase = "enqueue"
    BY <1>2, <1>3 DEF Clients
  <2>2. /\ call[c].server \in Servers /\ call[c] # NoCall
        /\ server[call[c].server].mode = "offline"
    BY <2>1, CallTyped DEF FrontInv, ServersShowExports
  <2>3. server[call[c].server] # Down
    BY <2>2, ServerTyped DEF FrontInv
  <2>4. ASSUME NEW s \in Servers, server[s] = Down \/ ~Busy(s) \/ StopServer(s),
               \E v : server' = [server EXCEPT ![s] = v]
        PROVE  server'[call[c].server] = server[call[c].server]
    <3>1. s # call[c].server
      <4>1. CASE server[s] = Down
        BY <2>3, <4>1
      <4>2. CASE ~Busy(s)
        BY <2>1, <4>2 DEF Busy
      <4>3. CASE StopServer(s)
        <5>1. call[c].server = s => call'[c].phase = "failed"
          BY <2>1, <2>2, <4>3, CallTyped DEF StopServer, FrontInv, Call
        <5>2. QED
          BY <1>3, <5>1
      <4>4. QED
        BY <2>4, <4>1, <4>2, <4>3
    <3>2. QED
      BY <2>2, <2>4, <3>1 DEF FrontInv, HitlTypeOK
  <2>5. QED
    BY <2>4
       DEF ServerStep, TakeExport, ReceiveExport, StartOffline, Import,
           StartLive, StartFlush, StopServer
<1>4. QED
  BY <1>1, <1>2, <1>3, EnqFrame

LEMMA EnqFlush ==
  ASSUME FrontInv, EnqInv, NEW f \in Flushes, FlushStep(f)
  PROVE  EnqInv'
<1>1. \A c \in Callers : call'[c] = call[c]
  <2>1. \A c \in Callers : c # f /\ c \in Clients
    BY HitlAssumption DEF Clients
  <2>2. QED
    BY <2>1
       DEF FlushStep, SkipRow, FlushRow, MarkFlushed, CountFailed, EndFlush,
           FrontInv, HitlTypeOK
<1>2. UNCHANGED server
  BY DEF FlushStep, SkipRow, FlushRow, MarkFlushed, CountFailed, EndFlush
<1>3. CASE UNCHANGED queue
  BY <1>1, <1>2, <1>3, EnqFrame
<1>4. CASE MarkFlushed(f)
  <2>1. ASSUME NEW q \in queue
        PROVE  /\ [q EXCEPT !.flushed = TRUE].run = q.run
               /\ [q EXCEPT !.flushed = TRUE].key = q.key
               /\ [q EXCEPT !.flushed = TRUE].decision = q.decision
    BY DEF FrontInv, HitlTypeOK, QueueRow
  <2>2. ASSUME NEW o \in queue
        PROVE  \E q \in queue' :
                 q.key = o.key /\ q.run = o.run /\ q.decision = o.decision
    <3>1. o \in queue' \/ [o EXCEPT !.flushed = TRUE] \in queue'
      BY <1>4 DEF MarkFlushed
    <3>2. QED
      BY <2>1, <3>1
  <2>3. QED
    BY <1>1, <1>2, <2>2, EnqFrame
<1>5. QED
  BY <1>3, <1>4 DEF FlushStep, SkipRow, FlushRow, CountFailed, EndFlush

LEMMA EnqOn ==
  ASSUME FrontInv, EnqInv, NEW c \in Clients,
         SendPost(c) \/ Answer(c) \/ Retry(c) \/ GiveUp(c)
  PROVE  EnqInv'
<1>1. call[c] \in Call /\ call[c].phase # "queued"
  BY CallTyped DEF FrontInv, SendPost, Answer, Retry, GiveUp, Gone
<1>2. call'[c].phase \notin {"enqueue", "queued"}
  BY <1>1 DEF SendPost, Answer, Retry, GiveUp, FrontInv, HitlTypeOK, Call
<1>3. \A b \in Clients : b # c => call'[b] = call[b]
  BY DEF SendPost, Answer, Retry, GiveUp, FrontInv, HitlTypeOK
<1>4. UNCHANGED <<server, queue>>
  BY DEF SendPost, Answer, Retry, GiveUp
<1>5. QED
  BY <1>1, <1>2, <1>3, <1>4, EnqFrame DEF Clients

LEMMA EnqSubmit ==
  ASSUME FrontInv, EnqInv, Submit
  PROVE  EnqInv'
<1>1. PICK c \in Callers, r \in Runs, d \in Decisions :
        CliInput(c, r, d) \/ \E s \in Servers : UiInput(c, s, r, d)
  BY DEF Submit
<1>2. c \in Clients /\ UNCHANGED <<server, queue>> /\ call[c].phase # "queued"
      /\ \A b \in Clients : b # c => call'[b] = call[b]
  BY <1>1 DEF Clients, CliInput, UiInput, NoCall, FrontInv, HitlTypeOK
<1>3. CASE CliInput(c, r, d)
  <2>1. call'[c].phase = "sending"
    BY <1>2, <1>3 DEF CliInput, Request, FrontInv, HitlTypeOK
  <2>2. QED
    BY <1>2, <2>1, EnqFrame DEF Clients
<1>4. ASSUME NEW s \in Servers, UiInput(c, s, r, d) PROVE EnqInv'
  <2>1. /\ call'[c].phase = InputPhase(s, r) /\ call'[c].server = s
        /\ call'[c].run = r
    BY <1>2, <1>4 DEF UiInput, Request, FrontInv, HitlTypeOK
  <2>2. server[s].mode # "down" /\ ~Busy(s)
    BY <1>4, ServerTyped DEF UiInput, FrontInv
  <2>3. SourceState(s, r) \in HitlStates
    BY <2>2, SourceTyped
  <2>4. call'[c].phase # "queued"
    BY <2>1, <2>3 DEF InputPhase, HitlStates
  <2>5. CASE call'[c].phase # "enqueue"
    BY <1>2, <2>4, <2>5, EnqFrame DEF Clients
  <2>6. CASE call'[c].phase = "enqueue"
    <3>1. server[s] # Live /\ SourceState(s, r) = "paused"
      BY <2>1, <2>3, <2>6 DEF InputPhase, HitlStates
    <3>2. ~Queued(server[s].key, r)
      BY <3>1 DEF SourceState, Overlay
    <3>3. \A b \in Callers : call[b].phase = "enqueue" => call[b].server # s
      BY <2>2 DEF Busy
    <3>4. ASSUME NEW b \in Callers, call[b].phase = "queued"
          PROVE  ~(call[b].key = server[s].key /\ call[b].run = r)
      BY <3>2, <3>4 DEF EnqInv, QueuedDecisionsStay, Queued
    <3>5. EnqueuesAreNew'
      BY <1>2, <2>1, <2>6, <3>3, <3>4 DEF EnqInv, EnqueuesAreNew, Clients
    <3>6. QueuedDecisionsStay'
      BY <1>2, <2>4 DEF EnqInv, QueuedDecisionsStay, Clients
    <3>7. QED
      BY <3>5, <3>6 DEF EnqInv
  <2>7. QED
    BY <2>5, <2>6
<1>5. QED
  BY <1>1, <1>3, <1>4

LEMMA EnqEnqueue ==
  ASSUME FrontInv, EnqInv, NEW c \in Callers, Enqueue(c)
  PROVE  EnqInv'
<1> DEFINE s == call[c].server
           k == server[s].key
           row == [key |-> k, run |-> call[c].run,
                   decision |-> call[c].decision, flushed |-> FALSE]
<1>1. c \in Clients /\ call[c].phase = "enqueue"
  BY DEF Clients, Enqueue
<1>2. call[c] \in Call
  BY <1>1, CallTyped DEF FrontInv
<1>3. \A b \in Clients : b # c => call'[b] = call[b]
  BY DEF Enqueue, FrontInv, HitlTypeOK
<1>4. /\ call'[c].phase = "queued" /\ call'[c].key = k /\ call'[c].server = s
      /\ call'[c].run = call[c].run /\ call'[c].decision = call[c].decision
  BY <1>1, <1>2 DEF Enqueue, FrontInv, HitlTypeOK, Call
<1>5. queue' = {q \in queue : ~(q.key = k /\ q.run = call[c].run)} \cup {row}
      /\ UNCHANGED server
  BY DEF Enqueue
<1>6. row.key = k /\ row.run = call[c].run /\ row.decision = call[c].decision
  OBVIOUS
<1>7. /\ \A b \in Callers : (call[b].phase = "enqueue" /\ b # c) => call[b].server # s
      /\ \A b \in Callers :
           (/\ call[b].phase = "queued" /\ call[b].key = k
            /\ call[b].run = call[c].run) => call[b].server # s
  BY <1>1 DEF EnqInv, EnqueuesAreNew
<1> HIDE DEF row, k, s
<1>8. EnqueuesAreNew'
  <2>1. ASSUME NEW b \in Callers, call'[b].phase = "enqueue"
        PROVE  call'[b] = call[b] /\ b # c /\ call[b].server # s
    BY <1>3, <1>4, <1>7, <2>1 DEF Clients
  <2>2. ASSUME NEW b \in Callers, NEW a \in Callers,
               call'[a].phase = "enqueue", call'[b].phase = "queued",
               call'[b].key = server'[call'[a].server].key,
               call'[b].run = call'[a].run
        PROVE  call'[b].server # call'[a].server
    <3>1. CASE b = c
      BY <1>4, <2>1, <2>2, <3>1
    <3>2. CASE b # c
      BY <1>3, <1>5, <2>1, <2>2, <3>2 DEF EnqInv, EnqueuesAreNew, Clients
    <3>3. QED
      BY <3>1, <3>2
  <2>3. QED
    BY <2>1, <2>2 DEF EnqInv, EnqueuesAreNew
<1>9. QueuedDecisionsStay'
  <2>1. row \in queue'
    BY <1>5
  <2>2. ASSUME NEW a \in Callers, call'[a].phase = "queued",
               call'[a].key = k, call'[a].run = call[c].run
        PROVE  row.decision = call'[a].decision \/ call'[a].server # s
    BY <1>3, <1>4, <1>6, <1>7, <2>2 DEF Clients
  <2>3. ASSUME NEW a \in Callers, call'[a].phase = "queued",
               ~(call'[a].key = k /\ call'[a].run = call[c].run)
        PROVE  \E q \in queue' :
                 /\ q.key = call'[a].key /\ q.run = call'[a].run
                 /\ \/ q.decision = call'[a].decision
                    \/ \E b \in Callers : /\ call'[b].phase = "queued"
                                          /\ call'[b].server # call'[a].server
                                          /\ call'[b].key = q.key
                                          /\ call'[b].run = q.run
                                          /\ call'[b].decision = q.decision
    <3>1. a # c /\ call'[a] = call[a]
      BY <1>3, <1>4, <2>3 DEF Clients
    <3>2. PICK q \in queue :
            /\ q.key = call[a].key /\ q.run = call[a].run
            /\ \/ q.decision = call[a].decision
               \/ \E b \in Callers : /\ call[b].phase = "queued"
                                     /\ call[b].server # call[a].server
                                     /\ call[b].key = q.key
                                     /\ call[b].run = q.run
                                     /\ call[b].decision = q.decision
      BY <2>3, <3>1 DEF EnqInv, QueuedDecisionsStay
    <3>3. q \in queue'
      BY <1>5, <2>3, <3>1, <3>2
    <3>4. \A b \in Callers : call[b].phase = "queued" => call'[b] = call[b]
      BY <1>1, <1>3 DEF Clients
    <3>5. QED
      BY <3>1, <3>2, <3>3, <3>4
  <2>4. QED
    BY <1>4, <1>6, <2>1, <2>2, <2>3 DEF QueuedDecisionsStay
<1>10. QED
  BY <1>8, <1>9 DEF EnqInv

LEMMA EnqStep ==
  ASSUME FrontInv, EnqInv, [HitlNext]_hitlVars
  PROVE  EnqInv'
<1>1. CASE RunStep \/ PostStep \/ UNCHANGED hitlVars
  <2>1. UNCHANGED <<call, server, queue>>
    BY <1>1
       DEF RunStep, PostStep, hitlVars, frontVars, PeekResolved, PeekUnresolved,
           Resolve, ResolveAgain
  <2>2. QED
    BY <2>1, EnqFrame
<1>2. QED
  BY <1>1, EnqServer, EnqFlush, EnqOn, EnqSubmit, EnqEnqueue DEF HitlNext, CallStep


-----------------------------------------------------------------------------
(* The input that is journaled.                                            *)

InputInv == JournaledInputIsTheDecision /\ InputsInHand

InputInHand(w) ==
  (at[w].pc \in {"produce", "insert"} /\ StepOf(w) = "hitl-input") =>
    /\ promise[at[w].run] # Nil
    /\ at[w].pc = "insert" => at[w].val.ext = promise[at[w].run]

(* What all steps have in common.                                          *)
LEMMA InputFrame ==
  ASSUME WorkflowIInv, InputInv,
         \A r \in Runs : promise[r] # Nil => promise'[r] = promise[r],
         \A r \in Runs : invocation[r] # Nil => invocation'[r] = invocation[r],
         \A e \in stepJournal' :
           \/ e \in stepJournal
           \/ e.step = "hitl-input" =>
                promise'[e.run] # Nil /\ e.output.ext = promise'[e.run],
         \A w \in Workers : at'[w] = at[w] \/ InputInHand(w)'
  PROVE  InputInv'
<1>1. \A e \in stepJournal : e.run \in Runs
  BY DEF WorkflowIInv, WorkflowTypeOK, JournalTypeOK, StepRow
<1>2. JournaledInputIsTheDecision'
  BY <1>1 DEF InputInv, JournaledInputIsTheDecision
<1>3. ASSUME NEW w \in Workers, at'[w] = at[w] PROVE InputInHand(w)'
  <2>1. CASE at[w].pc \in {"produce", "insert"}
    <3>1. at[w].run \in Runs /\ invocation[at[w].run] # Nil
      BY <2>1, AttemptTyped DEF WorkflowIInv, AttemptsOK, AttemptOK
    <3>2. StepOf(w)' = StepOf(w)
      BY <1>3, <3>1 DEF StepOf, Steps
    <3>3. InputInHand(w)
      BY DEF InputInv, InputsInHand, InputInHand
    <3>4. QED
      BY <1>3, <3>1, <3>2, <3>3 DEF InputInHand
  <2>2. CASE at[w].pc \notin {"produce", "insert"}
    BY <1>3, <2>2 DEF InputInHand
  <2>3. QED
    BY <2>1, <2>2
<1>4. \A w \in Workers : InputInHand(w)'
  BY <1>3
<1>5. InputsInHand'
  BY <1>4 DEF InputInHand, InputsInHand
<1>6. QED
  BY <1>2, <1>5 DEF InputInv

(* A handler's step.                                                       *)
LEMMA HandlerInput ==
  ASSUME WorkflowIInv, InputInv, NEW w \in Workers,
         \/ HandlerStep(w) \/ Crash(w) \/ ProviderFails(w)
         \/ \E r \in Runs : StartAttempt(w, r)
  PROVE  InputInv'
<1>1. at \in [Workers -> Attempt \cup {Idle}]
  BY DEF WorkflowIInv, WorkflowTypeOK
<1>2. UNCHANGED <<promise, invocation>>
  BY DEF HandlerStep, BeginHandler, RecordStep, ReplayStep, MissStep,
         CallProvider, FireTool, ComputeStep, JournalStep, LoseInsert,
         CommitStep, Finish, Suspend, Fenced, Crash, ProviderFails,
         StartAttempt, engineVars
<1>3. \A v \in Workers : v # w => at'[v] = at[v]
  BY <1>1
     DEF HandlerStep, BeginHandler, RecordStep, ReplayStep, MissStep,
         CallProvider, FireTool, ComputeStep, Produced, JournalStep, LoseInsert,
         CommitStep, Finish, Suspend, Fenced, Crash, ProviderFails, EndAttempt,
         StartAttempt
<1>4. InputInHand(w)
  BY DEF InputInv, InputsInHand, InputInHand
<1>5. CASE \/ LoseInsert(w) \/ Finish(w) \/ Suspend(w) \/ Fenced(w)
           \/ Crash(w) \/ ProviderFails(w)
           \/ \E r \in Runs : StartAttempt(w, r)
  <2>1. at'[w].pc \notin {"produce", "insert"} /\ stepJournal' = stepJournal
    BY <1>1, <1>5
       DEF LoseInsert, Finish, Suspend, Fenced, Crash, ProviderFails,
           EndAttempt, StartAttempt, Idle, tableVars
  <2>2. QED
    BY <1>2, <1>3, <2>1, InputFrame DEF InputInHand
<1>6. ASSUME at[w].pc # "idle", HandlerStep(w),
             ~(LoseInsert(w) \/ Finish(w) \/ Suspend(w) \/ Fenced(w))
      PROVE  InputInv'
  <2>1. at[w] \in Attempt
    BY <1>6, AttemptTyped DEF WorkflowIInv
  <2>2. CASE BeginHandler(w) \/ ReplayStep(w) \/ CommitStep(w)
    <3>1. at'[w].pc \in {"next", "return"} /\ stepJournal' = stepJournal
      BY <1>1, <2>1, <2>2
         DEF BeginHandler, ReplayStep, CommitStep, tableVars, Attempt
    <3>2. QED
      BY <1>2, <1>3, <3>1, InputFrame DEF InputInHand
  <2>3. CASE MissStep(w)
    <3>1. at'[w].pc = "produce" /\ at'[w].run = at[w].run
          /\ at'[w].seq = at[w].seq /\ stepJournal' = stepJournal
      BY <1>1, <2>1, <2>3 DEF MissStep, tableVars, Attempt
    <3>2. InputInHand(w)'
      BY <1>2, <2>3, <3>1 DEF MissStep, Blocked, InputInHand, StepOf, Steps
    <3>3. QED
      BY <1>2, <1>3, <3>1, <3>2, InputFrame
  <2>4. CASE CallProvider(w) \/ FireTool(w)
    <3>1. at'[w].run = at[w].run /\ at'[w].seq = at[w].seq
      BY <1>1, <2>1, <2>4 DEF CallProvider, FireTool, Produced, Attempt
    <3>2. stepJournal' = stepJournal /\ StepOf(w) # "hitl-input"
      BY <2>4 DEF CallProvider, FireTool, ToolSteps, tableVars, journalVars
    <3>3. StepOf(w)' # "hitl-input"
      BY <1>2, <3>1, <3>2 DEF StepOf, Steps
    <3>4. QED
      BY <1>2, <1>3, <3>2, <3>3, InputFrame DEF InputInHand
  <2>5. CASE ComputeStep(w)
    <3>1. at'[w].run = at[w].run /\ at'[w].seq = at[w].seq
          /\ at'[w].val.ext = OwnExt(w) /\ stepJournal' = stepJournal
      BY <1>1, <2>1, <2>5 DEF ComputeStep, Produced, Attempt, tableVars
    <3>2. StepOf(w)' = StepOf(w) /\ at[w].pc = "produce"
      BY <1>2, <2>5, <3>1 DEF ComputeStep, StepOf, Steps
    <3>3. InputInHand(w)'
      BY <1>2, <1>4, <3>1, <3>2 DEF InputInHand, OwnExt
    <3>4. QED
      BY <1>2, <1>3, <3>1, <3>3, InputFrame
  <2>6. CASE JournalStep(w)
    <3>1. at'[w].pc = "return" /\ at[w].pc = "insert"
          /\ stepJournal' = stepJournal \cup {AttemptRow(w)}
      BY <1>1, <2>1, <2>6 DEF JournalStep, InsertStep, Attempt
    <3>2. AttemptRow(w).run = at[w].run /\ AttemptRow(w).step = StepOf(w)
          /\ AttemptRow(w).output = at[w].val
      BY DEF AttemptRow, NativeRow
    <3>3. QED
      BY <1>2, <1>3, <1>4, <3>1, <3>2, InputFrame DEF InputInHand
  <2>7. QED
    BY <1>6, <2>2, <2>3, <2>4, <2>5, <2>6 DEF HandlerStep, RecordStep
<1>7. HandlerStep(w) => at[w].pc # "idle"
  BY DEF HandlerStep, BeginHandler, RecordStep, ReplayStep, MissStep,
         CallProvider, FireTool, ComputeStep, JournalStep, LoseInsert,
         CommitStep, Finish, Suspend, Fenced
<1>8. QED
  BY <1>5, <1>6, <1>7

LEMMA InputStepInv ==
  ASSUME WorkflowIInv, HitlTypeOK, InputInv, [HitlNext]_hitlVars
  PROVE  InputInv'
<1>1. \A r \in Runs : promise[r] # Nil => promise'[r] = promise[r]
  BY PromisesStand DEF WorkflowIInv
<1>2. CASE UNCHANGED <<stepJournal, at, invocation>>
  BY <1>1, <1>2, InputFrame
<1>3. CASE \E w \in Workers :
             \/ HandlerStep(w) \/ Crash(w) \/ ProviderFails(w)
             \/ \E r \in Runs : StartAttempt(w, r)
  BY <1>3, HandlerInput
<1>4. CASE \E r \in NativeRuns, p \in Prompts : Invoke(r, "HitlAgentRun", p)
  <2>1. UNCHANGED <<stepJournal, at>>
    BY <1>4 DEF Invoke, tableVars
  <2>2. \A r \in Runs : invocation[r] # Nil => invocation'[r] = invocation[r]
    BY <1>4 DEF Invoke, WorkflowIInv, WorkflowTypeOK
  <2>3. QED
    BY <1>1, <2>1, <2>2, InputFrame
<1>5. CASE RunStep
  BY <1>2, <1>3, <1>4, <1>5
     DEF RunStep, EngineStep, FaultStep, LoseConnection, tableVars
<1>6. CASE UNCHANGED workflowVars
  BY <1>2, <1>6 DEF workflowVars
<1>7. CASE UNCHANGED hitlVars
  BY <1>2, <1>7 DEF hitlVars
<1>8. ASSUME NEW r \in Runs, NEW d \in Decisions, ResolvePromise(r, d)
      PROVE  InputInv'
  BY <1>2, <1>8 DEF ResolvePromise, tableVars
<1>9. QED
  BY <1>5, <1>6, <1>7, <1>8, PostStepMaps, CallStepMaps, FlushStepMaps,
     FrontStepMaps DEF HitlNext


-----------------------------------------------------------------------------
(* All of it together.                                                     *)

AllInv == WorkflowIInv /\ HitlIInv

LEMMA HitlParts ==
  HitlIInv <=> FrontInv /\ IdInv /\ CallsResolve /\ PauseInv /\ InputInv
BY DEF HitlIInv, FrontInv, InputInv, IdInv, PauseInv

LEMMA HitlInitInv == HitlInit => AllInv
<1> SUFFICES ASSUME HitlInit PROVE AllInv
  OBVIOUS
<1> USE DEF HitlInit
<1>1. WorkflowIInv
  BY InitInv
<1>2. HitlTypeOK
  BY HitlAssumption DEF HitlTypeOK
<1>3. (\A c \in Clients : call[c].phase = "idle")
      /\ (\A f \in Flushes : flush[f].phase = "idle")
      /\ (\A s \in Servers : server[s].mode = "down")
  BY DEF NoCall, NoFlush, Down
<1>4. FrontInv
  BY <1>2, <1>3
     DEF FrontInv, ServersShowExports, AnswersFollowDecisions,
         FlushesSendTheirRow, AnsweredMeansDecided
<1>5. InputInv
  BY DEF InputInv, JournaledInputIsTheDecision, InputsInHand, WorkflowInit,
         JournalInit, Idle
<1>6. IdInv
  BY DEF IdInv, PostsAreTold, FlushesTakeRowsOnce, RowsAreOne, Clients
<1>7. CallsResolve
  BY <1>3 DEF CallsResolve, WorkflowInit
<1>8. PauseInv
  BY <1>3 DEF PauseInv, PausesAreShown, UiDecisionsFollowThePause, Clients
<1>9. QED
  BY <1>1, <1>4, <1>5, <1>6, <1>7, <1>8, HitlParts DEF AllInv

LEMMA HitlNextInv == AllInv /\ [HitlNext]_hitlVars => AllInv'
<1> SUFFICES ASSUME AllInv, [HitlNext]_hitlVars PROVE AllInv'
  OBVIOUS
<1>1. /\ WorkflowIInv /\ FrontInv /\ IdInv /\ CallsResolve /\ PauseInv /\ InputInv
      /\ HitlTypeOK /\ WorkflowTypeOK
  BY HitlParts DEF AllInv, FrontInv, WorkflowIInv
<1>2. WorkflowIInv'
  BY <1>1, HitlStepMaps, NextInv
<1>3. InputInv'
  BY <1>1, InputStepInv
<1>4. PromisesKept
  BY <1>1, PromisesStand DEF PromisesKept
<1>5. FrontInv'
  <2>1. CASE RunStep \/ UNCHANGED hitlVars
    BY <1>1, <1>4, <2>1, FrontFrame DEF RunStep, hitlVars, frontVars
  <2>2. QED
    BY <1>1, <1>4, <2>1, PostStepInv, SubmitInv, ServerStepInv, SendPostInv,
       AnswerInv, EnqueueInv, LossInv, FlushStepInv DEF HitlNext, CallStep
<1>6. IdInv'
  BY <1>1, IdStep
<1>7. CallsResolve'
  BY <1>1, ResolveStep
<1>8. PauseInv'
  BY <1>1, PauseStep
<1>9. HitlIInv' <=> (FrontInv /\ IdInv /\ CallsResolve /\ PauseInv /\ InputInv)'
  BY DEF HitlIInv, FrontInv, InputInv, IdInv, PauseInv
<1>10. QED
  BY <1>2, <1>3, <1>5, <1>6, <1>7, <1>8, <1>9 DEF AllInv

LEMMA HitlAllInv == HitlSpec => []AllInv
BY HitlInitInv, HitlNextInv, PTL DEF HitlSpec

(* For any number of callers, servers, exports, flushes, losses and        *)
(* faults, a decision's way is as the inductive invariant says.            *)
THEOREM HitlInvariant == HitlSpec => []HitlIInv
<1>1. AllInv => HitlIInv
  BY DEF AllInv
<1>2. QED
  BY <1>1, HitlAllInv, PTL

(* Nobody is told that a decision was accepted, or came too late, and no   *)
(* row leaves the offline queue, before the promise is resolved.           *)
THEOREM AnswersAreFounded == HitlSpec => []AnsweredMeansDecided
<1>1. AllInv => AnsweredMeansDecided
  BY DEF AllInv, HitlIInv
<1>2. QED
  BY <1>1, HitlAllInv, PTL

(* Whichever attempt journals the input, zombies included, it is the one   *)
(* decision the promise holds.                                             *)
THEOREM InputIsDecision == HitlSpec => []JournaledInputIsTheDecision
<1>1. AllInv => JournaledInputIsTheDecision
  BY DEF AllInv, HitlIInv
<1>2. QED
  BY <1>1, HitlAllInv, PTL

(* provideInput as peek and resolve, with its retries and its callers, is  *)
(* to the workflow layer one resolution: what WorkflowProofs proves of it  *)
(* holds here.                                                             *)
THEOREM HitlRefines == HitlSpec => HitlImplementsWorkflow
<1>1. HitlInit => WorkflowInit
  BY DEF HitlInit
<1>2. AllInv /\ [HitlNext]_hitlVars => [WorkflowNext]_workflowVars
  BY HitlStepMaps DEF AllInv, HitlIInv
<1>3. QED
  BY <1>1, <1>2, HitlAllInv, PTL DEF HitlSpec, HitlImplementsWorkflow

(* Whoever is told, at his first try, that he came too late was beaten by  *)
(* the accepted call of somebody else, whose decision is the one that      *)
(* stands: the engine holds that call, whatever became of its sender.      *)
THEOREM LosersWereBeaten == HitlSpec => []DuplicatesLostToAnother
<1>1. AllInv => DuplicatesLostToAnother
  <2> SUFFICES ASSUME AllInv, NEW c \in Clients, call[c].phase = "duplicate"
               PROVE  \E p \in posts : /\ p.phase = "accepted"
                                       /\ p.run = call[c].run
                                       /\ p.decision = promise[p.run]
                                       /\ p # PostOf(c)
    BY DEF DuplicatesLostToAnother
  <2>1. FrontInv /\ IdInv /\ CallsResolve
    BY HitlParts DEF AllInv
  <2>2. promise[call[c].run] # Nil /\ call[c].run \in Runs
    BY <2>1, CallTyped DEF FrontInv, AnsweredMeansDecided
  <2>3. PICK p \in posts : /\ p.phase = "accepted" /\ p.run = call[c].run
                           /\ p.decision = promise[call[c].run]
    BY <2>1, <2>2 DEF CallsResolve
  <2>4. PICK q \in posts : /\ Tries(c, q) /\ q.try = call[c].try
                           /\ q.phase = "duplicate"
    BY <2>1 DEF CallsResolve
  <2>5. PostOf(c) \in posts /\ Tries(c, PostOf(c)) /\ PostOf(c).try = call[c].try
    BY <2>4 DEF PostOf, Tries
  <2>6. PostOf(c) = q
    BY <2>1, <2>4, <2>5 DEF IdInv, PostsAreTold, Tries
  <2>7. QED
    BY <2>3, <2>4, <2>6
<1>2. QED
  BY <1>1, HitlAllInv, PTL

(* Whatever files and uploads say, no decision given through a live server *)
(* reaches the engine before the run journaled its pause, and none from    *)
(* the queue except where an upload that a server took shows the run       *)
(* paused.                                                                 *)
THEOREM DecisionsFollowPauses == HitlSpec => []UiDecisionsFollowThePause
<1>1. AllInv => UiDecisionsFollowThePause
  BY DEF AllInv, HitlIInv
<1>2. QED
  BY <1>1, HitlAllInv, PTL

(* For any number of server processes over one data directory, a decision  *)
(* that was acknowledged offline stays in the queue until one that another *)
(* of them acknowledged for the same run and export takes its row.         *)
THEOREM QueueKeepsDecisions == HitlSpec => []QueuedDecisionsStay
<1>1. HitlInit => EnqInv
  BY DEF HitlInit, EnqInv, EnqueuesAreNew, QueuedDecisionsStay, Clients, NoCall
<1>2. AllInv /\ EnqInv /\ [HitlNext]_hitlVars => EnqInv'
  BY EnqStep, HitlParts DEF AllInv
<1>3. EnqInv => QueuedDecisionsStay
  BY DEF EnqInv
<1>4. QED
  BY <1>1, <1>2, <1>3, HitlAllInv, PTL DEF HitlSpec

=============================================================================
