--------------------------------- MODULE Hitl ---------------------------------
(***************************************************************************)
(* How a human's decision reaches a paused HitlAgentRun: the provideInput  *)
(* handler (src/hitl-workflow.ts), the callers with their retries          *)
(* (src/hitl-source.ts, the CLI), the UI server live or over an imported   *)
(* export (src/server.ts), and the offline queue with its overlay and its  *)
(* flush (src/hitl-offline-queue.ts, src/hitl-offline-overlay.ts).         *)
(*                                                                         *)
(* Workflow lets a promise be resolved in one step by nobody in            *)
(* particular; here provideInput is a peek and a resolve that other calls  *)
(* may come between, and what each submitter is told is part of the state. *)
(*                                                                         *)
(* A file or an upload need not come from this journal: the server takes   *)
(* any JSONL that parses, so an export may show any state of any run.      *)
(* Several servers may show one file.  The rate limit is left out: a 429   *)
(* changes nothing here.                                                   *)
(***************************************************************************)
EXTENDS Workflow

CONSTANTS
  Callers,      \* submissions by humans, through the CLI or the UI
  Flushes,      \* flushes of the offline queue
  Servers,      \* UI server processes sharing one data directory
  ExportKeys,   \* origins of exports: files and uploads
  Uploads,      \* those that are uploads
  MaxTries,     \* attempts of provideInputViaIngress: one per listed delay
  MaxLosses     \* bound on lost requests and answers and stopped servers

ASSUME HitlAssumption ==
  /\ "HitlAgentRun" \in Handlers
  /\ Callers \cap Flushes = {}
  /\ Nil \notin Servers \cup ExportKeys
  /\ Uploads \subseteq ExportKeys
  /\ MaxTries \in Nat \ {0}
  /\ MaxLosses \in Nat

VARIABLES
  posts,        \* the provideInput invocations the engine accepted
  call,         \* client -> where its submission is
  server,       \* server -> its source: down, live, or the key of an export
  export,       \* export key -> the state the export shows for each run
  queue,        \* table pending_hitl
  flush,        \* flush -> its snapshot's remaining rows and the current one
  losses        \* losses so far

hitlVars == <<stepJournal, runMeta, effectLog, effectSeq, invocation, engine,
              promise, owner, result, at, faults, posts, call, server, export,
              queue, flush, losses>>

frontVars == <<posts, call, server, export, queue, flush, losses>>

Clients == Callers \cup Flushes

HitlStates == {"none", "paused", "resumed"}

ASSUME NilIsNoExport == Nil \notin [Runs -> HitlStates]

QueueRow == [key : ExportKeys, run : Runs, decision : Decisions,
             flushed : BOOLEAN]

Post == [by : Clients, key : ExportKeys \cup {Nil}, try : 1 .. MaxTries,
         run : Runs, decision : Decisions,
         phase : {"peek", "resolve", "accepted", "duplicate"}]

(* "accepted" and "duplicate" are the engine's answers, "resumed" and      *)
(* "none" what the server's own source says, "queued" an offline           *)
(* acceptance.  The server is Nil for the CLI.                             *)
Call == [phase : {"sending", "waiting", "accepted", "duplicate", "failed",
                  "resumed", "none", "enqueue", "queued"},
         server : Servers \cup {Nil}, key : ExportKeys \cup {Nil},
         run : Runs, decision : Decisions, try : 1 .. MaxTries]

NoCall  == [phase |-> "idle"]
NoFlush == [phase |-> "idle"]

Flush == [phase : {"running", "over"}, server : Servers,
          todo : SUBSET QueueRow, row : QueueRow \cup {Nil}]

Down == [mode |-> "down"]
Live == [mode |-> "live"]
Offline(k) == [mode |-> "offline", key |-> k]

HitlTypeOK ==
  /\ posts \subseteq Post
  /\ call \in [Clients -> Call \cup {NoCall}]
  /\ server \in [Servers -> {Down, Live} \cup {Offline(k) : k \in ExportKeys}]
  /\ export \in [ExportKeys -> [Runs -> HitlStates] \cup {Nil}]
  /\ queue \subseteq QueueRow
  /\ flush \in [Flushes -> Flush \cup {NoFlush}]
  /\ losses \in 0 .. MaxLosses

HitlInit ==
  /\ WorkflowInit
  /\ posts = {}
  /\ call = [c \in Clients |-> NoCall]
  /\ server = [s \in Servers |-> Down]
  /\ export = [k \in ExportKeys |-> Nil]
  /\ queue = {}
  /\ flush = [f \in Flushes |-> NoFlush]
  /\ losses = 0

-----------------------------------------------------------------------------
(* The state of a run as a journal source shows it.                        *)

Journaled(r, step) == \E e \in trajectory(r) : e.step = step

(* hitlState over the live journal.                                        *)
hitlState(r) ==
  IF ~Journaled(r, "hitl-pause") THEN "none"
  ELSE IF Journaled(r, "hitl-input") THEN "resumed"
  ELSE "paused"

Queued(k, r) == \E q \in queue : q.key = k /\ q.run = r

(* Mistake: the export alone is asked.                                     *)
OverlayForgotten(k, r) == export[k][r]

(* An export under overlayOfflineHitlQueue: a queued decision, flushed or  *)
(* not, shows as the run's input.                                          *)
Overlay(k, r) ==
  IF export[k][r] = "paused" /\ Queued(k, r) THEN "resumed" ELSE export[k][r]

(* hitlStateFromSource(ctx.source, r).                                     *)
SourceState(s, r) ==
  IF server[s] = Live THEN hitlState(r) ELSE Overlay(server[s].key, r)

(* Between a handler's check and its enqueue nothing else runs in the same *)
(* process.                                                                *)
Busy(s) == \E c \in Callers : call[c].phase = "enqueue" /\ call[c].server = s

-----------------------------------------------------------------------------
(* provideInput, a shared handler: calls for one run run concurrently, and *)
(* the engine finishes every call it accepted.                             *)

Advance(p, phase) == posts' = (posts \ {p}) \cup {[p EXCEPT !.phase = phase]}

PeekResolved(p) ==
  /\ p.phase = "peek"
  /\ promise[p.run] # Nil
  /\ Advance(p, "duplicate")
  /\ UNCHANGED <<workflowVars, call, server, export, queue, flush, losses>>

PeekUnresolved(p) ==
  /\ p.phase = "peek"
  /\ promise[p.run] = Nil
  /\ Advance(p, "resolve")
  /\ UNCHANGED <<workflowVars, call, server, export, queue, flush, losses>>

(* Mistake: the answer is given before the promise is resolved.            *)
AcceptUnresolved(p) ==
  /\ p.phase = "resolve"
  /\ Advance(p, "accepted")
  /\ UNCHANGED <<workflowVars, call, server, export, queue, flush, losses>>

(* Mistake: resolve first, peek afterwards.                                *)
ResolveThenPeek(p) ==
  /\ p.phase = "resolve"
  /\ ResolvePromise(p.run, p.decision)
  /\ Advance(p, "peek")
  /\ UNCHANGED <<call, server, export, queue, flush, losses>>

Resolve(p) ==
  /\ p.phase = "resolve"
  /\ ResolvePromise(p.run, p.decision)
  /\ Advance(p, "accepted")
  /\ UNCHANGED <<call, server, export, queue, flush, losses>>

(* Mistake: the last value wins.                                           *)
ResolveOverwrites(p) ==
  /\ p.phase = "resolve"
  /\ promise[p.run] # Nil
  /\ promise' = [promise EXCEPT ![p.run] = p.decision]
  /\ Advance(p, "accepted")
  /\ UNCHANGED <<tableVars, invocation, engine, owner, result, at, faults,
                 call, server, export, queue, flush, losses>>

(* Resolving a resolved promise is a no-op; the handler answers the same.  *)
ResolveAgain(p) ==
  /\ p.phase = "resolve"
  /\ promise[p.run] # Nil
  /\ Advance(p, "accepted")
  /\ UNCHANGED <<workflowVars, call, server, export, queue, flush, losses>>

-----------------------------------------------------------------------------
(* The clients' side of the call.                                          *)

PostOf(c) == CHOOSE p \in posts : /\ p.by = c /\ p.key = call[c].key
                                  /\ p.try = call[c].try /\ p.run = call[c].run

(* The engine takes the request.                                           *)
SendPost(c) ==
  /\ call[c].phase = "sending"
  /\ posts' = posts \cup
       {[by |-> c, key |-> call[c].key, try |-> call[c].try,
         run |-> call[c].run, decision |-> call[c].decision, phase |-> "peek"]}
  /\ call' = [call EXCEPT ![c].phase = "waiting"]
  /\ UNCHANGED <<workflowVars, server, export, queue, flush, losses>>

(* Mistake: the accepted call is taken for an answered one.                *)
AnswerEarly(c) ==
  /\ call[c].phase = "waiting"
  /\ call' = [call EXCEPT ![c].phase = PostOf(c).phase]
  /\ UNCHANGED <<workflowVars, posts, server, export, queue, flush, losses>>

Answer(c) ==
  /\ call[c].phase = "waiting"
  /\ PostOf(c).phase \in {"accepted", "duplicate"}
  /\ call' = [call EXCEPT ![c].phase = PostOf(c).phase]
  /\ UNCHANGED <<workflowVars, posts, server, export, queue, flush, losses>>

Loss == losses < MaxLosses /\ losses' = losses + 1

Gone(c) == call[c].phase \in {"sending", "waiting"}

(* A request or its answer is lost.  A transient error is tried again, by  *)
(* the servers and not by the CLI; another one is not.                     *)
Retry(c) ==
  /\ Gone(c)
  /\ call[c].server # Nil
  /\ call[c].try < MaxTries
  /\ Loss
  /\ call' = [call EXCEPT ![c].phase = "sending", ![c].try = @ + 1]
  /\ UNCHANGED <<workflowVars, posts, server, export, queue, flush>>

GiveUp(c) ==
  /\ Gone(c)
  /\ Loss
  /\ call' = [call EXCEPT ![c].phase = "failed"]
  /\ UNCHANGED <<workflowVars, posts, server, export, queue, flush>>

-----------------------------------------------------------------------------
(* Submissions.                                                            *)

Request(phase, s, k, r, d) ==
  [phase |-> phase, server |-> s, key |-> k, run |-> r, decision |-> d,
   try |-> 1]

(* durabl hitl-input: no look at the run's state.  It is given runs that   *)
(* were submitted.                                                         *)
CliInput(c, r, d) ==
  /\ call[c] = NoCall
  /\ invocation[r] # Nil
  /\ call' = [call EXCEPT ![c] = Request("sending", Nil, Nil, r, d)]
  /\ UNCHANGED <<workflowVars, posts, server, export, queue, flush, losses>>

(* Mistake: the state is not looked at.                                    *)
InputUnchecked(s, r) == IF server[s] = Live THEN "sending" ELSE "enqueue"

(* What handleHitlInput does with a submission.                            *)
InputPhase(s, r) ==
  IF SourceState(s, r) # "paused" THEN SourceState(s, r)
  ELSE IF server[s] = Live THEN "sending"
  ELSE "enqueue"

(* POST /api/hitl/input.                                                   *)
UiInput(c, s, r, d) ==
  /\ call[c] = NoCall
  /\ server[s] # Down
  /\ ~Busy(s)
  /\ call' = [call EXCEPT ![c] = Request(InputPhase(s, r), s, Nil, r, d)]
  /\ UNCHANGED <<workflowVars, posts, server, export, queue, flush, losses>>

(* enqueueOfflineHitl: an upsert.                                          *)
Enqueue(c) ==
  /\ call[c].phase = "enqueue"
  /\ LET k == server[call[c].server].key
         r == call[c].run
     IN  queue' = {q \in queue : ~(q.key = k /\ q.run = r)} \cup
                  {[key |-> k, run |-> r, decision |-> call[c].decision,
                    flushed |-> FALSE]}
  /\ call' = [call EXCEPT ![c].phase = "queued",
                          ![c].key = server[call[c].server].key]
  /\ UNCHANGED <<workflowVars, posts, server, export, flush, losses>>

-----------------------------------------------------------------------------
(* Flushes.                                                                *)

Pending == {q \in queue : ~q.flushed}

Begin(f, s) ==
  flush' = [flush EXCEPT ![f] = [phase |-> "running", server |-> s,
                                 todo |-> Pending, row |-> Nil]]

(* POST /api/hitl/flush on a live server.                                  *)
StartFlush(f, s) ==
  /\ flush[f] = NoFlush
  /\ server[s] = Live
  /\ ~Busy(s)
  /\ Begin(f, s)
  /\ UNCHANGED <<workflowVars, posts, call, server, export, queue, losses>>

InHand(f) == flush[f].phase = "running" /\ ~Busy(flush[f].server)

(* The next row's run is not paused: skipped.  The source asked is the     *)
(* server's present one.                                                   *)
SkipRow(f, q) ==
  /\ InHand(f)
  /\ flush[f].row = Nil
  /\ q \in flush[f].todo
  /\ SourceState(flush[f].server, q.run) # "paused"
  /\ flush' = [flush EXCEPT ![f].todo = @ \ {q}]
  /\ UNCHANGED <<workflowVars, posts, call, server, export, queue, losses>>

FlushRow(f, q) ==
  /\ InHand(f)
  /\ flush[f].row = Nil
  /\ q \in flush[f].todo
  /\ SourceState(flush[f].server, q.run) = "paused"
  /\ flush' = [flush EXCEPT ![f].todo = @ \ {q}, ![f].row = q]
  /\ call' = [call EXCEPT ![f] = Request("sending", flush[f].server, q.key,
                                         q.run, q.decision)]
  /\ UNCHANGED <<workflowVars, posts, server, export, queue, losses>>

(* The awaited provideInput returned, whatever it said: UPDATE by key and  *)
(* run.                                                                    *)
MarkFlushed(f) ==
  /\ InHand(f)
  /\ flush[f].row # Nil
  /\ call[f].phase \in {"accepted", "duplicate"}
  /\ queue' = {IF q.key = flush[f].row.key /\ q.run = flush[f].row.run
               THEN [q EXCEPT !.flushed = TRUE] ELSE q : q \in queue}
  /\ flush' = [flush EXCEPT ![f].row = Nil]
  /\ call' = [call EXCEPT ![f] = NoCall]
  /\ UNCHANGED <<workflowVars, posts, server, export, losses>>

(* It threw: the row stays pending.                                        *)
CountFailed(f) ==
  /\ InHand(f)
  /\ flush[f].row # Nil
  /\ call[f].phase = "failed"
  /\ flush' = [flush EXCEPT ![f].row = Nil]
  /\ call' = [call EXCEPT ![f] = NoCall]
  /\ UNCHANGED <<workflowVars, posts, server, export, queue, losses>>

EndFlush(f) ==
  /\ InHand(f)
  /\ flush[f].row = Nil
  /\ flush[f].todo = {}
  /\ flush' = [flush EXCEPT ![f].phase = "over"]
  /\ UNCHANGED <<workflowVars, posts, call, server, export, queue, losses>>

-----------------------------------------------------------------------------
(* Exports and servers.                                                    *)

(* A server reads its file when it starts.  Bound: a file that a server    *)
(* shows is not written to.                                                *)
Writable(k) == k \notin Uploads /\ \A s \in Servers : server[s] # Offline(k)

(* durabl export writes the journal out.                                   *)
TakeExport(k) ==
  /\ Writable(k)
  /\ export' = [export EXCEPT ![k] = [r \in Runs |-> hitlState(r)]]
  /\ UNCHANGED <<workflowVars, posts, call, server, queue, flush, losses>>

(* A file that comes from elsewhere, or from earlier.                      *)
ReceiveExport(k, shows) ==
  /\ Writable(k)
  /\ export' = [export EXCEPT ![k] = shows]
  /\ UNCHANGED <<workflowVars, posts, call, server, queue, flush, losses>>

(* A live server flushes the queue when it starts.                         *)
StartLive(s, f) ==
  /\ server[s] = Down
  /\ flush[f] = NoFlush
  /\ server' = [server EXCEPT ![s] = Live]
  /\ Begin(f, s)
  /\ UNCHANGED <<workflowVars, posts, call, export, queue, losses>>

(* durabl ui --from <export>.                                              *)
StartOffline(s, k) ==
  /\ server[s] = Down
  /\ k \notin Uploads
  /\ export[k] # Nil
  /\ server' = [server EXCEPT ![s] = Offline(k)]
  /\ UNCHANGED <<workflowVars, posts, call, export, queue, flush, losses>>

(* POST /api/import replaces the source of a running server under its      *)
(* requests and flushes, by whatever JSONL was sent; the origin of an      *)
(* upload is new.                                                          *)
Import(s, k, shows) ==
  /\ server[s] # Down
  /\ ~Busy(s)
  /\ k \in Uploads
  /\ export[k] = Nil
  /\ export' = [export EXCEPT ![k] = shows]
  /\ server' = [server EXCEPT ![s] = Offline(k)]
  /\ UNCHANGED <<workflowVars, posts, call, queue, flush, losses>>

(* A server process ends, and with it what it was doing; what it had sent  *)
(* goes on in the engine.                                                  *)
StopServer(s) ==
  /\ server[s] # Down
  /\ Loss
  /\ server' = [server EXCEPT ![s] = Down]
  /\ call' = [c \in Clients |->
                IF /\ call[c] # NoCall
                   /\ call[c].server = s
                   /\ call[c].phase \in {"sending", "waiting", "enqueue"}
                THEN [call[c] EXCEPT !.phase = "failed"] ELSE call[c]]
  /\ flush' = [f \in Flushes |->
                IF flush[f] # NoFlush /\ flush[f].server = s
                THEN [flush[f] EXCEPT !.phase = "over"] ELSE flush[f]]
  /\ UNCHANGED <<workflowVars, posts, export, queue>>

-----------------------------------------------------------------------------

PostStep == \E p \in posts :
  PeekResolved(p) \/ PeekUnresolved(p) \/ Resolve(p) \/ ResolveAgain(p)

CallStep(c) == SendPost(c) \/ Answer(c) \/ (c \in Callers /\ Enqueue(c))

FlushStep(f) ==
  \/ \E q \in flush[f].todo : SkipRow(f, q) \/ FlushRow(f, q)
  \/ MarkFlushed(f) \/ CountFailed(f) \/ EndFlush(f)

Submit ==
  \E c \in Callers, r \in Runs, d \in Decisions :
    CliInput(c, r, d) \/ \E s \in Servers : UiInput(c, s, r, d)

ServerStep ==
  \/ \E k \in ExportKeys : TakeExport(k)
  \/ \E k \in ExportKeys, shows \in [Runs -> HitlStates] :
       ReceiveExport(k, shows) \/ \E s \in Servers : Import(s, k, shows)
  \/ \E s \in Servers, k \in ExportKeys : StartOffline(s, k)
  \/ \E s \in Servers, f \in Flushes : StartLive(s, f) \/ StartFlush(f, s)
  \/ \E s \in Servers : StopServer(s)

(* The workflow layer without its own resolution of promises.              *)
RunStep ==
  /\ \/ \E r \in NativeRuns, p \in Prompts : Invoke(r, "HitlAgentRun", p)
     \/ EngineStep
     \/ FaultStep
  /\ UNCHANGED frontVars

HitlNext ==
  \/ RunStep \/ PostStep \/ Submit \/ ServerStep
  \/ \E c \in Clients : CallStep(c) \/ Retry(c) \/ GiveUp(c)
  \/ \E f \in Flushes : flush[f] # NoFlush /\ FlushStep(f)

(* As for the workflows, plus: the engine finishes the calls it accepted,  *)
(* and a request or flush under way goes on.                               *)
HitlFairness ==
  /\ \A r \in Runs : WF_hitlVars(/\ \E w \in Workers : StartAttempt(w, r)
                                 /\ UNCHANGED frontVars)
  /\ \A w \in Workers : WF_hitlVars(HandlerStep(w) /\ UNCHANGED frontVars)
  /\ WF_hitlVars(PostStep)
  /\ \A c \in Clients : WF_hitlVars(CallStep(c))
  /\ \A f \in Flushes : WF_hitlVars(flush[f] # NoFlush /\ FlushStep(f))

HitlSpec == HitlInit /\ [][HitlNext]_hitlVars /\ HitlFairness

-----------------------------------------------------------------------------
(* What must be true of decisions.                                         *)

(* Whoever was answered by the engine, and every row a flush took off the  *)
(* queue, is about a run whose decision is settled: no call returns before *)
(* some call resolved the promise, however calls, retries, flushes,        *)
(* imports and restarts interleave.                                        *)
AnsweredMeansDecided ==
  /\ \A c \in Clients :
       call[c].phase \in {"accepted", "duplicate"} =>
         promise[call[c].run] # Nil
  /\ \A q \in queue : q.flushed => promise[q.run] # Nil

(* The journaled input is the decision of the promise, although zombies    *)
(* and retries journal it: every reader of the journal learns the decision *)
(* the run acts on.                                                        *)
JournaledInputIsTheDecision ==
  \A e \in stepJournal :
    e.step = "hitl-input" =>
      promise[e.run] # Nil /\ e.output.ext = promise[e.run]

(* A submitter told at the first try that it came too late was beaten by a *)
(* call whose decision stands, and not by itself.                          *)
DuplicatesLostToAnother ==
  \A c \in Clients :
    (call[c].phase = "duplicate" /\ call[c].try = 1) =>
      \E p \in posts :
        /\ p.phase = "accepted"
        /\ p.run = call[c].run
        /\ p.decision = promise[p.run]
        /\ p # PostOf(c)

(* Some upload that a server took showed the run paused.                   *)
UploadShowsPause(r) ==
  \E k \in Uploads : export[k] # Nil /\ export[k][r] = "paused"

(* A decision given through the UI reaches the engine only after the run   *)
(* journaled its pause.  So does one from the queue, whatever the exports  *)
(* say under which it was queued, except where an upload that shows the    *)
(* run paused took the place of the journal under the flush: isStillPaused *)
(* asks the source the server has by then (src/server.ts 572 and 711), and *)
(* that need not be of this journal (514-517).                             *)
UiDecisionsFollowThePause ==
  \A p \in posts :
    /\ (p.by \in Callers /\ call[p.by].server # Nil) =>
         Journaled(p.run, "hitl-pause")
    /\ p.by \in Flushes =>
         Journaled(p.run, "hitl-pause") \/ UploadShowsPause(p.run)

(* A decision acknowledged offline stays in the queue, pending or flushed  *)
(* (src/server.ts 80-81, "decisions are saved locally and replay"): no     *)
(* flush takes it out, no submission through the same server, restarted or *)
(* not, replaces it.  What may replace it is one that was acknowledged by  *)
(* another server process over the same export.                            *)
QueuedDecisionsStay ==
  \A c \in Callers :
    call[c].phase = "queued" =>
      \E q \in queue :
        /\ q.key = call[c].key /\ q.run = call[c].run
        /\ \/ q.decision = call[c].decision
           \/ \E b \in Callers : /\ call[b].phase = "queued"
                                 /\ call[b].server # call[c].server
                                 /\ call[b].key = q.key /\ call[b].run = q.run
                                 /\ call[b].decision = q.decision

(* A decision reported accepted is the one the run takes, a later one is   *)
(* reported accepted=false (src/hitl-workflow.ts 183-189).                 *)
AcceptedDecisionsStand ==
  \A c \in Callers :
    call[c].phase = "accepted" => promise[call[c].run] = call[c].decision

(* The workflow layer sees nothing it would not see by itself.             *)
HitlImplementsWorkflow == WorkflowInit /\ [][WorkflowNext]_workflowVars


-----------------------------------------------------------------------------
(* Why the safety above holds.                                             *)

(* A server only shows an export that was written, and one that is about   *)
(* to enqueue a decision shows an export until it did.                     *)
ServersShowExports ==
  /\ \A s \in Servers :
       server[s].mode = "offline" => export[server[s].key] # Nil
  /\ \A c \in Clients :
       call[c].phase = "enqueue" => /\ call[c].server # Nil
                                    /\ server[call[c].server].mode = "offline"

(* The submission a client waits for is with the engine, and the engine    *)
(* answers only once the promise is resolved.                              *)
AnswersFollowDecisions ==
  /\ \A c \in Clients : call[c].phase = "waiting" =>
       \E p \in posts : /\ p.by = c /\ p.key = call[c].key
                        /\ p.try = call[c].try /\ p.run = call[c].run
  /\ \A p \in posts :
       p.phase \in {"accepted", "duplicate"} => promise[p.run] # Nil

(* What a flush is sending is the row it has in hand.                      *)
FlushesSendTheirRow ==
  \A f \in Flushes :
    (flush[f].phase = "running" /\ flush[f].row # Nil) =>
      call[f] # NoCall /\ call[f].run = flush[f].row.run

(* An attempt is past the wait for the promise only once it is resolved,   *)
(* and the input it is about to journal is the promise's value.            *)
InputsInHand ==
  \A w \in Workers :
    (at[w].pc \in {"produce", "insert"} /\ StepOf(w) = "hitl-input") =>
      /\ promise[at[w].run] # Nil
      /\ at[w].pc = "insert" => at[w].val.ext = promise[at[w].run]

(* Whose post it is, whichever try.                                        *)
Tries(c, p) == p.by = c /\ p.key = call[c].key /\ p.run = call[c].run

(* Each try of a submission is one post, by whoever submitted: a caller    *)
(* once, a flush once for each row of its snapshot.                        *)
PostsAreTold ==
  /\ \A p, q \in posts :
       (p.by = q.by /\ p.key = q.key /\ p.try = q.try /\ p.run = q.run) => p = q
  /\ \A c \in Clients, p \in posts :
       (call[c] # NoCall /\ Tries(c, p)) =>
         p.try <= call[c].try /\ (call[c].phase = "sending" => p.try # call[c].try)
  /\ \A p \in posts : p.by \in Callers =>
       call[p.by].phase \in {"sending", "waiting", "accepted", "duplicate", "failed"}

RowsAreOne(rows) ==
  \A q, o \in rows : (o.key = q.key /\ o.run = q.run) => o = q

FlushesTakeRowsOnce ==
  /\ RowsAreOne(queue)
  /\ \A f \in Flushes :
       IF flush[f] = NoFlush
       THEN call[f] = NoCall /\ \A p \in posts : p.by # f
       ELSE /\ RowsAreOne(flush[f].todo)
            /\ \A q \in flush[f].todo :
                 /\ \A p \in posts : p.by = f => p.key # q.key \/ p.run # q.run
                 /\ call[f] # NoCall => call[f].key # q.key \/ call[f].run # q.run

(* What a promise holds is the decision of a call the engine accepted, and *)
(* whoever was told that he came too late has a call that did.             *)
CallsResolve ==
  /\ \A r \in Runs : promise[r] # Nil =>
       \E p \in posts : /\ p.phase = "accepted" /\ p.run = r
                        /\ p.decision = promise[r]
  /\ \A c \in Clients : call[c].phase = "duplicate" =>
       \E p \in posts : /\ Tries(c, p) /\ p.try = call[c].try
                        /\ p.phase = "duplicate"

(* A submission that a live server passed on is about a run that journaled *)
(* its pause; what a flush is sending is about one that did, or that an    *)
(* upload shows paused, since a flush asks a live server or an upload.     *)
PausesAreShown ==
  /\ \A c \in Callers :
       (/\ call[c] # NoCall /\ call[c].server # Nil
        /\ call[c].phase \in {"sending", "waiting", "accepted", "duplicate"}) =>
         Journaled(call[c].run, "hitl-pause")
  /\ \A f \in Flushes : call[f] # NoCall =>
       Journaled(call[f].run, "hitl-pause") \/ UploadShowsPause(call[f].run)
  /\ \A f \in Flushes : (flush[f] # NoFlush /\ flush[f].phase = "running") =>
       LET s == flush[f].server
       IN  \/ server[s] = Live
           \/ server[s].mode = "offline" /\ server[s].key \in Uploads

HitlIInv ==
  /\ HitlTypeOK
  /\ ServersShowExports /\ AnswersFollowDecisions /\ FlushesSendTheirRow
  /\ PostsAreTold /\ FlushesTakeRowsOnce /\ CallsResolve
  /\ PausesAreShown /\ UiDecisionsFollowThePause
  /\ AnsweredMeansDecided
  /\ JournaledInputIsTheDecision /\ InputsInHand

(* Of the offline acceptances on their way to the queue there is one for   *)
(* each server, and whoever was told meanwhile that a decision for the     *)
(* same run and export is queued was told so by another server.            *)
EnqueuesAreNew ==
  /\ \A b, c \in Callers :
       (/\ call[b].phase = "enqueue" /\ call[c].phase = "enqueue"
        /\ call[b].server = call[c].server) => b = c
  /\ \A b, c \in Callers :
       (/\ call[c].phase = "enqueue" /\ call[b].phase = "queued"
        /\ call[b].key = server[call[c].server].key
        /\ call[b].run = call[c].run) => call[b].server # call[c].server

=============================================================================
