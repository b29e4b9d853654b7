------------------------------- MODULE Service -------------------------------
(***************************************************************************)
(* The process that serves the workflows: its calls to a model provider    *)
(* (src/providers), its start (src/service.ts, src/restate-service.ts) and *)
(* its cooperative shutdown (src/lifecycle.ts).                            *)
(*                                                                         *)
(* Workflow sees a model call as one that answers or throws; here is which *)
(* of the two, after how many requests, and what a shutdown does to it.    *)
(***************************************************************************)
EXTENDS Integers, Sequences, FiniteSets

CONSTANTS
  Nil,
  Calls,          \* bound: calls of provider.complete
  Sessions,       \* HTTP/2 sessions of the engine; each call belongs to one
  SessionOf,      \* Calls -> Sessions
  MaxAttempts     \* DURABL_PROVIDER_MAX_ATTEMPTS

ASSUME ServiceAssumption ==
  SessionOf \in [Calls -> Sessions] /\ MaxAttempts \in Nat

VARIABLES
  proc,           \* the process: its phase, signal handlers, provider, exit
  open,           \* the sessions that are open
  givenUp,        \* calls whose attempts the engine gave up on
  call            \* call -> its place in fetchWithProviderPolicy

serviceVars == <<proc, open, givenUp, call>>

Signals == {"SIGTERM", "SIGINT"}

(* DURABL_MODEL_PROVIDER and the key it needs, as the process was given    *)
(* them: a stand-in, a real provider with or without its key, an id that   *)
(* is not registered.                                                      *)
Providers == {"fake", "keyless", "real", "unknown"}

(* What an attempt came to.  Retryable: 429, 500, 502, 503, 504; refused:  *)
(* any other status that is not ok.                                        *)
Statuses == {"ok", "retryable", "refused"}
Causes == Statuses \cup {"timeout", "network"}

ASSUME NilIsNoCause == Nil \notin Causes \cup {"lost"}

NotBegun == [pc |-> "idle", tries |-> <<>>, status |-> Nil, end |-> Nil]

ServiceInit ==
  /\ \E p \in Providers :
       proc = [phase |-> "starting", handlers |-> {}, provider |-> p,
               closing |-> FALSE, exit |-> Nil]
  /\ open = {}
  /\ givenUp = {}
  /\ call = [c \in Calls |-> NotBegun]

Alive == proc.phase # "exited"

InFlight(c) == call[c].pc \notin {"idle", "ended"}

-----------------------------------------------------------------------------
(* A model call.                                                           *)

At(c, pc) == Alive /\ call[c].pc = pc

Becomes(c, now) ==
  call' = [call EXCEPT ![c] = now] /\ UNCHANGED <<proc, open, givenUp>>

Ended(c, tries, how) == [call[c] EXCEPT !.pc = "ended", !.tries = tries, !.end = how]

(* getModelProvider throws for an id that is not registered.               *)
Registered == proc.provider # "unknown"

(* A stand-in answers at once, and a provider without its key in the same  *)
(* way.                                                                    *)
Simulated == proc.provider \in {"fake", "keyless"}

(* getModelProvider, then complete; no attempt is made where none is       *)
(* allowed.                                                                *)
BeginCall(c) ==
  /\ At(c, "idle")
  /\ SessionOf[c] \in open
  /\ Becomes(c,
       IF ~Registered THEN Ended(c, <<>>, "unknown provider")
       ELSE IF Simulated THEN Ended(c, <<>>, "simulated")
       ELSE IF MaxAttempts = 0 THEN Ended(c, <<>>, "network")
       ELSE [call[c] EXCEPT !.pc = "request"])

(* Mistake: one attempt more than allowed.                                 *)
AttemptFailedOnceMore(c, cause) ==
  LET tries == Append(call[c].tries, cause)
      last == Len(tries) > MaxAttempts
  IN  Becomes(c, IF last THEN Ended(c, tries, cause)
                 ELSE [call[c] EXCEPT !.pc = "backoff", !.tries = tries])

(* The attempt failed in a way that is remembered as lastError: the next   *)
(* one follows after a backoff, and after the last one it is thrown.       *)
AttemptFailed(c, cause) ==
  LET tries == Append(call[c].tries, cause)
      last == Len(tries) = MaxAttempts
  IN  Becomes(c, IF last THEN Ended(c, tries, cause)
                 ELSE [call[c] EXCEPT !.pc = "backoff", !.tries = tries])

LastAttempt(c) == Len(call[c].tries) + 1 = MaxAttempts

(* The head of the answer comes.  The text of an error that is thrown now  *)
(* is awaited first.                                                       *)
HeadComes(c, status) ==
  /\ At(c, "request")
  /\ \/ /\ status = "ok"
        /\ Becomes(c, [call[c] EXCEPT !.pc = "json", !.status = status])
     \/ /\ status # "ok"
        /\ status = "retryable" => LastAttempt(c)
        /\ Becomes(c, [call[c] EXCEPT !.pc = "text", !.status = status])
     \/ /\ status = "retryable" /\ ~LastAttempt(c)
        /\ AttemptFailed(c, status)

(* Mistake: the thrown error is taken for a failed attempt.                *)
TextComesLikeAnyError(c) ==
  /\ At(c, "text")
  /\ AttemptFailed(c, call[c].status)

(* http_error is thrown from inside the try: one that is not retryable     *)
(* leaves the loop.                                                        *)
TextComes(c) ==
  /\ At(c, "text")
  /\ IF call[c].status = "refused"
     THEN Becomes(c, Ended(c, Append(call[c].tries, "refused"), "refused"))
     ELSE AttemptFailed(c, call[c].status)

(* The connection breaks before the head, or in the text of an error.      *)
ConnectionBreaks(c) ==
  /\ At(c, "request") \/ At(c, "text")
  /\ AttemptFailed(c, "network")

(* Mistake: the timer is cleared once there is a head.                     *)
TimerFiresEarlyOnly(c) ==
  /\ At(c, "request")
  /\ AttemptFailed(c, "timeout")

(* The timer is cleared when the attempt is over, so it also bounds the    *)
(* text of an error.                                                       *)
TimerFires(c) ==
  /\ At(c, "request") \/ At(c, "text")
  /\ AttemptFailed(c, "timeout")

BackoffEnds(c) ==
  /\ At(c, "backoff")
  /\ Becomes(c, [call[c] EXCEPT !.pc = "request"])

(* res.json() of an ok answer runs without the timer, in the provider; it  *)
(* may not parse, or break off, by Node's own limit at the latest.         *)
BodyComes(c) ==
  /\ At(c, "json")
  /\ Becomes(c, Ended(c, Append(call[c].tries, "ok"), "real"))

BodyFails(c) ==
  /\ At(c, "json")
  /\ Becomes(c, Ended(c, Append(call[c].tries, "ok"), "unreadable"))

-----------------------------------------------------------------------------
(* The process.                                                            *)

Exit(how) ==
  /\ proc' = [proc EXCEPT !.phase = "exited", !.exit = how]
  /\ open' = {}
  /\ call' = [c \in Calls |-> IF InFlight(c) THEN Ended(c, call[c].tries, "lost")
                              ELSE call[c]]
  /\ UNCHANGED givenUp

(* startRestateService: the port is bound, the hook registered, the signal *)
(* handlers installed; or the port is taken.                               *)
Serve ==
  /\ proc.phase = "starting"
  /\ \/ /\ proc' = [proc EXCEPT !.phase = "serving", !.handlers = Signals]
        /\ UNCHANGED <<open, givenUp, call>>
     \/ Exit("no port")

(* The engine opens a session; not once the server is closing.             *)
OpenSession(s) ==
  /\ proc.phase \in {"serving", "draining"}
  /\ ~proc.closing
  /\ s \notin open
  /\ open' = open \cup {s}
  /\ UNCHANGED <<proc, givenUp, call>>

(* The engine crashes, loses the connection, or gives up on the attempt    *)
(* alone: it hears no more of it, and the handler's fetch goes on.         *)
GiveUpAttempt(c) ==
  /\ Alive
  /\ InFlight(c)
  /\ givenUp' = givenUp \cup {c}
  /\ UNCHANGED <<proc, open, call>>

Awaited(c) == InFlight(c) /\ c \notin givenUp

(* A session ends when the engine waits for nothing on it any more, be it  *)
(* that it closed it or that the connection is lost.                       *)
CloseSession(s) ==
  /\ s \in open
  /\ \A c \in Calls : SessionOf[c] = s => ~Awaited(c)
  /\ open' = open \ {s}
  /\ UNCHANGED <<proc, givenUp, call>>

(* process.once: the first of each signal is handled, the next one kills.  *)
(* A second handled signal finds shuttingDown set.                         *)
Signal(sig) ==
  /\ Alive
  /\ \/ /\ sig \notin proc.handlers
        /\ Exit("killed")
     \/ /\ sig \in proc.handlers
        /\ proc' = [proc EXCEPT !.handlers = @ \ {sig}, !.phase = "draining"]
        /\ UNCHANGED <<open, givenUp, call>>

(* The hook: closeHttp2Server stops listening.                             *)
RunHook ==
  /\ proc.phase = "draining"
  /\ ~proc.closing
  /\ proc' = [proc EXCEPT !.closing = TRUE]
  /\ UNCHANGED <<open, givenUp, call>>

(* Mistake: the hook does not wait for the sessions.                       *)
DrainedAtOnce ==
  /\ proc.phase = "draining"
  /\ proc.closing
  /\ Exit("drained")

(* server.close calls back when the last session has ended.                *)
Drained ==
  /\ proc.phase = "draining"
  /\ proc.closing
  /\ open = {}
  /\ Exit("drained")

(* Mistake: the hook is awaited without the deadline.                      *)
DeadlineIgnored ==
  /\ proc.phase = "draining"
  /\ ~proc.closing
  /\ Exit("overdue")

(* The race is lost to the sleep of what remains until the deadline.       *)
Deadline ==
  /\ proc.phase = "draining"
  /\ Exit("overdue")

-----------------------------------------------------------------------------

CallStep(c) ==
  \/ BeginCall(c)
  \/ \E s \in Statuses : HeadComes(c, s)
  \/ TextComes(c) \/ ConnectionBreaks(c) \/ TimerFires(c) \/ BackoffEnds(c)
  \/ BodyComes(c) \/ BodyFails(c)

ServiceNext ==
  \/ \E c \in Calls : CallStep(c) \/ GiveUpAttempt(c)
  \/ \E s \in Sessions : OpenSession(s) \/ CloseSession(s)
  \/ \E sig \in Signals : Signal(sig)
  \/ Serve \/ RunHook \/ Drained \/ Deadline

(* Timers fire, and Node ends a body of which nothing comes any more: the  *)
(* provider is taken not to let one trickle for ever.  It need not answer, *)
(* and the engine need not close its sessions.                             *)
ServiceFairness ==
  /\ \A c \in Calls :
       /\ WF_serviceVars(TimerFires(c))
       /\ WF_serviceVars(BackoffEnds(c))
       /\ WF_serviceVars(BodyFails(c))
  /\ WF_serviceVars(Deadline)

ServiceSpec == ServiceInit /\ [][ServiceNext]_serviceVars /\ ServiceFairness

-----------------------------------------------------------------------------

CallRecord ==
  [pc : {"idle", "request", "text", "json", "backoff", "ended"},
   tries : Seq(Causes),
   status : Statuses \cup {Nil},
   end : Causes \cup {"simulated", "unknown provider", "real", "unreadable",
                      "lost", Nil}]

ServiceTypeOK ==
  /\ proc \in [phase : {"starting", "serving", "draining", "exited"},
               handlers : SUBSET Signals, provider : Providers, closing : BOOLEAN,
               exit : {"no port", "killed", "drained", "overdue", Nil}]
  /\ open \subseteq Sessions /\ givenUp \subseteq Calls
  /\ call \in [Calls -> CallRecord]
  /\ \A c \in Calls : Len(call[c].tries) <= MaxAttempts

(* Nothing was tried after an answer or a refusal; a cause that is thrown  *)
(* is that of the last attempt, and no attempt was left.                   *)
Earned(k) ==
  /\ \A i \in 1 .. Len(k.tries) - 1 : k.tries[i] \notin {"ok", "refused"}
  /\ (k.end \in Causes /\ k.tries # <<>>) =>
       /\ k.end = k.tries[Len(k.tries)]
       /\ k.end = "refused" \/ Len(k.tries) = MaxAttempts

(* A model call throws only when it has to: after the last attempt, or     *)
(* after a refusal; what it throws is what the last attempt came to; and   *)
(* once the refusal has been read the provider is not asked again.         *)
FailuresAreEarned == \A c \in Calls : Earned(call[c])

(* Every model call comes to an end, although the provider may accept the  *)
(* connection and never say anything, or stop in the middle of an error.   *)
CallsEnd == \A c \in Calls : InFlight(c) ~> ~InFlight(c)

(* server.close waits for sessions, not for handlers (lifecycle.ts 62-66): *)
(* what a shutdown cuts off that ends before its deadline, because all is  *)
(* closed, is nothing the engine still waited for.  Attempts that had been *)
(* given up it may cut off in the middle of a call.                        *)
DrainingLosesNoAwaitedCall ==
  proc.exit = "drained" => \A c \in Calls : call[c].end = "lost" => c \in givenUp

(* A process that was told to stop does stop, whoever keeps a session.     *)
ShutdownsEnd == proc.phase = "draining" ~> proc.phase = "exited"

-----------------------------------------------------------------------------
(* Why the safety above holds.                                             *)

(* A call that goes on has an attempt left and was told nothing final; the *)
(* text of an error is only awaited for one that will be thrown.           *)
InOrder(k) ==
  /\ k.pc # "ended" => k.end = Nil
  /\ k.pc = "idle" => k.tries = <<>>
  /\ k.pc \in {"request", "text", "json", "backoff"} =>
       /\ Len(k.tries) < MaxAttempts
       /\ \A i \in 1 .. Len(k.tries) : k.tries[i] \notin {"ok", "refused"}
  /\ k.pc = "text" =>
       \/ k.status = "refused"
       \/ k.status = "retryable" /\ Len(k.tries) + 1 = MaxAttempts

(* What the engine waits for keeps its session open.                       *)
CallsHoldSessions == \A c \in Calls : Awaited(c) => SessionOf[c] \in open

(* Only the end of the process cuts a call off.                            *)
OnlyExitsLose ==
  /\ \A c \in Calls : call[c].end = "lost" => proc.phase = "exited"
  /\ proc.phase = "exited" => \A c \in Calls : ~InFlight(c)

ServiceIInv ==
  /\ ServiceTypeOK
  /\ \A c \in Calls : InOrder(call[c])
  /\ FailuresAreEarned /\ CallsHoldSessions /\ OnlyExitsLose
  /\ DrainingLosesNoAwaitedCall

=============================================================================
