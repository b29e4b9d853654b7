# A TLA+ verification of durabl

durabl is an execution journal for agents. Two workflows (`AgentRun`,
`HitlAgentRun`) run on the Restate engine; each of their steps is recorded in a
portable SQLite journal (`journal.db`), side effects go through an idempotent
sink (`effects.db`), and a run can be forked at any of its steps, resumed by a
human, exported, replayed and looked at in a web page. This directory models
that code, checks it with TLC on small instances and proves its central
properties with TLAPS for every instance.

Paths below are relative to the repository's root (`src/journal.ts` and so on).

## Inventory

| component | state it keeps | operations | hard part |
|---|---|---|---|
| step journal `src/journal.ts` | tables `step_journal`, `run_meta` | `recordStep`, `recordStepAsync`, `ensureRunMeta`, `forkRun`, reads, exports | SELECT, producer and INSERT are not one transaction; engine and journal are two stores written one after the other |
| effect sink `src/effect-sink.ts` | table `effect_log` in another database | `fireEffect`, `effectsFor` | dual-write window between effect and journal row |
| workflows `src/workflow.ts`, `src/hitl-workflow.ts`, `src/crash-inject.ts` | none of their own; handler variables come from the engine | `run`, `provideInput`, `status`, `maybeCrash` | SIGKILL anywhere; zombies: attempts the engine gave up on that still run |
| logical fork `src/fork.ts`, `src/api-fork.ts` | a request's progress | validate, seed, invoke | validation, SELECT, transaction and invocation are separate; races for a run id |
| HITL resume `src/hitl-source.ts`, `src/hitl-offline-queue.ts`, `src/hitl-offline-overlay.ts`, `src/hitl-input-rate-limit.ts` | queue database, rate buckets | submit, enqueue, flush, overlay | retries after lost answers, snapshots held across awaits |
| migrations `src/journal-migrate.ts` | `journal_schema_version` | `migrateJournal` on every open | version read outside the transaction |
| web server `src/server.ts` | the current source, live or imported | REST endpoints | source replaced under requests in progress |
| web page `web/app.js` | `state`: selection, replay, paused runs, lock of the form | loads, selection, submission, import, polls | answers that come late, in another order or not at all |
| WebSocket feed `src/ws-runs.ts` | `lastSeq`, `lastHitl` per socket | hello, ticks | reads are separate statements; runs go on between them |
| sources, export, import `src/journal-source.ts`, `src/export-source.ts` | none | reads, bundles | a bundle is written run by run |
| replay, inspection `src/replay.ts`, `src/inspect.ts` | none | `reconstruct`, `stateAt`, `lineage`, `forkTree`, diffs | chains of forks with points that go up and down |
| run listing `src/runs-list.ts` | none; the client keeps the cursor | keyset pages | between pages runs are added, forks replace listed rows, sources change |
| model providers `src/providers/` | none | HTTP call with timer and retries | which failures are retried, what the timer still covers |
| service, lifecycle `src/service.ts`, `src/lifecycle.ts` | signal handlers, sessions | start, drain, exit | signals in any order, sessions the engine keeps |
| gates `src/harness/run-gate.ts`, `run-m2` ... `run-m5-gate.ts` | a script's position | start, kill, submit, seed, check | checks read while zombies and other forks still run |
| CLI, MCP server, configuration, telemetry, DBOS stub | little | front ends | none of their own |

How they interact: a client POSTs a workflow to Restate; the engine drives the
handler in a service process; the handler's `ctx.run` steps call `recordStep`,
which reads and writes the journal and, in the tool step, the effect sink; the
engine stores each result too. Forks write the journal directly and then
submit the new run to the engine. A decision for a paused run goes through the
web server (or the CLI) to the engine, or through the offline queue. Readers
(feed, export, replay, page) open the same SQLite files. The journal is shared
by all processes through files (WAL, 5 s busy timeout), never through memory.

What must be true, component by component: the engine and the journal agree on
every output; an effect is fired at most once per run, from journaled values,
and ends up in the journal; a trajectory has no gap and is written once; a fork
is a verbatim, marked prefix of its parent, fires nothing for the copied steps,
and reports what happened; accepted runs complete and requests are answered; a
run takes one decision, and whoever is told that one was taken is told the
truth; a journal that opened is current; whoever reads while others write gets
something that can be replayed, nothing twice and nothing left out; the page
comes to agree with the server; a model call ends, and fails only when it has
to; a service that is told to stop does, and loses no call that is still waited
for while it drains; the gates' own checks are justified.

## Modules

| module | models | checked by |
|---|---|---|
| `Journal` | the tables of both databases and every statement run against them | through the modules below |
| `Workflow` | both handlers under the engine, with crashes, provider failures, lost connections and zombies | `MCFork`, `MCReaders`, `MCGates` |
| `DurableRuns` | the abstract specification: one log per run, written once and in order, at most one act per run, forks as copies of a prefix, callers that get the log | implemented by `Workflow`, by `Fork` and by what `Gates` drives |
| `Fork` | fork requests of all three modes, composed with `Workflow` | `MCFork` |
| `Source` | what a reader sees of a journal; bare, tagged and bundled exports and their import, as operators | `MCFork`, `MCReaders`, `MCGates` |
| `Replay` | reconstruction, time travel, lineage, fork trees and diffs, as operators over a source | `MCFork`, `MCGates` |
| `Readers` | the WebSocket feed and the bundle, statement by statement, over `Fork` | `MCReaders` |
| `Hitl` | how a decision reaches a paused run: `provideInput`, its callers, UI servers, offline queue, composed with `Workflow` | `MCHitl` |
| `ReplayUi` | the page, the server that answers it, and a client that pages through the runs | `MCUi` |
| `Migrate` | processes opening `journal.db` and migrating it | `MCMigrate` |
| `Service` | the service process: model calls, sessions, signals, shutdown | `MCService` |
| `Gates` | the scripts of five gates over `Fork`, with the named crash points | `MCGates` |
| `WorkflowProofs` | inductive invariant and refinement of `Workflow` | TLAPS |
| `ForkProofs` | inductive invariant and refinement of `Fork`; time travel, exports and diffs over any journal it can reach | TLAPS |
| `HitlProofs` | inductive invariant of `Hitl`, and that it implements `Workflow` | TLAPS |
| `MigrateProofs` | inductive invariant of `Migrate` and what follows | TLAPS |
| `ServiceProofs` | inductive invariant of `Service` and what follows | TLAPS |
| `ReadersProofs` | inductive invariant of `Readers`; feeds and bundles | TLAPS |
| `UiProofs` | inductive invariant of `ReplayUi`; the lock of the form and the listing | TLAPS |
| `GatesProofs` | inductive invariant of `Gates`: no gate fails; it keeps the invariant of `Fork` and implements `DurableRuns` | TLAPS |

`MCFork`, `MCReaders`, `MCHitl`, `MCUi`, `MCMigrate`, `MCService` and `MCGates`
hold what TLC needs beside them: symmetry sets, values of constants, one bound.

Correspondence to the code:

* `stepJournal`, `runMeta`, `effectLog` are the tables; a row of `step_journal`
  is a record. Autocommit statements and the transaction of `forkRun` are each
  one atomic change. An output string is kept as the pieces the properties
  tell apart: which earlier outputs it was built from (`folds`) and what it
  adds itself (`ext`: a completion, a decision, an effect id, the prompt).
* `at[w]` is a handler slot: `meta` before `ensureRunMeta`, `next` before a
  step's SELECT, `produce` and `insert` before the producer and the INSERT,
  `return` once `recordStep` returned and the engine has not acknowledged it.
  `Crash` may take the slot away at each of these points, which are the points
  of `maybeCrash` and more.
* The engine is external. Assumed of it: one invocation per workflow key; an
  accepted invocation is attempted until it completes; an attempt gets the
  results the engine holds, and a new result reaches the handler only once the
  engine holds it; it listens to one attempt per run. Not assumed: that an
  attempt it gave up on has stopped. Such a zombie finishes the `recordStep` it
  is in and stops at its next await (`Fenced`).
* `LoseInsert` is the plain INSERT failing on the primary key: the handler
  throws and the engine retries.
* In `Fork`, a request goes `idle -> validated -> read -> seeded -> invoked ->
  ok`, or ends `rejected` or `failed`; between any two of these anything else
  may happen.
* In `Source`, a source is the rows it shows, and an export is the set of its
  lines (no line occurs twice, which the `seen` set of the bundle sees to).
  `Replay` is pure: its operators are judged in every reachable journal of the
  fork instances rather than over made-up inputs.
* In `Readers`, a session is a socket or an export in progress. Each step is one
  statement; `Write` is any step of `Fork`. The handlers have no await, so the
  reader's own process does nothing else, but other processes do. `todo` is the
  stack of loops of `visit`, and `NextLevel` the loop the visit goes on with.
  `FeedIsTold` compares the state told with the pause told and not with the input
  alone: a run that was seeded with an `AgentRun`'s first two steps and is then
  submitted as a `HitlAgentRun` journals an input without a pause row, and reads
  as `none`.
* In `Hitl`, `posts` are the `provideInput` invocations the engine accepted,
  each between `peek` and `resolve` or answered; the engine finishes every one.
  `call[c]` is a submission (or the row a flush is sending) on its way: an
  answer may be lost (`Retry`, `GiveUp`), and the post it belonged to goes on.
  `server[s]` is `ctx.source` of a UI process: live, or an export under the
  overlay of the queue. What a file or an upload shows is any state of any run
  (`ReceiveExport`, `Import`): the server takes every JSONL that parses. `queue` is the table `pending_hitl`, `flush[f]` the
  local variables of `flushOfflineHitlQueue`. `Busy(s)`: between the check of
  `handleHitlInput` and its enqueue there is no await, so nothing else runs in
  that process, but another process may. `RunStep` is `Workflow`'s `Next`
  without its own resolution of promises.
* In `ReplayUi`, each function of `web/app.js` that awaits is a flow: the
  requests it has still to make, the first of them on its way. The server
  answers from its source at one moment, the answer is delivered at another, and
  what the function does between requests is done with the delivery. `page` is
  the page's `state`; a failed request is `Caught` or `Thrown` as the function's
  `try` says. Runs are reduced to how far they are (absent, started, paused,
  resumed), and to the `created_at` of their `run_meta` row, by which listings are
  ordered; equal times are ordered by run id in the journal and by its lines in an
  upload, so a file brings an order of its own. `ForkRun` seeds a run from another:
  its row is inserted, or replaces that of a run that was started meanwhile, which
  so moves to the fork's time in the live listing.
* In `Migrate`, `conn[o]` is a call of `migrateJournal`: `from` and `applied`
  are its two local variables. A transaction is one step, since SQLite holds the
  write lock over it; the read of the version before it is another.
* In `Service`, `givenUp` are the calls of attempts the engine gave up on (it
  crashed, lost the connection or aborted the attempt): their fetch goes on, but
  the engine awaits nothing of them, so their session may end under them.
  `call[c].tries` lists what the attempts of
  `fetchWithProviderPolicy` came to; `request`, `text`, `json` and `backoff` are
  the places where it awaits. `proc` holds the signal handlers that are left
  (`process.once` removes one when it runs) and how the process ended.
* In `Gates`, a gate is a sequence of commands (`start`, `submit`, `await`,
  `seed`, `input`, `kill`, `read`, `check`) taken from the gate's source, and
  `line` is the command it is at. Its checks are evaluated on the journal and
  the sink at that moment. `CrashAtPoint` is `maybeCrash` at the armed point,
  once per run and point, as the marker file has it.

Definitions marked "Mistake" in the modules are not part of any specification:
each is the wrong version of the definition after it that a property is there
to notice.

## Runs

| run | question | bounds | states |
|---|---|---|---|
| `MCForkRace` | two fork requests and a native submission race for one run id while a live attempt and a zombie are inside `recordStep`: does everything agree, are the answers true, is `DurableRuns` implemented? | 2 runs, 2 requests, 2 fork points, 2 slots, 1 fault, 2 completions | 475,596 |
| `MCForkChain` | forks of forks of runs of either kind, at each step, still executing or not: do prefixes, lineages, diffs, time travel and exports tell one story? | 3 runs, 2 requests, all 5 fork points, 1 slot | 79,921 |
| `MCForkHitlEffect` | the documented promise that a fork before the effect fires its own effect (violated) | 2 runs, 1 request, 2 slots, 1 fault | |
| `MCHitl` | are answers true, and does the run take one decision, when submissions, retries and flushes race over two servers, a file and an upload of any content that comes under a flush? does a queued decision stay? does the workflow notice that peek and resolve are two steps? | 1 run, 1 slot, 2 callers, 2 flushes, at most 3 of these together (2 while both servers run, or when both callers are in and something was lost), 2 servers, 2 tries, 1 loss | 270,760 |
| `MCHitlTwoAccepted` | the documented promise that a duplicate is reported as one (violated) | 2 callers, no loss | |
| `MCMigrateOpen` | is the schema right, and known, whoever migrates or dies? | 3 openers, 3 migrations, 2 deaths | 12,479 |
| `MCMigrateThrows` | the documented promise that opening is always safe (violated) | 2 openers, the 1 migration there is | |
| `MCReaders` | what do a feed and a bundle get while a run executes, pauses and is forked? do accepted runs complete, and are fork requests answered, after a fault and beside zombies? | 2 runs of either kind, 1 request, 2 fork points; 1 reader, 1 slot and no fault, or no reader, 2 slots and 1 fault | 115,810 |
| `MCUi` | does the page come to agree with its server, is its form ever locked for good, does a listing miss a run? | 2 runs, 2 times, 1 user flow beside load and poll, 3 events, pages of 1 | 642,978 |
| `MCUiStale` | the documented promise that the page shows the selected run (violated) | 2 runs, 2 user flows, 2 events, no failure | |
| `MCService` | does a call end and fail only when it has to, does a shutdown end, and lose while it drains nothing the engine still waits for? | 2 calls on 2 sessions, 2 attempts | 413,604 |
| `MCGates` | are the checks of the gates justified in every order, and do the gates end? | the 26 scenarios of five gates, 2 slots, 2 lost connections | 147,700 |

Why these bounds are enough to be interesting: two completions make two
attempts of the plan step disagree; two slots and one fault give a live attempt
and a zombie; runs are independent except through forks, so two suffice for a
race for one id and three give a fork of a fork; the steps of the handlers are
all there. `Runs`, `NativeRuns`, `Workers`, `Completions`, `Decisions`,
`Prompts`, `MaxFaults`, `Forks`, `Targets` and `ForkPoints` are the bounds of
these modules; `MaxSeq` is the length of the longest workflow and not a bound.

In `Hitl`, `MaxTries` is 3 in the code (the delays 0, 75 and 200 ms);
`MaxLosses` bounds lost requests and answers and stopped servers together;
`Callers`, `Flushes`, `Servers`, `ExportKeys` and `Uploads` say what takes part,
and the constraint `Bounds` of `MCHitl` allows three submissions and flushes
together (one caller and two flushes, or two callers and one flush), two while
both servers run or when both callers are in after a loss, and exports that show the run paused or resumed. A file that a
server shows is not written to meanwhile (a server reads its file when it
starts); an upload has an origin of its own. In `Readers`,
`Sessions` bounds the readers; readers do not see each other, so one is enough.
The constraint `ReaderOrFault` of `MCReaders` allows one slot and no fault while
somebody reads (readers change nothing that runs or requests look at, so the
liveness of these is judged without them), and otherwise two slots and a crash, a
failing provider, a lost connection or a dying request at any point.
In `ReplayUi`, `Slots` bounds the user's flows under way together, `MaxEvents`
what users do, how often runs progress and requests fail; `PageLimit` is the
client's `limit`. The action constraint `ListOrUse` of `MCUi` lets either the page
be used, or the runs be listed while they go on, are forked (their rows moving to
any time), exported and imported: the listing client reads the source and changes
nothing, so what the page does is checked without it, and what matters to a listing
is how its source changes. So the liveness of the page is judged without forks,
which only change what the source shows, as the progress of runs and uploads do.
`Moot` is no state of the code: it
remembers the times at which a listing stood when another order took over. In
`Migrate`, `Latest` is 1 in the code; three migrations show
what the loop does when others have applied some of them; `MaxDeaths` bounds
processes that die. In `Service`, `Calls`, `Sessions` and `MaxAttempts` (3 by
default in the code; two tell the last attempt from those before it) are the
bounds. In `Gates`, `GatesRun` names the
scenarios, one of which is chosen initially.

Symmetry (slots, completions, requests, callers, flushes, servers, decisions) is
used in runs without liveness only. Deadlock is checked in the two runs of
`Migrate`, whose processes open and close for ever; elsewhere it is not, because
the system may stop when every run is complete, every script at its end, or wait
for a human who need not answer.

### Fairness

`EngineFairness`: weak fairness for starting an attempt of each run (the engine
keeps retrying: the code relies on it for all crash recovery) and for each
slot's handler (a running Node process goes on). No fairness for clients,
humans or faults; the faults are finitely many, so liveness says what happens
once they stop. `ForkFairness` adds weak fairness for each fork request under
way. A `HitlAgentRun` is only required to complete if its promise is resolved.
`ReadersSpec` adds that an open feed ticks (`setInterval`); exports need not go
on. `UiFairness`: requests that are on their way are answered or fail and the
poll timer goes on; users do nothing they do not want to. `ServiceFairness`: the
timer of an attempt and of a back-off fires, Node ends a body of which nothing
comes any more (its limit is between two pieces: a provider that lets the text of
a 200 trickle for ever evades it, and is taken not to), and the deadline of a
shutdown fires; neither the provider nor the engine is
obliged to anything. `MigrateFairness`: a process that opens the journal goes on,
and one that got an error comes again, as the engine's retry of an attempt makes
it. `GatesFairness`: gate, service and engine go on; the gates' waits have
deadlines of tens of seconds in the code and none here, so a wait that could
last for ever would be found. `HitlFairness` states what holds of `Hitl` (the
engine finishes the calls it accepted, requests and flushes under way go on);
its runs check safety only.

### The disagreements

`MCForkHitlEffect`: `docs/m2-trajectory-branching.md` (67-74) promises that a
fork whose point lies before the side-effecting step executes that step itself
and fires exactly once. A `HitlAgentRun` fires at step 4, and
`forkInvokeViaIngress` always submits the fork to `AgentRun`, whose tool step is
step 2. Forked at step 2 or 3, the seeded `hitl-pause` row sits at seq 2,
`recordStep` matches rows by `(run, seq)` alone, and the fork completes with no
effect at all.

`MCHitlTwoAccepted`: the comment above `provideInput` (`src/hitl-workflow.ts`
183-188) says that a later call reports `accepted=false`. Peek and resolve are
two awaits of a shared handler, so two calls may both see no value, and the one
whose `resolve` does nothing still answers `accepted: true`. The run itself takes
one decision only (`MCHitl`).

`MCMigrateThrows`: "safe to call on every journal open"
(`src/journal-migrate.ts` 115). Two processes that open a new journal at once
both read version 0; the second insert of version 1 violates the primary key and
the open throws. Nothing is damaged, and the next open succeeds
(`MCMigrateOpen`, `LosersOpenNextTime`).

`MCUiStale`: `selectRun` (`web/app.js` 664-670) sets the selection at once and
writes each answer when it comes, without looking whether its run is still the
selected one. Two clicks whose answers come in the other order leave the first
run's replay and lineage under the second selection, for as long as nothing is
clicked again; `docs/UI.md` 47 says that the breadcrumb highlights the path to
the selected run. The paused state is repaired by the polls (`PollsRepair`).

Not runs of their own: `docs/HARDENING.md` 37 says that retries apply only to
429 and 5xx; the code also retries timeouts and network errors, and of the 5xx
only 500, 502, 503 and 504. `Service` follows the code. The docs disagree among
themselves about `POST /api/hitl/input` on an offline source: `docs/UI.md` 62,
`docs/COMPLETION.md` 115 and the comment at `src/server.ts` 80-81 say that the
decision is queued, which is what the code does and what `Hitl` follows;
`docs/hitl-web-ui.md` 40, `docs/API.md` 26, 38 and 76, `docs/m5-hitl-export.md`
218 and 236, `docs/OPERATOR.md` 123-131, `docs/FAQ.md` 76, `docs/ARCHITECTURE.md`
400, `docs/build-status.md` 96 and 108 and `docs/TROUBLESHOOTING.md` 92 still say
that it is refused with 503.

## Proofs

All theorems hold for all values of the constants, from the assumptions the
modules declare: `NilAssumption`, `NilIsNoRow`, `NilIsNoInvocation`,
`NilIsNoExport`, `NilIsNoCause` and `NilIsNoInput` (NULL is none of the values a
column or a field holds), `WorkflowAssumption`, `ForkAssumption`,
`HitlAssumption`, `MigrateAssumption`, `ServiceAssumption`, `FiniteRuns` (a data
directory holds finitely many runs; only what walks the family of a run needs it),
`UiAssumption` (finitely many runs in a total order, as the run id decides
between equal times, and a page of at least one row), `GatesAssumption` (the runs
and prompts the scripts name are among the runs and prompts there are) and
`GatesRunAssumption` (each gate that is run has a script). TLC evaluates each of
them in the runs.

`WorkflowProofs`, for any number of runs, slots and faults:

* `WorkflowInvariant`: `WorkflowSpec => []WorkflowIInv`, and from it the type
  invariant, `EngineAgreesWithJournal`, `OneEffectPerRun`, `EffectsFromJournal`,
  `OutputsFromJournal` and `GapFreeTrajectories`;
* `WorkflowRefines`: `WorkflowSpec => ImplementsDurableRuns`.

Why the invariant is as strong as it is. Agreement of engine and journal is not
inductive: the engine takes what the attempt carries, so one must know that
what any attempt carries at `return` is a journal row (`AttemptOK`), that the
journal has one row per step and only grows (`OneRowPerStep`), and that the
attempt the engine listens to is exactly at the step after the engine's log
(`OwnerPosition`). At most one effect per run needs that a run's effect rows
are all under the key of its own only tool step (`EffectRows`, `StepOrder`).
That outputs fold journaled values only follows because an attempt reads them
from the engine, which agrees with the journal. `Grows` states what an attempt
relies on and no step takes back; `AttemptFrame` uses it once for all actions.
The refinement maps the INSERT to `Record`, a first firing to `Act`, completion
to `Complete` and everything else to stuttering.

`ForkProofs`, for any number of fork requests besides (`ForkIInv` also says what
the readers need: a run's own steps are its workflow's, a parent comes with a
fork point, and no lineage goes in a circle, because a run that is seeded has no
rows and so is nobody's parent yet):

* `ForkInvariant`: `ForkSpec => []ForkIInv`, and from it `ForksCopyTheirPrefix`,
  `SeededStepsNeverFire` and `ForkReportsAreTrue`; `ForkIInv` contains
  `WorkflowIInv`, so all that was proved of the workflows holds with forks too;
* `ForkRefines`: `ForkSpec => ImplementsDurableRuns`.

Nothing is locked between the steps of a request, so each step must find what
the one before it left. What was read of the source before the transaction is
what is still there (`PlanHolds`), because a trajectory has no gaps and so no
row is ever inserted below one that exists (`PrefixStands`). The transaction
succeeds only for a run without any row: every trajectory has its step 1, every
copied prefix too, and the two would conflict (`SeedFacts`). Such a run has fired
nothing, and an attempt of it can only be at step 1, which is no tool step
(`FreshRun`); that, and that a producer past the first step belongs to a step
which is not seeded (`ProducersAreNative`) of the right kind
(`ToolStepsInPlace`), is why copied steps stay silent. That a copied row folds
only rows copied with it needs that outputs are built from earlier steps
(`StepsLookBack`). What a request did is not undone (`RequestStands`): a
`run_meta` row of a fork is replaced by nobody, since its run has rows. In the
refinement the transaction is `Seed` and every other fork step stutters.

`HitlProofs`, for any number of callers, flushes, servers, exports, tries and
losses:

* `HitlInvariant`: `HitlSpec => []HitlIInv`, and from it `AnsweredMeansDecided`
  and `JournaledInputIsTheDecision`;
* `HitlRefines`: every step of `Hitl` is one of `Workflow` or changes none of its
  variables, so `WorkflowIInv` and what follows from it hold of `Hitl` too;
* `LosersWereBeaten` (`DuplicatesLostToAnother`): the engine holds an accepted
  call for each resolved promise (`CallsResolve`), and each try of a submission
  is one call (`PostsAreTold`), so a first try that came too late lost to
  somebody else. That a flush sends a row once is part of it
  (`FlushesTakeRowsOnce`);
* `DecisionsFollowPauses` (`UiDecisionsFollowThePause`): a live server looks at
  the journal, and journals only grow; a flush runs on a server that is live or
  shows an upload (`PausesAreShown`), so a queued decision, under whatever file it
  was queued, goes ahead of the pause only where an upload that shows the run
  paused replaced the journal under the flush;
* `QueueKeepsDecisions` (`QueuedDecisionsStay`): the overlay protects an
  acknowledged decision within one server process, whatever it shows and however
  often it is restarted; what takes its row was acknowledged by another process
  that had checked the run before (`EnqueuesAreNew`).

A client is answered from the call it waits for, so one must know that the call
is there (`AnswersFollowDecisions`) although the client may have given up on
others, and that a flush marks the row its answer is about
(`FlushesSendTheirRow`). For the journaled input: an attempt passes the wait only
once the promise is resolved and from then on carries its value (`InputsInHand`),
because promises are never changed (`PromisesStand`). Both invariants are proved
together with `WorkflowIInv`: a step keeps `HitlIInv` only where the workflow's
types hold, and is a workflow step only where the calls are typed.

`MigrateProofs`, for any number of openers, migrations and deaths:
`MigrateInvariant` (`MigrateSpec => []MigrateIInv`) and from it that the version
table tells the schema, that each migration is applied by one opener and that an
opened journal is current. The strengthening is `KnownVersions`: what an opener
read or applied is in the table, so the version it inserts next can only
conflict with one that another applied, and all below it are there.

`ServiceProofs`, for any number of calls, sessions and attempts:
`ServiceInvariant` (`ServiceSpec => []ServiceIInv`) and from it
`FailuresAreEarned` and `DrainingLosesNoAwaitedCall`. A call that goes on has an
attempt left and was told nothing final (`InOrder`); what the engine still waits
for keeps its session open (`CallsHoldSessions`), so when the last session is gone
only calls of attempts that were given up are in flight, and only the end of the
process cuts a call off (`OnlyExitsLose`).

`ForkProofs` on `Replay`, over every journal `Fork` can reach, for any number and
tree of runs:

* `HistoryIsSettled` (`HistoryStands`, an action property): what time travel
  shows of a step is settled once the step is journaled. Rows, lineage marks and
  fork points of runs that have rows stay (`JournalStands`, `ForkPointsStay`),
  nothing is inserted below a row, and an effect is fired before its step is
  journaled (`EffectsAreSettled`);
* `ExportsReplay` (`ExportsReplayTheSame`): the family a bundle collects round
  by round is closed under the child relation after as many rounds as there are
  runs (`FamilyIsClosure`), so importing the bundle shows the same metadata, rows
  and effects for each of its runs (`ImportOfBundle`), and everything `Replay`
  computes is a function of those;
* `LineagesTell` (`LineagesExplainDiffs`): lineages end at a root by
  `LineagesEnd`; along the chain, a step below every fork point in between was
  copied at each hop (`ChainAgrees`), so both ends agree on it.

The two walks (`FamilyRounds`, `LineageIsChain`) are recursive functions on the
naturals; their proofs argue with a least counterexample (`LeastOf`) instead of
the library's induction theorems.

`ReadersProofs`, for any number of sockets and exports that read statement by
statement while `Fork` goes on: `ReadersInvariant` (`ReadersSpec => []ReadersIInv`)
and from it `FeedsTell` (`FeedTellsTheRun`) and `BundlesHold`
(`BundlesHoldTogether`). What makes reads at different moments fit together
(`SessionHolds`): each line that was written stays true, since rows are never
changed; the steps of a run are written as a prefix, as there are no gaps to
fill; effects are read after steps, and a tool step is journaled after its
effect, so a step that was read has an effect that will be; and a fork is
visited only from its parent, whose own lines were written before it and, a
parent having its copied steps before the fork exists, agree with the copies.

`UiProofs`, for any number of runs, flows, events and page sizes: `UiInvariant`
(`UiSpec => []UiIInv`) and from it `ListsComplete` (`ListsAreComplete`). Whether
the form is locked is kept in two places: in `hitlSubmitBusy`, and in the
`finally` that some function under way has still to run. `LockIsHeld` says they
agree, that there is one such function at most, and that the `finally` comes
last; so no exception, late answer or upload under a submission leaves the form
locked with nobody to release it (that the release comes is `SubmitsAreReleased`,
which TLC checks). `UiTypeOK` includes that every request about a run names
one, although an upload may clear the selection under a submission, and that
whatever answer is delivered is one to the request it is taken for. For the
listing, `ListUpTo` says that rows come by their times, each row (a run with its
time) once, and that those that stayed are all there up to the cursor. A page that
starts behind the cursor keeps this whatever came, moved or went in between
(`OnePage`), given that `InOrder` lists a finite set completely (`InOrderLists`, by
counting the rows before each). When an upload takes over, or is replaced by
another, the order of equal times may change, so that the rows of the cursor's time
become `moot`; of all others the cursor tells in both orders alike which are behind
it (`OrderChanges`).

`GatesProofs`, for any of the scripts, any number of slots, faults and further
runs: `GatesInvariant` (`GatesSpec => []GatesIInv`) and from it

* `GatesPasses` (`GatesPass`): no check of a gate fails, whatever the order in
  which gate, service and engine act and wherever the service kills itself;
* `GatesKeepForks` (`GatesSpec => []ForkIInv`): each step of a gate is, on the
  tables and the engine, one of `Workflow`, the death of all attempts, a
  submission, a fork's transaction, or none (`ModelStep`); so what was proved of
  `Fork` also holds when a service is killed as a whole at an armed point and
  when the gate seeds a fork itself;
* `GatesRefine`: `GatesSpec => ImplementsDurableRuns`.

The 26 scripts are spelled out once, with what they have in common (a run is
submitted as one workflow, an answer is waited for before the next command, what
is read is final); everything else is argued from that. What a command brought
about stands (`CommandsDone`) and nothing happens that no command asked for
(`OnlyOnCommand`): without the second, a check that a run has one effect could
meet a run that somebody else forked. Why a journaled output is what the check
expects: it folds all it should and carries the prompt of its own run
(`OutputsAreMade`), a run has as many outputs as its workflow has steps
(`ResultsAreWhole`), and its plan came from a provider that served while the run
was to be executed (`PlansAreProvided`, which needs that attempts live only in the
service that was started last: `ServiceAsStarted`). The first of several inputs
is taken and answered as accepted, the others are not (`InputsInOrder`), and the
effect of a `HitlAgentRun` comes after its input (`EffectsFollowInputs`). Zombies
of a completed run change no table any more, so what was read before a kill is
still there for the comparison with the export (`ReadsStand`). From these follow
the shapes of a completed run (`AgentShape`, `HitlRows`), and from the shapes of
the runs it is about each check, command by command.

Only model-checked:

* all liveness (`RunsComplete`, `ForksAnswered`, `FeedsCatchUp`, `PollsRepair`,
  `SubmitsAreReleased`, `CallsEnd`, `ShutdownsEnd`, `LosersOpenNextTime`,
  `GatesEnd`), which TLAPS cannot prove under fairness.

## Not modelled

Timestamps, schema numbers, spans, logging, string formatting, HTTP and frame
parsing, authentication, rendering, and time travel inside a page that is loaded.
`SQLITE_BUSY` after the 5 s timeout is a statement that throws: for a handler it
is a `Crash` of the attempt, for a fork `ForkDies`, for an opener `Die`. Outside
`Migrate` the schema is taken as migrated.

* The rate limit of `POST /api/hitl/input` counts in memory, per minute, and
  changes nothing but its own counters.
* The CLI and the MCP server are front ends to what is modelled; configuration,
  launch commands, telemetry and re-exports share no state between steps. The
  DBOS stub is an example with a file format of its own.
* Of the gates: the lock file, ports, Docker, and the checks of wording, headers
  and performance. The other programs under `src/harness` (the demo, the gates for
  authentication, hardening, live providers and the DBOS stub) run what `Gates`
  runs or check wording.
* Of the service: the ingress helper's abort on shutdown, which the CLI and the
  web server use, and the contents of model requests.
* Of the page: two overlapping renderings of the tree differ only in what is drawn
  last.

What the code does that no property forbids, because nothing promises otherwise:

* A queued decision whose run was resumed otherwise is skipped by every flush and
  stays. One that was acknowledged is replaced when a second UI process over the
  same export and data directory had checked the run before it was queued; with
  one process the overlay prevents that, also over restarts
  (`QueuedDecisionsStay` says so for any number of processes).
* An upload that replaces the journal under a running flush is what the flush
  asks from then on: if it shows a run paused that journaled no pause, the queued
  decision resolves that run's promise ahead of its pause
  (`UiDecisionsFollowThePause` says when).
* A shutdown that ends before its deadline waited for sessions, not for handlers:
  it cuts off the model call of an attempt whose connection was lost or that the
  engine gave up on.
* An export of an offline source with a queued decision writes the overlay's
  `hitl-input` row like a journaled one.
* A fork that was seeded and then failed cannot be retried under its id
  (`validateForkPlan` says it exists). A native run that has journaled nothing and
  whose `run_meta` row a fork replaces goes on under its own label, and moves in the
  live listing: a client that pages through it may get the run twice, the second
  time with its new `created_at`. `ListsAreComplete` says that this is the only way.
* An upload orders rows of equal `created_at` by its lines and not by run id: a
  listing that is continued over an upload may miss or repeat rows of its cursor's
  time (`list.moot`).
* Two exports concatenated into one file import with their common runs twice.
* With `DURABL_PROVIDER_MAX_ATTEMPTS` at 0 no request is made and the call fails
  with a network error.

## Plan

All modules of the plan are written. What would come next, in this order:

1. `Hitl` composed with `Fork`: a paused run that is forked while its decision is
   queued, and the liveness of submissions and flushes over the composition.
2. The lock of the gate programs (`src/harness/restate-control.ts`), which is
   created empty and filled afterwards.
