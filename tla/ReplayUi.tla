----------------------------- MODULE ReplayUi -----------------------------
(***************************************************************************)
(* The replay page (web/app.js) and the server that answers it             *)
(* (src/server.ts), while runs go on underneath.                           *)
(*                                                                         *)
(* Every function of the page that awaits is a flow: a sequence of         *)
(* requests, of which the first is on its way.  The server answers it from *)
(* what its source shows at that moment; the answer is delivered later,    *)
(* and until then other flows go on.  Nothing ever cancels a flow.         *)
(*                                                                         *)
(* Of a run's lineage the page keeps its last run, the run asked for.      *)
(* What a server with two exports and its queue do to each other is the    *)
(* business of Hitl.                                                       *)
(***************************************************************************)
EXTENDS Integers, Sequences, FiniteSets

CONSTANTS
  Nil, Runs,
  Times,        \* the values of created_at
  Order,        \* the journal's order of rows: by created_at, then by run_id
  Journals,     \* what the journal may hold when the page is opened
  Created,      \* the runs' created_at then, or when they start
  Exports,      \* what the user's file may be then
  Slots,        \* bound: flows of the user's that are under way together
  PageLimit,    \* ?limit= of the API client
  MaxEvents     \* bound: what users do, steps of runs, and faults

VARIABLES
  journal,      \* run -> how far it is
  created,      \* run -> created_at of its run_meta row, or of the one it will get
  decided,      \* runs whose promise the engine holds resolved
  server,       \* what startServerHandle keeps in its Route
  file,         \* the last export that was downloaded
  page,         \* the page's `state`
  flow,         \* flow -> the requests it has still to make, and its answer
  list,         \* a client that pages through GET /api/runs
  events,       \* how many of them there were
  faults        \* whether a request failed

uiVars == <<journal, created, decided, server, file, page, flow, list, events, faults>>

(* A run starts, pauses before its second step's answer, and resumes.      *)
Absent  == 0
Started == 1
Paused  == 2
Resumed == 3
StepCount == Absent .. Resumed

HitlState(n) == IF n = Paused THEN "paused" ELSE IF n = Resumed THEN "resumed" ELSE "none"

(* A row of a listing, and how rows may be ordered: by their times; what   *)
(* decides between equal times is the run id in the journal, and in an     *)
(* upload the order of its lines.                                          *)
Row == [run : Runs, at : Times]

RowsInOrder(o) ==
  \A x, y \in Row : (o[x] = o[y] => x = y) /\ (x.at < y.at => o[x] < o[y])

Orders == {o \in [Row -> Nat] : RowsInOrder(o)}

(* What a file holds: runs, their times, and an order.                     *)
File == [steps : [Runs -> StepCount], created : [Runs -> Times], order : Orders]

(* A page has a row: parseRunsListQuery refuses a limit below 1.           *)
ASSUME UiAssumption ==
  /\ IsFiniteSet(Runs) /\ Nil \notin Runs \cup Row
  /\ Times \subseteq Nat
  /\ Order \in Orders
  /\ Journals \subseteq [Runs -> StepCount] /\ Created \subseteq [Runs -> Times]
  /\ Exports \subseteq File
  /\ PageLimit \in Nat \ {0}

Known(rows) == {r \in Runs : rows[r] # Absent}
PausedIn(rows) == {r \in Runs : rows[r] = Paused}

(* What the server reads: the journal, or an upload.                       *)
Shown ==
  IF server.live THEN [steps |-> journal, created |-> created, order |-> Order]
  ELSE server.base

(* What it shows: an upload has the queued decisions laid over it.         *)
Source ==
  [r \in Runs |-> IF /\ ~server.live /\ r \in server.queued
                     /\ Shown.steps[r] = Paused
                  THEN Resumed ELSE Shown.steps[r]]

SourceRows == {[run |-> r, at |-> Shown.created[r]] : r \in Known(Source)}

-----------------------------------------------------------------------------
(* Requests.                                                               *)

Flows == Slots \cup {"load", "poll"}

Nowhere == [r \in Runs |-> Absent]

Only(r, n) == [Nowhere EXCEPT ![r] = n]

Get(what) == [get |-> what, run |-> Nil]
Ask(what, r) == [get |-> what, run |-> r]

Idle == [todo |-> <<>>, got |-> Nil]

Begun(todo) == [todo |-> todo, got |-> Nil]

(* The requests of selectRun, and of loadRuns after its first.             *)
SelectRun(r) == <<Ask("tree", r), Ask("replay", r), Ask("status", r)>>
LoadRuns == <<Get("runs"), Get("paused"), Get("trees")>>

(* What a function does between requests, or in its `finally`.             *)
Inner == {"booted", "reselect", "release"}

Boot == <<Get("health")>> \o LoadRuns \o <<Get("booted")>>

UiInit ==
  /\ journal \in Journals /\ created \in Created
  /\ decided = {}
  /\ server = [live |-> TRUE, queued |-> {},
               base |-> [steps |-> Nowhere, created |-> created, order |-> Order]]
  /\ file \in Exports
  /\ page = [up |-> "booting", selected |-> Nil, replay |-> Nil, path |-> Nil,
             hitl |-> "none", enabled |-> FALSE, live |-> FALSE,
             paused |-> {}, runs |-> Nowhere, busy |-> FALSE]
  /\ flow = [t \in Flows |-> IF t = "load" THEN Begun(Boot) ELSE Idle]
  /\ list = Nil
  /\ events = 0
  /\ faults = FALSE

Waits(t) == flow[t].todo # <<>> /\ flow[t].got = Nil
Asks(t, what) == flow[t].todo # <<>> /\ Head(flow[t].todo).get = what
Run(t) == Head(flow[t].todo).run

Elsewhere == <<journal, created, decided, server, file, list, events, faults>>

-----------------------------------------------------------------------------
(* The runs go on, and are decided from elsewhere.                         *)

Event == events < MaxEvents /\ events' = events + 1

Progress(r) ==
  /\ Event
  /\ journal[r] < Resumed
  /\ journal[r] = Paused => r \in decided
  /\ journal' = [journal EXCEPT ![r] = @ + 1]
  /\ UNCHANGED <<created, decided, server, file, page, flow, list, faults>>

DecideElsewhere(r) ==
  /\ Event
  /\ journal[r] = Paused
  /\ decided' = decided \cup {r}
  /\ UNCHANGED <<journal, created, server, file, page, flow, list, faults>>

(* forkRun: run r is seeded from run s.  The run_meta row is inserted, or  *)
(* replaces that of a run that was started meanwhile and has journaled     *)
(* nothing yet; either way the row is of now.                              *)
ForkRun(s, r) ==
  /\ Event
  /\ s # r /\ journal[s] # Absent
  /\ journal[r] \in {Absent, Started}
  /\ \E n \in Started .. journal[s] : journal' = [journal EXCEPT ![r] = n]
  /\ \E now \in Times : created' = [created EXCEPT ![r] = now]
  /\ UNCHANGED <<decided, server, file, page, flow, list, faults>>

-----------------------------------------------------------------------------
(* The server's side: handleApi.                                           *)

(* What the answer to a read tells.                                        *)
Seen(op) ==
  CASE op.get = "health" -> [live |-> server.live]
    [] op.get = "runs"   -> [runs |-> Source]
    [] op.get = "paused" -> [paused |-> PausedIn(Source)]
    [] op.get = "trees"  -> [trees |-> "ok"]
    [] op.get = "tree"   -> [known |-> Source[op.run] # Absent]
    [] op.get = "replay" -> [steps |-> "ok"]
    [] op.get = "status" -> [hitl |-> HitlState(Source[op.run])]
    [] op.get = "export" -> [file |-> [Shown EXCEPT !.steps = Only(op.run, Source[op.run])]]

Writes == {"input", "posted", "import"}

Answered(t, got) == flow' = [flow EXCEPT ![t].got = got]

AnswerRead(t) ==
  /\ Waits(t)
  /\ Head(flow[t].todo).get \notin Writes \cup Inner
  /\ Answered(t, Seen(Head(flow[t].todo)))
  /\ UNCHANGED <<journal, created, decided, server, file, page, list, events, faults>>

(* handleHitlInput while the run is paused: enqueue, or go on to the       *)
(* ingress; every other state is answered at once.                         *)
TakeInput(t) ==
  /\ Waits(t) /\ Asks(t, "input")
  /\ \/ /\ HitlState(Source[Run(t)]) = "paused"
        /\ server.live
        /\ flow' = [flow EXCEPT ![t].todo[1].get = "posted"]
        /\ UNCHANGED server
     \/ /\ HitlState(Source[Run(t)]) = "paused"
        /\ ~server.live
        /\ server' = [server EXCEPT !.queued = @ \cup {Run(t)}]
        /\ Answered(t, "queued")
     \/ /\ HitlState(Source[Run(t)]) = "resumed"
        /\ Answered(t, "resumed")
        /\ UNCHANGED server
     \/ /\ HitlState(Source[Run(t)]) = "none"
        /\ Answered(t, "no pause")
        /\ UNCHANGED server
  /\ UNCHANGED <<journal, created, decided, file, page, list, events, faults>>

(* The ingress answers; the state told with it is read after that.         *)
ProvideInput(t) ==
  /\ Waits(t) /\ Asks(t, "posted")
  /\ decided' = decided \cup {Run(t)}
  /\ Answered(t, IF Run(t) \notin decided THEN "accepted"
                 ELSE IF HitlState(Source[Run(t)]) = "resumed" THEN "resumed"
                 ELSE "refused")
  /\ UNCHANGED <<journal, created, server, file, page, list, events, faults>>

(* handleImport.                                                           *)
TakeImport(t) ==
  /\ Waits(t) /\ Asks(t, "import")
  /\ server' = [live |-> FALSE, base |-> file, queued |-> {}]
  /\ Answered(t, "ok")
  /\ UNCHANGED <<journal, created, decided, file, page, list, events, faults>>

-----------------------------------------------------------------------------
(* The page's side: what each function does with its answer.               *)

Got(t) == flow[t].got
Tell(t) == flow[t].got # Nil

(* The flow goes on: with `more`, then with the rest of what it had to do. *)
GoOn(t, more) ==
  flow' = [flow EXCEPT ![t] = Begun(more \o Tail(@.todo))]

Locks(todo) == \E i \in DOMAIN todo : todo[i].get = "release"

(* An exception: what is left to do is the `finally` of submitHitlInput.   *)
Throws(t) ==
  flow' = [flow EXCEPT ![t] =
             Begun(IF Locks(@.todo) THEN <<Get("release")>> ELSE <<>>)]

(* loadSource *)
HealthCame(t) ==
  /\ Tell(t) /\ Asks(t, "health")
  /\ page' = [page EXCEPT !.live = Got(t).live, !.enabled = TRUE]
  /\ GoOn(t, <<>>)
  /\ UNCHANGED Elsewhere

(* loadRuns *)
RunsCame(t) ==
  /\ Tell(t) /\ Asks(t, "runs")
  /\ page' = [page EXCEPT !.runs = Got(t).runs]
  /\ GoOn(t, <<>>)
  /\ UNCHANGED Elsewhere

(* Mistake: the poll reads the list of paused runs only.                   *)
PausedCameOnly(t) ==
  /\ Tell(t) /\ Asks(t, "paused")
  /\ page' = [page EXCEPT !.paused = Got(t).paused]
  /\ GoOn(t, <<>>)
  /\ UNCHANGED Elsewhere

ThenStatus(t) ==
  IF t = "poll" /\ page.selected # Nil THEN <<Ask("status", page.selected)>> ELSE <<>>

(* loadHitlPaused; the poll goes on to the run that is selected then.      *)
PausedCame(t) ==
  /\ Tell(t) /\ Asks(t, "paused")
  /\ page' = [page EXCEPT !.paused = Got(t).paused]
  /\ GoOn(t, ThenStatus(t))
  /\ UNCHANGED Elsewhere

(* The run the location hash names, which the user may edit, or the first  *)
(* root.                                                                   *)
Restorable == Known(page.runs)

(* The end of loadRuns: the selected run's state is read, or a run is      *)
(* selected.                                                               *)
TreesCame(t) ==
  /\ Tell(t) /\ Asks(t, "trees")
  /\ \/ /\ page.selected # Nil
        /\ GoOn(t, <<Ask("status", page.selected)>>)
        /\ UNCHANGED page
     \/ /\ page.selected = Nil
        /\ \E r \in Restorable :
             /\ page' = [page EXCEPT !.selected = r]
             /\ GoOn(t, SelectRun(r))
     \/ /\ page.selected = Nil
        /\ Restorable = {}
        /\ GoOn(t, <<>>)
        /\ UNCHANGED page
  /\ UNCHANGED Elsewhere

(* refreshLineageForRun *)
TreeCame(t) ==
  /\ Tell(t) /\ Asks(t, "tree")
  /\ page' = [page EXCEPT !.path = IF Got(t).known THEN Run(t) ELSE Nil]
  /\ GoOn(t, <<>>)
  /\ UNCHANGED Elsewhere

(* selectRun, after its second await.                                      *)
ReplayCame(t) ==
  /\ Tell(t) /\ Asks(t, "replay")
  /\ page' = [page EXCEPT !.replay = Run(t)]
  /\ GoOn(t, <<>>)
  /\ UNCHANGED Elsewhere

(* refreshHitlForRun *)
StatusCame(t) ==
  /\ Tell(t) /\ Asks(t, "status")
  /\ page' = [page EXCEPT !.hitl = Got(t).hitl, !.enabled = Got(t).hitl = "paused"]
  /\ GoOn(t, <<>>)
  /\ UNCHANGED Elsewhere

(* submitHitlInput: only what the engine took, or an input that is         *)
(* journaled, makes the page load the runs again.                          *)
InputCame(t) ==
  /\ Tell(t) /\ Head(flow[t].todo).get \in {"input", "posted"}
  /\ IF Got(t) \in {"accepted", "resumed"} THEN GoOn(t, LoadRuns) ELSE Throws(t)
  /\ UNCHANGED <<page, Elsewhere>>

(* uploadJsonl *)
ImportCame(t) ==
  /\ Tell(t) /\ Asks(t, "import")
  /\ page' = [page EXCEPT !.selected = Nil, !.replay = Nil]
  /\ GoOn(t, <<Get("health")>> \o LoadRuns)
  /\ UNCHANGED Elsewhere

(* downloadExport *)
ExportCame(t) ==
  /\ Tell(t) /\ Asks(t, "export")
  /\ file' = Got(t).file
  /\ GoOn(t, <<>>)
  /\ UNCHANGED <<journal, created, decided, server, page, list, events, faults>>

Booted(t) ==
  /\ Asks(t, "booted")
  /\ page' = [page EXCEPT !.up = "up"]
  /\ GoOn(t, <<>>)
  /\ UNCHANGED Elsewhere

(* Mistake: the run is taken for selected still.                           *)
ReselectAnyway(t) ==
  /\ Asks(t, "reselect")
  /\ GoOn(t, SelectRun(page.selected))
  /\ UNCHANGED <<page, Elsewhere>>

Reselect(t) ==
  /\ Asks(t, "reselect")
  /\ GoOn(t, IF page.selected = Nil THEN <<>> ELSE SelectRun(page.selected))
  /\ UNCHANGED <<page, Elsewhere>>

Release(t) ==
  /\ Asks(t, "release")
  /\ page' = [page EXCEPT !.busy = FALSE]
  /\ GoOn(t, <<>>)
  /\ UNCHANGED Elsewhere

(* A request, or its answer, is lost, or answered with an error.  Two      *)
(* functions catch that and go on; boot gives up the page.                 *)
AwaitsFault(t) ==
  /\ flow[t].todo # <<>>
  /\ Head(flow[t].todo).get \notin Inner
  /\ Event
  /\ faults' = TRUE
  /\ UNCHANGED <<journal, created, decided, server, file, list>>

Caught(t) ==
  /\ AwaitsFault(t)
  /\ \/ /\ Asks(t, "paused")
        /\ page' = [page EXCEPT !.paused = {}]
        /\ GoOn(t, ThenStatus(t))
     \/ /\ Asks(t, "status")
        /\ page' = [page EXCEPT !.hitl = HitlState(page.runs[Run(t)])]
        /\ GoOn(t, <<>>)
     \/ /\ t = "poll" /\ Asks(t, "health")
        /\ GoOn(t, <<>>)
        /\ UNCHANGED page

(* Mistake: no `finally`.                                                  *)
ThrownForGood(t) ==
  /\ AwaitsFault(t)
  /\ t # "poll" /\ ~Asks(t, "paused") /\ ~Asks(t, "status")
  /\ flow' = [flow EXCEPT ![t] = Idle]
  /\ page' = [page EXCEPT !.up = IF t = "load" /\ @ = "booting" THEN "dead" ELSE @]

Thrown(t) ==
  /\ AwaitsFault(t)
  /\ t # "poll" /\ ~Asks(t, "paused") /\ ~Asks(t, "status")
  /\ Throws(t)
  /\ page' = [page EXCEPT !.up = IF t = "load" /\ @ = "booting" THEN "dead" ELSE @]

-----------------------------------------------------------------------------
(* What starts flows: the user and the timer.                              *)

Starts(t, todo) == flow[t] = Idle /\ flow' = [flow EXCEPT ![t] = Begun(todo)]

OnPage == page.up # "dead"

(* The nodes of the trees, the list of paused runs, an edited hash.        *)
Clickable == Known(page.runs) \cup page.paused

ClickRun(t, r) ==
  /\ OnPage /\ Event
  /\ r \in Clickable
  /\ Starts(t, SelectRun(r))
  /\ page' = [page EXCEPT !.selected = r]
  /\ UNCHANGED <<journal, created, decided, server, file, list, faults>>

hitlCanSubmit ==
  page.selected # Nil /\ page.hitl = "paused" /\ page.enabled /\ ~page.busy

ClickSubmit(t) ==
  /\ OnPage /\ Event
  /\ hitlCanSubmit
  /\ Starts(t, <<Ask("input", page.selected), Get("reselect"), Get("release")>>)
  /\ page' = [page EXCEPT !.busy = TRUE]
  /\ UNCHANGED <<journal, created, decided, server, file, list, faults>>

(* The button is bound twice, and the file comes twice: the later one is   *)
(* left out.                                                               *)
ClickExport(t) ==
  /\ OnPage /\ Event
  /\ page.selected # Nil
  /\ Starts(t, <<Ask("export", page.selected)>>)
  /\ UNCHANGED <<journal, created, decided, server, file, page, list, faults>>

(* Bound: one upload is under way, and none while the page is loading.     *)
ClickImport ==
  /\ OnPage /\ Event
  /\ file.steps # Nowhere
  /\ Starts("load", <<Get("import")>>)
  /\ UNCHANGED <<journal, created, decided, server, file, page, list, faults>>

(* Every three seconds: loadSource and loadHitlPaused, of which either may *)
(* be answered first.  Bound: one poll is under way.                       *)
Poll ==
  /\ page.up = "up"
  /\ \/ Starts("poll", <<Get("health"), Get("paused")>>)
     \/ Starts("poll", <<Get("paused"), Get("health")>>)
  /\ UNCHANGED <<page, Elsewhere>>

-----------------------------------------------------------------------------
(* A client that lists the runs page by page.                              *)

Before(rows, order, x) == {y \in rows : order[y] < order[x]}

InOrder(rows, order) ==
  [i \in 1 .. Cardinality(rows) |->
     CHOOSE x \in rows : Cardinality(Before(rows, order, x)) = i - 1]

(* `all` are the rows that stayed.  `moot` are times of which nothing is   *)
(* promised: the cursor stood there when another order took over.          *)
StartList ==
  /\ Event
  /\ list = Nil
  /\ list' = [pc |-> "page", cursor |-> Nil, rows |-> <<>>, all |-> SourceRows,
              order |-> Shown.order, moot |-> {}]
  /\ UNCHANGED <<journal, created, decided, server, file, page, flow, faults>>

Listing == list # Nil /\ list.pc = "page"

Moot ==
  IF list.cursor = Nil \/ list.order = Shown.order THEN list.moot
  ELSE list.moot \cup {list.cursor.at}

(* One page: `rest` is what comes from the cursor on.                      *)
Page(rest) ==
  LET more == Len(rest) > PageLimit
      rows == IF more THEN SubSeq(rest, 1, PageLimit) ELSE rest
  IN  list' = [pc |-> IF more THEN "page" ELSE "done",
               cursor |-> IF more THEN rows[PageLimit] ELSE list.cursor,
               rows |-> list.rows \o rows,
               all |-> list.all \cap SourceRows,
               order |-> Shown.order, moot |-> Moot]

(* Mistake: an OFFSET instead of a cursor.                                 *)
ListOffsetPage ==
  /\ Listing
  /\ Page(SubSeq(InOrder(SourceRows, Shown.order), Len(list.rows) + 1, Cardinality(SourceRows)))
  /\ UNCHANGED <<journal, created, decided, server, file, page, flow, events, faults>>

(* listRunMetaPage of the journal, or listMetasPage of an upload, which    *)
(* has to find the cursor's row.                                           *)
ListPage ==
  /\ Listing
  /\ list.cursor # Nil /\ ~server.live => list.cursor \in SourceRows
  /\ Page(InOrder({x \in SourceRows :
                     list.cursor # Nil => Shown.order[x] > Shown.order[list.cursor]},
                  Shown.order))
  /\ UNCHANGED <<journal, created, decided, server, file, page, flow, events, faults>>

CursorNotFound ==
  /\ Listing
  /\ ~server.live /\ list.cursor # Nil /\ list.cursor \notin SourceRows
  /\ list' = [list EXCEPT !.pc = "refused"]
  /\ UNCHANGED <<journal, created, decided, server, file, page, flow, events, faults>>

-----------------------------------------------------------------------------

ServerStep(t) == AnswerRead(t) \/ TakeInput(t) \/ ProvideInput(t) \/ TakeImport(t)

PageStep(t) ==
  \/ HealthCame(t) \/ RunsCame(t) \/ PausedCame(t) \/ TreesCame(t)
  \/ TreeCame(t) \/ ReplayCame(t) \/ StatusCame(t)
  \/ InputCame(t) \/ ImportCame(t) \/ ExportCame(t)
  \/ Booted(t) \/ Reselect(t) \/ Release(t)

FlowStep(t) == ServerStep(t) \/ PageStep(t)

UserStep ==
  \/ \E t \in Slots :
       \/ \E r \in Runs : ClickRun(t, r)
       \/ ClickSubmit(t) \/ ClickExport(t)
  \/ ClickImport \/ StartList
  \/ \E r \in Runs : DecideElsewhere(r)
  \/ \E s, r \in Runs : ForkRun(s, r)

UiNext ==
  \/ \E r \in Runs : Progress(r)
  \/ UserStep \/ Poll
  \/ \E t \in Flows : FlowStep(t) \/ Caught(t) \/ Thrown(t)
  \/ ListPage \/ CursorNotFound

(* Requests are answered and answers delivered, and the timer goes on.     *)
UiFairness ==
  /\ \A t \in Flows : WF_uiVars(FlowStep(t))
  /\ WF_uiVars(Poll)

UiSpec == UiInit /\ [][UiNext]_uiVars /\ UiFairness

-----------------------------------------------------------------------------

Requests ==
  [get : {"health", "runs", "paused", "trees", "booted", "import", "reselect", "release"},
   run : {Nil}]
    \cup [get : {"tree", "replay", "status", "input", "posted", "export"}, run : Runs]

(* An answer is one to the request it answers.                             *)
Fits(op, got) ==
  /\ op.get = "health" => got.live \in BOOLEAN
  /\ op.get = "runs"   => got.runs \in [Runs -> StepCount]
  /\ op.get = "paused" => got.paused \subseteq Runs
  /\ op.get = "tree"   => got.known \in BOOLEAN
  /\ op.get = "status" => got.hitl \in {"none", "paused", "resumed"}
  /\ op.get = "export" => got.file \in File

ServerState == [live : BOOLEAN, base : File, queued : SUBSET Runs]

PageState ==
  [up : {"booting", "up", "dead"}, selected : Runs \cup {Nil}, replay : Runs \cup {Nil},
   path : Runs \cup {Nil}, hitl : {"none", "paused", "resumed"}, enabled : BOOLEAN,
   live : BOOLEAN, paused : SUBSET Runs, runs : [Runs -> StepCount], busy : BOOLEAN]

FlowOK(f) ==
  /\ f = [todo |-> f.todo, got |-> f.got]
  /\ f.todo \in Seq(Requests)
  /\ f.got # Nil => f.todo # <<>> /\ Fits(Head(f.todo), f.got)

UiTypeOK ==
  /\ journal \in [Runs -> StepCount] /\ created \in [Runs -> Times]
  /\ decided \subseteq Runs
  /\ server \in ServerState
  /\ file \in File
  /\ page \in PageState
  /\ DOMAIN flow = Flows
  /\ \A t \in Flows : FlowOK(flow[t])

ReleasesLast(todo) ==
  \A i \in DOMAIN todo : todo[i].get = "release" => i = Len(todo)

(* The form is locked by the one submission that is under way, which will  *)
(* release it when all else is done: no two are ever under way together.   *)
LockIsHeld ==
  /\ page.busy <=> \E t \in Flows : Locks(flow[t].todo)
  /\ \A t, u \in Flows : (Locks(flow[t].todo) /\ Locks(flow[u].todo)) => t = u
  /\ \A t \in Flows : ReleasesLast(flow[t].todo)

(* Rows come by their times, none comes twice, and up to its cursor the    *)
(* list has all that stayed.                                               *)
ListUpTo(x) ==
  /\ x = [pc |-> x.pc, cursor |-> x.cursor, rows |-> x.rows, all |-> x.all,
          order |-> x.order, moot |-> x.moot]
  /\ x.pc \in {"page", "done", "refused"}
  /\ x.rows \in Seq(Row) /\ x.all \subseteq Row /\ x.cursor \in Row \cup {Nil}
  /\ x.order \in Orders /\ x.moot \subseteq Times
  /\ \A i, j \in DOMAIN x.rows : i < j =>
       /\ x.rows[i].at <= x.rows[j].at
       /\ x.rows[i] = x.rows[j] => x.rows[i].at \in x.moot
  /\ x.pc = "page" =>
       /\ \A i \in DOMAIN x.rows :
            /\ x.cursor # Nil /\ x.rows[i].at <= x.cursor.at
            /\ x.rows[i].at \notin x.moot => x.order[x.rows[i]] <= x.order[x.cursor]
       /\ \A r \in x.all :
            (x.cursor # Nil /\ x.order[r] <= x.order[x.cursor] /\ r.at \notin x.moot)
              => \E i \in DOMAIN x.rows : x.rows[i] = r
  /\ x.pc = "done" =>
       \A r \in x.all : r.at \notin x.moot => \E i \in DOMAIN x.rows : x.rows[i] = r

UiIInv ==
  /\ UiTypeOK /\ LockIsHeld
  /\ list = Nil \/ ListUpTo(list)

(* The page is repaired by its polls: whatever answers came late, were     *)
(* lost, or told of another source, once nobody acts any more it says      *)
(* whether it is live, which runs wait for a human, and whether the        *)
(* selected one does, as the server has it.                                *)
PollsRepair ==
  <>[](page.up = "up" =>
         /\ page.live = server.live
         /\ page.paused = PausedIn(Source)
         /\ page.selected # Nil => page.hitl = HitlState(Source[page.selected]))

(* The form is not locked for good: however a submission ends, and         *)
(* whatever is uploaded under it, another one becomes possible.            *)
SubmitsAreReleased == []<>(~page.busy)

(* A client that pages through the runs gets them by their times, each row *)
(* once, and each that was there from the first page to the last, although *)
(* runs are added between the pages, anywhere in the order, forks replace  *)
(* the row of a listed run (which may then come again, at its new time),   *)
(* and the server may change to an upload; else it is refused.  Only rows  *)
(* that share the cursor's time when the source changes may be missed, or  *)
(* come twice, as an upload orders them by its lines.                      *)
ListsAreComplete ==
  list # Nil =>
    /\ \A i, j \in DOMAIN list.rows : i < j =>
         /\ list.rows[i].at <= list.rows[j].at
         /\ list.rows[i] = list.rows[j] => list.rows[i].at \in list.moot
    /\ list.pc = "done" =>
         \A r \in list.all : r.at \notin list.moot => \E i \in DOMAIN list.rows : list.rows[i] = r

(* The replay shown is the selected run's, and the lineage the path to it  *)
(* (app.js 21 and 38, docs/UI.md 47), once every answer has come and none  *)
(* was an error.                                                           *)
ShowsTheSelectedRun ==
  (/\ page.up = "up" /\ page.selected # Nil /\ ~faults
   /\ \A t \in Flows : flow[t] = Idle)
  => page.replay = page.selected /\ page.path = page.selected

=============================================================================
