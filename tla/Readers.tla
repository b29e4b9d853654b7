------------------------------ MODULE Readers ------------------------------
(***************************************************************************)
(* Clients that read the live journal while runs execute and are forked:   *)
(* the WebSocket feed of one run (src/ws-runs.ts) and the export of a run  *)
(* with its forks (src/export-source.ts, src/journal.ts).                  *)
(*                                                                         *)
(* Each of them reads by several statements, each over a connection of its *)
(* own, so other processes write between any two of them.  A reader's own  *)
(* process does nothing else meanwhile: its handlers have no await.        *)
(***************************************************************************)
EXTENDS Fork, Replay

CONSTANT
  Sessions      \* requests to read

VARIABLE
  session       \* session -> how far it is and what the client got

readersVars == <<stepJournal, runMeta, effectLog, effectSeq, invocation, engine,
                 promise, owner, result, at, faults, fork, session>>

NoSession == [kind |-> "none"]

HitlStates == {"none", "paused", "resumed"}

Feed == [kind : {"feed"}, run : Runs, pc : {"hello", "steps", "state", "wait", "closed"},
         lastHitl : HitlStates, lastSeq : 0 .. MaxSeq,
         steps : 0 .. MaxSeq, sent : Seq(Seqs)]

(* `lines` is a set of lines; what these are see ReadFaithfully.           *)
IsExport(x) ==
  /\ x.kind = "export"
  /\ x.pc \in {"visit", "steps", "effects", "children", "done"}
  /\ x.root \in Runs /\ x.run \in Runs
  /\ x.seen \subseteq Runs
  /\ x.todo \in Seq(SUBSET Runs)
  /\ x = [kind |-> "export", root |-> x.root, pc |-> x.pc, run |-> x.run,
          todo |-> x.todo, seen |-> x.seen, lines |-> x.lines]

ReadersInit ==
  /\ ForkInit
  /\ session = [s \in Sessions |-> NoSession]

-----------------------------------------------------------------------------
Write == ForkNext /\ UNCHANGED session

Update(s, now) == session' = [session EXCEPT ![s] = now] /\ UNCHANGED forkVars

-----------------------------------------------------------------------------
(* The feed: handleRunsWebSocketUpgrade reads the state, then the steps    *)
(* for its hello; pushNewSteps reads the steps, then the state, at once    *)
(* and at every tick of the timer.                                         *)

Upgrade(s, r) ==
  /\ session[s] = NoSession
  /\ Update(s, [kind |-> "feed", run |-> r, pc |-> "hello",
                lastHitl |-> hitlStateFromSource(LiveSource, r), lastSeq |-> 0,
                steps |-> 0, sent |-> <<>>])

InFeed(s, pcs) == session[s].kind = "feed" /\ session[s].pc \in pcs

Hello(s) ==
  /\ InFeed(s, {"hello"})
  /\ LET rows == trajectory(session[s].run)
     IN  Update(s, [session[s] EXCEPT !.pc = "steps", !.lastSeq = LastSeq(rows),
                                      !.steps = Cardinality(rows)])

(* The seqs above n that the run has, in order.                            *)
NewSeqs(r, n) ==
  LET above == {q \in SeqsOf(LiveSource, r) : q > n}
  IN  [i \in 1 .. Cardinality(above) |->
         CHOOSE q \in above : Cardinality({p \in above : p < q}) = i - 1]

(* Mistake: a tick sends the newest step only.                             *)
PushLatest(s) ==
  /\ InFeed(s, {"steps", "wait"})
  /\ LET last == LastSeq(trajectory(session[s].run))
     IN  Update(s, [session[s] EXCEPT !.pc = "state", !.lastSeq = last,
                      !.sent = IF last > session[s].lastSeq THEN Append(@, last) ELSE @])

(* Mistake: the steps are read once, and the timer looks at the state only. *)
PushOnce(s) ==
  /\ InFeed(s, {"steps"})
  /\ LET new == NewSeqs(session[s].run, session[s].lastSeq)
     IN  Update(s, [session[s] EXCEPT
                      !.pc = "state", !.sent = @ \o new,
                      !.lastSeq = IF new = <<>> THEN @ ELSE new[Len(new)]])

PushSteps(s) ==
  /\ InFeed(s, {"steps", "wait"})
  /\ LET new == NewSeqs(session[s].run, session[s].lastSeq)
     IN  Update(s, [session[s] EXCEPT
                      !.pc = "state", !.sent = @ \o new,
                      !.lastSeq = IF new = <<>> THEN @ ELSE new[Len(new)]])

PushState(s) ==
  /\ InFeed(s, {"state"})
  /\ Update(s, [session[s] EXCEPT !.pc = "wait",
                  !.lastHitl = hitlStateFromSource(LiveSource, session[s].run)])

(* The socket closes: the timer is cleared.                                *)
Close(s) ==
  /\ InFeed(s, {"wait"})
  /\ Update(s, [session[s] EXCEPT !.pc = "closed"])

-----------------------------------------------------------------------------
(* The bundle: `visit` of exportBundleJsonl, depth first.  `todo` holds    *)
(* the runs the loops under way go over, the innermost loop first.         *)

(* Where the visit goes on: a loop that has runs not seen yet, when all    *)
(* within it are through.                                                  *)
NextLevel(todo, seen) ==
  {i \in DOMAIN todo : /\ todo[i] \ seen # {}
                       /\ \A j \in 1 .. i - 1 : todo[j] \subseteq seen}

StartExport(s, r) ==
  /\ session[s] = NoSession
  /\ Update(s, [kind |-> "export", root |-> r, pc |-> "visit", run |-> r,
                todo |-> <<{r}>>, seen |-> {}, lines |-> {}])

InExport(s, pc) == session[s].kind = "export" /\ session[s].pc = pc

ExportLines(s, lines, pc) ==
  Update(s, [session[s] EXCEPT !.pc = pc, !.lines = @ \cup lines])

ExportMeta(s, r) ==
  /\ InExport(s, "visit")
  /\ \E i \in NextLevel(session[s].todo, session[s].seen) :
       /\ r \in session[s].todo[i] \ session[s].seen
       /\ Update(s, [session[s] EXCEPT
                       !.pc = "steps", !.run = r, !.seen = @ \cup {r},
                       !.todo = SubSeq(@, i, Len(@)),
                       !.lines = @ \cup metaLines(LiveSource, r)])

(* Mistake: a run of the bundle goes without its effects.                  *)
ExportNoEffects(s) ==
  /\ InExport(s, "effects")
  /\ ExportLines(s, {l \in effectLines(LiveSource, session[s].run) :
                       session[s].run = session[s].root}, "children")

ExportSteps(s) ==
  /\ InExport(s, "steps")
  /\ ExportLines(s, stepLines(LiveSource, session[s].run), "effects")

ExportEffects(s) ==
  /\ InExport(s, "effects")
  /\ ExportLines(s, effectLines(LiveSource, session[s].run), "children")

ExportChildren(s) ==
  /\ InExport(s, "children")
  /\ LET todo == <<childRuns(LiveSource, session[s].run)>> \o session[s].todo
     IN  Update(s, [session[s] EXCEPT !.todo = todo,
                      !.pc = IF NextLevel(todo, session[s].seen) = {}
                             THEN "done" ELSE "visit"])

-----------------------------------------------------------------------------

FeedStep(s) == Hello(s) \/ PushSteps(s) \/ PushState(s)

ExportStep(s) ==
  \/ \E r \in Runs : ExportMeta(s, r)
  \/ ExportSteps(s) \/ ExportEffects(s) \/ ExportChildren(s)

Read(s) ==
  \/ \E r \in Runs : Upgrade(s, r) \/ StartExport(s, r)
  \/ FeedStep(s) \/ Close(s) \/ ExportStep(s)

ReadersNext == Write \/ \E s \in Sessions : Read(s)

(* As for forks, and an open feed goes on ticking.                         *)
ReadersSpec ==
  /\ ReadersInit
  /\ [][ReadersNext]_readersVars
  /\ ForkFairness
  /\ \A s \in Sessions : WF_readersVars(FeedStep(s))

-----------------------------------------------------------------------------
(* What readers get.                                                       *)

(* Whoever watches a run is told each of its steps once and in order from  *)
(* where the hello left off, whatever is seeded or appended between two    *)
(* reads; and after a tick the state told is not older than the steps.     *)
FeedIsTold(f) ==
  LET told(step) == \E e \in trajectory(f.run) : e.step = step /\ e.seq <= f.lastSeq
  IN  /\ f.sent = [i \in 1 .. f.lastSeq - f.steps |-> f.steps + i] \/ f.pc = "hello"
      /\ f.lastSeq \in {0} \cup SeqsOf(LiveSource, f.run)
      /\ (f.pc = "wait" /\ told("hitl-pause")) =>
           IF told("hitl-input") THEN f.lastHitl = "resumed" ELSE f.lastHitl # "none"

FeedTellsTheRun ==
  \A s \in Sessions : session[s].kind = "feed" => FeedIsTold(session[s])

(* An open feed is told every step that gets journaled: again and again it *)
(* has sent all there is.                                                  *)
FeedsCatchUp ==
  \A s \in Sessions :
    []<>(InFeed(s, {"steps", "state", "wait"}) =>
           session[s].lastSeq = LastSeq(trajectory(session[s].run)))

(* A bundle written while runs and forks go on can be replayed: each run   *)
(* is a prefix of what the journal has, a tool step it executed comes with *)
(* its effect, a fork comes with the steps it copied and with its parent,  *)
(* and where both have a step the copy is the parent's.                    *)
BundlesHoldTogether ==
  \A s \in Sessions : InExport(s, "done") =>
    LET got == importJournalSource(session[s].lines)
    IN  \A r \in allRunIds(got) :
          /\ SeqsOf(got, r) = 1 .. LastSeq(stepsOf(got, r))
          /\ stepsOf(got, r) \subseteq stepJournal
          /\ \A e \in stepsOf(got, r) :
               (e.step \in ToolSteps /\ e.seededFrom = Nil) =>
                 \E f \in effectsOf(got, r) : f.key = e.key
          /\ LET p == got.meta[r].parent
             IN  p # Nil =>
                   /\ seededSeqs(got, r) = 1 .. got.meta[r].forkedAt
                   /\ r # session[s].root =>
                        p \in allRunIds(got) \cup {session[s].root}
                   /\ \A n \in seededSeqs(got, r) \cap SeqsOf(got, p) :
                        OutputAt(got, r, n) = OutputAt(got, p, n)

-----------------------------------------------------------------------------
(* Why readers get that.                                                   *)

(* Lines stay true: the rows of a line, the lineage of a fork included,    *)
(* are rows of the journal still.                                          *)
ReadFaithfully(x) ==
  \A l \in x.lines :
    /\ l.run \in x.seen
    /\ \/ /\ l = MetaLine(l.run, l.row)
          /\ l.row \in MetaRow
          /\ l.row.parent # Nil => runMeta[l.run] = l.row
       \/ l = StepLine(l.row) /\ l.row \in stepJournal
       \/ l = EffectLine(l.row) /\ l.row \in effectLog

Wrote(x, e) == StepLine(e) \in x.lines

(* With a step come the steps before it, and with a fork's lineage, which  *)
(* is read first, the steps it copied.                                     *)
StepsComeInPrefixes(x) ==
  \A l \in x.lines :
    /\ l.record = "step" =>
         \A e \in trajectory(l.run) : e.seq <= l.row.seq => Wrote(x, e)
    /\ (l.record = "run_meta" /\ l.row.parent # Nil) =>
         \/ x.pc = "steps" /\ x.run = l.run
         \/ \A e \in trajectory(l.run) : e.seq <= l.row.forkedAt => Wrote(x, e)

(* Effects are read after the steps that fired them.                       *)
EffectsComeWithSteps(x) ==
  \A l \in x.lines :
    (l.record = "step" /\ l.row.step \in ToolSteps /\ l.row.seededFrom = Nil) =>
      \/ x.pc = "effects" /\ x.run = l.run
      \/ \E f \in effectLog : /\ EffectLine(f) \in x.lines
                               /\ f.run = l.run /\ f.key = l.row.key

Reached(x, r) == r = x.root \/ (Parent(r) # Nil /\ Parent(r) \in x.seen)

(* What is visited is the root or a fork of what was visited before, and a *)
(* fork's lineage is in the bundle.                                        *)
VisitsDescend(x) ==
  /\ \A i \in DOMAIN x.todo : \A r \in x.todo[i] : Reached(x, r)
  /\ \A r \in x.seen :
       /\ Reached(x, r)
       /\ r # x.root => \E l \in x.lines : l.record = "run_meta" /\ l.run = r
  /\ x.pc \in {"steps", "effects", "children"} => x.run \in x.seen

(* A feed sends what comes after its hello.                                *)
FeedGoesOn(f) ==
  /\ f \in Feed
  /\ f.pc = "hello" => f.lastSeq = 0 /\ f.steps = 0
  /\ f.steps <= f.lastSeq
  /\ f.sent = [i \in 1 .. f.lastSeq - f.steps |-> f.steps + i]

SessionHolds(x) ==
  \/ x = NoSession
  \/ x.kind = "feed" /\ FeedGoesOn(x)
  \/ /\ IsExport(x)
     /\ ReadFaithfully(x)
     /\ StepsComeInPrefixes(x) /\ EffectsComeWithSteps(x)
     /\ VisitsDescend(x)

ReadersIInv ==
  /\ ForkIInv
  /\ DOMAIN session = Sessions
  /\ \A s \in Sessions : SessionHolds(session[s])
  /\ FeedTellsTheRun

=============================================================================
