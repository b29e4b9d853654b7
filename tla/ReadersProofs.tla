---------------------------- MODULE ReadersProofs ----------------------------
(***************************************************************************)
(* Machine-checked proofs about Readers: whatever is written between two   *)
(* reads, a feed tells a run's steps in order and none twice, and a bundle *)
(* that was read run by run holds together.                                *)
(***************************************************************************)
EXTENDS Readers, ForkProofs, FunctionTheorems, SequenceTheorems

-----------------------------------------------------------------------------
(* One session moves.                                                      *)

LEMMA SessionStep ==
  ASSUME ReadersIInv, NEW s \in Sessions, NEW now, Update(s, now),
         SessionHolds(now), now.kind = "feed" => FeedIsTold(now)
  PROVE  ReadersIInv'
<1>1. UNCHANGED forkVars
  BY DEF Update
<1>2. ForkIInv'
  BY <1>1, ForkNextInv DEF ReadersIInv
<1>3. /\ DOMAIN session' = Sessions /\ session'[s] = now
      /\ \A t \in Sessions : t # s => session'[t] = session[t]
  BY DEF Update, ReadersIInv
<1>4. ASSUME NEW x, SessionHolds(x) PROVE SessionHolds(x)'
  BY <1>1, <1>4
     DEF SessionHolds, forkVars, ReadFaithfully, StepsComeInPrefixes, Wrote, trajectory,
         EffectsComeWithSteps, VisitsDescend, Reached, Parent
<1>5. ASSUME NEW x, FeedIsTold(x) PROVE FeedIsTold(x)'
  BY <1>1, <1>5 DEF FeedIsTold, forkVars, trajectory, SeqsOf, stepsOf, LiveSource
<1>6. \A t \in Sessions : SessionHolds(session[t])'
  <2>1. SUFFICES ASSUME NEW t \in Sessions PROVE SessionHolds(session[t])'
    OBVIOUS
  <2>2. PICK x : x = session'[t]
    OBVIOUS
  <2>3. SessionHolds(x)
    BY <1>3, <2>2 DEF ReadersIInv
  <2>4. SessionHolds(x)'
    BY <1>4, <2>3
  <2>5. QED
    BY <2>2, <2>4
<1>7. FeedTellsTheRun'
  <2>1. SUFFICES ASSUME NEW t \in Sessions, session'[t].kind = "feed"
                 PROVE  FeedIsTold(session[t])'
    BY DEF FeedTellsTheRun
  <2>2. PICK x : x = session'[t]
    OBVIOUS
  <2>3. FeedIsTold(x)
    BY <1>3, <2>1, <2>2 DEF ReadersIInv, FeedTellsTheRun
  <2>4. FeedIsTold(x)'
    BY <1>5, <2>3
  <2>5. QED
    BY <2>2, <2>4
<1>8. QED
  BY <1>2, <1>3, <1>6, <1>7 DEF ReadersIInv

-----------------------------------------------------------------------------
(* Others write.                                                           *)

(* What was journaled up to a step stays what was journaled up to it.      *)
LEMMA UpToStands ==
  ASSUME ForkIInv, ForkIInv', Stands, NEW r, NEW n \in Seqs, HasEntry(r, n)
  PROVE  /\ \A e \in trajectory(r)' : e.seq <= n => e \in trajectory(r)
         /\ trajectory(r) \subseteq trajectory(r)'
<1>1. RowsThrough(r, n)' = RowsThrough(r, n)
  BY PrefixStands DEF ForkIInv, Stands
<1>2. QED
  BY <1>1 DEF RowsThrough, trajectory, Stands

LEMMA ForkHasItsPoint ==
  ASSUME ForkIInv, NEW r \in Runs, Parent(r) # Nil
  PROVE  runMeta[r].forkedAt \in Seqs /\ HasEntry(r, runMeta[r].forkedAt)
<1>1. runMeta[r].forkedAt \in Seqs
  BY DEF ForkIInv, LineageHasAPoint
<1>2. runMeta[r].forkedAt \in 1 .. runMeta[r].forkedAt
  BY <1>1 DEF Seqs, MaxSeq
<1>3. QED
  BY <1>1, <1>2 DEF ForkIInv, ForksCopyTheirPrefix, HasEntry, trajectory

(* A line of lineage names the parent the run has in the journal.          *)
LEMMA LineageLines ==
  ASSUME NEW x, ReadFaithfully(x), IsExport(x),
         NEW l \in x.lines, l.record = "run_meta"
  PROVE  /\ l.run \in x.seen /\ l.run \in Runs /\ l.row \in MetaRow /\ l.row # Nil
         /\ l.row.parent # Nil => runMeta[l.run] = l.row /\ Parent(l.run) = l.row.parent
<1>1. l.run \in x.seen /\ l.run \in Runs
  BY DEF ReadFaithfully, IsExport
<1>2. l.row \in MetaRow /\ (l.row.parent # Nil => runMeta[l.run] = l.row)
  BY LineFields DEF ReadFaithfully
<1>3. QED
  BY <1>1, <1>2, NilIsNoRow DEF Parent

LEMMA StepLinesAreRows ==
  ASSUME NEW x, ReadFaithfully(x), NEW l \in x.lines, l.record = "step"
  PROVE  /\ l = StepLine(l.row) /\ l.row \in stepJournal
         /\ l.run = l.row.run /\ l.run \in x.seen
BY LineFields DEF ReadFaithfully

LEMMA EffectLinesAreRows ==
  ASSUME NEW x, ReadFaithfully(x), NEW l \in x.lines, l.record = "effect"
  PROVE  l = EffectLine(l.row) /\ l.row \in effectLog
BY LineFields DEF ReadFaithfully

LEMMA LineKinds ==
  ASSUME NEW x, ReadFaithfully(x), NEW l \in x.lines
  PROVE  l.record \in {"run_meta", "step", "effect"}
BY LineFields DEF ReadFaithfully

LEMMA ExportStands ==
  ASSUME ForkIInv, ForkIInv', Stands, NEW x, IsExport(x),
         ReadFaithfully(x), StepsComeInPrefixes(x), EffectsComeWithSteps(x), VisitsDescend(x)
  PROVE  /\ ReadFaithfully(x)' /\ StepsComeInPrefixes(x)'
         /\ EffectsComeWithSteps(x)' /\ VisitsDescend(x)'
<1>1. x.seen \subseteq Runs /\ x.todo \in Seq(SUBSET Runs)
  BY DEF IsExport
<1>2. \A r \in Runs : Parent(r) # Nil => runMeta'[r] = runMeta[r] /\ Parent(r)' = Parent(r)
  BY DEF Stands, Parent
<1>3. ReadFaithfully(x)'
  <2>1. SUFFICES ASSUME NEW l \in x.lines
                 PROVE  /\ l.run \in x.seen
                        /\ \/ /\ l = MetaLine(l.run, l.row)
                              /\ l.row \in MetaRow
                              /\ l.row.parent # Nil => runMeta'[l.run] = l.row
                           \/ l = StepLine(l.row) /\ l.row \in stepJournal'
                           \/ l = EffectLine(l.row) /\ l.row \in effectLog'
    BY DEF ReadFaithfully
  <2>2. CASE l.record = "run_meta"
    <3>1. l = MetaLine(l.run, l.row)
      BY <2>2, LineFields DEF ReadFaithfully
    <3>2. /\ l.run \in x.seen /\ l.run \in Runs /\ l.row \in MetaRow
          /\ l.row.parent # Nil => runMeta[l.run] = l.row /\ Parent(l.run) = l.row.parent
      BY <2>2, LineageLines
    <3>3. QED
      BY <1>2, <3>1, <3>2
  <2>3. CASE l.record = "step"
    BY <2>3, StepLinesAreRows DEF Stands
  <2>4. CASE l.record = "effect"
    BY <2>4, EffectLinesAreRows DEF Stands, ReadFaithfully
  <2>5. QED
    BY <2>2, <2>3, <2>4, LineKinds
<1>4. StepsComeInPrefixes(x)'
  <2>1. SUFFICES ASSUME NEW l \in x.lines
                 PROVE  /\ l.record = "step" =>
                             \A e \in trajectory(l.run)' : e.seq <= l.row.seq => Wrote(x, e)
                        /\ (l.record = "run_meta" /\ l.row.parent # Nil) =>
                             \/ x.pc = "steps" /\ x.run = l.run
                             \/ \A e \in trajectory(l.run)' :
                                  e.seq <= l.row.forkedAt => Wrote(x, e)
    BY DEF StepsComeInPrefixes, Wrote
  <2>2. CASE l.record = "step"
    <3>1. l.row.seq \in Seqs /\ HasEntry(l.run, l.row.seq)
      BY <2>2, StepLinesAreRows, ForkParts
         DEF HasEntry, WorkflowTypeOK, JournalTypeOK, StepRow
    <3>2. \A e \in trajectory(l.run)' : e.seq <= l.row.seq => e \in trajectory(l.run)
      BY <3>1, UpToStands
    <3>3. QED
      BY <2>2, <3>2 DEF StepsComeInPrefixes
  <2>3. CASE l.record = "run_meta" /\ l.row.parent # Nil
    <3>1. l.run \in Runs /\ Parent(l.run) # Nil /\ runMeta[l.run] = l.row
      BY <2>3, LineageLines
    <3>2. l.row.forkedAt \in Seqs /\ HasEntry(l.run, l.row.forkedAt)
      BY <3>1, ForkHasItsPoint
    <3>3. \A e \in trajectory(l.run)' : e.seq <= l.row.forkedAt => e \in trajectory(l.run)
      BY <3>2, UpToStands
    <3>4. QED
      BY <2>3, <3>3 DEF StepsComeInPrefixes
  <2>4. QED
    BY <2>2, <2>3
<1>5. EffectsComeWithSteps(x)'
  BY DEF EffectsComeWithSteps, Stands
<1>6. VisitsDescend(x)'
  <2>1. \A r \in Runs : Reached(x, r) => Reached(x, r)'
    BY <1>2 DEF Reached
  <2>2. \A i \in DOMAIN x.todo : x.todo[i] \in SUBSET Runs
    BY <1>1
  <2>3. QED
    BY <1>1, <2>1, <2>2 DEF VisitsDescend
<1>7. QED
  BY <1>3, <1>4, <1>5, <1>6

LEMMA FeedStands ==
  ASSUME ForkIInv, ForkIInv', Stands, NEW f, FeedGoesOn(f), FeedIsTold(f)
  PROVE  FeedIsTold(f)'
<1> DEFINE told(step) == \E e \in trajectory(f.run) : e.step = step /\ e.seq <= f.lastSeq
<1>1. f.lastSeq \in {0} \cup SeqsOf(LiveSource, f.run)
  BY DEF FeedIsTold
<1>2. f.lastSeq \in {0} \cup SeqsOf(LiveSource, f.run)'
  BY <1>1 DEF SeqsOf, stepsOf, LiveSource, Stands
<1>3. \A step : told(step)' <=> told(step)
  <2>1. CASE f.lastSeq = 0
    <3>1. \A e \in trajectory(f.run) : ~(e.seq <= 0)
      BY ForkParts DEF trajectory, WorkflowTypeOK, JournalTypeOK, StepRow, Seqs
    <3>2. \A e \in trajectory(f.run)' : ~(e.seq <= 0)
      <4>1. WorkflowTypeOK'
        BY DEF ForkIInv, ForkTypeOK
      <4>2. QED
        BY <4>1 DEF trajectory, WorkflowTypeOK, JournalTypeOK, StepRow, Seqs
    <3>3. QED
      BY <2>1, <3>1, <3>2
  <2>2. CASE f.lastSeq \in SeqsOf(LiveSource, f.run)
    <3>1. f.lastSeq \in Seqs /\ HasEntry(f.run, f.lastSeq)
      BY <2>2, LiveSteps, ForkParts
         DEF SeqsOf, HasEntry, trajectory, WorkflowTypeOK, JournalTypeOK, StepRow
    <3>2. QED
      BY <3>1, UpToStands
  <2>3. QED
    BY <1>1, <2>1, <2>2
<1>4. QED
  BY <1>2, <1>3 DEF FeedIsTold

LEMMA WriteInv ==
  ASSUME ReadersIInv, [ForkNext]_forkVars, UNCHANGED session
  PROVE  ReadersIInv'
<1>1. ForkIInv /\ ForkIInv' /\ Stands
  BY ForkNextInv, JournalStands DEF ReadersIInv
<1>2. \A s \in Sessions : SessionHolds(session[s])'
  <2>1. SUFFICES ASSUME NEW s \in Sessions PROVE SessionHolds(session[s])'
    OBVIOUS
  <2>2. PICK x : x = session[s]
    OBVIOUS
  <2>3. SessionHolds(x)
    BY <2>2 DEF ReadersIInv
  <2>4. SessionHolds(x)'
    BY <1>1, <2>3, ExportStands DEF SessionHolds
  <2>5. QED
    BY <2>2, <2>4
<1>3. FeedTellsTheRun'
  <2>1. SUFFICES ASSUME NEW s \in Sessions, session[s].kind = "feed"
                 PROVE  FeedIsTold(session[s])'
    BY DEF FeedTellsTheRun
  <2>2. PICK x : x = session[s]
    OBVIOUS
  <2>3. FeedGoesOn(x) /\ FeedIsTold(x)
    BY <2>1, <2>2 DEF ReadersIInv, FeedTellsTheRun, SessionHolds, NoSession, IsExport
  <2>4. FeedIsTold(x)'
    BY <1>1, <2>3, FeedStands
  <2>5. QED
    BY <2>2, <2>4
<1>4. QED
  BY <1>1, <1>2, <1>3 DEF ReadersIInv

-----------------------------------------------------------------------------
(* Feeds.                                                                  *)

LEMMA CountSteps ==
  ASSUME WorkflowIInv, NEW r
  PROVE  Cardinality(trajectory(r)) = LastSeq(trajectory(r))
<1>1. PICK n : n = LastSeq(trajectory(r))
  OBVIOUS
<1>2. /\ n \in 0 .. MaxSeq /\ n \in Nat
      /\ {e.seq : e \in trajectory(r)} = 1 .. n
  BY <1>1, StepsAreNumbered, LiveSteps DEF SeqsOf, MaxSeq
<1> DEFINE f == [e \in trajectory(r) |-> e.seq]
<1>3. f \in Bijection(trajectory(r), 1 .. n)
  <2>1. f \in [trajectory(r) -> 1 .. n] /\ \A q \in 1 .. n : \E e \in trajectory(r) : f[e] = q
    BY <1>2
  <2>2. \A d, e \in trajectory(r) : f[d] = f[e] => d = e
    BY DEF WorkflowIInv, OneRowPerStep, trajectory
  <2>3. QED
    BY <2>1, <2>2 DEF Bijection, Injection, Surjection, IsInjective
<1>4. ExistsBijection(1 .. n, trajectory(r))
  <2>1. ExistsBijection(trajectory(r), 1 .. n)
    BY <1>3 DEF ExistsBijection
  <2>2. QED
    BY <2>1, Fun_ExistsBijSymmetric
<1>5. Cardinality(trajectory(r)) = n
  BY <1>2, <1>4, FS_CountingElements
<1>6. QED
  BY <1>1, <1>5

(* The seqs of the rows above one, which the SQL returns in order, are the *)
(* next ones.                                                              *)
LEMMA NextSeqs ==
  ASSUME WorkflowIInv, NEW r, NEW n \in Nat, n <= LastSeq(trajectory(r))
  PROVE  NewSeqs(r, n) = [i \in 1 .. LastSeq(trajectory(r)) - n |-> n + i]
<1>1. PICK last : last = LastSeq(trajectory(r))
  OBVIOUS
<1>2. last \in Nat /\ n <= last /\ SeqsOf(LiveSource, r) = 1 .. last
  BY <1>1, StepsAreNumbered DEF MaxSeq
<1>3. PICK above : above = {q \in SeqsOf(LiveSource, r) : q > n}
  OBVIOUS
<1>4. above = n + 1 .. last
  BY <1>3, <1>2
<1>5. Cardinality(above) = last - n
  <2>1. n + 1 \in Int /\ last \in Int
    BY <1>2
  <2>2. Cardinality(above) = IF n + 1 > last THEN 0 ELSE last - (n + 1) + 1
    BY <1>4, <2>1, FS_Interval
  <2>3. QED
    BY <1>2, <2>2
<1>6. ASSUME NEW i \in 1 .. last - n
      PROVE  (CHOOSE q \in above : Cardinality({p \in above : p < q}) = i - 1) = n + i
  <2>1. ASSUME NEW q \in above PROVE Cardinality({p \in above : p < q}) = q - 1 - n
    <3>1. q \in Nat /\ n + 1 <= q /\ q <= last
      BY <1>2, <1>4
    <3>2. PICK below : below = {p \in above : p < q}
      OBVIOUS
    <3>3. below = n + 1 .. q - 1
      BY <1>2, <1>4, <3>1, <3>2
    <3>4. n + 1 \in Int /\ q - 1 \in Int
      BY <1>2, <3>1
    <3>5. Cardinality(below) = IF n + 1 > q - 1 THEN 0 ELSE q - 1 - (n + 1) + 1
      BY <3>3, <3>4, FS_Interval
    <3>6. Cardinality(below) = q - 1 - n
      BY <1>2, <3>1, <3>5
    <3>7. QED
      BY <3>2, <3>6
  <2>2. n + i \in above /\ \A q \in above : q \in Nat
    BY <1>2, <1>4
  <2>3. \A q \in above : Cardinality({p \in above : p < q}) = i - 1 <=> q = n + i
    BY <1>2, <2>1, <2>2
  <2>4. QED
    BY <2>2, <2>3
<1>7. NewSeqs(r, n) = [i \in 1 .. Cardinality(above) |->
                        CHOOSE q \in above : Cardinality({p \in above : p < q}) = i - 1]
  BY <1>3 DEF NewSeqs
<1>8. QED
  BY <1>1, <1>5, <1>6, <1>7

LEMMA FeedTyped ==
  ASSUME NEW f, FeedGoesOn(f)
  PROVE  /\ f \in Feed /\ f # NoSession /\ f.kind = "feed" /\ f.run \in Runs
         /\ f.lastSeq \in 0 .. MaxSeq /\ f.steps \in 0 .. MaxSeq
         /\ f.sent \in Seq(Seqs)
BY DEF FeedGoesOn, Feed, NoSession

LEMMA HitlStateTyped ==
  ASSUME NEW r PROVE hitlStateFromSource(LiveSource, r) \in HitlStates
BY DEF hitlStateFromSource, HitlStates

LEMMA UpgradeInv ==
  ASSUME ReadersIInv, NEW s \in Sessions, NEW r \in Runs, Upgrade(s, r)
  PROVE  ReadersIInv'
<1>1. PICK now : now = [kind |-> "feed", run |-> r, pc |-> "hello",
                lastHitl |-> hitlStateFromSource(LiveSource, r), lastSeq |-> 0,
                steps |-> 0, sent |-> <<>>]
  OBVIOUS
<1>2. Update(s, now)
  BY <1>1 DEF Upgrade
<1>3. now \in Feed
  BY <1>1, HitlStateTyped DEF Feed, MaxSeq
<1>4. now.sent = [i \in 1 .. now.lastSeq - now.steps |-> now.steps + i]
  BY <1>1
<1>5. FeedGoesOn(now) /\ now.kind = "feed"
  BY <1>1, <1>3, <1>4 DEF FeedGoesOn
<1>6. FeedIsTold(now)
  BY <1>1, <1>4 DEF FeedIsTold
<1>7. QED
  BY <1>2, <1>5, <1>6, SessionStep DEF SessionHolds

(* A feed that moved to where the journal is.                              *)
LEMMA FeedMoves ==
  ASSUME ReadersIInv, NEW s \in Sessions, NEW f, NEW now,
         f = session[s], f.kind = "feed", Update(s, now), FeedGoesOn(now),
         now.run = f.run,
         now.lastSeq = LastSeq(trajectory(f.run)), now.pc # "wait"
  PROVE  ReadersIInv'
<1>1. now.lastSeq \in {0} \cup SeqsOf(LiveSource, now.run)
  BY StepsAreNumbered DEF ReadersIInv, ForkIInv, MaxSeq
<1>2. FeedIsTold(now)
  BY <1>1 DEF FeedIsTold, FeedGoesOn
<1>3. QED
  BY <1>2, SessionStep, FeedTyped DEF SessionHolds

LEMMA HelloInv ==
  ASSUME ReadersIInv, NEW s \in Sessions, Hello(s)
  PROVE  ReadersIInv'
<1>1. PICK f, last : f = session[s] /\ last = LastSeq(trajectory(f.run))
  OBVIOUS
<1>2. WorkflowIInv
  BY DEF ReadersIInv, ForkIInv
<1>3. f.kind = "feed" /\ f.pc = "hello" /\ FeedGoesOn(f)
  BY <1>1 DEF Hello, InFeed, ReadersIInv, SessionHolds, NoSession, IsExport
<1>4. /\ f \in Feed /\ f.lastSeq = 0 /\ f.steps = 0
      /\ f.sent = [i \in 1 .. 0 |-> i]
  BY <1>3 DEF FeedGoesOn
<1>5. last \in 0 .. MaxSeq /\ Cardinality(trajectory(f.run)) = last
  BY <1>1, <1>2, StepsAreNumbered, CountSteps
<1>6. PICK now : now = [f EXCEPT !.pc = "steps", !.lastSeq = last, !.steps = last]
  OBVIOUS
<1>7. Update(s, now)
  BY <1>1, <1>5, <1>6 DEF Hello
<1>8. /\ now \in Feed /\ now.pc = "steps" /\ now.lastSeq = last /\ now.steps = last
      /\ now.sent = f.sent /\ now.run = f.run
  BY <1>4, <1>5, <1>6 DEF Feed
<1>9. now.sent = [i \in 1 .. now.lastSeq - now.steps |-> now.steps + i]
  BY <1>4, <1>5, <1>8 DEF MaxSeq
<1>10. FeedGoesOn(now)
  BY <1>5, <1>8, <1>9 DEF FeedGoesOn, MaxSeq
<1>11. QED
  BY <1>1, <1>3, <1>7, <1>8, <1>10, FeedMoves

LEMMA PushStepsInv ==
  ASSUME ReadersIInv, NEW s \in Sessions, PushSteps(s)
  PROVE  ReadersIInv'
<1>1. PICK f, last, new : /\ f = session[s] /\ last = LastSeq(trajectory(f.run))
                          /\ new = NewSeqs(f.run, f.lastSeq)
  OBVIOUS
<1>2. WorkflowIInv
  BY DEF ReadersIInv, ForkIInv
<1>3. f.kind = "feed" /\ f.pc \in {"steps", "wait"} /\ FeedGoesOn(f) /\ FeedIsTold(f)
  BY <1>1 DEF PushSteps, InFeed, ReadersIInv, FeedTellsTheRun, SessionHolds, NoSession, IsExport
<1>4. /\ f \in Feed /\ f.lastSeq \in Nat /\ f.steps \in Nat /\ f.steps <= f.lastSeq
      /\ f.sent = [i \in 1 .. f.lastSeq - f.steps |-> f.steps + i]
  BY <1>3 DEF FeedGoesOn, Feed
<1>5. last \in 0 .. MaxSeq /\ last \in Nat /\ f.lastSeq <= last
  <2>1. f.lastSeq \in {0} \cup 1 .. last /\ last \in 0 .. MaxSeq
    BY <1>1, <1>2, <1>3, StepsAreNumbered DEF FeedIsTold
  <2>2. QED
    BY <2>1 DEF MaxSeq
<1>6. new = [i \in 1 .. last - f.lastSeq |-> f.lastSeq + i]
  BY <1>1, <1>2, <1>4, <1>5, NextSeqs
<1>7. new \in Seq(Seqs) /\ Len(new) = last - f.lastSeq
  <2> DEFINE n == last - f.lastSeq
  <2>1. n \in Nat
    BY <1>4, <1>5
  <2>2. \A i \in 1 .. n : f.lastSeq + i \in Seqs
    <3>1. f.lastSeq \in Nat
      BY <1>4
    <3>2. QED
      BY <1>5, <3>1 DEF Seqs, MaxSeq
  <2>3. new \in [1 .. n -> Seqs]
    BY <1>6, <2>2
  <2>4. QED
    <3> HIDE DEF n
    <3>1. new \in Seq(Seqs) /\ Len(new) = n
      BY <2>1, <2>3, LenProperties, SeqDef
    <3>2. QED
      BY <3>1 DEF n
<1>8. (IF new = <<>> THEN f.lastSeq ELSE new[Len(new)]) = last
  <2>1. CASE last = f.lastSeq
    <3>1. new = <<>>
      BY <1>4, <1>7, <2>1, EmptySeq
    <3>2. QED
      BY <2>1, <3>1
  <2>2. CASE last # f.lastSeq
    <3>1. new # <<>> /\ last - f.lastSeq \in 1 .. last - f.lastSeq
      BY <1>4, <1>5, <1>7, <2>2
    <3>2. new[Len(new)] = last
      BY <1>4, <1>5, <1>6, <1>7, <3>1
    <3>3. QED
      BY <3>1, <3>2
  <2>3. QED
    BY <2>1, <2>2
<1>9. f.sent \o new = [i \in 1 .. last - f.steps |-> f.steps + i]
  <2>1. f.sent \in Seq(Seqs) /\ Len(f.sent) = f.lastSeq - f.steps
    BY <1>3, <1>4, FeedTyped
  <2>2. PICK k, m : k = f.lastSeq - f.steps /\ m = last - f.lastSeq
    OBVIOUS
  <2>3. /\ k \in Nat /\ m \in Nat /\ k + m = last - f.steps
        /\ Len(f.sent) = k /\ Len(new) = m
    <3>1. f.lastSeq \in Nat /\ f.steps \in Nat /\ f.steps <= f.lastSeq
      BY <1>4
    <3>2. last \in Nat /\ f.lastSeq <= last
      BY <1>5
    <3>3. k \in Nat /\ m \in Nat /\ k + m = last - f.steps
      BY <2>2, <3>1, <3>2
    <3>4. QED
      BY <1>7, <2>1, <2>2, <3>3
  <2>4. PICK all : all = f.sent \o new
    OBVIOUS
  <2>5. /\ all \in Seq(Seqs) /\ Len(all) = k + m
        /\ \A i \in 1 .. k + m : all[i] = IF i <= k THEN f.sent[i] ELSE new[i - k]
    BY <1>7, <2>1, <2>3, <2>4, ConcatProperties
  <2>6. ASSUME NEW i \in 1 .. k + m PROVE all[i] = f.steps + i
    <3>1. CASE i <= k
      <4>1. all[i] = f.sent[i]
        BY <2>5, <3>1
      <4>2. i \in 1 .. f.lastSeq - f.steps
        BY <2>2, <2>3, <3>1
      <4>3. QED
        BY <1>4, <4>1, <4>2
    <3>2. CASE ~(i <= k)
      <4>1. i - k \in 1 .. m
        BY <2>3, <3>2
      <4>2. new[i - k] = f.lastSeq + (i - k)
        BY <1>6, <2>2, <4>1
      <4>3. f.lastSeq + (i - k) = f.steps + i
        <5>1. f.lastSeq \in Nat /\ f.steps \in Nat
          BY <1>4
        <5>2. QED
          BY <2>2, <5>1
      <4>4. QED
        BY <2>5, <3>2, <4>2, <4>3
    <3>3. QED
      BY <3>1, <3>2
  <2>7. all \in [1 .. k + m -> Seqs]
    BY <2>5, LenProperties
  <2>8. all = [i \in 1 .. k + m |-> f.steps + i]
    BY <2>6, <2>7
  <2>9. QED
    BY <2>3, <2>4, <2>8
<1>10. PICK now : now = [f EXCEPT !.pc = "state", !.sent = f.sent \o new, !.lastSeq = last]
  OBVIOUS
<1>11. Update(s, now)
  BY <1>1, <1>8, <1>10 DEF PushSteps
<1>12. f.sent \o new \in Seq(Seqs)
  BY <1>3, <1>7, FeedTyped
<1>13. /\ now \in Feed /\ now.pc = "state" /\ now.lastSeq = last /\ now.steps = f.steps
       /\ now.sent = f.sent \o new /\ now.run = f.run
  BY <1>4, <1>5, <1>10, <1>12 DEF Feed
<1>14. FeedGoesOn(now)
  BY <1>4, <1>5, <1>9, <1>13 DEF FeedGoesOn
<1>15. QED
  BY <1>1, <1>3, <1>11, <1>13, <1>14, FeedMoves

LEMMA PushStateInv ==
  ASSUME ReadersIInv, NEW s \in Sessions, PushState(s)
  PROVE  ReadersIInv'
<1>1. PICK f, hitl : f = session[s] /\ hitl = hitlStateFromSource(LiveSource, f.run)
  OBVIOUS
<1>2. f.kind = "feed" /\ f.pc = "state" /\ FeedGoesOn(f) /\ FeedIsTold(f)
  BY <1>1 DEF PushState, InFeed, ReadersIInv, FeedTellsTheRun, SessionHolds, NoSession, IsExport
<1>3. PICK now : now = [f EXCEPT !.pc = "wait", !.lastHitl = hitl]
  OBVIOUS
<1>4. Update(s, now)
  BY <1>1, <1>3 DEF PushState
<1>5. f \in Feed /\ hitl \in HitlStates
  BY <1>1, <1>2, HitlStateTyped DEF FeedGoesOn
<1>6. /\ now \in Feed /\ now.pc = "wait" /\ now.lastSeq = f.lastSeq /\ now.steps = f.steps
      /\ now.sent = f.sent /\ now.run = f.run /\ now.lastHitl = hitl
  BY <1>3, <1>5 DEF Feed
<1>7. FeedGoesOn(now)
  BY <1>2, <1>6 DEF FeedGoesOn
<1>8. /\ (\E e \in trajectory(f.run) : e.step = "hitl-pause") => hitl # "none"
      /\ ((\E e \in trajectory(f.run) : e.step = "hitl-pause")
           /\ \E e \in trajectory(f.run) : e.step = "hitl-input") => hitl = "resumed"
  BY <1>1, LiveSteps DEF hitlStateFromSource, Shows
<1>9. FeedIsTold(now)
  BY <1>2, <1>6, <1>8 DEF FeedIsTold
<1>10. QED
  BY <1>4, <1>6, <1>7, <1>9, SessionStep, FeedTyped DEF SessionHolds

LEMMA CloseInv ==
  ASSUME ReadersIInv, NEW s \in Sessions, Close(s)
  PROVE  ReadersIInv'
<1>1. PICK f : f = session[s]
  OBVIOUS
<1>2. f.kind = "feed" /\ f.pc = "wait" /\ FeedGoesOn(f) /\ FeedIsTold(f)
  BY <1>1 DEF Close, InFeed, ReadersIInv, FeedTellsTheRun, SessionHolds, NoSession, IsExport
<1>3. PICK now : now = [f EXCEPT !.pc = "closed"]
  OBVIOUS
<1>4. Update(s, now)
  BY <1>1, <1>3 DEF Close
<1>5. f \in Feed
  BY <1>2 DEF FeedGoesOn
<1>6. /\ now \in Feed /\ now.pc = "closed" /\ now.lastSeq = f.lastSeq /\ now.steps = f.steps
      /\ now.sent = f.sent /\ now.run = f.run
  BY <1>3, <1>5 DEF Feed
<1>7. FeedGoesOn(now)
  BY <1>2, <1>6 DEF FeedGoesOn
<1>8. FeedIsTold(now)
  BY <1>2, <1>6 DEF FeedIsTold
<1>9. QED
  BY <1>4, <1>6, <1>7, <1>8, SessionStep, FeedTyped DEF SessionHolds

-----------------------------------------------------------------------------
(* Bundles.                                                                *)

LEMMA ExportTyped ==
  ASSUME ReadersIInv, NEW s \in Sessions, NEW x, x = session[s], x.kind = "export"
  PROVE  /\ IsExport(x) /\ ReadFaithfully(x) /\ StepsComeInPrefixes(x)
         /\ EffectsComeWithSteps(x) /\ VisitsDescend(x)
         /\ x.todo \in Seq(SUBSET Runs) /\ x.seen \subseteq Runs /\ x.run \in Runs
         /\ x.pc \in {"steps", "effects", "children"} => x.run \in x.seen
<1>1. SessionHolds(x)
  BY DEF ReadersIInv
<1>2. x # NoSession /\ x.kind # "feed"
  BY DEF NoSession
<1>3. /\ IsExport(x) /\ ReadFaithfully(x) /\ StepsComeInPrefixes(x)
      /\ EffectsComeWithSteps(x) /\ VisitsDescend(x)
  BY <1>1, <1>2 DEF SessionHolds
<1>4. QED
  BY <1>3 DEF IsExport, VisitsDescend

(* An export that moved.                                                   *)
LEMMA ExportMoves ==
  ASSUME ReadersIInv, NEW s \in Sessions, NEW now, Update(s, now), IsExport(now),
         ReadFaithfully(now), StepsComeInPrefixes(now), EffectsComeWithSteps(now),
         VisitsDescend(now)
  PROVE  ReadersIInv'
BY SessionStep DEF SessionHolds, IsExport

LEMMA StartExportInv ==
  ASSUME ReadersIInv, NEW s \in Sessions, NEW r \in Runs, StartExport(s, r)
  PROVE  ReadersIInv'
<1>1. PICK now : now = [kind |-> "export", root |-> r, pc |-> "visit", run |-> r,
                        todo |-> <<{r}>>, seen |-> {}, lines |-> {}]
  OBVIOUS
<1>2. Update(s, now)
  BY <1>1 DEF StartExport
<1>3. IsExport(now)
  BY <1>1 DEF IsExport
<1>4. ReadFaithfully(now) /\ StepsComeInPrefixes(now) /\ EffectsComeWithSteps(now)
  BY <1>1 DEF ReadFaithfully, StepsComeInPrefixes, EffectsComeWithSteps
<1>5. VisitsDescend(now)
  BY <1>1 DEF VisitsDescend, Reached
<1>6. QED
  BY <1>2, <1>3, <1>4, <1>5, ExportMoves

LEMMA ExportMetaInv ==
  ASSUME ReadersIInv, NEW s \in Sessions, NEW r \in Runs, ExportMeta(s, r)
  PROVE  ReadersIInv'
<1>1. PICK x : x = session[s]
  OBVIOUS
<1>2. x.kind = "export" /\ x.pc = "visit"
  BY <1>1 DEF ExportMeta, InExport
<1>3. /\ IsExport(x) /\ ReadFaithfully(x) /\ StepsComeInPrefixes(x)
      /\ EffectsComeWithSteps(x) /\ VisitsDescend(x)
      /\ x.todo \in Seq(SUBSET Runs) /\ x.seen \subseteq Runs
  BY <1>1, <1>2, ExportTyped
<1>4. PICK i \in DOMAIN x.todo :
        /\ r \in x.todo[i]
        /\ Update(s, [x EXCEPT !.pc = "steps", !.run = r, !.seen = @ \cup {r},
                               !.todo = SubSeq(@, i, Len(@)),
                               !.lines = @ \cup metaLines(LiveSource, r)])
  BY <1>1 DEF ExportMeta, NextLevel
<1>5. PICK todo, lines : /\ todo = SubSeq(x.todo, i, Len(x.todo))
                         /\ lines = metaLines(LiveSource, r)
  OBVIOUS
<1>6. PICK now : now = [x EXCEPT !.pc = "steps", !.run = r, !.seen = x.seen \cup {r},
                                !.todo = todo, !.lines = x.lines \cup lines]
  OBVIOUS
<1>7. Update(s, now)
  BY <1>4, <1>5, <1>6
<1>8. now = [kind |-> "export", root |-> x.root, pc |-> "steps", run |-> r,
             todo |-> todo, seen |-> x.seen \cup {r}, lines |-> x.lines \cup lines]
  BY <1>3, <1>6 DEF IsExport
<1>9. /\ todo \in Seq(SUBSET Runs)
      /\ \A j \in DOMAIN todo : \E k \in DOMAIN x.todo : todo[j] = x.todo[k]
  <2>1. i \in 1 .. Len(x.todo) /\ Len(x.todo) \in Nat
    BY <1>3, <1>4
  <2>2. PICK m : m = Len(x.todo)
    OBVIOUS
  <2>3. \A j \in i .. m : x.todo[j] \in SUBSET Runs
    BY <1>3, <2>1, <2>2
  <2>4. /\ todo \in Seq(SUBSET Runs) /\ Len(todo) = m - i + 1
        /\ \A j \in 1 .. m - i + 1 : todo[j] = x.todo[i + j - 1]
    BY <1>5, <2>1, <2>2, <2>3, SubSeqProperties
  <2>5. ASSUME NEW j \in DOMAIN todo PROVE \E k \in DOMAIN x.todo : todo[j] = x.todo[k]
    <3>1. j \in 1 .. m - i + 1
      BY <2>1, <2>2, <2>4, LenProperties
    <3>2. i + j - 1 \in DOMAIN x.todo
      BY <1>3, <2>1, <2>2, <3>1, LenProperties
    <3>3. QED
      BY <2>4, <3>1, <3>2
  <2>6. QED
    BY <2>4, <2>5
<1>10. /\ \A l \in lines : l.run = r /\ l = MetaLine(l.run, l.row) /\ l.record = "run_meta"
                          /\ l.row = runMeta[r] /\ l.row \in MetaRow
       /\ runMeta[r] # Nil => MetaLine(r, runMeta[r]) \in lines
  <2>1. lines = {MetaLine(q, runMeta[q]) : q \in {r} \cap {y \in Runs : runMeta[y] # Nil}}
    BY <1>5 DEF metaLines, LiveSource, allRunIds
  <2>2. runMeta[r] \in MetaRow \cup {Nil}
    BY ForkParts DEF ReadersIInv, WorkflowTypeOK, JournalTypeOK
  <2>3. QED
    BY <2>1, <2>2, LineFields
<1>11. IsExport(now)
  BY <1>3, <1>8, <1>9 DEF IsExport
<1>12. ReadFaithfully(now)
  BY <1>3, <1>8, <1>10 DEF ReadFaithfully
<1>13. \A e : Wrote(x, e) => Wrote(now, e)
  BY <1>8 DEF Wrote
<1>14. StepsComeInPrefixes(now)
  BY <1>2, <1>3, <1>8, <1>10, <1>13 DEF StepsComeInPrefixes
<1>15. EffectsComeWithSteps(now)
  BY <1>2, <1>3, <1>8, <1>10 DEF EffectsComeWithSteps
<1>16. \A q : Reached(x, q) => Reached(now, q)
  BY <1>8 DEF Reached
<1>17. Reached(x, r)
  BY <1>3, <1>4 DEF VisitsDescend
<1>18. r # x.root => \E l \in now.lines : l.record = "run_meta" /\ l.run = r
  BY <1>8, <1>10, <1>17, LineFields DEF Reached, Parent
<1>19. VisitsDescend(now)
  <2>1. \A j \in DOMAIN todo : \A q \in todo[j] : Reached(now, q)
    BY <1>3, <1>9, <1>16 DEF VisitsDescend
  <2>2. \A q \in x.seen : /\ Reached(now, q)
                          /\ q # x.root => \E l \in now.lines : l.record = "run_meta" /\ l.run = q
    BY <1>3, <1>8, <1>16 DEF VisitsDescend
  <2>3. \A q \in now.seen : q \in x.seen \/ q = r
    BY <1>8
  <2>4. now.todo = todo /\ now.root = x.root /\ now.run = r /\ r \in now.seen
    BY <1>8
  <2>5. Reached(now, r)
    BY <1>16, <1>17
  <2>6. ASSUME NEW q \in now.seen
        PROVE  /\ Reached(now, q)
               /\ q # now.root => \E l \in now.lines : l.record = "run_meta" /\ l.run = q
    <3>1. CASE q \in x.seen
      BY <2>2, <2>4, <3>1
    <3>2. CASE q = r
      BY <1>18, <2>4, <2>5, <3>2
    <3>3. QED
      BY <2>3, <3>1, <3>2
  <2>7. \A j \in DOMAIN now.todo : \A q \in now.todo[j] : Reached(now, q)
    BY <2>1, <2>4
  <2>8. QED
    BY <2>4, <2>6, <2>7 DEF VisitsDescend
<1>20. QED
  BY <1>7, <1>11, <1>12, <1>14, <1>15, <1>19, ExportMoves

(* The lines an export adds, and how far it is then.                       *)
LEMMA LinesAdded ==
  ASSUME NEW s \in Sessions, NEW x, x = session[s], IsExport(x),
         NEW lines, NEW pc, ExportLines(s, lines, pc)
  PROVE  \E now : /\ Update(s, now)
                  /\ now = [kind |-> "export", root |-> x.root, pc |-> pc, run |-> x.run,
                            todo |-> x.todo, seen |-> x.seen, lines |-> x.lines \cup lines]
<1>1. PICK now : now = [x EXCEPT !.pc = pc, !.lines = x.lines \cup lines]
  OBVIOUS
<1>2. Update(s, now)
  BY <1>1 DEF ExportLines
<1>3. now = [kind |-> "export", root |-> x.root, pc |-> pc, run |-> x.run,
             todo |-> x.todo, seen |-> x.seen, lines |-> x.lines \cup lines]
  BY <1>1 DEF IsExport
<1>4. QED
  BY <1>2, <1>3

LEMMA ExportStepsInv ==
  ASSUME ReadersIInv, NEW s \in Sessions, ExportSteps(s)
  PROVE  ReadersIInv'
<1>1. PICK x, lines : x = session[s] /\ lines = stepLines(LiveSource, x.run)
  OBVIOUS
<1>2. x.kind = "export" /\ x.pc = "steps"
  BY <1>1 DEF ExportSteps, InExport
<1>3. /\ IsExport(x) /\ ReadFaithfully(x) /\ StepsComeInPrefixes(x)
      /\ EffectsComeWithSteps(x) /\ VisitsDescend(x)
      /\ x.run \in Runs /\ x.run \in x.seen
  BY <1>1, <1>2, ExportTyped
<1>4. ExportLines(s, lines, "effects")
  BY <1>1 DEF ExportSteps
<1>5. PICK now : /\ Update(s, now)
                 /\ now = [kind |-> "export", root |-> x.root, pc |-> "effects", run |-> x.run,
                           todo |-> x.todo, seen |-> x.seen, lines |-> x.lines \cup lines]
  BY <1>1, <1>3, <1>4, LinesAdded
<1>6. \A l : l \in lines <=> \E e \in trajectory(x.run) : l = StepLine(e)
  BY <1>1, LiveSteps DEF stepLines
<1>7. \A l \in lines : /\ l = StepLine(l.row) /\ l.row \in stepJournal /\ l.record = "step"
                       /\ l.run = x.run
  BY <1>6, LineFields DEF trajectory
<1>8. \A e : Wrote(x, e) \/ e \in trajectory(x.run) => Wrote(now, e)
  BY <1>5, <1>6 DEF Wrote
<1>9. IsExport(now)
  BY <1>3, <1>5 DEF IsExport
<1>10. ReadFaithfully(now)
  BY <1>3, <1>5, <1>7 DEF ReadFaithfully
<1>11. StepsComeInPrefixes(now)
  BY <1>3, <1>5, <1>7, <1>8 DEF StepsComeInPrefixes
<1>12. EffectsComeWithSteps(now)
  BY <1>2, <1>3, <1>5, <1>7 DEF EffectsComeWithSteps
<1>13. VisitsDescend(now)
  BY <1>3, <1>5 DEF VisitsDescend, Reached
<1>14. QED
  BY <1>5, <1>9, <1>10, <1>11, <1>12, <1>13, ExportMoves

(* A tool step a run executed itself has its effect, under its own key.    *)
LEMMA OwnToolStepsFired ==
  ASSUME ForkIInv, NEW e \in stepJournal, e.step \in ToolSteps, e.seededFrom = Nil
  PROVE  \E f \in effectLog : f.run = e.run /\ f.key = e.key
<1>1. PICK f \in effectLog : f.run = e.run
  BY ForkParts DEF WorkflowIInv, OneEffectPerRun, FiredAs
<1>2. PICK k \in 1 .. Len(Steps(e.run)) :
        Steps(e.run)[k] \in ToolSteps /\ f.key = IdemKey(e.run, Steps(e.run)[k])
  BY <1>1, ForkParts DEF WorkflowIInv, EffectRows
<1>3. /\ invocation[e.run] # Nil /\ e.seq <= Len(Steps(e.run))
      /\ e.step = Steps(e.run)[e.seq] /\ e.key = IdemKey(e.run, e.step)
  BY DEF ForkIInv, OwnStepsAreTheWorkflows
<1>4. e.run \in Runs /\ e.seq \in Nat /\ e.seq >= 1
  BY ForkParts DEF WorkflowTypeOK, JournalTypeOK, StepRow, Seqs
<1>5. PICK wf \in Wfs : Steps(e.run) = StepsOf(wf)
  BY <1>3, <1>4, InvocationTyped, ForkParts DEF Steps
<1>6. e.seq \in 1 .. Len(StepsOf(wf))
  BY <1>3, <1>4, <1>5, StepTable
<1>7. k = e.seq
  BY <1>2, <1>3, <1>5, <1>6, StepOrder
<1>8. QED
  BY <1>1, <1>2, <1>3, <1>7

LEMMA ExportEffectsInv ==
  ASSUME ReadersIInv, NEW s \in Sessions, ExportEffects(s)
  PROVE  ReadersIInv'
<1>1. PICK x, lines : x = session[s] /\ lines = effectLines(LiveSource, x.run)
  OBVIOUS
<1>2. x.kind = "export" /\ x.pc = "effects"
  BY <1>1 DEF ExportEffects, InExport
<1>3. /\ IsExport(x) /\ ReadFaithfully(x) /\ StepsComeInPrefixes(x)
      /\ EffectsComeWithSteps(x) /\ VisitsDescend(x)
      /\ x.run \in Runs /\ x.run \in x.seen
  BY <1>1, <1>2, ExportTyped
<1>4. ExportLines(s, lines, "children")
  BY <1>1 DEF ExportEffects
<1>5. PICK now : /\ Update(s, now)
                 /\ now = [kind |-> "export", root |-> x.root, pc |-> "children", run |-> x.run,
                           todo |-> x.todo, seen |-> x.seen, lines |-> x.lines \cup lines]
  BY <1>1, <1>3, <1>4, LinesAdded
<1>6. \A l : l \in lines <=> \E f \in effectLog : f.run = x.run /\ l = EffectLine(f)
  BY <1>1, LiveSteps DEF effectLines
<1>7. \A l \in lines : /\ l = EffectLine(l.row) /\ l.row \in effectLog /\ l.record = "effect"
                       /\ l.run = x.run
  BY <1>6, LineFields
<1>8. \A e : Wrote(x, e) => Wrote(now, e)
  BY <1>5 DEF Wrote
<1>9. IsExport(now)
  BY <1>3, <1>5 DEF IsExport
<1>10. ReadFaithfully(now)
  BY <1>3, <1>5, <1>7 DEF ReadFaithfully
<1>11. StepsComeInPrefixes(now)
  BY <1>2, <1>3, <1>5, <1>7, <1>8 DEF StepsComeInPrefixes
<1>12. EffectsComeWithSteps(now)
  <2>1. SUFFICES ASSUME NEW l \in now.lines, l.record = "step", l.row.step \in ToolSteps,
                        l.row.seededFrom = Nil
                 PROVE  \E f \in effectLog : /\ EffectLine(f) \in now.lines
                                             /\ f.run = l.run /\ f.key = l.row.key
    BY DEF EffectsComeWithSteps
  <2>2. l \in x.lines
    BY <1>5, <1>7, <2>1
  <2>3. CASE x.run = l.run
    <3>1. l.row \in stepJournal /\ l.run = l.row.run
      BY <1>3, <2>1, <2>2, StepLinesAreRows
    <3>2. PICK f \in effectLog : f.run = l.row.run /\ f.key = l.row.key
      BY <2>1, <3>1, OwnToolStepsFired DEF ReadersIInv
    <3>3. EffectLine(f) \in now.lines
      BY <1>5, <1>6, <2>3, <3>1, <3>2
    <3>4. QED
      BY <3>1, <3>2, <3>3
  <2>4. CASE x.run # l.run
    BY <1>3, <1>5, <2>1, <2>2, <2>4 DEF EffectsComeWithSteps
  <2>5. QED
    BY <2>3, <2>4
<1>13. VisitsDescend(now)
  BY <1>3, <1>5 DEF VisitsDescend, Reached
<1>14. QED
  BY <1>5, <1>9, <1>10, <1>11, <1>12, <1>13, ExportMoves

LEMMA ExportChildrenInv ==
  ASSUME ReadersIInv, NEW s \in Sessions, ExportChildren(s)
  PROVE  ReadersIInv'
<1>1. PICK x, children, todo : /\ x = session[s]
                               /\ children = childRuns(LiveSource, x.run)
                               /\ todo = <<children>> \o x.todo
  OBVIOUS
<1>2. x.kind = "export" /\ x.pc = "children"
  BY <1>1 DEF ExportChildren, InExport
<1>3. /\ IsExport(x) /\ ReadFaithfully(x) /\ StepsComeInPrefixes(x)
      /\ EffectsComeWithSteps(x) /\ VisitsDescend(x)
      /\ x.run \in Runs /\ x.run \in x.seen /\ x.todo \in Seq(SUBSET Runs)
  BY <1>1, <1>2, ExportTyped
<1>4. PICK pc : pc = IF NextLevel(todo, x.seen) = {} THEN "done" ELSE "visit"
  OBVIOUS
<1>5. PICK now : now = [x EXCEPT !.todo = todo, !.pc = pc]
  OBVIOUS
<1>6. Update(s, now)
  BY <1>1, <1>4, <1>5 DEF ExportChildren
<1>7. now = [kind |-> "export", root |-> x.root, pc |-> pc, run |-> x.run,
             todo |-> todo, seen |-> x.seen, lines |-> x.lines]
  BY <1>3, <1>5 DEF IsExport
<1>8. children \in SUBSET Runs /\ \A r \in children : Parent(r) = x.run
  BY <1>1 DEF childRuns, allRunIds, LiveSource, Parent
<1>9. /\ todo \in Seq(SUBSET Runs)
      /\ \A i \in DOMAIN todo : todo[i] = children \/ \E k \in DOMAIN x.todo : todo[i] = x.todo[k]
  <2>1. <<children>> \in Seq(SUBSET Runs) /\ Len(<<children>>) = 1
    BY <1>8
  <2>2. PICK m : m = Len(x.todo)
    OBVIOUS
  <2>3. m \in Nat /\ DOMAIN x.todo = 1 .. m
    BY <1>3, <2>2, LenProperties
  <2>4. /\ todo \in Seq(SUBSET Runs) /\ Len(todo) = 1 + m
        /\ \A i \in 1 .. 1 + m : todo[i] = IF i <= 1 THEN <<children>>[i] ELSE x.todo[i - 1]
    BY <1>1, <1>3, <2>1, <2>2, ConcatProperties
  <2>5. DOMAIN todo = 1 .. 1 + m
    BY <2>4, LenProperties
  <2>6. ASSUME NEW i \in 1 .. 1 + m
        PROVE  todo[i] = children \/ \E k \in DOMAIN x.todo : todo[i] = x.todo[k]
    <3>1. CASE i <= 1
      <4>1. i = 1 /\ todo[i] = <<children>>[1]
        BY <2>3, <2>4, <3>1
      <4>2. QED
        BY <4>1
    <3>2. CASE ~(i <= 1)
      <4>1. todo[i] = x.todo[i - 1] /\ i - 1 \in DOMAIN x.todo
        BY <2>3, <2>4, <3>2
      <4>2. QED
        BY <4>1
    <3>3. QED
      BY <3>1, <3>2
  <2>7. QED
    BY <2>4, <2>5, <2>6
<1>10. IsExport(now)
  BY <1>3, <1>4, <1>7, <1>9 DEF IsExport
<1>11. ReadFaithfully(now)
  BY <1>3, <1>7 DEF ReadFaithfully
<1>12. \A e : Wrote(x, e) => Wrote(now, e)
  BY <1>7 DEF Wrote
<1>13. StepsComeInPrefixes(now)
  BY <1>2, <1>3, <1>7, <1>12 DEF StepsComeInPrefixes
<1>14. EffectsComeWithSteps(now)
  BY <1>2, <1>3, <1>7 DEF EffectsComeWithSteps
<1>15. \A q : Reached(x, q) => Reached(now, q)
  BY <1>7 DEF Reached
<1>16. \A r \in children : Reached(now, r)
  BY <1>3, <1>7, <1>8, NilAssumption DEF Reached
<1>17. VisitsDescend(now)
  BY <1>3, <1>7, <1>9, <1>15, <1>16 DEF VisitsDescend
<1>18. QED
  BY <1>6, <1>10, <1>11, <1>13, <1>14, <1>17, ExportMoves

-----------------------------------------------------------------------------
(* Every step.                                                             *)

LEMMA ReadersInitInv == ReadersInit => ReadersIInv
<1> SUFFICES ASSUME ReadersInit PROVE ReadersIInv
  OBVIOUS
<1>1. ForkIInv
  BY ForkInitInv DEF ReadersInit
<1>2. \A s \in Sessions : session[s] = NoSession
  BY DEF ReadersInit
<1>3. \A s \in Sessions : session[s].kind # "feed"
  BY <1>2 DEF NoSession
<1>4. QED
  BY <1>1, <1>2, <1>3 DEF ReadersInit, ReadersIInv, SessionHolds, FeedTellsTheRun

LEMMA ReadersNextInv == ReadersIInv /\ [ReadersNext]_readersVars => ReadersIInv'
<1> SUFFICES ASSUME ReadersIInv, [ReadersNext]_readersVars PROVE ReadersIInv'
  OBVIOUS
<1>1. CASE Write
  BY <1>1, WriteInv DEF Write
<1>2. ASSUME NEW s \in Sessions, FeedStep(s) \/ Close(s) PROVE ReadersIInv'
  BY <1>2, HelloInv, PushStepsInv, PushStateInv, CloseInv DEF FeedStep
<1>3. ASSUME NEW s \in Sessions, ExportStep(s) PROVE ReadersIInv'
  BY <1>3, ExportMetaInv, ExportStepsInv, ExportEffectsInv, ExportChildrenInv DEF ExportStep
<1>4. ASSUME NEW s \in Sessions, NEW r \in Runs, Upgrade(s, r) \/ StartExport(s, r)
      PROVE  ReadersIInv'
  BY <1>4, UpgradeInv, StartExportInv
<1>5. CASE UNCHANGED readersVars
  BY <1>5, WriteInv DEF readersVars, forkVars
<1>6. QED
  BY <1>1, <1>2, <1>3, <1>4, <1>5 DEF ReadersNext, Read

(* Whoever reads, the inductive invariant of forks and sessions holds.     *)
THEOREM ReadersInvariant == ReadersSpec => []ReadersIInv
<1>1. QED
  BY ReadersInitInv, ReadersNextInv, PTL DEF ReadersSpec

(* A feed tells each step once and in order, and a state not older than    *)
(* its steps (handleRunsWebSocketUpgrade, pushNewSteps).                   *)
THEOREM FeedsTell == ReadersSpec => []FeedTellsTheRun
<1>1. ReadersIInv => FeedTellsTheRun
  BY DEF ReadersIInv
<1>2. QED
  BY <1>1, ReadersInvariant, PTL

-----------------------------------------------------------------------------
(* What an import makes of a bundle that was read run by run.              *)

LEMMA ImportedBundle ==
  ASSUME NEW x, IsExport(x), ReadFaithfully(x),
         NEW got, got = importJournalSource(x.lines)
  PROVE  /\ got.steps \subseteq stepJournal /\ \A e \in got.steps : Wrote(x, e)
         /\ \A e \in stepJournal : Wrote(x, e) => e \in got.steps
         /\ \A f \in effectLog : EffectLine(f) \in x.lines => f \in got.effects
         /\ \A r \in Runs : (\E l \in x.lines : l.record = "run_meta" /\ l.run = r) =>
              got.meta[r] # Nil
         /\ \A r \in Runs : (got.meta[r] # Nil /\ got.meta[r].parent # Nil) =>
              \E l \in x.lines : l.record = "run_meta" /\ l.run = r /\ l.row = got.meta[r]
<1>1. PICK metas : metas = {l \in x.lines : l.record = "run_meta"}
  OBVIOUS
<1>2. PICK steps : steps = {l.row : l \in {y \in x.lines : y.record \in {"step", "none"}}}
  OBVIOUS
<1>3. PICK effects : effects = {l.row : l \in {y \in x.lines : y.record = "effect"}}
  OBVIOUS
<1>4. got = [meta |-> [r \in Runs |-> IF \E l \in metas : l.run = r
                                     THEN (CHOOSE l \in metas : l.run = r).row
                                     ELSE IF \E e \in steps : e.run = r THEN RootMeta ELSE Nil],
             steps |-> steps, effects |-> effects]
  BY <1>1, <1>2, <1>3 DEF importJournalSource, parseExport
<1>5. steps \subseteq stepJournal /\ \A e \in steps : Wrote(x, e)
  <2>1. SUFFICES ASSUME NEW l \in x.lines, l.record \in {"step", "none"}
                 PROVE  l.row \in stepJournal /\ Wrote(x, l.row)
    BY <1>2
  <2>2. l.record = "step"
    BY <2>1, LineKinds
  <2>3. QED
    BY <2>2, StepLinesAreRows DEF Wrote
<1>6. \A e : Wrote(x, e) => e \in steps
  BY <1>2, LineFields DEF Wrote
<1>7. \A f : EffectLine(f) \in x.lines => f \in effects
  BY <1>3, LineFields
<1>8. ASSUME NEW r \in Runs, \E l \in x.lines : l.record = "run_meta" /\ l.run = r
      PROVE  \E l \in metas : l.run = r /\ got.meta[r] = l.row
  <2>1. \E l \in metas : l.run = r
    BY <1>1, <1>8
  <2>2. PICK l : l = CHOOSE y \in metas : y.run = r
    OBVIOUS
  <2>3. l \in metas /\ l.run = r
    BY <2>1, <2>2
  <2>4. got.meta[r] = l.row
    BY <1>4, <2>1, <2>2
  <2>5. QED
    BY <2>3, <2>4
<1>9. \A r \in Runs : (\E l \in x.lines : l.record = "run_meta" /\ l.run = r) =>
        got.meta[r] # Nil
  BY <1>1, <1>8, LineageLines
<1>10. ASSUME NEW r \in Runs, got.meta[r] # Nil, got.meta[r].parent # Nil
       PROVE  \E l \in x.lines : l.record = "run_meta" /\ l.run = r /\ l.row = got.meta[r]
  <2>1. \E l \in metas : l.run = r
    BY <1>4, <1>10 DEF RootMeta
  <2>2. QED
    BY <1>1, <1>8, <2>1
<1>11. QED
  BY <1>4, <1>5, <1>6, <1>7, <1>9, <1>10

(* What an imported bundle tells of a run.                                 *)
Tells(got, root, r) ==
  /\ SeqsOf(got, r) = 1 .. LastSeq(stepsOf(got, r))
  /\ stepsOf(got, r) \subseteq stepJournal
  /\ \A e \in stepsOf(got, r) :
       (e.step \in ToolSteps /\ e.seededFrom = Nil) =>
         \E f \in effectsOf(got, r) : f.key = e.key
  /\ got.meta[r].parent # Nil =>
       /\ seededSeqs(got, r) = 1 .. got.meta[r].forkedAt
       /\ r # root => got.meta[r].parent \in allRunIds(got) \cup {root}
       /\ \A n \in seededSeqs(got, r) \cap SeqsOf(got, got.meta[r].parent) :
            OutputAt(got, r, n) = OutputAt(got, got.meta[r].parent, n)

LEMMA BundleHolds ==
  ASSUME ForkIInv, NEW x, IsExport(x), ReadFaithfully(x), StepsComeInPrefixes(x),
         EffectsComeWithSteps(x), VisitsDescend(x), x.pc = "done",
         NEW got, got = importJournalSource(x.lines), NEW r \in allRunIds(got)
  PROVE  Tells(got, x.root, r)
<1> DEFINE T(q) == stepsOf(got, q)
           p == got.meta[r].parent
<1>1. WorkflowIInv /\ WorkflowTypeOK /\ RowsInv
  BY ForkParts
<1>2. r \in Runs /\ got.meta[r] # Nil
  BY DEF allRunIds
<1>3. /\ got.steps \subseteq stepJournal /\ \A e \in got.steps : Wrote(x, e)
      /\ \A e \in stepJournal : Wrote(x, e) => e \in got.steps
      /\ \A f \in effectLog : EffectLine(f) \in x.lines => f \in got.effects
  BY ImportedBundle
<1>4. \A q \in Runs : (\E l \in x.lines : l.record = "run_meta" /\ l.run = q) =>
        q \in allRunIds(got)
  BY ImportedBundle DEF allRunIds
<1>5. \A q : /\ T(q) \subseteq trajectory(q)
             /\ \A e \in trajectory(q) : Wrote(x, e) => e \in T(q)
  BY <1>3 DEF stepsOf, trajectory
<1>6. \A e \in T(r) : e.run = r /\ e.seq \in Seqs /\ StepLine(e) \in x.lines
  BY <1>1, <1>3 DEF stepsOf, WorkflowTypeOK, JournalTypeOK, StepRow, Wrote
<1>7. \A e \in T(r) : \A d \in trajectory(r) : d.seq <= e.seq => d \in T(r)
  <2>1. SUFFICES ASSUME NEW e \in T(r), NEW d \in trajectory(r), d.seq <= e.seq
                 PROVE  d \in T(r)
    OBVIOUS
  <2>2. /\ StepLine(e) \in x.lines /\ StepLine(e).record = "step"
        /\ StepLine(e).run = r /\ StepLine(e).row = e
    BY <1>6, LineFields
  <2>3. Wrote(x, d)
    BY <2>1, <2>2 DEF StepsComeInPrefixes
  <2>4. QED
    BY <1>5, <2>3
<1>8. SeqsOf(got, r) = 1 .. LastSeq(T(r))
  <2> DEFINE S == {e.seq : e \in T(r)}
  <2>1. CASE T(r) = {}
    BY <2>1 DEF SeqsOf, LastSeq
  <2>2. CASE T(r) # {}
    <3>1. S \in SUBSET Seqs /\ S # {}
      BY <1>6, <2>2
    <3>2. PICK m \in S : \A n \in S : n <= m
      BY <3>1, LargestSeq
    <3>3. \E e \in T(r) : \A d \in T(r) : d.seq <= e.seq
      BY <3>2
    <3>4. PICK e \in T(r) : /\ \A d \in T(r) : d.seq <= e.seq
                            /\ LastSeq(T(r)) = e.seq
      BY <2>2, <3>3 DEF LastSeq
    <3>5. e.seq \in Seqs /\ HasEntry(r, e.seq)
      BY <1>5, <1>6 DEF HasEntry, trajectory
    <3>6. \A n \in S : n \in 1 .. e.seq
      BY <1>6, <3>4 DEF Seqs, MaxSeq
    <3>7. ASSUME NEW n \in 1 .. e.seq PROVE n \in S
      <4>1. HasEntry(r, n)
        BY <1>1, <3>5, PrefixFull
      <4>2. PICK d \in trajectory(r) : d.seq = n
        BY <4>1 DEF HasEntry, trajectory
      <4>3. d.seq <= e.seq
        BY <3>5, <4>2 DEF Seqs, MaxSeq
      <4>4. QED
        BY <1>7, <4>2, <4>3
    <3>8. S = 1 .. e.seq
      BY <3>6, <3>7
    <3>9. QED
      BY <3>4, <3>8 DEF SeqsOf
  <2>3. QED
    BY <2>1, <2>2
<1>9. ASSUME NEW e \in T(r), e.step \in ToolSteps, e.seededFrom = Nil
      PROVE  \E f \in effectsOf(got, r) : f.key = e.key
  <2>1. /\ StepLine(e) \in x.lines /\ StepLine(e).record = "step"
        /\ StepLine(e).run = r /\ StepLine(e).row = e
    BY <1>6, LineFields
  <2>2. PICK f \in effectLog : EffectLine(f) \in x.lines /\ f.run = r /\ f.key = e.key
    BY <1>9, <2>1 DEF EffectsComeWithSteps
  <2>3. QED
    BY <1>3, <2>2 DEF effectsOf
<1>10. ASSUME p # Nil
       PROVE  /\ runMeta[r] = got.meta[r] /\ Parent(r) = p /\ p \in Runs
              /\ r \in x.seen
              /\ got.meta[r].forkedAt \in Seqs
              /\ \A e \in trajectory(r) : e.seq <= got.meta[r].forkedAt => e \in T(r)
  <2>1. PICK l \in x.lines : l.record = "run_meta" /\ l.run = r /\ l.row = got.meta[r]
    BY <1>2, <1>10, ImportedBundle
  <2>2. l.row.parent # Nil
    BY <1>10, <2>1
  <2>3. /\ runMeta[r] = got.meta[r] /\ Parent(r) = p /\ r \in x.seen
        /\ got.meta[r] \in MetaRow
    BY <2>1, <2>2, LineageLines
  <2>4. p \in Runs
    BY <1>10, <2>3 DEF MetaRow
  <2>5. got.meta[r].forkedAt \in Seqs
    BY <1>2, <1>10, <2>3, ForkHasItsPoint
  <2>6. \A e \in trajectory(r) : e.seq <= got.meta[r].forkedAt => Wrote(x, e)
    BY <2>1, <2>2 DEF StepsComeInPrefixes
  <2>7. QED
    BY <1>5, <2>3, <2>4, <2>5, <2>6
<1>11. ASSUME p # Nil PROVE seededSeqs(got, r) = 1 .. got.meta[r].forkedAt
  <2>1. PICK n : n = got.meta[r].forkedAt
    OBVIOUS
  <2>2. n \in Seqs /\ n = runMeta[r].forkedAt /\ Parent(r) # Nil
    BY <1>10, <1>11, <2>1
  <2>3. \A e \in T(r) : e.seededFrom # Nil <=> e.seq <= n
    BY <1>1, <1>2, <1>5, <2>2 DEF RowsInv, ForksCopyTheirPrefix
  <2>4. \A q \in 1 .. n : \E e \in T(r) : e.seq = q
    <3>1. SUFFICES ASSUME NEW q \in 1 .. n PROVE \E e \in T(r) : e.seq = q
      OBVIOUS
    <3>2. PICK e \in trajectory(r) : e.seq = q
      BY <1>1, <1>2, <2>2, <3>1 DEF RowsInv, ForksCopyTheirPrefix
    <3>3. e \in T(r)
      BY <1>10, <1>11, <2>1, <2>2, <3>2 DEF Seqs, MaxSeq
    <3>4. QED
      BY <3>2, <3>3
  <2>5. seededSeqs(got, r) = {e.seq : e \in {y \in T(r) : y.seq <= n}}
    BY <2>3 DEF seededSeqs
  <2>6. {e.seq : e \in {y \in T(r) : y.seq <= n}} = 1 .. n
    BY <1>6, <2>2, <2>4 DEF Seqs, MaxSeq
  <2>7. QED
    BY <2>1, <2>5, <2>6
<1>12. ASSUME p # Nil, r # x.root PROVE p \in allRunIds(got) \cup {x.root}
  <2>1. Reached(x, r)
    BY <1>10, <1>12 DEF VisitsDescend
  <2>2. p \in x.seen /\ p \in Runs
    BY <1>10, <1>12, <2>1 DEF Reached
  <2>3. QED
    BY <1>4, <2>2 DEF VisitsDescend
<1>13. ASSUME p # Nil, NEW n \in seededSeqs(got, r) \cap SeqsOf(got, p)
       PROVE  OutputAt(got, r, n) = OutputAt(got, p, n)
  <2>1. n \in 1 .. runMeta[r].forkedAt
    BY <1>10, <1>11, <1>13
  <2>2. PICK e \in trajectory(r), d \in trajectory(p) : e.seq = n /\ e = SeededRow(d, r, p)
    BY <1>1, <1>2, <1>10, <1>13, <2>1 DEF RowsInv, ForksCopyTheirPrefix
  <2>3. d.seq = n /\ e.output = d.output
    BY <1>1, <2>2 DEF SeededRow, trajectory, WorkflowTypeOK, JournalTypeOK, StepRow
  <2>4. \A q, y, z : (y \in trajectory(q) /\ z \in T(q) /\ y.seq = z.seq) => y = z
    BY <1>1, <1>5 DEF WorkflowIInv, OneRowPerStep, trajectory
  <2>5. PICK a \in T(r) : a.seq = n
    BY <1>13 DEF seededSeqs
  <2>6. PICK b \in T(p) : b.seq = n
    BY <1>13 DEF SeqsOf
  <2>7. e \in T(r) /\ d \in T(p)
    BY <2>2, <2>3, <2>4, <2>5, <2>6
  <2>8. OutputAt(got, r, n) = e.output
    BY <2>2, <2>4, <2>7 DEF OutputAt
  <2>9. OutputAt(got, p, n) = d.output
    BY <2>2, <2>3, <2>4, <2>7 DEF OutputAt
  <2>10. QED
    BY <2>3, <2>8, <2>9
<1>14. T(r) \subseteq stepJournal
  BY <1>3 DEF stepsOf
<1>15. QED
  BY <1>8, <1>9, <1>11, <1>12, <1>13, <1>14 DEF Tells

(* A bundle written while runs go on and are forked can be replayed        *)
(* (exportBundleJsonl, exportJsonl, importJournalSource).                  *)
THEOREM BundlesHold == ReadersSpec => []BundlesHoldTogether
<1>1. ReadersIInv => BundlesHoldTogether
  <2>1. SUFFICES ASSUME ReadersIInv, NEW s \in Sessions, InExport(s, "done"),
                        NEW r \in allRunIds(importJournalSource(session[s].lines))
                 PROVE  Tells(importJournalSource(session[s].lines), session[s].root, r)
    BY DEF BundlesHoldTogether, Tells
  <2>2. PICK x : x = session[s]
    OBVIOUS
  <2>3. x.kind = "export" /\ x.pc = "done"
    BY <2>1, <2>2 DEF InExport
  <2>4. /\ IsExport(x) /\ ReadFaithfully(x) /\ StepsComeInPrefixes(x)
        /\ EffectsComeWithSteps(x) /\ VisitsDescend(x)
    BY <2>1, <2>2, <2>3, ExportTyped
  <2>5. ForkIInv
    BY <2>1 DEF ReadersIInv
  <2>6. QED
    BY <2>1, <2>2, <2>3, <2>4, <2>5, BundleHolds
<1>2. QED
  BY <1>1, ReadersInvariant, PTL

=============================================================================
