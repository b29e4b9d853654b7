------------------------------- MODULE Replay -------------------------------
(***************************************************************************)
(* Replay and inspection of journaled runs over any source                 *)
(* (src/replay.ts, src/inspect.ts, src/inspect-source.ts): pure reads.     *)
(*                                                                         *)
(* Elapsed times and origins are left out; lists ordered by seq or id are  *)
(* sets here.                                                              *)
(***************************************************************************)
EXTENDS Source, Sequences

EffectStep(f) == f.key[2]

effectsAtStep(effects, step) == {f \in effects : EffectStep(f) = step}

divergencePoints(src, r) ==
  {[seq |-> src.meta[c].forkedAt, fork |-> c] :
     c \in {x \in childRuns(src, r) : src.meta[x].forkedAt # Nil}}

LastSeq(steps) ==
  IF steps = {} THEN 0
  ELSE (CHOOSE e \in steps : \A d \in steps : d.seq <= e.seq).seq

ReplayedStep(e, effects) ==
  [seq |-> e.seq, step |-> e.step, output |-> e.output, key |-> e.key,
   seeded |-> e.seededFrom # Nil, effects |-> effectsAtStep(effects, e.step)]

reconstruct(src, r) ==
  LET rows == stepsOf(src, r)
      fired == effectsOf(src, r)
  IN  [trajectory |-> IF src.meta[r] = Nil THEN "main" ELSE src.meta[r].trajectory,
       steps |-> {ReplayedStep(e, fired) : e \in rows},
       outcome |-> {e.output : e \in {x \in rows : x.seq = LastSeq(rows)}},
       effects |-> fired,
       divergence |-> divergencePoints(src, r)]

(* Time travel: steps and effects as of step n, for n in range.            *)
TravelRange(src, r) == 1 .. LastSeq(stepsOf(src, r))

StepsUpTo(src, r, n) == {e \in stepsOf(src, r) : e.seq <= n}

stateAt(src, r, n) ==
  [steps |-> {ReplayedStep(e, effectsOf(src, r)) : e \in StepsUpTo(src, r, n)},
   current |-> {e.output : e \in {x \in StepsUpTo(src, r, n) : x.seq = n}},
   effects |-> {f \in effectsOf(src, r) :
                  EffectStep(f) \in {e.step : e \in StepsUpTo(src, r, n)}},
   diverged |-> {d \in divergencePoints(src, r) : d.seq <= n}]

(* assertReplayMatches: steps by seq, name, output and key, effects by key *)
(* and payload.                                                            *)
Matches(a, b) ==
  /\ {<<s.seq, s.step, s.output, s.key>> : s \in a.steps} =
     {<<s.seq, s.step, s.output, s.key>> : s \in b.steps}
  /\ {<<f.key, f.payload>> : f \in a.effects} =
     {<<f.key, f.payload>> : f \in b.effects}

-----------------------------------------------------------------------------
(* Lineage, fork trees, diffs.                                             *)

Hop(src, chain) ==
  LET p == src.meta[Head(chain)].parent
  IN  IF \/ p = Nil
         \/ src.meta[p] = Nil
         \/ \E i \in DOMAIN chain : chain[i] = p
      THEN chain ELSE <<p>> \o chain

(* Root first.  A parent that the source does not know, or that the chain  *)
(* has met, ends the walk.                                                 *)
lineage(src, r) ==
  LET up[n \in 0 .. Cardinality(Runs)] ==
        IF n = 0 THEN <<r>> ELSE Hop(src, up[n - 1])
  IN  IF src.meta[r] = Nil THEN <<>> ELSE up[Cardinality(Runs)]

TreeNode(src, r) ==
  [run |-> r, meta |-> src.meta[r], children |-> childRuns(src, r)]

(* The node of every run under root.                                       *)
forkTree(src, root) == {TreeNode(src, r) : r \in Family(src, root)}

SeqsOf(src, r) == {e.seq : e \in stepsOf(src, r)}

OutputAt(src, r, n) == (CHOOSE e \in stepsOf(src, r) : e.seq = n).output

StepDiff(src, a, b, n) ==
  IF n \notin SeqsOf(src, b) THEN "only_a"
  ELSE IF n \notin SeqsOf(src, a) THEN "only_b"
  ELSE IF OutputAt(src, a, n) = OutputAt(src, b, n) THEN "same" ELSE "changed"

Divergent(src, a, b) ==
  {n \in SeqsOf(src, a) \cup SeqsOf(src, b) : StepDiff(src, a, b, n) # "same"}

(* firstDivergenceSeq of diffTrajectories.                                 *)
firstDivergenceSeq(src, a, b) ==
  IF Divergent(src, a, b) = {} THEN Nil
  ELSE CHOOSE n \in Divergent(src, a, b) : \A m \in Divergent(src, a, b) : n <= m

seededSeqs(src, r) == {e.seq : e \in {x \in stepsOf(src, r) : x.seededFrom # Nil}}

-----------------------------------------------------------------------------
(* What replays show is what happened.                                     *)

(* An export taken at any moment and imported elsewhere replays like the   *)
(* journal it was taken from: every run of the bundle, its effects, its    *)
(* pause, and the fork tree (src/replay.ts compareSources, the M3 gate).   *)
(* A bare export, which has steps only, replays its run's steps and pause. *)
ExportsReplayTheSame ==
  \A root \in Runs :
    LET imported == importJournalSource(exportBundle(LiveSource, root))
    IN  \A r \in Family(LiveSource, root) :
          /\ Matches(reconstruct(LiveSource, r), reconstruct(imported, r))
          /\ hitlStateFromSource(imported, r) = hitlStateFromSource(LiveSource, r)
          /\ forkTree(imported, r) = forkTree(LiveSource, r)
          /\ LET bare == importJournalSource(exportBare(LiveSource, r))
             IN  /\ Matches([reconstruct(LiveSource, r) EXCEPT !.effects = {}],
                            reconstruct(bare, r))
                 /\ hitlStateFromSource(bare, r) = hitlStateFromSource(LiveSource, r)

(* The smallest fork point on the way from the i-th run of a chain down.   *)
SharedThrough(chain, i) ==
  CHOOSE n \in {runMeta[chain[j]].forkedAt : j \in (i + 1) .. Len(chain)} :
    \A j \in (i + 1) .. Len(chain) : n <= runMeta[chain[j]].forkedAt

(* The lineage of a run ends at a root and passes no run twice, and a diff *)
(* with an ancestor shows no divergence up to the smallest fork point in   *)
(* between, nor anything seeded after it, however the forks raced.         *)
LineagesExplainDiffs ==
  \A r \in allRunIds(LiveSource) :
    LET chain == lineage(LiveSource, r)
    IN  /\ runMeta[chain[1]].parent = Nil
        /\ seededSeqs(LiveSource, r) =
             IF runMeta[r].parent = Nil THEN {} ELSE 1 .. runMeta[r].forkedAt
        /\ \A i \in 1 .. Len(chain) - 1 :
             LET first == firstDivergenceSeq(LiveSource, chain[i], r)
             IN  first = Nil \/ first > SharedThrough(chain, i)

(* What time travel shows of a step is settled: nothing that happens later *)
(* changes the steps, the output or the effects as of that step; the fork  *)
(* points shown with it only grow.                                         *)
PastStands ==
  \A r \in Runs : \A n \in TravelRange(LiveSource, r) :
    \A then \in {stateAt(LiveSource, r, n)}, now \in {stateAt(LiveSource, r, n)'} :
      /\ then.current # {}
      /\ [now EXCEPT !.diverged = {}] = [then EXCEPT !.diverged = {}]
      /\ then.diverged \subseteq now.diverged

HistoryStands == [][PastStands]_tableVars

=============================================================================
