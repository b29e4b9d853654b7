------------------------------- MODULE Source -------------------------------
(***************************************************************************)
(* What the read side sees of a journal (src/journal-source.ts): the live  *)
(* tables, or what an import makes of a portable export                    *)
(* (src/export-source.ts and the exports of src/journal.ts).  A source is  *)
(* the rows it shows; the order of a run's steps is that of their seq.     *)
(*                                                                         *)
(* An export is the set of its lines.  That is enough while no line occurs *)
(* twice, which the seen set of the bundle sees to.                        *)
(***************************************************************************)
EXTENDS Journal, FiniteSets

(* A data directory holds finitely many runs.                              *)
ASSUME FiniteRuns == IsFiniteSet(Runs)

(* liveJournalSource.                                                      *)
LiveSource == [meta |-> runMeta, steps |-> stepJournal, effects |-> effectLog]

stepsOf(src, r)   == {e \in src.steps : e.run = r}
effectsOf(src, r) == {f \in src.effects : f.run = r}
allRunIds(src)    == {r \in Runs : src.meta[r] # Nil}

childRuns(src, p) == {r \in allRunIds(src) : src.meta[r].parent = p}

(* The runs without a parent.                                              *)
rootRuns(src) == {r \in allRunIds(src) : src.meta[r].parent = Nil}

Shows(src, r, step) == \E e \in stepsOf(src, r) : e.step = step

(* hitlStateFromSource: from the journaled steps and nothing else.         *)
hitlStateFromSource(src, r) ==
  IF ~Shows(src, r, "hitl-pause") THEN "none"
  ELSE IF Shows(src, r, "hitl-input") THEN "resumed"
  ELSE "paused"

pausedRuns(src) == {r \in allRunIds(src) : hitlStateFromSource(src, r) = "paused"}

-----------------------------------------------------------------------------
(* Exports.                                                                *)

MetaLine(r, m)  == [record |-> "run_meta", run |-> r, row |-> m]
StepLine(e)     == [record |-> "step", run |-> e.run, row |-> e]
BareLine(e)     == [record |-> "none", run |-> e.run, row |-> e]
EffectLine(f)   == [record |-> "effect", run |-> f.run, row |-> f]

metaLines(src, r)   == {MetaLine(r, src.meta[x]) : x \in {r} \cap allRunIds(src)}
stepLines(src, r)   == {StepLine(e) : e \in stepsOf(src, r)}
effectLines(src, r) == {EffectLine(f) : f \in effectsOf(src, r)}

(* The shape of M1: steps without a tag, and nothing else.                 *)
exportBare(src, r) == {BareLine(e) : e \in stepsOf(src, r)}

exportJsonl(src, r) ==
  metaLines(src, r) \cup stepLines(src, r) \cup effectLines(src, r)

(* A run and its descendants, each once: what `visit` reaches.             *)
Family(src, root) ==
  LET within[n \in 0 .. Cardinality(Runs)] ==
        IF n = 0 THEN {root}
        ELSE within[n - 1] \cup UNION {childRuns(src, p) : p \in within[n - 1]}
  IN  within[Cardinality(Runs)]

(* Mistake: the forks of the run, and not the forks of its forks.          *)
exportBundleShallow(src, root) ==
  UNION {exportJsonl(src, r) : r \in {root} \cup childRuns(src, root)}

exportBundle(src, root) == UNION {exportJsonl(src, r) : r \in Family(src, root)}

-----------------------------------------------------------------------------
(* Imports.                                                                *)

parseExport(lines) ==
  [steps   |-> {l.row : l \in {x \in lines : x.record \in {"step", "none"}}},
   metas   |-> {l \in lines : l.record = "run_meta"},
   effects |-> {l.row : l \in {x \in lines : x.record = "effect"}}]

(* A run that has steps and no run_meta line counts as a root.             *)
RootMeta == [parent |-> Nil, forkedAt |-> Nil, trajectory |-> "main"]

importJournalSource(lines) ==
  LET parsed == parseExport(lines)
  IN  [meta |-> [r \in Runs |->
                   IF \E l \in parsed.metas : l.run = r
                   THEN (CHOOSE l \in parsed.metas : l.run = r).row
                   ELSE IF \E e \in parsed.steps : e.run = r THEN RootMeta ELSE Nil],
       steps |-> parsed.steps,
       effects |-> parsed.effects]

=============================================================================
