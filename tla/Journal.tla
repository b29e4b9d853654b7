------------------------------- MODULE Journal -------------------------------
(***************************************************************************)
(* The portable step journal (src/journal.ts) and the effect sink          *)
(* (src/effect-sink.ts): two SQLite databases shared by every process.     *)
(* This module holds the tables and the statements run against them; the   *)
(* modules that extend it (Workflow, Fork) put the statements together the *)
(* way the handlers do.  Every statement here is one SQLite autocommit     *)
(* statement or one explicit transaction, hence one atomic change.         *)
(*                                                                         *)
(* Timestamps, schema numbers and the side_effect flag are left out; an    *)
(* output is kept as the pieces the properties tell apart (see Output).    *)
(***************************************************************************)
EXTENDS Naturals

CONSTANTS
  Runs,         \* run ids
  Completions,  \* what a model provider can answer
  Decisions,    \* what a human can decide
  Prompts,      \* workflow inputs: a prompt together with its trajectory label
  Nil           \* SQL NULL, "no such row", "no value yet"

ASSUME NilAssumption ==
  /\ Nil \notin Runs
  /\ Nil \notin Prompts
  /\ Nil \notin Completions \cup Decisions \cup Nat

VARIABLES
  stepJournal,  \* table step_journal: a set of rows
  runMeta,      \* table run_meta: Nil where a run has no row
  effectLog,    \* table effect_log of the other database: a set of rows
  effectSeq     \* its AUTOINCREMENT counter

journalVars == <<stepJournal, runMeta>>
effectVars  == <<effectLog, effectSeq>>
tableVars   == <<stepJournal, runMeta, effectLog, effectSeq>>

-----------------------------------------------------------------------------
(* The rows.                                                               *)

MaxSeq == 5
Seqs   == 1 .. MaxSeq

StepNames == {"step1-plan", "step2-tool_call", "step3-summarize",
              "hitl-pause", "hitl-input", "step4-tool_call", "step5-summarize"}

(* deriveIdempotencyKey: `${runId}:${stepName}`.  No step name contains a  *)
(* colon, so the string determines the pair.                               *)
IdemKey(run, step) == <<run, step>>

IdemKeys == Runs \X StepNames

(* What one step adds of its own: a completion, a human decision, an       *)
(* effect id, the prompt; Nil for a step that only folds earlier outputs.  *)
Ext == Completions \cup Decisions \cup Prompts \cup Nat \cup {Nil}

(* The earlier outputs a string is built from, each by its step number and *)
(* what that output contributed.                                           *)
Folds == SUBSET [seq : Seqs, ext : Ext]

Output == [folds : Folds, ext : Ext]

StepRow == [run : Runs, seq : Seqs, step : StepNames, key : IdemKeys,
            output : Output, seededFrom : Runs \cup {Nil}]

MetaRow == [parent : Runs \cup {Nil}, forkedAt : Seqs \cup {Nil},
            trajectory : Prompts]

(* NULL is not a row.                                                      *)
ASSUME NilIsNoRow == Nil \notin MetaRow

EffectRow == [id : Nat \ {0}, run : Runs, key : IdemKeys, payload : Folds]

JournalTypeOK ==
  /\ stepJournal \subseteq StepRow
  /\ runMeta \in [Runs -> MetaRow \cup {Nil}]
  /\ effectLog \subseteq EffectRow
  /\ effectSeq \in Nat

JournalInit ==
  /\ stepJournal = {}
  /\ runMeta = [r \in Runs |-> Nil]
  /\ effectLog = {}
  /\ effectSeq = 0

-----------------------------------------------------------------------------
(* Reads.                                                                  *)

trajectory(run) == {e \in stepJournal : e.run = run}

HasEntry(run, seq) == \E e \in stepJournal : e.run = run /\ e.seq = seq

getEntry(run, seq) == CHOOSE e \in stepJournal : e.run = run /\ e.seq = seq

(* Mistake: the fork point itself is left out (seq < throughSeq).          *)
RowsBelow(run, throughSeq) == {e \in trajectory(run) : e.seq < throughSeq}

(* The rows forkRun copies: seq <= throughSeq.                             *)
RowsThrough(run, throughSeq) == {e \in trajectory(run) : e.seq <= throughSeq}

effectsFor(run) == {f \in effectLog : f.run = run}

-----------------------------------------------------------------------------
(* Writes of recordStep.                                                   *)

NativeRow(run, seq, step, output) ==
  [run |-> run, seq |-> seq, step |-> step, key |-> IdemKey(run, step),
   output |-> output, seededFrom |-> Nil]

(* PRIMARY KEY (run_id, seq) or UNIQUE (run_id, idem_key) already taken.   *)
Conflicts(row) ==
  \E e \in stepJournal : e.run = row.run /\ (e.seq = row.seq \/ e.key = row.key)

(* Mistake: INSERT OR IGNORE; the loser of a race keeps its own output.    *)
InsertStepOrIgnore(row) ==
  stepJournal' = IF Conflicts(row) THEN stepJournal ELSE stepJournal \cup {row}

(* Mistake: INSERT OR REPLACE; the last writer wins.                       *)
InsertStepOrReplace(row) ==
  stepJournal' = {e \in stepJournal : ~(e.run = row.run /\ e.seq = row.seq)}
                   \cup {row}

(* The plain INSERT at the end of recordStep: it succeeds only when the    *)
(* row is new; otherwise the statement throws (see Workflow!LoseInsert).   *)
InsertStep(row) ==
  /\ ~Conflicts(row)
  /\ stepJournal' = stepJournal \cup {row}

(* Mistake: a plain INSERT, which no second attempt gets past.             *)
ensureRunMetaOrFail(run, label) ==
  /\ runMeta[run] = Nil
  /\ runMeta' = [runMeta EXCEPT ![run] = [parent |-> Nil, forkedAt |-> Nil,
                                          trajectory |-> label]]

(* INSERT OR IGNORE into run_meta.                                         *)
ensureRunMeta(run, label) ==
  runMeta' = IF runMeta[run] = Nil
             THEN [runMeta EXCEPT ![run] = [parent |-> Nil, forkedAt |-> Nil,
                                            trajectory |-> label]]
             ELSE runMeta

-----------------------------------------------------------------------------
(* fireEffect: INSERT OR IGNORE against the unique idem_key, then SELECT   *)
(* the id under that key.  The row is never deleted, so the second         *)
(* statement reads what the first one left: `id` is that read.             *)

Fired(key) == \E f \in effectLog : f.key = key

(* Mistake: no unique key; every call fires.                               *)
fireEffectEveryTime(run, key, payload, id) ==
  /\ id = effectSeq + 1
  /\ effectSeq' = id
  /\ effectLog' = effectLog \cup
       {[id |-> id, run |-> run, key |-> key, payload |-> payload]}

(* Mistake: a plain INSERT, which a second call cannot get past.           *)
fireEffectOrFail(run, key, payload, id) ==
  ~Fired(key) /\ fireEffectEveryTime(run, key, payload, id)

fireEffect(run, key, payload, id) ==
  \/ /\ Fired(key)
     /\ \E f \in effectLog : f.key = key /\ id = f.id
     /\ UNCHANGED effectVars
  \/ /\ ~Fired(key)
     /\ id = effectSeq + 1
     /\ effectSeq' = id
     /\ effectLog' = effectLog \cup
          {[id |-> id, run |-> run, key |-> key, payload |-> payload]}

-----------------------------------------------------------------------------
(* The transaction of forkRun over the rows its SELECT returned: replace   *)
(* the target's run_meta row, insert every copied row, commit; the first   *)
(* insert that conflicts rolls all of it back and rethrows.                *)

SeededRow(e, newRun, source) == [e EXCEPT !.run = newRun, !.seededFrom = source]

SeedConflicts(rows, newRun, source) ==
  \E e \in rows : Conflicts(SeededRow(e, newRun, source))

ForkMeta(source, throughSeq, label) ==
  [parent |-> source, forkedAt |-> throughSeq, trajectory |-> label]

(* Mistake: INSERT OR IGNORE for the copied rows.                          *)
forkRunOrIgnore(rows, newRun, source, throughSeq, label) ==
  /\ stepJournal' = stepJournal \cup
       {x \in {SeededRow(e, newRun, source) : e \in rows} : ~Conflicts(x)}
  /\ runMeta' = [runMeta EXCEPT ![newRun] = ForkMeta(source, throughSeq, label)]

(* Mistake: INSERT OR REPLACE for the copied rows, as for run_meta.        *)
forkRunOrReplace(rows, newRun, source, throughSeq, label) ==
  /\ stepJournal' =
       {e \in stepJournal : ~\E d \in rows : e.run = newRun /\ e.seq = d.seq}
         \cup {SeededRow(e, newRun, source) : e \in rows}
  /\ runMeta' = [runMeta EXCEPT ![newRun] = ForkMeta(source, throughSeq, label)]

(* Mistake: two of the positional parameters of the run_meta row swapped.  *)
forkRunSwapped(rows, newRun, source, throughSeq, label) ==
  /\ ~SeedConflicts(rows, newRun, source)
  /\ stepJournal' = stepJournal \cup {SeededRow(e, newRun, source) : e \in rows}
  /\ runMeta' = [runMeta EXCEPT ![newRun] = ForkMeta(source, label, throughSeq)]

forkRun(rows, newRun, source, throughSeq, label) ==
  /\ ~SeedConflicts(rows, newRun, source)
  /\ stepJournal' = stepJournal \cup {SeededRow(e, newRun, source) : e \in rows}
  /\ runMeta' = [runMeta EXCEPT ![newRun] = ForkMeta(source, throughSeq, label)]

=============================================================================
