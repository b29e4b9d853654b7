----------------------------- MODULE DurableRuns -----------------------------
(***************************************************************************)
(* What durabl promises about its runs, with no processes, crashes, engine *)
(* or databases.  Every run has one log of step outputs.  An output is     *)
(* written once, in order, from outputs already in the log; a tool step    *)
(* acts on the world at most once per run, before its output is logged and *)
(* from logged outputs; a fork starts a fresh log as a copy of a prefix of *)
(* another; the caller of a run gets its log and nothing else.             *)
(***************************************************************************)
EXTENDS Naturals

CONSTANTS Runs, Nil, ToolSteps

VARIABLES
  log,      \* set of [run, seq, step, output]
  acts,     \* set of [run, id, payload]: what reached the outside world
  outcome   \* run -> Nil, or the sequence of outputs its caller received

vars == <<log, acts, outcome>>

Logged(r, s) == \E x \in log : x.run = r /\ x.seq = s

(* Every value folded in is what the named entry of the run's own log      *)
(* contributed.                                                            *)
AllHeld(r, folds) ==
  \A v \in folds :
    \E x \in log : x.run = r /\ x.seq = v.seq /\ x.output.ext = v.ext

Init ==
  /\ log = {}
  /\ acts = {}
  /\ outcome = [r \in Runs |-> Nil]

(* A tool output names the act it stands for.                              *)
Record(x) ==
  /\ ~Logged(x.run, x.seq)
  /\ \A j \in 1 .. x.seq - 1 : Logged(x.run, j)
  /\ AllHeld(x.run, x.output.folds)
  /\ x.step \in ToolSteps =>
       \E a \in acts : a.run = x.run /\ a.id = x.output.ext
  /\ log' = log \cup {x}
  /\ UNCHANGED <<acts, outcome>>

Act(a) ==
  /\ \A b \in acts : b.run # a.run /\ b.id # a.id
  /\ AllHeld(a.run, a.payload)
  /\ acts' = acts \cup {a}
  /\ UNCHANGED <<log, outcome>>

(* The new run copies entries 1..n of the source and acts on nothing.      *)
Seed(newRun, source, n) ==
  /\ \A x \in log : x.run # newRun
  /\ \A a \in acts : a.run # newRun
  /\ \A j \in 1 .. n : Logged(source, j)
  /\ log' = log \cup {[x EXCEPT !.run = newRun] :
                        x \in {y \in log : y.run = source /\ y.seq <= n}}
  /\ UNCHANGED <<acts, outcome>>

Complete(r, out) ==
  /\ outcome[r] = Nil
  /\ out # Nil
  /\ \A s \in DOMAIN out :
       \E x \in log : x.run = r /\ x.seq = s /\ x.output = out[s]
  /\ outcome' = [outcome EXCEPT ![r] = out]
  /\ UNCHANGED <<log, acts>>

(* Written without the sets the bound values come from: each is the one    *)
(* the step itself adds.                                                   *)
Next ==
  \/ \E x \in log' : Record(x)
  \/ \E a \in acts' : Act(a)
  \/ \E r, source \in Runs, n \in {y.seq : y \in log'} : Seed(r, source, n)
  \/ \E r \in Runs : Complete(r, outcome'[r])

Spec == Init /\ [][Next]_vars

=============================================================================
