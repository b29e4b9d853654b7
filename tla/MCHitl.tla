------------------------------- MODULE MCHitl -------------------------------
(* Small instances of Hitl for TLC.                                        *)
EXTENDS Hitl, FiniteSets, TLC

(* Submissions, servers, flushes and decisions are interchangeable.        *)
Symmetry == Permutations(Callers) \cup Permutations(Servers)
              \cup Permutations(Flushes) \cup Permutations(Decisions)

(* Bound: three submissions and flushes together, two while both servers   *)
(* run, or when both callers are in after a loss; and no export that shows *)
(* neither pause nor input.                                                *)
Bounds ==
  LET asking   == {c \in Callers : call[c] # NoCall}
      flushing == {f \in Flushes : flush[f] # NoFlush}
  IN  /\ Cardinality(asking) + Cardinality(flushing)
           <= IF \/ Down \notin {server[s] : s \in Servers}
                 \/ losses > 0 /\ asking = Callers
              THEN 2 ELSE 3
      /\ \A k \in ExportKeys, r \in Runs : export[k] # Nil => export[k][r] # "none"

=============================================================================
