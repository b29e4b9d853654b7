------------------------------- MODULE MCFork -------------------------------
(* Small instances of Fork for TLC.                                        *)
EXTENDS Fork, Replay, TLC

(* Workers, completions and fork requests are interchangeable.             *)
Symmetry == Permutations(Workers) \cup Permutations(Completions)
              \cup Permutations(Forks)

=============================================================================
