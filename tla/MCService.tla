------------------------------ MODULE MCService ------------------------------
(* Small instances of Service for TLC.                                     *)
EXTENDS Service, TLC

CONSTANTS c1, c2, s1, s2

(* A call on each of two sessions.                                         *)
SessionOfValue == c1 :> s1 @@ c2 :> s2

=============================================================================
