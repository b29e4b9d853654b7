------------------------------- MODULE MCGates -------------------------------
(* The gates, over a service with two handler slots.                       *)
EXTENDS Gates, TLC

AllGates == CrashPoints \cup DOMAIN Scripts

=============================================================================
