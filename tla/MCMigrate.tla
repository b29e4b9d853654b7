------------------------------ MODULE MCMigrate ------------------------------
(* Small instances of Migrate for TLC.                                     *)
EXTENDS Migrate, TLC

=============================================================================
