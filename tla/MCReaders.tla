------------------------------ MODULE MCReaders ------------------------------
(* Small instances of Readers for TLC.                                     *)
EXTENDS Readers, TLC

CONSTANT w1         \* the slot used while somebody reads

(* Bound: with a reader, one slot and no fault; without one, zombies,      *)
(* crashes and lost connections.                                           *)
ReaderOrFault ==
  (\E s \in Sessions : session[s] # NoSession) =>
    /\ faults = 0
    /\ \A w \in Workers : at[w] # Idle => w = w1

=============================================================================
