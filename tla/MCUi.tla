-------------------------------- MODULE MCUi --------------------------------
(* Small instances of ReplayUi for TLC.                                    *)
EXTENDS ReplayUi, TLC

CONSTANTS r1, r2

(* Rows may have the same time: then the journal lists r1 first, and a     *)
(* file has r2 first.                                                      *)
TimesValue == {1, 2}
OrderValue == [x \in Row |-> 2 * x.at + (IF x.run = r1 THEN 0 ELSE 1)]
FileOrder  == [x \in Row |-> 2 * x.at + (IF x.run = r1 THEN 1 ELSE 0)]
CreatedValues == {r1 :> 1 @@ r2 :> 1}

(* The second run of the list is the one that is paused from the start.    *)
JournalValues == {r1 :> Absent @@ r2 :> Paused, r1 :> Started @@ r2 :> Paused}
TwoPaused == {r1 :> Paused @@ r2 :> Started}

PausedFile == [steps |-> r1 :> Absent @@ r2 :> Paused, created |-> r1 :> 1 @@ r2 :> 1,
               order |-> FileOrder]
ExportValues == {PausedFile}
FileValues == {PausedFile, [PausedFile EXCEPT !.steps[r1] = Started]}

(* Bound: the page is used, or the runs are listed while they go on, are   *)
(* forked, exported and imported.  What starts with two runs is for lists. *)
ListOrUse ==
  IF list' # Nil
  THEN /\ flow'["poll"] = Idle /\ ~faults'
       /\ \A t \in Slots : \A i \in DOMAIN flow'[t].todo : flow'[t].todo[i].get = "export"
  ELSE /\ \A r \in Runs : journal'[r] <= journal[r] + 1 /\ created'[r] = created[r]
       /\ (Started \in {journal[r1], file.steps[r1]} /\ events = 0) => events' = 0

Symmetry == Permutations(Slots)

=============================================================================
