\* A page, its polls and its user, over a journal and over an upload;
\* and a client that lists the runs while rows come, move and are replaced.
SPECIFICATION UiSpec
ACTION_CONSTRAINT ListOrUse
CONSTANTS
  Nil = Nil
  r1 = r1
  r2 = r2
  Runs = {r1, r2}
  Times <- TimesValue
  Order <- OrderValue
  Journals <- JournalValues
  Created <- CreatedValues
  Exports <- FileValues
  Slots = {t1}
  PageLimit = 1
  MaxEvents = 3
INVARIANTS
  UiIInv
  ListsAreComplete
PROPERTIES
  PollsRepair
  SubmitsAreReleased
CHECK_DEADLOCK FALSE
