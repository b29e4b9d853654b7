\* Does the page show the run that is selected?
SPECIFICATION UiSpec
CONSTANTS
  Nil = Nil
  r1 = r1
  r2 = r2
  Runs = {r1, r2}
  Times <- TimesValue
  Order <- OrderValue
  Journals <- TwoPaused
  Created <- CreatedValues
  Exports <- ExportValues
  Slots = {t1, t2}
  PageLimit = 1
  MaxEvents = 2
INVARIANT
  ShowsTheSelectedRun
CHECK_DEADLOCK FALSE
