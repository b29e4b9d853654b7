\* Does opening throw?
SPECIFICATION MigrateSpec
CONSTANTS
  Openers = {o1, o2}
  Latest = 1
  MaxDeaths = 2
INVARIANT
  OpeningNeverThrows
