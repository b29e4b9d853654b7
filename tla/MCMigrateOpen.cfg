\* Three processes open a new journal; three migrations.
SPECIFICATION MigrateSpec
CONSTANTS
  Openers = {o1, o2, o3}
  Latest = 3
  MaxDeaths = 2
INVARIANTS
  MigrateIInv
  VersionsTellTheSchema
  OpenedIsCurrent
  AppliedByOneOnly
PROPERTY
  LosersOpenNextTime
