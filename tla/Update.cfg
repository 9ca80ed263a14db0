\* Updates that fail and are killed, restores by hand and by the script, writes in between.
CONSTANTS
  old = old
  new = new
  Images = {old, new}
  First = old
  Newest = new
  SCHEMA_VERSION <- Schemas
  RESTORE_GAP = 3
  BACKUPS_KEPT = 1
  MaxWrites = 2
  MaxBackups = 1
  MaxAside = 2
  MaxGuesses = 1
SPECIFICATION UpdateSpec
INVARIANTS KeepsNewest NoForeignLog SchemaFits ComesBack
PROPERTIES NumbersGrow
