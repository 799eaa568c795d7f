CONSTANTS
  MaxSaves = 1
  MaxWrites = 1
  None = None
SPECIFICATION Spec
INVARIANTS TypeOK LocalWritesServed ShortcutIsCurrent
PROPERTIES SnapshotsCatchUp RebuildsEnd
CHECK_DEADLOCK FALSE
