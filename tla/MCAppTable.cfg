SPECIFICATION Spec
CONSTANTS
  MaxSlots = 3
  NameLen = 4
  HeaderSize = 2
  EntrySize = 9
  Window = 22
  PageUnits = 2
  UserProgStart = 2
  Top = 8
  MemoryEnd = 10
  Programs <- PlainPrograms
  LoadAddrs <- SomeAddrs
INVARIANTS TypeOK SystemSpared CountMatches AppsDisjoint FirstFit
PROPERTIES LoadSparesApps ExternalEvicts
