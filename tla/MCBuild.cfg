CONSTANTS
  Targets <- AllTargets
  Apps <- AllApps
  Contents = {1, 2, 3}
  Unlexable = {3}
  RowLength = 4
  Editable <- SomeFiles
  EditBound <- FewEdits
  AccidentBound <- FewAccidents
  W = 4
  LinkBases = {0, 2}
  Pages = {0, 1, 3}
  Lengths = {1, 2}
  Bodies <- SmallBodies
  CheckBases = {1, 2}
  ROWS = 24
  COLS = 28
  TunnelRow = 10
  TunnelDepth = 5
  Spawn <- SpawnCell
  NoDots <- GhostHouse
  TOPOLOGY <- Drawn
  TILE_OVERRIDES <- Overrides
  LEFT_EDGE <- LeftEdge
  RIGHT_EDGE <- RightEdge
  EditCells <- SomeCells
  MazeEditBound = 1
  STRINGS <- Strings
  Order <- Labels
  MENUDESCRIPTORS <- Places
  Version <- V041
  Build <- B1063
  Equates <- Lengths3
  TextEdits <- SomeTexts
  VersionEdits <- SomeVersions
  EquateEdits <- SomeEquates
  ScreenEditBound = 1
  RuleKeys = {3}
  Presets <- TwoPresets
  Generations = 3
  ConstantsIn <- ThreeConstants
  TableIn <- ThreeMessages
  TextsIn <- FourTexts
  EXPECTED <- ThreeFrozen
  AfterNew <- FourFrozen
  NewMessage = "m4"
  DiagEditBound = 2
SPECIFICATION Spec
CHECK_DEADLOCK FALSE
INVARIANTS TypeOK ParsersAgree RelocatedAsBuilt VerifiedLoadsSafely VerdictHolds DrawnSymmetric MenuShown StatusShown
PROPERTIES ShipsReviewed EditsShipFromOwnDisk SearchEnds FrozenTextPrinted
