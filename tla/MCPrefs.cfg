SPECIFICATION Spec
CONSTANTS
  Order <- MCOrder
  Keys <- MCKeys
  Values = {"d", "a"}
  Default = "d"
  Bad = "bad"
  Moved <- MCMoved
  NetGroups = {"net"}
  PassRow <- MCPassRow
  RebootRows <- MCRebootRows
  Aliases <- MCAliases
  Restarters = {"counter"}
  OldStores <- MCStores
  LegacyKept = FALSE
  BootFails = FALSE
  CommitFails = TRUE
INVARIANT StoreIsSound
PROPERTY KeepsSettings
