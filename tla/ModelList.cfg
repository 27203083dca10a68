SPECIFICATION FairModelListSpec
CONSTANTS
  a = a
  b = b
  Names = {a, b}
  Nodes = {n1, n2}
  Declaring = {n1}
  Newest = 4
  Lists <- FourLists
  Model <- OneRenamed
  Carried = {1, 2, 4}
  Kinds = {"file", "database"}
  Overlap = FALSE
  MaxEvents = 1
INVARIANTS
  NeverEmptied
PROPERTIES
  OwnEntriesStay
  AliasHolds
  RegistryFollowsTheList
  AliasFollowsTheCatalog
