SPECIFICATION Spec
CONSTANTS
  SetNames = {"nothing", "server"}
  WorldNames = {"leftovers", "mutual", "snapshot", "orphan"}
  Refused = {}
  Resources <- MCResources
  ResourceTypes <- MCResourceTypes
  TypeOf <- MCTypeOf
  NameOrder <- MCNameOrder
  Stage <- MCStage
  Fields <- MCFields
  Collections <- MCCollections
  Key <- Nothing
  FallbackKey <- Nothing
  ItemFields <- Nothing
  ExposedValues = {}
  ExposedBy <- Nothing
  Account = TRUE
  ProjectName = "account"
  OwnerOf <- MCOwnerOf
  UsersOf <- MCUsersOf
  Sets <- MCSets
  Worlds <- MCWorlds
  Unmanaged = {"test-bucket/kept"}
  Unsupported <- MCUnsupported
  AssignedValues <- Nothing
  Recycles = FALSE
  Vanishing = {}
  Strays = {}
  FieldDrifts = {}
  Reassigned = {}
  Creators <- MCCreators
  MaxDrift = 0
  MaxFailures = 1
  MaxEdits = 0
  MaxCreations = 1
INVARIANTS
  OneApplySuffices
  UsersGoFirst
PROPERTIES
  DeletesOnlyUnclaimed
  UnclaimsOnlyStale
