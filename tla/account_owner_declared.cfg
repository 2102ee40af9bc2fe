SPECIFICATION Spec
CONSTANTS
  SetNames = {"server"}
  WorldNames = {"orphan"}
  Refused = {}
  Resources <- MCResources
  ResourceTypes <- MCResourceTypes
  TypeOf <- MCTypeOf
  NameOrder <- MCNameOrder
  Stage <- MCStage
  Fields <- MCFields
  Collections <- MCCollections
  Key <- Nothing
  FallbackKey <- Nothing
  ItemFields <- Nothing
  ExposedValues = {}
  ExposedBy <- Nothing
  Account = TRUE
  ProjectName = "account"
  OwnerOf <- MCOwnerOf
  UsersOf <- MCUsersOf
  Sets <- MCSets
  Worlds <- MCWorlds
  Unmanaged = {"test-bucket/kept"}
  Unsupported <- MCUnsupported
  AssignedValues <- Nothing
  Recycles = FALSE
  Vanishing = {}
  Strays = {}
  FieldDrifts = {}
  Reassigned = {}
  Creators <- MCCreators
  MaxDrift = 0
  MaxFailures = 0
  MaxEdits = 0
  MaxCreations = 0
PROPERTIES
  OwnedStayWithTheirOwner
