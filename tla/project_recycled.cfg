SPECIFICATION Spec
CONSTANTS
  Addresses = {"ip0"}
  SetNames = {"blue"}
  WorldNames = {"no server"}
  Disturbances = {}
  Resources <- MCResources
  ResourceTypes <- MCResourceTypes
  TypeOf <- MCTypeOf
  NameOrder <- MCNameOrder
  Stage <- MCStage
  Fields <- MCFields
  Collections <- MCCollections
  Key <- MCKey
  FallbackKey <- MCFallbackKey
  ItemFields <- MCItemFields
  ExposedValues <- MCExposedValues
  ExposedBy <- MCExposedBy
  Account = FALSE
  ProjectName = "shop"
  OwnerOf <- MCOwnerOf
  UsersOf <- MCUsersOf
  Sets <- MCSets
  Worlds <- MCWorlds
  Unmanaged = {}
  Unsupported <- MCUnsupported
  AssignedValues <- MCAssignedValues
  Recycles = TRUE
  Vanishing <- MCVanishing
  Strays <- MCStrays
  FieldDrifts <- MCFieldDrifts
  Reassigned <- MCReassigned
  Creators = {}
  MaxDrift = 0
  MaxFailures = 0
  MaxEdits = 0
  MaxCreations = 0
INVARIANTS
  OneApplySuffices
