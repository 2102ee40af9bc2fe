SPECIFICATION Spec
CONSTANTS
  Addresses = {"ip1", "ip2"}
  SetNames = {"blue"}
  WorldNames = {"nothing", "everything", "no server", "no mail"}
  Disturbances = {"vanish", "stray", "field", "reassign"}
  Resources <- MCResources
  ResourceTypes <- MCResourceTypes
  TypeOf <- MCTypeOf
  NameOrder <- MCNameOrder
  Stage <- MCStage
  Fields <- MCFields
  Collections <- MCCollections
  Key <- MCKey
  FallbackKey <- MCFallbackKey
  ItemFields <- MCItemFields
  ExposedValues <- MCExposedValues
  ExposedBy <- MCExposedBy
  Account = FALSE
  ProjectName = "shop"
  OwnerOf <- MCOwnerOf
  UsersOf <- MCUsersOf
  Sets <- MCSets
  Worlds <- MCWorlds
  Unmanaged = {}
  Unsupported <- MCUnsupported
  AssignedValues <- MCAssignedValues
  Recycles = FALSE
  Vanishing <- MCVanishing
  Strays <- MCStrays
  FieldDrifts <- MCFieldDrifts
  Reassigned <- MCReassigned
  Creators = {}
  MaxDrift = 1
  MaxFailures = 0
  MaxEdits = 0
  MaxCreations = 0
INVARIANTS
  TypeOK
  ExecutesWhatWasReviewed
  CreationsFirst
  UpsertsFirst
  NeverOutOfOrder
  NothingWaitingIsWritten
  OneApplySuffices
PROPERTIES
  LeavesTheRestAlone
