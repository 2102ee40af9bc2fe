SPECIFICATION Spec
CONSTANTS
  Addresses = {"ip1", "ip2"}
  SetNames = {"blue", "green", "crossed"}
  WorldNames = {"nothing", "mail moved"}
  Disturbances = {"unsupported"}
  Resources <- MCResources
  ResourceTypes <- MCResourceTypes
  TypeOf <- MCTypeOf
  NameOrder <- MCNameOrder
  Stage <- MCStage
  Fields <- MCFields
  Collections <- MCCollections
  Key <- MCKey
  FallbackKey <- MCFallbackKey
  ItemFields <- MCItemFields
  ExposedValues <- MCExposedValues
  ExposedBy <- MCExposedBy
  Account = FALSE
  ProjectName = "shop"
  OwnerOf <- MCOwnerOf
  UsersOf <- MCUsersOf
  Sets <- MCSets
  Worlds <- MCWorlds
  Unmanaged = {}
  Unsupported <- MCUnsupported
  AssignedValues <- MCAssignedValues
  Recycles = FALSE
  Vanishing <- MCVanishing
  Strays <- MCStrays
  FieldDrifts <- MCFieldDrifts
  Reassigned <- MCReassigned
  Creators = {}
  MaxDrift = 0
  MaxFailures = 1
  MaxEdits = 1
  MaxCreations = 0
INVARIANTS
  ExecutesWhatWasReviewed
  CreationsFirst
  WritesInTime
