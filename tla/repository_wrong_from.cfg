SPECIFICATION RepositorySpec
CONSTANTS
  Parts = {"diff"}
  Days <- MCDays
  RegistryScoped = {"package-name"}
  LifecyclePeriods <- MCLifecyclePeriods
  LicensePeriods <- MCLicensePeriods
  Identities <- MCIdentities
  RegistryNames <- MCRegistryNames
  UnversionedTags = {"v0"}
  DeclaredSubjects = {"lib", "app"}
  IdentifyingOutputs = {"provenance"}
  PlainOutputs = {"tarball"}
  MaxMutations = 3
  MaxHandEdits = 1
  MaxWriteFailures = 1
  Tools = {"release", "docs"}
  Texts <- MCTexts
  Entries <- MCEntries
  RepositoryNames = {"ours"}
  Reasons <- MCReasons
  Certainties = {60, 70}
  MinimumCertainty = 70
  FollowingWords = 1
  MaxListed = 1
  MaxJudged = 2
  MaxTampered = 1
  MaxTextEdits = 1
  Tool = "t"
  Registries <- MCRegistries
  SubjectFiles <- MCFiles
  WrittenEntries <- MCWrittenEntries
  IllFormedNames = {"On"}
  IllFormedStems = {"manifest"}
  MaxEntries = 3
  FirstManifests <- MCFirstManifests
  FirstSources <- MCFirstSources
  ManifestEdits <- MCManifestEdits
  SourceEdits <- MCSourceEdits
  FilesInOrder <- MCFilesInOrder
  Beside <- MCBeside
  MigrationFiles = {"m"}
  SuffixOf <- MCSuffixOf
  MaxEdits = 2
  MaxFaults = 1
  Accepted <- MCAccepted
  AcceptedBefore <- MCAcceptedBefore
  TargetVersion = "3"
  Documents <- MCDocuments_
  InitialFiles <- MCInitialFiles
  Directories <- MCDirectories
  EditedFiles <- MCEditedFiles
  MaxRuns = 2
  MaxWriteFaults = 1
  MaxFileEdits = 1
  CorpusFiles <- MCCorpusFiles
  CorpusSize = 2
  DiffMigrations <- MCDiffMigrations
  OldVersions = {"1"}
  Adjudications <- MCAdjudications
  FirstTrees <- MCFirstTrees
  Ops <- MCOps
  MaxOps = 3
  Schemas <- MCSchemas
  TypeFiles <- MCTypeFiles
  Class <- MCClass
  NumberOf <- MCNumberOf
  Folded <- MCFolded
  IntegerWidth = 8
  Evidence <- MCEvidence
  MaxDepth = 4
  FirstDocuments <- MCFirstDocuments
  DocumentEdits <- MCDocumentEdits
  MaxDocumentEdits = 3
  Resources <- LoadResources
  ResourceTypes <- LoadTypes
  TypeOf <- LoadTypeOf
  NameOrder <- LoadNameOrder
  Stage <- LoadStage
  Fields <- LoadFields
  Collections <- LoadCollections
  Key <- LoadKey
  FallbackKey <- LoadFallbackKey
  ItemFields <- LoadItemFields
  ExposedValues = {"cdn/ex/address"}
  ExposedBy <- LoadExposedBy
  SlotsGiven <- LoadSlotsGiven
  Derivable <- LoadDerivable
  Written <- LoadWritten
  NotImporting = "none"
  MaxWrites = 4
INVARIANT GreenCorporaAreMet
CHECK_DEADLOCK FALSE
