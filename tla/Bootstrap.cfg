CONSTANTS
  Types <- MCTypes
  Resolvers <- MCResolvers
  Configs <- MCConfigs
  Users <- MCUsers
  Names <- MCNames
  Stripped <- MCStripped
  Suffixing = "prism"
  Repositories <- MCRepositories
  MaxDeaths = 2
  None = None
SPECIFICATION FairSpec
INVARIANTS
  VersionMeansDone ReferencesHold InitIsHonest
PROPERTIES
  NothingIsLost EventuallyMigrated
CHECK_DEADLOCK FALSE
