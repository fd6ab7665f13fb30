SPECIFICATION FairSpec
CONSTANTS
  Value <- MCValue
  Scenes <- AllScenes
  MaxRepairs = 3
  ReopenAfter = 3
INVARIANTS TypeOK OnlyLackingLearnt OkMeansApplied RejectionIsolated ExitMeansApplied
PROPERTIES AdoptsWhatIsSet KeepsItsOwn BindsTheLaptop ZonesMend EnforceWins EnforceRests
