SPECIFICATION Spec
CONSTANTS
  MinRpm = 2000
  MaxRpm = 5000
  Logo <- MCLogo
  Brightness <- MCBrightness
  Effect <- MCEffect
  Color <- MCColor
  NoColor = NoColor
  PerfRetries = 1
  Ignores = {}
  Partials <- MCPartials
  Process = {"game", "movie"}
  RuleSets <- OtherRules
  PickPerf = {"Balanced"}
  OtherPerf = {"Hyperboost"}
  ReassertOnResume = TRUE
  Scenes <- UseScenes
  InitEc <- LaptopEc
  NoAction = NoAction
  NoTarget = NoTarget
INVARIANT MemoryIsSaved ActionNeverSaved
PROPERTY ConfigWritesOnlyWhenApplied QuietTray
