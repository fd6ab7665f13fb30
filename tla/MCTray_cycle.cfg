SPECIFICATION Spec
CONSTANTS
  MinRpm = 2000
  MaxRpm = 5000
  Logo <- MCLogo
  Brightness <- MCOneBrightness
  Effect <- MCEffect
  Color <- MCColor
  NoColor = NoColor
  PerfRetries = 1
  Ignores = {}
  Partials <- MCPartials
  Process = {"game"}
  RuleSets <- OtherRules
  PickPerf = {"Balanced"}
  OtherPerf = {"Hyperboost"}
  ReassertOnResume = TRUE
  Scenes <- CycleScenes
  InitEc <- LaptopEc
  NoAction = NoAction
  NoTarget = NoTarget
INVARIANT ActionNeverSaved
