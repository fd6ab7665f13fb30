SPECIFICATION FairSpec
CONSTANTS
  MinRpm = 2000
  MaxRpm = 5000
  Logo <- MCLogo
  Brightness <- MCOneBrightness
  Effect <- MCEffect
  Color <- MCColor
  NoColor = NoColor
  PerfRetries = 1
  Ignores = {"Hyperboost"}
  Partials <- MCPartials
  Process = {}
  RuleSets = {}
  PickPerf = {"Balanced"}
  OtherPerf = {"Balanced"}
  ReassertOnResume = TRUE
  Scenes <- LiveScenes
  InitEc <- LaptopEc
  NoAction = NoAction
  NoTarget = NoTarget
INVARIANT TypeOK
PROPERTY Settles EcFollows GetsAdopted GivesUp
