SPECIFICATION MCSpec
CONSTANTS
  Parts <- AllParts
  PerfModes <- MCPerfModes
  SliderBudget <- MCSliderBudget
  ResetsWhileNoted = FALSE
  WakeBudget <- MCWakeBudget
  EcFade = 4
  KEYBOARD_FADE = 3
  Levels <- MCLevels
  KeyboardBudget <- MCKeyboardBudget
  GPU_MAX_CONSECUTIVE_FAILURES = 3
  SMI_AWAKE_POLLS = 2
  Flukes = 1
INVARIANTS
  TypeOK
  KnowsWhatToPutBack
  KnowsWhatShows
  GpuShown
  FansShown
PROPERTY WakesChecked
CHECK_DEADLOCK FALSE
