SPECIFICATION MCSpec
CONSTANTS
  Parts <- OnlyPowerMode
  PerfModes <- MCPerfModes
  SliderBudget <- ResetBudget
  ResetsWhileNoted = TRUE
  WakeBudget <- MCWakeBudget
  EcFade = 4
  KEYBOARD_FADE = 3
  Levels <- MCLevels
  KeyboardBudget <- MCKeyboardBudget
  GPU_MAX_CONSECUTIVE_FAILURES = 3
  SMI_AWAKE_POLLS = 2
  Flukes = 1
INVARIANT KnowsWhatToPutBack
CHECK_DEADLOCK FALSE
