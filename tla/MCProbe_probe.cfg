SPECIFICATION Spec
CONSTANTS
  Rpm = {"left", "low", "high"}
  Sweep <- MCSweep
  Settings <- MCSettings
INVARIANT TypeOK Restorable ObedientRestored
PROPERTY SweepsWhereItCounts
