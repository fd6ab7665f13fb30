SPECIFICATION Spec
CONSTANTS
  Value <- MCValue
  Scenes <- FirstRun
  MaxRepairs = 3
  ReopenAfter = 3
PROPERTIES PlaceholdersStayOut
