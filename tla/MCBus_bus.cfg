SPECIFICATION Spec
CONSTANTS
  Client = {"tray", "cli"}
  Mode = {"silent", "balanced", "custom"}
  Ignored = {"custom"}
  MaxAttempts = 2
  Calls <- TrayAndCli
  NoMode = NoMode
INVARIANT TypeOK ReadWasTrue OnceActsOnce GenuineSuccess
PROPERTY ServesCalls
