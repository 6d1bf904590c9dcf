SPECIFICATION FairSpec
CONSTANTS
  s1 = s1  s2 = s2  fg1 = fg1  fg2 = fg2  bg = bg
  Scans = {s1, s2}
  Foreground = {fg1, fg2}
  Background = {bg}
  Traffic <- MCTraffic
  MaxRetries = 2
  MaxFaults = 1
INVARIANTS TypeOK LossOnlyByOverwriteOrDiscard FlagIsHeld DroppedWasTried
PROPERTIES QueueDrains
CHECK_DEADLOCK FALSE
