SPECIFICATION Spec
CONSTANTS
  s1 = s1  s2 = s2  fg1 = fg1  fg2 = fg2  bg = bg
  Scans = {s1, s2}
  Foreground = {fg1}
  Background = {}
  Traffic <- LossTraffic
  MaxRetries = 2
  MaxFaults = 0
INVARIANTS NoDataLoss
CHECK_DEADLOCK FALSE
