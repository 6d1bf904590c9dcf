SPECIFICATION Spec
CONSTANTS
  issue = issue  page = page  resend = resend  regenerate = regenerate
  import = import  w1 = w1  w2 = w2
  Nothing = Nothing
  Requests = {issue, page, resend, regenerate, import}
  Op <- MCOp
  Traffic <- SafetyTraffic
  Workers = {w1, w2}
  Retries = 2
  MaxLosses = 2
  MaxCrashes = 0
INVARIANTS ReadyIsStored NeverForgotten FailureIsReported ReadyIsAnnounced
CHECK_DEADLOCK FALSE
