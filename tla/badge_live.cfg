SPECIFICATION FairSpec
CONSTANTS
  issue = issue  page = page  resend = resend  regenerate = regenerate
  import = import  w1 = w1  w2 = w2
  Nothing = Nothing
  Requests = {issue, page, resend, regenerate, import}
  Op <- MCOp
  Traffic <- LiveTraffic
  Workers = {w1}
  Retries = 2
  MaxLosses = 0
  MaxCrashes = 1
PROPERTIES RenderingEnds ReadyIsDelivered
CHECK_DEADLOCK FALSE
