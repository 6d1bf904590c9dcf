SPECIFICATION Spec
CONSTANTS
  r1 = r1  r2 = r2  r3 = r3
  k1 = k1  k2 = k2  o1 = o1  o2 = o2  e1 = e1  e2 = e2
  door = door  retry = retry  door2 = door2  stranger = stranger
  elsewhere = elsewhere  other = other  manual = manual  reject = reject
  approve = approve  cancel = cancel  resend = resend  page = page  resent = resent
  reuse = reuse  import = import  unlink = unlink
  NoEvent = NoEvent  Nobody = Nobody
  Orgs = {o1, o2}
  Events = {e1, e2}
  Links = {r1}
  Keys = {k1, k2}
  OrgOf <- MCOrgOf
  EventOf <- MCEventOf
  LinkOf <- MCLinkOf
  Beginnings <- MCBeginnings
  Job <- MCJob
  Registrants = {r1}
  Requests = {cancel, door}
  Traffic <- CancelTraffic
PROPERTIES CancelSparesCheckedIn
CHECK_DEADLOCK FALSE
