SPECIFICATION Spec
CONSTANTS
  o1 = o1
  o2 = o2
  e1 = e1
  e2 = e2
  r1 = r1
  r2 = r2
  p1 = p1
  p2 = p2
  p3 = p3
  mount = mount
  poll = poll
  other = other
  abroad = abroad
  absent = absent
  perLink = perLink
  perCategory = perCategory
  scans = scans
  lastScanned = lastScanned
  full = full
  approved = approved
  pending = pending
  present = present
  noShow = noShow
  summary = summary
  category = category
  usher = usher
  outsider = outsider
  staff = staff
  Anything = Anything
  attendees = attendees
  search = search
  rename = rename
  claim = claim
  swap = swap
  c1 = c1
  c2 = c2
  c3 = c3
  l1 = l1
  l2 = l2
  s1 = s1
  s2 = s2
  away = away
  NoOrg = NoOrg
  Codes = {c1, c2, c3}
  FirstCode <- MCFirstCode
  Requests = {mount, poll, other, abroad, absent, perLink, perCategory, scans, lastScanned, full, approved, pending, present, noShow, summary, category, usher, outsider, staff, attendees, search, rename, claim, swap, away}
  Job <- MCJob
  Scenarios <- MCScenarios
  Orgs = {o1, o2}
  Events = {e1, e2}
  Registrants = {r1, r2}
  OrgOf <- MCOrgOf
  EventOf <- MCEventOf
  LinkOf <- MCLinkOf
  Links = {l1, l2}
  Servers = {s1, s2}
  Limit = 1
  Pages = {p1, p2, p3}
  TTL = 2
  MaxTime = 2
 
PROPERTIES AnswersAreRecent DashboardAdvances
CHECK_DEADLOCK FALSE
