SPECIFICATION Spec
CONSTANTS
  o1 = o1  boss = boss  new = new  p1 = p1  p2 = p2  api1 = api1  api2 = api2  hired = hired  first = first
  mkRole = mkRole  delRole = delRole  invite = invite  activate = activate
  activate2 = activate2  bulk = bulk  block = block  unlock = unlock  join = join
  wrong1 = wrong1  wrong2 = wrong2  right = right
  mkChief = mkChief  mkChief2 = mkChief2  promote = promote  accept = accept  enter = enter
  other = other  scan = scan  search = search  sync = sync  out = out
  NoOrg = NoOrg  Nobody = Nobody
  Requests = {hired, first, mkRole, delRole, invite, activate, activate2, bulk, block,
              unlock, mkChief, mkChief2, promote, accept, enter,
              join, wrong1, wrong2, right, other, scan, search, sync, out}
  Processes = {api1, api2}
  Job <- MCJob
  Emails = {boss, new}
  Orgs = {o1}
  Passwords = {p1, p2}
  SuperEmail = boss
  SuperPassword = p1
  Scenarios <- AccessScenarios
  Threshold = 2
  Limit = 2
INVARIANTS TypeOK MembershipIsInvitation BootOnce LockedWasEarned
  StoredSessionUsable
PROPERTIES KeepsSessions
CHECK_DEADLOCK FALSE
