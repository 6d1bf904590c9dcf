SPECIFICATION Spec
CONSTANTS
  o1 = o1  e1 = e1  e2 = e2  l1 = l1  l2 = l2  s1 = s1  s2 = s2  k1 = k1  k2 = k2
  p1 = p1  p2 = p2  past = past
  open = open  lock = lock  invite = invite  dates = dates  guest = guest  holder = holder
  rulesA = rulesA  rulesB = rulesB  rulesC = rulesC  applicant = applicant
  starts = starts  ends = ends  both = both  archive = archive  revive = revive  opening = opening
  form = form  formB = formB  answer = answer  answerB = answerB  desk = desk
  second = second  rename = rename  later = later  sooner = sooner  remove = remove
  staff = staff  t1 = t1  t2 = t2  approval = approval  rejection = rejection
  draft = draft  retype = retype  retract = retract  notice = notice  refusal = refusal
  sms = sms  about = about  retrieval = retrieval  badForm = badForm  badRules = badRules
  NoSecret = NoSecret  Nobody = Nobody
  Requests = {past, open, lock, invite, dates, guest, holder, rulesA, rulesB, rulesC,
              applicant, starts, ends, both, archive, revive, opening, form, formB, answer,
              answerB, desk, second, rename, later, sooner, remove, staff,
              draft, retype, retract, notice, refusal,
              sms, about, retrieval, badForm, badRules}
  Job <- MCJob
  Past = past
  Scenarios <- MCScenarios
  Orgs = {o1}
  Events = {e1, e2}
  OrgOf <- MCOrgOf
  Links = {l1, l2}
  EventOf <- MCEventOf
  Slugs = {s1, s2}
  Keys = {k1, k2}
  Secrets = {p1, p2}
  Templates = {t1, t2}
  Types = {approval, rejection}
  Untyped = Untyped
INVARIANTS TypeOK RulesOfOneSave
PROPERTIES DoorsStayClosed UpdateHolds EventWindowHolds TextFitsItsType
CHECK_DEADLOCK FALSE
