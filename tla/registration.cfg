SPECIFICATION Spec
CONSTANTS
  form = form  form2 = form2  again = again  desk = desk
  rename = rename  skip = skip  flag = flag
  l1 = l1  l2 = l2  a1 = a1  a2 = a2
  c1 = c1  c2 = c2
  NoCode = NoCode  Unlimited = Unlimited
  Requests = {form, form2, again, desk, rename, skip, flag}
  Op <- MCOp
  Traffic <- MixedTraffic
  Link <- MCLink
  Email <- MCEmail
  Links = {l1, l2}
  Emails = {a1, a2}
  Codes = {c1, c2}
  Limits = {1, Unlimited}
SYMMETRY CodeSymmetry
INVARIANTS UniqueRegistrants TruthfulAnswers LateStayOut
CHECK_DEADLOCK FALSE
