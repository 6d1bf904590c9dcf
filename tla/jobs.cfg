SPECIFICATION FairSpec
CONSTANTS
  notify = notify  campaign = campaign  form = form  upload = upload  again = again  twin = twin
  export = export  ann = ann  ben = ben  bad = bad  h1 = h1  h2 = h2
  NoAddress = NoAddress  Nobody = Nobody
  Requests = {notify, campaign, form, upload, again, twin, export}
  Job <- MCJob
  Traffic <- JobTraffic
  Emails = {ann, ben, bad}
  BadAddresses = {bad}
  Registered = {}
  MaxMessages = 4
  Hooks = {h1, h2}
  Edited = {h2}
  Retries = 2
  MaxLosses = 2
INVARIANTS TypeOK NothingForgotten RecordsAreTrue DuplicatesAreAccidents
  ImportVerdict
PROPERTIES AllSettle

CHECK_DEADLOCK FALSE
