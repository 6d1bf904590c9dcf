-------------------------- MODULE Attendance_proofs -------------------------
(***************************************************************************)
(* Proofs about Attendance, for any registrants, requests and jobs.        *)
(***************************************************************************)
EXTENDS Attendance, TLAPS

LEMMA SubjectType ==
  ASSUME NEW q \in Requests
  PROVE  /\ Job[q] \in Jobs
         /\ Subject(q) \in Registrants
         /\ CheckinKey(q) \in CheckinKeys
<1>1. \A p \in Requests : Job[p] \in Jobs
  BY JobAssumption
<1>2. /\ Job[q].op \in Ops /\ Job[q].reg \in Registrants /\ Job[q].key \in Keys
      /\ Job[q].token \in Tokens
  BY <1>1 DEF Jobs
<1>3. Owner(Job[q].token) \in Registrants
  BY <1>1, <1>2 DEF Owner, Tokens, Jobs
<1>4. CheckinKey(q) \in CheckinKeys
  BY <1>2 DEF CheckinKey, CheckinKeys
<1> QED
  BY <1>1, <1>2, <1>3, <1>4 DEF Subject

(***************************************************************************)
(* The shape of the state is kept by every step of the check-in API.       *)
(***************************************************************************)
LEMMA TypeStep == TypeOK /\ [Next]_vars => TypeOK'
<1> SUFFICES ASSUME TypeOK, [Next]_vars PROVE TypeOK'
  OBVIOUS
<1> USE DEF TypeOK
<1>1. ASSUME NEW q \in Requests, Scan(q) PROVE TypeOK'
  <2>1. CASE ScanKeyLookup(q)
    BY <2>1 DEF ScanKeyLookup, Goto, Reply, Steps, Answers
  <2>2. CASE ScanQr(q)
    <3>1. ScanVerdicts(q) \subseteq Answers \cup {"PASS"}
      BY DEF ScanVerdicts, Answers
    <3> QED BY <2>2, <3>1 DEF ScanQr, Goto, Reply, Steps, Answers
  <2>3. CASE ScanStatus(q)
    BY <2>3, SubjectType DEF ScanStatus, ReadStatus, Goto, Reply, Steps, Answers
  <2>4. CASE ScanDuplicate(q)
    BY <2>4 DEF ScanDuplicate, Goto, Reply, Steps, Answers
  <2>5. CASE ScanCreate(q)
    BY <2>5, SubjectType DEF ScanCreate, InsertCheckin, NewRow, Checkins, Goto, Reply, Steps,
                             Answers
  <2>6. CASE ScanAccepted(q)
    BY <2>6 DEF ScanAccepted, Reply, Steps, Answers
  <2> QED BY <1>1, <2>1, <2>2, <2>3, <2>4, <2>5, <2>6 DEF Scan
<1>2. ASSUME NEW q \in Requests, Manual(q) PROVE TypeOK'
  <2>1. CASE ManualRead(q)
    BY <2>1, SubjectType DEF ManualRead, DeskRead, ReadStatus, Goto, Reply, Steps, Answers
  <2>2. CASE ManualDuplicate(q)
    BY <2>2 DEF ManualDuplicate, Goto, Reply, Steps, Answers
  <2>3. CASE ManualCreate(q)
    BY <2>3, SubjectType DEF ManualCreate, InsertCheckin, NewRow, Checkins, Goto, Reply, Steps,
                             Answers
  <2>4. CASE ManualAccepted(q)
    BY <2>4 DEF ManualAccepted, Reply, Steps, Answers
  <2> QED BY <1>2, <2>1, <2>2, <2>3, <2>4 DEF Manual
<1>3. ASSUME NEW q \in Requests, Cancel(q) PROVE TypeOK'
  <2>1. CASE CancelRead(q)
    BY <2>1, SubjectType DEF CancelRead, DeskRead, ReadStatus, Goto, Reply, Steps, Answers
  <2>2. CASE CancelCheck(q)
    BY <2>2 DEF CancelCheck, Goto, Reply, Steps, Answers
  <2>3. CASE CancelUpdate(q)
    BY <2>3 DEF CancelUpdate, SetStatus, Goto, Reply, Steps, Answers, Lifecycle
  <2>4. CASE CancelAudit(q)
    BY <2>4 DEF CancelAudit, Goto, Steps
  <2> QED BY <1>3, <2>1, <2>2, <2>3, <2>4 DEF Cancel
<1>4. ASSUME NEW q \in Requests, Decide(q) PROVE TypeOK'
  <2>1. CASE DecideRead(q)
    BY <2>1, SubjectType DEF DecideRead, DeskRead, ReadStatus, Goto, Reply, Steps, Answers
  <2>2. CASE DecideUpdate(q)
    BY <2>2 DEF DecideUpdate, SetStatus, Goto, Reply, Steps, Answers, Lifecycle
  <2>3. CASE DecideAudit(q)
    BY <2>3 DEF DecideAudit, Goto, Steps
  <2>4. CASE ApproveIssue(q)
    BY <2>4 DEF ApproveIssue, MayIssue, Goto, Steps, Tokens
  <2> QED BY <1>4, <2>1, <2>2, <2>3, <2>4 DEF Decide
<1>5. ASSUME NEW q \in Requests, HandOut(q) PROVE TypeOK'
  <2>1. CASE ResendRead(q)
    BY <2>1, SubjectType DEF ResendRead, DeskRead, ReadStatus, Goto, Reply, Steps, Answers
  <2>2. CASE ResendLookup(q)
    BY <2>2 DEF ResendLookup, Goto, Steps
  <2>3. CASE ResendIssue(q)
    BY <2>3 DEF ResendIssue, Goto, Reply, Steps, Answers, Tokens
  <2>4. CASE ResendAudit(q)
    BY <2>4 DEF ResendAudit, Reply, Steps, Answers
  <2>5. CASE GetBadgeRead(q)
    BY <2>5, SubjectType DEF GetBadgeRead, ReadStatus, Goto, Reply, Steps, Answers
  <2>6. CASE GetBadgeLookup(q)
    BY <2>6 DEF GetBadgeLookup, Goto, Reply, Steps, Answers
  <2>7. CASE GetBadgeIssue(q)
    BY <2>7 DEF GetBadgeIssue, MayIssue, Reply, Steps, Answers, Tokens
  <2> QED BY <1>5, <2>1, <2>2, <2>3, <2>4, <2>5, <2>6, <2>7 DEF HandOut
<1>6. ASSUME NEW q \in Requests, Notify(q) \/ Fail(q) PROVE TypeOK'
  BY <1>6 DEF Notify, Fail, Reply, Steps, Answers
<1>7. ASSUME NEW t \in Tokens, Expire(t) PROVE TypeOK'
  BY <1>7 DEF Expire
<1>8. ASSUME NEW q \in Requests, Import(q) PROVE TypeOK'
  <2>1. CASE ImportRead(q) \/ ImportUpdate(q) \/ ImportLookup(q) \/ ImportNotify(q)
    BY <2>1 DEF ImportRead, ImportUpdate, ImportLookup, ImportNotify, Goto, Reply, Steps, Answers
  <2>2. CASE ImportIssue(q)
    BY <2>2 DEF ImportIssue, MayIssue, Goto, Steps, Tokens
  <2> QED BY <1>8, <2>1, <2>2 DEF Import
<1>9. ASSUME NEW q \in Requests, DeleteLink(q) PROVE TypeOK'
  <2>1. CASE DeleteLinkRead(q) \/ DeleteLinkAudit(q)
    BY <2>1 DEF DeleteLinkRead, DeleteLinkAudit, Goto, Reply, Steps, Answers
  <2>2. CASE DeleteLinkDelete(q)
    BY <2>2 DEF DeleteLinkDelete, Goto, Reply, Steps, Answers
  <2> QED BY <1>9, <2>1, <2>2 DEF DeleteLink
<1>10. CASE UNCHANGED vars
  BY <1>10 DEF vars
<1> QED
  BY <1>1, <1>2, <1>3, <1>4, <1>5, <1>6, <1>7, <1>8, <1>9, <1>10 DEF Next, Handle

(***************************************************************************)
(* The variables of the check-in API always have their types.              *)
(***************************************************************************)
THEOREM TypeCorrect == Spec => []TypeOK
<1>1. Init => TypeOK
  BY BeginningsAssumption DEF Init, TypeOK, Lifecycle, Steps, Answers
<1> QED
  BY <1>1, TypeStep, PTL DEF Spec

----------------------------------------------------------------------------
(***************************************************************************)
(* The inductive invariant.  A request that is about to write a check-in   *)
(* has checked the organization and read APPROVED; one that stands between *)
(* the insert and its answer owns a row; answers are given last.           *)
(***************************************************************************)
Admits(q) == Job[q].op \in {"scan", "manual"}

Progress(q) ==
  /\ pc[q] # "done" => answer[q] = "none"
  /\ Admits(q) /\ pc[q] \in {"status", "dup", "create"} => OrgOf[Subject(q)] = Job[q].org
  /\ Admits(q) /\ pc[q] \in {"dup", "create"} => seen[q] = "APPROVED"
  /\ Admits(q) /\ pc[q] = "audit" => RowsBy(q) # {}

RequestInv(q) == Progress(q) /\ TruthfulAnswer(q)

Inv == /\ UniqueCheckins
       /\ CheckinProvenance
       /\ \A q \in Requests : RequestInv(q)

\* The check-ins there are, and those deleted, are of different registrants.
Apart == /\ \A c \in checkins : ~Gone(c.reg)
         /\ \A c \in deleted : Gone(c.reg)

\* No check-in is added; some may be deleted.
Settled == checkins' \subseteq checkins /\ Ever' = Ever

LEMMA Undisturbed ==
  ASSUME checkins' = checkins, deleted' = deleted
  PROVE  Settled
BY DEF Settled, Ever

\* Only request q may have moved, and no check-in is added.
Moves(q) ==
  /\ Settled
  /\ \A p \in Requests \ {q} :
       pc'[p] = pc[p] /\ answer'[p] = answer[p] /\ seen'[p] = seen[p]

(***************************************************************************)
(* A step of a request without a check-in, which writes none, can only     *)
(* disturb what the invariant says of that request.                        *)
(***************************************************************************)
LEMMA MoveStep ==
  ASSUME TypeOK, Inv, NEW q \in Requests, RowsBy(q) = {}, Moves(q), RequestInv(q)'
  PROVE  Inv'
<1>1. UniqueCheckins'
  BY DEF Inv, UniqueCheckins, Moves, Settled
<1>2. CheckinProvenance'
  <2> SUFFICES ASSUME NEW c \in Ever
               PROVE  SoundCheckin(c)'
    BY DEF CheckinProvenance, Moves, Settled
  <2>1. c.by \in Requests \ {q}
    BY DEF TypeOK, Checkins, RowsBy, Ever
  <2> QED
    BY <2>1 DEF Inv, CheckinProvenance, SoundCheckin, Moves
<1>3. ASSUME NEW p \in Requests \ {q} PROVE RequestInv(p)'
  BY <1>3 DEF Inv, RequestInv, Progress, TruthfulAnswer, Moves, Settled, RowsBy, EverFor,
              EverWithKey
<1> QED
  BY <1>1, <1>2, <1>3 DEF Inv

\* Only a request that stands after its insert, or is done, owns a check-in.
LEMMA NoRow ==
  ASSUME TypeOK, Inv, NEW q \in Requests, ~Admits(q) \/ pc[q] \notin {"audit", "done"}
  PROVE  RowsBy(q) = {}
BY DEF Inv, CheckinProvenance, SoundCheckin, RowsBy, Admits

\* What else holds the status a request has read stays as it was.
ReadsAtMost(q) == \A p \in Requests \ {q} : seen'[p] = seen[p]

LEMMA GotoStep ==
  ASSUME TypeOK, Inv, NEW q \in Requests, NEW s \in Steps \ {"done"},
         RowsBy(q) = {}, pc[q] # "done", Goto(q, s), Settled, ReadsAtMost(q),
         Admits(q) /\ s \in {"status", "dup", "create"} => OrgOf[Subject(q)] = Job[q].org,
         Admits(q) /\ s \in {"dup", "create"} => seen'[q] = "APPROVED",
         ~(Admits(q) /\ s = "audit")
  PROVE  Inv'
<1>1. Moves(q)
  BY DEF Moves, ReadsAtMost, Goto, TypeOK
<1>2. pc'[q] = s /\ answer'[q] = answer[q] /\ answer[q] = "none"
  BY DEF Goto, TypeOK, Inv, RequestInv, Progress
<1>3. RequestInv(q)'
  BY <1>2 DEF RequestInv, Progress, TruthfulAnswer, Admits
<1> QED
  BY <1>1, <1>3, MoveStep

LEMMA ReplyStep ==
  ASSUME TypeOK, Inv, NEW q \in Requests, NEW a \in Answers \ {"none", "ACCEPTED"},
         RowsBy(q) = {}, Reply(q, a), Settled, ReadsAtMost(q),
         a = "DUPLICATE" => RowFor(Subject(q)) # {},
         a = "IDEMPOTENT_REPLAY" => RowWithKey(Job[q].org, CheckinKey(q)) # {}
  PROVE  Inv'
<1>1. Moves(q)
  BY DEF Moves, ReadsAtMost, Reply, TypeOK
<1>2. pc'[q] = "done" /\ answer'[q] = a
  BY DEF Reply, TypeOK
<1>3. RequestInv(q)'
  BY <1>2 DEF RequestInv, Progress, TruthfulAnswer, Settled, Ever, RowsBy, RowFor, EverFor,
              RowWithKey, EverWithKey
<1> QED
  BY <1>1, <1>3, MoveStep

(***************************************************************************)
(* A request with a check-in is answered: ACCEPTED, or ERROR when the      *)
(* audit write fails.                                                      *)
(***************************************************************************)
LEMMA OwnerReplyStep ==
  ASSUME TypeOK, Inv, NEW q \in Requests, NEW a \in {"ACCEPTED", "ERROR"},
         Admits(q), pc[q] = "audit", Reply(q, a), Settled, seen' = seen
  PROVE  Inv'
<1>1. /\ pc'[q] = "done" /\ answer'[q] = a
      /\ \A p \in Requests \ {q} : pc'[p] = pc[p] /\ answer'[p] = answer[p]
  BY DEF Reply, TypeOK
<1>2. UniqueCheckins'
  BY DEF Inv, UniqueCheckins, Settled
<1>3. CheckinProvenance'
  <2> SUFFICES ASSUME NEW c \in Ever
               PROVE  SoundCheckin(c)'
    BY DEF CheckinProvenance, Settled
  <2>1. c.by \in Requests /\ SoundCheckin(c)
    BY DEF TypeOK, Checkins, Inv, CheckinProvenance, Ever
  <2> QED
    BY <1>1, <2>1 DEF SoundCheckin
<1>4. ASSUME NEW p \in Requests PROVE RequestInv(p)'
  <2>1. CASE p = q
    BY <2>1, <1>1 DEF Inv, RequestInv, Progress, TruthfulAnswer, Settled, RowsBy
  <2>2. CASE p # q
    BY <2>2, <1>1 DEF Inv, RequestInv, Progress, TruthfulAnswer, Settled, RowsBy, EverFor,
                      EverWithKey
  <2> QED BY <2>1, <2>2
<1> QED
  BY <1>2, <1>3, <1>4 DEF Inv

(***************************************************************************)
(* The insert itself: the unique indexes are what keeps UniqueCheckins.    *)
(***************************************************************************)
LEMMA InsertStep ==
  ASSUME TypeOK, Inv, Apart, NEW q \in Requests, Admits(q), pc[q] = "create",
         InsertCheckin(q), deleted' = deleted, seen' = seen
  PROVE  Inv'
<1> DEFINE r == Subject(q)
           row == [reg |-> r, key |-> CheckinKey(q), by |-> q]
<1>1. RowsBy(q) = {}
  BY NoRow
<1>2. CASE checkins' = checkins /\ Reply(q, "ERROR")
  BY <1>1, <1>2, Undisturbed, ReplyStep DEF ReadsAtMost, Answers
<1>3. CASE /\ ~Gone(r)
           /\ RowFor(r) = {} /\ RowWithKey(OrgOf[r], CheckinKey(q)) = {}
           /\ checkins' = checkins \cup {row} /\ Goto(q, "audit")
  <2>1. /\ pc'[q] = "audit" /\ answer' = answer /\ answer[q] = "none"
        /\ \A p \in Requests \ {q} : pc'[p] = pc[p]
    BY <1>3 DEF Goto, TypeOK, Inv, RequestInv, Progress
  <2>2. UniqueCheckins'
    <3>1. \A c \in checkins : ~(OrgOf[c.reg] = OrgOf[r] /\ c.key = CheckinKey(q))
      BY <1>3 DEF RowWithKey
    <3>3. \A c \in Ever : c.reg # r
      BY <1>3 DEF RowFor, Ever, Apart
    <3>4. Ever' = Ever \cup {row}
      BY <1>3 DEF Ever
    <3>2. row.reg = r /\ row.key = CheckinKey(q)
      OBVIOUS
    <3> HIDE DEF row
    <3> QED
      BY <1>3, <3>1, <3>2, <3>3, <3>4 DEF Inv, UniqueCheckins
  <2>3. CheckinProvenance'
    <3>1. SoundCheckin(row)'
      BY <2>1 DEF SoundCheckin, Admits, Inv, RequestInv, Progress
    <3>2. ASSUME NEW c \in Ever PROVE SoundCheckin(c)'
      <4>1. c.by \in Requests \ {q} /\ SoundCheckin(c)
        BY <1>1 DEF TypeOK, Checkins, Inv, CheckinProvenance, RowsBy, Ever
      <4> QED
        BY <2>1, <4>1 DEF SoundCheckin
    <3> QED
      BY <1>3, <3>1, <3>2 DEF CheckinProvenance, Ever
  <2>4. ASSUME NEW p \in Requests PROVE RequestInv(p)'
    <3>1. CASE p = q
      <4>1. row \in RowsBy(q)'
        BY <1>3 DEF RowsBy, Ever
      <4> QED
        BY <3>1, <4>1, <2>1 DEF RequestInv, Progress, TruthfulAnswer
    <3>2. CASE p # q
      <4>1. RowsBy(p)' = RowsBy(p)
        BY <3>2, <1>3 DEF RowsBy, Ever
      <4>2. EverFor(Subject(p)) \subseteq EverFor(Subject(p))'
        BY <1>3 DEF EverFor, Ever
      <4>3. EverWithKey(Job[p].org, CheckinKey(p)) \subseteq EverWithKey(Job[p].org, CheckinKey(p))'
        BY <1>3 DEF EverWithKey, Ever
      <4>4. RequestInv(p)
        BY DEF Inv
      <4> QED
        BY <3>2, <4>1, <4>2, <4>3, <4>4, <2>1 DEF RequestInv, Progress, TruthfulAnswer
    <3> QED BY <3>1, <3>2
  <2> QED
    BY <2>2, <2>3, <2>4 DEF Inv
<1> QED
  BY <1>2, <1>3 DEF InsertCheckin, NewRow

LEMMA InvStep == TypeOK /\ Inv /\ Apart /\ [Next]_vars => Inv'
<1> SUFFICES ASSUME TypeOK, Inv, Apart, [Next]_vars PROVE Inv'
  OBVIOUS
<1> USE DEF At, Admits, ReadsAtMost
<1>1. ASSUME NEW q \in Requests, Scan(q) PROVE Inv'
  <2>1. CASE ScanKeyLookup(q)
    BY <2>1, NoRow, Undisturbed, GotoStep, ReplyStep DEF ScanKeyLookup, Steps, Answers
  <2>2. CASE ScanQr(q)
    <3>1. RowsBy(q) = {}
      BY <2>2, NoRow DEF ScanQr
    <3>2. PICK v \in ScanVerdicts(q) : IF v = "PASS" THEN Goto(q, "status") ELSE Reply(q, v)
      BY <2>2 DEF ScanQr
    <3>3. CASE v = "PASS"
      <4>1. OrgOf[Subject(q)] = Job[q].org
        BY <2>2, <3>2, <3>3 DEF ScanVerdicts, Subject, ScanQr
      <4> QED
        BY <2>2, <3>1, <3>2, <3>3, <4>1, Undisturbed, GotoStep DEF ScanQr, Steps
    <3>4. CASE v # "PASS"
      <4>1. v \in {"INVALID", "ACCESS_DENIED", "WRONG_EVENT"}
        BY <3>2, <3>4 DEF ScanVerdicts
      <4> QED
        BY <2>2, <3>1, <3>2, <3>4, <4>1, Undisturbed, ReplyStep DEF ScanQr, Answers
    <3> QED BY <3>3, <3>4
  <2>3. CASE ScanStatus(q)
    <3>1. /\ RowsBy(q) = {} /\ ReadsAtMost(q)
          /\ seen'[q] = lifecycle[Subject(q)]
          /\ OrgOf[Subject(q)] = Job[q].org
      BY <2>3, NoRow DEF ScanStatus, ReadStatus, TypeOK, Inv, RequestInv, Progress
    <3> QED
      BY <2>3, <3>1, Undisturbed, GotoStep, ReplyStep DEF ScanStatus, Steps, Answers
  <2>4. CASE ScanDuplicate(q)
    <3>1. /\ RowsBy(q) = {}
          /\ seen[q] = "APPROVED" /\ OrgOf[Subject(q)] = Job[q].org
      BY <2>4, NoRow DEF ScanDuplicate, Inv, RequestInv, Progress
    <3> QED
      BY <2>4, <3>1, Undisturbed, GotoStep, ReplyStep DEF ScanDuplicate, Steps, Answers
  <2>5. CASE ScanCreate(q)
    BY <2>5, InsertStep DEF ScanCreate
  <2>6. CASE ScanAccepted(q)
    BY <2>6, Undisturbed, OwnerReplyStep DEF ScanAccepted
  <2> QED BY <1>1, <2>1, <2>2, <2>3, <2>4, <2>5, <2>6 DEF Scan
<1>2. ASSUME NEW q \in Requests, Manual(q) PROVE Inv'
  <2>1. CASE ManualRead(q)
    <3>1. /\ RowsBy(q) = {} /\ ReadsAtMost(q)
          /\ Subject(q) = Job[q].reg /\ seen'[q] = lifecycle[Job[q].reg]
      BY <2>1, NoRow DEF ManualRead, DeskRead, ReadStatus, TypeOK, Subject
    <3> QED
      BY <2>1, <3>1, Undisturbed, GotoStep, ReplyStep DEF ManualRead, DeskRead, Steps, Answers
  <2>2. CASE ManualDuplicate(q)
    <3>1. /\ RowsBy(q) = {}
          /\ seen[q] = "APPROVED" /\ OrgOf[Subject(q)] = Job[q].org
      BY <2>2, NoRow DEF ManualDuplicate, Inv, RequestInv, Progress
    <3> QED
      BY <2>2, <3>1, Undisturbed, GotoStep, ReplyStep DEF ManualDuplicate, Steps, Answers
  <2>3. CASE ManualCreate(q)
    BY <2>3, InsertStep DEF ManualCreate
  <2>4. CASE ManualAccepted(q)
    BY <2>4, Undisturbed, OwnerReplyStep DEF ManualAccepted
  <2> QED BY <1>2, <2>1, <2>2, <2>3, <2>4 DEF Manual
<1>3. ASSUME NEW q \in Requests, Cancel(q) \/ Decide(q) \/ HandOut(q) \/ Notify(q) PROVE Inv'
  <2> USE DEF Deciding
  <2>1. ASSUME DeskRead(q, TRUE, "dup") \/ DeskRead(q, TRUE, "update")
               \/ DeskRead(q, lifecycle[Job[q].reg] # "REJECTED", "lookup"),
               ~Admits(q), pc[q] = "idle"
        PROVE  Inv'
    <3>1. RowsBy(q) = {} /\ ReadsAtMost(q)
      BY <2>1, NoRow DEF DeskRead, ReadStatus, TypeOK
    <3> QED
      BY <2>1, <3>1, Undisturbed, GotoStep, ReplyStep DEF DeskRead, Steps, Answers
  <2>2. CASE Cancel(q)
    BY <2>1, <2>2, NoRow, Undisturbed, GotoStep, ReplyStep
       DEF Cancel, CancelRead, CancelCheck, CancelUpdate, CancelAudit, SetStatus, Steps,
           Answers
  <2>3. CASE Decide(q)
    BY <2>1, <2>3, NoRow, Undisturbed, GotoStep, ReplyStep
       DEF Decide, DecideRead, DecideUpdate, DecideAudit, ApproveIssue, SetStatus, Steps, Answers
  <2>4. CASE GetBadgeRead(q)
    <3>1. RowsBy(q) = {} /\ ReadsAtMost(q)
      BY <2>4, NoRow DEF GetBadgeRead, ReadStatus, TypeOK
    <3> QED
      BY <2>4, <3>1, Undisturbed, GotoStep, ReplyStep DEF GetBadgeRead, Steps, Answers
  <2>5. CASE HandOut(q) /\ ~GetBadgeRead(q)
    BY <2>1, <2>5, NoRow, Undisturbed, GotoStep, ReplyStep
       DEF HandOut, ResendRead, ResendLookup, ResendIssue, ResendAudit,
           GetBadgeLookup, GetBadgeIssue, Steps, Answers
  <2>6. CASE Notify(q)
    BY <2>6, NoRow, Undisturbed, ReplyStep DEF Notify, Answers
  <2> QED BY <1>3, <2>2, <2>3, <2>4, <2>5, <2>6
<1>4. ASSUME NEW q \in Requests, Fail(q) PROVE Inv'
  <2>1. CASE Admits(q) /\ pc[q] = "audit"
    BY <1>4, <2>1, Undisturbed, OwnerReplyStep DEF Fail
  <2>2. CASE ~(Admits(q) /\ pc[q] = "audit")
    BY <1>4, <2>2, NoRow, Undisturbed, ReplyStep DEF Fail, Answers
  <2> QED BY <2>1, <2>2
<1>5. ASSUME UNCHANGED <<checkins, deleted, pc, seen, answer>> PROVE Inv'
  BY <1>5 DEF Inv, UniqueCheckins, CheckinProvenance, SoundCheckin, RequestInv, Progress,
              TruthfulAnswer, RowsBy, EverFor, EverWithKey, Ever
<1>6. ASSUME NEW q \in Requests, Import(q) PROVE Inv'
  BY <1>6, NoRow, Undisturbed, GotoStep, ReplyStep
     DEF Import, ImportRead, ImportUpdate, ImportLookup, ImportIssue, ImportNotify, Steps, Answers
<1>7. ASSUME NEW q \in Requests, DeleteLink(q) PROVE Inv'
  <2>1. CASE DeleteLinkRead(q) \/ DeleteLinkAudit(q)
    BY <2>1, NoRow, Undisturbed, GotoStep, ReplyStep
       DEF DeleteLinkRead, DeleteLinkAudit, Steps, Answers
  <2>2. CASE DeleteLinkDelete(q)
    <3>1. Settled
      BY <2>2, Undisturbed DEF DeleteLinkDelete, Settled, Ever
    <3> QED
      BY <2>2, <3>1, NoRow, GotoStep, ReplyStep DEF DeleteLinkDelete, Steps, Answers
  <2> QED BY <1>7, <2>1, <2>2 DEF DeleteLink
<1> QED
  BY <1>1, <1>2, <1>3, <1>4, <1>5, <1>6, <1>7 DEF Next, Handle, Expire, vars

(***************************************************************************)
(* Whoever is gone has left no check-in behind and gets none: the insert   *)
(* demands the registrant, and nothing brings one back.                    *)
(***************************************************************************)
LEMMA ApartStep == TypeOK /\ Apart /\ [Next]_vars => Apart'
<1> SUFFICES ASSUME TypeOK, Apart, [Next]_vars PROVE Apart'
  OBVIOUS
<1>1. ASSUME NEW q \in Requests, CancelUpdate(q) \/ DecideUpdate(q) PROVE Apart'
  <2>1. PICK status \in Lifecycle : SetStatus(q, status)
    BY <1>1 DEF CancelUpdate, DecideUpdate, Lifecycle
  <2>2. checkins' = checkins /\ deleted' = deleted
    BY <1>1 DEF CancelUpdate, DecideUpdate
  <2> QED
    BY <2>1, <2>2 DEF SetStatus, Apart, Gone, Lifecycle, TypeOK, Checkins
<1>2. ASSUME NEW q \in Requests, ScanCreate(q) \/ ManualCreate(q) PROVE Apart'
  <2>1. InsertCheckin(q) /\ UNCHANGED <<lifecycle, deleted>>
    BY <1>2 DEF ScanCreate, ManualCreate
  <2> QED
    BY <2>1 DEF InsertCheckin, NewRow, Apart, Gone
<1>3. ASSUME NEW q \in Requests, DeleteLinkDelete(q) PROVE Apart'
  BY <1>3 DEF DeleteLinkDelete, Apart, Gone, TypeOK, Checkins
<1>4. ASSUME NEW q \in Requests, Handle(q) \/ Fail(q), ~CancelUpdate(q), ~DecideUpdate(q),
             ~ScanCreate(q), ~ManualCreate(q), ~DeleteLinkDelete(q)
      PROVE  UNCHANGED <<lifecycle, checkins, deleted>>
  BY <1>4
     DEF Handle, Scan, Manual, Cancel, Decide, HandOut, Notify, Fail, ScanKeyLookup, ScanQr,
         ScanStatus, ScanDuplicate, ScanAccepted, ManualRead, ManualDuplicate, ManualAccepted,
         CancelRead, CancelCheck, CancelAudit, DecideRead, DecideAudit, ApproveIssue,
         ResendRead, ResendLookup, ResendIssue, ResendAudit, GetBadgeRead, GetBadgeLookup,
         GetBadgeIssue, DeskRead, Import, ImportRead, ImportUpdate, ImportLookup, ImportIssue,
         ImportNotify, DeleteLink, DeleteLinkRead, DeleteLinkAudit
<1>5. ASSUME UNCHANGED <<lifecycle, checkins, deleted>> PROVE Apart'
  BY <1>5 DEF Apart, Gone
<1> QED
  BY <1>1, <1>2, <1>3, <1>4, <1>5 DEF Next, Expire, vars

LEMMA Invariance == Spec => [](TypeOK /\ Inv /\ Apart)
<1>1. Init => Inv /\ Apart
  BY DEF Init, Inv, Apart, UniqueCheckins, CheckinProvenance, RequestInv, Progress,
         TruthfulAnswer, Admits, RowsBy, EverFor, EverWithKey, Ever
<1> QED
  BY <1>1, InvStep, ApartStep, TypeCorrect, PTL DEF Spec

(***************************************************************************)
(* The properties the model checker verifies at the gate, for any number   *)
(* of registrants, requests, tokens, keys and organizations.               *)
(***************************************************************************)
THEOREM NoDoubleCheckin == Spec => []UniqueCheckins
<1>1. Inv => UniqueCheckins
  BY DEF Inv
<1> QED BY <1>1, Invariance, PTL

(***************************************************************************)
(* Of the requests racing to admit a registrant one at most is told it     *)
(* did.                                                                    *)
(***************************************************************************)
THEOREM SingleWinner == Spec => []OneAccepted
<1>1. TypeOK /\ Inv => OneAccepted
  <2> SUFFICES ASSUME TypeOK, Inv, NEW p \in Requests, NEW q \in Requests,
                      answer[p] = "ACCEPTED", answer[q] = "ACCEPTED", Subject(p) = Subject(q)
               PROVE  p = q
    BY DEF OneAccepted
  <2>1. PICK c \in Ever : c.by = p
    BY DEF Inv, RequestInv, TruthfulAnswer, RowsBy
  <2>2. PICK d \in Ever : d.by = q
    BY DEF Inv, RequestInv, TruthfulAnswer, RowsBy
  <2>3. c.reg = d.reg
    BY <2>1, <2>2 DEF Inv, CheckinProvenance, SoundCheckin
  <2> QED
    BY <2>1, <2>2, <2>3 DEF Inv, UniqueCheckins
<1> QED BY <1>1, Invariance, PTL

(***************************************************************************)
(* Every check-in was written by a request that read APPROVED, within the  *)
(* registrant's organization.                                              *)
(***************************************************************************)
THEOREM EveryCheckinSound == Spec => []CheckinProvenance
<1>1. Inv => CheckinProvenance
  BY DEF Inv
<1> QED BY <1>1, Invariance, PTL

(***************************************************************************)
(* No answer misleads the usher.                                           *)
(***************************************************************************)
THEOREM AnswersAreTrue == Spec => []TruthfulAnswers
<1>1. Inv => TruthfulAnswers
  BY DEF Inv, RequestInv, TruthfulAnswers
<1> QED BY <1>1, Invariance, PTL

----------------------------------------------------------------------------
(***************************************************************************)
(* The desk.  A decision is never taken back, so that whoever read         *)
(* APPROVED deals with a registrant who is decided on, however long ago    *)
(* that was; and so does a request that has just approved one.             *)
(***************************************************************************)
Decided(r) == lifecycle[r] # "PENDING"

Knows(q) ==
  /\ seen[q] = "APPROVED" => Decided(Subject(q))
  /\ Job[q].op = "approve" /\ pc[q] \in {"audit", "issue"} => Decided(Job[q].reg)
  /\ Job[q].op = "getBadge" /\ pc[q] = "issue" => seen[q] = "APPROVED"

\* A code that asks for no approval.
Given(t) == t \in Requests /\ Job[t].op \in {"resend", "import"}
Earned(t) == qr[t] # "none" => Given(t) \/ Decided(Owner(t))

DeskInv == (\A q \in Requests : Knows(q)) /\ (\A t \in Tokens : Earned(t))

Issues(q) == pc[q] = "issue" /\ Job[q].op \in {"approve", "resend", "getBadge", "import"}

LEMMA NoWayBack ==
  ASSUME TypeOK, [Next]_vars, NEW r \in Registrants, Decided(r)
  PROVE  Decided(r)'
<1> USE DEF TypeOK, Decided
<1>1. ASSUME NEW q \in Requests, CancelUpdate(q) \/ DecideUpdate(q) PROVE Decided(r)'
  BY <1>1, SubjectType DEF CancelUpdate, DecideUpdate, SetStatus
<1>2. ASSUME NEW q \in Requests, DeleteLinkDelete(q) PROVE Decided(r)'
  BY <1>2 DEF DeleteLinkDelete
<1>3. ASSUME NEW q \in Requests, Handle(q) \/ Fail(q), ~CancelUpdate(q), ~DecideUpdate(q),
             ~DeleteLinkDelete(q)
      PROVE  lifecycle' = lifecycle
  BY <1>3
     DEF Handle, Scan, Manual, Cancel, Decide, HandOut, Notify, Fail, ScanKeyLookup, ScanQr,
         ScanStatus, ScanDuplicate, ScanCreate, ScanAccepted, ManualRead, ManualDuplicate,
         ManualCreate, ManualAccepted, CancelRead, CancelCheck, CancelAudit, DecideRead,
         DecideAudit, ApproveIssue, ResendRead, ResendLookup, ResendIssue, ResendAudit,
         GetBadgeRead, GetBadgeLookup, GetBadgeIssue, DeskRead, Import, ImportRead,
         ImportUpdate, ImportLookup, ImportIssue, ImportNotify, DeleteLink, DeleteLinkRead,
         DeleteLinkAudit
<1> QED
  BY <1>1, <1>2, <1>3 DEF Next, Expire, vars

\* A code appears only where a request issues it.
LEMMA CodesAreIssued ==
  ASSUME TypeOK, [Next]_vars, NEW t \in Tokens, qr'[t] # "none"
  PROVE  qr[t] # "none" \/ (t \in Requests /\ Issues(t))
<1> USE DEF TypeOK
<1>1. ASSUME NEW q \in Requests,
             ApproveIssue(q) \/ ResendIssue(q) \/ GetBadgeIssue(q) \/ ImportIssue(q)
      PROVE  qr[t] # "none" \/ (t \in Requests /\ Issues(t))
  BY <1>1 DEF ApproveIssue, ResendIssue, GetBadgeIssue, ImportIssue, MayIssue, At, Issues, Tokens
<1>2. ASSUME NEW q \in Requests, DeleteLinkDelete(q) PROVE qr[t] # "none"
  BY <1>2 DEF DeleteLinkDelete
<1>3. ASSUME NEW q \in Requests, Handle(q) \/ Fail(q), ~ApproveIssue(q), ~ResendIssue(q),
             ~GetBadgeIssue(q), ~ImportIssue(q), ~DeleteLinkDelete(q)
      PROVE  qr' = qr
  BY <1>3
     DEF Handle, Scan, Manual, Cancel, Decide, HandOut, Notify, Fail, ScanKeyLookup, ScanQr,
         ScanStatus, ScanDuplicate, ScanCreate, ScanAccepted, ManualRead, ManualDuplicate,
         ManualCreate, ManualAccepted, CancelRead, CancelCheck, CancelUpdate, CancelAudit,
         DecideRead, DecideUpdate, DecideAudit, ResendRead, ResendLookup, ResendAudit,
         GetBadgeRead, GetBadgeLookup, DeskRead, Import, ImportRead, ImportUpdate,
         ImportLookup, ImportNotify, DeleteLink, DeleteLinkRead, DeleteLinkAudit
<1>4. ASSUME NEW u \in Tokens, Expire(u) PROVE qr[t] # "none"
  BY <1>4 DEF Expire
<1> QED
  BY <1>1, <1>2, <1>3, <1>4 DEF Next, vars

\* A request that stays where it is, or goes where nothing is expected of it.
LEMMA KnowsByFrame ==
  ASSUME TypeOK, [Next]_vars, NEW q \in Requests, Knows(q), seen'[q] = seen[q],
         pc'[q] = pc[q] \/ pc'[q] \notin {"audit", "issue"}
  PROVE  Knows(q)'
BY NoWayBack, SubjectType DEF Knows, Jobs

\* A request that reads the status.
LEMMA KnowsByReading ==
  ASSUME TypeOK, NEW q \in Requests, ReadStatus(q), lifecycle' = lifecycle,
         pc'[q] \notin {"audit", "issue"}
  PROVE  Knows(q)'
BY SubjectType DEF Knows, Decided, ReadStatus, TypeOK

LEMMA KnowsStep ==
  ASSUME TypeOK, DeskInv, [Next]_vars, NEW p \in Requests
  PROVE  Knows(p)'
<1> USE DEF At
<1>1. Knows(p) /\ p \in DOMAIN pc /\ p \in DOMAIN seen
  BY DEF DeskInv, TypeOK
<1>2. ASSUME NEW q \in Requests \ {p}, Handle(q) \/ Fail(q)
      PROVE  pc'[p] = pc[p] /\ seen'[p] = seen[p]
  BY <1>2
     DEF TypeOK, Handle, Scan, Manual, Cancel, Decide, HandOut, Notify, Fail, ScanKeyLookup,
         ScanQr, ScanStatus, ScanDuplicate, ScanCreate, ScanAccepted, ManualRead,
         ManualDuplicate, ManualCreate, ManualAccepted, InsertCheckin, CancelRead, CancelCheck,
         CancelUpdate, CancelAudit, SetStatus, DecideRead, DecideUpdate, DecideAudit,
         ApproveIssue, ResendRead, ResendLookup, ResendIssue, ResendAudit, GetBadgeRead,
         GetBadgeLookup, GetBadgeIssue, DeskRead, ReadStatus, Goto, Reply, Import, ImportRead,
         ImportUpdate, ImportLookup, ImportIssue, ImportNotify, DeleteLink, DeleteLinkRead,
         DeleteLinkDelete, DeleteLinkAudit
<1>3. CASE Scan(p) \/ Manual(p)
  <2>1. CASE ScanStatus(p) \/ ManualRead(p)
    BY <2>1, KnowsByReading DEF ScanStatus, ManualRead, DeskRead, Goto, Reply, TypeOK
  <2>2. CASE ~ScanStatus(p) /\ ~ManualRead(p)
    <3>1. Job[p].op \in {"scan", "manual"} /\ seen' = seen
      BY <1>3, <2>2 DEF Scan, Manual, ScanKeyLookup, ScanQr, ScanDuplicate, ScanCreate,
         ScanAccepted, ManualDuplicate, ManualCreate, ManualAccepted
    <3> QED
      BY <1>1, <3>1, NoWayBack, SubjectType DEF Knows
  <2> QED BY <2>1, <2>2
<1>4. CASE Cancel(p)
  <2>1. CASE CancelRead(p)
    BY <2>1, KnowsByReading DEF CancelRead, DeskRead, Goto, Reply, TypeOK
  <2>2. CASE ~CancelRead(p)
    <3>1. Job[p].op = "cancel" /\ seen' = seen
      BY <1>4, <2>2 DEF Cancel, CancelCheck, CancelUpdate, CancelAudit
    <3> QED
      BY <1>1, <3>1, NoWayBack, SubjectType DEF Knows
  <2> QED BY <2>1, <2>2
<1>5. CASE Decide(p)
  <2>1. CASE DecideRead(p)
    BY <2>1, KnowsByReading DEF DecideRead, DeskRead, Goto, Reply, TypeOK
  <2>2. CASE DecideUpdate(p)
    <3>1. Job[p].reg \in Registrants /\ Subject(p) = Job[p].reg /\ Job[p].op # "getBadge"
      BY <2>2, SubjectType DEF DecideUpdate, Deciding, Subject, Jobs
    <3>2. lifecycle'[Job[p].reg] # "PENDING"
      BY <2>2, <3>1 DEF DecideUpdate, SetStatus, Gone, TypeOK
    <3> QED
      BY <3>1, <3>2 DEF Knows, Decided
  <2>3. CASE DecideAudit(p)
    <3>1. Job[p].op # "getBadge" /\ pc[p] = "audit" /\ seen' = seen
      BY <2>3 DEF DecideAudit, Deciding
    <3>2. Job[p].reg \in Registrants
      BY SubjectType DEF Jobs
    <3> QED
      BY <1>1, <3>1, <3>2, NoWayBack, SubjectType DEF Knows
  <2>4. CASE ApproveIssue(p)
    BY <1>1, <2>4, KnowsByFrame DEF ApproveIssue, Goto, TypeOK
  <2> QED BY <1>5, <2>1, <2>2, <2>3, <2>4 DEF Decide
<1>6. CASE HandOut(p)
  <2>1. CASE ResendRead(p) \/ GetBadgeRead(p)
    BY <2>1, KnowsByReading DEF ResendRead, GetBadgeRead, DeskRead, Goto, Reply, TypeOK
  <2>2. CASE ResendLookup(p) \/ ResendIssue(p) \/ ResendAudit(p)
    <3>1. Job[p].op = "resend" /\ seen' = seen
      BY <2>2 DEF ResendLookup, ResendIssue, ResendAudit
    <3> QED
      BY <1>1, <3>1, NoWayBack, SubjectType DEF Knows
  <2>3. CASE GetBadgeLookup(p)
    <3>1. /\ Job[p].op = "getBadge" /\ seen' = seen
          /\ pc'[p] = "issue" => seen[p] = "APPROVED"
      BY <2>3 DEF GetBadgeLookup, Goto, Reply, TypeOK
    <3> QED
      BY <1>1, <3>1, NoWayBack, SubjectType DEF Knows
  <2>4. CASE GetBadgeIssue(p)
    BY <1>1, <2>4, KnowsByFrame DEF GetBadgeIssue, Reply, TypeOK
  <2> QED BY <1>6, <2>1, <2>2, <2>3, <2>4 DEF HandOut
<1>7. CASE Notify(p) \/ Fail(p)
  BY <1>1, <1>7, KnowsByFrame DEF Notify, Fail, Reply, TypeOK
<1>8. ASSUME pc'[p] = pc[p], seen'[p] = seen[p] PROVE Knows(p)'
  BY <1>1, <1>8, KnowsByFrame
<1>9. CASE (\E t \in Tokens : Expire(t)) \/ UNCHANGED vars
  BY <1>8, <1>9 DEF Expire, vars
<1>10. CASE Import(p) \/ DeleteLink(p)
  <2>1. Job[p].op \in {"import", "deleteLink"} /\ seen' = seen
    BY <1>10 DEF Import, ImportRead, ImportUpdate, ImportLookup, ImportIssue, ImportNotify,
                 DeleteLink, DeleteLinkRead, DeleteLinkDelete, DeleteLinkAudit
  <2> QED
    BY <1>1, <2>1, NoWayBack, SubjectType DEF Knows
<1> QED
  BY <1>2, <1>3, <1>4, <1>5, <1>6, <1>7, <1>8, <1>9, <1>10 DEF Next, Handle

LEMMA DeskStep == TypeOK /\ DeskInv /\ [Next]_vars => DeskInv'
<1> SUFFICES ASSUME TypeOK, DeskInv, [Next]_vars PROVE DeskInv'
  OBVIOUS
<1>1. ASSUME NEW t \in Tokens, qr'[t] # "none" PROVE Given(t) \/ Decided(Owner(t))'
  <2>1. Owner(t) \in Registrants
    BY SubjectType DEF Owner, Tokens, Jobs
  <2>2. CASE qr[t] # "none"
    BY <2>1, <2>2, NoWayBack DEF DeskInv, Earned
  <2>3. CASE t \in Requests /\ Issues(t)
    <3>1. Owner(t) = Job[t].reg
      BY <2>3, NobodyAssumption DEF Owner
    <3>2. CASE Job[t].op \in {"resend", "import"}
      BY <2>3, <3>2 DEF Given
    <3>3. CASE Job[t].op \notin {"resend", "import"}
      <4>1. Knows(t) /\ Subject(t) = Job[t].reg
        BY <2>3 DEF DeskInv, Subject, Issues
      <4>2. Decided(Job[t].reg)
        BY <2>3, <3>3, <4>1 DEF Knows, Issues
      <4> QED
        BY <2>1, <3>1, <4>2, NoWayBack
    <3> QED BY <3>2, <3>3
  <2> QED
    BY <1>1, <2>2, <2>3, CodesAreIssued
<1> QED
  BY <1>1, KnowsStep DEF DeskInv, Earned, Given

(***************************************************************************)
(* Whoever awaits a decision is not checked in and holds no code but one   *)
(* resent by the desk or issued by an import, whatever approvals,          *)
(* cancellations, resends, imports, deletions and badge pages overlap and  *)
(* wherever they fail.                                                     *)
(***************************************************************************)
THEOREM UndecidedAreOut == Spec => []UndecidedStayOut
<1>1. Init => DeskInv
  <2> SUFFICES ASSUME Init PROVE DeskInv
    OBVIOUS
  <2>1. \A q \in Requests : Knows(q)
    BY DEF Init, Knows
  <2>2. ASSUME NEW t \in Tokens PROVE Earned(t)
    BY DEF Init, Earned, Decided, Owner
  <2> QED BY <2>1, <2>2 DEF DeskInv
<1>2. TypeOK /\ Inv /\ DeskInv => UndecidedStayOut
  <2> SUFFICES ASSUME TypeOK, Inv, DeskInv, NEW r \in Registrants, ~Decided(r)
               PROVE  /\ RowFor(r) = {}
                      /\ \A t \in BadgesOf(r) : t \in Requests /\ Job[t].op \in {"resend", "import"}
    BY DEF UndecidedStayOut, Decided
  <2>1. ASSUME NEW c \in checkins, c.reg = r PROVE FALSE
    <3>1. c.by \in Requests /\ seen[c.by] = "APPROVED" /\ Subject(c.by) = r
      BY <2>1 DEF TypeOK, Checkins, Inv, CheckinProvenance, SoundCheckin, Ever
    <3> QED
      BY <3>1 DEF DeskInv, Knows
  <2>2. \A t \in BadgesOf(r) : Given(t)
    BY DEF BadgesOf, DeskInv, Earned
  <2> QED
    BY <2>1, <2>2 DEF RowFor, Given
<1> QED
  BY <1>1, <1>2, DeskStep, Invariance, PTL DEF Spec

----------------------------------------------------------------------------
(***************************************************************************)
(* Refinement.  A step of the API adds no check-in and answers nobody,     *)
(* though it may remove registrants; or answers one request; or inserts    *)
(* one check-in.                                                           *)
(***************************************************************************)
Removed == {r \in Registrants : Gone(r)}

Quiet(rs) == Settled /\ answer' = answer /\ Removed' = Removed \cup rs

Framed == Settled /\ Removed' = Removed

Answering(q) == \E a \in Answers \ {"none"} : Reply(q, a) /\ Framed

Inserting(q) == Admits(q) /\ pc[q] = "create" /\ InsertCheckin(q)
                /\ seen' = seen /\ deleted' = deleted /\ lifecycle' = lifecycle

LEMMA FrameStep ==
  ASSUME checkins' = checkins, deleted' = deleted, lifecycle' = lifecycle
  PROVE  Framed
BY Undisturbed DEF Framed, Removed, Gone

LEMMA StepKinds ==
  ASSUME TypeOK, [Next]_vars
  PROVE  \/ \E rs \in SUBSET Registrants : Quiet(rs)
         \/ \E q \in Requests : pc[q] # "done" /\ Answering(q)
         \/ \E q \in Requests : Inserting(q)
<1> DEFINE Kind(q) == \/ \E rs \in SUBSET Registrants : Quiet(rs)
                      \/ pc[q] # "done" /\ Answering(q)
                      \/ Inserting(q)
<1>1. ASSUME NEW q \in Requests, NEW s, Goto(q, s), Framed PROVE Kind(q)
  <2>1. Quiet({})
    BY <1>1 DEF Goto, Quiet, Framed
  <2> QED BY <2>1
<1>2. ASSUME NEW q \in Requests, NEW a \in Answers \ {"none"}, Reply(q, a),
             pc[q] # "done", Framed
      PROVE  Kind(q)
  BY <1>2 DEF Answering
<1>3. \A a \in {"ACCEPTED", "DUPLICATE", "IDEMPOTENT_REPLAY", "INVALID", "WRONG_EVENT",
              "ACCESS_DENIED", "NOT_APPROVED", "OK", "REFUSED", "ERROR"} :
        a \in Answers \ {"none"}
  BY DEF Answers
<1>4. ASSUME NEW q \in Requests, Scan(q) PROVE Kind(q)
  <2>1. CASE ScanQr(q)
    <3>1. PICK v \in ScanVerdicts(q) : IF v = "PASS" THEN Goto(q, "status") ELSE Reply(q, v)
      BY <2>1 DEF ScanQr
    <3>2. v \in {"PASS", "INVALID", "ACCESS_DENIED", "WRONG_EVENT"}
      BY DEF ScanVerdicts
    <3>3. Framed /\ pc[q] # "done"
      BY <2>1, FrameStep DEF ScanQr, At
    <3> HIDE DEF Kind
    <3> QED
      BY <1>1, <1>2, <1>3, <3>1, <3>2, <3>3
  <2>2. CASE ScanCreate(q)
    BY <2>2 DEF ScanCreate, Inserting, At, Admits
  <2>3. CASE ScanKeyLookup(q) \/ ScanStatus(q) \/ ScanDuplicate(q) \/ ScanAccepted(q)
    <3> HIDE DEF Kind
    <3> QED
      BY <1>1, <1>2, <1>3, <2>3, FrameStep
         DEF ScanKeyLookup, ScanStatus, ScanDuplicate, ScanAccepted, At
  <2> QED
    BY <1>4, <2>1, <2>2, <2>3 DEF Scan
<1>5. ASSUME NEW q \in Requests, Manual(q) PROVE Kind(q)
  <2>1. CASE ManualCreate(q)
    BY <2>1 DEF ManualCreate, Inserting, At, Admits
  <2>2. CASE ManualRead(q) \/ ManualDuplicate(q) \/ ManualAccepted(q)
    <3> HIDE DEF Kind
    <3> QED
      BY <1>1, <1>2, <1>3, <2>2, FrameStep
         DEF ManualRead, DeskRead, ManualDuplicate, ManualAccepted, At
  <2> QED
    BY <1>5, <2>1, <2>2 DEF Manual
<1>6. ASSUME NEW q \in Requests, CancelUpdate(q) \/ DecideUpdate(q) PROVE Kind(q)
  <2>1. pc[q] # "done" /\ checkins' = checkins /\ deleted' = deleted
    BY <1>6 DEF CancelUpdate, DecideUpdate, At
  <2>2. PICK status \in Lifecycle : SetStatus(q, status)
    BY <1>6 DEF CancelUpdate, DecideUpdate, Lifecycle
  <2>3. Framed
    BY <2>1, <2>2, Undisturbed, SubjectType
       DEF Framed, Removed, Gone, SetStatus, Lifecycle, TypeOK, Jobs
  <2> HIDE DEF Kind
  <2> QED
    BY <1>1, <1>2, <1>3, <2>1, <2>2, <2>3 DEF SetStatus
<1>7. ASSUME NEW q \in Requests, Cancel(q) \/ Decide(q), ~CancelUpdate(q), ~DecideUpdate(q)
      PROVE  Kind(q)
  <2> HIDE DEF Kind
  <2> QED
    BY <1>1, <1>2, <1>3, <1>7, FrameStep
       DEF Cancel, CancelRead, CancelCheck, CancelAudit, DeskRead, At,
           Decide, Deciding, DecideRead, DecideAudit, ApproveIssue
<1>8. ASSUME NEW q \in Requests, HandOut(q) \/ Notify(q) \/ Fail(q) PROVE Kind(q)
  <2> HIDE DEF Kind
  <2> QED
    BY <1>1, <1>2, <1>3, <1>8, FrameStep
       DEF HandOut, ResendRead, ResendLookup, ResendIssue, ResendAudit, DeskRead, At,
           GetBadgeRead, GetBadgeLookup, GetBadgeIssue, Notify, Fail
<1>9. ASSUME NEW q \in Requests, Import(q) PROVE Kind(q)
  <2> HIDE DEF Kind
  <2> QED
    BY <1>1, <1>2, <1>3, <1>9, FrameStep
       DEF Import, ImportRead, ImportUpdate, ImportLookup, ImportIssue, ImportNotify, At
<1>10. ASSUME NEW q \in Requests, DeleteLink(q) PROVE Kind(q)
  <2>1. CASE DeleteLinkRead(q) \/ DeleteLinkAudit(q)
    <3> HIDE DEF Kind
    <3> QED
      BY <1>1, <1>2, <1>3, <2>1, FrameStep DEF DeleteLinkRead, DeleteLinkAudit, At
  <2>2. CASE DeleteLinkDelete(q) /\ Gone(Job[q].reg)
    <3> HIDE DEF Kind
    <3> QED
      BY <1>2, <1>3, <2>2, FrameStep DEF DeleteLinkDelete, At
  <2>3. CASE DeleteLinkDelete(q) /\ ~Gone(Job[q].reg)
    <3> DEFINE its == {r \in Registrants : LinkOf[r] = LinkOf[Job[q].reg]}
    <3>1. Quiet(its)
      BY <2>3 DEF DeleteLinkDelete, Quiet, Settled, Ever, Goto, Removed, Gone, TypeOK
    <3> QED BY <3>1
  <2> QED BY <1>10, <2>1, <2>2, <2>3 DEF DeleteLink
<1>11. ASSUME NEW q \in Requests, Handle(q) \/ Fail(q) PROVE Kind(q)
  BY <1>4, <1>5, <1>6, <1>7, <1>8, <1>9, <1>10, <1>11 DEF Handle
<1>12. CASE (\E t \in Tokens : Expire(t)) \/ UNCHANGED vars
  <2>1. Framed /\ answer' = answer
    BY <1>12, FrameStep DEF Expire, vars
  <2>2. Quiet({})
    BY <2>1 DEF Framed, Quiet
  <2> QED BY <2>2
<1> QED
  BY <1>11, <1>12 DEF Next

\* Who admitted a registrant is read off the one row there is.
LEMMA AdmittedByRow ==
  ASSUME TypeOK, Inv
  PROVE  /\ \A c \in Ever : AdmittedFrom[c.reg] = c.by
         /\ \A r \in Registrants : EverFor(r) = {} => AdmittedFrom[r] = Nobody
         /\ \A q \in Requests : Ledger!AdmittedBy(q) <=> RowsBy(q) # {}
<1>1. ASSUME NEW c \in Ever PROVE AdmittedFrom[c.reg] = c.by
  <2>1. EverFor(c.reg) = {c}
    BY DEF Inv, UniqueCheckins, EverFor
  <2>2. c.reg \in Registrants
    BY DEF TypeOK, Checkins, Ever
  <2> QED
    BY <2>1, <2>2 DEF AdmittedFrom
<1>2. ASSUME NEW r \in Registrants, EverFor(r) = {} PROVE AdmittedFrom[r] = Nobody
  BY <1>2 DEF AdmittedFrom
<1>3. ASSUME NEW q \in Requests PROVE Ledger!AdmittedBy(q) <=> RowsBy(q) # {}
  <2>1. ASSUME NEW r \in Registrants, AdmittedFrom[r] = q PROVE RowsBy(q) # {}
    <3>1. PICK c \in EverFor(r) : TRUE
      BY <1>2, <2>1, NobodyAssumption
    <3>2. c \in Ever /\ c.by = q
      BY <3>1, <1>1, <2>1 DEF EverFor
    <3> QED
      BY <3>2 DEF RowsBy
  <2>2. ASSUME NEW c \in RowsBy(q) PROVE c.reg \in Registrants /\ AdmittedFrom[c.reg] = q
    BY <1>1 DEF RowsBy, TypeOK, Checkins, Ever
  <2> QED
    BY <2>1, <2>2 DEF Ledger!AdmittedBy
<1> QED
  BY <1>1, <1>2, <1>3

LEMMA TellStep ==
  ASSUME TypeOK, Inv, Inv', NEW q \in Requests, pc[q] # "done", Answering(q)
  PROVE  Ledger!LedgerNext
<1>1. PICK a \in Answers \ {"none"} : Reply(q, a) /\ Framed
  BY DEF Answering
<1>2. answer[q] = "none" /\ answer'[q] = a
  BY <1>1 DEF Reply, TypeOK, Inv, RequestInv, Progress
<1>3. TruthfulAnswer(q)'
  BY DEF Inv, RequestInv
<1>4. AdmittedFrom' = AdmittedFrom
  BY <1>1 DEF AdmittedFrom, EverFor, Framed, Settled
<1>5. a = "ACCEPTED" => AdmittedFrom[Subject(q)] = q
  <2> SUFFICES ASSUME a = "ACCEPTED" PROVE AdmittedFrom[Subject(q)] = q
    OBVIOUS
  <2>1. PICK c \in Ever : c.by = q
    BY <1>1, <1>2, <1>3 DEF TruthfulAnswer, RowsBy, Framed, Settled
  <2> QED
    BY <2>1, AdmittedByRow DEF Inv, CheckinProvenance, SoundCheckin
<1>6. a \in Ledger!Refusals => ~Ledger!AdmittedBy(q)
  BY <1>1, <1>2, <1>3, AdmittedByRow
     DEF TruthfulAnswer, RowsBy, Framed, Settled, Ledger!Refusals
<1>7. a = "DUPLICATE" => AdmittedFrom[Subject(q)] # Nobody
  <2> SUFFICES ASSUME a = "DUPLICATE" PROVE AdmittedFrom[Subject(q)] # Nobody
    OBVIOUS
  <2>1. PICK c \in Ever : c.reg = Subject(q)
    BY <1>1, <1>2, <1>3 DEF TruthfulAnswer, EverFor, Framed, Settled
  <2>2. c.by \in Requests
    BY DEF TypeOK, Checkins, Ever
  <2> QED
    BY <2>1, <2>2, AdmittedByRow, NobodyAssumption
<1>8. a = "IDEMPOTENT_REPLAY" =>
        \E p \in Requests : /\ Ledger!AdmittedBy(p)
                            /\ <<Job[p].org, CheckinKey(p)>> = <<Job[q].org, CheckinKey(q)>>
  <2> SUFFICES ASSUME a = "IDEMPOTENT_REPLAY"
               PROVE  \E p \in Requests :
                        /\ Ledger!AdmittedBy(p)
                        /\ <<Job[p].org, CheckinKey(p)>> = <<Job[q].org, CheckinKey(q)>>
    OBVIOUS
  <2>1. PICK c \in Ever : OrgOf[c.reg] = Job[q].org /\ c.key = CheckinKey(q)
    BY <1>1, <1>2, <1>3 DEF TruthfulAnswer, EverWithKey, Framed, Settled
  <2>2. /\ c.by \in Requests /\ RowsBy(c.by) # {}
        /\ Job[c.by].org = Job[q].org /\ CheckinKey(c.by) = CheckinKey(q)
    BY <2>1 DEF TypeOK, Checkins, RowsBy, Inv, CheckinProvenance, SoundCheckin, Ever
  <2> QED
    BY <2>2, AdmittedByRow
<1>9. answer' = [answer EXCEPT ![q] = a]
  BY <1>1 DEF Reply
<1>10. Removed' = Removed
  BY <1>1 DEF Framed
<1>11. Ledger!Tell(q)
  BY <1>1, <1>2, <1>4, <1>5, <1>6, <1>7, <1>8, <1>9, <1>10
     DEF Ledger!Tell, SubjectOf, SlotOf, Removed
<1> QED
  BY <1>11 DEF Ledger!LedgerNext

LEMMA AdmitStep ==
  ASSUME TypeOK, TypeOK', Inv, Inv', Apart, NEW q \in Requests, Inserting(q)
  PROVE  Ledger!LedgerNext
<1>1. CASE Reply(q, "ERROR") /\ checkins' = checkins
  <2>1. Answering(q)
    BY <1>1, FrameStep DEF Answering, Answers, Inserting
  <2> QED
    BY <2>1, TellStep DEF Inserting
<1>2. CASE /\ ~Gone(Subject(q))
           /\ RowFor(Subject(q)) = {}
           /\ RowWithKey(OrgOf[Subject(q)], CheckinKey(q)) = {}
           /\ checkins' = checkins \cup {[reg |-> Subject(q), key |-> CheckinKey(q), by |-> q]}
           /\ Goto(q, "audit")
  <2> DEFINE r == Subject(q)
             row == [reg |-> r, key |-> CheckinKey(q), by |-> q]
  <2>1. answer[q] = "none" /\ answer' = answer /\ r \in Registrants
    BY <1>2, SubjectType DEF Inserting, Goto, Inv, RequestInv, Progress
  <2>0. EverFor(r) = {} /\ r \notin Removed
    BY <1>2 DEF EverFor, Ever, RowFor, Apart, Removed
  <2>2. AdmittedFrom[r] = Nobody
    BY <2>0, <2>1, AdmittedByRow
  <2>3. ASSUME NEW p \in Requests, Ledger!AdmittedBy(p), Subject(p) \notin Removed
        PROVE  <<Job[p].org, CheckinKey(p)>> # <<Job[q].org, CheckinKey(q)>>
    <3>1. PICK c \in Ever : c.by = p
      BY <2>3, AdmittedByRow DEF RowsBy
    <3>2. OrgOf[c.reg] = Job[p].org /\ c.key = CheckinKey(p) /\ c.reg = Subject(p)
      BY <3>1 DEF Inv, CheckinProvenance, SoundCheckin
    <3>4. c \in checkins
      BY <2>3, <3>2, SubjectType DEF Ever, Apart, Removed
    <3>3. OrgOf[r] = Job[q].org
      BY DEF Inserting, Inv, RequestInv, Progress
    <3> QED
      BY <1>2, <3>2, <3>3, <3>4 DEF RowWithKey
  <2>4. AdmittedFrom' = [AdmittedFrom EXCEPT ![r] = q]
    <3>1. AdmittedFrom'[r] = q
      <4>1. EverFor(r)' = {row}
        BY <1>2, <2>0 DEF EverFor, Ever, Inserting
      <4>2. AdmittedFrom'[r] = (CHOOSE c \in EverFor(r)' : TRUE).by
        BY <2>1, <4>1 DEF AdmittedFrom
      <4>3. (CHOOSE c \in {row} : TRUE) = row /\ row.by = q
        OBVIOUS
      <4> HIDE DEF row, r
      <4> QED
        BY <4>1, <4>2, <4>3
    <3>2. ASSUME NEW s \in Registrants \ {r} PROVE AdmittedFrom'[s] = AdmittedFrom[s]
      <4>1. EverFor(s)' = EverFor(s)
        BY <1>2 DEF EverFor, Ever, Inserting
      <4> QED
        BY <4>1 DEF AdmittedFrom
    <3>3. /\ AdmittedFrom' = [s \in Registrants |-> AdmittedFrom'[s]]
          /\ AdmittedFrom = [s \in Registrants |-> AdmittedFrom[s]]
      BY DEF AdmittedFrom
    <3> HIDE DEF r
    <3> QED
      BY <2>1, <3>1, <3>2, <3>3
  <2>5. Removed' = Removed
    BY FrameStep DEF Inserting, Removed, Gone
  <2>6. Ledger!Admit(q)
    BY <2>0, <2>1, <2>2, <2>3, <2>4, <2>5 DEF Ledger!Admit, SubjectOf, SlotOf, Removed
  <2> QED
    BY <2>6 DEF Ledger!LedgerNext
<1> QED
  BY <1>1, <1>2 DEF Inserting, InsertCheckin, NewRow

(***************************************************************************)
(* The check-in API implements the admission ledger.                       *)
(***************************************************************************)
THEOREM ImplementsLedger == Spec => KeepsLedger
<1>1. Init => Ledger!LedgerInit
  BY BeginningsAssumption
     DEF Init, Ledger!LedgerInit, AdmittedFrom, EverFor, Ever, Gone, Lifecycle
<1>2. TypeOK /\ TypeOK' /\ Inv /\ Inv' /\ Apart /\ [Next]_vars
      => [Ledger!LedgerNext]_(Ledger!ledgerVars)
  <2> SUFFICES ASSUME TypeOK, TypeOK', Inv, Inv', Apart, [Next]_vars
               PROVE  Ledger!LedgerNext \/ UNCHANGED Ledger!ledgerVars
    OBVIOUS
  <2>1. ASSUME NEW rs \in SUBSET Registrants, Quiet(rs) PROVE Ledger!Remove(rs)
    BY <2>1 DEF Ledger!Remove, Quiet, Settled, Removed, AdmittedFrom, EverFor
  <2>2. ASSUME NEW rs \in SUBSET Registrants, Quiet(rs) PROVE Ledger!LedgerNext
    BY <2>1, <2>2 DEF Ledger!LedgerNext
  <2> QED
    BY <2>2, StepKinds, TellStep, AdmitStep
<1> QED
  BY <1>1, <1>2, Invariance, PTL DEF Spec, KeepsLedger, Ledger!LedgerSpec

----------------------------------------------------------------------------
(***************************************************************************)
(* Cancellation.  CancelSparesCheckedIn does not hold; the run             *)
(* attendance_cancel shows a check-in inserted between the count of        *)
(* cancelRegistration and its update.  Nothing else breaks it.             *)
(***************************************************************************)
\* Nobody is checked in while a cancellation of theirs is about to take effect.
NotWhileCancelling ==
  \A c \in checkins' \ checkins, q \in Requests :
    At(q, "cancel", "update") => Job[q].reg # c.reg

CancelClear ==
  \A q \in Requests : At(q, "cancel", "update") => RowFor(Job[q].reg) = {}

\* A cancellation comes to its update only by finding no check-in.
LEMMA CancelArrives ==
  ASSUME TypeOK, [Next]_vars, NEW q \in Requests, Job[q].op = "cancel",
         pc[q] # "update", pc'[q] = "update"
  PROVE  RowFor(Job[q].reg) = {} /\ checkins' = checkins
<1> USE DEF At, Goto, Reply, TypeOK
<1>1. ASSUME NEW p \in Requests, Scan(p) \/ Manual(p) PROVE FALSE
  BY <1>1 DEF Scan, ScanKeyLookup, ScanQr, ScanStatus, ScanDuplicate, ScanCreate, ScanAccepted,
              Manual, ManualRead, DeskRead, ManualDuplicate, ManualCreate, ManualAccepted,
              InsertCheckin
<1>2. ASSUME NEW p \in Requests, Cancel(p)
      PROVE  RowFor(Job[q].reg) = {} /\ checkins' = checkins
  BY <1>2 DEF Cancel, CancelRead, DeskRead, CancelCheck, CancelUpdate, CancelAudit, SetStatus
<1>3. ASSUME NEW p \in Requests, Decide(p) \/ HandOut(p) PROVE FALSE
  BY <1>3 DEF Decide, Deciding, DecideRead, DeskRead, DecideUpdate, SetStatus, DecideAudit,
              ApproveIssue,
              HandOut, ResendRead, ResendLookup, ResendIssue, ResendAudit,
              GetBadgeRead, GetBadgeLookup, GetBadgeIssue
<1>4. ASSUME NEW p \in Requests, Notify(p) \/ Fail(p) PROVE FALSE
  BY <1>4 DEF Notify, Fail
<1>5. CASE (\E t \in Tokens : Expire(t)) \/ UNCHANGED vars
  BY <1>5 DEF Expire, vars
<1>6. ASSUME NEW p \in Requests, Import(p) \/ DeleteLink(p) PROVE FALSE
  BY <1>6 DEF Import, ImportRead, ImportUpdate, ImportLookup, ImportIssue, ImportNotify,
              DeleteLink, DeleteLinkRead, DeleteLinkDelete, DeleteLinkAudit
<1> QED
  BY <1>1, <1>2, <1>3, <1>4, <1>5, <1>6 DEF Next, Handle

(***************************************************************************)
(* What cancelRegistration needs to spare the checked-in: that no check-in *)
(* of the registrant is inserted between its count and its update.  Then,  *)
(* whatever scans, manual check-ins, approvals and cancellations overlap,  *)
(* a cancellation that takes effect meets no check-in.                     *)
(***************************************************************************)
THEOREM ExclusionSparesCheckedIn ==
  Spec /\ [][NotWhileCancelling]_vars => CancelSparesCheckedIn
<1>1. Init => CancelClear
  BY DEF Init, CancelClear, At
<1>2. TypeOK /\ CancelClear /\ [Next]_vars /\ [NotWhileCancelling]_vars => CancelClear'
  <2> SUFFICES ASSUME TypeOK, CancelClear, [Next]_vars, [NotWhileCancelling]_vars,
                      NEW q \in Requests, Job[q].op = "cancel", pc'[q] = "update"
               PROVE  RowFor(Job[q].reg)' = {}
    BY DEF CancelClear, At
  <2>1. CASE pc[q] # "update"
    BY <2>1, CancelArrives DEF RowFor
  <2>2. CASE pc[q] = "update"
    <3>1. RowFor(Job[q].reg) = {}
      BY <2>2 DEF CancelClear, At
    <3>2. \A c \in checkins' \ checkins : c.reg # Job[q].reg
      BY <2>2 DEF NotWhileCancelling, At, vars
    <3> QED
      BY <3>1, <3>2 DEF RowFor
  <2> QED
    BY <2>1, <2>2
<1>3. CancelClear =>
        [\A q \in Requests :
           At(q, "cancel", "update") /\ pc'[q] = "audit" => RowFor(Job[q].reg) = {}]_vars
  BY DEF CancelClear
<1> QED
  BY <1>1, <1>2, <1>3, TypeCorrect, PTL DEF Spec, CancelSparesCheckedIn
=============================================================================
