----------------------------- MODULE Attendance -----------------------------
(***************************************************************************)
(* Check-in of registrants, as the API of EveMange performs it: the usher  *)
(* endpoint (UsherService.createCheckin) and the organizer's desk          *)
(* (AttendeesService: approve, reject, cancel, manual check-in, resend     *)
(* badge), with the registrant's own badge page (RegistrationsService      *)
(* .getBadge), the import of a row about somebody registered already, and  *)
(* the deletion of a link, which takes its registrants, their codes and    *)
(* their check-ins along, all running concurrently over one database.      *)
(*                                                                         *)
(* A request is an HTTP request, or a row of an import job.  Node runs its *)
(* handler in one go between two awaits, so a step of this module is one   *)
(* awaited database call with the code up to the next one, and steps of    *)
(* different requests interleave freely.  No handler here opens a          *)
(* transaction: what holds between two steps of a request is only what the *)
(* database's unique indexes enforce.                                      *)
(***************************************************************************)
EXTENDS Integers

CONSTANTS
  Registrants,   \* registrants, each of one event
  Requests,      \* HTTP requests
  Job,           \* what each request asks for
  Traffic,       \* sets of requests that may come in one behaviour
  Beginnings,    \* the statuses registrants may have when it begins
  Orgs, Events, Links, Keys,
  NoEvent,       \* a scan that does not name an event (selectedEventId null)
  OrgOf, EventOf, LinkOf, \* organization, event and link of each registrant
  Nobody         \* no request

Ops == {"scan", "manual", "cancel", "approve", "reject", "resend", "getBadge",
        "import", "deleteLink"}

(***************************************************************************)
(* A QR code is named after what issued it: the registration of an         *)
(* auto-approved registrant, or the request that issued another one.       *)
(***************************************************************************)
Tokens == Registrants \cup Requests

Jobs == [op: Ops, reg: Registrants, token: Tokens, key: Keys, org: Orgs,
         event: Events \cup {NoEvent}, zoned: BOOLEAN]

Lifecycle == {"PENDING", "APPROVED", "REJECTED"}

ASSUME JobAssumption == Job \in [Requests -> Jobs]
ASSUME TrafficAssumption == Traffic \subseteq SUBSET Requests
ASSUME BeginningsAssumption == Beginnings \subseteq [Registrants -> Lifecycle]
ASSUME TenancyAssumption == /\ OrgOf \in [Registrants -> Orgs]
                            /\ EventOf \in [Registrants -> Events]
                            /\ LinkOf \in [Registrants -> Links]
ASSUME NobodyAssumption == Nobody \notin Requests /\ Registrants \cap Requests = {}

VARIABLES
  lifecycle,  \* Registrant.lifecycleStatus, or "gone" with its link
  qr,         \* what a scan of each token finds: no row, usable, expired
  checkins,   \* rows of the Checkin table
  deleted,    \* history: those that went with their registrant
  pc,         \* the await each request stands at
  seen,       \* the lifecycleStatus each request has read
  answer      \* the response of each request

vars == <<lifecycle, qr, checkins, deleted, pc, seen, answer>>

Steps == {"idle", "qr", "status", "dup", "create", "lookup", "issue",
          "update", "audit", "notify", "done"}
Answers == {"none", "ACCEPTED", "DUPLICATE", "IDEMPOTENT_REPLAY", "INVALID",
            "WRONG_EVENT", "ACCESS_DENIED", "NOT_APPROVED", "OK", "REFUSED",
            "ERROR"}

Owner(t) == IF t \in Registrants THEN t ELSE Job[t].reg

\* The registrant a request is about.
Subject(q) == IF Job[q].op = "scan" THEN Owner(Job[q].token) ELSE Job[q].reg

(***************************************************************************)
(* The idempotency key a request writes: the device's for a scan, and      *)
(* `manual-<registrant>-<now>' for a manual check-in.                      *)
(***************************************************************************)
CheckinKey(q) == IF Job[q].op = "scan"
                 THEN [kind |-> "device", of |-> Job[q].key]
                 ELSE [kind |-> "manual", of |-> Job[q].reg]

CheckinKeys == [kind: {"device"}, of: Keys] \cup [kind: {"manual"}, of: Registrants]

Checkins == [reg: Registrants, key: CheckinKeys, by: Requests]

Gone(r) == lifecycle[r] = "gone"

NewRow(q) == [reg |-> Subject(q), key |-> CheckinKey(q), by |-> q]

RowFor(r) == {c \in checkins : c.reg = r}
RowWithKey(org, key) == {c \in checkins : OrgOf[c.reg] = org /\ c.key = key}
BadgesOf(r) == {t \in Tokens : Owner(t) = r /\ qr[t] # "none"}

(***************************************************************************)
(* A registrant approved on submission has a QR code unless issuing it     *)
(* failed, which submission tolerates.                                     *)
(***************************************************************************)
Init ==
  /\ lifecycle \in Beginnings
  /\ \E issued \in SUBSET {r \in Registrants : lifecycle[r] = "APPROVED"} :
       qr = [t \in Tokens |-> IF t \in issued THEN "active" ELSE "none"]
  /\ checkins = {} /\ deleted = {}
  /\ \E coming \in Traffic :
       pc = [q \in Requests |-> IF q \in coming THEN "idle" ELSE "done"]
  /\ seen = [q \in Requests |-> "PENDING"]
  /\ answer = [q \in Requests |-> "none"]

----------------------------------------------------------------------------
(***************************************************************************)
(* Control of a request.                                                   *)
(***************************************************************************)
At(q, op, step) == Job[q].op = op /\ pc[q] = step

Goto(q, step) == pc' = [pc EXCEPT ![q] = step] /\ UNCHANGED answer

Reply(q, a) == /\ pc' = [pc EXCEPT ![q] = "done"]
               /\ answer' = [answer EXCEPT ![q] = a]

ReadStatus(q) == seen' = [seen EXCEPT ![q] = lifecycle[Subject(q)]]

(***************************************************************************)
(* Faulty inserts, for comparison: without the unique indexes; taking a    *)
(* violation for success; overwriting the row of the same registrant.      *)
(***************************************************************************)
InsertUnindexed(q) ==
  /\ ~Gone(Subject(q))
  /\ checkins' = checkins \cup {NewRow(q)} /\ Goto(q, "audit")

InsertIgnoringConflict(q) ==
  /\ ~Gone(Subject(q))
  /\ checkins' = IF RowFor(Subject(q)) = {} THEN checkins \cup {NewRow(q)} ELSE checkins
  /\ Goto(q, "audit")

InsertOverwriting(q) ==
  /\ ~Gone(Subject(q))
  /\ checkins' = (checkins \ RowFor(Subject(q))) \cup {NewRow(q)}
  /\ Goto(q, "audit")

(***************************************************************************)
(* checkin.create.  The table is unique in (organizationId,                *)
(* idempotencyKey) and in (eventId, registrantId); a registrant has one    *)
(* event, so the second is uniqueness per registrant.  The registrant must *)
(* still be there.  Neither caller catches the violation: the client gets  *)
(* a 500.                                                                  *)
(***************************************************************************)
InsertCheckin(q) ==
  LET r == Subject(q)
      violation == \/ RowFor(r) # {} \/ RowWithKey(OrgOf[r], CheckinKey(q)) # {}
                   \/ Gone(r)
  IN  \/ /\ violation
         /\ Reply(q, "ERROR")
         /\ UNCHANGED checkins
      \/ /\ ~violation
         /\ checkins' = checkins \cup {NewRow(q)}
         /\ Goto(q, "audit")

----------------------------------------------------------------------------
(***************************************************************************)
(* POST /usher/checkins                                                    *)
(***************************************************************************)
\* Faulty: the idempotency key looked up in every organization.
ScanKeyAnywhere(q) ==
  /\ At(q, "scan", "idle")
  /\ IF \E c \in checkins : c.key = CheckinKey(q)
     THEN Reply(q, "IDEMPOTENT_REPLAY")
     ELSE Goto(q, "qr")
  /\ UNCHANGED <<lifecycle, qr, checkins, deleted, seen>>

ScanKeyLookup(q) ==
  /\ At(q, "scan", "idle")
  /\ IF RowWithKey(Job[q].org, CheckinKey(q)) # {}
     THEN Reply(q, "IDEMPOTENT_REPLAY")
     ELSE Goto(q, "qr")
  /\ UNCHANGED <<lifecycle, qr, checkins, deleted, seen>>

\* Faulty: the organization of the registrant not compared with the usher's.
ScanVerdictsAnyOrg(q) ==
  LET t == Job[q].token
  IN  IF qr[t] # "active" THEN {"INVALID"}
      ELSE IF Job[q].event \notin {NoEvent, EventOf[Owner(t)]} THEN {"WRONG_EVENT"}
      ELSE {"PASS"}

(***************************************************************************)
(* Everything decided on the one read of the QR code.  Which zones admit a *)
(* registrant is data of its link and form answers: a scan for a zone may  *)
(* be let through or not.                                                  *)
(***************************************************************************)
ScanVerdicts(q) ==
  LET t == Job[q].token  r == Owner(t)
  IN  IF qr[t] # "active" THEN {"INVALID"}
      ELSE IF OrgOf[r] # Job[q].org THEN {"ACCESS_DENIED"}
      ELSE IF Job[q].event \notin {NoEvent, EventOf[r]} THEN {"WRONG_EVENT"}
      ELSE IF Job[q].zoned THEN {"ACCESS_DENIED", "PASS"}
      ELSE {"PASS"}

ScanQr(q) ==
  /\ At(q, "scan", "qr")
  /\ \E v \in ScanVerdicts(q) :
       IF v = "PASS" THEN Goto(q, "status") ELSE Reply(q, v)
  /\ UNCHANGED <<lifecycle, qr, checkins, deleted, seen>>

ScanStatus(q) ==
  /\ At(q, "scan", "status")
  /\ ReadStatus(q)
  /\ IF lifecycle[Subject(q)] = "APPROVED"
     THEN Goto(q, "dup")
     ELSE Reply(q, "NOT_APPROVED")
  /\ UNCHANGED <<lifecycle, qr, checkins, deleted>>

ScanDuplicate(q) ==
  /\ At(q, "scan", "dup")
  /\ IF RowFor(Subject(q)) # {} THEN Reply(q, "DUPLICATE") ELSE Goto(q, "create")
  /\ UNCHANGED <<lifecycle, qr, checkins, deleted, seen>>

ScanCreate(q) ==
  /\ At(q, "scan", "create")
  /\ InsertCheckin(q)
  /\ UNCHANGED <<lifecycle, qr, deleted, seen>>

ScanAccepted(q) ==
  /\ At(q, "scan", "audit")
  /\ Reply(q, "ACCEPTED")
  /\ UNCHANGED <<lifecycle, qr, checkins, deleted, seen>>

----------------------------------------------------------------------------
(***************************************************************************)
(* Every desk operation first reads the registrant within the caller's     *)
(* organization, and refuses (404) a registrant of another one, or one who *)
(* is gone.  An update of one who has gone since throws.                   *)
(***************************************************************************)
DeskRead(q, ok, next) ==
  /\ ReadStatus(q)
  /\ IF OrgOf[Job[q].reg] = Job[q].org /\ ~Gone(Job[q].reg) /\ ok
     THEN Goto(q, next) ELSE Reply(q, "REFUSED")
  /\ UNCHANGED <<lifecycle, qr, checkins, deleted>>

SetStatus(q, status) ==
  IF Gone(Job[q].reg)
  THEN Reply(q, "ERROR") /\ UNCHANGED lifecycle
  ELSE Goto(q, "audit") /\ lifecycle' = [lifecycle EXCEPT ![Job[q].reg] = status]

ManualRead(q) ==
  /\ At(q, "manual", "idle")
  /\ DeskRead(q, lifecycle[Job[q].reg] = "APPROVED", "dup")

ManualDuplicate(q) ==
  /\ At(q, "manual", "dup")
  /\ IF RowFor(Job[q].reg) # {} THEN Reply(q, "REFUSED") ELSE Goto(q, "create")
  /\ UNCHANGED <<lifecycle, qr, checkins, deleted, seen>>

ManualCreate(q) ==
  /\ At(q, "manual", "create")
  /\ InsertCheckin(q)
  /\ UNCHANGED <<lifecycle, qr, deleted, seen>>

ManualAccepted(q) ==
  /\ At(q, "manual", "audit")
  /\ Reply(q, "ACCEPTED")
  /\ UNCHANGED <<lifecycle, qr, checkins, deleted, seen>>

CancelRead(q) ==
  /\ At(q, "cancel", "idle")
  /\ DeskRead(q, TRUE, "dup")

CancelCheck(q) ==
  /\ At(q, "cancel", "dup")
  /\ IF RowFor(Job[q].reg) # {} THEN Reply(q, "REFUSED") ELSE Goto(q, "update")
  /\ UNCHANGED <<lifecycle, qr, checkins, deleted, seen>>

CancelUpdate(q) ==
  /\ At(q, "cancel", "update")
  /\ SetStatus(q, "REJECTED")
  /\ UNCHANGED <<qr, checkins, deleted, seen>>

----------------------------------------------------------------------------
(***************************************************************************)
(* updateLifecycleStatus, for approve and for reject.                      *)
(***************************************************************************)
Deciding(q) == Job[q].op \in {"approve", "reject"}

DecideRead(q) ==
  /\ Deciding(q) /\ pc[q] = "idle"
  /\ DeskRead(q, TRUE, "update")

DecideUpdate(q) ==
  /\ Deciding(q) /\ pc[q] = "update"
  /\ SetStatus(q, IF Job[q].op = "approve" THEN "APPROVED" ELSE "REJECTED")
  /\ UNCHANGED <<qr, checkins, deleted, seen>>

(***************************************************************************)
(* transitionedToApproved comes from the status read before the update.    *)
(***************************************************************************)
DecideAudit(q) ==
  /\ Deciding(q) /\ pc[q] = "audit"
  /\ Goto(q, IF Job[q].op = "approve" /\ seen[q] # "APPROVED" THEN "issue" ELSE "notify")
  /\ UNCHANGED <<lifecycle, qr, checkins, deleted, seen>>

\* issueForRegistrant: it succeeds, or its failure is swallowed.
MayIssue(q) == \/ UNCHANGED qr
               \/ ~Gone(Job[q].reg) /\ qr' = [qr EXCEPT ![q] = "active"]

ApproveIssue(q) ==
  /\ At(q, "approve", "issue")
  /\ MayIssue(q)
  /\ Goto(q, "notify")
  /\ UNCHANGED <<lifecycle, checkins, deleted, seen>>

CancelAudit(q) ==
  /\ At(q, "cancel", "audit")
  /\ Goto(q, "notify")
  /\ UNCHANGED <<lifecycle, qr, checkins, deleted, seen>>

\* queueAutomatedMessage, the last await of approve, reject and cancel: its log
\* entry names the registrant.
Notify(q) ==
  /\ pc[q] = "notify" /\ Job[q].op # "import"
  /\ Reply(q, IF Gone(Job[q].reg) THEN "ERROR" ELSE "OK")
  /\ UNCHANGED <<lifecycle, qr, checkins, deleted, seen>>

----------------------------------------------------------------------------
(***************************************************************************)
(* Handing out a badge again: the desk refuses only a rejected registrant; *)
(* the registrant's badge page issues a first badge to an approved one.    *)
(***************************************************************************)
ResendRead(q) ==
  /\ At(q, "resend", "idle")
  /\ DeskRead(q, lifecycle[Job[q].reg] # "REJECTED", "lookup")

ResendLookup(q) ==
  /\ At(q, "resend", "lookup")
  /\ Goto(q, IF BadgesOf(Job[q].reg) = {} THEN "issue" ELSE "audit")
  /\ UNCHANGED <<lifecycle, qr, checkins, deleted, seen>>

ResendIssue(q) ==
  /\ At(q, "resend", "issue")
  /\ IF Gone(Job[q].reg)
     THEN Reply(q, "ERROR") /\ UNCHANGED qr
     ELSE Goto(q, "audit") /\ qr' = [qr EXCEPT ![q] = "active"]
  /\ UNCHANGED <<lifecycle, checkins, deleted, seen>>

ResendAudit(q) ==
  /\ At(q, "resend", "audit")
  /\ Reply(q, "OK")
  /\ UNCHANGED <<lifecycle, qr, checkins, deleted, seen>>

GetBadgeRead(q) ==
  /\ At(q, "getBadge", "idle")
  /\ ReadStatus(q)
  /\ IF Gone(Job[q].reg) THEN Reply(q, "REFUSED") ELSE Goto(q, "lookup")
  /\ UNCHANGED <<lifecycle, qr, checkins, deleted>>

\* Faulty: a first badge issued whatever the status.
GetBadgeLookupAnyStatus(q) ==
  /\ At(q, "getBadge", "lookup")
  /\ IF BadgesOf(Job[q].reg) = {} THEN Goto(q, "issue") ELSE Reply(q, "OK")
  /\ UNCHANGED <<lifecycle, qr, checkins, deleted, seen>>

GetBadgeLookup(q) ==
  /\ At(q, "getBadge", "lookup")
  /\ IF BadgesOf(Job[q].reg) = {} /\ seen[q] = "APPROVED"
     THEN Goto(q, "issue")
     ELSE Reply(q, "OK")
  /\ UNCHANGED <<lifecycle, qr, checkins, deleted, seen>>

GetBadgeIssue(q) ==
  /\ At(q, "getBadge", "issue")
  /\ MayIssue(q)
  /\ Reply(q, "OK")
  /\ UNCHANGED <<lifecycle, checkins, deleted, seen>>

----------------------------------------------------------------------------
(***************************************************************************)
(* A row of an import, under the strategy UPDATE, about somebody who is    *)
(* registered already: the name is updated and a first badge issued,       *)
(* whatever the status; if that fails, or the message after it, the row    *)
(* counts as imported all the same.  (Of one who is gone, a new registrant *)
(* would be made, of a link that is gone as well.)                         *)
(***************************************************************************)
ImportRead(q) ==
  /\ At(q, "import", "idle")
  /\ IF Gone(Job[q].reg) THEN Reply(q, "ERROR") ELSE Goto(q, "update")
  /\ UNCHANGED <<lifecycle, qr, checkins, deleted, seen>>

ImportUpdate(q) ==
  /\ At(q, "import", "update")
  /\ IF Gone(Job[q].reg) THEN Reply(q, "ERROR") ELSE Goto(q, "lookup")
  /\ UNCHANGED <<lifecycle, qr, checkins, deleted, seen>>

ImportLookup(q) ==
  /\ At(q, "import", "lookup")
  /\ Goto(q, IF BadgesOf(Job[q].reg) = {} THEN "issue" ELSE "notify")
  /\ UNCHANGED <<lifecycle, qr, checkins, deleted, seen>>

ImportIssue(q) ==
  /\ At(q, "import", "issue")
  /\ MayIssue(q)
  /\ Goto(q, "notify")
  /\ UNCHANGED <<lifecycle, checkins, deleted, seen>>

ImportNotify(q) ==
  /\ At(q, "import", "notify")
  /\ Reply(q, "OK")
  /\ UNCHANGED <<lifecycle, qr, checkins, deleted, seen>>

----------------------------------------------------------------------------
(***************************************************************************)
(* DELETE of the link of a registrant.                                     *)
(***************************************************************************)
DeleteLinkRead(q) ==
  /\ At(q, "deleteLink", "idle")
  /\ IF OrgOf[Job[q].reg] = Job[q].org /\ ~Gone(Job[q].reg)
     THEN Goto(q, "update") ELSE Reply(q, "REFUSED")
  /\ UNCHANGED <<lifecycle, qr, checkins, deleted, seen>>

DeleteLinkDelete(q) ==
  LET its == {r \in Registrants : LinkOf[r] = LinkOf[Job[q].reg]}
      rows == {c \in checkins : c.reg \in its}
  IN  /\ At(q, "deleteLink", "update")
      /\ \/ /\ Gone(Job[q].reg)
            /\ Reply(q, "ERROR")
            /\ UNCHANGED <<lifecycle, qr, checkins, deleted>>
         \/ /\ ~Gone(Job[q].reg)
            /\ lifecycle' = [r \in Registrants |-> IF r \in its THEN "gone" ELSE lifecycle[r]]
            /\ qr' = [t \in Tokens |-> IF Owner(t) \in its THEN "none" ELSE qr[t]]
            /\ checkins' = checkins \ rows
            /\ deleted' = deleted \cup rows
            /\ Goto(q, "audit")
      /\ UNCHANGED seen

DeleteLinkAudit(q) ==
  /\ At(q, "deleteLink", "audit")
  /\ Reply(q, "OK")
  /\ UNCHANGED <<lifecycle, qr, checkins, deleted, seen>>

----------------------------------------------------------------------------
(***************************************************************************)
(* An awaited call throws, or the process dies, before its effect: the     *)
(* client gets a 500 or no response, and what was written stays.           *)
(***************************************************************************)
Fail(q) ==
  /\ pc[q] \notin {"idle", "done"}
  /\ Reply(q, "ERROR")
  /\ UNCHANGED <<lifecycle, qr, checkins, deleted, seen>>

\* Thirty days pass, or a verification marks the code EXPIRED.
Expire(t) ==
  /\ qr[t] = "active"
  /\ qr' = [qr EXCEPT ![t] = "expired"]
  /\ UNCHANGED <<lifecycle, checkins, deleted, pc, seen, answer>>

Scan(q) == \/ ScanKeyLookup(q) \/ ScanQr(q) \/ ScanStatus(q)
           \/ ScanDuplicate(q) \/ ScanCreate(q) \/ ScanAccepted(q)
Manual(q) == \/ ManualRead(q) \/ ManualDuplicate(q) \/ ManualCreate(q)
             \/ ManualAccepted(q)
Cancel(q) == \/ CancelRead(q) \/ CancelCheck(q) \/ CancelUpdate(q) \/ CancelAudit(q)
Decide(q) == \/ DecideRead(q) \/ DecideUpdate(q) \/ DecideAudit(q) \/ ApproveIssue(q)
HandOut(q) == \/ ResendRead(q) \/ ResendLookup(q) \/ ResendIssue(q) \/ ResendAudit(q)
              \/ GetBadgeRead(q) \/ GetBadgeLookup(q) \/ GetBadgeIssue(q)

Import(q) == \/ ImportRead(q) \/ ImportUpdate(q) \/ ImportLookup(q) \/ ImportIssue(q)
             \/ ImportNotify(q)
DeleteLink(q) == DeleteLinkRead(q) \/ DeleteLinkDelete(q) \/ DeleteLinkAudit(q)

Handle(q) == \/ Scan(q) \/ Manual(q) \/ Cancel(q) \/ Decide(q) \/ HandOut(q) \/ Notify(q)
             \/ Import(q) \/ DeleteLink(q)

Next == \/ \E q \in Requests : Handle(q) \/ Fail(q)
        \/ \E t \in Tokens : Expire(t)

Spec == Init /\ [][Next]_vars

----------------------------------------------------------------------------
(***************************************************************************)
(* The shape of the state of the check-in API.                             *)
(***************************************************************************)
TypeOK ==
  /\ lifecycle \in [Registrants -> Lifecycle \cup {"gone"}]
  /\ qr \in [Tokens -> {"none", "active", "expired"}]
  /\ checkins \subseteq Checkins /\ deleted \subseteq Checkins
  /\ pc \in [Requests -> Steps]
  /\ seen \in [Requests -> Lifecycle \cup {"gone"}]
  /\ answer \in [Requests -> Answers]

\* Every check-in there has been.
Ever == checkins \cup deleted

(***************************************************************************)
(* However many tokens, keys, ushers and desks compete, a registrant is    *)
(* checked in once and never again, and no two check-ins of an             *)
(* organization share an idempotency key.  The lookups before the insert   *)
(* (usher.service.ts:412, attendees.service.ts:513) do not ensure this:    *)
(* two requests may pass them together.                                    *)
(***************************************************************************)
UniqueCheckins ==
  /\ \A c, d \in Ever : c.reg = d.reg => c = d
  /\ \A c, d \in checkins : OrgOf[c.reg] = OrgOf[d.reg] /\ c.key = d.key => c = d

(***************************************************************************)
(* Two doors never both hear ACCEPTED for one registrant, be it for two    *)
(* badges of theirs, for one badge scanned twice or for a scan and a       *)
(* manual check-in: of the racing createCheckin / manualCheckIn calls one  *)
(* wins.                                                                   *)
(***************************************************************************)
OneAccepted ==
  \A p, q \in Requests :
    answer[p] = "ACCEPTED" /\ answer[q] = "ACCEPTED" /\ Subject(p) = Subject(q) => p = q

SoundCheckin(c) ==
  /\ Job[c.by].op \in {"scan", "manual"}
  /\ c.reg = Subject(c.by) /\ c.key = CheckinKey(c.by)
  /\ OrgOf[c.reg] = Job[c.by].org
  /\ seen[c.by] = "APPROVED"
  /\ \/ pc[c.by] = "audit" /\ answer[c.by] = "none"
     \/ pc[c.by] = "done" /\ answer[c.by] \in {"ACCEPTED", "ERROR"}

(***************************************************************************)
(* Every check-in was written by a request of the registrant's own         *)
(* organization that had itself read the registrant as APPROVED, and that  *)
(* request is never told it failed to admit: the status and organization   *)
(* checks of createCheckin and manualCheckIn happen awaits before the      *)
(* insert, on data read at different times.                                *)
(***************************************************************************)
CheckinProvenance == \A c \in Ever : SoundCheckin(c)

RowsBy(q) == {c \in Ever : c.by = q}
EverFor(r) == {c \in Ever : c.reg = r}
EverWithKey(org, key) == {c \in Ever : OrgOf[c.reg] = org /\ c.key = key}

TruthfulAnswer(q) ==
  /\ answer[q] = "ACCEPTED" => RowsBy(q) # {}
  /\ answer[q] = "DUPLICATE" => EverFor(Subject(q)) # {}
  /\ answer[q] = "IDEMPOTENT_REPLAY" => EverWithKey(Job[q].org, CheckinKey(q)) # {}
  /\ answer[q] \notin {"none", "ACCEPTED", "ERROR"} => RowsBy(q) = {}

(***************************************************************************)
(* No answer misleads the usher: ACCEPTED means this request wrote the     *)
(* check-in, DUPLICATE that another one did, IDEMPOTENT_REPLAY that the    *)
(* same key of the same organization was used by a committed check-in, and *)
(* no refusal is given by a request that wrote one.                        *)
(***************************************************************************)
TruthfulAnswers == \A q \in Requests : TruthfulAnswer(q)

(***************************************************************************)
(* A registrant still awaiting a decision is not checked in, and has no    *)
(* QR code other than one the desk resent or an import issued, which ask   *)
(* for no approval: the getBadge and approve paths issue on a status they  *)
(* read earlier, and no path takes a decision back to PENDING in between.  *)
(***************************************************************************)
UndecidedStayOut ==
  \A r \in Registrants :
    lifecycle[r] = "PENDING" =>
      /\ RowFor(r) = {}
      /\ \A t \in BadgesOf(r) : t \in Requests /\ Job[t].op \in {"resend", "import"}

----------------------------------------------------------------------------
(***************************************************************************)
(* The promise of AdmissionLedger, with the Checkin table, and what was    *)
(* deleted from it, as the ledger.                                         *)
(***************************************************************************)
AdmittedFrom ==
  [r \in Registrants |->
     IF EverFor(r) = {} THEN Nobody ELSE (CHOOSE c \in EverFor(r) : TRUE).by]

SubjectOf == [q \in Requests |-> Subject(q)]
SlotOf == [q \in Requests |-> <<Job[q].org, CheckinKey(q)>>]

Ledger == INSTANCE AdmissionLedger
            WITH admitted <- AdmittedFrom, told <- answer,
                 removed <- {r \in Registrants : Gone(r)}

(***************************************************************************)
(* Every behaviour of the API is one of the ledger: admissions are single, *)
(* final and truthfully reported, with the answer given one or more awaits *)
(* after the row is written and with failures and deletions in between.    *)
(***************************************************************************)
KeepsLedger == Ledger!LedgerSpec

(***************************************************************************)
(* The comment and the message of cancelRegistration                       *)
(* (attendees.service.ts:566,577): a checked-in attendee cannot be         *)
(* cancelled.  The step by which a cancellation takes effect never meets   *)
(* one.                                                                    *)
(***************************************************************************)
CancelSparesCheckedIn ==
  [][\A q \in Requests :
       At(q, "cancel", "update") /\ pc'[q] = "audit" => RowFor(Job[q].reg) = {}]_vars
=============================================================================
