------------------------------ MODULE SystemJobs ------------------------------
(***************************************************************************)
(* What the `system' queue does besides badges: messages                   *)
(* (registration.confirmation-email, communication.send), imports          *)
(* (import.process), webhooks (webhook.dispatch) and report exports        *)
(* (analytics.report.generate), with the handlers that enqueue them.       *)
(*                                                                         *)
(* A step is one awaited call.  Some throws are caught, some retried by    *)
(* the queue, and a process may die with a job in its hands.  A job that   *)
(* nothing makes good any more is `lost', at most MaxLosses of them; a     *)
(* worker does one job at a time, and at most `deaths' may still die.      *)
(***************************************************************************)
EXTENDS Integers, Sequences, FiniteSets

CONSTANTS
  Requests, Job,     \* what may come, and what it is about
  Traffic,           \* sets of requests that may come in one behaviour, how many
                     \* workers there are, and how often one of them may die
  Emails, NoAddress, \* addresses; an attendee without one for the channel
  BadAddresses,      \* those with `fail' in them
  Registered,        \* addresses in the Registrant table beforehand
  MaxMessages,       \* rows of CommunicationLog there is room for
  Hooks, Edited,     \* webhooks of the organization; those it is editing
  Nobody,
  Retries,           \* attempts of a message or webhook job (3 in the code)
  MaxLosses

Messages == 1..MaxMessages

(***************************************************************************)
(* An approval or a resent badge notifies one attendee (`notify'), a       *)
(* campaign several; a submission has an e-mail address and a telephone    *)
(* number; a row of an import is an address, or nothing usable.            *)
(***************************************************************************)
Ops == {"notify", "bulk", "submit", "import", "report"}
Strategies == {"SKIP", "FLAG", "UPDATE"}
JobRecords == [op: Ops, to: Seq(Emails \cup {NoAddress}), strategy: Strategies]

ASSUME JobAssumption == Job \in [Requests -> JobRecords]
ASSUME RecipientAssumption ==
  \A q \in Requests : /\ Job[q].op = "notify" => Len(Job[q].to) = 1
                      /\ Job[q].op = "submit" => Len(Job[q].to) = 2
ASSUME TrafficAssumption == Traffic \subseteq [coming: SUBSET Requests, workers: Nat, deaths: Nat]
ASSUME NobodyAssumption == NoAddress \notin Emails /\ Nobody \notin Hooks
ASSUME RegisteredAssumption == Registered \subseteq Emails
ASSUME BoundsAssumption == /\ MaxMessages \in Nat
                           /\ Retries \in Nat \ {0} /\ MaxLosses \in Nat

(***************************************************************************)
(* A job is named after the request that enqueued it, or its message.      *)
(***************************************************************************)
Sends == [name: {"send"}, id: Messages]
QueueJobs == Sends \cup [name: {"confirm", "import", "webhook", "report"}, id: Requests]
J(name, id) == [name |-> name, id |-> id]
ASSUME ActorsAssumption == Requests \cap QueueJobs = {}

Attempts(name) == CASE name = "confirm" -> 1
                    [] name \in {"import", "report"} -> 2
                    [] name \in {"send", "webhook"} -> Retries

VARIABLES
  pc, row,          \* requests: the await each stands at; its recipient
  at, made, stalls, \* jobs: await, attempts that failed, workers that died with it
  message,          \* the log row a request or job is about to enqueue
  status, address,  \* rows of CommunicationLog
  taken, upset,     \* history: how often the provider took a message; how often
                    \* the worker did not get to know or to record that
  imports,          \* ImportJob.status
  line, failing,    \* the row an import.process job works on; failedRows
  errors,           \* rows of ImportError, by row number
  table,            \* addresses in the Registrant table
  hook,             \* is each webhook configured and active
  left, current,    \* webhooks a webhook.dispatch job has to call; calls
  told, verdicts,   \* how often a webhook heard of a registration; audit entries
  exports, stored,  \* audit entries of a report; is its artifact stored
  lost,             \* history: jobs cut off before they were added or ended for good
  deaths, workers

requestVars == <<pc, row>>
jobVars == <<at, made, stalls>>
messageVars == <<status, address, taken, upset>>
importVars == <<imports, line, failing, errors, table>>
hookVars == <<hook, left, current, told, verdicts>>
reportVars == <<exports, stored>>
others == <<importVars, hookVars, reportVars>>
faults == <<lost, deaths, workers>>
vars == <<requestVars, jobVars, message, messageVars, importVars, hookVars,
          reportVars, faults>>

Actors == Requests \cup QueueJobs

Init ==
  /\ \E t \in Traffic :
       /\ pc = [q \in Requests |-> IF q \in t.coming THEN "idle" ELSE "done"]
       /\ deaths = t.deaths /\ workers = t.workers
  /\ row = [q \in Requests |-> 1]
  /\ at = [j \in QueueJobs |-> "none"]
  /\ made = [j \in QueueJobs |-> 0]
  /\ stalls = [j \in QueueJobs |-> 0]
  /\ message = [a \in Actors |-> 0]
  /\ status = [m \in Messages |-> "none"]
  /\ address = [m \in Messages |-> NoAddress]
  /\ taken = [m \in Messages |-> 0]
  /\ upset = [m \in Messages |-> 0]
  /\ imports = [q \in Requests |-> "none"]
  /\ line = [q \in Requests |-> 1]
  /\ failing = [q \in Requests |-> 0]
  /\ errors = [q \in Requests |-> {}]
  /\ table = Registered
  /\ hook = [h \in Hooks |-> TRUE]
  /\ left = [q \in Requests |-> {}]
  /\ current = [q \in Requests |-> Nobody]
  /\ told = [q \in Requests |-> [h \in Hooks |-> 0]]
  /\ verdicts = [q \in Requests |-> [h \in Hooks |-> {}]]
  /\ exports = [q \in Requests |-> {}]
  /\ stored = [q \in Requests |-> FALSE]
  /\ lost = {}

----------------------------------------------------------------------------
Go(q, step) == pc' = [pc EXCEPT ![q] = step]
To(j, step) == at' = [at EXCEPT ![j] = step]
Mark(jobs) == lost' = lost \cup jobs /\ UNCHANGED <<deaths, workers>>
Lose(jobs) == Mark(jobs) /\ (jobs = {} \/ Cardinality(lost \cup jobs) <= MaxLosses)

\* A row of CommunicationLog is created for a; queue.add follows.
Write(a, e) ==
  \E m \in Messages :
    /\ status[m] = "none" /\ \A k \in Messages : k < m => status[k] # "none"
    /\ status' = [status EXCEPT ![m] = "QUEUED"]
    /\ address' = [address EXCEPT ![m] = e]
    /\ message' = [message EXCEPT ![a] = m]
    /\ UNCHANGED <<taken, upset>>

(***************************************************************************)
(* queueAutomatedMessage, bulkSend, and the deliveries at the end of       *)
(* submit: each writes a log row and then enqueues it.                     *)
(***************************************************************************)
Recipient(q) == Job[q].to[row[q]]
AllServed(q) == row[q] > Len(Job[q].to)

\* Templates, attendees and the tenant are read; a request may end there.
Begin(q) ==
  /\ pc[q] = "idle"
  /\ \/ Go(q, CASE Job[q].op \in {"notify", "bulk"} -> "log"
                [] Job[q].op = "submit" -> "confirm"
                [] Job[q].op = "import" -> "insert"
                [] Job[q].op = "report" -> "export")
     \/ Job[q].op # "submit" /\ Go(q, "done")
  /\ UNCHANGED <<row, jobVars, message, messageVars, others, faults>>

AfterLog(q) == CASE Job[q].op = "bulk" -> "log"
                 [] Job[q].op = "notify" -> "done"
                 [] Job[q].op = "submit" -> "webhook"

LogMessage(q) ==
  /\ pc[q] = "log" /\ ~AllServed(q)
  /\ IF Recipient(q) = NoAddress
     THEN Go(q, AfterLog(q)) /\ row' = [row EXCEPT ![q] = @ + 1]
          /\ UNCHANGED <<message, messageVars>>
     ELSE Write(q, Recipient(q)) /\ Go(q, "add") /\ UNCHANGED row
  /\ UNCHANGED <<jobVars, others, faults>>

AddMessage(q) ==
  /\ pc[q] = "add"
  /\ To(J("send", message[q]), "waiting")
  /\ message' = [message EXCEPT ![q] = 0]
  /\ Go(q, AfterLog(q)) /\ row' = [row EXCEPT ![q] = @ + 1]
  /\ UNCHANGED <<made, stalls, messageVars, others, faults>>

\* The audit entry of a campaign.
EndBulk(q) ==
  /\ pc[q] = "log" /\ AllServed(q)
  /\ Go(q, "done")
  /\ UNCHANGED <<row, jobVars, message, messageVars, others, faults>>

\* triggerConfirmationEmail; only the approved, where it is enabled, get an SMS.
AddConfirmation(q) ==
  /\ pc[q] = "confirm"
  /\ To(J("confirm", q), "waiting")
  /\ row' = [row EXCEPT ![q] = 2]
  /\ Go(q, "log") \/ Go(q, "webhook")
  /\ UNCHANGED <<made, stalls, message, messageVars, others, faults>>

\* triggerWebhookDispatch
AddWebhook(q) ==
  /\ pc[q] = "webhook"
  /\ To(J("webhook", q), "waiting")
  /\ Go(q, "done")
  /\ UNCHANGED <<row, made, stalls, message, messageVars, others, faults>>

\* ImportsService.createJob: the row, its audit entry, then the job.
InsertImport(q) ==
  /\ pc[q] = "insert"
  /\ imports' = [imports EXCEPT ![q] = "QUEUED"]
  /\ Go(q, "enqueue")
  /\ UNCHANGED <<row, jobVars, message, messageVars, line, failing, errors, table, hookVars,
                 reportVars, faults>>

AddImport(q) ==
  /\ pc[q] = "enqueue"
  /\ To(J("import", q), "waiting")
  /\ Go(q, "done")
  /\ UNCHANGED <<row, made, stalls, message, messageVars, others, faults>>

\* queueDashboardReport: the job first, then the audit entry.
AddReport(q) ==
  /\ pc[q] = "export"
  /\ To(J("report", q), "waiting")
  /\ Go(q, "audit")
  /\ UNCHANGED <<row, made, stalls, message, messageVars, others, faults>>

AuditReport(q) ==
  /\ pc[q] = "audit"
  /\ exports' = [exports EXCEPT ![q] = @ \cup {"QUEUED"}]
  /\ Go(q, "done")
  /\ UNCHANGED <<row, jobVars, message, messageVars, importVars, hookVars, stored, faults>>

(***************************************************************************)
(* An awaited call throws, or the process dies.  The triggers of submit    *)
(* swallow it and go on; a row whose job was not added stays as it is.     *)
(***************************************************************************)
CutOff(q) == CASE pc[q] = "add" -> {J("send", message[q])}
               [] pc[q] = "enqueue" -> {J("import", q)}
               [] pc[q] \in {"confirm", "webhook"} -> {J(pc[q], q)}
               [] OTHER -> {}

RequestThrow(q) ==
  /\ pc[q] \notin {"idle", "done"} /\ Lose(CutOff(q))
  /\ \/ Go(q, "done") /\ UNCHANGED row
     \/ Job[q].op = "submit" /\ pc[q] = "confirm" /\ Go(q, "log") /\ row' = [row EXCEPT ![q] = 2]
     \/ Job[q].op = "submit" /\ pc[q] # "webhook" /\ Go(q, "webhook") /\ UNCHANGED row
  /\ message' = [message EXCEPT ![q] = 0]
  /\ UNCHANGED <<jobVars, messageVars, others>>

RequestStep(q) == \/ Begin(q) \/ LogMessage(q) \/ AddMessage(q) \/ EndBulk(q)
                  \/ AddConfirmation(q) \/ AddWebhook(q)
                  \/ InsertImport(q) \/ AddImport(q) \/ AddReport(q) \/ AuditReport(q)

----------------------------------------------------------------------------
(***************************************************************************)
(* The queue.  A job that throws waits for its next attempt, or has failed *)
(* for good.                                                               *)
(***************************************************************************)
Ended == {"none", "waiting", "done", "failed"}
UnderWay == {j \in QueueJobs : at[j] \notin Ended}
Pending(j) == at[j] \notin {"none", "done", "failed"}
Alive == {j \in QueueJobs : Pending(j)}
Spent(j) == made[j] >= Attempts(j.name)
\* Faulty: one attempt too many.
IsFinalLate(j) == made[j] >= Attempts(j.name)

IsFinal(j) == made[j] + 1 >= Attempts(j.name)

Take(j) ==
  /\ at[j] = "waiting" /\ Cardinality(UnderWay) < workers
  /\ To(j, "start")
  /\ UNCHANGED <<requestVars, made, stalls, message, messageVars, others, faults>>

Ack(j) ==
  /\ at[j] = "ack"
  /\ To(j, "done")
  /\ UNCHANGED <<requestVars, made, stalls, message, messageVars, others, faults>>

Reject(j) == /\ To(j, IF IsFinal(j) THEN "failed" ELSE "waiting")
             /\ made' = [made EXCEPT ![j] = @ + 1]
             /\ UNCHANGED stalls

\* The message whose job another job is about to add.
Sending(j) == IF at[j] = "add" THEN {J("send", message[j])} ELSE {}

\* The worker dies with the job; the second time BullMQ fails the job.
Crash(j) ==
  /\ at[j] \notin Ended
  /\ deaths > 0 /\ deaths' = deaths - 1 /\ UNCHANGED workers
  /\ lost' = lost \cup Sending(j) \cup (IF stalls[j] > 0 THEN {j} ELSE {})
  /\ To(j, IF stalls[j] > 0 THEN "failed" ELSE "waiting")
  /\ stalls' = [stalls EXCEPT ![j] = @ + 1]
  /\ upset' = IF j.name = "send" /\ at[j] \in {"sent", "ack"}
              THEN [upset EXCEPT ![j.id] = @ + 1] ELSE upset
  /\ message' = [message EXCEPT ![j] = 0]
  /\ UNCHANGED <<requestVars, made, status, address, taken, others>>

At(j, name, step) == j.name = name /\ at[j] = step
JobOnly == UNCHANGED <<requestVars, made, stalls, faults>>

----------------------------------------------------------------------------
\* Faulty: a message that was tried before is taken for sent.
SendFindOnce(j) ==
  /\ At(j, "send", "start")
  /\ To(j, IF made[j] > 0 THEN "ack"
           ELSE IF address[j.id] \in BadAddresses THEN "refused" ELSE "call")
  /\ JobOnly /\ UNCHANGED <<message, messageVars, others>>

(***************************************************************************)
(* communication.send                                                      *)
(***************************************************************************)
SendFind(j) ==
  /\ At(j, "send", "start")
  /\ To(j, IF address[j.id] \in BadAddresses THEN "refused" ELSE "call")
  /\ JobOnly /\ UNCHANGED <<message, messageVars, others>>

(***************************************************************************)
(* The configuration is read and the provider called: it takes the         *)
(* message, or not, and its answer may be lost (8 s, then abort).          *)
(***************************************************************************)
SendCall(j) ==
  /\ At(j, "send", "call")
  /\ \/ To(j, "sent") /\ taken' = [taken EXCEPT ![j.id] = @ + 1] /\ UNCHANGED upset
     \/ To(j, "refused") /\ UNCHANGED <<taken, upset>>
     \/ /\ To(j, "refused")
        /\ taken' = [taken EXCEPT ![j.id] = @ + 1]
        /\ upset' = [upset EXCEPT ![j.id] = @ + 1]
  /\ JobOnly /\ UNCHANGED <<message, status, address, others>>

SendSent(j) ==
  /\ At(j, "send", "sent")
  /\ status' = [status EXCEPT ![j.id] = "SENT"]
  /\ To(j, "ack")
  /\ JobOnly /\ UNCHANGED <<message, address, taken, upset, others>>

\* Faulty: the log row is marked, the error not thrown on.
SendFailedQuietly(j) ==
  /\ At(j, "send", "refused")
  /\ status' = [status EXCEPT ![j.id] = "FAILED"]
  /\ To(j, "ack")
  /\ JobOnly /\ UNCHANGED <<message, address, taken, upset, others>>

SendFailed(j) ==
  /\ At(j, "send", "refused")
  /\ status' = [status EXCEPT ![j.id] = "FAILED"]
  /\ Reject(j)
  /\ UNCHANGED <<requestVars, message, address, taken, upset, others, faults>>

(***************************************************************************)
(* registration.confirmation-email: enqueueAutomatedCommunication, which   *)
(* import.process calls too.                                               *)
(***************************************************************************)
ConfirmLookup(j) ==
  /\ At(j, "confirm", "start")
  /\ To(j, "log")
  /\ JobOnly /\ UNCHANGED <<message, messageVars, others>>

WrittenTo(j) == IF j.name = "confirm" THEN Job[j.id].to[1] ELSE Job[j.id].to[line[j.id]]

LogFromJob(j) ==
  /\ at[j] = "log"
  /\ Write(j, WrittenTo(j))
  /\ To(j, "add")
  /\ JobOnly /\ UNCHANGED others

AddFromJob(j) ==
  /\ at[j] = "add"
  /\ at' = [at EXCEPT ![j] = IF j.name = "import" THEN "next" ELSE "ack",
                      ![J("send", message[j])] = "waiting"]
  /\ message' = [message EXCEPT ![j] = 0]
  /\ JobOnly /\ UNCHANGED <<messageVars, others>>

MessageJob(j) == \/ SendFind(j) \/ SendCall(j) \/ SendSent(j) \/ SendFailed(j)
                 \/ ConfirmLookup(j) \/ LogFromJob(j) \/ AddFromJob(j)

----------------------------------------------------------------------------
(***************************************************************************)
(* import.process.  Every attempt works through all rows again.            *)
(***************************************************************************)
Rows(q) == Job[q].to

ImportMark(j) ==
  /\ At(j, "import", "start")
  /\ imports' = [imports EXCEPT ![j.id] = "PROCESSING"]
  /\ line' = [line EXCEPT ![j.id] = 1]
  /\ failing' = [failing EXCEPT ![j.id] = 0]
  /\ To(j, "row")
  /\ JobOnly /\ UNCHANGED <<message, messageVars, errors, table, hookVars, reportVars>>

\* The row is parsed and its address looked for.
ImportRow(j) ==
  /\ At(j, "import", "row")
  /\ LET q == j.id IN
     To(j, IF line[q] > Len(Rows(q)) THEN "finish"
           ELSE IF Rows(q)[line[q]] = NoAddress THEN "error"
           ELSE IF Rows(q)[line[q]] \notin table THEN "create"
           ELSE CASE Job[q].strategy = "SKIP" -> "next"
                  [] Job[q].strategy = "FLAG" -> "error"
                  [] Job[q].strategy = "UPDATE" -> "badge")
  /\ JobOnly /\ UNCHANGED <<message, messageVars, others>>

\* importError.create
ImportError(j) ==
  /\ At(j, "import", "error")
  /\ failing' = [failing EXCEPT ![j.id] = @ + 1]
  /\ errors' = [errors EXCEPT ![j.id] = @ \cup {line[j.id]}]
  /\ To(j, "next")
  /\ JobOnly /\ UNCHANGED <<message, messageVars, imports, line, table, hookVars, reportVars>>

\* registrant.create
ImportCreate(j) ==
  /\ At(j, "import", "create")
  /\ Rows(j.id)[line[j.id]] \notin table
  /\ table' = table \cup {Rows(j.id)[line[j.id]]}
  /\ To(j, "badge")
  /\ JobOnly /\ UNCHANGED <<message, messageVars, imports, line, failing, errors, hookVars,
                           reportVars>>

\* The unique index refuses an address that is there by now; nobody catches it.
ImportRefused(j) ==
  /\ At(j, "import", "create")
  /\ Rows(j.id)[line[j.id]] \in table
  /\ Reject(j) /\ Mark(IF IsFinal(j) THEN {j} ELSE {})
  /\ UNCHANGED <<requestVars, message, messageVars, others>>

\* The telephone number is kept - a throw here is not caught - and
\* issueBadgeForRegistrantFromWorker tried (see BadgePipeline).
ImportBadge(j) ==
  /\ At(j, "import", "badge")
  /\ To(j, "log")
  /\ JobOnly /\ UNCHANGED <<message, messageVars, others>>

ImportNext(j) ==
  /\ At(j, "import", "next")
  /\ line' = [line EXCEPT ![j.id] = @ + 1]
  /\ To(j, "row")
  /\ JobOnly /\ UNCHANGED <<message, messageVars, imports, failing, errors, table, hookVars,
                           reportVars>>

\* Faulty: completed whenever some row was fine.
ImportFinishMild(j) ==
  /\ At(j, "import", "finish")
  /\ imports' = [imports EXCEPT ![j.id] = IF failing[j.id] >= Len(Rows(j.id)) THEN "FAILED"
                                          ELSE "COMPLETED"]
  /\ To(j, "ack")
  /\ JobOnly /\ UNCHANGED <<message, messageVars, line, failing, errors, table, hookVars,
                           reportVars>>

\* Faulty: an import with errors is left without a verdict.
ImportFinishNot(j) ==
  /\ At(j, "import", "finish")
  /\ imports' = [imports EXCEPT ![j.id] = IF failing[j.id] > 0 THEN @ ELSE "COMPLETED"]
  /\ To(j, "ack")
  /\ JobOnly /\ UNCHANGED <<message, messageVars, line, failing, errors, table, hookVars,
                           reportVars>>

ImportFinish(j) ==
  /\ At(j, "import", "finish")
  /\ imports' = [imports EXCEPT ![j.id] = IF failing[j.id] > 0 THEN "FAILED" ELSE "COMPLETED"]
  /\ To(j, "ack")
  /\ JobOnly /\ UNCHANGED <<message, messageVars, line, failing, errors, table, hookVars,
                           reportVars>>

ImportJob(j) == \/ ImportMark(j) \/ ImportRow(j) \/ ImportError(j) \/ ImportCreate(j)
                \/ ImportRefused(j) \/ ImportBadge(j) \/ ImportNext(j) \/ ImportFinish(j)

----------------------------------------------------------------------------
(***************************************************************************)
(* webhook.dispatch: dispatchWebhookEvent.                                 *)
(***************************************************************************)
HookList(j) ==
  /\ At(j, "webhook", "start")
  /\ left' = [left EXCEPT ![j.id] = {h \in Hooks : hook[h]}]
  /\ To(j, "hooks")
  /\ JobOnly /\ UNCHANGED <<message, messageVars, importVars, hook, current, told, verdicts,
                           reportVars>>

\* The endpoint takes the event, or not, and its answer may be lost (5 s).
HookCall(j) ==
  /\ At(j, "webhook", "hooks")
  /\ \E h \in left[j.id] :
       /\ current' = [current EXCEPT ![j.id] = h]
       /\ \/ /\ told' = [told EXCEPT ![j.id][h] = @ + 1]
             /\ To(j, "SUCCESS") \/ To(j, "FAILURE")
          \/ To(j, "FAILURE") /\ UNCHANGED told
  /\ JobOnly /\ UNCHANGED <<message, messageVars, importVars, hook, left, verdicts, reportVars>>

\* Faulty: a delivery that failed is passed over in silence.
HookAuditSuccess(j) ==
  /\ j.name = "webhook" /\ at[j] \in {"SUCCESS", "FAILURE"}
  /\ LET q == j.id  h == current[q]
     IN  /\ verdicts' = IF at[j] = "SUCCESS" THEN [verdicts EXCEPT ![q][h] = @ \cup {at[j]}]
                        ELSE verdicts
         /\ left' = [left EXCEPT ![q] = @ \ {h}]
         /\ current' = [current EXCEPT ![q] = Nobody]
  /\ To(j, "hooks")
  /\ JobOnly /\ UNCHANGED <<message, messageVars, importVars, hook, told, reportVars>>

\* Faulty: what failed is called again at once.
HookAuditAgain(j) ==
  /\ j.name = "webhook" /\ at[j] \in {"SUCCESS", "FAILURE"}
  /\ LET q == j.id  h == current[q]
     IN  /\ verdicts' = [verdicts EXCEPT ![q][h] = @ \cup {at[j]}]
         /\ left' = IF at[j] = "SUCCESS" THEN [left EXCEPT ![q] = @ \ {h}] ELSE left
         /\ current' = [current EXCEPT ![q] = Nobody]
  /\ To(j, "hooks")
  /\ JobOnly /\ UNCHANGED <<message, messageVars, importVars, hook, told, reportVars>>

HookAudit(j) ==
  /\ j.name = "webhook" /\ at[j] \in {"SUCCESS", "FAILURE"}
  /\ LET q == j.id  h == current[q]
     IN  /\ verdicts' = [verdicts EXCEPT ![q][h] = @ \cup {at[j]}]
         /\ left' = [left EXCEPT ![q] = @ \ {h}]
         /\ current' = [current EXCEPT ![q] = Nobody]
  /\ To(j, "hooks")
  /\ JobOnly /\ UNCHANGED <<message, messageVars, importVars, hook, told, reportVars>>

HooksEnd(j) ==
  /\ At(j, "webhook", "hooks") /\ left[j.id] = {}
  /\ To(j, "ack")
  /\ JobOnly /\ UNCHANGED <<message, messageVars, others>>

\* createWebhook, updateWebhook, deleteWebhook
EditHook(h) ==
  /\ h \in Edited
  /\ hook' = [hook EXCEPT ![h] = ~@]
  /\ UNCHANGED <<requestVars, jobVars, message, messageVars, importVars, left, current, told,
                 verdicts, reportVars, faults>>

HookJob(j) == HookList(j) \/ HookCall(j) \/ HookAudit(j) \/ HooksEnd(j)

----------------------------------------------------------------------------
(***************************************************************************)
(* analytics.report.generate                                               *)
(***************************************************************************)
Export(j, entry) == exports' = [exports EXCEPT ![j.id] = @ \cup {entry}]

ReportStart(j) ==
  /\ At(j, "report", "start")
  /\ Export(j, "STARTED") /\ To(j, "render")
  /\ JobOnly /\ UNCHANGED <<message, messageVars, importVars, hookVars, stored>>

\* renderAnalyticsReportArtifact, up to putReportArtifact.
ReportRender(j) ==
  /\ At(j, "report", "render")
  /\ stored' = [stored EXCEPT ![j.id] = TRUE]
  /\ To(j, "completed")
  /\ JobOnly /\ UNCHANGED <<message, messageVars, importVars, hookVars, exports>>

ReportCompleted(j) ==
  /\ At(j, "report", "completed")
  /\ Export(j, "COMPLETED") /\ To(j, "ack")
  /\ JobOnly /\ UNCHANGED <<message, messageVars, importVars, hookVars, stored>>

ReportFailed(j) ==
  /\ At(j, "report", "broken")
  /\ Export(j, "FAILED") /\ Reject(j)
  /\ UNCHANGED <<requestVars, message, messageVars, importVars, hookVars, stored, faults>>

\* What the list of reports shows as ready, and what asking for it returns.
Offered(q) == at[J("report", q)] = "done"
Download(q) == IF ~ Offered(q) THEN "refused"
               ELSE IF stored[q] THEN "artifact" ELSE "missing"

ReportJob(j) == ReportStart(j) \/ ReportRender(j) \/ ReportCompleted(j) \/ ReportFailed(j)

----------------------------------------------------------------------------
(***************************************************************************)
(* An awaited call of a job throws.  The try blocks of communication.send, *)
(* analytics.report.generate and dispatchWebhookEvent record it, an import *)
(* goes on after a badge or mail that failed; anything else, a throw in a  *)
(* catch block too, is the queue's.  Nothing marks an import as FAILED     *)
(* when its last attempt throws.                                           *)
(***************************************************************************)
Caught(j) ==
  CASE j.name = "send" -> IF at[j] = "sent" THEN "refused" ELSE "throw"
    [] j.name = "report" -> IF at[j] \in {"render", "completed"} THEN "broken" ELSE "throw"
    [] j.name = "webhook" -> IF at[j] = "SUCCESS" THEN "FAILURE" ELSE "throw"
    [] j.name = "import" -> IF at[j] \in {"log", "add"} THEN "next" ELSE "throw"
    [] j.name = "confirm" -> "throw"

Throw(j) ==
  /\ at[j] \notin Ended \cup {"ack", "next", "hooks", "call"}
  /\ message' = [message EXCEPT ![j] = 0]
  /\ upset' = IF At(j, "send", "sent") THEN [upset EXCEPT ![j.id] = @ + 1] ELSE upset
  /\ IF Caught(j) # "throw"
     THEN To(j, Caught(j)) /\ Lose(Sending(j)) /\ UNCHANGED <<made, stalls>>
     ELSE Reject(j) /\ Lose(Sending(j) \cup (IF IsFinal(j) THEN {j} ELSE {}))
  /\ UNCHANGED <<requestVars, status, address, taken, others>>

JobStep(j) == \/ Take(j) \/ Ack(j) \/ MessageJob(j) \/ ImportJob(j) \/ HookJob(j) \/ ReportJob(j)

Next == \/ \E q \in Requests : RequestStep(q) \/ RequestThrow(q)
        \/ \E j \in Alive : JobStep(j) \/ Throw(j) \/ Crash(j)
        \/ \E h \in Hooks : EditHook(h)

Spec == Init /\ [][Next]_vars

(***************************************************************************)
(* A process goes on with a request it has started and, when there is a    *)
(* job, with one of the jobs: Node's event loop and BullMQ's fetch loop.   *)
(* Nothing has to succeed, no organizer stops editing.                     *)
(***************************************************************************)
Fairness == WF_vars(\/ \E q \in Requests : RequestStep(q) /\ pc[q] # "idle"
                    \/ \E j \in Alive : JobStep(j))

FairSpec == Spec /\ Fairness

----------------------------------------------------------------------------
JobSteps == Ended \cup {"start", "ack", "call", "sent", "refused", "log", "add", "row", "error",
                        "create", "badge", "next", "finish", "hooks", "SUCCESS", "FAILURE",
                        "render", "completed", "broken"}
Steps == {"idle", "log", "add", "confirm", "webhook", "insert", "enqueue", "export", "audit",
          "done"}

(***************************************************************************)
(* The shape of the state; a job at a row, a call or a message has one.    *)
(***************************************************************************)
TypeOK ==
  /\ pc \in [Requests -> Steps] /\ row \in [Requests -> Nat \ {0}]
  /\ at \in [QueueJobs -> JobSteps]
  /\ made \in [QueueJobs -> Nat] /\ stalls \in [QueueJobs -> 0..2]
  /\ \A j \in QueueJobs : made[j] <= Attempts(j.name) /\ (Pending(j) => ~Spent(j))
  /\ message \in [Actors -> Messages \cup {0}]
  /\ \A q \in Requests : pc[q] = "add" => message[q] # 0
  /\ \A j \in QueueJobs : at[j] = "add" => message[j] # 0
  /\ status \in [Messages -> {"none", "QUEUED", "SENT", "FAILED"}]
  /\ address \in [Messages -> Emails \cup {NoAddress}]
  /\ taken \in [Messages -> Nat] /\ upset \in [Messages -> Nat]
  /\ imports \in [Requests -> {"none", "QUEUED", "PROCESSING", "COMPLETED", "FAILED"}]
  /\ line \in [Requests -> Nat \ {0}] /\ failing \in [Requests -> Nat]
  /\ errors \in [Requests -> SUBSET Nat] /\ table \subseteq Emails
  /\ hook \in [Hooks -> BOOLEAN] /\ left \in [Requests -> SUBSET Hooks]
  /\ current \in [Requests -> Hooks \cup {Nobody}]
  /\ told \in [Requests -> [Hooks -> Nat]]
  /\ verdicts \in [Requests -> [Hooks -> SUBSET {"SUCCESS", "FAILURE"}]]
  /\ exports \in [Requests -> SUBSET {"QUEUED", "STARTED", "COMPLETED", "FAILED"}]
  /\ stored \in [Requests -> BOOLEAN]
  /\ lost \subseteq QueueJobs /\ deaths \in Nat /\ workers \in Nat

(***************************************************************************)
(* A message shown as QUEUED, an import shown as QUEUED or PROCESSING, is  *)
(* never forgotten: its job waits, is under way, or is about to be added,  *)
(* through retries, throws and dying workers - unless that very job was    *)
(* lost, whatever became of the others.                                    *)
(***************************************************************************)
NothingForgotten ==
  /\ \A m \in Messages :
       status[m] = "QUEUED" =>
         \/ Pending(J("send", m)) \/ \E a \in Actors : message[a] = m
         \/ J("send", m) \in lost
  /\ \A q \in Requests :
       imports[q] \in {"QUEUED", "PROCESSING"} =>
         pc[q] = "enqueue" \/ Pending(J("import", q)) \/ J("import", q) \in lost

(***************************************************************************)
(* How a job ended is what its records say, however often it was tried,    *)
(* unless it was lost itself: a message is SENT or FAILED with its job, an *)
(* import has a verdict, a report an audit entry (and, when the dashboard  *)
(* offers its download, an artifact), and every webhook that was there all *)
(* along a verdict.                                                        *)
(***************************************************************************)
OutcomeIsRecorded ==
  \A j \in QueueJobs \ lost :
    /\ j.name = "send" =>
         /\ at[j] = "done" => status[j.id] = "SENT"
         /\ at[j] = "failed" => status[j.id] = "FAILED"
    /\ j.name = "report" =>
         /\ at[j] = "done" => "COMPLETED" \in exports[j.id] /\ stored[j.id]
         /\ at[j] = "failed" => "FAILED" \in exports[j.id]
    /\ at[j] \in {"done", "failed"} =>
         /\ j.name = "import" => imports[j.id] \in {"COMPLETED", "FAILED"}
         /\ j.name = "webhook" => \A h \in Hooks \ Edited : verdicts[j.id][h] # {}

(***************************************************************************)
(* Success is never claimed: what is SENT, reported as delivered, or as    *)
(* exported, was taken by the provider, heard by the webhook, stored.      *)
(***************************************************************************)
ClaimsAreTrue ==
  /\ \A m \in Messages : status[m] = "SENT" => taken[m] > 0
  /\ \A q \in Requests : /\ "COMPLETED" \in exports[q] => stored[q]
                         /\ Offered(q) => Download(q) = "artifact"
                         /\ \A h \in Hooks : "SUCCESS" \in verdicts[q][h] => told[q][h] > 0

\* What is recorded of an effect tells what became of it, in both directions.
RecordsAreTrue == OutcomeIsRecorded /\ ClaimsAreTrue

(***************************************************************************)
(* A message goes out twice only by accident: the provider's answer was    *)
(* lost, it could not be recorded, or the worker died with it; a webhook   *)
(* hears of an event once per attempt.                                     *)
(***************************************************************************)
DuplicatesAreAccidents ==
  /\ \A m \in Messages : taken[m] <= 1 + upset[m]
  /\ \A q \in Requests, h \in Hooks :
       told[q][h] <= 1 + made[J("webhook", q)] + stalls[J("webhook", q)]

(***************************************************************************)
(* COMPLETED means that every row of the import is registered and the      *)
(* organizer is shown no error of any attempt; FAILED that some row has    *)
(* one: the counter of the last attempt and the error rows of all of them  *)
(* agree (queue.provider.ts:1320).                                         *)
(***************************************************************************)
ImportVerdict ==
  \A q \in Requests :
    /\ imports[q] = "COMPLETED" =>
         errors[q] = {} /\ \A i \in DOMAIN Rows(q) : Rows(q)[i] \in table
    /\ imports[q] = "FAILED" => errors[q] # {}

(***************************************************************************)
(* In the end every message has been sent or has failed and every import   *)
(* has its verdict: retries come to an end, and nobody waits for somebody  *)
(* else - unless it was lost.                                              *)
(***************************************************************************)
AllSettle ==
  <>[](/\ \A m \in Messages : status[m] = "QUEUED" => J("send", m) \in lost
       /\ \A q \in Requests :
            imports[q] \in {"QUEUED", "PROCESSING"} => J("import", q) \in lost)
=============================================================================
