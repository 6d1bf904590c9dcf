-------------------------- MODULE SystemJobs_proofs --------------------------
(***************************************************************************)
(* Proofs about SystemJobs, for any requests, messages, imports, webhooks  *)
(* and reports, any number of workers, retries and deaths, and any bound   *)
(* on losses.                                                              *)
(*                                                                         *)
(* A job is added once, by the request or job that holds its message or    *)
(* stands before queue.add; from then on only its own steps move it.  The  *)
(* invariants say of every step of a job what has been recorded by then.   *)
(***************************************************************************)
EXTENDS SystemJobs, TLAPS

----------------------------------------------------------------------------
(***************************************************************************)
(* Names of jobs.                                                          *)
(***************************************************************************)
OfRequest == {"confirm", "import", "webhook", "report"}

LEMMA JobNames ==
  /\ \A m \in Messages : J("send", m) \in QueueJobs
  /\ \A q \in Requests, n \in OfRequest : J(n, q) \in QueueJobs
  /\ \A n, x : J(n, x).name = n /\ J(n, x).id = x
  /\ \A j \in QueueJobs : /\ j = J(j.name, j.id)
                          /\ j.name = "send" => j.id \in Messages
                          /\ j.name # "send" => j.name \in OfRequest /\ j.id \in Requests
                          /\ j \notin Requests
BY ActorsAssumption DEF QueueJobs, Sends, J, OfRequest

LEMMA JobsTyped ==
  ASSUME NEW q \in Requests
  PROVE  /\ Job[q].op \in Ops /\ Job[q].strategy \in Strategies
         /\ Job[q].to \in Seq(Emails \cup {NoAddress})
         /\ Len(Job[q].to) \in Nat
         /\ \A n \in Nat \ {0} : n <= Len(Job[q].to) => Job[q].to[n] \in Emails \cup {NoAddress}
BY JobAssumption DEF JobRecords

LEMMA AttemptsTyped ==
  ASSUME NEW j \in QueueJobs
  PROVE  Attempts(j.name) \in Nat \ {0} /\ j.name \in {"send"} \cup OfRequest
BY JobNames, BoundsAssumption DEF Attempts, OfRequest

----------------------------------------------------------------------------
(***************************************************************************)
(* The shape of the variables.                                             *)
(***************************************************************************)
PcShape(f) == f \in [Requests -> Steps]
RowShape(f) == f \in [Requests -> Nat \ {0}]
AtShape(f) == f \in [QueueJobs -> JobSteps]
MadeShape(f) == f \in [QueueJobs -> Nat]
StallShape(f) == f \in [QueueJobs -> 0..2]
MessageShape(f) == f \in [Actors -> Messages \cup {0}]
StatusShape(f) == f \in [Messages -> {"none", "QUEUED", "SENT", "FAILED"}]
AddressShape(f) == f \in [Messages -> Emails \cup {NoAddress}]
CountShape(f) == f \in [Messages -> Nat]
ImportShape(f) == f \in [Requests -> {"none", "QUEUED", "PROCESSING", "COMPLETED", "FAILED"}]
FailingShape(f) == f \in [Requests -> Nat]
ErrorShape(f) == f \in [Requests -> SUBSET Nat]
TableShape(s) == s \subseteq Emails
HookShape(f) == f \in [Hooks -> BOOLEAN]
LeftShape(f) == f \in [Requests -> SUBSET Hooks]
CurrentShape(f) == f \in [Requests -> Hooks \cup {Nobody}]
ToldShape(f) == f \in [Requests -> [Hooks -> Nat]]
VerdictShape(f) == f \in [Requests -> [Hooks -> SUBSET {"SUCCESS", "FAILURE"}]]
ExportShape(f) == f \in [Requests -> SUBSET {"QUEUED", "STARTED", "COMPLETED", "FAILED"}]
StoredShape(f) == f \in [Requests -> BOOLEAN]
FaultShape(s, d, w) == s \subseteq QueueJobs /\ d \in Nat /\ w \in Nat

Requested == PcShape(pc) /\ RowShape(row)
Queued == AtShape(at) /\ MadeShape(made) /\ StallShape(stalls)
Logged == /\ StatusShape(status) /\ AddressShape(address) /\ CountShape(taken) /\ CountShape(upset)
Imported == /\ ImportShape(imports) /\ RowShape(line) /\ FailingShape(failing)
            /\ ErrorShape(errors) /\ TableShape(table)
Hooked == /\ HookShape(hook) /\ LeftShape(left) /\ CurrentShape(current) /\ ToldShape(told)
          /\ VerdictShape(verdicts)
Reported == ExportShape(exports) /\ StoredShape(stored)
Shape == /\ Requested /\ Queued /\ MessageShape(message) /\ Logged /\ Imported /\ Hooked
         /\ Reported /\ FaultShape(lost, deaths, workers)

(***************************************************************************)
(* Where a job and a request may stand, by its name and what it asks for.  *)
(***************************************************************************)
StepsOf(name) ==
  Ended \cup {"start", "ack"} \cup
    CASE name = "send" -> {"call", "sent", "refused"}
      [] name = "confirm" -> {"log", "add"}
      [] name = "import" -> {"row", "error", "create", "badge", "log", "add", "next", "finish"}
      [] name = "webhook" -> {"hooks", "SUCCESS", "FAILURE"}
      [] name = "report" -> {"render", "completed", "broken"}

OnRow == {"error", "create", "badge", "log", "add", "next"}
WithAddress == {"create", "badge", "log", "add"}

JobOK(j) ==
  /\ at[j] \in StepsOf(j.name)
  /\ made[j] <= Attempts(j.name)
  /\ Pending(j) => made[j] < Attempts(j.name) /\ stalls[j] <= 1
  /\ at[j] = "none" => made[j] = 0 /\ stalls[j] = 0
  /\ j.name = "confirm" /\ at[j] # "none" => Job[j.id].op = "submit"
  /\ j.name = "import" /\ at[j] \in OnRow => line[j.id] <= Len(Rows(j.id))
  /\ j.name = "import" /\ at[j] \in WithAddress => Rows(j.id)[line[j.id]] \in Emails

StepsOn(op) ==
  {"idle", "done"} \cup
    CASE op \in {"notify", "bulk"} -> {"log", "add"}
      [] op = "submit" -> {"confirm", "log", "add", "webhook"}
      [] op = "import" -> {"insert", "enqueue"}
      [] op = "report" -> {"export", "audit"}

RequestOK(q) ==
  /\ pc[q] \in StepsOn(Job[q].op)
  /\ pc[q] \in {"idle", "confirm"} => at[J("confirm", q)] = "none"
  /\ pc[q] \in {"idle", "insert", "enqueue"} => at[J("import", q)] = "none"
  /\ pc[q] # "done" => at[J("webhook", q)] = "none"
  /\ pc[q] \in {"idle", "export"} => at[J("report", q)] = "none"

(***************************************************************************)
(* Whoever is about to add a message's job is the only one, and the job is *)
(* not there.                                                              *)
(***************************************************************************)
Adding(a) == IF a \in Requests THEN pc[a] = "add" ELSE at[a] = "add"
Held(a) == LET m == message[a]
           IN  /\ m # 0 <=> Adding(a)
               /\ m # 0 => status[m] = "QUEUED" /\ at[J("send", m)] = "none"
Unwritten(m) == status[m] = "none" => at[J("send", m)] = "none"
Apart == \A a, b \in Actors : message[a] = message[b] /\ message[a] # 0 => a = b

Typed == /\ Shape
         /\ \A j \in QueueJobs : JobOK(j)
         /\ \A q \in Requests : RequestOK(q)
         /\ \A a \in Actors : Held(a)
         /\ \A m \in Messages : Unwritten(m)
         /\ Apart

LEMMA TypedIsType == Typed => TypeOK
<1> SUFFICES ASSUME Typed PROVE TypeOK
  OBVIOUS
<1>1. \A j \in QueueJobs : made[j] <= Attempts(j.name) /\ (Pending(j) => ~Spent(j))
  <2> SUFFICES ASSUME NEW j \in QueueJobs
               PROVE  made[j] <= Attempts(j.name) /\ (Pending(j) => ~Spent(j))
    OBVIOUS
  <2>1. JobOK(j) /\ made[j] \in Nat /\ Attempts(j.name) \in Nat
    BY AttemptsTyped DEF Typed, Shape, Queued, MadeShape
  <2> QED BY <2>1 DEF JobOK, Spent
<1>2. /\ \A q \in Requests : pc[q] = "add" => message[q] # 0
      /\ \A j \in QueueJobs : at[j] = "add" => message[j] # 0
  BY JobNames DEF Typed, Held, Adding, Actors
<1>3. Shape
  BY DEF Typed
<1> QED
  BY <1>1, <1>2, <1>3 DEF TypeOK, Shape, Requested, Queued, Logged, Imported, Hooked, Reported, PcShape,
     RowShape, AtShape, MadeShape, StallShape, MessageShape, StatusShape, AddressShape, CountShape,
     ImportShape, FailingShape, ErrorShape, TableShape, HookShape, LeftShape, CurrentShape, ToldShape,
     VerdictShape, ExportShape, StoredShape, FaultShape

----------------------------------------------------------------------------
(***************************************************************************)
(* What a step does to the queue.  A job that was not there may be added;  *)
(* apart from that only the step's own job moves, forward, back to the     *)
(* queue, or out of it.                                                    *)
(***************************************************************************)
Kept(i) == at'[i] = at[i] /\ made'[i] = made[i] /\ stalls'[i] = stalls[i]
Added(i) == /\ at[i] = "none" /\ at'[i] = "waiting"
            /\ made'[i] = made[i] /\ stalls'[i] = stalls[i]
Rejected(j) == /\ at'[j] = (IF IsFinal(j) THEN "failed" ELSE "waiting")
               /\ made'[j] = made[j] + 1 /\ stalls'[j] = stalls[j]
Dropped(j) == /\ at'[j] = (IF stalls[j] > 0 THEN "failed" ELSE "waiting")
              /\ made'[j] = made[j] /\ stalls'[j] = stalls[j] + 1
Forward(j) == /\ at'[j] \in StepsOf(j.name) \ {"none", "waiting", "failed"}
              /\ made'[j] = made[j] /\ stalls'[j] = stalls[j]

\* The job a request adds, and where it stands.
AddedBy(q, i) ==
  \/ i = J("send", message[q]) /\ pc[q] = "add" /\ pc'[q] # "add"
  \/ i = J("confirm", q) /\ pc[q] = "confirm" /\ pc'[q] \in {"log", "webhook"}
  \/ i = J("webhook", q) /\ pc[q] = "webhook" /\ pc'[q] = "done"
  \/ i = J("import", q) /\ pc[q] = "enqueue" /\ pc'[q] = "done"
  \/ i = J("report", q) /\ pc[q] = "export" /\ pc'[q] = "audit"

RequestQueues(q) ==
  /\ AtShape(at') /\ made' = made /\ stalls' = stalls
  /\ \A i \in QueueJobs : at'[i] = at[i] \/ (Added(i) /\ AddedBy(q, i))

JobQueues(j) ==
  /\ Queued'
  /\ Forward(j) \/ Rejected(j) \/ Dropped(j)
  /\ \A i \in QueueJobs \ {j} :
       Kept(i) \/ (Added(i) /\ at[j] = "add" /\ at'[j] # "add" /\ i = J("send", message[j]))

LEMMA ToMoves ==
  ASSUME Typed, NEW j \in QueueJobs, NEW s \in JobSteps, To(j, s)
  PROVE  AtShape(at') /\ at'[j] = s /\ \A i \in QueueJobs \ {j} : at'[i] = at[i]
BY DEF Typed, Shape, Queued, AtShape, To

LEMMA StepsTyped ==
  ASSUME NEW j \in QueueJobs
  PROVE  StepsOf(j.name) \subseteq JobSteps
<1>1. j.name \in {"send"} \cup OfRequest
  BY AttemptsTyped
<1> QED BY <1>1 DEF StepsOf, JobSteps, OfRequest

LEMMA HeldMessage ==
  ASSUME Typed, NEW a \in Actors, Adding(a)
  PROVE  message[a] \in Messages /\ at[J("send", message[a])] = "none"
BY DEF Typed, Held, Shape, MessageShape

LEMMA RequestsQueue ==
  ASSUME Typed, NEW q \in Requests, RequestStep(q) \/ RequestThrow(q)
  PROVE  RequestQueues(q)
<1>0. /\ RequestOK(q) /\ AtShape(at) /\ q \in Actors
      /\ pc[q] = "add" => message[q] \in Messages /\ at[J("send", message[q])] = "none"
  <2>1. q \in Actors /\ (pc[q] = "add" => Adding(q))
    BY DEF Actors, Adding
  <2> QED
    BY <2>1, HeldMessage DEF Typed, Shape, Queued
<1>1. ASSUME at' = at, made' = made, stalls' = stalls PROVE RequestQueues(q)
  BY <1>0, <1>1 DEF RequestQueues
<1>2. ASSUME NEW i \in QueueJobs, To(i, "waiting"), at[i] = "none", made' = made, stalls' = stalls,
             AddedBy(q, i)
      PROVE  RequestQueues(q)
  <2>1. "waiting" \in JobSteps
    BY DEF JobSteps, Ended
  <2> QED
    BY <1>2, <2>1, ToMoves DEF RequestQueues, Added
<1>p. \A s : Go(q, s) => pc'[q] = s
  BY DEF Go, Typed, Shape, Requested, PcShape
<1>3. CASE Begin(q) \/ LogMessage(q) \/ EndBulk(q) \/ InsertImport(q) \/ AuditReport(q)
           \/ RequestThrow(q)
  BY <1>1, <1>3 DEF Begin, LogMessage, EndBulk, InsertImport, AuditReport, RequestThrow, jobVars
<1>4. CASE AddMessage(q)
  <2>1. Job[q].op \in Ops /\ AfterLog(q) # "add"
    BY <1>0, <1>4, JobsTyped DEF AddMessage, AfterLog, RequestOK, StepsOn, Ops
  <2> QED
    BY <1>0, <1>2, <1>4, <1>p, <2>1, JobNames DEF AddMessage, AddedBy
<1>5. CASE AddConfirmation(q)
  BY <1>0, <1>2, <1>5, <1>p, JobNames DEF AddConfirmation, AddedBy, RequestOK, OfRequest
<1>6. CASE AddWebhook(q)
  BY <1>0, <1>2, <1>6, <1>p, JobNames DEF AddWebhook, AddedBy, RequestOK, OfRequest
<1>7. CASE AddImport(q)
  BY <1>0, <1>2, <1>7, <1>p, JobNames DEF AddImport, AddedBy, RequestOK, OfRequest
<1>8. CASE AddReport(q)
  BY <1>0, <1>2, <1>8, <1>p, JobNames DEF AddReport, AddedBy, RequestOK, OfRequest
<1> QED
  BY <1>3, <1>4, <1>5, <1>6, <1>7, <1>8 DEF RequestStep

LEMMA JobsQueue ==
  ASSUME Typed, NEW j \in QueueJobs, j \in Alive, JobStep(j) \/ Throw(j) \/ Crash(j)
  PROVE  JobQueues(j)
<1>0. /\ JobOK(j) /\ Queued /\ Pending(j) /\ j.name \in {"send"} \cup OfRequest
      /\ StepsOf(j.name) \subseteq JobSteps
      /\ made[j] \in Nat /\ stalls[j] \in 0..2 /\ Attempts(j.name) \in Nat
  BY AttemptsTyped, StepsTyped DEF Typed, Shape, Queued, MadeShape, StallShape, Alive
<1>1. ASSUME NEW s \in StepsOf(j.name) \ {"none", "waiting", "failed"}, To(j, s),
             made' = made, stalls' = stalls
      PROVE  JobQueues(j)
  <2>1. AtShape(at') /\ at'[j] = s /\ \A i \in QueueJobs \ {j} : at'[i] = at[i]
    BY <1>0, <1>1, ToMoves
  <2> QED
    BY <1>0, <1>1, <2>1 DEF JobQueues, Queued, Forward, Kept
<1>2. ASSUME Reject(j) PROVE JobQueues(j)
  <2>1. (IF IsFinal(j) THEN "failed" ELSE "waiting") \in JobSteps
    BY DEF JobSteps, Ended
  <2>2. /\ AtShape(at') /\ at'[j] = (IF IsFinal(j) THEN "failed" ELSE "waiting")
        /\ \A i \in QueueJobs \ {j} : at'[i] = at[i]
    BY <1>2, <2>1, ToMoves DEF Reject
  <2>3. /\ MadeShape(made') /\ made'[j] = made[j] + 1 /\ stalls' = stalls
        /\ \A i \in QueueJobs \ {j} : made'[i] = made[i]
    BY <1>0, <1>2 DEF Reject, Queued, MadeShape
  <2> QED
    BY <1>0, <2>2, <2>3 DEF JobQueues, Queued, Rejected, Kept
<1>3. CASE Crash(j)
  <2>1. (IF stalls[j] > 0 THEN "failed" ELSE "waiting") \in JobSteps
    BY DEF JobSteps, Ended
  <2>2. /\ AtShape(at') /\ at'[j] = (IF stalls[j] > 0 THEN "failed" ELSE "waiting")
        /\ \A i \in QueueJobs \ {j} : at'[i] = at[i]
    BY <1>3, <2>1, ToMoves DEF Crash
  <2>3. /\ StallShape(stalls') /\ stalls'[j] = stalls[j] + 1 /\ made' = made
        /\ \A i \in QueueJobs \ {j} : stalls'[i] = stalls[i]
    <3>1. stalls[j] <= 1
      BY <1>0 DEF JobOK
    <3> QED
      BY <1>0, <1>3, <3>1 DEF Crash, Queued, StallShape
  <2> QED
    BY <1>0, <2>2, <2>3 DEF JobQueues, Queued, Dropped, Kept
<1>4. CASE Throw(j)
  <2>1. CASE Caught(j) = "throw"
    BY <1>2, <1>4, <2>1 DEF Throw
  <2>2. CASE Caught(j) # "throw"
    <3>1. Caught(j) \in StepsOf(j.name) \ {"none", "waiting", "failed"}
      BY <1>0, <2>2 DEF Caught, StepsOf, OfRequest, Ended
    <3> QED BY <1>1, <1>4, <2>2, <3>1 DEF Throw
  <2> QED BY <2>1, <2>2
<1> USE DEF At, JobOnly
<1>5. CASE Take(j) \/ Ack(j)
  <2>1. "start" \in StepsOf(j.name) /\ "done" \in StepsOf(j.name)
    BY DEF StepsOf, Ended
  <2> QED BY <1>1, <1>5, <2>1 DEF Take, Ack
<1>6. CASE SendFind(j) \/ SendCall(j) \/ SendSent(j)
  <2>1. {"ack", "call", "sent", "refused"} \subseteq StepsOf(j.name)
    BY <1>6 DEF SendFind, SendCall, SendSent, StepsOf, Ended
  <2> QED BY <1>1, <1>6, <2>1 DEF SendFind, SendCall, SendSent
<1>7. CASE SendFailed(j) \/ ReportFailed(j) \/ ImportRefused(j)
  BY <1>2, <1>7 DEF SendFailed, ReportFailed, ImportRefused
<1>8. CASE ConfirmLookup(j) \/ LogFromJob(j)
  <2>1. {"log", "add"} \subseteq StepsOf(j.name)
    BY <1>0, <1>8 DEF ConfirmLookup, LogFromJob, StepsOf, Ended, JobOK, OfRequest
  <2> QED BY <1>1, <1>8, <2>1 DEF ConfirmLookup, LogFromJob
<1>9. CASE AddFromJob(j)
  <2> DEFINE i == J("send", message[j])
             s == IF j.name = "import" THEN "next" ELSE "ack"
  <2>1. j \in Actors /\ at[j] = "add" /\ j \notin Requests /\ j.name # "send"
    BY <1>0, <1>9, JobNames DEF Actors, AddFromJob, JobOK, StepsOf, Ended
  <2>2. at[i] = "none" /\ i \in QueueJobs /\ i # j
    BY <2>1, HeldMessage, JobNames DEF Adding
  <2>3. s \in StepsOf(j.name) \ {"none", "waiting", "failed", "add"} /\ "waiting" \in JobSteps
    BY DEF StepsOf, Ended, JobSteps
  <2>4. at' = [at EXCEPT ![j] = s, ![i] = "waiting"] /\ made' = made /\ stalls' = stalls
    BY <1>9 DEF AddFromJob
  <2> HIDE DEF i, s
  <2>5. /\ AtShape(at') /\ at'[j] = s /\ at'[i] = "waiting"
        /\ \A k \in QueueJobs \ {i, j} : at'[k] = at[k]
    BY <1>0, <2>2, <2>3, <2>4 DEF Queued, AtShape
  <2>6. Queued' /\ Forward(j) /\ at'[j] # "add"
    BY <1>0, <2>3, <2>4, <2>5 DEF Queued, Forward
  <2>7. Added(i) /\ \A k \in QueueJobs \ {i, j} : Kept(k)
    BY <2>2, <2>4, <2>5 DEF Added, Kept
  <2> QED
    BY <2>1, <2>6, <2>7 DEF JobQueues, i
<1>10. CASE ImportMark(j) \/ ImportError(j) \/ ImportCreate(j) \/ ImportBadge(j)
            \/ ImportNext(j) \/ ImportFinish(j)
  <2>1. {"ack", "row", "next", "badge", "log"} \subseteq StepsOf(j.name)
    BY <1>10 DEF ImportMark, ImportError, ImportCreate, ImportBadge, ImportNext, ImportFinish,
                 StepsOf, Ended
  <2> QED
    BY <1>1, <1>10, <2>1 DEF ImportMark, ImportError, ImportCreate, ImportBadge, ImportNext, ImportFinish
<1>11. CASE ImportRow(j)
  <2>1. j.name = "import" /\ j.id \in Requests
    BY <1>11, JobNames DEF ImportRow
  <2>2. {"finish", "error", "create", "next", "badge"} \subseteq StepsOf(j.name)
    BY <2>1 DEF StepsOf, Ended
  <2>3. PICK s \in {"finish", "error", "create", "next", "badge"} : To(j, s)
    BY <1>11, <2>1, JobsTyped DEF ImportRow, Strategies
  <2> QED
    BY <1>1, <1>11, <2>2, <2>3 DEF ImportRow
<1>12. CASE HookJob(j)
  <2>1. {"ack", "hooks", "SUCCESS", "FAILURE"} \subseteq StepsOf(j.name)
    BY <1>12 DEF HookJob, HookList, HookCall, HookAudit, HooksEnd, StepsOf, Ended
  <2> QED
    BY <1>1, <1>12, <2>1 DEF HookJob, HookList, HookCall, HookAudit, HooksEnd
<1>13. CASE ReportStart(j) \/ ReportRender(j) \/ ReportCompleted(j)
  <2>1. {"ack", "render", "completed"} \subseteq StepsOf(j.name)
    BY <1>13 DEF ReportStart, ReportRender, ReportCompleted, StepsOf, Ended
  <2> QED
    BY <1>1, <1>13, <2>1 DEF ReportStart, ReportRender, ReportCompleted
<1> QED
  BY <1>3, <1>4, <1>5, <1>6, <1>7, <1>8, <1>9, <1>10, <1>11, <1>12, <1>13
     DEF JobStep, MessageJob, ImportJob, ReportJob

----------------------------------------------------------------------------
(***************************************************************************)
(* What a step does to requests, messages and their rows.                  *)
(***************************************************************************)
RequestMoves(q) ==
  /\ Requested'
  /\ \A p \in Requests \ {q} : pc'[p] = pc[p]
  /\ pc'[q] \in StepsOn(Job[q].op) \ {"idle"}
  /\ pc[q] # "done"
  /\ pc'[q] \in {"confirm", "insert", "export"} => pc[q] = "idle"
  /\ pc'[q] = "enqueue" => pc[q] = "insert"

MessageMoves(a) ==
  /\ MessageShape(message') /\ StatusShape(status') /\ AddressShape(address')
  /\ \A b \in Actors \ {a} : message'[b] = message[b]
  /\ \/ message'[a] = 0 /\ ~ Adding(a)'
     \/ /\ Adding(a)' /\ message'[a] \in Messages
        /\ status[message'[a]] = "none" /\ status'[message'[a]] = "QUEUED"
  /\ \A m \in Messages : \/ status'[m] = status[m]
                         \/ status[m] = "none" /\ status'[m] # "none" /\ m = message'[a]
                         \/ status'[m] # "none" /\ a = J("send", m)

LEMMA RequestsMove ==
  ASSUME Typed, NEW q \in Requests, RequestStep(q) \/ RequestThrow(q)
  PROVE  RequestMoves(q)
<1>0. /\ RequestOK(q) /\ PcShape(pc) /\ RowShape(row) /\ Job[q].op \in Ops
      /\ StepsOn(Job[q].op) \subseteq Steps
  BY JobsTyped DEF Typed, Shape, Requested, StepsOn, Steps, Ops
<1>1. ASSUME NEW s \in StepsOn(Job[q].op) \ {"idle"}, Go(q, s)
      PROVE  PcShape(pc') /\ pc'[q] = s /\ \A p \in Requests \ {q} : pc'[p] = pc[p]
  BY <1>0, <1>1 DEF Go, PcShape
<1>2. ASSUME row' = row \/ row' = [row EXCEPT ![q] = @ + 1] \/ row' = [row EXCEPT ![q] = 2]
      PROVE  RowShape(row')
  BY <1>0, <1>2 DEF RowShape
<1> USE DEF RequestMoves, Requested
<1>3. CASE Begin(q)
  <2>1. PICK s \in {"log", "confirm", "insert", "export", "done"} :
          Go(q, s) /\ s \in StepsOn(Job[q].op) \ {"idle"}
    BY <1>0, <1>3 DEF Begin, StepsOn, Ops
  <2> QED BY <1>1, <1>2, <1>3, <2>1 DEF Begin
<1>4. CASE LogMessage(q) \/ AddMessage(q)
  <2>1. Job[q].op \in {"notify", "bulk", "submit"}
    BY <1>0, <1>4 DEF LogMessage, AddMessage, RequestOK, StepsOn, Ops
  <2>2. AfterLog(q) \in StepsOn(Job[q].op) \ {"idle"} /\ "add" \in StepsOn(Job[q].op) \ {"idle"}
        /\ AfterLog(q) \in {"log", "done", "webhook"}
    BY <2>1 DEF AfterLog, StepsOn
  <2> QED BY <1>1, <1>2, <1>4, <2>2 DEF LogMessage, AddMessage
<1>5. CASE EndBulk(q)
  <2>1. "done" \in StepsOn(Job[q].op) \ {"idle"}
    BY DEF StepsOn
  <2> QED BY <1>1, <1>2, <1>5, <2>1 DEF EndBulk
<1>6. CASE AddConfirmation(q)
  <2>1. {"log", "webhook"} \subseteq StepsOn(Job[q].op) \ {"idle"}
    BY <1>0, <1>6 DEF AddConfirmation, RequestOK, StepsOn, Ops
  <2> QED BY <1>1, <1>2, <1>6, <2>1 DEF AddConfirmation
<1>7. CASE AddWebhook(q) \/ AddImport(q) \/ AuditReport(q)
  <2>1. "done" \in StepsOn(Job[q].op) \ {"idle"}
    BY DEF StepsOn
  <2> QED BY <1>1, <1>2, <1>7, <2>1 DEF AddWebhook, AddImport, AuditReport
<1>8. CASE InsertImport(q)
  <2>1. "enqueue" \in StepsOn(Job[q].op) \ {"idle"}
    BY <1>0, <1>8 DEF InsertImport, RequestOK, StepsOn, Ops
  <2> QED BY <1>1, <1>2, <1>8, <2>1 DEF InsertImport
<1>9. CASE AddReport(q)
  <2>1. "audit" \in StepsOn(Job[q].op) \ {"idle"}
    BY <1>0, <1>9 DEF AddReport, RequestOK, StepsOn, Ops
  <2> QED BY <1>1, <1>2, <1>9, <2>1 DEF AddReport
<1>10. CASE RequestThrow(q)
  <2>1. PICK s \in {"done", "log", "webhook"} : Go(q, s) /\ s \in StepsOn(Job[q].op) \ {"idle"}
    BY <1>10 DEF RequestThrow, StepsOn
  <2> QED BY <1>1, <1>2, <1>10, <2>1 DEF RequestThrow
<1> QED
  BY <1>3, <1>4, <1>5, <1>6, <1>7, <1>8, <1>9, <1>10 DEF RequestStep

LEMMA WriteMoves ==
  ASSUME Typed, NEW a \in Actors, NEW e \in Emails \cup {NoAddress}, Write(a, e), Adding(a)'
  PROVE  MessageMoves(a) /\ UNCHANGED <<taken, upset>>
<1>1. PICK m \in Messages :
        /\ status[m] = "none" /\ status' = [status EXCEPT ![m] = "QUEUED"]
        /\ address' = [address EXCEPT ![m] = e] /\ message' = [message EXCEPT ![a] = m]
  BY DEF Write
<1>2. MessageShape(message) /\ StatusShape(status) /\ AddressShape(address)
  BY DEF Typed, Shape, Logged
<1>3. MessageShape(message') /\ StatusShape(status') /\ AddressShape(address')
  BY <1>1, <1>2 DEF MessageShape, StatusShape, AddressShape
<1>4. message'[a] = m /\ \A b \in Actors \ {a} : message'[b] = message[b]
  BY <1>1, <1>2 DEF MessageShape
<1>5. status'[m] = "QUEUED" /\ \A k \in Messages \ {m} : status'[k] = status[k]
  BY <1>1, <1>2 DEF StatusShape
<1> QED
  BY <1>1, <1>3, <1>4, <1>5 DEF MessageMoves, Write

LEMMA DropMoves ==
  ASSUME Typed, NEW a \in Actors, ~ Adding(a)', UNCHANGED <<status, address>>,
         message' = [message EXCEPT ![a] = 0] \/ (message' = message /\ ~ Adding(a))
  PROVE  MessageMoves(a)
<1>1. MessageShape(message) /\ StatusShape(status) /\ AddressShape(address) /\ Held(a)
  BY DEF Typed, Shape, Logged
<1>2. MessageShape(message') /\ message'[a] = 0 /\ \A b \in Actors \ {a} : message'[b] = message[b]
  BY <1>1 DEF MessageShape, Held
<1> QED
  BY <1>1, <1>2 DEF MessageMoves

LEMMA RequestMessages ==
  ASSUME Typed, NEW q \in Requests, RequestStep(q) \/ RequestThrow(q)
  PROVE  MessageMoves(q) /\ UNCHANGED <<taken, upset>>
<1>0. /\ q \in Actors /\ (Adding(q) <=> pc[q] = "add") /\ (Adding(q)' <=> pc'[q] = "add")
      /\ \A s : Go(q, s) => pc'[q] = s
  BY DEF Actors, Adding, Go, Typed, Shape, Requested, PcShape
<1>a. pc[q] \in {"log", "add"} => AfterLog(q) # "add"
  <2>1. Job[q].op \in Ops /\ RequestOK(q)
    BY JobsTyped DEF Typed
  <2> QED
    BY <2>1 DEF AfterLog, RequestOK, StepsOn, Ops
<1>b. Begin(q) => pc'[q] # "add"
  BY <1>0, JobsTyped DEF Begin, Ops
<1> USE DEF messageVars
<1>1. CASE Begin(q) \/ EndBulk(q) \/ AddConfirmation(q) \/ AddWebhook(q) \/ InsertImport(q)
           \/ AddImport(q) \/ AddReport(q) \/ AuditReport(q)
  <2>1. pc[q] # "add" /\ pc'[q] # "add" /\ UNCHANGED <<message, messageVars>>
    BY <1>0, <1>b, <1>1 DEF Begin, EndBulk, AddConfirmation, AddWebhook, InsertImport, AddImport, AddReport,
                      AuditReport
  <2> QED BY <1>0, <2>1, DropMoves
<1>2. CASE AddMessage(q) \/ RequestThrow(q)
  <2>1. pc'[q] # "add" /\ message' = [message EXCEPT ![q] = 0] /\ UNCHANGED messageVars
    BY <1>0, <1>a, <1>2 DEF AddMessage, RequestThrow
  <2> QED BY <1>0, <2>1, DropMoves
<1>3. CASE LogMessage(q) /\ Recipient(q) = NoAddress
  <2>1. pc'[q] # "add" /\ pc[q] # "add" /\ UNCHANGED <<message, messageVars>>
    BY <1>0, <1>a, <1>3 DEF LogMessage
  <2> QED BY <1>0, <2>1, DropMoves
<1>4. CASE LogMessage(q) /\ Recipient(q) # NoAddress
  <2>1. pc'[q] = "add" /\ Write(q, Recipient(q))
    BY <1>0, <1>4 DEF LogMessage
  <2>2. row[q] \in Nat \ {0} /\ Len(Job[q].to) \in Nat /\ ~ (row[q] > Len(Job[q].to))
    BY <1>4, JobsTyped DEF LogMessage, AllServed, Typed, Shape, Requested, RowShape
  <2>3. Recipient(q) \in Emails \cup {NoAddress}
    BY <2>2, JobsTyped DEF Recipient
  <2> QED BY <1>0, <2>1, <2>3, WriteMoves
<1> QED
  BY <1>1, <1>2, <1>3, <1>4 DEF RequestStep

\* Only a step of a job at "log" takes a job to "add".
LEMMA OnlyLogAdds ==
  ASSUME Typed, NEW j \in QueueJobs, j \in Alive, JobStep(j) \/ Throw(j) \/ Crash(j),
         ~ LogFromJob(j)
  PROVE  at'[j] # "add"
<1>0. \A s : To(j, s) => at'[j] = s
  BY DEF To, Typed, Shape, Queued, AtShape
<1> USE <1>0 DEF At
<1>1. CASE Take(j) \/ Ack(j) \/ Crash(j)
  BY <1>1 DEF Take, Ack, Crash
<1>2. CASE Throw(j)
  <2>1. j.name \in {"send"} \cup OfRequest
    BY AttemptsTyped
  <2>2. Caught(j) # "add"
    BY <2>1 DEF Caught, OfRequest
  <2> QED BY <1>2, <2>2 DEF Throw, Reject
<1>3. CASE SendFind(j) \/ SendCall(j) \/ SendSent(j) \/ SendFailed(j) \/ ConfirmLookup(j)
  BY <1>3 DEF SendFind, SendCall, SendSent, SendFailed, ConfirmLookup, Reject
<1>4. CASE AddFromJob(j)
  <2>1. JobQueues(j) /\ at[j] = "add" /\ Queued
    BY <1>4, JobsQueue DEF AddFromJob, Typed, Shape
  <2>2. j \in Actors /\ Adding(j) /\ j.name # "send"
    BY <2>1, JobNames DEF Actors, Adding, Typed, JobOK, StepsOf, Ended
  <2>3. J("send", message[j]) # j /\ J("send", message[j]) \in QueueJobs
    BY <2>2, HeldMessage, JobNames
  <2>4. at' = [at EXCEPT ![j] = IF j.name = "import" THEN "next" ELSE "ack",
                         ![J("send", message[j])] = "waiting"]
    BY <1>4 DEF AddFromJob
  <2> QED
    BY <2>1, <2>3, <2>4 DEF Queued, AtShape
<1>5. CASE ImportMark(j) \/ ImportError(j) \/ ImportCreate(j) \/ ImportRefused(j) \/ ImportBadge(j)
           \/ ImportNext(j) \/ ImportFinish(j)
  BY <1>5 DEF ImportMark, ImportError, ImportCreate, ImportRefused, ImportBadge, ImportNext,
              ImportFinish, Reject
<1>6. CASE ImportRow(j)
  BY <1>6, JobNames, JobsTyped DEF ImportRow, Strategies
<1>7. CASE HookJob(j)
  BY <1>7 DEF HookJob, HookList, HookCall, HookAudit, HooksEnd
<1>8. CASE ReportJob(j)
  BY <1>8 DEF ReportJob, ReportStart, ReportRender, ReportCompleted, ReportFailed, Reject
<1> QED
  BY <1>1, <1>2, <1>3, <1>4, <1>5, <1>6, <1>7, <1>8 DEF JobStep, MessageJob, ImportJob

LEMMA JobMessages ==
  ASSUME Typed, NEW j \in QueueJobs, j \in Alive, JobStep(j) \/ Throw(j) \/ Crash(j)
  PROVE  MessageMoves(j)
<1>0. /\ j \in Actors /\ j \notin Requests /\ (Adding(j) <=> at[j] = "add")
      /\ (Adding(j)' <=> at'[j] = "add") /\ MessageShape(message) /\ Held(j)
  BY JobNames DEF Actors, Adding, Typed, Shape
<1>1. CASE LogFromJob(j)
  <2>1. at'[j] = "add"
    BY <1>1 DEF LogFromJob, To, Typed, Shape, Queued, AtShape
  <2>2. j.name \in {"confirm", "import"} /\ j.id \in Requests /\ JobOK(j) /\ at[j] = "log"
    BY <1>1, JobNames DEF LogFromJob, Typed, JobOK, StepsOf, Ended, OfRequest
  <2>3. WrittenTo(j) \in Emails \cup {NoAddress}
    <3>1. CASE j.name = "confirm"
      <4>1. Len(Job[j.id].to) = 2
        BY <2>2, <3>1, RecipientAssumption DEF JobOK
      <4> QED BY <2>2, <3>1, <4>1, JobsTyped DEF WrittenTo
    <3>2. CASE j.name = "import"
      BY <2>2, <3>2 DEF WrittenTo, JobOK, WithAddress, Rows
    <3> QED BY <2>2, <3>1, <3>2
  <2> QED
    BY <1>0, <1>1, <2>1, <2>3, WriteMoves DEF LogFromJob
<1>2. CASE ~ LogFromJob(j)
  <2>1. ~ Adding(j)'
    BY <1>0, <1>2, OnlyLogAdds
  <2> USE DEF messageVars, At
  <2>2. CASE AddFromJob(j) \/ Throw(j) \/ Crash(j)
    <3>1. message' = [message EXCEPT ![j] = 0] /\ UNCHANGED <<status, address>>
      BY <2>2 DEF AddFromJob, Throw, Crash
    <3> QED BY <1>0, <2>1, <3>1, DropMoves
  <2>3. CASE SendSent(j) \/ SendFailed(j)
    <3>1. j.name = "send" /\ j.id \in Messages /\ j = J("send", j.id) /\ message' = message
          /\ address' = address /\ at[j] # "add"
      BY <2>3, JobNames DEF SendSent, SendFailed
    <3>2. StatusShape(status) /\ AddressShape(address)
      BY DEF Typed, Shape, Logged
    <3>3. \/ status' = [status EXCEPT ![j.id] = "SENT"]
          \/ status' = [status EXCEPT ![j.id] = "FAILED"]
      BY <2>3 DEF SendSent, SendFailed
    <3>4. /\ StatusShape(status') /\ status'[j.id] \in {"SENT", "FAILED"}
          /\ \A k \in Messages \ {j.id} : status'[k] = status[k]
      BY <3>1, <3>2, <3>3 DEF StatusShape
    <3>5. message[j] = 0
      BY <1>0, <3>1 DEF Held
    <3> QED
      BY <1>0, <2>1, <3>1, <3>2, <3>4, <3>5 DEF MessageMoves
  <2>4. ASSUME at[j] # "add", UNCHANGED <<message, status, address>> PROVE MessageMoves(j)
    BY <1>0, <2>1, <2>4, DropMoves
  <2>5. CASE Take(j) \/ Ack(j) \/ SendFind(j) \/ SendCall(j) \/ ConfirmLookup(j)
    BY <2>4, <2>5 DEF Take, Ack, SendFind, SendCall, ConfirmLookup
  <2>6. CASE ImportJob(j)
    BY <2>4, <2>6 DEF ImportJob, ImportMark, ImportRow, ImportError, ImportCreate, ImportRefused,
                      ImportBadge, ImportNext, ImportFinish
  <2>7. CASE HookJob(j) \/ ReportJob(j)
    BY <2>4, <2>7 DEF HookJob, HookList, HookCall, HookAudit, HooksEnd, ReportJob, ReportStart,
                      ReportRender, ReportCompleted, ReportFailed
  <2> QED
    BY <1>2, <2>2, <2>3, <2>5, <2>6, <2>7 DEF JobStep, MessageJob
<1> QED BY <1>1, <1>2

(***************************************************************************)
(* A message keeps its one holder until its job is there.                  *)
(***************************************************************************)
HeldInv == (\A a \in Actors : Held(a)) /\ (\A m \in Messages : Unwritten(m)) /\ Apart

LEMMA HeldFrame ==
  ASSUME Typed, NEW a \in Actors, MessageMoves(a),
         \A b \in Actors \ {a} : Adding(b)' <=> Adding(b),
         \A m \in Messages : \/ at'[J("send", m)] = at[J("send", m)]
                             \/ a = J("send", m) /\ at[a] # "none" /\ at'[a] # "none"
                             \/ Adding(a) /\ ~ Adding(a)' /\ m = message[a],
         a \in Requests \/ at[a] # "none"
  PROVE  HeldInv'
<1>0. /\ HeldInv /\ MessageShape(message) /\ MessageShape(message')
      /\ \A b \in Actors : message[b] \in Messages \cup {0} /\ message'[b] \in Messages \cup {0}
      /\ \A m \in Messages : J("send", m) \notin Requests /\ m # 0
  BY JobNames DEF HeldInv, Typed, MessageMoves, Shape, MessageShape, Messages
<1>1. ASSUME NEW b \in Actors \ {a} PROVE Held(b)'
  <2>1. Held(b) /\ message'[b] = message[b] /\ (Adding(b)' <=> Adding(b))
    BY <1>0 DEF HeldInv, MessageMoves
  <2> SUFFICES ASSUME message[b] # 0
               PROVE  status'[message[b]] = "QUEUED" /\ at'[J("send", message[b])] = "none"
    BY <2>1 DEF Held
  <2> DEFINE m == message[b]
  <2>2. m \in Messages /\ status[m] = "QUEUED" /\ at[J("send", m)] = "none"
    BY <1>0, <2>1 DEF Held
  <2>3. a # J("send", m)
    BY <1>0, <2>2
  <2>4. status'[m] = "QUEUED"
    BY <2>2, <2>3 DEF MessageMoves
  <2>5. m # message[a] \/ ~ Adding(a)
    BY <1>0, <2>2 DEF HeldInv, Apart
  <2> QED BY <2>2, <2>3, <2>4, <2>5
<1>2. Held(a)'
  <2>1. CASE message'[a] = 0 /\ ~ Adding(a)'
    BY <2>1 DEF Held
  <2>2. CASE /\ Adding(a)' /\ message'[a] \in Messages
             /\ status[message'[a]] = "none" /\ status'[message'[a]] = "QUEUED"
    <3>1. at[J("send", message'[a])] = "none"
      BY <1>0, <2>2 DEF HeldInv, Unwritten
    <3>2. a # J("send", message'[a])
      BY <1>0, <2>2, <3>1
    <3> QED
      BY <1>0, <2>2, <3>1, <3>2 DEF Held
  <2> QED BY <2>1, <2>2 DEF MessageMoves
<1>3. ASSUME NEW m \in Messages PROVE Unwritten(m)'
  <2> SUFFICES ASSUME status'[m] = "none" PROVE at'[J("send", m)] = "none"
    BY DEF Unwritten
  <2>1. status[m] = "none" /\ at[J("send", m)] = "none"
    BY <1>0 DEF MessageMoves, HeldInv, Unwritten
  <2>2. ~ (Adding(a) /\ m = message[a])
    BY <1>0, <2>1 DEF HeldInv, Held
  <2> QED BY <2>1, <2>2
<1>4. Apart'
  <2>1. ASSUME NEW b \in Actors \ {a}, message'[b] = message'[a], message'[a] # 0 PROVE FALSE
    <3>1. Held(b) /\ message'[b] = message[b]
      BY <1>0 DEF HeldInv, MessageMoves
    <3> QED
      BY <2>1, <3>1 DEF Held, MessageMoves
  <2> SUFFICES ASSUME NEW b \in Actors, NEW c \in Actors, message'[b] = message'[c],
                      message'[b] # 0, b # c
               PROVE  FALSE
    BY DEF Apart
  <2>2. CASE b = a \/ c = a
    BY <2>1, <2>2
  <2>3. CASE b # a /\ c # a
    BY <1>0, <2>3 DEF HeldInv, Apart, MessageMoves
  <2> QED BY <2>2, <2>3
<1> QED BY <1>1, <1>2, <1>3, <1>4 DEF HeldInv

LEMMA RequestHeld ==
  ASSUME Typed, NEW q \in Requests, RequestStep(q) \/ RequestThrow(q)
  PROVE  HeldInv'
<1>1. RequestQueues(q) /\ RequestMoves(q) /\ MessageMoves(q) /\ q \in Actors
  BY RequestsQueue, RequestsMove, RequestMessages DEF Actors
<1>2. ASSUME NEW b \in Actors \ {q} PROVE Adding(b)' <=> Adding(b)
  BY <1>1 DEF Adding, Actors, RequestMoves, RequestQueues, Added
<1>3. ASSUME NEW m \in Messages
      PROVE  \/ at'[J("send", m)] = at[J("send", m)]
             \/ Adding(q) /\ ~ Adding(q)' /\ m = message[q]
  <2>1. \/ at'[J("send", m)] = at[J("send", m)]
        \/ AddedBy(q, J("send", m))
    BY <1>1, JobNames DEF RequestQueues
  <2>2. /\ \A x : J("send", m) = J("send", x) => x = m
        /\ \A n \in OfRequest : \A x : J("send", m) # J(n, x)
    BY JobNames DEF OfRequest
  <2>3. AddedBy(q, J("send", m)) => m = message[q] /\ pc[q] = "add" /\ pc'[q] # "add"
    BY <2>2 DEF AddedBy, OfRequest
  <2> QED BY <2>1, <2>3 DEF Adding
<1> QED BY <1>1, <1>2, <1>3, HeldFrame

LEMMA JobHeld ==
  ASSUME Typed, NEW j \in QueueJobs, j \in Alive, JobStep(j) \/ Throw(j) \/ Crash(j)
  PROVE  HeldInv'
<1>1. JobQueues(j) /\ MessageMoves(j) /\ j \in Actors /\ j \notin Requests /\ pc' = pc
      /\ at[j] # "none"
  <2>1. pc' = pc
    BY DEF JobStep, Throw, Crash, Take, Ack, MessageJob, SendFind, SendCall, SendSent, SendFailed,
       ConfirmLookup, LogFromJob, AddFromJob, ImportJob, ImportMark, ImportRow, ImportError,
       ImportCreate, ImportRefused, ImportBadge, ImportNext, ImportFinish, HookJob, HookList, HookCall,
       HookAudit, HooksEnd, ReportJob, ReportStart, ReportRender, ReportCompleted, ReportFailed,
       JobOnly, requestVars
  <2> QED
    BY <2>1, JobsQueue, JobMessages, JobNames DEF Actors, Alive, Pending
<1>2. at'[j] # "none"
  BY <1>1 DEF JobQueues, Forward, Rejected, Dropped
<1>3. ASSUME NEW b \in Actors \ {j} PROVE Adding(b)' <=> Adding(b)
  BY <1>1 DEF Adding, Actors, JobQueues, Kept, Added
<1>4. ASSUME NEW m \in Messages
      PROVE  \/ at'[J("send", m)] = at[J("send", m)]
             \/ j = J("send", m) /\ at[j] # "none" /\ at'[j] # "none"
             \/ Adding(j) /\ ~ Adding(j)' /\ m = message[j]
  <2>1. J("send", m) \in QueueJobs /\ \A k : J("send", m) = J("send", k) => m = k
    BY JobNames
  <2>2. CASE J("send", m) = j
    BY <1>1, <1>2, <2>2
  <2>3. CASE J("send", m) # j
    BY <1>1, <2>1, <2>3 DEF JobQueues, Kept, Adding
  <2> QED BY <2>2, <2>3
<1> QED BY <1>1, <1>3, <1>4, HeldFrame

----------------------------------------------------------------------------
(***************************************************************************)
(* What a step leaves alone: the records of an import, a webhook event, a  *)
(* report and a message are the business of one job each.                  *)
(***************************************************************************)
ImportAside(q) == /\ imports'[q] = imports[q] /\ line'[q] = line[q]
                  /\ failing'[q] = failing[q] /\ errors'[q] = errors[q]
HookAside(q) == /\ left'[q] = left[q] /\ current'[q] = current[q]
                /\ told'[q] = told[q] /\ verdicts'[q] = verdicts[q]
ReportAside(q) == exports'[q] = exports[q] /\ stored'[q] = stored[q]
MessageAside(m) == taken'[m] = taken[m] /\ upset'[m] = upset[m]

LEMMA MessageRecords ==
  ASSUME Typed, NEW j \in QueueJobs, JobStep(j) \/ Throw(j) \/ Crash(j)
  PROVE  /\ CountShape(taken') /\ CountShape(upset')
         /\ \A m \in Messages : j # J("send", m) => MessageAside(m)
<1>0. /\ CountShape(taken) /\ CountShape(upset)
      /\ j.name = "send" => j.id \in Messages /\ j = J("send", j.id)
  BY JobNames DEF Typed, Shape, Logged
<1>1. ASSUME UNCHANGED <<taken, upset>>
      PROVE  /\ CountShape(taken') /\ CountShape(upset')
             /\ \A m \in Messages : MessageAside(m)
  BY <1>0, <1>1 DEF MessageAside
<1>2. ASSUME j.name = "send", taken' = taken \/ taken' = [taken EXCEPT ![j.id] = @ + 1],
             upset' = upset \/ upset' = [upset EXCEPT ![j.id] = @ + 1]
      PROVE  /\ CountShape(taken') /\ CountShape(upset')
             /\ \A m \in Messages : j # J("send", m) => MessageAside(m)
  BY <1>0, <1>2 DEF MessageAside, CountShape
<1> USE DEF messageVars, At
<1>3. CASE Throw(j) \/ Crash(j)
  BY <1>1, <1>2, <1>3 DEF Throw, Crash
<1>4. CASE SendCall(j)
  BY <1>2, <1>4 DEF SendCall
<1>5. CASE LogFromJob(j)
  BY <1>1, <1>5 DEF LogFromJob, Write
<1>6. CASE Take(j) \/ Ack(j) \/ SendFind(j) \/ SendSent(j) \/ SendFailed(j) \/ ConfirmLookup(j)
           \/ AddFromJob(j)
  BY <1>1, <1>6 DEF Take, Ack, SendFind, SendSent, SendFailed, ConfirmLookup, AddFromJob
<1>7. CASE ImportJob(j) \/ HookJob(j) \/ ReportJob(j)
  BY <1>1, <1>7 DEF ImportJob, ImportMark, ImportRow, ImportError, ImportCreate, ImportRefused,
     ImportBadge, ImportNext, ImportFinish, HookJob, HookList, HookCall, HookAudit, HooksEnd,
     ReportJob, ReportStart, ReportRender, ReportCompleted, ReportFailed
<1> QED BY <1>3, <1>4, <1>5, <1>6, <1>7 DEF JobStep, MessageJob

LEMMA ImportRecords ==
  ASSUME Typed, NEW j \in QueueJobs, JobStep(j) \/ Throw(j) \/ Crash(j)
  PROVE  /\ Imported' /\ table \subseteq table'
         /\ \A q \in Requests : j # J("import", q) => ImportAside(q)
<1>0. /\ Imported
      /\ j.name = "import" => j.id \in Requests /\ j = J("import", j.id)
      /\ ImportShape(imports) /\ RowShape(line) /\ FailingShape(failing) /\ ErrorShape(errors)
      /\ TableShape(table)
  BY JobNames DEF Typed, Shape, Imported
<1>1. ASSUME UNCHANGED importVars
      PROVE  /\ Imported' /\ table \subseteq table'
             /\ \A q \in Requests : ImportAside(q)
  BY <1>0, <1>1 DEF ImportAside, importVars, Imported
<1> USE DEF others, At, ImportAside, Imported
<1>2. CASE Throw(j) \/ Crash(j) \/ Take(j) \/ Ack(j) \/ MessageJob(j) \/ ImportRow(j) \/ ImportRefused(j)
           \/ ImportBadge(j)
  BY <1>1, <1>2 DEF Throw, Crash, Take, Ack, MessageJob, SendFind, SendCall, SendSent, SendFailed,
     ConfirmLookup, LogFromJob, AddFromJob, ImportRow, ImportRefused, ImportBadge
<1>3. CASE HookJob(j) \/ ReportJob(j)
  BY <1>1, <1>3 DEF HookJob, HookList, HookCall, HookAudit, HooksEnd, ReportJob, ReportStart,
     ReportRender, ReportCompleted, ReportFailed
<1>4. CASE ImportMark(j)
  BY <1>0, <1>4 DEF ImportMark, ImportShape, RowShape, FailingShape
<1>5. CASE ImportError(j)
  <2>1. line[j.id] \in Nat /\ errors[j.id] \subseteq Nat
    BY <1>0, <1>5 DEF ImportError, RowShape, ErrorShape
  <2> QED BY <1>0, <1>5, <2>1 DEF ImportError, FailingShape, ErrorShape
<1>6. CASE ImportCreate(j)
  <2>1. Rows(j.id)[line[j.id]] \in Emails
    BY <1>6 DEF ImportCreate, Typed, JobOK, WithAddress
  <2> QED BY <1>0, <1>6, <2>1 DEF ImportCreate, TableShape
<1>7. CASE ImportNext(j)
  BY <1>0, <1>7 DEF ImportNext, RowShape
<1>8. CASE ImportFinish(j)
  BY <1>0, <1>8 DEF ImportFinish, ImportShape
<1> QED BY <1>2, <1>3, <1>4, <1>5, <1>6, <1>7, <1>8 DEF JobStep, ImportJob

LEMMA HookRecords ==
  ASSUME Typed, NEW j \in QueueJobs, JobStep(j) \/ Throw(j) \/ Crash(j)
  PROVE  /\ Hooked' /\ hook' = hook
         /\ \A q \in Requests : j # J("webhook", q) => HookAside(q)
<1>0. /\ Hooked
      /\ j.name = "webhook" => j.id \in Requests /\ j = J("webhook", j.id)
      /\ HookShape(hook) /\ LeftShape(left) /\ CurrentShape(current) /\ ToldShape(told)
      /\ VerdictShape(verdicts)
  BY JobNames DEF Typed, Shape, Hooked
<1>1. ASSUME UNCHANGED hookVars
      PROVE  /\ Hooked' /\ hook' = hook
             /\ \A q \in Requests : HookAside(q)
  BY <1>0, <1>1 DEF HookAside, hookVars, Hooked
<1> USE DEF others, At, HookAside, Hooked
<1>2. CASE Throw(j) \/ Crash(j) \/ Take(j) \/ Ack(j) \/ MessageJob(j) \/ ImportJob(j) \/ HooksEnd(j)
  BY <1>1, <1>2 DEF Throw, Crash, Take, Ack, MessageJob, SendFind, SendCall, SendSent, SendFailed,
     ConfirmLookup, LogFromJob, AddFromJob, ImportJob, ImportMark, ImportRow, ImportError,
     ImportCreate, ImportRefused, ImportBadge, ImportNext, ImportFinish, HooksEnd
<1>3. CASE ReportJob(j)
  BY <1>1, <1>3 DEF ReportJob, ReportStart, ReportRender, ReportCompleted, ReportFailed
<1>4. CASE HookList(j)
  BY <1>0, <1>4 DEF HookList, LeftShape
<1>5. CASE HookCall(j)
  <2>1. PICK h \in left[j.id] :
          /\ current' = [current EXCEPT ![j.id] = h]
          /\ told' = told \/ told' = [told EXCEPT ![j.id][h] = @ + 1]
    BY <1>5 DEF HookCall
  <2>2. h \in Hooks /\ j.id \in Requests /\ UNCHANGED <<hook, left, verdicts>>
    BY <1>0, <1>5 DEF HookCall, LeftShape
  <2>3. CurrentShape(current') /\ \A q \in Requests : j.id # q => current'[q] = current[q]
    BY <1>0, <2>1, <2>2 DEF CurrentShape
  <2>4. ToldShape(told') /\ \A q \in Requests : j.id # q => told'[q] = told[q]
    BY <1>0, <2>1, <2>2 DEF ToldShape
  <2> QED BY <1>0, <1>5, <2>2, <2>3, <2>4 DEF HookCall
<1>6. CASE HookAudit(j)
  <2>1. /\ j.id \in Requests /\ at[j] \in {"SUCCESS", "FAILURE"} /\ UNCHANGED <<hook, told>>
        /\ verdicts' = [verdicts EXCEPT ![j.id][current[j.id]] = @ \cup {at[j]}]
        /\ left' = [left EXCEPT ![j.id] = @ \ {current[j.id]}]
        /\ current' = [current EXCEPT ![j.id] = Nobody]
    BY <1>0, <1>6 DEF HookAudit
  <2>2. CurrentShape(current') /\ \A q \in Requests : j.id # q => current'[q] = current[q]
    BY <1>0, <2>1 DEF CurrentShape
  <2>3. LeftShape(left') /\ \A q \in Requests : j.id # q => left'[q] = left[q]
    BY <1>0, <2>1 DEF LeftShape
  <2>4. VerdictShape(verdicts') /\ \A q \in Requests : j.id # q => verdicts'[q] = verdicts[q]
    BY <1>0, <2>1 DEF VerdictShape
  <2> QED BY <1>0, <1>6, <2>1, <2>2, <2>3, <2>4 DEF HookAudit
<1> QED BY <1>2, <1>3, <1>4, <1>5, <1>6 DEF JobStep, HookJob

LEMMA ReportRecords ==
  ASSUME Typed, NEW j \in QueueJobs, JobStep(j) \/ Throw(j) \/ Crash(j)
  PROVE  /\ Reported'
         /\ \A q \in Requests : j # J("report", q) => ReportAside(q)
<1>0. /\ Reported
      /\ j.name = "report" => j.id \in Requests /\ j = J("report", j.id)
      /\ ExportShape(exports) /\ StoredShape(stored)
  BY JobNames DEF Typed, Shape, Reported
<1>1. ASSUME UNCHANGED reportVars
      PROVE  Reported' /\ \A q \in Requests : ReportAside(q)
  BY <1>0, <1>1 DEF ReportAside, reportVars, Reported
<1> USE DEF others, At, ReportAside, Reported
<1>2. CASE Throw(j) \/ Crash(j) \/ Take(j) \/ Ack(j) \/ MessageJob(j) \/ ImportJob(j) \/ HookJob(j)
  BY <1>1, <1>2 DEF Throw, Crash, Take, Ack, MessageJob, SendFind, SendCall, SendSent, SendFailed,
     ConfirmLookup, LogFromJob, AddFromJob, ImportJob, ImportMark, ImportRow, ImportError,
     ImportCreate, ImportRefused, ImportBadge, ImportNext, ImportFinish, HookJob, HookList, HookCall,
     HookAudit, HooksEnd
<1>3. CASE ReportRender(j)
  BY <1>0, <1>3 DEF ReportRender, StoredShape
<1>4. CASE ReportStart(j) \/ ReportCompleted(j) \/ ReportFailed(j)
  BY <1>0, <1>4 DEF ReportStart, ReportCompleted, ReportFailed, Export, ExportShape
<1> QED BY <1>2, <1>3, <1>4 DEF JobStep, ReportJob

LEMMA SendingIsJob ==
  ASSUME Typed, NEW j \in QueueJobs
  PROVE  Sending(j) \subseteq QueueJobs
<1>1. at[j] = "add" => message[j] \in Messages
  BY JobNames DEF Typed, Shape, MessageShape, Held, Adding, Actors
<1> QED BY <1>1, JobNames DEF Sending

LEMMA JobFaults ==
  ASSUME Typed, NEW j \in QueueJobs, JobStep(j) \/ Throw(j) \/ Crash(j)
  PROVE  FaultShape(lost', deaths', workers') /\ lost \subseteq lost' /\ pc' = pc /\ row' = row
<1>0. lost \subseteq QueueJobs /\ deaths \in Nat /\ workers \in Nat
  BY DEF Typed, Shape, FaultShape
<1> USE DEF FaultShape, requestVars
<1>1. ASSUME UNCHANGED <<requestVars, faults>>
      PROVE  FaultShape(lost', deaths', workers') /\ lost \subseteq lost' /\ pc' = pc /\ row' = row
  BY <1>0, <1>1 DEF faults
<1>2. ASSUME NEW s \in SUBSET QueueJobs, Mark(s), UNCHANGED requestVars
      PROVE  FaultShape(lost', deaths', workers') /\ lost \subseteq lost' /\ pc' = pc /\ row' = row
  BY <1>0, <1>2 DEF Mark
<1>3. CASE Throw(j) \/ ImportRefused(j)
  <2>1. PICK s \in SUBSET QueueJobs : Mark(s)
    BY <1>3, SendingIsJob DEF Throw, ImportRefused, Lose
  <2> QED BY <1>2, <1>3, <2>1 DEF Throw, ImportRefused
<1>4. CASE Crash(j)
  BY <1>0, <1>4, SendingIsJob DEF Crash
<1>5. CASE Take(j) \/ Ack(j) \/ SendFailed(j) \/ ReportFailed(j)
  BY <1>1, <1>5 DEF Take, Ack, SendFailed, ReportFailed
<1> USE DEF JobOnly
<1>6. CASE MessageJob(j) /\ ~ SendFailed(j)
  BY <1>1, <1>6 DEF MessageJob, SendFind, SendCall, SendSent, ConfirmLookup, LogFromJob, AddFromJob
<1>7. CASE ImportJob(j) /\ ~ ImportRefused(j)
  BY <1>1, <1>7 DEF ImportJob, ImportMark, ImportRow, ImportError, ImportCreate, ImportBadge,
     ImportNext, ImportFinish
<1>8. CASE HookJob(j) \/ (ReportJob(j) /\ ~ ReportFailed(j))
  BY <1>1, <1>8 DEF HookJob, HookList, HookCall, HookAudit, HooksEnd, ReportJob, ReportStart,
     ReportRender, ReportCompleted
<1> QED BY <1>3, <1>4, <1>5, <1>6, <1>7, <1>8 DEF JobStep

LEMMA CutOffIsJob ==
  ASSUME Typed, NEW q \in Requests
  PROVE  CutOff(q) \subseteq QueueJobs
<1>1. pc[q] = "add" => message[q] \in Messages
  BY DEF Typed, Shape, MessageShape, Held, Adding, Actors
<1> QED BY <1>1, JobNames DEF CutOff, OfRequest

LEMMA RequestRecords ==
  ASSUME Typed, NEW q \in Requests, RequestStep(q) \/ RequestThrow(q)
  PROVE  /\ UNCHANGED <<line, failing, errors, table, hookVars, stored>>
         /\ Imported' /\ Reported' /\ FaultShape(lost', deaths', workers') /\ lost \subseteq lost'
         /\ imports' = imports \/ (imports' = [imports EXCEPT ![q] = "QUEUED"] /\ pc[q] = "insert"
                                   /\ pc'[q] = "enqueue")
         /\ exports' = exports \/ exports' = [exports EXCEPT ![q] = @ \cup {"QUEUED"}]
<1>0. /\ lost \subseteq QueueJobs /\ deaths \in Nat /\ workers \in Nat
      /\ Imported /\ Reported /\ ImportShape(imports) /\ ExportShape(exports)
      /\ \A s : Go(q, s) => pc'[q] = s
  BY BoundsAssumption DEF Typed, Shape, FaultShape, Imported, Reported, Requested, PcShape, Go
<1> USE DEF FaultShape, others, importVars, reportVars
<1>1. ASSUME UNCHANGED <<importVars, hookVars, reportVars>>
      PROVE  /\ UNCHANGED <<line, failing, errors, table, hookVars, stored>>
             /\ Imported' /\ Reported' /\ imports' = imports /\ exports' = exports
  BY <1>0, <1>1 DEF Imported, Reported
<1>2. ASSUME UNCHANGED faults
      PROVE  FaultShape(lost', deaths', workers') /\ lost \subseteq lost'
  BY <1>0, <1>2 DEF faults
<1>3. CASE RequestThrow(q)
  <2>1. CutOff(q) \subseteq QueueJobs
    BY CutOffIsJob
  <2>3. Mark(CutOff(q))
    BY <1>3 DEF RequestThrow, Lose
  <2>2. FaultShape(lost', deaths', workers') /\ lost \subseteq lost'
    BY <1>0, <2>1, <2>3 DEF Mark
  <2> QED BY <1>1, <1>3, <2>2 DEF RequestThrow
<1>4. CASE InsertImport(q)
  BY <1>0, <1>2, <1>4 DEF InsertImport, Imported, ImportShape, Reported
<1>5. CASE AuditReport(q)
  BY <1>0, <1>2, <1>5 DEF AuditReport, Imported, ExportShape, Reported
<1>6. CASE Begin(q) \/ LogMessage(q) \/ AddMessage(q) \/ EndBulk(q) \/ AddConfirmation(q)
           \/ AddWebhook(q) \/ AddImport(q) \/ AddReport(q)
  BY <1>1, <1>2, <1>6 DEF Begin, LogMessage, AddMessage, EndBulk, AddConfirmation, AddWebhook,
     AddImport, AddReport
<1> QED BY <1>3, <1>4, <1>5, <1>6 DEF RequestStep

----------------------------------------------------------------------------
(***************************************************************************)
(* The shape of the state is kept.                                         *)
(***************************************************************************)
OnItsRow(j) ==
  j.name = "import" =>
    /\ at[j] \in OnRow => line[j.id] <= Len(Rows(j.id))
    /\ at[j] \in WithAddress => Rows(j.id)[line[j.id]] \in Emails

LEMMA RowsHeld ==
  ASSUME Typed, NEW j \in QueueJobs, j \in Alive, JobStep(j) \/ Throw(j) \/ Crash(j)
  PROVE  OnItsRow(j)'
<1> SUFFICES ASSUME j.name = "import", at'[j] \in OnRow PROVE OnItsRow(j)'
  BY DEF OnItsRow, WithAddress, OnRow
<1>1. j.id \in Requests /\ OnItsRow(j)
  BY JobNames DEF Typed, JobOK, OnItsRow
<1>0. line[j.id] \in Nat \ {0} /\ \A s : To(j, s) => at'[j] = s
  BY <1>1 DEF Typed, Shape, Imported, RowShape, Queued, AtShape, To
<1> USE DEF At
<1>2. ASSUME line' = line, at[j] \in OnRow, at'[j] \in WithAddress => at[j] \in WithAddress
      PROVE  OnItsRow(j)'
  BY <1>1, <1>2 DEF OnItsRow, Rows
<1>3. CASE ImportRow(j)
  <2> DEFINE n == line[j.id]
  <2>1. Len(Rows(j.id)) \in Nat /\ n \in Nat \ {0} /\ line' = line
        /\ \A k \in Nat \ {0} : k <= Len(Rows(j.id)) => Rows(j.id)[k] \in Emails \cup {NoAddress}
    BY <1>0, <1>1, <1>3, JobsTyped DEF Rows, ImportRow, others, importVars
  <2>2. CASE n > Len(Rows(j.id))
    BY <1>0, <1>3, <2>2 DEF ImportRow, OnRow
  <2>3. CASE Rows(j.id)[n] = NoAddress /\ ~ (n > Len(Rows(j.id)))
    <3>1. at'[j] = "error"
      BY <1>0, <1>3, <2>3 DEF ImportRow
    <3> QED BY <2>1, <2>3, <3>1 DEF OnItsRow, WithAddress, Rows
  <2>4. CASE Rows(j.id)[n] # NoAddress /\ ~ (n > Len(Rows(j.id)))
    <3>1. n <= Len(Rows(j.id)) /\ Rows(j.id)[n] \in Emails
      BY <2>1, <2>4
    <3> QED BY <2>1, <3>1 DEF OnItsRow, Rows
  <2> QED BY <2>2, <2>3, <2>4
<1>4. CASE ImportError(j) \/ ImportCreate(j) \/ ImportBadge(j) \/ LogFromJob(j) \/ AddFromJob(j)
  <2>1. line' = line /\ at[j] \in OnRow /\ (at[j] \in WithAddress \/ ImportError(j))
    BY <1>4 DEF ImportError, ImportCreate, ImportBadge, LogFromJob, AddFromJob, others, importVars, OnRow,
                WithAddress
  <2>2. ImportError(j) => at'[j] = "next"
    BY <1>0 DEF ImportError
  <2> QED BY <1>2, <2>1, <2>2 DEF WithAddress
<1>5. CASE Throw(j)
  <2>1. Caught(j) # "throw" /\ at[j] \in {"log", "add"} /\ line' = line
    BY <1>0, <1>5 DEF Throw, Reject, Caught, OnRow, others, importVars
  <2> QED BY <1>2, <2>1 DEF OnRow, WithAddress
<1>6. CASE ImportMark(j) \/ ImportRefused(j) \/ ImportNext(j) \/ ImportFinish(j) \/ Take(j) \/ Ack(j)
           \/ Crash(j)
  <2>1. at'[j] \notin OnRow
    BY <1>0, <1>6 DEF ImportMark, ImportRefused, ImportNext, ImportFinish, Take, Ack, Crash, Reject, OnRow
  <2> QED BY <2>1
<1> QED
  BY <1>3, <1>4, <1>5, <1>6 DEF JobStep, MessageJob, ImportJob, HookJob, ReportJob, SendFind, SendCall,
     SendSent, SendFailed, ConfirmLookup, HookList, HookCall, HookAudit, HooksEnd, ReportStart,
     ReportRender, ReportCompleted, ReportFailed

LEMMA JobsKeep ==
  ASSUME Typed, NEW j \in QueueJobs, j \in Alive, JobStep(j) \/ Throw(j) \/ Crash(j)
  PROVE  \A i \in QueueJobs : JobOK(i)'
<1>0. /\ JobQueues(j) /\ j \in Alive /\ at[j] # "none"
      /\ \A q \in Requests : j # J("import", q) => ImportAside(q)
  BY JobsQueue, ImportRecords DEF Alive, Pending
<1>1. ASSUME NEW i \in QueueJobs \ {j} PROVE JobOK(i)'
  <2>0. JobOK(i) /\ Attempts(i.name) \in Nat \ {0} /\ i.name \in {"send"} \cup OfRequest
    BY AttemptsTyped DEF Typed
  <2>1. i.name = "import" => i.id \in Requests /\ line'[i.id] = line[i.id]
    BY <1>0, JobNames DEF ImportAside
  <2>2. CASE Kept(i)
    BY <2>0, <2>1, <2>2 DEF JobOK, Kept, Pending, Rows
  <2>3. CASE Added(i) /\ i = J("send", message[j])
    <3>1. i.name = "send" /\ at'[i] = "waiting" /\ made'[i] = made[i] /\ stalls'[i] = stalls[i]
          /\ made[i] = 0 /\ stalls[i] = 0
      BY <2>0, <2>3, JobNames DEF Added, JobOK
    <3>2. at'[i] \in StepsOf(i.name)
      BY <3>1 DEF StepsOf, Ended
    <3> QED
      BY <2>0, <3>1, <3>2 DEF JobOK, Pending, OnRow, WithAddress
  <2> QED BY <1>0, <2>2, <2>3 DEF JobQueues
<1>2. JobOK(j)'
  <2>0. JobOK(j) /\ Attempts(j.name) \in Nat \ {0} /\ made[j] \in Nat /\ stalls[j] \in 0..2 /\ Pending(j)
    BY AttemptsTyped DEF Typed, Shape, Queued, MadeShape, StallShape, Alive
  <2>1. OnItsRow(j)'
    BY RowsHeld
  <2>2. /\ at'[j] \in StepsOf(j.name) /\ made'[j] <= Attempts(j.name)
        /\ Pending(j)' => made'[j] < Attempts(j.name) /\ stalls'[j] <= 1
        /\ at'[j] # "none"
    <3>0. "waiting" \in StepsOf(j.name) /\ "failed" \in StepsOf(j.name)
      BY DEF StepsOf, Ended
    <3>1. CASE Forward(j)
      BY <2>0, <3>1 DEF Forward, JobOK, Pending
    <3>2. CASE Rejected(j)
      BY <2>0, <3>0, <3>2 DEF Rejected, JobOK, Pending, IsFinal
    <3>3. CASE Dropped(j)
      BY <2>0, <3>0, <3>3 DEF Dropped, JobOK, Pending
    <3> QED BY <1>0, <3>1, <3>2, <3>3 DEF JobQueues
  <2> QED
    BY <1>0, <2>0, <2>1, <2>2 DEF JobOK, OnItsRow
<1> QED BY <1>1, <1>2

LEMMA AddedNames ==
  ASSUME NEW q \in Requests, NEW i \in QueueJobs, AddedBy(q, i)
  PROVE  /\ i.name # "send" => i.id = q
         /\ i.name = "confirm" => pc[q] = "confirm"
<1>1. \A n, x : i = J(n, x) => i.name = n /\ i.id = x
  BY JobNames
<1>2. CASE i = J("send", message[q]) /\ pc[q] = "add"
  BY <1>1, <1>2
<1>3. CASE i = J("confirm", q) /\ pc[q] = "confirm"
  BY <1>1, <1>3
<1>4. CASE i \in {J("webhook", q), J("import", q), J("report", q)}
  BY <1>1, <1>4
<1> QED BY <1>2, <1>3, <1>4 DEF AddedBy

LEMMA TypedByRequest ==
  ASSUME Typed, NEW q \in Requests, RequestStep(q) \/ RequestThrow(q)
  PROVE  Typed'
<1>1. RequestQueues(q) /\ RequestMoves(q) /\ MessageMoves(q) /\ HeldInv' /\ UNCHANGED <<taken, upset>>
  BY RequestsQueue, RequestsMove, RequestMessages, RequestHeld
<1>2. /\ UNCHANGED <<line, failing, errors, table, hookVars, stored>>
      /\ Imported' /\ Reported' /\ FaultShape(lost', deaths', workers')
  BY RequestRecords
<1>3. Shape'
  <2>1. Queued' /\ Logged'
    BY <1>1 DEF RequestQueues, Queued, Typed, Shape, MessageMoves, Logged
  <2>2. Hooked'
    BY <1>2 DEF Typed, Shape, Hooked, hookVars
  <2> QED BY <1>1, <1>2, <2>1, <2>2 DEF Shape, RequestMoves, MessageMoves
<1>4. ASSUME NEW i \in QueueJobs PROVE JobOK(i)'
  <2>0. JobOK(i) /\ Attempts(i.name) \in Nat \ {0} /\ i.name \in {"send"} \cup OfRequest
        /\ (i.name = "confirm" => i.id \in Requests)
    BY AttemptsTyped, JobNames DEF Typed
  <2>1. CASE at'[i] = at[i]
    BY <1>1, <1>2, <2>0, <2>1 DEF JobOK, RequestQueues, Pending, Rows
  <2>2. CASE Added(i) /\ AddedBy(q, i)
    <3>1. /\ at'[i] = "waiting" /\ made'[i] = 0 /\ stalls'[i] = 0
      BY <2>0, <2>2 DEF Added, JobOK
    <3>2. at'[i] \in StepsOf(i.name)
      BY <3>1 DEF StepsOf, Ended
    <3>3. i.name = "confirm" => i.id = q /\ pc[q] = "confirm"
      BY <2>2, AddedNames
    <3>4. i.name = "confirm" => Job[i.id].op = "submit"
      <4>1. RequestOK(q) /\ Job[q].op \in Ops
        BY JobsTyped DEF Typed
      <4> QED BY <3>3, <4>1 DEF RequestOK, StepsOn, Ops
    <3> QED
      BY <2>0, <3>1, <3>2, <3>4 DEF JobOK, Pending, OnRow, WithAddress
  <2> QED BY <1>1, <2>1, <2>2 DEF RequestQueues
<1>5. ASSUME NEW p \in Requests \ {q} PROVE RequestOK(p)'
  <2>1. \A n \in OfRequest : at'[J(n, p)] = at[J(n, p)]
    <3> SUFFICES ASSUME NEW n \in OfRequest PROVE at'[J(n, p)] = at[J(n, p)]
      OBVIOUS
    <3>1. J(n, p) \in QueueJobs /\ J(n, p).id = p /\ J(n, p).name = n /\ n # "send"
      BY JobNames DEF OfRequest
    <3>2. ~ AddedBy(q, J(n, p))
      BY <3>1, AddedNames
    <3> QED BY <1>1, <3>1, <3>2 DEF RequestQueues
  <2> QED
    BY <1>1, <2>1 DEF RequestMoves, RequestOK, Typed, OfRequest
<1>6. RequestOK(q)'
  <2>1. RequestOK(q) /\ \A n \in OfRequest : J(n, q) \in QueueJobs
    BY JobNames DEF Typed
  <2>2. /\ \A n \in OfRequest, k \in OfRequest : J(n, q) = J(k, q) => n = k
        /\ \A n \in OfRequest : \A x : J(n, q) # J("send", x)
    BY JobNames DEF OfRequest
  <2>3. /\ pc'[q] # "idle"
        /\ pc'[q] = "confirm" => at'[J("confirm", q)] = at[J("confirm", q)]
        /\ pc'[q] \in {"insert", "enqueue"} => at'[J("import", q)] = at[J("import", q)]
        /\ pc'[q] # "done" => at'[J("webhook", q)] = at[J("webhook", q)]
        /\ pc'[q] = "export" => at'[J("report", q)] = at[J("report", q)]
    BY <1>1, <2>1, <2>2 DEF RequestQueues, RequestMoves, AddedBy, OfRequest
  <2>4. /\ pc'[q] \in StepsOn(Job[q].op) /\ pc[q] # "done"
        /\ pc'[q] \in {"confirm", "insert", "export"} => pc[q] = "idle"
        /\ pc'[q] = "enqueue" => pc[q] = "insert"
    BY <1>1 DEF RequestMoves
  <2> QED BY <2>1, <2>3, <2>4 DEF RequestOK
<1> QED
  BY <1>1, <1>3, <1>4, <1>5, <1>6 DEF Typed, HeldInv

LEMMA TypedByJob ==
  ASSUME Typed, NEW j \in QueueJobs, j \in Alive, JobStep(j) \/ Throw(j) \/ Crash(j)
  PROVE  Typed'
<1>1. /\ JobQueues(j) /\ MessageMoves(j) /\ HeldInv'
      /\ CountShape(taken') /\ CountShape(upset') /\ Imported' /\ Hooked' /\ Reported'
      /\ FaultShape(lost', deaths', workers') /\ pc' = pc /\ row' = row
      /\ \A i \in QueueJobs : JobOK(i)'
  BY JobsQueue, JobMessages, JobHeld, MessageRecords, ImportRecords, HookRecords, ReportRecords,
     JobFaults, JobsKeep
<1>2. Shape'
  BY <1>1 DEF Shape, Typed, Requested, JobQueues, MessageMoves, Logged
<1>3. ASSUME NEW q \in Requests PROVE RequestOK(q)'
  <2>1. ASSUME NEW n \in OfRequest, at[J(n, q)] = "none" PROVE at'[J(n, q)] = "none"
    <3>1. J(n, q) \in QueueJobs /\ J(n, q) # j /\ J(n, q) # J("send", message[j])
      BY <2>1, JobNames DEF OfRequest, Alive, Pending
    <3> QED BY <1>1, <2>1, <3>1 DEF JobQueues, Kept
  <2>2. RequestOK(q)
    BY DEF Typed
  <2> QED
    BY <1>1, <2>1, <2>2 DEF RequestOK, OfRequest
<1> QED
  BY <1>1, <1>2, <1>3 DEF Typed, HeldInv

LEMMA StillTyped ==
  ASSUME Typed, Shape', UNCHANGED <<requestVars, jobVars, message, status, line>>
  PROVE  Typed'
<1>0. pc' = pc /\ at' = at /\ made' = made /\ stalls' = stalls /\ message' = message
      /\ status' = status /\ line' = line
  BY DEF requestVars, jobVars
<1>1. \A j \in QueueJobs : JobOK(j)'
  BY <1>0 DEF Typed, JobOK, Pending
<1>2. \A q \in Requests : RequestOK(q)'
  BY <1>0 DEF Typed, RequestOK
<1>3. \A a \in Actors : Held(a)'
  BY <1>0 DEF Typed, Held, Adding
<1>4. (\A m \in Messages : Unwritten(m)') /\ Apart'
  BY <1>0 DEF Typed, Unwritten, Apart
<1> QED BY <1>1, <1>2, <1>3, <1>4 DEF Typed

LEMMA TypedByEdit ==
  ASSUME Typed, NEW h \in Hooks, EditHook(h)
  PROVE  Typed'
<1>1. UNCHANGED <<requestVars, jobVars, message, messageVars, importVars, left, current, told,
                  verdicts, reportVars, faults>>
  BY DEF EditHook
<1>2. HookShape(hook')
  BY DEF EditHook, HookShape, Typed, Shape, Hooked
<1>3. Shape'
  BY <1>1, <1>2 DEF Typed, Shape, Requested, Queued, Logged, Imported, Hooked, Reported, requestVars,
                    jobVars, messageVars, importVars, reportVars, faults
<1> QED
  BY <1>1, <1>3, StillTyped DEF messageVars, importVars

LEMMA TypedStep ==
  ASSUME Typed, [Next]_vars
  PROVE  Typed'
<1>1. CASE UNCHANGED vars
  <2>1. Shape'
    BY <1>1 DEF Typed, Shape, Requested, Queued, Logged, Imported, Hooked, Reported, vars, requestVars,
       jobVars, messageVars, importVars, hookVars, reportVars, faults
  <2> QED BY <1>1, <2>1, StillTyped DEF vars, messageVars, importVars
<1>2. CASE Next
  BY <1>2, TypedByRequest, TypedByJob, TypedByEdit DEF Next, Alive
<1> QED BY <1>1, <1>2

LEMMA InitTyped == Init => Typed
<1> SUFFICES ASSUME Init PROVE Typed
  OBVIOUS
<1>1. PICK t \in [coming: SUBSET Requests, workers: Nat, deaths: Nat] :
        /\ pc = [q \in Requests |-> IF q \in t.coming THEN "idle" ELSE "done"]
        /\ deaths = t.deaths /\ workers = t.workers
  BY TrafficAssumption DEF Init
<1>2. Shape
  <2>1. Requested /\ Queued
    BY <1>1 DEF Init, Requested, Queued, PcShape, RowShape, AtShape, MadeShape, StallShape, Steps,
                JobSteps, Ended
  <2>2. MessageShape(message) /\ Logged
    BY DEF Init, MessageShape, Logged, StatusShape, AddressShape, CountShape
  <2>3. Imported /\ Reported
    BY RegisteredAssumption DEF Init, Imported, ImportShape, RowShape, FailingShape, ErrorShape,
       TableShape, Reported, ExportShape, StoredShape
  <2>4. Hooked
    BY DEF Init, Hooked, HookShape, LeftShape, CurrentShape, ToldShape, VerdictShape
  <2>5. FaultShape(lost, deaths, workers)
    BY <1>1, BoundsAssumption DEF Init, FaultShape
  <2> QED BY <2>1, <2>2, <2>3, <2>4, <2>5 DEF Shape
<1>3. ASSUME NEW j \in QueueJobs PROVE JobOK(j)
  <2>1. at[j] = "none" /\ made[j] = 0 /\ stalls[j] = 0 /\ Attempts(j.name) \in Nat \ {0}
    BY AttemptsTyped DEF Init
  <2>2. at[j] \in StepsOf(j.name)
    BY <2>1 DEF StepsOf, Ended
  <2> QED BY <2>1, <2>2 DEF JobOK, Pending, OnRow, WithAddress
<1>4. ASSUME NEW q \in Requests PROVE RequestOK(q)
  <2>1. \A n \in OfRequest : at[J(n, q)] = "none"
    BY JobNames DEF Init
  <2>2. pc[q] \in {"idle", "done"}
    BY <1>1
  <2> QED BY <2>1, <2>2 DEF RequestOK, StepsOn, OfRequest
<1>5. HeldInv
  BY <1>1, JobNames DEF Init, HeldInv, Held, Unwritten, Apart, Adding, Actors
<1> QED BY <1>2, <1>3, <1>4, <1>5 DEF Typed, HeldInv

(***************************************************************************)
(* The state keeps its shape, attempts stay within their number, and what  *)
(* is about to enqueue a message holds one.                                *)
(***************************************************************************)
LEMMA AlwaysTyped == Spec => []Typed
<1> QED BY InitTyped, TypedStep, PTL DEF Spec

\* The type invariant, whatever is lost.
THEOREM TypeCorrect == Spec => []TypeOK
<1> QED BY AlwaysTyped, TypedIsType, PTL

----------------------------------------------------------------------------
(***************************************************************************)
(* Messages.  While its job is past the provider's answer a message was    *)
(* taken once more than the worker failed to notice.                       *)
(***************************************************************************)
Sender(m) == J("send", m)
Delivered(j) == at[j] \in {"sent", "ack", "done"}
Carried(m) == Pending(Sender(m)) \/ \E a \in Actors : message[a] = m

MessageOK(m) ==
  /\ at[Sender(m)] \in {"ack", "done"} => status[m] = "SENT"
  /\ at[Sender(m)] = "sent" \/ status[m] = "SENT" => taken[m] > 0
  /\ Sender(m) \notin lost /\ at[Sender(m)] = "failed" => status[m] = "FAILED"
  /\ Sender(m) \notin lost /\ status[m] = "QUEUED" => Carried(m)
  /\ taken[m] <= upset[m] + (IF Delivered(Sender(m)) THEN 1 ELSE 0)

LEMMA MessageByOthers ==
  ASSUME Typed, NEW m \in Messages, MessageOK(m), NEW a \in Actors, MessageMoves(a), MessageAside(m),
         a # Sender(m), lost \subseteq lost',
         \/ at'[Sender(m)] = at[Sender(m)]
         \/ at[Sender(m)] = "none" /\ at'[Sender(m)] = "waiting",
         message[a] = m => message'[a] = m \/ Sender(m) \in lost' \/ at'[Sender(m)] = "waiting"
  PROVE  MessageOK(m)'
<1>0. /\ Sender(m) \in QueueJobs /\ taken[m] \in Nat /\ upset[m] \in Nat
      /\ status[m] = "none" => at[Sender(m)] = "none"
  BY JobNames DEF Typed, Shape, FaultShape, Sender, Logged, CountShape, Unwritten
<1>1. CASE status'[m] = status[m]
  <2>1. Sender(m) \notin lost' /\ status'[m] = "QUEUED" => Carried(m)'
    <3> SUFFICES ASSUME Sender(m) \notin lost', status[m] = "QUEUED" PROVE Carried(m)'
      BY <1>1
    <3>1. CASE Pending(Sender(m))
      BY <3>1 DEF Carried, Pending
    <3>2. CASE \E b \in Actors : message[b] = m
      <4>1. PICK b \in Actors : message[b] = m
        BY <3>2
      <4>2. CASE b # a
        BY <4>1, <4>2 DEF MessageMoves, Carried
      <4>3. CASE b = a
        BY <4>1, <4>3 DEF Carried, Pending
      <4> QED BY <4>2, <4>3
    <3> QED BY <3>1, <3>2 DEF MessageOK, Carried
  <2>2. /\ at'[Sender(m)] \in {"ack", "done"} => status'[m] = "SENT"
        /\ at'[Sender(m)] = "sent" \/ status'[m] = "SENT" => taken'[m] > 0
        /\ Sender(m) \notin lost' /\ at'[Sender(m)] = "failed" => status'[m] = "FAILED"
    BY <1>1 DEF MessageOK, MessageAside
  <2>3. taken'[m] <= upset'[m] + (IF Delivered(Sender(m))' THEN 1 ELSE 0)
    BY DEF MessageOK, MessageAside, Delivered
  <2> QED BY <2>1, <2>2, <2>3 DEF MessageOK
<1>2. CASE status[m] = "none" /\ status'[m] # "none" /\ m = message'[a]
  <2>1. status'[m] = "QUEUED" /\ at[Sender(m)] = "none"
    BY <1>0, <1>2 DEF MessageMoves, Messages
  <2>2. at'[Sender(m)] \in {"none", "waiting"}
    BY <2>1
  <2>3. Carried(m)'
    BY <1>2 DEF Carried
  <2>4. taken[m] <= upset[m]
    BY <1>0, <2>1 DEF MessageOK, Delivered
  <2> QED
    BY <2>1, <2>2, <2>3, <2>4 DEF MessageOK, MessageAside, Delivered
<1> QED
  BY <1>1, <1>2 DEF MessageMoves, Sender

LEMMA MessageByRequest ==
  ASSUME Typed, NEW m \in Messages, MessageOK(m), NEW q \in Requests, RequestStep(q) \/ RequestThrow(q)
  PROVE  MessageOK(m)'
<1>1. /\ RequestQueues(q) /\ MessageMoves(q) /\ MessageAside(m) /\ lost \subseteq lost'
      /\ q \in Actors /\ q # Sender(m) /\ Sender(m) \in QueueJobs
  BY RequestsQueue, RequestMessages, RequestRecords, JobNames DEF MessageAside, Actors, Sender
<1>2. ASSUME message[q] = m, message'[q] # m PROVE Sender(m) \in lost' \/ at'[Sender(m)] = "waiting"
  <2>1. pc[q] = "add"
    BY <1>1, <1>2 DEF Typed, Held, Adding, Messages
  <2>2. CASE AddMessage(q)
    BY <1>1, <1>2, <2>2 DEF AddMessage, To, Sender, Typed, Shape, Queued, AtShape
  <2>3. CASE RequestThrow(q)
    BY <1>2, <2>1, <2>3 DEF RequestThrow, Lose, Mark, CutOff, Sender
  <2> QED
    BY <2>1, <2>2, <2>3 DEF RequestStep, Begin, LogMessage, EndBulk, AddConfirmation, AddWebhook,
       InsertImport, AddImport, AddReport, AuditReport
<1> QED
  BY <1>1, <1>2, MessageByOthers DEF RequestQueues, Added

LEMMA MessageByOtherJob ==
  ASSUME Typed, NEW m \in Messages, MessageOK(m), NEW j \in QueueJobs, j \in Alive, j # Sender(m),
         JobStep(j) \/ Throw(j) \/ Crash(j)
  PROVE  MessageOK(m)'
<1>1. /\ JobQueues(j) /\ MessageMoves(j) /\ MessageAside(m) /\ lost \subseteq lost'
      /\ j \in Actors /\ j \notin Requests /\ Sender(m) \in QueueJobs
  BY JobsQueue, JobMessages, MessageRecords, JobFaults, JobNames DEF Actors, Sender
<1>2. ASSUME message[j] = m, message'[j] # m PROVE Sender(m) \in lost' \/ at'[Sender(m)] = "waiting"
  <2>1. at[j] = "add"
    BY <1>1, <1>2 DEF Typed, Held, Adding, Messages
  <2>2. CASE AddFromJob(j)
    BY <1>1, <1>2, <2>2 DEF AddFromJob, Sender, Typed, Shape, Queued, AtShape
  <2>3. CASE Throw(j) \/ Crash(j)
    BY <1>2, <2>1, <2>3 DEF Throw, Crash, Lose, Mark, Sending, Sender
  <2> QED
    BY <2>1, <2>2, <2>3 DEF JobStep, Take, Ack, MessageJob, SendFind, SendCall, SendSent,
       SendFailed, ConfirmLookup, LogFromJob, ImportJob, ImportMark, ImportRow, ImportError,
       ImportCreate, ImportRefused, ImportBadge, ImportNext, ImportFinish, HookJob, HookList,
       HookCall, HookAudit, HooksEnd, ReportJob, ReportStart, ReportRender, ReportCompleted,
       ReportFailed, At
<1> QED
  BY <1>1, <1>2, MessageByOthers DEF JobQueues, Kept, Added

LEMMA MessageByItsJob ==
  ASSUME Typed, NEW m \in Messages, MessageOK(m), NEW j \in QueueJobs, j \in Alive, j = Sender(m),
         JobStep(j) \/ Throw(j) \/ Crash(j)
  PROVE  MessageOK(m)'
<1>n. j.name = "send" /\ j.id = m
  BY JobNames DEF Sender
<1>0. /\ lost \subseteq lost'
      /\ taken[m] \in Nat /\ upset[m] \in Nat /\ taken'[m] \in Nat /\ upset'[m] \in Nat
  BY JobFaults, MessageRecords, BoundsAssumption DEF Typed, Shape, FaultShape, Logged, CountShape
<1>t. \A s : To(j, s) => at'[j] = s
  BY DEF Typed, Shape, Queued, AtShape, To
<1>f. /\ StatusShape(status) /\ CountShape(taken) /\ CountShape(upset)
      /\ made[j] \in Nat /\ stalls[j] \in Nat
  BY DEF Typed, Shape, Logged, Queued, MadeShape, StallShape
<1>s. at[j] \in {"waiting", "start", "ack", "call", "sent", "refused"}
  <2>1. at[j] \in StepsOf("send") /\ Pending(j)
    BY <1>n DEF Typed, JobOK, Alive
  <2> QED BY <2>1 DEF StepsOf, Pending, Ended
<1> USE <1>n DEF At, messageVars, Delivered, Carried, Pending
<1>e. /\ taken[m] <= upset[m] + 1
      /\ at[j] # "sent" /\ at[j] # "ack" /\ at[j] # "done" => taken[m] <= upset[m]
      /\ at[j] = "sent" \/ status[m] = "SENT" => taken[m] > 0
  BY <1>0 DEF MessageOK
<1>k. ASSUME at'[j] # "none", at'[j] # "ack", at'[j] # "done",
             at'[j] = "failed" => Sender(m) \in lost',
             status'[m] = status[m],
             at'[j] = "sent" \/ status[m] = "SENT" => taken'[m] > 0,
             taken'[m] <= upset'[m] + 1,
             at'[j] # "sent" => taken'[m] <= upset'[m]
      PROVE  MessageOK(m)'
  <2>1. taken'[m] <= upset'[m] + (IF Delivered(j)' THEN 1 ELSE 0)
    BY <1>0, <1>k
  <2>2. j \notin lost' => Pending(j)'
    BY <1>0, <1>k
  <2> QED BY <1>k, <2>1, <2>2 DEF MessageOK
<1>1. CASE Take(j) \/ SendFind(j)
  <2>1. /\ at'[j] \in {"start", "refused", "call"} /\ at[j] \in {"waiting", "start"}
        /\ status'[m] = status[m] /\ taken'[m] = taken[m] /\ upset'[m] = upset[m]
    BY <1>t, <1>1 DEF Take, SendFind
  <2> QED BY <1>0, <2>1 DEF MessageOK
<1>2. CASE Ack(j)
  <2>1. /\ at'[j] = "done" /\ at[j] = "ack"
        /\ status'[m] = status[m] /\ taken'[m] = taken[m] /\ upset'[m] = upset[m]
    BY <1>t, <1>2 DEF Ack
  <2> QED BY <1>0, <2>1 DEF MessageOK
<1>3. CASE SendCall(j)
  <2>1. /\ at[j] = "call" /\ status'[m] = status[m]
        /\ \/ at'[j] = "sent" /\ taken'[m] = taken[m] + 1 /\ upset'[m] = upset[m]
           \/ at'[j] = "refused" /\ taken'[m] = taken[m] /\ upset'[m] = upset[m]
           \/ at'[j] = "refused" /\ taken'[m] = taken[m] + 1 /\ upset'[m] = upset[m] + 1
    BY <1>f, <1>t, <1>3 DEF SendCall, CountShape
  <2>2. taken[m] <= upset[m]
    BY <1>e, <2>1
  <2>3. CASE at'[j] = "sent"
    BY <1>0, <1>k, <2>1, <2>2, <2>3
  <2>4. CASE at'[j] = "refused"
    <3>0. \/ taken'[m] = taken[m] /\ upset'[m] = upset[m]
          \/ taken'[m] = taken[m] + 1 /\ upset'[m] = upset[m] + 1
      BY <2>1, <2>4
    <3>1. taken'[m] <= upset'[m] /\ taken'[m] >= taken[m]
      BY <1>0, <2>2, <3>0
    <3>2. status[m] = "SENT" => taken'[m] > 0
      BY <1>0, <1>e, <3>1
    <3>3. /\ at'[j] # "none" /\ at'[j] # "ack" /\ at'[j] # "done" /\ at'[j] # "sent"
          /\ at'[j] # "failed" /\ status'[m] = status[m]
      BY <2>1, <2>4
    <3> QED BY <1>0, <1>k, <3>1, <3>2, <3>3
  <2> QED BY <2>1, <2>3, <2>4
<1>4. CASE SendSent(j)
  <2>1. /\ at'[j] = "ack" /\ at[j] = "sent"
        /\ status'[m] = "SENT" /\ taken'[m] = taken[m] /\ upset'[m] = upset[m]
    BY <1>f, <1>t, <1>4 DEF SendSent, StatusShape
  <2> QED BY <1>0, <2>1 DEF MessageOK
<1>5. CASE SendFailed(j)
  <2>1. /\ at'[j] \in {"failed", "waiting"} /\ at[j] = "refused"
        /\ status'[m] = "FAILED" /\ taken'[m] = taken[m] /\ upset'[m] = upset[m]
    BY <1>f, <1>t, <1>5 DEF SendFailed, StatusShape, Reject
  <2> QED BY <1>0, <2>1 DEF MessageOK
<1>6. CASE Throw(j)
  <2>1. /\ at[j] # "ack" /\ at[j] # "done" /\ status'[m] = status[m] /\ taken'[m] = taken[m]
        /\ upset'[m] = IF at[j] = "sent" THEN upset[m] + 1 ELSE upset[m]
    BY <1>f, <1>0, <1>s, <1>6 DEF Throw, CountShape, Ended
  <2>2. \/ at'[j] = "refused"
        \/ at'[j] = "waiting"
        \/ at'[j] = "failed" /\ Sender(m) \in lost'
    <3>1. CASE Caught(j) # "throw"
      BY <1>t, <1>6, <3>1 DEF Throw, Caught
    <3>2. CASE Caught(j) = "throw" /\ IsFinal(j)
      <4>1. Reject(j) /\ Mark(Sending(j) \cup {j})
        BY <1>6, <3>2 DEF Throw, Lose
      <4>2. Sender(m) \in lost'
        BY <4>1 DEF Mark
      <4>3. at'[j] = "failed"
        BY <1>t, <3>2, <4>1 DEF Reject
      <4> QED BY <4>2, <4>3
    <3>3. CASE Caught(j) = "throw" /\ ~ IsFinal(j)
      BY <1>t, <1>6, <3>3 DEF Throw, Reject
    <3> QED BY <3>1, <3>2, <3>3
  <2>3. taken'[m] <= upset'[m]
    BY <1>0, <1>e, <2>1
  <2>4. /\ at'[j] # "none" /\ at'[j] # "ack" /\ at'[j] # "done" /\ at'[j] # "sent"
        /\ at'[j] = "failed" => Sender(m) \in lost'
    BY <2>2
  <2>5. status[m] = "SENT" => taken'[m] > 0
    BY <1>e, <2>1
  <2> QED BY <1>0, <1>k, <2>1, <2>3, <2>4, <2>5
<1>7. CASE Crash(j)
  <2>1. /\ at[j] # "done" /\ status'[m] = status[m] /\ taken'[m] = taken[m]
        /\ upset'[m] = IF at[j] \in {"sent", "ack"} THEN upset[m] + 1 ELSE upset[m]
    BY <1>f, <1>0, <1>s, <1>7 DEF Crash, CountShape, Ended
  <2>2. at'[j] = "waiting" \/ (at'[j] = "failed" /\ Sender(m) \in lost')
    <3>1. CASE stalls[j] > 0
      <4>1. j \in lost' /\ at'[j] = "failed"
        BY <1>t, <1>7, <3>1 DEF Crash
      <4> QED BY <1>0, <4>1
    <3>2. CASE ~ (stalls[j] > 0)
      BY <1>t, <1>7, <3>2 DEF Crash
    <3> QED BY <3>1, <3>2
  <2>3. taken'[m] <= upset'[m]
    BY <1>0, <1>e, <2>1
  <2>4. /\ at'[j] # "none" /\ at'[j] # "ack" /\ at'[j] # "done" /\ at'[j] # "sent"
        /\ at'[j] = "failed" => Sender(m) \in lost'
    BY <2>2
  <2>5. status[m] = "SENT" => taken'[m] > 0
    BY <1>e, <2>1
  <2> QED BY <1>0, <1>k, <2>1, <2>3, <2>4, <2>5
<1> QED
  BY <1>0, <1>s, <1>1, <1>2, <1>3, <1>4, <1>5, <1>6, <1>7 DEF JobStep, MessageJob, ConfirmLookup, LogFromJob,
     AddFromJob, ImportJob, ImportMark, ImportRow, ImportError, ImportCreate, ImportRefused,
     ImportBadge, ImportNext, ImportFinish, HookJob, HookList, HookCall, HookAudit, HooksEnd,
     ReportJob, ReportStart, ReportRender, ReportCompleted, ReportFailed

LEMMA MessageStep ==
  ASSUME Typed, NEW m \in Messages, MessageOK(m), [Next]_vars
  PROVE  MessageOK(m)'
<1>1. CASE \E q \in Requests : RequestStep(q) \/ RequestThrow(q)
  BY <1>1, MessageByRequest
<1>2. CASE \E j \in Alive : JobStep(j) \/ Throw(j) \/ Crash(j)
  BY <1>2, MessageByOtherJob, MessageByItsJob DEF Alive
<1>3. CASE UNCHANGED vars \/ \E h \in Hooks : EditHook(h)
  <2>1. UNCHANGED <<jobVars, message, messageVars, faults>>
    BY <1>3 DEF vars, EditHook
  <2> QED
    BY <2>1 DEF MessageOK, Carried, Pending, Delivered, jobVars, messageVars, faults
<1> QED BY <1>1, <1>2, <1>3 DEF Next

----------------------------------------------------------------------------
(***************************************************************************)
(* Imports.  Every attempt meets the rows in the table's favour: a row     *)
(* with an error gets one again, because the address it was flagged for    *)
(* stays, so the counter of the last attempt is positive when there is an  *)
(* error of any.                                                           *)
(***************************************************************************)
Importer(q) == J("import", q)
Work == {"row", "error", "create", "badge", "log", "add", "next", "finish"}
Row(q) == Rows(q)[line[q]]
AllRows(q) == 1..Len(Rows(q))

Erroneous(q, i) == \/ Rows(q)[i] = NoAddress
                   \/ Rows(q)[i] \in table /\ Job[q].strategy = "FLAG"
Faulted(q) ==
  /\ \A i \in errors[q] : i \in AllRows(q) /\ Erroneous(q, i)
  /\ failing[q] > 0 => errors[q] # {}
Settled(q) ==
  /\ imports[q] = "COMPLETED" => errors[q] = {} /\ \A i \in AllRows(q) : Rows(q)[i] \in table
  /\ imports[q] = "FAILED" => errors[q] # {}
Walked(q, n) == \A i \in AllRows(q) : i < n => /\ i \in errors[q] => failing[q] > 0
                                               /\ i \in errors[q] \/ Rows(q)[i] \in table
Reached(q) == IF at[Importer(q)] = "next" THEN line[q] + 1 ELSE line[q]

AtWork(q) ==
  /\ at[Importer(q)] \in Work => imports[q] = "PROCESSING" /\ Walked(q, Reached(q))
  /\ at[Importer(q)] \in WithAddress => line[q] \notin errors[q]
  /\ at[Importer(q)] \in WithAddress \ {"create"} => Row(q) \in table
  /\ at[Importer(q)] = "error" => Erroneous(q, line[q])
  /\ at[Importer(q)] = "finish" => line[q] > Len(Rows(q))
Verdict(q) ==
  /\ at[Importer(q)] = "ack" \/ at[Importer(q)] = "done" =>
       imports[q] = "COMPLETED" \/ imports[q] = "FAILED"
  /\ Importer(q) \notin lost => at[Importer(q)] # "failed"
  /\ Importer(q) \notin lost /\ imports[q] \in {"QUEUED", "PROCESSING"} =>
       pc[q] = "enqueue" \/ Pending(Importer(q))

ImportOK(q) == Faulted(q) /\ Settled(q) /\ AtWork(q) /\ Verdict(q)

LEMMA WorkSteps ==
  /\ \A s \in {"none", "waiting", "failed"} : s \notin Work /\ s \notin WithAddress
  /\ \A s \in {"start", "ack", "done"} : s \notin Work /\ s \notin WithAddress
  /\ \A s \in {"row", "error", "next", "finish"} : s \in Work /\ s \notin WithAddress
  /\ WithAddress \subseteq Work
BY DEF Work, WithAddress

LEMMA ImportStill ==
  ASSUME NEW q \in Requests, Faulted(q), Settled(q), ImportAside(q), table \subseteq table'
  PROVE  Faulted(q)' /\ Settled(q)' /\ \A n : Walked(q, n) => Walked(q, n)'
<1>1. Faulted(q)'
  BY DEF Faulted, Erroneous, ImportAside, Rows, AllRows
<1>2. Settled(q)'
  BY DEF Settled, ImportAside, Rows, AllRows
<1>3. \A n : Walked(q, n) => Walked(q, n)'
  BY DEF Walked, ImportAside, Rows, AllRows
<1> QED BY <1>1, <1>2, <1>3

LEMMA ImportByOthers ==
  ASSUME Typed, NEW q \in Requests, ImportOK(q), ImportAside(q), table \subseteq table',
         lost \subseteq lost',
         \/ at'[Importer(q)] = at[Importer(q)]
         \/ at[Importer(q)] = "none" /\ at'[Importer(q)] = "waiting",
         pc[q] = "enqueue" => pc'[q] = "enqueue" \/ Importer(q) \in lost' \/ at'[Importer(q)] = "waiting"
  PROVE  ImportOK(q)'
<1>1. Faulted(q)' /\ Settled(q)' /\ \A n : Walked(q, n) => Walked(q, n)'
  BY ImportStill DEF ImportOK
<1>2. AtWork(q)'
  <2>1. CASE at'[Importer(q)] = "waiting"
    BY <2>1, WorkSteps DEF AtWork
  <2>2. CASE at'[Importer(q)] = at[Importer(q)]
    BY <1>1, <2>2 DEF ImportOK, AtWork, Reached, ImportAside, Row, Rows, Erroneous
  <2> QED BY <2>1, <2>2
<1>3. Verdict(q)'
  <2>1. CASE at'[Importer(q)] = "waiting"
    BY <2>1 DEF Verdict, Pending
  <2>2. CASE at'[Importer(q)] = at[Importer(q)]
    <3>1. ASSUME Importer(q) \notin lost', imports'[q] \in {"QUEUED", "PROCESSING"}
          PROVE  pc'[q] = "enqueue" \/ Pending(Importer(q))'
      <4>1. pc[q] = "enqueue" \/ Pending(Importer(q))
        BY <3>1 DEF ImportOK, Verdict, ImportAside
      <4>2. Pending(Importer(q)) => Pending(Importer(q))'
        BY <2>2 DEF Pending
      <4>3. at'[Importer(q)] = "waiting" => Pending(Importer(q))'
        BY DEF Pending
      <4>4. ~ (Importer(q) \in lost')
        BY <3>1
      <4> QED BY <4>1, <4>2, <4>3, <4>4
    <3>2. Importer(q) \notin lost' => at'[Importer(q)] # "failed"
      BY <2>2 DEF ImportOK, Verdict
    <3>3. at'[Importer(q)] = "ack" \/ at'[Importer(q)] = "done" =>
            imports'[q] = "COMPLETED" \/ imports'[q] = "FAILED"
      BY <2>2 DEF ImportOK, Verdict, ImportAside
    <3> QED BY <3>1, <3>2, <3>3 DEF Verdict
  <2> QED BY <2>1, <2>2
<1> QED BY <1>1, <1>2, <1>3 DEF ImportOK

LEMMA ImportByRequest ==
  ASSUME Typed, NEW q \in Requests, ImportOK(q), NEW p \in Requests, RequestStep(p) \/ RequestThrow(p)
  PROVE  ImportOK(q)'
<1>0. Importer(q) \in QueueJobs /\ RequestOK(q) /\ ImportShape(imports)
  BY JobNames DEF Importer, OfRequest, Typed, Shape, Imported
<1>1. /\ RequestQueues(p) /\ RequestMoves(p)
      /\ UNCHANGED <<line, failing, errors, table>> /\ lost \subseteq lost'
      /\ imports' = imports \/ (imports' = [imports EXCEPT ![p] = "QUEUED"] /\ pc[p] = "insert"
                                /\ pc'[p] = "enqueue")
      /\ Importer(q) \in QueueJobs /\ RequestOK(q) /\ ImportShape(imports)
  BY <1>0, RequestsQueue, RequestsMove, RequestRecords
<1>2. \/ at'[Importer(q)] = at[Importer(q)]
      \/ at[Importer(q)] = "none" /\ at'[Importer(q)] = "waiting"
  BY <1>1 DEF RequestQueues, Added
<1>3. CASE imports'[q] = imports[q]
  <2>1. ASSUME pc[q] = "enqueue"
        PROVE  pc'[q] = "enqueue" \/ Importer(q) \in lost' \/ at'[Importer(q)] = "waiting"
    <3>1. CASE p # q
      BY <1>1, <2>1, <3>1 DEF RequestMoves
    <3>2. CASE p = q /\ AddImport(p)
      BY <1>1, <3>2 DEF AddImport, To, Importer, Typed, Shape, Queued, AtShape
    <3>3. CASE p = q /\ RequestThrow(p)
      <4>1. Mark({Importer(q)})
        BY <2>1, <3>3 DEF RequestThrow, Lose, CutOff, Importer
      <4> QED BY <4>1 DEF Mark
    <3> QED
      BY <2>1, <3>1, <3>2, <3>3 DEF RequestStep, Begin, LogMessage, AddMessage, EndBulk, AddConfirmation,
         AddWebhook, InsertImport, AddReport, AuditReport
  <2>2. ImportAside(q)
    BY <1>1, <1>3 DEF ImportAside
  <2> QED BY <1>1, <1>2, <2>1, <2>2, ImportByOthers
<1>4. CASE imports'[q] # imports[q]
  <2>1. p = q /\ imports'[q] = "QUEUED" /\ pc[q] = "insert" /\ pc'[q] = "enqueue"
    BY <1>1, <1>4 DEF ImportShape
  <2>2. at[Importer(q)] = "none" /\ at'[Importer(q)] # "failed" /\ at'[Importer(q)] \in {"none", "waiting"}
    BY <1>1, <1>2, <2>1 DEF RequestOK, Importer
  <2>3. Faulted(q)' /\ Settled(q)'
    BY <1>1, <2>1 DEF ImportOK, Faulted, Settled, Rows, AllRows, Erroneous
  <2>4. AtWork(q)'
    BY <2>2, WorkSteps DEF AtWork
  <2>5. Verdict(q)'
    BY <2>1, <2>2 DEF Verdict
  <2> QED BY <2>3, <2>4, <2>5 DEF ImportOK
<1> QED BY <1>3, <1>4

LEMMA ImportByOtherJob ==
  ASSUME Typed, NEW q \in Requests, ImportOK(q), NEW j \in QueueJobs, j \in Alive, j # Importer(q),
         JobStep(j) \/ Throw(j) \/ Crash(j)
  PROVE  ImportOK(q)'
<1>1. /\ JobQueues(j) /\ ImportAside(q) /\ table \subseteq table' /\ lost \subseteq lost' /\ pc' = pc
      /\ Importer(q) \in QueueJobs
  BY JobsQueue, ImportRecords, JobFaults, JobNames DEF Importer, OfRequest, FaultShape
<1>2. \/ at'[Importer(q)] = at[Importer(q)]
      \/ at[Importer(q)] = "none" /\ at'[Importer(q)] = "waiting"
  BY <1>1 DEF JobQueues, Kept, Added
<1> QED BY <1>1, <1>2, ImportByOthers

\* A step that leaves the records of its own import alone.
LEMMA ImportMoves ==
  ASSUME Typed, NEW q \in Requests, ImportOK(q), ImportAside(q), table \subseteq table',
         NEW s, at'[Importer(q)] = s, pc' = pc, lost \subseteq lost', Pending(Importer(q)),
         s \in Work => at[Importer(q)] \in Work /\ Walked(q, IF s = "next" THEN line[q] + 1 ELSE line[q]),
         s \in WithAddress => line[q] \notin errors[q],
         s \in WithAddress \ {"create"} => Row(q) \in table',
         s = "error" => Erroneous(q, line[q]),
         s = "finish" => line[q] > Len(Rows(q)),
         s = "ack" \/ s = "done" => at[Importer(q)] = "ack",
         s = "none" => FALSE,
         s = "failed" => Importer(q) \in lost'
  PROVE  ImportOK(q)'
<1>1. Faulted(q)' /\ Settled(q)' /\ \A n : Walked(q, n) => Walked(q, n)'
  BY ImportStill DEF ImportOK
<1>2. AtWork(q)'
  <2>1. s \in Work => imports'[q] = "PROCESSING" /\ Walked(q, Reached(q))'
    BY <1>1 DEF ImportOK, AtWork, Reached, ImportAside
  <2>2. /\ s \in WithAddress => line'[q] \notin errors'[q]
        /\ s \in WithAddress \ {"create"} => Row(q)' \in table'
        /\ s = "finish" => line'[q] > Len(Rows(q))
        /\ s = "error" => Erroneous(q, line[q])'
    BY DEF ImportAside, Row, Rows, Erroneous
  <2> QED BY <2>1, <2>2 DEF AtWork, Rows
<1>3. Verdict(q)'
  <2>1. s = "ack" \/ s = "done" => imports'[q] = "COMPLETED" \/ imports'[q] = "FAILED"
    BY DEF ImportOK, Verdict, ImportAside
  <2>2. Importer(q) \notin lost' => s # "failed"
    OBVIOUS
  <2>3. Importer(q) \notin lost' /\ imports'[q] \in {"QUEUED", "PROCESSING"} => Pending(Importer(q))'
    <3>1. CASE s = "done"
      BY <2>1, <3>1
    <3>2. CASE s # "done"
      BY <3>2 DEF Pending
    <3> QED BY <3>1, <3>2
  <2> QED BY <2>1, <2>2, <2>3 DEF Verdict
<1> QED BY <1>1, <1>2, <1>3 DEF ImportOK

LEMMA ImportByItsJob ==
  ASSUME Typed, NEW q \in Requests, ImportOK(q), NEW j \in QueueJobs, j \in Alive, j = Importer(q),
         JobStep(j) \/ Throw(j) \/ Crash(j)
  PROVE  ImportOK(q)'
<1>n. j.name = "import" /\ j.id = q
  BY JobNames DEF Importer, OfRequest
<1>0. /\ lost \subseteq lost' /\ pc' = pc
      /\ Pending(j) /\ at[j] # "none" /\ at[j] # "done" /\ at[j] # "failed"
  BY JobFaults DEF Alive, Pending
<1>t. \A s : To(j, s) => at'[j] = s
  BY DEF Typed, Shape, Queued, AtShape, To
<1>f. /\ ImportShape(imports) /\ RowShape(line) /\ FailingShape(failing) /\ ErrorShape(errors)
      /\ Len(Rows(q)) \in Nat /\ stalls[j] \in Nat
  BY JobsTyped DEF Typed, Shape, Imported, Rows, Queued, StallShape
<1>a. Faulted(q) /\ Settled(q) /\ AtWork(q) /\ Verdict(q)
  BY DEF ImportOK
<1>s. at[j] \in OnRow => line[q] \in AllRows(q)
  BY <1>n, <1>f DEF Typed, JobOK, AllRows, RowShape
<1> USE <1>n DEF At
\* Back to the queue, out of it, or forward where nothing is at stake.
<1>1. ASSUME ImportAside(q), table' = table, at'[j] \in {"waiting", "start", "failed"},
             at'[j] = "failed" => Importer(q) \in lost'
      PROVE  ImportOK(q)'
  <2>1. at'[j] \notin Work /\ at'[j] \notin WithAddress
    BY <1>1, WorkSteps
  <2>2. /\ at'[j] # "finish" /\ at'[j] # "ack" /\ at'[j] # "done" /\ at'[j] # "none"
        /\ at'[j] # "error"
    BY <1>1
  <2> QED BY <1>0, <1>1, <2>1, <2>2, ImportMoves
<1>2. CASE Take(j)
  BY <1>1, <1>t, <1>2 DEF Take, others, importVars, ImportAside
<1>3. CASE Ack(j)
  <2>1. /\ at'[j] = "done" /\ at[j] = "ack" /\ ImportAside(q) /\ table' = table
    BY <1>t, <1>3 DEF Ack, others, importVars, ImportAside
  <2>2. "done" \notin Work /\ "done" \notin WithAddress
    BY WorkSteps
  <2> QED BY <1>0, <2>1, <2>2, ImportMoves
<1>4. CASE Crash(j)
  <2>1. ImportAside(q) /\ table' = table /\ at'[j] \in {"waiting", "failed"}
    BY <1>t, <1>4 DEF Crash, others, importVars, ImportAside
  <2>2. at'[j] = "failed" => j \in lost'
    <3>1. CASE stalls[j] > 0
      BY <1>4, <3>1 DEF Crash
    <3>2. CASE ~ (stalls[j] > 0)
      BY <1>t, <1>4, <3>2 DEF Crash
    <3> QED BY <3>1, <3>2
  <2> QED BY <1>0, <1>1, <2>1, <2>2
<1>5. CASE ImportRefused(j) \/ (Throw(j) /\ Caught(j) = "throw")
  <2>1. ImportAside(q) /\ table' = table /\ Reject(j)
    BY <1>5 DEF ImportRefused, Throw, others, importVars, ImportAside
  <2>2. IsFinal(j) => Importer(q) \in lost'
    <3>1. IsFinal(j) => Mark({j}) \/ Mark(Sending(j) \cup {j})
      BY <1>5 DEF ImportRefused, Throw, Lose
    <3> QED BY <3>1 DEF Mark
  <2>3. at'[j] = IF IsFinal(j) THEN "failed" ELSE "waiting"
    BY <1>t, <2>1 DEF Reject
  <2> QED BY <1>1, <2>1, <2>2, <2>3
\* A row that got an address passes.
<1>6. CASE \/ Throw(j) /\ Caught(j) # "throw"
           \/ AddFromJob(j)
  <2>1. /\ ImportAside(q) /\ table' = table /\ (at[j] = "log" \/ at[j] = "add")
    BY <1>6 DEF Throw, AddFromJob, Caught, others, importVars, ImportAside
  <2>2. at'[j] = "next"
    <3>1. CASE Throw(j) /\ Caught(j) # "throw"
      BY <1>t, <3>1 DEF Throw, Caught
    <3>2. CASE AddFromJob(j)
      <4>1. j \in Actors /\ Adding(j) /\ j \notin Requests
        BY <3>2, JobNames DEF AddFromJob, Adding, Actors
      <4>2. j # J("send", message[j])
        BY <4>1, HeldMessage, <1>0
      <4> QED BY <3>2, <4>2 DEF AddFromJob, Typed, Shape, Queued, AtShape
    <3> QED BY <1>6, <3>1, <3>2
  <2>3. at[j] \in WithAddress \ {"create"} /\ at[j] \in Work /\ at[j] # "next"
    BY <2>1 DEF WithAddress, Work
  <2>4. Walked(q, line[q] + 1)
    <3>1. Walked(q, line[q]) /\ line[q] \notin errors[q] /\ Row(q) \in table
      BY <1>a, <2>3 DEF AtWork, Reached
    <3> QED BY <1>f, <3>1 DEF Walked, Row, AllRows, RowShape
  <2>5. "next" \in Work /\ "next" \notin WithAddress
    BY WorkSteps
  <2> QED BY <1>0, <2>1, <2>2, <2>3, <2>4, <2>5, ImportMoves
<1>7. CASE LogFromJob(j) \/ ImportBadge(j)
  <2>1. /\ ImportAside(q) /\ table' = table /\ (at[j] = "badge" \/ at[j] = "log")
        /\ (at'[j] = "log" \/ at'[j] = "add")
    BY <1>t, <1>7 DEF LogFromJob, ImportBadge, others, importVars, ImportAside
  <2>2. /\ at[j] \in WithAddress \ {"create"} /\ at[j] \in Work /\ at[j] # "next"
        /\ at'[j] # "next" /\ at'[j] # "finish" /\ at'[j] # "ack" /\ at'[j] # "done" /\ at'[j] # "none"
        /\ at'[j] # "failed" /\ at'[j] # "error"
    BY <2>1 DEF WithAddress, Work
  <2>3. Walked(q, line[q]) /\ line[q] \notin errors[q] /\ Row(q) \in table
    BY <1>a, <2>2 DEF AtWork, Reached
  <2> QED BY <1>0, <2>1, <2>2, <2>3, ImportMoves
<1>8. CASE ImportRow(j)
  <2>1. /\ ImportAside(q) /\ table' = table /\ at[j] = "row" /\ at[j] \in Work
        /\ Walked(q, line[q]) /\ line[q] \in Nat \ {0}
    BY <1>a, <1>f, <1>8, WorkSteps DEF ImportRow, others, importVars, ImportAside, AtWork, Reached, RowShape
  <2>m. ASSUME NEW s, at'[j] = s, s \in {"finish", "error", "create", "next", "badge"},
               s \in WithAddress => line[q] \notin errors[q],
               s = "badge" => Row(q) \in table,
               s = "next" => Walked(q, line[q] + 1),
               s = "error" => Erroneous(q, line[q]),
               s = "finish" => line[q] > Len(Rows(q))
        PROVE  ImportOK(q)'
    <3>1. s # "ack" /\ s # "done" /\ s # "none" /\ s # "failed"
      BY <2>m
    <3>2. s \in WithAddress \ {"create"} => s = "badge"
      BY <2>m DEF WithAddress
    <3> QED BY <1>0, <2>1, <2>m, <3>1, <3>2, ImportMoves
  <2>2. CASE line[q] > Len(Rows(q))
    <3>1. at'[j] = "finish" /\ "finish" \notin WithAddress
      BY <1>t, <1>8, <2>2, WorkSteps DEF ImportRow
    <3> QED BY <2>2, <2>m, <3>1
  <2>3. CASE ~ (line[q] > Len(Rows(q))) /\ Row(q) = NoAddress
    <3>1. at'[j] = "error" /\ "error" \notin WithAddress
      BY <1>t, <1>8, <2>3, WorkSteps DEF ImportRow, Row
    <3> QED BY <2>3, <2>m, <3>1 DEF Erroneous, Row
  <2>4. CASE ~ (line[q] > Len(Rows(q))) /\ Row(q) # NoAddress /\ Row(q) \notin table
    <3>1. at'[j] = "create"
      BY <1>t, <1>8, <2>4 DEF ImportRow, Row
    <3>2. line[q] \notin errors[q]
      BY <1>a, <2>4 DEF Faulted, Erroneous, Row
    <3> QED BY <2>m, <3>1, <3>2
  <2>5. CASE ~ (line[q] > Len(Rows(q))) /\ Row(q) # NoAddress /\ Row(q) \in table
    <3>0. Job[q].strategy \in Strategies
      BY JobsTyped
    <3>1. CASE Job[q].strategy = "FLAG"
      <4>1. at'[j] = "error" /\ "error" \notin WithAddress
        BY <1>t, <1>8, <2>5, <3>1, WorkSteps DEF ImportRow, Row
      <4> QED BY <2>5, <2>m, <3>1, <4>1 DEF Erroneous, Row
    <3>2. CASE Job[q].strategy # "FLAG"
      <4>1. line[q] \notin errors[q]
        BY <1>a, <2>5, <3>2 DEF Faulted, Erroneous, Row
      <4>2. Walked(q, line[q] + 1)
        BY <1>f, <2>1, <2>5, <4>1 DEF Walked, Row, AllRows
      <4>3. at'[j] = "next" \/ at'[j] = "badge"
        BY <1>t, <1>8, <2>5, <3>0, <3>2 DEF ImportRow, Row, Strategies
      <4> QED BY <2>5, <2>m, <4>1, <4>2, <4>3
    <3> QED BY <3>1, <3>2
  <2> QED BY <2>2, <2>3, <2>4, <2>5
\* The records change.
<1>9. CASE ImportMark(j)
  <2>1. /\ imports'[q] = "PROCESSING" /\ line'[q] = 1 /\ failing'[q] = 0 /\ errors'[q] = errors[q]
        /\ table' = table /\ at'[j] = "row"
    BY <1>t, <1>f, <1>9 DEF ImportMark, ImportShape, RowShape, FailingShape
  <2>2. Faulted(q)' /\ Settled(q)'
    BY <1>a, <2>1 DEF Faulted, Settled, Rows, AllRows, Erroneous
  <2>3. Walked(q, 1)'
    BY <1>f DEF Walked, AllRows, Rows
  <2>4. AtWork(q)'
    BY <2>1, <2>3, WorkSteps DEF AtWork, Reached
  <2>5. Verdict(q)'
    BY <2>1 DEF Verdict, Pending
  <2> QED BY <2>2, <2>4, <2>5 DEF ImportOK
<1>10. CASE ImportError(j)
  <2>1. /\ imports'[q] = imports[q] /\ line'[q] = line[q] /\ failing'[q] = failing[q] + 1
        /\ errors'[q] = errors[q] \cup {line[q]} /\ table' = table /\ at'[j] = "next" /\ at[j] = "error"
    BY <1>t, <1>f, <1>10 DEF ImportError, FailingShape, ErrorShape
  <2>2. /\ line[q] \in AllRows(q) /\ imports[q] = "PROCESSING" /\ Walked(q, line[q])
        /\ failing[q] \in Nat /\ line[q] \in Nat
    BY <1>a, <1>f, <1>s, <2>1, WorkSteps DEF AtWork, Reached, OnRow, FailingShape, RowShape
  <2>3. Faulted(q)'
    <3>1. Erroneous(q, line[q]) /\ table' = table /\ failing'[q] > 0 /\ errors'[q] # {}
      BY <1>a, <2>1, <2>2 DEF AtWork
    <3> QED BY <1>a, <2>1, <2>2, <3>1 DEF Faulted, Erroneous, AllRows, Rows
  <2>4. Settled(q)'
    BY <2>1, <2>2 DEF Settled
  <2>5. Walked(q, line[q] + 1)'
    BY <2>1, <2>2 DEF Walked, AllRows, Rows
  <2>6. AtWork(q)'
    BY <2>1, <2>2, <2>5, WorkSteps DEF AtWork, Reached
  <2>7. Verdict(q)'
    BY <2>1 DEF Verdict, Pending
  <2> QED BY <2>3, <2>4, <2>6, <2>7 DEF ImportOK
<1>11. CASE ImportCreate(j)
  <2>1. /\ ImportAside(q) /\ Row(q) \notin table /\ at[j] = "create" /\ at'[j] = "badge"
        /\ table' = table \cup {Row(q)}
    BY <1>t, <1>11 DEF ImportCreate, ImportAside, Row
  <2>2. at[j] \in Work /\ at[j] \in WithAddress /\ "badge" \in Work
    BY <2>1 DEF Work, WithAddress
  <2>3. Walked(q, line[q]) /\ line[q] \notin errors[q]
    BY <1>a, <2>1, <2>2 DEF AtWork, Reached
  <2> QED BY <1>0, <2>1, <2>2, <2>3, ImportMoves
<1>12. CASE ImportNext(j)
  <2>1. /\ imports'[q] = imports[q] /\ line'[q] = line[q] + 1 /\ failing'[q] = failing[q]
        /\ errors'[q] = errors[q] /\ table' = table /\ at'[j] = "row" /\ at[j] = "next"
    BY <1>t, <1>f, <1>12 DEF ImportNext, RowShape
  <2>2. imports[q] = "PROCESSING" /\ Walked(q, line[q] + 1)
    BY <1>a, <2>1, WorkSteps DEF AtWork, Reached
  <2>3. Faulted(q)' /\ Settled(q)'
    BY <1>a, <2>1 DEF Faulted, Settled, Erroneous, AllRows, Rows
  <2>w. Walked(q, line[q])'
    BY <2>1, <2>2 DEF Walked, AllRows, Rows
  <2>4. AtWork(q)'
    BY <2>1, <2>2, <2>w, WorkSteps DEF AtWork, Reached
  <2>5. Verdict(q)'
    BY <2>1 DEF Verdict, Pending
  <2> QED BY <2>3, <2>4, <2>5 DEF ImportOK
<1>13. CASE ImportFinish(j)
  <2>1. /\ imports'[q] = (IF failing[q] > 0 THEN "FAILED" ELSE "COMPLETED")
        /\ line'[q] = line[q] /\ failing'[q] = failing[q] /\ errors'[q] = errors[q] /\ table' = table
        /\ at'[j] = "ack" /\ at[j] = "finish"
    BY <1>t, <1>f, <1>13 DEF ImportFinish, ImportShape
  <2>2. Walked(q, line[q]) /\ line[q] > Len(Rows(q)) /\ line[q] \in Nat
    BY <1>a, <1>f, <2>1, WorkSteps DEF AtWork, Reached, RowShape
  <2>3. ~ (failing[q] > 0) => errors[q] = {} /\ \A i \in AllRows(q) : Rows(q)[i] \in table
    BY <1>a, <1>f, <2>2 DEF Faulted, Walked, AllRows
  <2>4. Faulted(q)' /\ Settled(q)'
    BY <1>a, <2>1, <2>3 DEF Faulted, Settled, Erroneous, AllRows, Rows
  <2>5. AtWork(q)'
    BY <2>1, WorkSteps DEF AtWork
  <2>6. Verdict(q)'
    BY <2>1 DEF Verdict
  <2> QED BY <2>4, <2>5, <2>6 DEF ImportOK
<1> QED
  BY <1>2, <1>3, <1>4, <1>5, <1>6, <1>7, <1>8, <1>9, <1>10, <1>11, <1>12, <1>13
     DEF JobStep, MessageJob, SendFind, SendCall, SendSent, SendFailed, ConfirmLookup, ImportJob, HookJob, HookList, HookCall, HookAudit, HooksEnd,
     ReportJob, ReportStart, ReportRender, ReportCompleted, ReportFailed

LEMMA ImportStep ==
  ASSUME Typed, NEW q \in Requests, ImportOK(q), [Next]_vars
  PROVE  ImportOK(q)'
<1>1. CASE \E p \in Requests : RequestStep(p) \/ RequestThrow(p)
  BY <1>1, ImportByRequest
<1>2. CASE \E j \in Alive : JobStep(j) \/ Throw(j) \/ Crash(j)
  BY <1>2, ImportByOtherJob, ImportByItsJob DEF Alive
<1>3. CASE UNCHANGED vars \/ \E h \in Hooks : EditHook(h)
  <2>1. UNCHANGED <<requestVars, jobVars, importVars, faults>>
    BY <1>3 DEF vars, EditHook
  <2>2. ImportAside(q) /\ table' = table /\ at' = at /\ pc' = pc /\ lost' = lost
    BY <2>1 DEF ImportAside, requestVars, jobVars, importVars, faults
  <2> QED BY <2>2, ImportByOthers
<1> QED BY <1>1, <1>2, <1>3 DEF Next

----------------------------------------------------------------------------
(***************************************************************************)
(* Webhooks.  What an attempt has not called yet heard of the event once   *)
(* in each attempt before at most; what it has not recorded is left.       *)
(***************************************************************************)
Caller(q) == J("webhook", q)
Tries(q) == made[Caller(q)] + stalls[Caller(q)]
Recording(s) == s = "SUCCESS" \/ s = "FAILURE"
Uncalled(q, h) == \/ at[Caller(q)] \in {"none", "waiting", "start"}
                  \/ at[Caller(q)] = "hooks" /\ h \in left[q]
                  \/ Recording(at[Caller(q)]) /\ h \in left[q] /\ h # current[q]

Heard(q) == \A h \in Hooks : /\ told[q][h] <= Tries(q) + 1
                             /\ Uncalled(q, h) => told[q][h] <= Tries(q)
Known(q) ==
  /\ \A h \in Hooks : "SUCCESS" \in verdicts[q][h] => told[q][h] > 0
  /\ at[Caller(q)] = "SUCCESS" => \A h \in Hooks : h = current[q] => told[q][h] > 0
Judged(q) ==
  /\ at[Caller(q)] \in {"hooks", "SUCCESS", "FAILURE", "ack", "done"} =>
       \A h \in Hooks \ Edited : h \in left[q] \/ verdicts[q][h] # {}
  /\ at[Caller(q)] = "ack" \/ at[Caller(q)] = "done" => left[q] = {}
  /\ Caller(q) \notin lost => at[Caller(q)] # "failed"

HookOK(q) == Heard(q) /\ Known(q) /\ Judged(q)
HooksStay == \A h \in Hooks \ Edited : hook[h] = TRUE

LEMMA TriesTyped ==
  ASSUME Typed, NEW q \in Requests
  PROVE  /\ Caller(q) \in QueueJobs /\ Tries(q) \in Nat /\ \A h \in Hooks : told[q][h] \in Nat
         /\ Caller(q).name = "webhook" /\ Caller(q).id = q
         /\ made[Caller(q)] \in Nat /\ stalls[Caller(q)] \in Nat
<1>1. Caller(q) \in QueueJobs /\ Caller(q).name = "webhook" /\ Caller(q).id = q
  BY JobNames DEF Caller, OfRequest
<1>2. MadeShape(made) /\ StallShape(stalls) /\ ToldShape(told)
  BY DEF Typed, Shape, Queued, Hooked
<1> QED BY <1>1, <1>2 DEF MadeShape, StallShape, ToldShape, Tries

LEMMA HookByOthers ==
  ASSUME Typed, NEW q \in Requests, HookOK(q), HookAside(q), lost \subseteq lost',
         made'[Caller(q)] = made[Caller(q)], stalls'[Caller(q)] = stalls[Caller(q)],
         \/ at'[Caller(q)] = at[Caller(q)]
         \/ at[Caller(q)] = "none" /\ at'[Caller(q)] = "waiting"
  PROVE  HookOK(q)'
<1>1. CASE at'[Caller(q)] = at[Caller(q)]
  <2>1. Heard(q)'
    BY <1>1 DEF HookOK, Heard, HookAside, Tries, Uncalled
  <2>2. Known(q)'
    BY <1>1 DEF HookOK, Known, HookAside
  <2>3. Judged(q)'
    BY <1>1 DEF HookOK, Judged, HookAside
  <2> QED BY <2>1, <2>2, <2>3 DEF HookOK
<1>2. CASE at[Caller(q)] = "none" /\ at'[Caller(q)] = "waiting"
  <2>1. Heard(q)'
    BY <1>2 DEF HookOK, Heard, HookAside, Tries, Uncalled
  <2>2. Known(q)' /\ Judged(q)'
    BY <1>2 DEF HookOK, Known, Judged, HookAside
  <2> QED BY <2>1, <2>2 DEF HookOK
<1> QED BY <1>1, <1>2

LEMMA HookByItsJob ==
  ASSUME Typed, NEW q \in Requests, HookOK(q), HooksStay, NEW j \in QueueJobs, j \in Alive, j = Caller(q),
         JobStep(j) \/ Throw(j) \/ Crash(j)
  PROVE  HookOK(q)'
<1>n. j.name = "webhook" /\ j.id = q
  BY TriesTyped
<1>0. /\ lost \subseteq lost'
      /\ Tries(q) \in Nat /\ \A h \in Hooks : told[q][h] \in Nat
      /\ made[j] \in Nat /\ stalls[j] \in Nat
  BY JobFaults, TriesTyped
<1>t. \A s : To(j, s) => at'[j] = s
  BY DEF Typed, Shape, Queued, AtShape, To
<1>f. /\ LeftShape(left) /\ CurrentShape(current) /\ ToldShape(told) /\ VerdictShape(verdicts)
      /\ MadeShape(made) /\ StallShape(stalls)
  BY DEF Typed, Shape, Hooked, Queued
<1>a. Heard(q) /\ Known(q) /\ Judged(q)
  BY DEF HookOK
<1>p. at[j] # "none" /\ at[j] # "done" /\ at[j] # "failed"
  BY DEF Alive, Pending
<1> USE <1>n DEF At
\* The attempt is over.
<1>1. ASSUME HookAside(q), at'[j] = "waiting" \/ (at'[j] = "failed" /\ Caller(q) \in lost'),
             \/ made'[j] = made[j] + 1 /\ stalls'[j] = stalls[j]
             \/ made'[j] = made[j] /\ stalls'[j] = stalls[j] + 1
      PROVE  HookOK(q)'
  <2>1. Tries(q)' = Tries(q) + 1
    BY <1>0, <1>1 DEF Tries
  <2>2. Heard(q)'
    BY <1>0, <1>a, <1>1, <2>1 DEF Heard, HookAside
  <2>3. Known(q)' /\ Judged(q)'
    BY <1>a, <1>1 DEF Known, Judged, HookAside
  <2> QED BY <2>2, <2>3 DEF HookOK
<1>2. CASE Crash(j)
  <2>1. HookAside(q) /\ made'[j] = made[j] /\ stalls'[j] = stalls[j] + 1
    BY <1>f, <1>2 DEF Crash, others, hookVars, HookAside, StallShape
  <2>2. at'[j] = "waiting" \/ (at'[j] = "failed" /\ Caller(q) \in lost')
    <3>1. CASE stalls[j] > 0
      BY <1>0, <1>t, <1>2, <3>1 DEF Crash
    <3>2. CASE ~ (stalls[j] > 0)
      BY <1>t, <1>2, <3>2 DEF Crash
    <3> QED BY <3>1, <3>2
  <2> QED BY <1>1, <2>1, <2>2
<1>3. CASE Throw(j) /\ Caught(j) = "throw"
  <2>1. HookAside(q) /\ Reject(j) /\ Mark(Sending(j) \cup (IF IsFinal(j) THEN {j} ELSE {}))
    BY <1>3 DEF Throw, Lose, others, hookVars, HookAside
  <2>2. IsFinal(j) => Caller(q) \in lost'
    BY <2>1 DEF Mark
  <2>3. at'[j] = IF IsFinal(j) THEN "failed" ELSE "waiting"
    BY <1>t, <2>1 DEF Reject
  <2>4. made'[j] = made[j] + 1 /\ stalls'[j] = stalls[j]
    BY <1>f, <2>1 DEF Reject, MadeShape
  <2> QED BY <1>1, <2>1, <2>2, <2>3, <2>4
<1>4. CASE Throw(j) /\ Caught(j) # "throw"
  <2>1. /\ HookAside(q) /\ at[j] = "SUCCESS" /\ at'[j] = "FAILURE" /\ made' = made /\ stalls' = stalls
    BY <1>t, <1>4 DEF Throw, Caught, others, hookVars, HookAside
  <2>2. Heard(q)'
    BY <1>a, <2>1 DEF Heard, Tries, HookAside, Uncalled, Recording
  <2>3. Known(q)' /\ Judged(q)'
    BY <1>a, <2>1 DEF Known, Judged, HookAside
  <2> QED BY <2>2, <2>3 DEF HookOK
<1>5. CASE Take(j) \/ Ack(j) \/ HooksEnd(j)
  <2>1. /\ HookAside(q) /\ made' = made /\ stalls' = stalls
        /\ \/ at[j] = "waiting" /\ at'[j] = "start"
           \/ at[j] = "ack" /\ at'[j] = "done"
           \/ at[j] = "hooks" /\ at'[j] = "ack" /\ left[q] = {}
    BY <1>t, <1>5 DEF Take, Ack, HooksEnd, JobOnly, others, hookVars, HookAside
  <2>2. Heard(q)'
    BY <1>a, <2>1 DEF Heard, Tries, HookAside, Uncalled, Recording
  <2>3. Known(q)' /\ Judged(q)'
    BY <1>a, <2>1 DEF Known, Judged, HookAside
  <2> QED BY <2>2, <2>3 DEF HookOK
<1>6. CASE HookList(j)
  <2>1. /\ made' = made /\ stalls' = stalls /\ at[j] = "start" /\ at'[j] = "hooks"
        /\ left'[q] = {h \in Hooks : hook[h]} /\ told' = told /\ verdicts' = verdicts
    BY <1>t, <1>f, <1>6 DEF HookList, JobOnly, LeftShape
  <2>2. Heard(q)'
    BY <1>a, <2>1 DEF Heard, Tries, Uncalled, Recording
  <2>3. Known(q)'
    BY <1>a, <2>1 DEF Known
  <2>4. \A h \in Hooks \ Edited : h \in left'[q]
    BY <2>1 DEF HooksStay
  <2>5. Judged(q)'
    BY <2>1, <2>4 DEF Judged
  <2> QED BY <2>2, <2>3, <2>5 DEF HookOK
<1>7. CASE HookCall(j)
  <2>0. PICK k \in left[q] :
          /\ current' = [current EXCEPT ![q] = k]
          /\ \/ /\ told' = [told EXCEPT ![q][k] = @ + 1]
                /\ To(j, "SUCCESS") \/ To(j, "FAILURE")
             \/ To(j, "FAILURE") /\ UNCHANGED told
    BY <1>7 DEF HookCall
  <2>1. /\ made' = made /\ stalls' = stalls /\ at[j] = "hooks" /\ Recording(at'[j])
        /\ left' = left /\ verdicts' = verdicts /\ current'[q] = k /\ k \in Hooks
    BY <1>t, <1>f, <1>7, <2>0 DEF HookCall, JobOnly, CurrentShape, LeftShape, Recording
  <2>2. /\ \A h \in Hooks : h # k => told'[q][h] = told[q][h]
        /\ told'[q][k] = told[q][k] + 1 \/ (told'[q][k] = told[q][k] /\ at'[j] = "FAILURE")
    BY <1>t, <1>f, <2>0, <2>1 DEF ToldShape
  <2>3. Heard(q)'
    <3>1. ASSUME NEW h \in Hooks
          PROVE  told'[q][h] <= Tries(q) + 1 /\ (Uncalled(q, h)' => told'[q][h] <= Tries(q))
      <4>1. CASE h = k
        <5>1. told[q][k] <= Tries(q) /\ ~ Uncalled(q, k)'
          BY <1>a, <2>1 DEF Heard, Uncalled, Recording
        <5> QED BY <1>0, <2>1, <2>2, <4>1, <5>1
      <4>2. CASE h # k
        <5>1. Uncalled(q, h)' => Uncalled(q, h)
          BY <2>1, <4>2 DEF Uncalled, Recording
        <5> QED BY <1>0, <1>a, <2>2, <4>2, <5>1 DEF Heard
      <4> QED BY <4>1, <4>2
    <3>2. Tries(q)' = Tries(q)
      BY <2>1 DEF Tries
    <3> QED BY <3>1, <3>2 DEF Heard
  <2>4. Known(q)'
    <3>1. \A h \in Hooks : told'[q][h] >= told[q][h]
      BY <1>0, <2>1, <2>2
    <3>2. \A h \in Hooks : "SUCCESS" \in verdicts[q][h] => told'[q][h] > 0
      BY <1>0, <1>a, <1>f, <2>1, <2>2, <3>1 DEF Known
    <3>3. at'[j] = "SUCCESS" => told'[q][k] > 0
      BY <1>0, <2>1, <2>2
    <3> QED BY <2>1, <3>2, <3>3 DEF Known
  <2>5. Judged(q)'
    BY <1>a, <2>1 DEF Judged, Recording
  <2> QED BY <2>3, <2>4, <2>5 DEF HookOK
<1>8. CASE HookAudit(j)
  <2>1. /\ made' = made /\ stalls' = stalls /\ Recording(at[j]) /\ at'[j] = "hooks" /\ told' = told
        /\ left'[q] = left[q] \ {current[q]}
        /\ verdicts' = [verdicts EXCEPT ![q][current[q]] = @ \cup {at[j]}]
    BY <1>t, <1>f, <1>8 DEF HookAudit, JobOnly, LeftShape, Recording
  <2>2. \A h \in Hooks : verdicts'[q][h] = IF h = current[q] THEN verdicts[q][h] \cup {at[j]}
                                           ELSE verdicts[q][h]
    BY <1>f, <2>1 DEF VerdictShape
  <2>3. Heard(q)'
    BY <1>a, <2>1 DEF Heard, Tries, Uncalled, Recording
  <2>4. Known(q)'
    BY <1>a, <2>1, <2>2 DEF Known, Recording
  <2>5. Judged(q)'
    <3>1. \A h \in Hooks \ Edited : h \in left[q] \/ verdicts[q][h] # {}
      BY <1>a, <2>1 DEF Judged, Recording
    <3>2. ASSUME NEW h \in Hooks \ Edited PROVE h \in left'[q] \/ verdicts'[q][h] # {}
      <4>1. CASE h = current[q]
        <5>1. at[j] \in verdicts'[q][h]
          BY <2>2, <4>1
        <5> QED BY <5>1
      <4>2. CASE h # current[q]
        <5>1. verdicts'[q][h] = verdicts[q][h]
          BY <2>2, <4>2
        <5> QED BY <2>1, <3>1, <4>2, <5>1
      <4> QED BY <4>1, <4>2
    <3> QED BY <2>1, <3>2 DEF Judged
  <2> QED BY <2>3, <2>4, <2>5 DEF HookOK
<1> QED
  <2>1. at[j] \in StepsOf("webhook")
    BY DEF Typed, JobOK
  <2> QED
  BY <1>2, <1>3, <1>4, <1>5, <1>6, <1>7, <1>8, <2>1
     DEF JobStep, MessageJob, SendFind, SendCall, SendSent, SendFailed, ConfirmLookup, LogFromJob, AddFromJob,
     ImportJob, ImportMark, ImportRow, ImportError, ImportCreate, ImportRefused, ImportBadge,
     ImportNext, ImportFinish, HookJob, ReportJob, ReportStart, ReportRender, ReportCompleted,
     ReportFailed, StepsOf, Ended

LEMMA HookStep ==
  ASSUME Typed, HooksStay, NEW q \in Requests, HookOK(q), [Next]_vars
  PROVE  HookOK(q)'
<1>0. Caller(q) \in QueueJobs
  BY TriesTyped
<1>1. CASE \E p \in Requests : RequestStep(p) \/ RequestThrow(p)
  <2>1. PICK p \in Requests : RequestStep(p) \/ RequestThrow(p)
    BY <1>1
  <2>2. /\ RequestQueues(p) /\ UNCHANGED hookVars /\ lost \subseteq lost'
    BY <2>1, RequestsQueue, RequestRecords
  <2>3. HookAside(q)
    BY <2>2 DEF hookVars, HookAside
  <2>4. /\ made'[Caller(q)] = made[Caller(q)] /\ stalls'[Caller(q)] = stalls[Caller(q)]
        /\ \/ at'[Caller(q)] = at[Caller(q)]
           \/ at[Caller(q)] = "none" /\ at'[Caller(q)] = "waiting"
    BY <1>0, <2>2 DEF RequestQueues, Added
  <2> QED BY <2>2, <2>3, <2>4, HookByOthers
<1>2. CASE \E j \in Alive : JobStep(j) \/ Throw(j) \/ Crash(j)
  <2>1. PICK j \in Alive : JobStep(j) \/ Throw(j) \/ Crash(j)
    BY <1>2
  <2>2. j \in QueueJobs
    BY DEF Alive
  <2>3. CASE j = Caller(q)
    BY <2>1, <2>2, <2>3, HookByItsJob
  <2>4. CASE j # Caller(q)
    <3>1. JobQueues(j) /\ HookAside(q) /\ lost \subseteq lost'
      BY <2>1, <2>2, <2>4, JobsQueue, HookRecords, JobFaults DEF Caller
    <3>3. /\ made'[Caller(q)] = made[Caller(q)] /\ stalls'[Caller(q)] = stalls[Caller(q)]
          /\ \/ at'[Caller(q)] = at[Caller(q)]
             \/ at[Caller(q)] = "none" /\ at'[Caller(q)] = "waiting"
      BY <1>0, <2>4, <3>1 DEF JobQueues, Kept, Added
    <3> QED BY <3>1, <3>3, HookByOthers
  <2> QED BY <2>3, <2>4
<1>3. CASE UNCHANGED vars \/ \E h \in Hooks : EditHook(h)
  <2>1. UNCHANGED <<jobVars, left, current, told, verdicts, faults>>
    BY <1>3 DEF vars, hookVars, EditHook
  <2>2. /\ HookAside(q) /\ at' = at /\ made' = made /\ stalls' = stalls /\ lost' = lost
    BY <2>1 DEF HookAside, jobVars, faults
  <2> QED BY <2>2, HookByOthers
<1> QED BY <1>1, <1>2, <1>3 DEF Next

LEMMA HooksStayStep ==
  ASSUME Typed, HooksStay, [Next]_vars
  PROVE  HooksStay'
<1>1. CASE \E p \in Requests : RequestStep(p) \/ RequestThrow(p)
  BY <1>1, RequestRecords DEF hookVars, HooksStay
<1>2. CASE \E j \in Alive : JobStep(j) \/ Throw(j) \/ Crash(j)
  BY <1>2, HookRecords DEF Alive, HooksStay
<1>3. CASE \E h \in Hooks : EditHook(h)
  BY <1>3 DEF EditHook, HooksStay, Typed, Shape, Hooked, HookShape
<1>4. CASE UNCHANGED vars
  BY <1>4 DEF vars, hookVars, HooksStay
<1> QED BY <1>1, <1>2, <1>3, <1>4 DEF Next

----------------------------------------------------------------------------
(***************************************************************************)
(* Reports.  The artifact is there before anything says so.                *)
(***************************************************************************)
Reporter(q) == J("report", q)
Past(s) == s = "completed" \/ s = "ack" \/ s = "done"
ReportOK(q) ==
  /\ Past(at[Reporter(q)]) => stored[q] = TRUE
  /\ at[Reporter(q)] = "ack" \/ at[Reporter(q)] = "done" => "COMPLETED" \in exports[q]
  /\ "COMPLETED" \in exports[q] => stored[q] = TRUE
  /\ Reporter(q) \notin lost /\ at[Reporter(q)] = "failed" => "FAILED" \in exports[q]

LEMMA ReportByOthers ==
  ASSUME NEW q \in Requests, ReportOK(q), lost \subseteq lost',
         stored'[q] = stored[q], exports'[q] = exports[q] \/ exports'[q] = exports[q] \cup {"QUEUED"},
         at'[Reporter(q)] = at[Reporter(q)] \/ at'[Reporter(q)] = "waiting"
  PROVE  ReportOK(q)'
BY DEF ReportOK, Past

LEMMA ReportByItsJob ==
  ASSUME Typed, NEW q \in Requests, ReportOK(q), NEW j \in QueueJobs, j \in Alive, j = Reporter(q),
         JobStep(j) \/ Throw(j) \/ Crash(j)
  PROVE  ReportOK(q)'
<1>n. j.name = "report" /\ j.id = q
  BY JobNames DEF Reporter, OfRequest
<1>0. lost \subseteq lost' /\ stalls[j] \in Nat
  BY JobFaults DEF Typed, Shape, Queued, StallShape
<1>t. \A s : To(j, s) => at'[j] = s
  BY DEF Typed, Shape, Queued, AtShape, To
<1>f. ExportShape(exports) /\ StoredShape(stored)
  BY DEF Typed, Shape, Reported
<1>p. at[j] # "none" /\ at[j] # "done" /\ at[j] # "failed"
  BY DEF Alive, Pending
<1> USE <1>n DEF At
<1>1. ASSUME ReportAside(q), at'[j] = "failed" => Reporter(q) \in lost',
             at'[j] \in {"waiting", "failed", "start", "broken"} \/ (at[j] = "ack" /\ at'[j] = "done")
      PROVE  ReportOK(q)'
  <2>1. CASE at[j] = "ack" /\ at'[j] = "done"
    BY <1>1, <2>1 DEF ReportOK, ReportAside, Past
  <2>2. CASE at'[j] \in {"waiting", "failed", "start", "broken"}
    <3>1. /\ at'[j] # "ack" /\ at'[j] # "done" /\ ~ Past(at'[j])
      BY <2>2 DEF Past
    <3> QED BY <1>1, <3>1 DEF ReportOK, ReportAside, Past
  <2> QED BY <1>1, <2>1, <2>2
<1>2. CASE Crash(j)
  <2>1. ReportAside(q)
    BY <1>2 DEF Crash, others, reportVars, ReportAside
  <2>2. at'[j] = "waiting" \/ (at'[j] = "failed" /\ Reporter(q) \in lost')
    <3>1. CASE stalls[j] > 0
      BY <1>0, <1>t, <1>2, <3>1 DEF Crash
    <3>2. CASE ~ (stalls[j] > 0)
      BY <1>t, <1>2, <3>2 DEF Crash
    <3> QED BY <3>1, <3>2
  <2> QED BY <1>1, <2>1, <2>2
<1>3. CASE Throw(j) /\ Caught(j) = "throw"
  <2>1. ReportAside(q) /\ Reject(j) /\ Mark(Sending(j) \cup (IF IsFinal(j) THEN {j} ELSE {}))
    BY <1>3 DEF Throw, Lose, others, reportVars, ReportAside
  <2>2. IsFinal(j) => Reporter(q) \in lost'
    BY <2>1 DEF Mark
  <2>3. at'[j] = IF IsFinal(j) THEN "failed" ELSE "waiting"
    BY <1>t, <2>1 DEF Reject
  <2> QED BY <1>1, <2>1, <2>2, <2>3
<1>4. CASE Throw(j) /\ Caught(j) # "throw"
  <2>1. ReportAside(q) /\ at'[j] = "broken"
    BY <1>t, <1>4 DEF Throw, Caught, others, reportVars, ReportAside
  <2> QED BY <1>1, <2>1
<1>5. CASE Take(j) \/ Ack(j)
  BY <1>1, <1>t, <1>5 DEF Take, Ack, others, reportVars, ReportAside
<1>6. CASE ReportStart(j)
  <2>1. at'[j] = "render" /\ exports'[q] = exports[q] \cup {"STARTED"} /\ stored' = stored
    BY <1>t, <1>f, <1>6 DEF ReportStart, Export, ExportShape
  <2> QED BY <2>1 DEF ReportOK, Past
<1>7. CASE ReportRender(j)
  <2>1. at'[j] = "completed" /\ stored'[q] = TRUE
    BY <1>t, <1>f, <1>7 DEF ReportRender, StoredShape
  <2> QED BY <2>1 DEF ReportOK
<1>8. CASE ReportCompleted(j)
  <2>1. at[j] = "completed" /\ at'[j] = "ack" /\ exports'[q] = exports[q] \cup {"COMPLETED"} /\ stored' = stored
    BY <1>t, <1>f, <1>8 DEF ReportCompleted, Export, ExportShape
  <2> QED BY <2>1 DEF ReportOK, Past
<1>9. CASE ReportFailed(j)
  <2>1. /\ at'[j] = "failed" \/ at'[j] = "waiting"
        /\ exports'[q] = exports[q] \cup {"FAILED"} /\ stored' = stored
    BY <1>t, <1>f, <1>9 DEF ReportFailed, Export, Reject, ExportShape
  <2> QED BY <2>1 DEF ReportOK, Past
<1> QED
  <2>1. at[j] \in StepsOf("report")
    BY DEF Typed, JobOK
  <2> QED
    BY <1>2, <1>3, <1>4, <1>5, <1>6, <1>7, <1>8, <1>9, <2>1
       DEF JobStep, MessageJob, SendFind, SendCall, SendSent, SendFailed, ConfirmLookup, LogFromJob,
       AddFromJob, ImportJob, ImportMark, ImportRow, ImportError, ImportCreate, ImportRefused,
       ImportBadge, ImportNext, ImportFinish, HookJob, HookList, HookCall, HookAudit, HooksEnd,
       ReportJob, StepsOf, Ended

LEMMA ReportStep ==
  ASSUME Typed, NEW q \in Requests, ReportOK(q), [Next]_vars
  PROVE  ReportOK(q)'
<1>0. Reporter(q) \in QueueJobs
  BY JobNames DEF Reporter, OfRequest
<1>1. CASE \E p \in Requests : RequestStep(p) \/ RequestThrow(p)
  <2>1. PICK p \in Requests : RequestStep(p) \/ RequestThrow(p)
    BY <1>1
  <2>2. /\ RequestQueues(p) /\ stored' = stored /\ lost \subseteq lost'
        /\ exports' = exports \/ exports' = [exports EXCEPT ![p] = @ \cup {"QUEUED"}]
    BY <2>1, RequestsQueue, RequestRecords
  <2>4. exports'[q] = exports[q] \/ exports'[q] = exports[q] \cup {"QUEUED"}
    BY <2>2 DEF Typed, Shape, Reported, ExportShape
  <2>5. at'[Reporter(q)] = at[Reporter(q)] \/ at'[Reporter(q)] = "waiting"
    BY <1>0, <2>2 DEF RequestQueues, Added
  <2> QED BY <2>2, <2>4, <2>5, ReportByOthers
<1>2. CASE \E j \in Alive : JobStep(j) \/ Throw(j) \/ Crash(j)
  <2>1. PICK j \in Alive : JobStep(j) \/ Throw(j) \/ Crash(j)
    BY <1>2
  <2>2. j \in QueueJobs
    BY DEF Alive
  <2>3. CASE j = Reporter(q)
    BY <2>1, <2>2, <2>3, ReportByItsJob
  <2>4. CASE j # Reporter(q)
    <3>1. JobQueues(j) /\ ReportAside(q) /\ lost \subseteq lost'
      BY <2>1, <2>2, <2>4, JobsQueue, ReportRecords, JobFaults DEF Reporter
    <3>3. at'[Reporter(q)] = at[Reporter(q)] \/ at'[Reporter(q)] = "waiting"
      BY <1>0, <2>4, <3>1 DEF JobQueues, Kept, Added
    <3> QED BY <3>1, <3>3, ReportByOthers DEF ReportAside
  <2> QED BY <2>3, <2>4
<1>3. CASE UNCHANGED vars \/ \E h \in Hooks : EditHook(h)
  <2>1. UNCHANGED <<at, stored, exports, lost>>
    BY <1>3 DEF vars, jobVars, reportVars, faults, EditHook
  <2> QED BY <2>1, ReportByOthers
<1> QED BY <1>1, <1>2, <1>3 DEF Next

----------------------------------------------------------------------------
(***************************************************************************)
(* All together.                                                           *)
(***************************************************************************)
Recorded == /\ Typed /\ HooksStay
            /\ \A m \in Messages : MessageOK(m)
            /\ \A q \in Requests : ImportOK(q) /\ HookOK(q) /\ ReportOK(q)

LEMMA InitRecorded == Init => Recorded
<1> SUFFICES ASSUME Init PROVE Recorded
  OBVIOUS
<1>0. Typed /\ HooksStay
  BY InitTyped DEF Init, HooksStay
<1>1. ASSUME NEW m \in Messages PROVE MessageOK(m)
  <2>1. /\ at[Sender(m)] = "none" /\ status[m] = "none" /\ taken[m] = 0 /\ upset[m] = 0
    BY JobNames DEF Init, Sender
  <2> QED BY <2>1 DEF MessageOK, Delivered
<1>2. ASSUME NEW q \in Requests PROVE ImportOK(q)
  <2>1. /\ at[Importer(q)] = "none" /\ imports[q] = "none" /\ failing[q] = 0 /\ errors[q] = {}
    BY JobNames DEF Init, Importer, OfRequest
  <2> QED BY <2>1, WorkSteps DEF ImportOK, Faulted, Settled, AtWork, Verdict
<1>3. ASSUME NEW q \in Requests PROVE HookOK(q)
  <2>1. /\ at[Caller(q)] = "none" /\ made[Caller(q)] = 0 /\ stalls[Caller(q)] = 0
        /\ \A h \in Hooks : told[q][h] = 0 /\ verdicts[q][h] = {}
    BY JobNames DEF Init, Caller, OfRequest
  <2> QED BY <2>1 DEF HookOK, Heard, Known, Judged, Tries
<1>4. ASSUME NEW q \in Requests PROVE ReportOK(q)
  <2>1. at[Reporter(q)] = "none" /\ exports[q] = {}
    BY JobNames DEF Init, Reporter, OfRequest
  <2> QED BY <2>1 DEF ReportOK, Past
<1> QED BY <1>0, <1>1, <1>2, <1>3, <1>4 DEF Recorded

LEMMA RecordedStep == Recorded /\ [Next]_vars => Recorded'
BY TypedStep, HooksStayStep, MessageStep, ImportStep, HookStep, ReportStep DEF Recorded

LEMMA AlwaysRecorded == Spec => []Recorded
<1> QED BY InitRecorded, RecordedStep, PTL DEF Spec

(***************************************************************************)
(* No message and no import is left standing: whatever is shown as under   *)
(* way has a job, or somebody about to add it, unless that very job was    *)
(* lost.                                                                   *)
(***************************************************************************)
THEOREM NothingIsForgotten == Spec => []NothingForgotten
<1>1. Recorded => NothingForgotten
  BY DEF Recorded, NothingForgotten, MessageOK, Carried, Sender, ImportOK, Verdict, Importer
<1> QED BY <1>1, AlwaysRecorded, PTL

(***************************************************************************)
(* What is recorded of messages, imports, reports and webhooks is what     *)
(* became of their jobs, and no success is claimed that was not.           *)
(***************************************************************************)
THEOREM RecordsTell == Spec => []RecordsAreTrue
<1>1. Recorded => OutcomeIsRecorded
  <2> SUFFICES ASSUME Recorded, NEW j \in QueueJobs, j \notin lost
               PROVE  /\ j.name = "send" =>
                           /\ at[j] = "done" => status[j.id] = "SENT"
                           /\ at[j] = "failed" => status[j.id] = "FAILED"
                      /\ j.name = "report" =>
                           /\ at[j] = "done" => "COMPLETED" \in exports[j.id] /\ stored[j.id]
                           /\ at[j] = "failed" => "FAILED" \in exports[j.id]
                      /\ at[j] \in {"done", "failed"} =>
                           /\ j.name = "import" => imports[j.id] \in {"COMPLETED", "FAILED"}
                           /\ j.name = "webhook" =>
                                \A h \in Hooks \ Edited : verdicts[j.id][h] # {}
    BY DEF OutcomeIsRecorded
  <2>0. j = J(j.name, j.id) /\ (j.name # "send" => j.id \in Requests)
    BY JobNames
  <2>1. ASSUME j.name = "send"
        PROVE  /\ at[j] = "done" => status[j.id] = "SENT"
               /\ at[j] = "failed" => status[j.id] = "FAILED"
    <3>1. j.id \in Messages /\ j = Sender(j.id)
      BY <2>0, <2>1, JobNames DEF Sender
    <3> QED BY <3>1 DEF Recorded, MessageOK
  <2>2. ASSUME j.name = "report"
        PROVE  /\ at[j] = "done" => "COMPLETED" \in exports[j.id] /\ stored[j.id]
               /\ at[j] = "failed" => "FAILED" \in exports[j.id]
    <3>1. j.id \in Requests /\ j = Reporter(j.id)
      BY <2>0, <2>2 DEF Reporter
    <3> QED BY <3>1 DEF Recorded, ReportOK, Past
  <2>3. ASSUME j.name = "import", at[j] \in {"done", "failed"}
        PROVE  imports[j.id] \in {"COMPLETED", "FAILED"}
    <3>1. j.id \in Requests /\ j = Importer(j.id)
      BY <2>0, <2>3 DEF Importer
    <3> QED BY <2>3, <3>1 DEF Recorded, ImportOK, Verdict
  <2>4. ASSUME j.name = "webhook", at[j] \in {"done", "failed"}, NEW h \in Hooks \ Edited
        PROVE  verdicts[j.id][h] # {}
    <3>1. j.id \in Requests /\ j = Caller(j.id)
      BY <2>0, <2>4 DEF Caller
    <3>2. Judged(j.id) /\ at[j] = "done"
      BY <2>4, <3>1 DEF Recorded, HookOK, Judged
    <3> QED BY <3>1, <3>2 DEF Judged
  <2> QED BY <2>1, <2>2, <2>3, <2>4
<1>2. Recorded => ClaimsAreTrue
  <2> SUFFICES ASSUME Recorded PROVE ClaimsAreTrue
    OBVIOUS
  <2>1. \A m \in Messages : status[m] = "SENT" => taken[m] > 0
    BY DEF Recorded, MessageOK
  <2>2. ASSUME NEW q \in Requests
        PROVE  /\ "COMPLETED" \in exports[q] => stored[q]
               /\ Offered(q) => Download(q) = "artifact"
    BY DEF Recorded, ReportOK, Offered, Download, Reporter
  <2>3. \A q \in Requests, h \in Hooks : "SUCCESS" \in verdicts[q][h] => told[q][h] > 0
    BY DEF Recorded, HookOK, Known
  <2> QED BY <2>1, <2>2, <2>3 DEF ClaimsAreTrue
<1> QED BY <1>1, <1>2, AlwaysRecorded, PTL DEF RecordsAreTrue

(***************************************************************************)
(* A message is taken once more than the worker failed to notice, a        *)
(* webhook called once per attempt.                                        *)
(***************************************************************************)
THEOREM DuplicatesAreCounted == Spec => []DuplicatesAreAccidents
<1>1. Recorded => DuplicatesAreAccidents
  <2> SUFFICES ASSUME Recorded PROVE DuplicatesAreAccidents
    OBVIOUS
  <2>1. ASSUME NEW m \in Messages PROVE taken[m] <= 1 + upset[m]
    <3>1. taken[m] \in Nat /\ upset[m] \in Nat
      BY DEF Recorded, Typed, Shape, Logged, CountShape
    <3> QED BY <3>1 DEF Recorded, MessageOK
  <2>2. ASSUME NEW q \in Requests, NEW h \in Hooks
        PROVE  told[q][h] <= 1 + made[J("webhook", q)] + stalls[J("webhook", q)]
    <3>1. Heard(q) /\ Typed
      BY DEF Recorded, HookOK
    <3>2. told[q][h] <= Tries(q) + 1
      BY <3>1 DEF Heard
    <3> QED BY <3>1, <3>2, TriesTyped DEF Tries, Caller
  <2> QED BY <2>1, <2>2 DEF DuplicatesAreAccidents
<1> QED BY <1>1, AlwaysRecorded, PTL

\* The verdict of an import agrees with the errors shown for it, and with the table.
THEOREM VerdictsHold == Spec => []ImportVerdict
<1>1. Recorded => ImportVerdict
  <2>1. ASSUME NEW q \in Requests PROVE DOMAIN Rows(q) = AllRows(q)
    BY JobsTyped DEF Rows, AllRows
  <2> QED BY <2>1 DEF Recorded, ImportOK, Settled, ImportVerdict
<1> QED BY <1>1, AlwaysRecorded, PTL

----------------------------------------------------------------------------
(***************************************************************************)
(* The exception the records make, `lost', is no way out: a lost job has   *)
(* failed for good, or was never added and nobody is there to add it.      *)
(***************************************************************************)
NoAdder(j) ==
  /\ j.name = "send" => status[j.id] # "none" /\ \A a \in Actors : message[a] # j.id
  /\ j.name = "confirm" => pc[j.id] \notin {"idle", "confirm"}
  /\ j.name = "import" => pc[j.id] \notin {"idle", "insert", "enqueue"}
  /\ j.name = "webhook" => pc[j.id] = "done"
  /\ j.name = "report" => pc[j.id] \notin {"idle", "export"}
Gone(j) == at[j] = "failed" \/ (at[j] = "none" /\ NoAdder(j))
AllGone == \A j \in lost : Gone(j)

\* It is nobody's, and nobody makes it their own.
LEMMA NoAdderStays ==
  ASSUME Typed, Typed', NEW j \in QueueJobs, NoAdder(j), [Next]_vars
  PROVE  NoAdder(j)'
<1>1. CASE \E q \in Requests : RequestStep(q) \/ RequestThrow(q)
  <2>1. PICK q \in Requests : RequestStep(q) \/ RequestThrow(q)
    BY <1>1
  <2>2. RequestMoves(q) /\ MessageMoves(q)
    BY <2>1, RequestsMove, RequestMessages
  <2>3. ASSUME j.name = "send"
        PROVE  status'[j.id] # "none" /\ \A a \in Actors : message'[a] # j.id
    <3>1. j.id \in Messages /\ status[j.id] # "none" /\ \A a \in Actors : message[a] # j.id
      BY <2>3, JobNames DEF NoAdder
    <3>2. j.id # 0
      BY <3>1 DEF Messages
    <3> QED BY <2>2, <3>1, <3>2 DEF MessageMoves, Actors
  <2>4. ASSUME j.name # "send"
        PROVE  /\ j.name = "confirm" => pc'[j.id] \notin {"idle", "confirm"}
               /\ j.name = "import" => pc'[j.id] \notin {"idle", "insert", "enqueue"}
               /\ j.name = "webhook" => pc'[j.id] = "done"
               /\ j.name = "report" => pc'[j.id] \notin {"idle", "export"}
    <3>1. j.id \in Requests
      BY <2>4, JobNames
    <3> QED BY <2>2, <3>1 DEF RequestMoves, NoAdder
  <2> QED BY <2>3, <2>4 DEF NoAdder
<1>2. CASE \E k \in Alive : JobStep(k) \/ Throw(k) \/ Crash(k)
  <2>1. PICK k \in Alive : JobStep(k) \/ Throw(k) \/ Crash(k)
    BY <1>2
  <2>2. MessageMoves(k) /\ pc' = pc
    BY <2>1, JobMessages, JobFaults DEF Alive
  <2>3. ASSUME j.name = "send"
        PROVE  status'[j.id] # "none" /\ \A a \in Actors : message'[a] # j.id
    <3>1. j.id \in Messages /\ status[j.id] # "none" /\ \A a \in Actors : message[a] # j.id
      BY <2>3, JobNames DEF NoAdder
    <3>2. j.id # 0
      BY <3>1 DEF Messages
    <3> QED BY <2>2, <3>1, <3>2 DEF MessageMoves, Actors
  <2> QED BY <2>2, <2>3 DEF NoAdder
<1>3. CASE UNCHANGED vars \/ \E h \in Hooks : EditHook(h)
  BY <1>3 DEF NoAdder, vars, requestVars, messageVars, EditHook
<1> QED BY <1>1, <1>2, <1>3 DEF Next

\* It does not move.
LEMMA GoneStays ==
  ASSUME Typed, NEW j \in QueueJobs, Gone(j), [Next]_vars
  PROVE  at'[j] = at[j]
<1>1. CASE \E q \in Requests : RequestStep(q) \/ RequestThrow(q)
  <2>1. PICK q \in Requests : RequestStep(q) \/ RequestThrow(q)
    BY <1>1
  <2>2. at'[j] = at[j] \/ (Added(j) /\ AddedBy(q, j))
    BY <2>1, RequestsQueue DEF RequestQueues
  <2>3. ~ AddedBy(q, j) \/ at[j] # "none"
    <3> SUFFICES ASSUME at[j] = "none", AddedBy(q, j) PROVE FALSE
      OBVIOUS
    <3>1. NoAdder(j) /\ \A n, x : j = J(n, x) => j.name = n /\ j.id = x
      BY JobNames DEF Gone
    <3>2. pc[q] = "add" => message[q] # j.id \/ j.name # "send"
      BY <3>1 DEF NoAdder, Actors
    <3> QED BY <3>1, <3>2 DEF AddedBy, NoAdder
  <2> QED BY <2>2, <2>3 DEF Added
<1>2. CASE \E k \in Alive : JobStep(k) \/ Throw(k) \/ Crash(k)
  <2>1. PICK k \in Alive : JobStep(k) \/ Throw(k) \/ Crash(k)
    BY <1>2
  <2>2. k \in QueueJobs /\ k # j /\ k \in Actors
    BY DEF Alive, Pending, Gone, Actors
  <2>3. Kept(j) \/ (Added(j) /\ at[k] = "add" /\ j = J("send", message[k]))
    BY <2>1, <2>2, JobsQueue DEF JobQueues
  <2>4. at[j] = "none" => j # J("send", message[k])
    BY <2>2, JobNames DEF Gone, NoAdder
  <2> QED BY <2>3, <2>4 DEF Kept, Added
<1>3. CASE UNCHANGED vars \/ \E h \in Hooks : EditHook(h)
  BY <1>3 DEF vars, jobVars, EditHook
<1> QED BY <1>1, <1>2, <1>3 DEF Next

\* A message somebody was about to add, and no longer is.
LEMMA MessageCutOff ==
  ASSUME Typed, NEW a \in Actors, Adding(a), MessageMoves(a), message'[a] = 0,
         NEW j \in QueueJobs, j = J("send", message[a]), at'[j] = at[j], status' = status
  PROVE  Gone(j)'
<1>1. /\ message[a] \in Messages /\ at[j] = "none" /\ status[message[a]] = "QUEUED"
      /\ message[a] # 0
  BY HeldMessage DEF Typed, Held, Messages
<1>2. \A b \in Actors : message'[b] # message[a]
  BY <1>1 DEF Typed, Apart, MessageMoves
<1>3. j.name = "send" /\ j.id = message[a]
  BY JobNames
<1> QED BY <1>1, <1>2, <1>3 DEF Gone, NoAdder

LEMMA RequestLoses ==
  ASSUME Typed, NEW q \in Requests, RequestStep(q) \/ RequestThrow(q), NEW j \in lost' \ lost
  PROVE  Gone(j)'
<1>1. RequestThrow(q) /\ j \in CutOff(q)
  <2>1. RequestStep(q) => lost' = lost
    BY DEF RequestStep, Begin, LogMessage, AddMessage, EndBulk, AddConfirmation, AddWebhook,
       InsertImport, AddImport, AddReport, AuditReport, faults
  <2> QED BY <2>1 DEF RequestThrow, Lose, Mark
<1>2. /\ at' = at /\ status' = status /\ message' = [message EXCEPT ![q] = 0] /\ q \in Actors
      /\ MessageMoves(q) /\ RequestOK(q) /\ PcShape(pc) /\ MessageShape(message)
      /\ Job[q].op \in Ops
  BY <1>1, RequestMessages, JobsTyped DEF RequestThrow, jobVars, messageVars, Actors, Typed, Shape,
     Requested
<1>3. CASE pc[q] = "add"
  <2>1. j = J("send", message[q]) /\ Adding(q) /\ message'[q] = 0
    BY <1>1, <1>2, <1>3 DEF CutOff, Adding, MessageShape
  <2> QED BY <1>1, <1>2, <2>1, CutOffIsJob, MessageCutOff
<1>4. CASE pc[q] # "add"
  <2>1. \/ pc[q] = "enqueue" /\ j = J("import", q)
        \/ pc[q] \in {"confirm", "webhook"} /\ j = J(pc[q], q)
    BY <1>1, <1>4 DEF CutOff
  <2>2. j.id = q /\ j = J(j.name, q) /\ j.name \in {"import", "confirm", "webhook"}
    BY <2>1, JobNames
  <2>3. at[j] = "none"
    BY <1>2, <2>1, <2>2 DEF RequestOK
  <2>4. /\ j.name = "confirm" => pc'[q] \notin {"idle", "confirm"}
        /\ j.name = "import" => pc'[q] \notin {"idle", "insert", "enqueue"}
        /\ j.name = "webhook" => pc'[q] = "done"
    BY <1>1, <1>2, <2>1, <2>2, JobNames DEF RequestThrow, Go, PcShape, RequestOK, StepsOn, Ops
  <2> QED BY <1>2, <2>2, <2>3, <2>4 DEF Gone, NoAdder
<1> QED BY <1>3, <1>4

LEMMA JobLoses ==
  ASSUME Typed, NEW k \in QueueJobs, k \in Alive, JobStep(k) \/ Throw(k) \/ Crash(k),
         NEW j \in lost' \ lost
  PROVE  Gone(j)'
<1>t. \A s : To(k, s) => at' = [at EXCEPT ![k] = s] /\ at'[k] = s
  BY DEF Typed, Shape, Queued, AtShape, To
<1>1. JobStep(k) => ImportRefused(k) \/ lost' = lost
  BY DEF JobStep, Take, Ack, MessageJob, SendFind, SendCall, SendSent, SendFailed, ConfirmLookup,
     LogFromJob, AddFromJob, ImportJob, ImportMark, ImportRow, ImportError, ImportCreate, ImportBadge,
     ImportNext, ImportFinish, HookJob, HookList, HookCall, HookAudit, HooksEnd, ReportJob,
     ReportStart, ReportRender, ReportCompleted, ReportFailed, JobOnly, faults
<1>2. CASE j = k
  <2>1. ImportRefused(k) => at'[k] = "failed"
    BY <1>t, <1>2 DEF ImportRefused, Reject, Mark
  <2>2. k \notin Sending(k)
    <3>1. at[k] = "add" => k # J("send", message[k])
      <4>1. at[k] = "add" => at[J("send", message[k])] = "none"
        BY HeldMessage, JobNames DEF Adding, Actors
      <4> QED BY <4>1
    <3> QED BY <3>1 DEF Sending
  <2>3. Throw(k) => at'[k] = "failed"
    BY <1>t, <1>2, <2>2 DEF Throw, Lose, Mark, Reject
  <2>4. Crash(k) => at'[k] = "failed"
    BY <1>t, <1>2, <2>2 DEF Crash
  <2> QED BY <1>1, <1>2, <2>1, <2>3, <2>4 DEF Gone
<1>3. CASE j # k
  <2>1. (Throw(k) \/ Crash(k)) /\ j \in Sending(k)
    BY <1>1, <1>3 DEF ImportRefused, Throw, Lose, Crash, Mark
  <2>2. j = J("send", message[k]) /\ at[k] = "add" /\ k \in Actors /\ Adding(k)
    BY <2>1, JobNames DEF Sending, Adding, Actors
  <2>3. MessageMoves(k) /\ message'[k] = 0 /\ status' = status /\ at'[j] = at[j]
    <3>1. MessageMoves(k) /\ MessageShape(message) /\ AtShape(at)
      BY JobMessages DEF Typed, Shape, Queued
    <3>2. PICK s : To(k, s)
      BY <2>1 DEF Throw, Crash, Reject
    <3>3. at'[j] = at[j]
      BY <1>3, <2>1, <3>1, <3>2, SendingIsJob DEF To, AtShape
    <3> QED BY <2>1, <2>2, <3>1, <3>3 DEF Throw, Crash, MessageShape
  <2> QED BY <2>1, <2>2, <2>3, SendingIsJob, MessageCutOff
<1> QED BY <1>2, <1>3

LEMMA AllGoneStep ==
  ASSUME Typed, AllGone, [Next]_vars
  PROVE  AllGone' /\ \A j \in lost : at'[j] = at[j]
<1>1. Typed' /\ lost \subseteq QueueJobs
  BY TypedStep DEF Typed, Shape, FaultShape
<1>2. ASSUME NEW j \in lost PROVE Gone(j)' /\ at'[j] = at[j]
  <2>1. j \in QueueJobs /\ Gone(j) /\ at'[j] = at[j]
    BY <1>1, GoneStays DEF AllGone
  <2>2. NoAdder(j) => NoAdder(j)'
    BY <1>1, <2>1, NoAdderStays
  <2> QED BY <2>1, <2>2 DEF Gone
<1>3. ASSUME NEW j \in lost' \ lost PROVE Gone(j)'
  <2>1. CASE \E q \in Requests : RequestStep(q) \/ RequestThrow(q)
    BY <2>1, <1>3, RequestLoses
  <2>2. CASE \E k \in Alive : JobStep(k) \/ Throw(k) \/ Crash(k)
    BY <2>2, <1>3, JobLoses DEF Alive
  <2>3. CASE UNCHANGED vars \/ \E h \in Hooks : EditHook(h)
    BY <2>3, <1>3 DEF vars, faults, EditHook
  <2> QED BY <2>1, <2>2, <2>3 DEF Next
<1> QED BY <1>2, <1>3 DEF AllGone

(***************************************************************************)
(* A job counts as lost only when it is: it has failed for good or was     *)
(* never added, and no request, retry or worker ever moves it again.       *)
(***************************************************************************)
THEOREM LostIsFinal ==
  Spec => [](\A j \in lost : at[j] \in {"none", "failed"}) /\ [][\A j \in lost : at'[j] = at[j]]_vars
<1>1. Init => AllGone
  BY DEF Init, AllGone
<1>2. Typed /\ AllGone /\ [Next]_vars => AllGone' /\ [\A j \in lost : at'[j] = at[j]]_vars
  BY AllGoneStep
<1>3. AllGone => \A j \in lost : at[j] \in {"none", "failed"}
  BY DEF AllGone, Gone
<1> QED BY <1>1, <1>2, <1>3, AlwaysTyped, PTL DEF Spec
==============================================================================
