---------------------------- MODULE BadgePipeline ----------------------------
(***************************************************************************)
(* The badges of one registrant: the HTTP handlers and the import job that *)
(* issue, regenerate and resend them, the `system' queue of BullMQ, and    *)
(* the worker that renders a badge, mails its download link, and records   *)
(* in a dead letter what it could not render.                              *)
(*                                                                         *)
(* A step is one awaited call.  Any of them may throw; the code catches    *)
(* some of it, the queue retries some of it, and a worker may die with a   *)
(* job in its hands.  What is lost for good by that is counted in          *)
(* `losses', so that the properties can say how many badges it may cost.   *)
(* MaxLosses bounds the losses, MaxCrashes the deaths of workers.          *)
(***************************************************************************)
EXTENDS Integers, Sequences, FiniteSets

CONSTANTS
  Requests,    \* what may issue or re-render a badge of the registrant
  Op,          \* and how
  Traffic,     \* sets of requests that may come in one behaviour
  Workers,     \* worker processes, each working on one job at a time
  Nothing,     \* no badge, no job
  Retries,     \* attempts of a render or delivery job (3 in the code)
  MaxLosses, MaxCrashes

Ops == {"issue", "resend", "regenerate", "getBadge", "import"}

ASSUME OpAssumption == Op \in [Requests -> Ops]
ASSUME TrafficAssumption == Traffic \subseteq SUBSET Requests
ASSUME NothingAssumption == Nothing \notin Requests
ASSUME BoundsAssumption == /\ Retries \in Nat \ {0}
                           /\ MaxLosses \in Nat
                           /\ MaxCrashes \in Nat

\* A badge is named after the request that created its row.
Badges == Requests

Attempts(name) == IF name = "deadLetter" THEN 1 ELSE Retries

(***************************************************************************)
(* A job of the queue: `made' attempts have failed, `stalls' times a       *)
(* worker died with it.                                                    *)
(***************************************************************************)
Jobs == [name: {"render", "delivery", "deadLetter"}, badge: Badges,
         made: 0..(Retries - 1), stalls: 0..1]

NewJob(name, b) == [name |-> name, badge |-> b, made |-> 0, stalls |-> 0]

VARIABLES
  issued,   \* the rows of the Badge table, oldest first
  status, stored, delivered,   \* their status, storagePath # null, deliveredAt # null
  queue,    \* how many copies of each job wait
  work,     \* the job of each worker and the await it stands at
  pc, target, \* the await each request stands at, the badge it has found or created
  mailed,   \* badges whose link was handed to the communications
  letters,  \* badges with a BADGE_RENDER_DEAD_LETTER audit entry
  losses, crashes

rows == <<issued, status, stored, delivered>>
outcomes == <<mailed, letters>>
vars == <<issued, status, stored, delivered, queue, work, pc, target, mailed,
          letters, losses, crashes>>

Idle == [job |-> Nothing, at |-> "idle"]
WorkSteps == {"start", "artifact", "ready", "announce", "failed", "letter",
              "mark", "mail", "reject", "ack"}
Work == {Idle} \cup [job: Jobs, at: WorkSteps]
Steps == {"idle", "create", "enqueue", "recheck", "relookup", "reset",
          "requeue", "done"}

(***************************************************************************)
(* The shape of the state; a request that writes a row or enqueues its     *)
(* render has found or created one.                                        *)
(***************************************************************************)
TypeOK ==
  /\ issued \in Seq(Badges)
  /\ status \in [Badges -> {"none", "PENDING", "RENDERING", "READY", "FAILED"}]
  /\ stored \in [Badges -> BOOLEAN]
  /\ delivered \in [Badges -> BOOLEAN]
  /\ queue \in [Jobs -> Nat]
  /\ work \in [Workers -> Work]
  /\ pc \in [Requests -> Steps]
  /\ target \in [Requests -> Badges \cup {Nothing}]
  /\ \A q \in Requests :
       pc[q] \in {"enqueue", "reset", "requeue"} => target[q] \in Badges
  /\ mailed \subseteq Badges
  /\ letters \subseteq Badges
  /\ losses \in 0..MaxLosses
  /\ crashes \in 0..MaxCrashes

Init ==
  /\ issued = <<>>
  /\ status = [b \in Badges |-> "none"]
  /\ stored = [b \in Badges |-> FALSE]
  /\ delivered = [b \in Badges |-> FALSE]
  /\ queue = [j \in Jobs |-> 0]
  /\ work = [w \in Workers |-> Idle]
  /\ \E coming \in Traffic :
       pc = [q \in Requests |-> IF q \in coming THEN "idle" ELSE "done"]
  /\ target = [q \in Requests |-> Nothing]
  /\ mailed = {}
  /\ letters = {}
  /\ losses = 0
  /\ crashes = 0

Lose(n) == losses + n <= MaxLosses /\ losses' = losses + n
faults == <<losses, crashes>>
Latest == IF issued = <<>> THEN Nothing ELSE issued[Len(issued)]
Add(j) == queue' = [queue EXCEPT ![j] = @ + 1]

----------------------------------------------------------------------------
(***************************************************************************)
(* Requests.                                                               *)
(***************************************************************************)
Go(q, step) == pc' = [pc EXCEPT ![q] = step]

\* The latest badge is looked up; approval and submission do not look.
Lookup(q) ==
  /\ pc[q] = "idle"
  /\ target' = [target EXCEPT ![q] = IF Op[q] = "issue" THEN Nothing ELSE Latest]
  /\ Go(q, IF target'[q] = Nothing
           THEN IF Op[q] = "regenerate" THEN "done" ELSE "create"
           ELSE CASE Op[q] \in {"resend", "regenerate"} -> "reset"
                  [] Op[q] = "getBadge" /\ status[target'[q]] = "FAILED" -> "relookup"
                  [] OTHER -> "done")
  /\ UNCHANGED <<rows, queue, work, outcomes, faults>>

Insert(q) ==
  /\ pc[q] = "create"
  /\ issued' = Append(issued, q)
  /\ status' = [status EXCEPT ![q] = "PENDING"]
  /\ target' = [target EXCEPT ![q] = q]
  /\ Go(q, "enqueue")
  /\ UNCHANGED <<stored, delivered, queue, work, outcomes, faults>>

\* issueForRegistrant up to badge.create.
Create(q) == Op[q] # "import" /\ Insert(q)

\* issueBadgeForRegistrantFromWorker, the copy of it the import job has.
CreateInWorker(q) == Op[q] = "import" /\ Insert(q)

\* The registrant's badge page looks again after it issued a badge.
AfterIssue(q) == IF Op[q] = "getBadge" THEN "recheck" ELSE "done"

Enqueue(q) ==
  /\ pc[q] = "enqueue"
  /\ Add(NewJob("render", target[q]))
  /\ Go(q, AfterIssue(q))
  /\ UNCHANGED <<rows, work, target, outcomes, faults>>

Recheck(q) ==
  /\ pc[q] = "recheck"
  /\ Go(q, IF Latest # Nothing /\ status[Latest] = "FAILED" THEN "relookup" ELSE "done")
  /\ UNCHANGED <<rows, queue, work, target, outcomes, faults>>

\* getBadge calls regenerateBadge, which looks the latest badge up itself.
Relookup(q) ==
  /\ pc[q] = "relookup"
  /\ target' = [target EXCEPT ![q] = Latest]
  /\ Go(q, "reset")
  /\ UNCHANGED <<rows, queue, work, outcomes, faults>>

\* Faulty: the old artifact's path taken away, the status left alone.
ResetPathOnly(q) ==
  /\ pc[q] = "reset"
  /\ stored' = [stored EXCEPT ![target[q]] = FALSE]
  /\ delivered' = [delivered EXCEPT ![target[q]] = FALSE]
  /\ Go(q, "requeue")
  /\ UNCHANGED <<issued, status, queue, work, target, outcomes, faults>>

\* Faulty: no second render job while the badge is being rendered.
ResetUnlessRendering(q) ==
  /\ pc[q] = "reset"
  /\ status' = [status EXCEPT ![target[q]] = "PENDING"]
  /\ stored' = [stored EXCEPT ![target[q]] = FALSE]
  /\ delivered' = [delivered EXCEPT ![target[q]] = FALSE]
  /\ Go(q, IF status[target[q]] = "READY" THEN "done" ELSE "requeue")
  /\ UNCHANGED <<issued, queue, work, target, outcomes, faults>>

Reset(q) ==
  /\ pc[q] = "reset"
  /\ status' = [status EXCEPT ![target[q]] = "PENDING"]
  /\ stored' = [stored EXCEPT ![target[q]] = FALSE]
  /\ delivered' = [delivered EXCEPT ![target[q]] = FALSE]
  /\ Go(q, "requeue")
  /\ UNCHANGED <<issued, queue, work, target, outcomes, faults>>

Requeue(q) ==
  /\ pc[q] = "requeue"
  /\ Add(NewJob("render", target[q]))
  /\ Go(q, "done")
  /\ UNCHANGED <<rows, work, target, outcomes, faults>>

(***************************************************************************)
(* An awaited call of a request throws.  Between the write of the row and  *)
(* queue.add this leaves a badge that nothing will render.  getBadge       *)
(* swallows it, the others answer 500 or swallow it.                       *)
(***************************************************************************)
RequestThrow(q) ==
  /\ pc[q] \notin {"idle", "done"}
  /\ Lose(IF pc[q] \in {"enqueue", "requeue"} THEN 1 ELSE 0)
  /\ UNCHANGED crashes
  /\ Go(q, IF pc[q] \in {"create", "enqueue"} THEN AfterIssue(q) ELSE "done")
  /\ UNCHANGED <<rows, queue, work, target, outcomes>>

RequestStep(q) == \/ Lookup(q) \/ Create(q) \/ CreateInWorker(q) \/ Enqueue(q)
                  \/ Recheck(q) \/ Relookup(q) \/ Reset(q) \/ Requeue(q)

----------------------------------------------------------------------------
(***************************************************************************)
(* The worker.                                                             *)
(***************************************************************************)
At(w, name, step) == /\ work[w] # Idle
                     /\ work[w].job.name = name
                     /\ work[w].at = step

Badge(w) == work[w].job.badge
Continue(w, step) == work' = [work EXCEPT ![w].at = step]
Free(w) == work' = [work EXCEPT ![w] = Idle]

Take(w) ==
  /\ work[w] = Idle
  /\ \E j \in Jobs :
       /\ queue[j] > 0
       /\ queue' = [queue EXCEPT ![j] = @ - 1]
       /\ work' = [work EXCEPT ![w] = [job |-> j, at |-> "start"]]
  /\ UNCHANGED <<rows, pc, target, outcomes, faults>>

\* badge.render: the row is read and marked.
RenderMark(w) ==
  /\ At(w, "render", "start")
  /\ status' = [status EXCEPT ![Badge(w)] = "RENDERING"]
  /\ Continue(w, "artifact")
  /\ UNCHANGED <<issued, stored, delivered, queue, pc, target, outcomes, faults>>

\* renderBadgeArtifact stores the artifact, or throws.
RenderArtifact(w) ==
  /\ At(w, "render", "artifact")
  /\ Continue(w, "ready") \/ Continue(w, "failed")
  /\ UNCHANGED <<rows, queue, pc, target, outcomes, faults>>

RenderReady(w) ==
  /\ At(w, "render", "ready")
  /\ status' = [status EXCEPT ![Badge(w)] = "READY"]
  /\ stored' = [stored EXCEPT ![Badge(w)] = TRUE]
  /\ delivered' = [delivered EXCEPT ![Badge(w)] = FALSE]
  /\ Continue(w, "announce")
  /\ UNCHANGED <<issued, queue, pc, target, outcomes, faults>>

\* Faulty: no delivery for a badge whose link was mailed before.
RenderAnnounceOnce(w) ==
  /\ At(w, "render", "announce")
  /\ queue' = IF Badge(w) \in mailed THEN queue
              ELSE [queue EXCEPT ![NewJob("delivery", Badge(w))] = @ + 1]
  /\ Continue(w, "ack")
  /\ UNCHANGED <<rows, pc, target, outcomes, faults>>

RenderAnnounce(w) ==
  /\ At(w, "render", "announce")
  /\ Add(NewJob("delivery", Badge(w)))
  /\ Continue(w, "ack")
  /\ UNCHANGED <<rows, pc, target, outcomes, faults>>

\* Faulty: the catch block records no failure.
RenderFailedQuietly(w) ==
  /\ At(w, "render", "failed")
  /\ Continue(w, "letter")
  /\ UNCHANGED <<rows, queue, pc, target, outcomes, faults>>

RenderFailed(w) ==
  /\ At(w, "render", "failed")
  /\ status' = [status EXCEPT ![Badge(w)] = "FAILED"]
  /\ Continue(w, "letter")
  /\ UNCHANGED <<issued, stored, delivered, queue, pc, target, outcomes, faults>>

IsFinal(j) == j.made + 1 >= Attempts(j.name)

\* Faulty: the last attempt taken for one more than the queue makes.
RenderLetterLate(w) ==
  /\ At(w, "render", "letter")
  /\ IF work[w].job.made >= Attempts("render")
     THEN Add(NewJob("deadLetter", Badge(w)))
     ELSE UNCHANGED queue
  /\ Continue(w, "reject")
  /\ UNCHANGED <<rows, pc, target, outcomes, faults>>

\* The final failure is dead-lettered; the error is thrown on in any case.
RenderLetter(w) ==
  /\ At(w, "render", "letter")
  /\ IF IsFinal(work[w].job)
     THEN Add(NewJob("deadLetter", Badge(w)))
     ELSE UNCHANGED queue
  /\ Continue(w, "reject")
  /\ UNCHANGED <<rows, pc, target, outcomes, faults>>

\* badge.delivery-link-email
DeliveryRead(w) ==
  /\ At(w, "delivery", "start")
  /\ Continue(w, IF status[Badge(w)] = "READY" /\ stored[Badge(w)] THEN "mark" ELSE "reject")
  /\ UNCHANGED <<rows, queue, pc, target, outcomes, faults>>

DeliveryMark(w) ==
  /\ At(w, "delivery", "mark")
  /\ delivered' = [delivered EXCEPT ![Badge(w)] = TRUE]
  /\ Continue(w, "mail")
  /\ UNCHANGED <<issued, status, stored, queue, pc, target, outcomes, faults>>

DeliveryMail(w) ==
  /\ At(w, "delivery", "mail")
  /\ mailed' = mailed \cup {Badge(w)}
  /\ Continue(w, "ack")
  /\ UNCHANGED <<rows, queue, pc, target, letters, faults>>

\* badge.render.dead-letter
LetterLog(w) ==
  /\ At(w, "deadLetter", "start")
  /\ letters' = letters \cup {Badge(w)}
  /\ Continue(w, "ack")
  /\ UNCHANGED <<rows, queue, pc, target, mailed, faults>>

----------------------------------------------------------------------------
(***************************************************************************)
(* What the queue does with a job that ends, throws, or loses its worker.  *)
(***************************************************************************)
Ack(w) ==
  /\ work[w] # Idle /\ work[w].at = "ack"
  /\ Free(w)
  /\ UNCHANGED <<rows, queue, pc, target, outcomes, faults>>

Reject(w) ==
  /\ work[w] # Idle /\ work[w].at = "reject"
  /\ LET j == work[w].job
     IN  IF IsFinal(j) THEN UNCHANGED queue ELSE Add([j EXCEPT !.made = @ + 1])
  /\ Free(w)
  /\ UNCHANGED <<rows, pc, target, outcomes, faults>>

(***************************************************************************)
(* An awaited call of the worker throws.  Inside the try block of          *)
(* badge.render the failure is recorded; anywhere else, in its catch block *)
(* too, it is left to the queue, and the last attempt is the end of it.    *)
(***************************************************************************)
WorkerThrow(w) ==
  /\ work[w] # Idle
  /\ UNCHANGED crashes
  /\ \/ /\ work[w].at \in {"ready", "announce"}
        /\ Continue(w, "failed")
        /\ UNCHANGED losses
     \/ /\ work[w].at \in {"start", "failed", "letter", "mark", "mail"}
        /\ Continue(w, "reject")
        /\ Lose(IF IsFinal(work[w].job) THEN 1 ELSE 0)
  /\ UNCHANGED <<rows, queue, pc, target, outcomes>>

(***************************************************************************)
(* A worker dies.  The job is found stalled and waits again, once; a job   *)
(* that stalls a second time is failed by BullMQ (maxStalledCount is 1)    *)
(* and no code of ours runs.                                               *)
(***************************************************************************)
Crash(w) ==
  /\ work[w] # Idle
  /\ crashes < MaxCrashes /\ crashes' = crashes + 1
  /\ LET j == work[w].job
     IN  IF j.stalls = 0
         THEN Add([j EXCEPT !.stalls = 1]) /\ UNCHANGED losses
         ELSE Lose(1) /\ UNCHANGED queue
  /\ Free(w)
  /\ UNCHANGED <<rows, pc, target, outcomes>>

Render(w) == \/ RenderMark(w) \/ RenderArtifact(w) \/ RenderReady(w)
             \/ RenderAnnounce(w) \/ RenderFailed(w) \/ RenderLetter(w)
Deliver(w) == DeliveryRead(w) \/ DeliveryMark(w) \/ DeliveryMail(w)

WorkerStep(w) == \/ Take(w) \/ Render(w) \/ Deliver(w) \/ LetterLog(w)
                 \/ Ack(w) \/ Reject(w)

Next == \/ \E q \in Requests : RequestStep(q) \/ RequestThrow(q)
        \/ \E w \in Workers : WorkerStep(w) \/ WorkerThrow(w) \/ Crash(w)

Spec == Init /\ [][Next]_vars

(***************************************************************************)
(* A request that has started goes on, and a worker goes on with its job   *)
(* and takes another one when there is one: Node's event loop and BullMQ's *)
(* fetch loop.  Nothing has to throw, crash, or store an artifact.         *)
(***************************************************************************)
Fairness == /\ \A q \in Requests : WF_vars(RequestStep(q) /\ pc[q] # "idle")
            /\ \A w \in Workers : WF_vars(WorkerStep(w))

FairSpec == Spec /\ Fairness

----------------------------------------------------------------------------
(***************************************************************************)
(* What is still under way for a badge.                                    *)
(***************************************************************************)
Waits(name, b) == \E j \in Jobs : j.name = name /\ j.badge = b /\ queue[j] > 0

\* A worker holds a render job of b and will still settle its status.
Renders(b) ==
  \E w \in Workers :
    /\ work[w] # Idle /\ work[w].job.name = "render" /\ Badge(w) = b
    /\ \/ work[w].at \in {"start", "artifact", "ready", "failed"}
       \/ work[w].at = "reject" /\ ~IsFinal(work[w].job)

\* A worker is on its way to the dead letter of b, or records it.
Reports(b) ==
  \E w \in Workers :
    /\ work[w] # Idle /\ Badge(w) = b
    /\ \/ work[w].job.name = "render" /\ work[w].at = "letter"
       \/ work[w].job.name = "deadLetter" /\ work[w].at = "start"

\* A worker is about to enqueue a delivery of b, or makes one.
Announces(b) ==
  \E w \in Workers :
    /\ work[w] # Idle /\ Badge(w) = b
    /\ \/ work[w].job.name = "render" /\ work[w].at = "announce"
       \/ /\ work[w].job.name = "delivery"
          /\ \/ work[w].at \in {"start", "mark"}
             \/ work[w].at = "reject" /\ ~IsFinal(work[w].job)

Requested(b) == \E q \in Requests : pc[q] \in {"enqueue", "requeue"} /\ target[q] = b

Ahead(b) == Requested(b) \/ Waits("render", b) \/ Renders(b)

\* What getBadgeDownloadUrl signs a link for.
Offered(b) == status[b] = "READY" /\ stored[b]

(***************************************************************************)
(* A badge shown as READY can be downloaded: status and storagePath are    *)
(* read together by getBadgeDownloadUrl and getBadge, and written by       *)
(* requests and workers that know nothing of each other.                   *)
(***************************************************************************)
ReadyIsStored == \A b \in Badges : status[b] = "READY" => Offered(b)

(***************************************************************************)
(* A badge shown as PENDING or RENDERING is never forgotten: a render of   *)
(* it waits, is under way, or is about to be enqueued, whatever renders,   *)
(* retries, crashes and regenerations of it overlapped.  Each loss costs   *)
(* one badge at most.                                                      *)
(***************************************************************************)
Forgotten == {b \in Badges : status[b] \in {"PENDING", "RENDERING"} /\ ~Ahead(b)}

NeverForgotten == Cardinality(Forgotten) <= losses

(***************************************************************************)
(* A badge that stays FAILED has its dead letter, queued or recorded, for  *)
(* the operators to see - but for one badge per loss.                      *)
(***************************************************************************)
Reported(b) == Reports(b) \/ Waits("deadLetter", b) \/ b \in letters

Unreported == {b \in Badges : status[b] = "FAILED" /\ ~Ahead(b) /\ ~Reported(b)}

FailureIsReported == Cardinality(Unreported) <= losses

(***************************************************************************)
(* A badge that is READY has been marked as delivered, or will be: the     *)
(* worker that rendered it is about to enqueue the delivery, the delivery  *)
(* waits or is under way, or the badge is rendered again.  A delivery that *)
(* met the badge between two renderings, and gave up, is made up for by    *)
(* that of the next one - but for one badge per loss.                      *)
(***************************************************************************)
Unannounced ==
  {b \in Badges : /\ status[b] = "READY" /\ ~delivered[b]
                  /\ ~Ahead(b) /\ ~Announces(b) /\ ~Waits("delivery", b)}

ReadyIsAnnounced == Cardinality(Unannounced) <= losses

(***************************************************************************)
(* Rendering ends: a badge does not stay PENDING or RENDERING.             *)
(***************************************************************************)
RenderingEnds ==
  \A b \in Badges :
    status[b] \in {"PENDING", "RENDERING"}
      ~> status[b] \in {"READY", "FAILED"} \/ losses > 0

(***************************************************************************)
(* Every badge that becomes READY is announced: its link is marked as      *)
(* delivered, or the badge is being rendered again.                        *)
(***************************************************************************)
ReadyIsDelivered ==
  \A b \in Badges :
    status[b] = "READY" ~> delivered[b] \/ status[b] # "READY" \/ losses > 0
=============================================================================
