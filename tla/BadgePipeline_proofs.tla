------------------------ MODULE BadgePipeline_proofs ------------------------
(***************************************************************************)
(* Proofs about BadgePipeline, for any number of requests, workers and     *)
(* retries, and any bounds on losses and crashes.                          *)
(*                                                                         *)
(* What keeps a badge from being forgotten is handed on: a request that    *)
(* wrote the row to the job it enqueues, a waiting job to the worker that  *)
(* takes it, the worker to the job it puts back, the dead letter or the    *)
(* delivery it sends, or a status that needs no more work.  The lemmas say *)
(* that a step hands on what it lets go of, and leaves to the others what  *)
(* they hold - or counts a loss, and then lets go of one badge only.       *)
(***************************************************************************)
EXTENDS BadgePipeline, FiniteSetTheorems, TLAPS

Holds(w, name, b) == work[w] # Idle /\ work[w].job.name = name /\ Badge(w) = b

RendersBy(w, b) ==
  /\ Holds(w, "render", b)
  /\ \/ work[w].at \in {"start", "artifact", "ready", "failed"}
     \/ work[w].at = "reject" /\ ~IsFinal(work[w].job)

ReportsBy(w, b) ==
  \/ Holds(w, "render", b) /\ work[w].at = "letter"
  \/ Holds(w, "deadLetter", b) /\ work[w].at = "start"

AnnouncesBy(w, b) ==
  \/ Holds(w, "render", b) /\ work[w].at = "announce"
  \/ /\ Holds(w, "delivery", b)
     /\ \/ work[w].at \in {"start", "mark"}
        \/ work[w].at = "reject" /\ ~IsFinal(work[w].job)

Announced(b) == delivered[b] \/ Announces(b) \/ Waits("delivery", b)

\* regenerateBadge of the badge page finds a badge: rows are not deleted.
FindsOne == \A q \in Requests : pc[q] = "relookup" => issued # <<>>

Typed == TypeOK /\ FindsOne

\* What a badge of each status needs, and the badges that lack it.
CaredFor(b) ==
  /\ status[b] \in {"PENDING", "RENDERING"} => Ahead(b)
  /\ status[b] = "FAILED" => Ahead(b) \/ Reported(b)
  /\ status[b] = "READY" => Ahead(b) \/ Announced(b)

Uncared == {b \in Badges : ~CaredFor(b)}

Accounted == IsFiniteSet(Uncared) /\ Cardinality(Uncared) <= losses

Inv == Typed /\ ReadyIsStored /\ Accounted

----------------------------------------------------------------------------
LEMMA Care == Uncared = Forgotten \cup Unreported \cup Unannounced
  BY DEF Uncared, CaredFor, Forgotten, Unreported, Unannounced, Announced

LEMMA ByWorkers ==
  ASSUME NEW b
  PROVE  /\ Renders(b) <=> \E w \in Workers : RendersBy(w, b)
         /\ Reports(b) <=> \E w \in Workers : ReportsBy(w, b)
         /\ Announces(b) <=> \E w \in Workers : AnnouncesBy(w, b)
  BY DEF Renders, Reports, Announces, RendersBy, ReportsBy, AnnouncesBy, Holds

(***************************************************************************)
(* A step after which one badge at most is no longer cared for, and that   *)
(* counts a loss for it, keeps the account.                                *)
(***************************************************************************)
LEMMA AccountKept ==
  ASSUME TypeOK, TypeOK', Accounted, losses <= losses', NEW c,
         \A b \in Badges : CaredFor(b) => CaredFor(b)' \/ (losses' > losses /\ b = c)
  PROVE  Accounted'
<1>1. losses \in Nat /\ losses' \in Nat
  BY BoundsAssumption DEF TypeOK
<1>2. IsFiniteSet(Uncared) /\ Cardinality(Uncared) \in Nat /\ Cardinality(Uncared) <= losses
  BY FS_CardinalityType DEF Accounted
<1>3. CASE losses' > losses
  <2>1. Uncared' \subseteq Uncared \cup {c}
    BY DEF Uncared
  <2>2. /\ IsFiniteSet(Uncared \cup {c})
        /\ Cardinality(Uncared \cup {c}) <= Cardinality(Uncared) + 1
    BY <1>2, FS_AddElement
  <2>3. IsFiniteSet(Uncared') /\ Cardinality(Uncared') <= Cardinality(Uncared \cup {c})
    BY <2>1, <2>2, FS_Subset
  <2>4. Cardinality(Uncared \cup {c}) \in Nat /\ Cardinality(Uncared') \in Nat
    BY <2>2, <2>3, FS_CardinalityType
  <2> QED
    BY <1>1, <1>2, <1>3, <2>2, <2>3, <2>4 DEF Accounted
<1>4. CASE ~(losses' > losses)
  <2>1. Uncared' \subseteq Uncared
    BY <1>4 DEF Uncared
  <2>2. IsFiniteSet(Uncared') /\ Cardinality(Uncared') <= Cardinality(Uncared)
    BY <1>2, <2>1, FS_Subset
  <2>3. Cardinality(Uncared') \in Nat
    BY <2>2, FS_CardinalityType
  <2> QED
    BY <1>1, <1>2, <2>2, <2>3 DEF Accounted
<1> QED
  BY <1>3, <1>4

LEMMA NewJobTyped ==
  ASSUME NEW b \in Badges, NEW n \in {"render", "delivery", "deadLetter"}
  PROVE  NewJob(n, b) \in Jobs /\ NewJob(n, b).name = n /\ NewJob(n, b).badge = b
  BY BoundsAssumption DEF NewJob, Jobs

\* A job put into the queue waits there, and so do those that waited before.
LEMMA AddWaits ==
  ASSUME queue \in [Jobs -> Nat], NEW j \in Jobs, Add(j)
  PROVE  /\ queue' \in [Jobs -> Nat]
         /\ Waits(j.name, j.badge)'
         /\ \A n, b : Waits(n, b) => Waits(n, b)'
<1>1. queue' \in [Jobs -> Nat] /\ queue'[j] > 0 /\ \A i \in Jobs : queue'[i] >= queue[i]
  BY DEF Add
<1> QED
  BY <1>1 DEF Waits

\* The retry of a failed job, and the second life of a stalled one, are jobs.
LEMMA AgainTyped ==
  ASSUME NEW j \in Jobs
  PROVE  /\ ~IsFinal(j) => /\ [j EXCEPT !.made = @ + 1] \in Jobs
                           /\ [j EXCEPT !.made = @ + 1].name = j.name
                           /\ [j EXCEPT !.made = @ + 1].badge = j.badge
         /\ [j EXCEPT !.stalls = 1] \in Jobs
         /\ [j EXCEPT !.stalls = 1].name = j.name
         /\ [j EXCEPT !.stalls = 1].badge = j.badge
<1>1. j = [name |-> j.name, badge |-> j.badge, made |-> j.made, stalls |-> j.stalls]
      /\ j.name \in {"render", "delivery", "deadLetter"} /\ j.badge \in Badges
      /\ j.made \in 0..(Retries - 1) /\ j.stalls \in 0..1
  BY DEF Jobs
<1>2. ~IsFinal(j) => j.made + 1 \in 0..(Retries - 1)
  BY <1>1, BoundsAssumption DEF IsFinal, Attempts
<1> QED
  BY <1>1, <1>2 DEF Jobs

----------------------------------------------------------------------------
(***************************************************************************)
(* A step of request q that enqueues for the badge it had written to, or   *)
(* writes nothing at all, keeps every badge cared for.                     *)
(***************************************************************************)
LEMMA RequestCares ==
  ASSUME TypeOK, TypeOK', NEW b \in Badges, CaredFor(b),
         NEW q \in Requests, RequestStep(q) \/ RequestThrow(q)
  PROVE  CaredFor(b)' \/ (losses' > losses /\ b = target[q])
<1>1. /\ work' = work /\ letters' = letters
      /\ Renders(b) <=> Renders(b)'
      /\ Reports(b) <=> Reports(b)'
      /\ Announces(b) <=> Announces(b)'
  BY DEF RequestStep, RequestThrow, Lookup, Create, CreateInWorker, Insert, Enqueue, Recheck,
         Relookup, Reset, Requeue, outcomes, Renders, Reports, Announces, Badge, IsFinal
<1>2. \A n \in {"render", "delivery", "deadLetter"} : Waits(n, b) => Waits(n, b)'
  <2>1. CASE UNCHANGED queue
    BY <2>1 DEF Waits
  <2>2. CASE (Enqueue(q) \/ Requeue(q))
    BY <2>2, NewJobTyped, AddWaits DEF TypeOK, Enqueue, Requeue, Badges
  <2> QED
    BY <2>1, <2>2 DEF RequestStep, RequestThrow, Lookup, Create, CreateInWorker, Insert,
                      Recheck, Relookup, Reset
<1>3. CASE Insert(q) \/ Reset(q)
  <2>1. /\ \A p \in Requests \ {q} : pc'[p] = pc[p] /\ target'[p] = target[p]
        /\ pc[q] \in {"create", "reset"} /\ pc'[q] \in {"enqueue", "requeue"}
    BY <1>3 DEF Insert, Reset, Go, TypeOK
  <2>2. Requested(b) => Requested(b)'
    BY <2>1 DEF Requested
  <2>3. (status'[b] = status[b] /\ delivered'[b] = delivered[b]) \/ b = target'[q]
    BY <1>3 DEF Insert, Reset, TypeOK, Badges
  <2>4. b = target'[q] => Requested(b)' /\ status'[b] = "PENDING"
    BY <1>3, <2>1 DEF Requested, Insert, Reset, TypeOK, Badges
  <2> QED
    BY <1>1, <1>2, <2>1, <2>2, <2>3, <2>4 DEF CaredFor, Ahead, Reported, Announced
<1>4. CASE Enqueue(q) \/ Requeue(q)
  <2>1. /\ target' = target /\ status' = status /\ delivered' = delivered
        /\ \A p \in Requests \ {q} : pc'[p] = pc[p]
    BY <1>4 DEF Enqueue, Requeue, Go, rows, TypeOK
  <2>2. b = target[q] => Waits("render", b)'
    BY <1>4, NewJobTyped, AddWaits DEF TypeOK, Enqueue, Requeue
  <2>3. Requested(b) => Requested(b)' \/ Waits("render", b)'
    BY <2>1, <2>2 DEF Requested
  <2> QED
    BY <1>1, <1>2, <2>1, <2>3 DEF CaredFor, Ahead, Reported, Announced
<1>5. CASE Lookup(q) \/ Recheck(q) \/ Relookup(q)
  <2>1. status' = status /\ delivered' = delivered /\ (Requested(b) => Requested(b)')
    BY <1>5 DEF Lookup, Recheck, Relookup, Go, rows, TypeOK, Requested
  <2> QED
    BY <1>1, <1>2, <2>1 DEF CaredFor, Ahead, Reported, Announced
<1>6. CASE RequestThrow(q)
  <2>1. /\ status' = status /\ delivered' = delivered
        /\ Requested(b) => Requested(b)' \/ (losses' > losses /\ b = target[q])
    BY <1>6, BoundsAssumption DEF RequestThrow, Lose, Go, rows, TypeOK, Requested, AfterIssue
  <2> QED
    BY <1>1, <1>2, <2>1 DEF CaredFor, Ahead, Reported, Announced
<1> QED
  BY <1>3, <1>4, <1>5, <1>6 DEF RequestStep, Create, CreateInWorker

(***************************************************************************)
(* A worker's step keeps badge b cared for if it hands on what it holds    *)
(* and what it takes out of the queue, and sets no status without it.      *)
(***************************************************************************)
Settles(w, b) == CaredFor(b)' \/ (losses' > losses /\ b = Badge(w))

HandsOn(w, b) ==
  /\ RendersBy(w, b) => Settles(w, b)
  /\ ReportsBy(w, b) => Settles(w, b) \/ Ahead(b)' \/ Reported(b)'
  /\ AnnouncesBy(w, b) /\ status'[b] = "READY" => Settles(w, b) \/ Ahead(b)' \/ Announced(b)'
  /\ Waits("render", b) => Ahead(b)'
  /\ Waits("deadLetter", b) => Reported(b)'
  /\ Waits("delivery", b) => Announced(b)'
  /\ status'[b] # status[b] \/ (delivered[b] /\ ~delivered'[b]) => Settles(w, b)

LEMMA WorkerHandsOn ==
  ASSUME NEW b \in Badges, CaredFor(b), NEW w \in Workers, HandsOn(w, b),
         UNCHANGED <<pc, target>>, letters \subseteq letters',
         \A v \in Workers \ {w} : work'[v] = work[v]
  PROVE  Settles(w, b)
<1>1. /\ Requested(b) <=> Requested(b)'
      /\ \A v \in Workers \ {w} : /\ RendersBy(v, b) <=> RendersBy(v, b)'
                                  /\ ReportsBy(v, b) <=> ReportsBy(v, b)'
                                  /\ AnnouncesBy(v, b) <=> AnnouncesBy(v, b)'
  BY DEF Requested, RendersBy, ReportsBy, AnnouncesBy, Holds, Badge, IsFinal
<1>2. Renders(b)' <=> \E v \in Workers : RendersBy(v, b)'
  BY DEF Renders, RendersBy, Holds
<1>3. Reports(b)' <=> \E v \in Workers : ReportsBy(v, b)'
  BY DEF Reports, ReportsBy, Holds
<1>4. Announces(b)' <=> \E v \in Workers : AnnouncesBy(v, b)'
  BY DEF Announces, AnnouncesBy, Holds
<1>5. Ahead(b) => Settles(w, b) \/ Ahead(b)'
  BY <1>1, <1>2, ByWorkers DEF HandsOn, Ahead
<1>6. Reported(b) => Settles(w, b) \/ Ahead(b)' \/ Reported(b)'
  BY <1>1, <1>3, ByWorkers DEF HandsOn, Reported
<1>7. Announced(b) /\ status'[b] = "READY" => Settles(w, b) \/ Ahead(b)' \/ Announced(b)'
  BY <1>1, <1>4, ByWorkers DEF HandsOn, Announced
<1>8. CASE status'[b] # status[b]
  BY <1>8 DEF HandsOn
<1>9. CASE status'[b] = status[b]
  BY <1>5, <1>6, <1>7, <1>9 DEF CaredFor, Settles
<1> QED
  BY <1>8, <1>9

\* A worker with a job in its hands.
LEMMA AtWork ==
  ASSUME TypeOK, NEW w \in Workers, work[w] # Idle
  PROVE  /\ work[w].job \in Jobs /\ work[w].at \in WorkSteps
         /\ Badge(w) \in Badges
         /\ work[w].job.name \in {"render", "delivery", "deadLetter"}
  BY DEF TypeOK, Work, Badge, Jobs

LEMMA Continues ==
  ASSUME TypeOK, NEW w \in Workers, work[w] # Idle, NEW s \in WorkSteps, Continue(w, s)
  PROVE  /\ work'[w].at = s /\ work'[w].job = work[w].job /\ Badge(w)' = Badge(w)
         /\ work'[w] # Idle
         /\ \A n, b : Holds(w, n, b)' <=> Holds(w, n, b)
         /\ \A v \in Workers \ {w} : work'[v] = work[v]
<1>1. work[w] \in [job: Jobs, at: WorkSteps]
  BY DEF TypeOK, Work
<1>2. work'[w] = [work[w] EXCEPT !.at = s]
  BY DEF Continue, TypeOK
<1>3. work'[w].at = s /\ work'[w].job = work[w].job
  BY <1>1, <1>2
<1>4. work'[w] # Idle
  BY <1>3 DEF Idle, WorkSteps
<1>5. \A v \in Workers \ {w} : work'[v] = work[v]
  BY DEF Continue, TypeOK
<1> QED
  BY <1>3, <1>4, <1>5 DEF Holds, Badge

\* What w holds after a step keeps its badge cared for.
LEMMA StillHeld ==
  ASSUME NEW w \in Workers, NEW b
  PROVE  /\ RendersBy(w, b)' => Ahead(b)'
         /\ ReportsBy(w, b)' => Reported(b)'
         /\ AnnouncesBy(w, b)' => Announced(b)'
  BY DEF Ahead, Reported, Announced, Renders, Reports, Announces, RendersBy, ReportsBy,
         AnnouncesBy, Holds

\* So does what waits after it.
LEMMA StillWaits ==
  ASSUME NEW b
  PROVE  /\ Waits("render", b)' => Ahead(b)'
         /\ Waits("deadLetter", b)' => Reported(b)'
         /\ Waits("delivery", b)' => Announced(b)'
  BY DEF Ahead, Reported, Announced

\* A badge with a render ahead of it is cared for, whatever its status.
LEMMA AheadCares ==
  ASSUME NEW w \in Workers, NEW b
  PROVE  Ahead(b)' => Settles(w, b)
  BY DEF Settles, CaredFor

(***************************************************************************)
(* A worker that goes on with its job, with the queue as it was or a new   *)
(* job in it, hands on what it holds.                                      *)
(***************************************************************************)
LEMMA WorkerWorks ==
  ASSUME TypeOK, TypeOK', ReadyIsStored, NEW b \in Badges, NEW w \in Workers,
         Render(w) \/ Deliver(w) \/ LetterLog(w)
  PROVE  HandsOn(w, b)
<1> USE DEF At, rows, outcomes
<1>1. work[w] # Idle
  BY DEF Render, Deliver, LetterLog, RenderMark, RenderArtifact, RenderReady,
         RenderAnnounce, RenderFailed, RenderLetter, DeliveryRead, DeliveryMark, DeliveryMail
<1>2. \A n \in {"render", "delivery", "deadLetter"} : Waits(n, b) => Waits(n, b)'
  <2>1. CASE UNCHANGED queue
    BY <2>1 DEF Waits
  <2>2. CASE RenderAnnounce(w) \/ RenderLetter(w)
    BY <1>1, <2>1, <2>2, AtWork, NewJobTyped, AddWaits DEF RenderAnnounce, RenderLetter, TypeOK
  <2> QED
    BY <2>1, <2>2 DEF Render, Deliver, LetterLog, RenderMark, RenderArtifact, RenderReady,
                      RenderFailed, DeliveryRead, DeliveryMark, DeliveryMail
<1>3. CASE RenderMark(w)
  <2>1. /\ RendersBy(w, b) <=> RendersBy(w, b)'
        /\ ~ReportsBy(w, b) /\ ~AnnouncesBy(w, b)
    BY <1>1, <1>3, Continues DEF RenderMark, RendersBy, ReportsBy, AnnouncesBy, WorkSteps, Holds
  <2>2. delivered' = delivered /\ (status'[b] # status[b] => RendersBy(w, b)')
    BY <1>1, <1>3, Continues DEF RenderMark, RendersBy, Holds, TypeOK, WorkSteps
  <2> QED
    BY <1>2, <2>1, <2>2, StillHeld, StillWaits, AheadCares DEF HandsOn
<1>4. CASE RenderArtifact(w)
  <2>1. /\ RendersBy(w, b) <=> RendersBy(w, b)'
        /\ ~ReportsBy(w, b) /\ ~AnnouncesBy(w, b)
    BY <1>1, <1>4, Continues DEF RenderArtifact, RendersBy, ReportsBy, AnnouncesBy, WorkSteps
  <2> QED
    BY <1>2, <1>4, <2>1, StillHeld, StillWaits, AheadCares DEF HandsOn, RenderArtifact
<1>5. CASE RenderReady(w)
  <2>1. ~ReportsBy(w, b) /\ ~AnnouncesBy(w, b)
    BY <1>5 DEF RenderReady, ReportsBy, AnnouncesBy, Holds
  <2>2. RendersBy(w, b) => Badge(w) = b
    BY DEF RendersBy, Holds
  <2>3. Badge(w) # b => status'[b] = status[b] /\ delivered'[b] = delivered[b]
    BY <1>5 DEF RenderReady, TypeOK
  <2>4. Badge(w) = b => status'[b] = "READY" /\ AnnouncesBy(w, b)'
    BY <1>1, <1>5, Continues DEF RenderReady, AnnouncesBy, Holds, TypeOK, WorkSteps
  <2>5. Badge(w) = b => Settles(w, b)
    BY <2>4, StillHeld DEF Settles, CaredFor
  <2> QED
    BY <1>2, <2>1, <2>2, <2>3, <2>5, StillWaits DEF HandsOn
<1>6. CASE RenderAnnounce(w)
  <2>1. ~RendersBy(w, b) /\ ~ReportsBy(w, b)
    BY <1>6 DEF RenderAnnounce, RendersBy, ReportsBy, Holds
  <2>2. AnnouncesBy(w, b) => Waits("delivery", b)'
    <3>1. AnnouncesBy(w, b) => Badge(w) = b
      BY DEF AnnouncesBy, Holds
    <3>2. b = Badge(w) => Add(NewJob("delivery", b))
      BY <1>6 DEF RenderAnnounce
    <3> QED
      BY <3>1, <3>2, NewJobTyped, AddWaits DEF TypeOK
  <2> QED
    BY <1>2, <1>6, <2>1, <2>2, StillWaits DEF HandsOn, RenderAnnounce
<1>7. CASE RenderFailed(w)
  <2>1. ~ReportsBy(w, b) /\ ~AnnouncesBy(w, b)
    BY <1>7 DEF RenderFailed, ReportsBy, AnnouncesBy, Holds
  <2>2. RendersBy(w, b) \/ status'[b] # status[b] => status'[b] = "FAILED" /\ ReportsBy(w, b)'
    BY <1>1, <1>7, AtWork, Continues
       DEF RenderFailed, RendersBy, ReportsBy, Holds, TypeOK, WorkSteps
  <2>3. RendersBy(w, b) \/ status'[b] # status[b] => Settles(w, b)
    BY <2>2, StillHeld DEF Settles, CaredFor
  <2> QED
    BY <1>2, <1>7, <2>1, <2>3, StillWaits DEF HandsOn, RenderFailed
<1>8. CASE RenderLetter(w)
  <2>1. ~RendersBy(w, b) /\ ~AnnouncesBy(w, b)
    BY <1>8 DEF RenderLetter, RendersBy, AnnouncesBy, Holds
  <2>2. ReportsBy(w, b) => IF IsFinal(work[w].job) THEN Waits("deadLetter", b)' ELSE RendersBy(w, b)'
    <3>1. ReportsBy(w, b) => Badge(w) = b
      BY DEF ReportsBy, Holds
    <3>2. CASE IsFinal(work[w].job)
      <4>1. b = Badge(w) => Add(NewJob("deadLetter", b))
        BY <1>8, <3>2 DEF RenderLetter
      <4>2. b = Badge(w) => Waits("deadLetter", b)'
        BY <4>1, NewJobTyped, AddWaits DEF TypeOK
      <4> QED
        BY <3>1, <3>2, <4>2
    <3>3. CASE ~IsFinal(work[w].job)
      BY <1>1, <1>8, <3>1, <3>3, Continues DEF RenderLetter, RendersBy, Holds, WorkSteps
    <3> QED
      BY <3>2, <3>3
  <2> QED
    BY <1>2, <1>8, <2>1, <2>2, StillHeld, StillWaits DEF HandsOn, RenderLetter
<1>9. CASE DeliveryRead(w)
  <2>1. ~RendersBy(w, b) /\ ~ReportsBy(w, b)
    BY <1>9 DEF DeliveryRead, RendersBy, ReportsBy, Holds
  <2>2. AnnouncesBy(w, b) /\ status[b] = "READY" => AnnouncesBy(w, b)'
    <3>1. AnnouncesBy(w, b) => Badge(w) = b
      BY DEF AnnouncesBy, Holds
    <3>2. Badge(w) = b /\ status[b] = "READY" => Continue(w, "mark")
      BY <1>9 DEF DeliveryRead, ReadyIsStored, Offered
    <3> QED
      BY <1>1, <1>9, <3>1, <3>2, Continues DEF DeliveryRead, AnnouncesBy, Holds, WorkSteps
  <2> QED
    BY <1>2, <1>9, <2>1, <2>2, StillHeld, StillWaits DEF HandsOn, DeliveryRead
<1>10. CASE DeliveryMark(w)
  <2>1. ~RendersBy(w, b) /\ ~ReportsBy(w, b)
    BY <1>10 DEF DeliveryMark, RendersBy, ReportsBy, Holds
  <2>2. AnnouncesBy(w, b) => Announced(b)'
    BY <1>10 DEF DeliveryMark, AnnouncesBy, Holds, Announced, TypeOK
  <2>3. delivered[b] => delivered'[b]
    BY <1>10 DEF DeliveryMark, TypeOK
  <2> QED
    BY <1>2, <1>10, <2>1, <2>2, <2>3, StillWaits DEF HandsOn, DeliveryMark
<1>11. CASE DeliveryMail(w) \/ LetterLog(w)
  <2>1. /\ ~RendersBy(w, b) /\ ~AnnouncesBy(w, b)
        /\ ReportsBy(w, b) => Reported(b)'
    BY <1>11 DEF DeliveryMail, LetterLog, RendersBy, ReportsBy, AnnouncesBy, Holds, Reported
  <2> QED
    BY <1>2, <1>11, <2>1, StillWaits DEF HandsOn, DeliveryMail, LetterLog
<1> QED
  BY <1>3, <1>4, <1>5, <1>6, <1>7, <1>8, <1>9, <1>10, <1>11 DEF Render, Deliver

(***************************************************************************)
(* A worker that takes a job, lets go of it, throws or dies hands it on.   *)
(***************************************************************************)
LEMMA WorkerLetsGo ==
  ASSUME TypeOK, TypeOK', NEW b \in Badges, NEW w \in Workers,
         Take(w) \/ Ack(w) \/ Reject(w) \/ WorkerThrow(w) \/ Crash(w)
  PROVE  HandsOn(w, b)
<1> USE DEF rows, outcomes
<1> DEFINE Names == {"render", "delivery", "deadLetter"}
<1>1. status' = status /\ delivered' = delivered
  BY DEF Take, Ack, Reject, WorkerThrow, Crash
<1>2. losses \in Nat /\ losses' \in Nat
  BY BoundsAssumption DEF TypeOK
<1>3. ASSUME \A n \in Names : Waits(n, b) => Waits(n, b)',
             RendersBy(w, b) => Settles(w, b),
             ReportsBy(w, b) => Settles(w, b) \/ Ahead(b)' \/ Reported(b)',
             AnnouncesBy(w, b) => Settles(w, b) \/ Ahead(b)' \/ Announced(b)'
      PROVE  HandsOn(w, b)
  BY <1>1, <1>3, StillWaits DEF HandsOn
<1>4. CASE Take(w)
  <2>1. PICK j \in Jobs : /\ queue[j] > 0
                          /\ queue' = [queue EXCEPT ![j] = @ - 1]
                          /\ work' = [work EXCEPT ![w] = [job |-> j, at |-> "start"]]
    BY <1>4 DEF Take
  <2>2. ~RendersBy(w, b) /\ ~ReportsBy(w, b) /\ ~AnnouncesBy(w, b)
    BY <1>4 DEF Take, RendersBy, ReportsBy, AnnouncesBy, Holds
  <2>3. work'[w] # Idle /\ work'[w].job = j /\ work'[w].at = "start" /\ Badge(w)' = j.badge
    BY <2>1 DEF TypeOK, Idle, Badge
  <2>4. \A n : Waits(n, b) => Waits(n, b)' \/ (j.name = n /\ j.badge = b)
    BY <2>1 DEF Waits, TypeOK
  <2>5. j.badge = b => /\ j.name = "render" => RendersBy(w, b)'
                       /\ j.name = "deadLetter" => ReportsBy(w, b)'
                       /\ j.name = "delivery" => AnnouncesBy(w, b)'
    BY <2>3 DEF RendersBy, ReportsBy, AnnouncesBy, Holds
  <2> QED
    BY <1>1, <2>2, <2>4, <2>5, StillHeld, StillWaits DEF HandsOn
<1>5. CASE Ack(w)
  <2>1. ~RendersBy(w, b) /\ ~ReportsBy(w, b) /\ ~AnnouncesBy(w, b)
    BY <1>5 DEF Ack, RendersBy, ReportsBy, AnnouncesBy
  <2>2. \A n : Waits(n, b) => Waits(n, b)'
    BY <1>5 DEF Ack, Waits
  <2> QED
    BY <1>3, <2>1, <2>2
<1>6. CASE Reject(w)
  <2> DEFINE j == work[w].job
             again == [j EXCEPT !.made = @ + 1]
  <2>1. ~ReportsBy(w, b) /\ j \in Jobs
    BY <1>6, AtWork DEF Reject, ReportsBy
  <2>2. CASE ~IsFinal(j)
    <3>1. /\ again \in Jobs /\ again.name = j.name /\ again.badge = j.badge /\ Add(again)
      BY <1>6, <2>1, <2>2, AgainTyped DEF Reject
    <3>2. \A n : Holds(w, n, b) => j.name = n /\ j.badge = b
      BY DEF Holds, Badge
    <3>3. \A i \in Jobs : Add(i) => /\ \A n : Waits(n, b) => Waits(n, b)'
                                    /\ i.badge = b => Waits(i.name, b)'
      BY AddWaits DEF TypeOK
    <3>4. /\ \A n : Waits(n, b) => Waits(n, b)'
          /\ \A n : Holds(w, n, b) => Waits(n, b)'
      <4> HIDE DEF again, j
      <4> QED
        BY <3>1, <3>2, <3>3
    <3>5. /\ RendersBy(w, b) => Waits("render", b)'
          /\ AnnouncesBy(w, b) => Waits("delivery", b)'
      BY <1>6, <3>4 DEF RendersBy, AnnouncesBy, Reject
    <3> QED
      BY <1>3, <2>1, <3>4, <3>5, StillWaits, AheadCares
  <2>3. CASE IsFinal(j)
    <3>1. /\ ~RendersBy(w, b) /\ ~AnnouncesBy(w, b)
          /\ \A n : Waits(n, b) => Waits(n, b)'
      BY <1>6, <2>3 DEF Reject, RendersBy, AnnouncesBy, Waits
    <3> QED
      BY <1>3, <2>1, <3>1
  <2> QED
    BY <2>2, <2>3
<1>7. CASE WorkerThrow(w)
  <2>1. work[w] # Idle /\ \A n : Waits(n, b) => Waits(n, b)'
    BY <1>7 DEF WorkerThrow, Waits
  <2>2. CASE work[w].at \in {"ready", "announce"} /\ Continue(w, "failed")
    <3>1. ~ReportsBy(w, b) /\ (RendersBy(w, b) \/ AnnouncesBy(w, b) => RendersBy(w, b)')
      BY <2>1, <2>2, Continues DEF ReportsBy, RendersBy, AnnouncesBy, WorkSteps
    <3> QED
      BY <1>3, <2>1, <3>1, StillHeld, AheadCares
  <2>3. CASE /\ work[w].at \in {"start", "failed", "letter", "mark", "mail"}
             /\ Continue(w, "reject")
             /\ Lose(IF IsFinal(work[w].job) THEN 1 ELSE 0)
    <3>1. RendersBy(w, b) \/ ReportsBy(w, b) \/ AnnouncesBy(w, b) => Badge(w) = b
      BY DEF RendersBy, ReportsBy, AnnouncesBy, Holds
    <3>2. CASE IsFinal(work[w].job)
      <4>1. losses' > losses
        BY <1>2, <2>3, <3>2 DEF Lose
      <4> QED
        BY <1>3, <2>1, <3>1, <4>1 DEF Settles
    <3>3. CASE ~IsFinal(work[w].job)
      <4>1. /\ Holds(w, "render", b) => RendersBy(w, b)'
            /\ Holds(w, "delivery", b) => AnnouncesBy(w, b)'
        BY <2>1, <2>3, <3>3, Continues DEF RendersBy, AnnouncesBy, WorkSteps
      <4>2. ~Holds(w, "deadLetter", b)
        BY <2>1, <3>3, AtWork, BoundsAssumption DEF Holds, IsFinal, Attempts, Jobs
      <4>3. /\ RendersBy(w, b) \/ ReportsBy(w, b) => RendersBy(w, b)'
            /\ AnnouncesBy(w, b) => AnnouncesBy(w, b)' \/ RendersBy(w, b)'
        BY <4>1, <4>2 DEF RendersBy, ReportsBy, AnnouncesBy
      <4> QED
        BY <1>3, <2>1, <4>3, StillHeld, AheadCares
    <3> QED
      BY <3>2, <3>3
  <2> QED
    BY <1>7, <2>2, <2>3 DEF WorkerThrow
<1>8. CASE Crash(w)
  <2> DEFINE j == work[w].job
             again == [j EXCEPT !.stalls = 1]
  <2>1. j \in Jobs
    BY <1>8, AtWork DEF Crash
  <2>2. CASE j.stalls = 0
    <3>1. again \in Jobs /\ again.name = j.name /\ again.badge = j.badge /\ Add(again)
      BY <1>8, <2>1, <2>2, AgainTyped DEF Crash
    <3>2. \A n : Holds(w, n, b) => j.name = n /\ j.badge = b
      BY DEF Holds, Badge
    <3>3. \A i \in Jobs : Add(i) => /\ \A n : Waits(n, b) => Waits(n, b)'
                                    /\ i.badge = b => Waits(i.name, b)'
      BY AddWaits DEF TypeOK
    <3>4. /\ \A n : Waits(n, b) => Waits(n, b)'
          /\ \A n : Holds(w, n, b) => Waits(n, b)'
      <4> HIDE DEF again, j
      <4> QED
        BY <3>1, <3>2, <3>3
    <3>5. /\ RendersBy(w, b) => Waits("render", b)'
          /\ ReportsBy(w, b) => Waits("render", b)' \/ Waits("deadLetter", b)'
          /\ AnnouncesBy(w, b) => Waits("render", b)' \/ Waits("delivery", b)'
      BY <3>4 DEF RendersBy, ReportsBy, AnnouncesBy
    <3> QED
      BY <1>3, <3>4, <3>5, StillWaits, AheadCares
  <2>3. CASE j.stalls # 0
    <3>1. losses' > losses /\ \A n : Waits(n, b) => Waits(n, b)'
      BY <1>2, <1>8, <2>3 DEF Crash, Lose, Waits
    <3>2. RendersBy(w, b) \/ ReportsBy(w, b) \/ AnnouncesBy(w, b) => Badge(w) = b
      BY DEF RendersBy, ReportsBy, AnnouncesBy, Holds
    <3> QED
      BY <1>3, <3>1, <3>2 DEF Settles
  <2> QED
    BY <2>2, <2>3
<1> QED
  BY <1>4, <1>5, <1>6, <1>7, <1>8

----------------------------------------------------------------------------
LEMMA LatestTyped ==
  ASSUME issued \in Seq(Badges)
  PROVE  /\ issued = <<>> => Latest = Nothing
         /\ issued # <<>> => Latest \in Badges
  BY DEF Latest

\* Requests keep the shape of the state.
LEMMA RequestTyped ==
  ASSUME Typed, NEW q \in Requests, RequestStep(q) \/ RequestThrow(q)
  PROVE  Typed'
<1> USE DEF Typed, TypeOK, FindsOne, Go, rows, outcomes, faults, Steps
<1>1. CASE Lookup(q)
  BY <1>1, LatestTyped, OpAssumption, NothingAssumption DEF Lookup, Ops, Badges
<1>2. CASE Insert(q)
  <2>1. issued' \in Seq(Badges) /\ issued' # <<>>
    BY <1>2 DEF Insert, Badges
  <2> QED
    BY <1>2, <2>1 DEF Insert, Badges
<1>3. CASE Enqueue(q)
  <2>1. queue' \in [Jobs -> Nat]
    BY <1>3, NewJobTyped, AddWaits DEF Enqueue
  <2> QED
    BY <1>3, <2>1 DEF Enqueue, AfterIssue
<1>4. CASE Recheck(q)
  BY <1>4, LatestTyped DEF Recheck
<1>5. CASE Relookup(q)
  BY <1>5, LatestTyped DEF Relookup
<1>6. CASE Reset(q)
  BY <1>6 DEF Reset
<1>7. CASE Requeue(q)
  <2>1. queue' \in [Jobs -> Nat]
    BY <1>7, NewJobTyped, AddWaits DEF Requeue
  <2> QED
    BY <1>7, <2>1 DEF Requeue
<1>8. CASE RequestThrow(q)
  <2>1. losses' \in 0..MaxLosses
    BY <1>8, BoundsAssumption DEF RequestThrow, Lose
  <2> QED
    BY <1>8, <2>1 DEF RequestThrow, AfterIssue
<1> QED
  BY <1>1, <1>2, <1>3, <1>4, <1>5, <1>6, <1>7, <1>8 DEF RequestStep, Create, CreateInWorker

\* So do workers.
LEMMA WorkerTyped ==
  ASSUME Typed, NEW w \in Workers, WorkerStep(w) \/ WorkerThrow(w) \/ Crash(w)
  PROVE  Typed'
<1> USE DEF Typed, FindsOne, rows, outcomes, faults
<1>1. ASSUME work[w] # Idle, NEW s \in WorkSteps, Continue(w, s)
      PROVE  work' \in [Workers -> Work]
  BY <1>1 DEF TypeOK, Work, Continue
<1>2. ASSUME Free(w) PROVE work' \in [Workers -> Work]
  BY <1>2 DEF TypeOK, Work, Free
<1>3. CASE Take(w)
  <2>1. PICK j \in Jobs : /\ queue[j] > 0
                          /\ queue' = [queue EXCEPT ![j] = @ - 1]
                          /\ work' = [work EXCEPT ![w] = [job |-> j, at |-> "start"]]
    BY <1>3 DEF Take
  <2>2. queue' \in [Jobs -> Nat] /\ work' \in [Workers -> Work]
    BY <2>1 DEF TypeOK, Work, WorkSteps
  <2> QED
    BY <1>3, <2>2 DEF Take, TypeOK
<1>4. CASE Render(w) \/ Deliver(w) \/ LetterLog(w)
  <2>1. /\ work[w] # Idle /\ Badge(w) \in Badges
        /\ \E s \in WorkSteps : Continue(w, s)
    BY <1>4, AtWork
       DEF Render, Deliver, LetterLog, RenderMark, RenderArtifact, RenderReady, RenderAnnounce,
           RenderFailed, RenderLetter, DeliveryRead, DeliveryMark, DeliveryMail, At, WorkSteps
  <2>2. queue' \in [Jobs -> Nat]
    <3>1. UNCHANGED queue \/ \E n \in {"delivery", "deadLetter"} : Add(NewJob(n, Badge(w)))
      BY <1>4 DEF Render, Deliver, LetterLog, RenderMark, RenderArtifact, RenderReady,
                  RenderAnnounce, RenderFailed, RenderLetter, DeliveryRead, DeliveryMark,
                  DeliveryMail
    <3> QED
      BY <2>1, <3>1, NewJobTyped, AddWaits DEF TypeOK
  <2>3. work' \in [Workers -> Work]
    BY <1>1, <2>1
  <2>4. UNCHANGED <<issued, pc, target, losses, crashes>>
    BY <1>4 DEF Render, Deliver, LetterLog, RenderMark, RenderArtifact, RenderReady,
                RenderAnnounce, RenderFailed, RenderLetter, DeliveryRead, DeliveryMark,
                DeliveryMail
  <2>5. /\ status' \in [Badges -> {"none", "PENDING", "RENDERING", "READY", "FAILED"}]
        /\ stored' \in [Badges -> BOOLEAN] /\ delivered' \in [Badges -> BOOLEAN]
        /\ mailed' \subseteq Badges /\ letters' \subseteq Badges
    BY <1>4, <2>1
       DEF Render, Deliver, LetterLog, RenderMark, RenderArtifact, RenderReady, RenderAnnounce,
           RenderFailed, RenderLetter, DeliveryRead, DeliveryMark, DeliveryMail, TypeOK
  <2> QED
    BY <2>2, <2>3, <2>4, <2>5 DEF TypeOK
<1>5. CASE Ack(w)
  BY <1>2, <1>5 DEF Ack, TypeOK
<1>6. CASE Reject(w)
  <2>1. queue' \in [Jobs -> Nat]
    BY <1>6, AtWork, AgainTyped, AddWaits DEF Reject, TypeOK
  <2> QED
    BY <1>2, <1>6, <2>1 DEF Reject, TypeOK
<1>7. CASE WorkerThrow(w)
  <2>1. work' \in [Workers -> Work]
    BY <1>1, <1>7 DEF WorkerThrow, WorkSteps
  <2>2. losses' \in 0..MaxLosses
    BY <1>7, BoundsAssumption DEF WorkerThrow, Lose, TypeOK
  <2> QED
    BY <1>7, <2>1, <2>2 DEF WorkerThrow, TypeOK
<1>8. CASE Crash(w)
  <2>1. queue' \in [Jobs -> Nat]
    BY <1>8, AtWork, AgainTyped, AddWaits DEF Crash, TypeOK
  <2>2. losses' \in 0..MaxLosses /\ crashes' \in 0..MaxCrashes
    BY <1>8, BoundsAssumption DEF Crash, Lose, TypeOK
  <2> QED
    BY <1>2, <1>8, <2>1, <2>2 DEF Crash, TypeOK
<1> QED
  BY <1>3, <1>4, <1>5, <1>6, <1>7, <1>8 DEF WorkerStep

\* READY and the path are written together, by whomever.
LEMMA StoredStep ==
  ASSUME TypeOK, ReadyIsStored, [Next]_vars
  PROVE  ReadyIsStored'
<1> USE DEF TypeOK, ReadyIsStored, Offered, rows, Badges
<1>1. ASSUME NEW q \in Requests, RequestStep(q) \/ RequestThrow(q) PROVE ReadyIsStored'
  BY <1>1 DEF RequestStep, RequestThrow, Lookup, Create, CreateInWorker, Insert, Enqueue,
              Recheck, Relookup, Reset, Requeue
<1>2. ASSUME NEW w \in Workers, WorkerStep(w) \/ WorkerThrow(w) \/ Crash(w) PROVE ReadyIsStored'
  BY <1>2 DEF WorkerStep, Take, Render, Deliver, LetterLog, Ack, Reject, WorkerThrow, Crash,
              RenderMark, RenderArtifact, RenderReady, RenderAnnounce, RenderFailed,
              RenderLetter, DeliveryRead, DeliveryMark, DeliveryMail
<1>3. CASE UNCHANGED vars
  BY <1>3 DEF vars
<1> QED
  BY <1>1, <1>2, <1>3 DEF Next

\* The initial states, in which there is no badge, satisfy the invariant.
LEMMA InvInit == Init => Inv
<1> SUFFICES ASSUME Init PROVE Inv
  OBVIOUS
<1>1. Typed
  BY BoundsAssumption DEF Init, Typed, TypeOK, FindsOne, Work, Steps, Badges
<1>2. Uncared = {} /\ losses = 0
  BY DEF Init, Uncared, CaredFor
<1> QED
  BY <1>1, <1>2, FS_EmptySet DEF Init, Inv, ReadyIsStored, Accounted

(***************************************************************************)
(* Every step preserves the invariant.                                     *)
(***************************************************************************)
LEMMA InvStep == Inv /\ [Next]_vars => Inv'
<1> SUFFICES ASSUME Inv, [Next]_vars PROVE Inv'
  OBVIOUS
<1>1. Typed'
  <2>1. CASE UNCHANGED vars
    BY <2>1 DEF Inv, Typed, TypeOK, FindsOne, vars
  <2> QED
    BY <2>1, RequestTyped, WorkerTyped DEF Inv, Next
<1>2. ReadyIsStored'
  BY StoredStep DEF Inv, Typed
<1>3. TypeOK /\ TypeOK' /\ ReadyIsStored /\ Accounted
  BY <1>1 DEF Inv, Typed
<1>4. losses <= losses'
  <2>1. losses' = losses \/ \E n \in {0, 1} : Lose(n)
    BY DEF Next, RequestStep, RequestThrow, Lookup, Create, CreateInWorker, Insert, Enqueue,
           Recheck, Relookup, Reset, Requeue, WorkerStep, Take, Render, Deliver, LetterLog, Ack,
           Reject, WorkerThrow, Crash, RenderMark, RenderArtifact, RenderReady, RenderAnnounce,
           RenderFailed, RenderLetter, DeliveryRead, DeliveryMark, DeliveryMail, faults, vars
  <2> QED
    BY <1>3, <2>1, BoundsAssumption DEF TypeOK, Lose
<1>5. ASSUME NEW q \in Requests, RequestStep(q) \/ RequestThrow(q) PROVE Accounted'
  <2>1. \A b \in Badges : CaredFor(b) => CaredFor(b)' \/ (losses' > losses /\ b = target[q])
    BY <1>3, <1>5, RequestCares
  <2> QED
    BY <1>3, <1>4, <2>1, AccountKept
<1>6. ASSUME NEW w \in Workers, WorkerStep(w) \/ WorkerThrow(w) \/ Crash(w) PROVE Accounted'
  <2>1. ASSUME NEW b \in Badges PROVE HandsOn(w, b)
    BY <1>3, <1>6, <2>1, WorkerWorks, WorkerLetsGo DEF WorkerStep
  <2>2. /\ UNCHANGED <<pc, target>> /\ letters \subseteq letters'
        /\ \A v \in Workers \ {w} : work'[v] = work[v]
    BY <1>3, <1>6
       DEF TypeOK, WorkerStep, Take, Render, Deliver, LetterLog, Ack, Reject, WorkerThrow, Crash,
           RenderMark, RenderArtifact, RenderReady, RenderAnnounce, RenderFailed, RenderLetter,
           DeliveryRead, DeliveryMark, DeliveryMail, Continue, Free, outcomes
  <2>3. \A b \in Badges : CaredFor(b) => CaredFor(b)' \/ (losses' > losses /\ b = Badge(w))
    BY <2>1, <2>2, WorkerHandsOn DEF Settles
  <2> QED
    BY <1>3, <1>4, <2>3, AccountKept
<1>7. ASSUME UNCHANGED vars PROVE Accounted'
  <2>1. losses' = losses /\ \A b \in Badges : CaredFor(b) => CaredFor(b)'
    BY <1>7 DEF vars, CaredFor, Ahead, Reported, Announced, Requested, Waits, Renders,
                Reports, Announces, Badge, IsFinal
  <2> QED
    BY <1>3, <1>4, <2>1, AccountKept
<1> QED
  BY <1>1, <1>2, <1>3, <1>5, <1>6, <1>7 DEF Inv, Next

LEMMA Invariance == Spec => []Inv
  BY InvInit, InvStep, PTL DEF Spec

----------------------------------------------------------------------------
(***************************************************************************)
(* The state of the badge pipeline keeps its shape.                        *)
(***************************************************************************)
THEOREM PipelineTyped == Spec => []TypeOK
<1>1. Inv => TypeOK
  BY DEF Inv, Typed
<1> QED
  BY <1>1, Invariance, PTL

(***************************************************************************)
(* A READY badge has its artifact, whatever requests and workers overlap.  *)
(***************************************************************************)
THEOREM ReadyHasArtifact == Spec => []ReadyIsStored
<1>1. Inv => ReadyIsStored
  BY DEF Inv
<1> QED
  BY <1>1, Invariance, PTL

(***************************************************************************)
(* The account: badges forgotten, badges whose failure nobody reports and  *)
(* badges nobody announces are, all together, no more than what was lost.  *)
(***************************************************************************)
THEOREM EveryGapIsALoss ==
  Spec => [](/\ IsFiniteSet(Forgotten \cup Unreported \cup Unannounced)
             /\ Cardinality(Forgotten \cup Unreported \cup Unannounced) <= losses)
<1>1. Inv => /\ IsFiniteSet(Forgotten \cup Unreported \cup Unannounced)
             /\ Cardinality(Forgotten \cup Unreported \cup Unannounced) <= losses
  BY Care DEF Inv, Accounted
<1> QED
  BY <1>1, Invariance, PTL

LEMMA PartOfAccount ==
  ASSUME Inv, NEW S \in SUBSET Uncared
  PROVE  Cardinality(S) <= losses
<1>1. IsFiniteSet(S) /\ Cardinality(S) <= Cardinality(Uncared)
  BY FS_Subset DEF Inv, Accounted
<1>2. Cardinality(S) \in Nat /\ Cardinality(Uncared) \in Nat /\ losses \in Nat
  BY <1>1, FS_CardinalityType, BoundsAssumption DEF Inv, Accounted, Typed, TypeOK
<1> QED
  BY <1>1, <1>2 DEF Inv, Accounted

(***************************************************************************)
(* A badge that is PENDING or RENDERING has a render ahead of it, whoever  *)
(* resets, renders, fails, retries or dies - but for one badge per loss.   *)
(***************************************************************************)
THEOREM NothingForgotten == Spec => []NeverForgotten
<1>1. Inv => NeverForgotten
  BY PartOfAccount, Care DEF NeverForgotten
<1> QED
  BY <1>1, Invariance, PTL

(***************************************************************************)
(* A FAILED badge is rendered again or has its dead letter - but for one   *)
(* badge per loss.                                                         *)
(***************************************************************************)
THEOREM EveryFailureReported == Spec => []FailureIsReported
<1>1. Inv => FailureIsReported
  BY PartOfAccount, Care DEF FailureIsReported
<1> QED
  BY <1>1, Invariance, PTL

(***************************************************************************)
(* A READY badge has been delivered, or a delivery of it or a new render   *)
(* is on its way - but for one badge per loss.                             *)
(***************************************************************************)
THEOREM EveryReadyAnnounced == Spec => []ReadyIsAnnounced
<1>1. Inv => ReadyIsAnnounced
  BY PartOfAccount, Care DEF ReadyIsAnnounced
<1> QED
  BY <1>1, Invariance, PTL
=============================================================================
