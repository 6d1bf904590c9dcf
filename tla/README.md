# A TLA+ model of EveMange

EveMange registers people for events and checks them in at the gate. This directory
holds TLA+ modules that model the protocol logic of the rewrite under `apps/` (the NestJS
API, its BullMQ worker, the React Native scanner and the page with the organizer's figures),
TLC configurations that check them on small instances, and proofs that TLAPS checks for
instances of every size.

## 1. The system

| component | source (below `apps/`) | state it keeps | operations | talks to | module |
|---|---|---|---|---|---|
| usher check-in | `api/.../usher` | rows of `Checkin` | `createCheckin` (8 awaits), search, assignments | QR codes, registrants | `Attendance` |
| attendee desk | `api/.../attendees` | `Registrant.lifecycleStatus`, `Checkin`, `Badge` | approve, reject, cancel, manual check-in, on-site registration, resend badge, edit | badges, communications | `Attendance`, `BadgePipeline`, `Registration`, `Organizing` |
| badges and QR codes | `api/.../badges` | `QrCode`, `Badge` | issue, regenerate, download link, verify, templates | system queue | `BadgePipeline` |
| registration | `api/.../registrations` | `Registrant`, its answers | resolve, submit, retrieve, update, badge page | links, badges, queue | `Registration`, `Organizing` |
| system queue and worker | `api/src/infra/queue` | jobs in Redis, rows they work on | eight kinds of jobs | everything that enqueues | `BadgePipeline`, `SystemJobs` |
| imports | `api/.../imports`, worker | `ImportJob`, `ImportError`, `Registrant` | create job, process rows | queue, badges | `SystemJobs`, `Registration`, `Attendance` |
| events and links | `api/.../events` | `Event`, `RegistrationLink`, form fields, settings and rules in metadata rows | CRUD, settings, form fields, approval rules | registration, and by cascades registrants, codes, check-ins | `Organizing`, `Attendance`, `Dashboard` |
| sessions | `api/.../auth` | `User` (failed logins, lock), `RefreshToken` | login, refresh, logout, unlock | mobile, web | `Sessions` |
| organizations, users | `api/.../organizations`, `super-admin` | `Organization`, `Role`, `UserRole`, `Invite` | invite, activate, roles, (de)activate users, change codes | sessions | `Accounts`, `Dashboard` |
| communications, webhooks | `api/.../communications`, worker | `CommunicationLog`, templates and their types | notify, campaigns, send, dispatch | queue | `SystemJobs`, `Organizing` |
| analytics, reports | `api/.../analytics`, worker, `web/.../analytics/page.tsx` | a cache, report artifacts, what a page shows | overview, breakdowns, exports | queue | `Dashboard`, `SystemJobs` |
| mobile scanner | `mobile/App.tsx` | one stored queue, one stored session | scan, foreground sync, background sync, clear, sign in and out | usher check-in, sessions | `OfflineQueue`, `Sessions` |
| policy | `api/.../common` | | what roles and organization of a token permit | all handlers | `Policy` |

**How they run.** The API is one or more Node processes. A handler runs without
interruption between two `await`s, and requests interleave at each of them. Few writes
share a transaction, so what holds across two awaits is mostly what the unique
indexes and foreign keys of the database enforce. The worker takes jobs from one BullMQ queue;
several worker processes may run, a job is tried up to three times with exponential back-off, and a
worker that dies leaves a stalled job which is taken once more. The scanner runs everything on
one JavaScript thread with interleaving at awaits, and it may be killed at any moment.

**What is hard**, and what correctness means there:

* *usher and desk*: check, then insert, awaits later, by scans of several badges of one
  person, a retried scan, and a manual check-in. Correct: nobody is checked in twice, one
  door hears ACCEPTED, each answer is true, no check-in crosses a tenant or rests on a status
  the request has not itself read as APPROVED, and nobody undecided gets in; also while an import
  hands out codes, and a link is deleted with its registrants and their check-ins.
* *badges*: requests reset and re-enqueue a badge while workers render, retry and die.
  Correct: nothing is downloadable that is not stored, no badge is forgotten in PENDING or
  RENDERING, every lasting failure is reported, ready badges are announced.
* *registration*: three ways into one table, each with checks of its own. Correct: one
  registrant per link and address, one per reference code, truthful answers, capacity.
* *messages, imports, webhooks, exports*: a record in the database and a job in Redis, written one
  after the other; attempts that repeat what the one before had done. Correct: no record is
  left behind by its job, what is recorded is what happened, duplicates have a cause.
* *links and settings*: a save is many writes, and reads of the public page fall between them.
  Correct: no half of a save opens a link wider than a whole save would; rules of two saves
  do not mix; answers that were acknowledged are there.
* *accounts and sessions*: counters and bootstrap rows without an index to protect them, the rows
  made by each process that starts, roles trusted by their name, refresh tokens rotated by several
  tasks of one app. Correct: locks are earned,
  memberships come from invitations, the device keeps a session it can use.
* *figures*: sums of several queries with writes and deletions in between, a cache in each process
  without invalidation, answers that overtake each other. Correct: figures err in one known direction, are recent, and advance.
* *scanner*: a stored queue is read and rewritten by several tasks with no lock. Correct: a
  queued scan is not lost, is dropped only after its retries, and the queue drains.

## 2. The modules

| module | models | extends | proofs |
|---|---|---|---|
| `AdmissionLedger` | abstract: a registrant is admitted once, for good, nobody once removed, and answers tell the truth about it | | |
| `Attendance` | `createCheckin`, approve, reject, cancel, manual check-in, resend, badge page, an imported row about somebody registered, deletion of a link, over `Checkin`, `QrCode`, `Registrant` | | `Attendance_proofs` |
| `BadgePipeline` | issue, resend, regenerate, badge page, import; the `badge.*` jobs with retries, stalls and crashes | | `BadgePipeline_proofs` |
| `Registration` | submit, on-site, imported rows; links being changed | | `Registration_proofs` |
| `OfflineQueue` | the scanner's stored queue, foreground and background sync, kill, failing or unreadable store | | `OfflineQueue_proofs` |
| `Policy` | `PolicyService` and its guards: pure operators | | |
| `SessionLedger` | abstract: a session is opened for somebody entitled to it or takes over from a live one, and once over never lives again | | |
| `Accounts` | invites, activation, custom roles, (de)activation of users, the identity bootstrap of every process | `Policy` | `Sessions_proofs` |
| `Sessions` | sign-in, lock-out, rate limit, rotation of refresh tokens, sign-out, and the scanner's session | `Accounts` | `Sessions_proofs` |
| `SystemJobs` | messages, imports, webhooks and exports from their request to the last attempt of their job | | `SystemJobs_proofs` |
| `Organizing` | events, links, access settings, form fields, approval rules, templates, answers, and the public page | `Policy` | `Organizing_proofs` |
| `Dashboard` | figures, listings, exports, each process's cache of overviews, the polling page, codes that change hands, deletion of links | `Policy` | `Dashboard_proofs` |
| `MC*` | the small instances: which requests there are, and of what | | |

All modules have one shape. `Requests` is a set of names, `Job[q]` what the request `q` asks for, and
`pc[q]` the await it stands at; one action is one awaited call together with the code up to the next one.
A call that rejects, or a process that dies, is an action of its own (`Fail`, `Throw`, `Abort`,
`CallFails`, `Crash`, `Restart`, `Kill`), possible at every await. `Traffic` or `Scenarios` are the
sets of requests that may come in one behaviour and what they find: a run then checks several
workloads, each as small as its question. An operator whose comment begins with *Faulty* is a
plausible bug in the definition that follows it; no specification uses it, and with it
in place of the definition TLC must find a property violated.

**`Attendance`.** `seen[q]` is the status a request has read, `answer[q]` its response. `InsertCheckin`
is `checkin.create` under the two unique indexes of `Checkin`
(`@@unique([organizationId, idempotencyKey])` and `@@unique([eventId, registrantId])`).
Two codes of one registrant exist where the code can issue a second one. Only issuers of codes that
are ACTIVE at once matter to a scan: submission with auto-approval (in `Init`), approve, the badge
page, resend, and the import of a row about somebody registered already (strategy UPDATE,
`queue.provider.ts:1207-1262`), which issues a first badge whatever the status. `deleteLink`
(`events.service.ts:1112`) takes the registrants, their codes and their check-ins along, by the
schema's cascades; `deleted` is a history of the check-ins that went so. Tokens are abstracted to what
a scan finds: nothing, a usable row, or an expired one; zones to a free choice of admitting or not.

**`AdmissionLedger`** is what a check-in desk promises. `Attendance` implements it under the
mapping at its end (`KeepsLedger`): the row of a registrant, or the one deleted with them, is the
admission, the answers are told later, or never, and a deletion of a link is a `Remove`.

**`BadgePipeline`** follows one registrant's badges. Requests look up, create or reset a
row and enqueue; workers `Take` a job and go through its awaits. `Reject` is BullMQ's
retry, `Crash` a stalled job, `WorkerThrow` and `RequestThrow` a rejected await. `losses` counts
the events after which the code can no longer repair itself (a row written but not enqueued, the
last attempt lost). The properties are an account of them: the badges forgotten, those whose failure is
not reported, and those not announced are each at most as many as the losses.

**`Registration`** has one request per form submission, desk registration or imported row,
each with its own order of look-ups. `foundFull` is a history variable.

**`OfflineQueue`** has one stored value, and local copies of it in every scan being queued and
every sync. `stale` is a history variable: some write replaced a value its writer had not read.
A stored queue that cannot be decrypted or parsed is deleted by the app's own readers (`Discard`;
`lost` are the scans that were in it), while the background task throws. `elapsed` abstracts the clock.

**`Accounts`** keeps the rows of users, roles, invites and memberships. What the schema
enforces is part of the write it concerns: an invite keeps its role from being deleted (Restrict), a
deleted role would take its memberships with it (Cascade). Every process runs the bootstrap (`boot`),
which is skipped from the super admin on when the environment names none (`scenario.env`). Its rows
have no organization, so no unique index applies to them: they are named after the process and the run
that made them, and `racedRoles`, `racedRows` are histories of what two processes were about to create
at once. `Restart(p)` is the death of a process at any await, the bootstrap's included. A custom role
has a name (`NameOf`), which may be SUPER_ADMIN: nothing reserves it, and authentication goes by it.
Memberships in the rows of a doubled system role are not told apart, having one name; past runs had
the environment of the present one.

**`Sessions`** adds the counters of `AuthService`, refresh tokens (named after the request that
created them) and the device: `stored` survives the app, `memory` does not, and `held[q]` is the
session each of its tasks started from. A task's request goes through the steps of the API
and then through those of the app. The buckets of the rate limit are of each process and go with it
(`Crash(p)`). `HasSuperName` is whom the API gives a session without an organization; what each route
permits such a session is `Policy`'s. `wrong` is a history variable.

**`SessionLedger`** is what authentication promises of sessions. `Sessions` implements it
(`KeepsSessions`): the table of refresh tokens is the ledger; entitled to a session of an
organization are its members, to one without whoever has a role named SUPER_ADMIN; and a refresh asks to take over when it finds its token live, awaits before it creates the new one.

**`SystemJobs`** has one job per message and per request that enqueues one. A worker `Take`s a job and
walks through its awaits; `Caught` says for each of them what the code does with a throw: record it, go
on, or leave it to the queue. `lost` is the set of jobs that nothing makes good any more: never added
because the request or job before `queue.add` was cut off, or failed by a throw its handler does not
catch, or by stalling twice. The properties excuse these very jobs and no other. `taken`, `told` and
`upset` are histories of what the outside world has got and of what the worker did not learn of it.

**`Organizing`.** A row is identified by the request that wrote it (`by`, or the request itself):
its value is what that request asked for. Settings are rows of `MigrationMetadata` written by
`upsertMetadataValue`, a lookup and a write (`UpsertFind`, `UpsertWrite`). A transaction is one action at
its commit, after what it read before (`RulesFind`/`RulesCommit`, `FieldsBegin`/`FieldsCommit`).
`updateSubmission` starts a `deleteMany` and a `createMany` at once; `todo` holds those to come, in any order.
Dates are `1..2`, or none, or not mentioned. An update may set an event's status to DRAFT or PUBLISHED,
which publishes an archived one again. `offer` is what a visitor brings, a password or an invite token.
`before`, `crowded`, `begun`, `settled` and `knew` are histories; `begun` only grows, so a save excuses
what is seen of it ever after.
`RulesCommit` fails when a row the save has read is gone, as `delete` of a missing row does in Prisma's
documented behaviour. Which isolation the database gives that transaction is a matter of its
configuration and not in the repository; if the deletion of a missing row passed silently there, two
overlapping saves of rules could leave a mixture, and `RulesOfOneSave` would not hold.

**`Dashboard`.** A query is modelled by the set of registrants it returns or counts, and a figure is the
size of such a set. `Plan(op)` are the queries of an operation: those of a set are started together, the
sets one after the other. `Returned` are the answers a query may give: a listing returns one page of
what its filter finds, the last scans only so many (`Limit`); in which order is not modelled, so any
rows may be on the page. `cache` has an entry per process and code (`Key`). The clock ticks once per
interval of the page. `Register`, `ChangeStatus`, `Scan` and `CheckIn` summarize what `Registration`
and `Attendance` model in steps: a check-in rests on a status read before it. `DeleteLink` takes
registrants ("gone") and their check-ins away.

**How the modules fit together.** `Sessions` is composed with `Accounts` and shares its state. The
others meet at rows: `Registration` and `Attendance` write what `Dashboard` reads; `Registration`
ends where `SystemJobs` (`submit`) and `BadgePipeline` (`issue`) begin; `Organizing` is what
decides whether `Registration` is reached; `OfflineQueue` takes from `Attendance` that a scan is
settled by any verdict. The deletion of a link is in `Organizing` (what visitors and answers meet), in
`Attendance` (codes, check-ins) and in `Dashboard` (figures); `Registration`, `BadgePipeline` and
`SystemJobs` have links and registrants that stay. They are checked apart because their questions are,
and because together they would be too large.

## 3. What is checked

On two TLC workers each run ends within five minutes.

| run | instance | shows |
|---|---|---|
| `attendance` | two doors (2 scans, the retry of one under its key, a manual check-in); two tenants (one key used by both, wrong tenant, wrong event, a rejection); a key used for two registrants; the desk (approve, cancel, resend, badge page, a scan of the resent badge); an import of the same person; a link deleted meanwhile; any initial status | one ACCEPTED; provenance of every check-in; true answers; the undecided stay out; the ledger is implemented |
| `attendance_cancel` | a cancellation and a scan | **violated**: a checked-in registrant is cancelled |
| `badge_safety` | approval and badge page, or resend and regenerate; 2 workers, 2 attempts, renderings fail freely, 2 losses | READY means stored; badges forgotten, failed without a dead letter, or ready and not announced: at most one per loss |
| `badge_live` | import and resend, 1 worker that may die once, no loss | rendering ends, ready badges are announced |
| `registration` | form, desk and import with one address in 2 links; 2 submissions of one link; one submitted twice; imports that skip or flag; the organizer changes both links | unique registrants and codes; true answers; who found the link full stays out |
| `registration_capacity` | 2 submissions, capacity 1 | **violated**: more registrants than the capacity |
| `offline_queue` | 1 scan, 2 foreground syncs and 1 background, or 2 scans and 1 foreground sync; 2 retries, 1 fault (a kill, a failing write, an unreadable store, a clearing), fair | a scan is lost only by a stale write or an unreadable store; the flag is never left set; no scan is dropped early; the queue drains for good |
| `offline_loss` | 2 scans, 1 foreground sync, no fault | **violated**: a queued scan is lost |
| `access` | a role made, granted, activated twice and deleted; a custom role named SUPER_ADMIN, made twice, granted and signed in with, no super admin in the environment; a new database met by two processes at once, with such an environment and without; a new database with a bulk invitation and a first sign-in; 2 wrong passwords, a right one and an unlock; 3 tasks of a scanner; up to 1 restart or kill | members are the invited; a bootstrap doubles only what another is creating; locks are earned; the device's session is usable; the session ledger is implemented |
| `jobs` | a notice and a campaign; a submission; an import with a bad row; an import whose worker may die twice; two imports of one address; an export, likewise; 2 attempts, 2 lost jobs, fair | but for the lost jobs themselves nothing is forgotten; records are true; duplicates have a cause; verdicts of imports agree with their error rows; everything settles |
| `organizing` | 2 to 6 overlapping requests on one link, event or template, 19 workloads, among them an event archived and published again, at most 1 cut short | rules of one save; no door opens wider than a whole save says; acknowledged answers are there; windows of events; texts fit their type |
| `dashboard` | a page that loads twice, from one process or from two, beside another page of the organization or of another one, or while codes change hands; each figure, listing and export with up to 3 writes between its queries, deletions of links among them | figures err in one direction, but for who was deleted; overviews are recent and of the right organization; the page advances |

**Bounds.** The hazards of this code are races of two requests, or of two and a third that changes what
they read; each workload has the requests of one such race. Retries are 2 instead of 3 (a first and a
last attempt), in the scanner 2 instead of 5; wrong passwords lock at 2 instead of 5, the rate limit is 2
instead of 10, so that both are reached. `MaxLosses`, `MaxCrashes`, `MaxFaults`, and the `deaths`,
`restarts`, `kills` and `aborts` of a workload, bound how often something fails. Two losses separate *one
badge per loss* from *any badge once something was lost*, and one lost job of two from both; two deaths
are what makes BullMQ fail a stalled job. `MaxMessages` (4) is room for all messages of a workload.
`badge_safety` has no dying worker, being too large with one; `badge_live` has one, and the proofs hold
for any number. Two reference codes are enough for a collision and a draw that is used up; they are
symmetric, being only compared. Capacities are 1 or none. `TTL` is 2 ticks (30 s by 15 s), `MaxTime` 2,
so that an entry is served in its first and second tick and, where a workload starts at tick 0, expires;
a figure of two queries needs a write before, between and after them, hence 3 writes. A listing
returns 1 row (`Limit`) of 2 there may be, so that it is cut off; each registrant has a link, so that one
is deleted and one stays. Two processes are enough to bootstrap at once and to have two caches. The histories and
counters of the modules are bounded by the finite number of requests. The type invariants of
`Attendance`, `Registration`, `BadgePipeline` and `Dashboard` are not among the runs' properties: they
are proved. Runs switch the deadlock check off: requests are finite, and the system stops when all are
answered.

**Fairness.** `BadgePipeline` and `SystemJobs`: a process goes on with a request it has started
and, when there is a job, with one of the jobs (Node's event loop, BullMQ's fetch loop); nothing
has to succeed, and a new request need not come. `OfflineQueue`: started scans and syncs go on (each
fetch or store call ends), time passes, and the 30 s `setInterval` starts a foreground sync again and
again; strong fairness, because the flag may be set at some of the ticks. The background task is
not assumed to run. The other modules state no liveness: their requests end by answering.

## 4. What is proved

Everything below holds for all values of the constants under the modules' `ASSUME`s, which say
that jobs are jobs, owners are functions (a registrant has one organization and one event, a link one
event), retry limits are positive, null values are no values, and in `Registration` and `Dashboard` that
requests or registrants are finite in number. TLC evaluates the assumptions in the runs.

Four theorems have a further hypothesis, written into their statement: they say what a promise that the
code breaks (section 5) would need, and that nothing else is in its way. Each hypothesis only forbids one
overlap or one event; the throws, deaths, retries and other requests of the module remain.

**`Attendance_proofs`**: `TypeCorrect`, `NoDoubleCheckin`, `SingleWinner` (`OneAccepted`),
`EveryCheckinSound` (`CheckinProvenance`), `AnswersAreTrue` (`TruthfulAnswers`), `UndecidedAreOut`
(`UndecidedStayOut`), `ImplementsLedger` (`KeepsLedger`) and `ExclusionSparesCheckedIn`. That rows are
unique is inductive with the type invariant, because `InsertCheckin` is the only action that adds a row
and refuses under either index. `OneAccepted` is not: ACCEPTED is told an await after the row is written.
It follows from uniqueness and from provenance strengthened by *a request in its audit step, or told
ACCEPTED, has a row that names it as its author*. What a link's deletion removes is kept in the history
`deleted`, and the theorems speak of every check-in there has been (`Ever`): that only grows, which keeps
DUPLICATE and IDEMPOTENT_REPLAY true. `UndecidedStayOut` rests on `DeskInv`: a decision is never taken back to PENDING,
so whoever read APPROVED, however long ago, deals with a registrant who is decided on or
gone, which no update undoes, and codes come only from such requests, from a resend, or from an import. The refinement maps each insert to an admission, each answer to
a telling, a link's deletion to a removal, and everything else to a stutter. `ExclusionSparesCheckedIn`: if no check-in of a registrant
is inserted while a cancellation of theirs stands between its count and its update, no cancellation ever
takes effect on somebody checked in.

**`Registration_proofs`**: `RegistrationTyped`, `OneRegistrant` (`UniqueRegistrants`), `OutcomesAreTrue`
(`TruthfulAnswers`), `FullIsFull` (`LateStayOut`), `OverlapBoundsOverrun`, `CapacityWithoutOverlap`. The
insert refuses under either index, so uniqueness is inductive. Truthful answers need `Progress` (what a
request knows at each step: before its insert it has no row, after it it has one). `LateStayOut` needs
`Lateness`: a submission that read its link as full carries a capacity for which the link stays full
until it counts, since rows only grow in number (`RowsGrow`, from the finite-set theorems) while the
organizer's changes do not reach the capacity it has read. `OverlapBoundsOverrun` says by how much a link
can be overrun: if at most `k` submissions of it stand between count and insert at once and its capacity
is never lowered, at most `k - 1` registrants too many come through its form, however many submit. The
invariant counts those who stand there as registered already, so that an insert changes nothing and only
a count takes a place, finding one free. `CapacityWithoutOverlap` is the case of `k = 1` with the form as
the only way in.

**`BadgePipeline_proofs`**: `PipelineTyped`, `ReadyHasArtifact` (`ReadyIsStored`), `EveryGapIsALoss`, and
from it `NothingForgotten` (`NeverForgotten`), `EveryFailureReported` (`FailureIsReported`) and
`EveryReadyAnnounced` (`ReadyIsAnnounced`). The invariant is an account (`Accounted`): the badges nobody
cares for, whether forgotten, unreported or unannounced, are together at most as many as the losses. It
is inductive with `FindsOne` (regeneration from the badge page finds a row), because each step hands the
care for a badge on (`CaredFor`), from the request that wrote the row to the job it enqueues, to the
worker that takes the job, and from there to the job put back, the delivery, the dead letter, or a status
that needs no work; a step that drops it drops one badge and counts a loss. The case that is not obvious
is a delivery that gives up because a later render has reset the badge: that render is then still ahead
and announces it. Any number of stalls, losses and workers is covered.

**`OfflineQueue_proofs`**: `QueueTyped`, `DroppedAfterTheLimit` (`DroppedWasTried`), `FlagHasHolder`
(`FlagIsHeld`), `OnlyOverwriteOrDiscardLoses` (`LossOnlyByOverwriteOrDiscard`), `LockKeepsData`. The
strengthening speaks of every copy of the queue, stored, read, or half worked off: its items are of scans
that have been queued, with counts no higher than what was really sent (`GoodCopies`; copies only grow
old and sends only grow). And a sync at work has each scan it read still ahead of it or kept, or the scan
is settled (`Worked`); so a sync that overwrites nothing but what it read loses nothing. `LockKeepsData`
turns that into what the code lacks: with one holder of the queue between read and write at a time, no
clearing meanwhile and no unreadable store, `NoDataLoss` holds, through kills, failing writes and lost
answers.

**`Sessions_proofs`**: `TypeCorrect`, `MembersAreInvited` (`MembershipIsInvitation`), `BootIsOnce`
(`BootOnce`), `LocksAreEarned` (`LockedWasEarned`), `StoredSessionsLast` (`StoredSessionUsable`),
`SessionsAreOfMembers` and `ImplementsSessionLedger` (`KeepsSessions`). The bootstrap's invariant is what
each process has seen so far (`Looked`): system roles and bindings are never deleted, and created only
by bootstraps, so what a process found missing is missing until it creates it, unless another process
stands between the same lookup and creation (`Raced`), and that has been recorded when the second of
them looked. A process that is up has passed every role and the binding, however often it was restarted. A count read by `markFailedLogin` never exceeds the wrong
passwords tried: that number only grows, while the stored count may be reset in between. A token is
nobody's before the task that asked for it has stored it, so no other task can have it revoked until
then, and a task that revoked the stored token is on its way to replace it. The refinement needs two of
these: that members stay members (a sign-in reads the assignment awaits before it creates the token), and
that no token exists before its request creates it (a session that has ended cannot begin again). Each
creation maps to an opening or a taking over, a lookup that finds the token live to the asking, a crash
to giving up.

**`SystemJobs_proofs`**: `TypeCorrect`, `NothingIsForgotten` (`NothingForgotten`), `RecordsTell`
(`RecordsAreTrue`), `DuplicatesAreCounted` (`DuplicatesAreAccidents`), `VerdictsHold` (`ImportVerdict`),
`LostIsFinal`. A message has exactly one holder from its row to its job, and its job is added once; from
then on only that job's steps touch its records. `Recorded` then says, for each step of a job, what has
been recorded by then. The hard part is the import: every attempt meets all rows again, now among
registrants of its own making. A row that got an error gets one again, because the address it was flagged
for stays in the table; so the counter of the last attempt is positive exactly when there is an error row
of any. For webhooks, a hook not yet called in this attempt heard of the event at most once in each
earlier one. The first two theorems excuse the jobs in `lost` one by one; `LostIsFinal` keeps that excuse
narrow: such a job was never added or has failed, and nobody will ever add or move it.

**`Organizing_proofs`**: `TypeCorrect`, `RulesStandAlone` (`RulesOfOneSave`), `WindowsHold`
(`EventWindowHolds`), `DoorsHold` (`DoorsStayClosed`), `TextsFit` (`TextFitsItsType`), `UpdatesHold`
(`UpdateHolds`). For the rules: as long as what a save has read is still there, of two saves one read
what the other read and more, and a commit throws when a row it read is gone; so two saves can stand
together only if one had nothing to read. For the doors: every row of the settings is one that a save
which began to write has stored, and where there is none such a save wanted none; as the mode is
written before the password, each mixture admits no more than one of the saves. `UpdateHolds` needs the two
queries of an update followed separately: if it deleted first, what it created stands; if it created
first, the unique index of answers stops it as long as one key had an answer.

**`Dashboard_proofs`**: `TypeCorrect`, `FiguresAreSound` (`FiguresHold`), `OverviewsAreRecent`
(`AnswersAreRecent`), `PagesAdvance` (`DashboardAdvances`). Check-ins go only with
their registrants (`Gone`, who never come back), so a set of check-ins read later, with those gone,
contains one read earlier; the cardinality argument for no-shows follows (from the finite-set
theorems), up to the number of registrants deleted in between. What a listing's page leaves out is
claimed of nobody. A cache entry is of the organization that has its code, or the computation that
left it was under way, or over, when the code changed hands. `DashboardAdvances` needs all answers of
a process under a code at once (`AdvanceInv`): the cached one is behind none of those on their way to a page or shown,
and what a computation has read, or will read, covers them all, unless two ran at once. A load that was
not overtaken finds the page as it was when it began.

No invariant or action property is left to TLC alone. Only model-checked are `RenderingEnds`,
`ReadyIsDelivered`, `QueueDrains` and `AllSettle`: liveness under fairness is out of this prover's reach.

## 5. Disagreements found

1. *A checked-in attendee can be cancelled* (`attendance_cancel`): the check and the update of
   `cancelRegistration` are two awaits. That nobody is checked in between them is all that is needed
   (`ExclusionSparesCheckedIn`).
2. *Capacity can be exceeded* (`registration_capacity`): count and insert are not atomic, and desk and
   import do not count. The excess through the form is less than the number of submissions that overlap
   (`OverlapBoundsOverrun`), and without these causes, and with no capacity lowered, there is none
   (`CapacityWithoutOverlap`).
3. *A queued scan can be lost* (`offline_loss`): a sync writes back the list it read before it awaited
   the API, over a scan queued meanwhile. A lock around read and write would keep the promise, but for a
   store that cannot be read (`LockKeepsData`).

## 6. Exceptions the properties make

Each of these is behaviour of the code that a property names as an exception, or that came up while
modelling. No document speaks of these cases; some state a rule, like that of an event's window, without
saying whether it is meant to hold under overlapping edits, so none is counted as a disagreement.

* `LossOnlyByOverwriteOrDiscard`, `UpdateHolds`, `RulesOfOneSave`, `EventWindowHolds`: overlapping edits
  may overwrite each other. An update of answers loses them when none of its keys had an answer and the
  insertion ran before the deletion. A stored scan queue that cannot be decrypted or parsed is deleted.
* `NothingForgotten`, `RecordsAreTrue`, `NeverForgotten`, `FailureIsReported`, `ReadyIsAnnounced`:
  between a row and `queue.add` there is no transaction; a process that dies there leaves a row nobody
  works on. Nothing marks an import FAILED when its last attempt throws.
* `DuplicatesAreAccidents`: delivery is at least once.
* `UndecidedStayOut`: the desk's resend, and an import under UPDATE, issue a code to a registrant nobody
  has decided on; a scan of it is refused by the status.
* `BootOnce`: processes that start together on a new database may create a system role, or the super
  admin's binding, twice.
* `KeepsSessions`: a custom role named SUPER_ADMIN is taken for the system role of that name: its
  holders sign in without naming an organization.
* `TextFitsItsType`: the text and the type of a template are two writes; an update without `messageType`
  removes the type, because `hasOwnProperty` holds for every declared field of the request. The SMS after
  a submission takes any active SMS template when the link names none.
* `AnswersAreRecent`, `DashboardAdvances`: after a code changed hands, its new holder may be shown the
  previous holder's overview for up to 30 s; a page may go back to older figures when its loads overtake
  each other, when two processes serve it in turn, each from its own cache, or when a link was deleted.
* `FiguresHold`: somebody rejected after the check-in makes the number of no-shows smaller than the
  export of no-shows; registrants deleted between its two counts make it larger than the no-shows there
  were; the last scans and the listings leave out what is beyond their limit.
* `StoredSessionUsable`: a refresh whose answer was lost leaves a revoked session on the device.
* `updateLink` checks only the two dates of the request, not the one in the row; settings and rules of a
  deleted link stay; `INVITE_ONLY` links saved through the API admit nobody; the registration window
  among the event settings is stored and enforced nowhere.

## 7. Not modelled

* *Single writes of rows nobody else changes*: badge templates, event templates, link types,
  `createOrganization`, platform settings, subscription and communication configuration. No
  interleaving of theirs reaches a state a single call does not.
* *Reads for display*: audit log, lists of events, links and messages, `COMMUNICATION_REPORT`, the
  scanner's history and telemetry (lists rewritten whole, kept on the device for its user), pages of the web
  application other than the analytics page.
* *`verifyQr`*, but for a code that expires: that a code was verified changes nothing for a scan.
* *Input and output*: shapes of inputs (DTOs), parsing of import files, wording of messages,
  signing of tokens and links, badge and report formats, captcha, secrets, storage. The models take from them
  that a call succeeds or throws. Two of the three rate limits are the counter modelled in `Sessions` once more.
* *Render metrics*: counters for observation; only their alert reads them.
* *The legacy `server/` and `client/`*, which the code under `apps/` replaces, and build, CI and operations.
