---------------------------- MODULE OfflineQueue ----------------------------
(***************************************************************************)
(* The scanner app of an usher (apps/mobile/App.tsx): a scan the API does  *)
(* not answer is appended to a queue kept in the secure store of the       *)
(* phone; the foreground syncs (timer, new session, button) and the        *)
(* background fetch task work that queue off against the API.              *)
(*                                                                         *)
(* The queue is one stored value.  Everyone reads all of it, awaits, and   *)
(* writes all of it; only the foreground syncs have a flag among           *)
(* themselves.  A step is one await.  Times are abstracted: `elapsed'      *)
(* tells for which attempt of a scan the back-off has passed.              *)
(***************************************************************************)
EXTENDS Integers, Sequences

CONSTANTS
  Scans,                   \* calls of submitCheckin, each for a badge of its own
  Foreground, Background,  \* syncPendingQueue, runBackgroundQueueSyncOnce
  Traffic,                 \* sets of scans and syncs that may come in one behaviour
  MaxRetries,              \* OFFLINE_SYNC_MAX_RETRIES, 5 in the code
  MaxFaults                \* bounds kills, failing or unreadable stores, clearings

ASSUME RetriesAssumption == MaxRetries \in Nat \ {0}
ASSUME FaultsAssumption == MaxFaults \in Nat
ASSUME TasksAssumption == Foreground \cap Background = {}
                          /\ Scans \cap (Foreground \cup Background) = {}

Tasks == Foreground \cup Background

ASSUME TrafficAssumption == Traffic \subseteq SUBSET (Scans \cup Tasks)

\* A queued scan; one that has failed MaxRetries times is not kept.
Items == [scan: Scans, attempts: 0..(MaxRetries - 1)]

VARIABLES
  store,     \* the queue in the secure store
  at,        \* the await each scan and each task stands at
  base,      \* the queue each of them has read
  todo, kept,\* of a task: items still to go through, and the `remaining' list
  syncing,   \* isSyncingQueueRef
  elapsed,   \* <<scan, attempts>> whose nextRetryAt has passed
  row,       \* the API's check-in of each scan's badge: the key it was made under
  told,      \* what the app last showed for a scan
  sends,     \* how often a queued scan was sent, counted up to MaxRetries
  dropped, cleared,  \* scans given up for their attempts, scans cleared by the usher
  lost,      \* scans in a stored queue that was deleted because it could not be read
  stale,     \* history: a write of the queue undid another one
  faults

local == <<at, base, todo, kept, syncing>>
api == <<row, told, sends>>
fate == <<dropped, cleared, lost>>
vars == <<store, local, elapsed, api, fate, stale, faults>>

Verdicts == {"ACCEPTED", "DUPLICATE", "IDEMPOTENT_REPLAY", "REFUSED"}

InQueue(q) == {q[i].scan : i \in 1..Len(q)}

TypeOK ==
  /\ store \in Seq(Items)
  /\ at \in [Scans \cup Tasks -> {"idle", "read", "write", "loop", "release", "done", "gone"}]
  /\ base \in [Scans \cup Tasks -> Seq(Items)]
  /\ todo \in [Tasks -> Seq(Items)]
  /\ kept \in [Tasks -> Seq(Items)]
  /\ syncing \in BOOLEAN
  /\ elapsed \subseteq Scans \X (1..(MaxRetries - 1))
  /\ row \in [Scans -> {"none", "online", "queued"}]
  /\ told \in [Scans -> Verdicts \cup {"nothing", "QUEUED"}]
  /\ sends \in [Scans -> 0..MaxRetries]
  /\ dropped \subseteq Scans
  /\ cleared \subseteq Scans
  /\ lost \subseteq Scans
  /\ stale \in BOOLEAN
  /\ faults \in 0..MaxFaults

Init ==
  /\ store = <<>>
  /\ \E coming \in Traffic :
       at = [p \in Scans \cup Tasks |-> IF p \in coming THEN "idle" ELSE "gone"]
  /\ base = [p \in Scans \cup Tasks |-> <<>>]
  /\ todo = [t \in Tasks |-> <<>>]
  /\ kept = [t \in Tasks |-> <<>>]
  /\ syncing = FALSE
  /\ elapsed = {}
  /\ row = [s \in Scans |-> "none"]
  /\ told = [s \in Scans |-> "nothing"]
  /\ sends = [s \in Scans |-> 0]
  /\ dropped = {}
  /\ cleared = {}
  /\ lost = {}
  /\ stale = FALSE
  /\ faults = 0

----------------------------------------------------------------------------
(***************************************************************************)
(* POST /usher/checkins with one of the two idempotency keys of a scan:    *)
(* the answer, and the check-in afterwards.                                *)
(***************************************************************************)
Served(s, key) ==
  IF row[s] = "none"
  THEN {<<"ACCEPTED", key>>, <<"REFUSED", "none">>}
  ELSE {<<IF row[s] = key THEN "IDEMPOTENT_REPLAY" ELSE "DUPLICATE", row[s]>>}

Goto(p, step) == at' = [at EXCEPT ![p] = step]

Answered(s, key) ==
  \E a \in Served(s, key) : /\ told' = [told EXCEPT ![s] = a[1]]
                            /\ row' = [row EXCEPT ![s] = a[2]]

\* No answer, a 5xx, or a 401 that a refresh does not cure; served or not.
Unanswered(s, key) ==
  \/ UNCHANGED row
  \/ \E a \in Served(s, key) : row' = [row EXCEPT ![s] = a[2]]

\* What a scan or a task has read goes out of scope.
Forget(p) == base' = [base EXCEPT ![p] = <<>>]
ForgetAll(t) == /\ Forget(t)
                /\ todo' = [todo EXCEPT ![t] = <<>>]
                /\ kept' = [kept EXCEPT ![t] = <<>>]

\* Whoever overwrites what it has not read undoes somebody's write.
Overwrite(p, q) == store' = q /\ stale' = (stale \/ store # base[p])

----------------------------------------------------------------------------
(***************************************************************************)
(* submitCheckin                                                           *)
(***************************************************************************)
SubmitAnswered(s) ==
  /\ at[s] = "idle"
  /\ Answered(s, "online")
  /\ Goto(s, "done")
  /\ UNCHANGED <<store, base, todo, kept, syncing, elapsed, sends, fate, stale, faults>>

SubmitUnanswered(s) ==
  /\ at[s] = "idle"
  /\ Unanswered(s, "online")
  /\ Goto(s, "read")
  /\ UNCHANGED <<store, base, todo, kept, syncing, elapsed, told, sends, fate, stale, faults>>

\* enqueuePendingCheckin
EnqueueRead(s) ==
  /\ at[s] = "read"
  /\ base' = [base EXCEPT ![s] = store]
  /\ Goto(s, "write")
  /\ UNCHANGED <<store, todo, kept, syncing, elapsed, api, fate, stale, faults>>

EnqueueWrite(s) ==
  /\ at[s] = "write"
  /\ Overwrite(s, Append(base[s], [scan |-> s, attempts |-> 0]))
  /\ told' = [told EXCEPT ![s] = "QUEUED"]
  /\ Goto(s, "done")
  /\ Forget(s)
  /\ UNCHANGED <<todo, kept, syncing, elapsed, row, sends, fate, faults>>

----------------------------------------------------------------------------
(***************************************************************************)
(* A sync.  The foreground looks at its flag before it reads the queue,    *)
(* and sets it after.                                                      *)
(***************************************************************************)
Begin(t) ==
  /\ at[t] = "idle" /\ t \in Foreground
  /\ ~syncing
  /\ Goto(t, "read")
  /\ UNCHANGED <<store, base, todo, kept, syncing, elapsed, api, fate, stale, faults>>

\* The system wakes the background task; without a stored session it ends.
Wake(t) ==
  /\ at[t] = "idle" /\ t \in Background
  /\ Goto(t, "read")
  /\ UNCHANGED <<store, base, todo, kept, syncing, elapsed, api, fate, stale, faults>>

ReadQueue(t) ==
  /\ at[t] = "read"
  /\ base' = [base EXCEPT ![t] = store]
  /\ todo' = [todo EXCEPT ![t] = store]
  /\ kept' = [kept EXCEPT ![t] = <<>>]
  /\ Goto(t, IF store = <<>> THEN "idle" ELSE "loop")
  /\ UNCHANGED <<store, elapsed, api, fate, stale, faults>>

SyncRead(t) == t \in Foreground /\ ReadQueue(t) /\ syncing' = (syncing \/ store # <<>>)

\* The background task neither looks at the flag nor sets it.
BackgroundRead(t) == t \in Background /\ ReadQueue(t) /\ UNCHANGED syncing

Item(t) == Head(todo[t])
Due(i) == i.attempts = 0 \/ <<i.scan, i.attempts>> \in elapsed

AtItem(t) == at[t] = "loop" /\ todo[t] # <<>>
NextItem(t) == todo' = [todo EXCEPT ![t] = Tail(@)]
Keep(t, i) == kept' = [kept EXCEPT ![t] = Append(@, i)]

\* Faulty: an item that is not due yet is left out of the remaining ones.
DeferForgotten(t) ==
  /\ AtItem(t) /\ ~Due(Item(t))
  /\ NextItem(t)
  /\ UNCHANGED <<store, at, base, kept, syncing, elapsed, api, fate, stale, faults>>

Defer(t) ==
  /\ AtItem(t) /\ ~Due(Item(t))
  /\ NextItem(t)
  /\ Keep(t, Item(t))
  /\ UNCHANGED <<store, at, base, syncing, elapsed, api, fate, stale, faults>>

Sent(s) == sends' = [sends EXCEPT ![s] = IF @ < MaxRetries THEN @ + 1 ELSE @]

SendAnswered(t) ==
  /\ AtItem(t) /\ Due(Item(t))
  /\ Answered(Item(t).scan, "queued")
  /\ Sent(Item(t).scan)
  /\ NextItem(t)
  /\ UNCHANGED <<store, at, base, kept, syncing, elapsed, fate, stale, faults>>

Retried(i) == [i EXCEPT !.attempts = @ + 1]

\* Faulty: dropped one attempt early; kept at the limit; not counted.
RetryOrDropEarly(t, i) ==
  IF i.attempts + 2 < MaxRetries
  THEN Keep(t, Retried(i)) /\ UNCHANGED fate
  ELSE dropped' = dropped \cup {i.scan} /\ UNCHANGED <<kept, cleared, lost>>

RetryOrDropLate(t, i) ==
  IF i.attempts + 1 <= MaxRetries
  THEN Keep(t, Retried(i)) /\ UNCHANGED fate
  ELSE dropped' = dropped \cup {i.scan} /\ UNCHANGED <<kept, cleared, lost>>

RetryUncounted(t, i) == Keep(t, i) /\ UNCHANGED fate

\* markForRetry, and the limit.
RetryOrDrop(t, i) ==
  IF i.attempts + 1 < MaxRetries
  THEN Keep(t, Retried(i)) /\ UNCHANGED fate
  ELSE dropped' = dropped \cup {i.scan} /\ UNCHANGED <<kept, cleared, lost>>

SendUnanswered(t) ==
  /\ AtItem(t) /\ Due(Item(t))
  /\ Unanswered(Item(t).scan, "queued")
  /\ Sent(Item(t).scan)
  /\ NextItem(t)
  /\ RetryOrDrop(t, Item(t))
  /\ UNCHANGED <<store, at, base, syncing, elapsed, told, stale, faults>>

\* The background task writes only when it has changed something.
SyncWrite(t) ==
  /\ at[t] = "loop" /\ todo[t] = <<>>
  /\ IF t \in Background /\ kept[t] = base[t]
     THEN UNCHANGED <<store, stale>>
     ELSE Overwrite(t, kept[t])
  /\ Goto(t, IF t \in Foreground THEN "release" ELSE "idle")
  /\ ForgetAll(t)
  /\ UNCHANGED <<syncing, elapsed, api, fate, faults>>

\* Faulty: the flag not reset.
ReleaseNot(t) ==
  /\ at[t] = "release"
  /\ Goto(t, "idle")
  /\ UNCHANGED <<store, base, todo, kept, syncing, elapsed, api, fate, stale, faults>>

\* The finally block.
Release(t) ==
  /\ at[t] = "release"
  /\ syncing' = FALSE
  /\ Goto(t, "idle")
  /\ UNCHANGED <<store, base, todo, kept, elapsed, api, fate, stale, faults>>

----------------------------------------------------------------------------
Fault == faults < MaxFaults /\ faults' = faults + 1

(***************************************************************************)
(* The secure store throws: a scan that was to be queued is gone, a sync   *)
(* ends, over its finally block once it has set the flag.                  *)
(***************************************************************************)
EnqueueThrow(s) ==
  /\ at[s] \in {"read", "write"}
  /\ Fault
  /\ Goto(s, "gone")
  /\ Forget(s)
  /\ UNCHANGED <<store, todo, kept, syncing, elapsed, api, fate, stale>>

SyncThrow(t) ==
  /\ at[t] \in {"read", "loop"}
  /\ Fault
  /\ Goto(t, IF t \in Foreground /\ at[t] = "loop" THEN "release" ELSE "idle")
  /\ ForgetAll(t)
  /\ UNCHANGED <<store, syncing, elapsed, api, fate, stale>>

\* The app is killed, and started again.
Kill ==
  /\ Fault
  /\ at' = [p \in Scans \cup Tasks |->
              IF p \in Tasks /\ at[p] # "gone" THEN "idle"
              ELSE IF at[p] \in {"read", "write"} THEN "gone" ELSE at[p]]
  /\ base' = [p \in Scans \cup Tasks |-> <<>>]
  /\ todo' = [t \in Tasks |-> <<>>]
  /\ kept' = [t \in Tasks |-> <<>>]
  /\ syncing' = FALSE
  /\ UNCHANGED <<store, elapsed, api, fate, stale>>

\* clearOfflineQueue
Clear ==
  /\ store # <<>>
  /\ Fault
  /\ store' = <<>>
  /\ cleared' = cleared \cup InQueue(store)
  /\ UNCHANGED <<local, elapsed, api, dropped, lost, stale>>

(***************************************************************************)
(* getPendingQueue, when the stored queue is there and cannot be decrypted *)
(* or parsed: it is deleted, and its caller goes on with an empty one.     *)
(* The background task's own reader throws instead (SyncThrow).            *)
(***************************************************************************)
Discard ==
  /\ store # <<>>
  /\ Fault
  /\ store' = <<>>
  /\ lost' = lost \cup InQueue(store)
  /\ UNCHANGED <<todo, kept, syncing, elapsed, api, dropped, cleared, stale>>

EnqueueUnreadable(s) ==
  /\ at[s] = "read"
  /\ Discard
  /\ Forget(s)
  /\ Goto(s, "write")

SyncUnreadable(t) ==
  /\ at[t] = "read" /\ t \in Foreground
  /\ Discard
  /\ Goto(t, "idle")
  /\ UNCHANGED base

\* refreshQueueCount
CountUnreadable == Discard /\ UNCHANGED <<at, base>>

\* nextRetryAt of an attempt passes.
Elapse(s, n) ==
  /\ <<s, n>> \notin elapsed
  /\ elapsed' = elapsed \cup {<<s, n>>}
  /\ UNCHANGED <<store, local, api, fate, stale, faults>>

ScanStep(s) == SubmitAnswered(s) \/ SubmitUnanswered(s) \/ EnqueueRead(s) \/ EnqueueWrite(s)
Work(t) == \/ SyncRead(t) \/ BackgroundRead(t) \/ Defer(t) \/ SendAnswered(t)
           \/ SendUnanswered(t) \/ SyncWrite(t) \/ Release(t)

Next == \/ \E s \in Scans : ScanStep(s) \/ EnqueueThrow(s) \/ EnqueueUnreadable(s)
        \/ \E t \in Tasks : Begin(t) \/ Wake(t) \/ Work(t) \/ SyncThrow(t) \/ SyncUnreadable(t)
        \/ \E s \in Scans, n \in 1..(MaxRetries - 1) : Elapse(s, n)
        \/ Kill
        \/ Clear
        \/ CountUnreadable

Spec == Init /\ [][Next]_vars

(***************************************************************************)
(* A scan and a sync that have started go on (every await of them has a    *)
(* time-out), time passes, and the 30 s timer starts a foreground sync     *)
(* again and again: setInterval ticks for as long as there is a session.   *)
(* Nothing is assumed of the background task starting, or of any answer.   *)
(***************************************************************************)
Fairness ==
  /\ \A s \in Scans : WF_vars(EnqueueRead(s) \/ EnqueueWrite(s))
  /\ \A t \in Tasks : WF_vars(Work(t))
  /\ \A t \in Foreground : SF_vars(Begin(t))
  /\ \A s \in Scans, n \in 1..(MaxRetries - 1) : WF_vars(Elapse(s, n))

FairSpec == Spec /\ Fairness

----------------------------------------------------------------------------
\* A queued scan whose outcome the app knows and has shown.
Settled(s) == told[s] \in Verdicts \/ s \in dropped \cup cleared

(***************************************************************************)
(* A scan shown as queued is in the stored queue until the API has given a *)
(* verdict on it, its retries are used up or the usher cleared it, through *)
(* kills, lost answers and failing writes.  It disappears in two ways      *)
(* only: a write of the queue undid another one (no lock covers the        *)
(* read-modify-write, App.tsx:776,1021), or the stored queue could not be  *)
(* read and was deleted for that (App.tsx:659).                            *)
(***************************************************************************)
LossOnlyByOverwriteOrDiscard ==
  ~stale => \A s \in Scans :
              told[s] = "QUEUED" => s \in InQueue(store) \/ Settled(s) \/ s \in lost

(***************************************************************************)
(* sprint-phase-6-validation-checklist.md:105: a scan is dropped only      *)
(* after the configured retry limit - it was really sent that often, no    *)
(* matter how many syncs overlap and write each other's counts back.       *)
(***************************************************************************)
DroppedWasTried == \A s \in dropped : sends[s] >= MaxRetries

(***************************************************************************)
(* The flag is never left set: when it is, a foreground sync is under way  *)
(* and will reset it.  Otherwise no foreground sync would run until the    *)
(* app restarts.                                                           *)
(***************************************************************************)
FlagIsHeld == syncing => \E t \in Foreground : at[t] \in {"loop", "release"}

(***************************************************************************)
(* sprint-phase-6-validation-checklist.md:87: the queue drains.  However   *)
(* the API answers, overlapping syncs do not bring items back for ever.    *)
(***************************************************************************)
QueueDrains == <>[](store = <<>>)

(***************************************************************************)
(* sprint-phase-6-mobile-scanner-offline-sync.md:68: "Offline scans        *)
(* persist and sync without data loss."                                    *)
(***************************************************************************)
NoDataLoss ==
  \A s \in Scans : told[s] = "QUEUED" => s \in InQueue(store) \/ Settled(s)
=============================================================================
