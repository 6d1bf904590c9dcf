------------------------- MODULE OfflineQueue_proofs ------------------------
(***************************************************************************)
(* Proofs about OfflineQueue, for any number of scans, syncs, retries and  *)
(* faults.                                                                 *)
(*                                                                         *)
(* Two facts carry them.  Every copy of the queue, stored or read, holds   *)
(* items of scans that have been queued, with counts no higher than what   *)
(* was really sent: copies only grow old, and sends only grow.  And a sync *)
(* at work still has each scan it has read, unless the scan is settled; so *)
(* when it replaces nothing but what it has read, nothing is lost.         *)
(***************************************************************************)
EXTENDS OfflineQueue, TLAPS

GoodItem(i) == at[i.scan] = "done" /\ i.attempts <= sends[i.scan]

Good(q) == q \in Seq(Items) /\ \A n \in 1..Len(q) : GoodItem(q[n])

GoodCopies == /\ Good(store)
              /\ \A p \in Scans \cup Tasks : Good(base[p])
              /\ \A t \in Tasks : Good(todo[t]) /\ Good(kept[t])

Worked(t) ==
  at[t] = "loop" =>
    \A s \in InQueue(base[t]) : s \in InQueue(todo[t]) \cup InQueue(kept[t]) \/ Settled(s)

Inv == /\ TypeOK
       /\ GoodCopies
       /\ DroppedWasTried
       /\ FlagIsHeld
       /\ \A t \in Tasks : Worked(t)
       /\ LossOnlyByOverwriteOrDiscard

----------------------------------------------------------------------------
\* What the queue of items looks like after a sync or a scan has edited it.
LEMMA AppendItem ==
  ASSUME NEW q \in Seq(Items), NEW i \in Items
  PROVE  /\ Append(q, i) \in Seq(Items)
         /\ InQueue(Append(q, i)) = InQueue(q) \cup {i.scan}
         /\ \A n \in 1..Len(Append(q, i)) : Append(q, i)[n] = i \/ \E m \in 1..Len(q) : Append(q, i)[n] = q[m]
<1>1. /\ Append(q, i) \in Seq(Items) /\ Len(Append(q, i)) = Len(q) + 1
      /\ \A n \in 1..Len(q) : Append(q, i)[n] = q[n]
      /\ Append(q, i)[Len(q) + 1] = i /\ Len(q) \in Nat
  OBVIOUS
<1>2. 1..Len(Append(q, i)) = (1..Len(q)) \cup {Len(q) + 1}
  BY <1>1
<1> QED
  BY <1>1, <1>2 DEF InQueue

LEMMA HeadTail ==
  ASSUME NEW q \in Seq(Items), q # <<>>
  PROVE  /\ Head(q) \in Items /\ Tail(q) \in Seq(Items)
         /\ InQueue(q) = InQueue(Tail(q)) \cup {Head(q).scan}
         /\ \E m \in 1..Len(q) : Head(q) = q[m]
         /\ \A n \in 1..Len(Tail(q)) : \E m \in 1..Len(q) : Tail(q)[n] = q[m]
<1>1. /\ Tail(q) \in Seq(Items) /\ Len(Tail(q)) = Len(q) - 1 /\ Len(q) \in Nat \ {0}
      /\ Head(q) = q[1]
      /\ \A n \in 1..Len(Tail(q)) : Tail(q)[n] = q[n + 1]
  OBVIOUS
<1>2. Head(q) \in Items
  BY <1>1
<1>3. ASSUME NEW n \in 1..Len(Tail(q)) PROVE n + 1 \in 1..Len(q)
  BY <1>1
<1>4. ASSUME NEW m \in 1..Len(q) PROVE m = 1 \/ (m - 1 \in 1..Len(Tail(q)) /\ q[m] = Tail(q)[m - 1])
  BY <1>1
<1>5. InQueue(q) \subseteq InQueue(Tail(q)) \cup {Head(q).scan}
  BY <1>1, <1>4 DEF InQueue
<1>6. InQueue(Tail(q)) \cup {Head(q).scan} \subseteq InQueue(q)
  <2>1. 1 \in 1..Len(q)
    BY <1>1
  <2> QED
    BY <1>1, <1>3, <2>1 DEF InQueue
<1> QED
  BY <1>1, <1>2, <1>3, <1>5, <1>6

LEMMA EmptyQueue == <<>> \in Seq(Items) /\ InQueue(<<>>) = {} /\ Good(<<>>)
  BY DEF InQueue, Good

LEMMA Scanned == ASSUME NEW q \in Seq(Items) PROVE InQueue(q) \subseteq Scans
<1>1. \A n \in 1..Len(q) : q[n] \in Items
  OBVIOUS
<1> QED
  BY <1>1 DEF InQueue, Items

LEMMA GoodTail ==
  ASSUME NEW q, Good(q), q # <<>>
  PROVE  Head(q) \in Items /\ GoodItem(Head(q))
  BY HeadTail DEF Good

----------------------------------------------------------------------------
(***************************************************************************)
(* An item that is good stays good, and so does every copy that is edited  *)
(* with good items.                                                        *)
(***************************************************************************)
GoodItemAfter(i) == at'[i.scan] = "done" /\ i.attempts <= sends'[i.scan]

GoodAfter(q) == q \in Seq(Items) /\ \A n \in 1..Len(q) : GoodItemAfter(q[n])

LEMMA CopiesAfter ==
  /\ GoodAfter(store')
  /\ \A p \in Scans \cup Tasks : GoodAfter(base'[p])
  /\ \A t \in Tasks : GoodAfter(todo'[t]) /\ GoodAfter(kept'[t])
  => GoodCopies'
  BY DEF GoodCopies, Good, GoodAfter, GoodItem, GoodItemAfter

LEMMA AfterEdit ==
  ASSUME NEW q, GoodAfter(q)
  PROVE  /\ GoodAfter(<<>>)
         /\ q # <<>> => GoodAfter(Tail(q))
         /\ \A i \in Items : GoodItemAfter(i) => GoodAfter(Append(q, i))
<1>1. GoodAfter(<<>>)
  BY DEF GoodAfter
<1>2. q # <<>> => GoodAfter(Tail(q))
  BY HeadTail DEF GoodAfter
<1>3. ASSUME NEW i \in Items, GoodItemAfter(i) PROVE GoodAfter(Append(q, i))
  BY <1>3, AppendItem DEF GoodAfter
<1> QED
  BY <1>1, <1>2, <1>3

LEMMA SendsGrow ==
  ASSUME TypeOK, [Next]_vars
  PROVE  /\ sends' \in [Scans -> 0..MaxRetries]
         /\ \A s \in Scans : sends[s] <= sends'[s]
<1>1. sends' = sends \/ \E t \in Tasks : AtItem(t) /\ Sent(Item(t).scan)
  BY DEF Next, ScanStep, Work, SubmitAnswered, SubmitUnanswered, EnqueueRead, EnqueueWrite,
         EnqueueThrow, Begin, Wake, SyncRead, BackgroundRead, ReadQueue, Defer, SendAnswered,
         SendUnanswered, SyncWrite,
         Release, SyncThrow, Elapse, Kill, Clear, EnqueueUnreadable, SyncUnreadable,
         CountUnreadable, Discard, vars, api
<1>2. ASSUME NEW s, Sent(s) PROVE /\ sends' \in [Scans -> 0..MaxRetries]
                                  /\ \A r \in Scans : sends[r] <= sends'[r]
  <2>1. MaxRetries \in Nat /\ \A r \in Scans : sends[r] \in 0..MaxRetries
    BY RetriesAssumption DEF TypeOK
  <2>2. sends' = [r \in Scans |->
                    IF r = s THEN IF sends[s] < MaxRetries THEN sends[s] + 1 ELSE sends[s]
                    ELSE sends[r]]
    BY <1>2 DEF Sent, TypeOK
  <2> QED
    BY <2>1, <2>2
<1>3. \A s \in Scans : sends[s] <= sends[s]
  BY RetriesAssumption DEF TypeOK
<1> QED
  BY <1>1, <1>2, <1>3 DEF TypeOK

LEMMA DoneStays ==
  ASSUME TypeOK, [Next]_vars, NEW s \in Scans, at[s] = "done"
  PROVE  at'[s] = "done"
  BY TasksAssumption
  DEF TypeOK, Next, ScanStep, Work, SubmitAnswered, SubmitUnanswered, EnqueueRead, EnqueueWrite,
      EnqueueThrow, Begin, Wake, SyncRead, BackgroundRead, ReadQueue, Defer, SendAnswered,
      SendUnanswered, SyncWrite, AtItem,
      Release, SyncThrow, Elapse, Kill, Clear, EnqueueUnreadable, SyncUnreadable,
      CountUnreadable, Discard, vars, local, Goto, Tasks

LEMMA StaysGood ==
  ASSUME TypeOK, [Next]_vars, NEW q, Good(q)
  PROVE  GoodAfter(q)
<1>1. ASSUME NEW i \in Items, GoodItem(i) PROVE GoodItemAfter(i)
  <2>1. i.scan \in Scans /\ i.attempts \in Nat
    BY RetriesAssumption DEF Items
  <2>2. sends[i.scan] \in Nat /\ sends'[i.scan] \in Nat /\ sends[i.scan] <= sends'[i.scan]
    BY <2>1, SendsGrow, RetriesAssumption DEF TypeOK
  <2> QED
    BY <1>1, <2>1, <2>2, DoneStays DEF GoodItem, GoodItemAfter
<1>2. \A n \in 1..Len(q) : q[n] \in Items
  BY DEF Good
<1> QED
  BY <1>1, <1>2 DEF Good, GoodAfter

----------------------------------------------------------------------------
(***************************************************************************)
(* Every step keeps the shape of the state and the goodness of the copies. *)
(***************************************************************************)
Shape == TypeOK /\ GoodCopies

\* The item a sync has before it, and what becomes of its count.
LEMMA ItemAhead ==
  ASSUME Shape, NEW t \in Tasks, AtItem(t)
  PROVE  /\ Item(t) \in Items /\ GoodItem(Item(t))
         /\ Item(t).scan \in Scans /\ at[Item(t).scan] = "done"
         /\ Item(t).scan # t
<1>1. Item(t) \in Items /\ GoodItem(Item(t))
  BY GoodTail DEF Shape, GoodCopies, AtItem, Item
<1> QED
  BY <1>1, TasksAssumption DEF Items, GoodItem, Tasks

\* A retried item is an item, as long as its count is below the limit.
LEMMA RetriedItem ==
  ASSUME NEW i \in Items, i.attempts + 1 < MaxRetries
  PROVE  /\ i.attempts \in Nat /\ Retried(i) \in Items
         /\ Retried(i).scan = i.scan /\ Retried(i).attempts = i.attempts + 1
<1>1. i = [scan |-> i.scan, attempts |-> i.attempts] /\ i.attempts \in 0..(MaxRetries - 1)
  BY DEF Items
<1>2. i.attempts + 1 \in 0..(MaxRetries - 1)
  BY <1>1, RetriesAssumption
<1> QED
  BY <1>1, <1>2, RetriesAssumption DEF Retried, Items

LEMMA ShapeFrom ==
  ASSUME Shape, [Next]_vars,
         GoodAfter(store'),
         base' \in [Scans \cup Tasks -> Seq(Items)],
         todo' \in [Tasks -> Seq(Items)], kept' \in [Tasks -> Seq(Items)],
         \A p \in Scans \cup Tasks : GoodAfter(base'[p]),
         \A t \in Tasks : GoodAfter(todo'[t]) /\ GoodAfter(kept'[t]),
         at' \in [Scans \cup Tasks -> {"idle", "read", "write", "loop", "release", "done", "gone"}],
         syncing' \in BOOLEAN, elapsed' \subseteq Scans \X (1..(MaxRetries - 1)),
         row' \in [Scans -> {"none", "online", "queued"}],
         told' \in [Scans -> Verdicts \cup {"nothing", "QUEUED"}],
         dropped' \subseteq Scans, cleared' \subseteq Scans, lost' \subseteq Scans,
         stale' \in BOOLEAN, faults' \in 0..MaxFaults
  PROVE  Shape'
<1>1. sends' \in [Scans -> 0..MaxRetries]
  BY SendsGrow DEF Shape
<1>2. store' \in Seq(Items)
  BY DEF GoodAfter
<1> QED
  BY <1>1, <1>2, CopiesAfter DEF Shape, TypeOK

\* The copies as they were are still good.
LEMMA OldCopies ==
  ASSUME Shape, [Next]_vars
  PROVE  /\ GoodAfter(store) /\ GoodAfter(<<>>)
         /\ \A p \in Scans \cup Tasks : GoodAfter(base[p])
         /\ \A t \in Tasks : GoodAfter(todo[t]) /\ GoodAfter(kept[t])
  BY StaysGood, AfterEdit DEF Shape, GoodCopies

LEMMA ServedTyped ==
  ASSUME TypeOK, NEW s \in Scans, NEW key \in {"online", "queued"}
  PROVE  /\ Answered(s, key) => /\ told' \in [Scans -> Verdicts \cup {"nothing", "QUEUED"}]
                                /\ row' \in [Scans -> {"none", "online", "queued"}]
                                /\ told'[s] \in Verdicts
                                /\ \A r \in Scans \ {s} : told'[r] = told[r]
         /\ Unanswered(s, key) => row' \in [Scans -> {"none", "online", "queued"}]
<1>1. ASSUME NEW a \in Served(s, key) PROVE a[1] \in Verdicts /\ a[2] \in {"none", "online", "queued"}
  BY <1>1 DEF Served, Verdicts, TypeOK
<1> QED
  BY <1>1 DEF Answered, Unanswered, TypeOK

LEMMA ScanShape ==
  ASSUME Shape, [Next]_vars, NEW s \in Scans, ScanStep(s) \/ EnqueueThrow(s)
  PROVE  Shape'
<1> USE DEF Goto, Forget, fate, local, api
<1>1. /\ UNCHANGED <<todo, kept, syncing, elapsed, dropped, cleared, lost>>
      /\ faults' \in 0..MaxFaults
      /\ at' \in [Scans \cup Tasks -> {"idle", "read", "write", "loop", "release", "done", "gone"}]
  <2>1. /\ UNCHANGED <<todo, kept, syncing, elapsed, dropped, cleared, lost>>
        /\ faults' = faults \/ Fault
        /\ \E step \in {"read", "write", "done", "gone"} : Goto(s, step)
    BY DEF ScanStep, SubmitAnswered, SubmitUnanswered, EnqueueRead, EnqueueWrite, EnqueueThrow
  <2>2. faults' \in 0..MaxFaults
    BY <2>1, FaultsAssumption DEF Shape, TypeOK, Fault
  <2> QED
    BY <2>1, <2>2 DEF Shape, TypeOK
<1>2. CASE SubmitAnswered(s) \/ SubmitUnanswered(s) \/ EnqueueRead(s) \/ EnqueueThrow(s)
  <2>1. base' \in [Scans \cup Tasks -> Seq(Items)] /\ \A p \in Scans \cup Tasks : GoodAfter(base'[p])
    <3>1. base' = base \/ \E q \in {store, <<>>} : base' = [base EXCEPT ![s] = q]
      BY <1>2 DEF SubmitAnswered, SubmitUnanswered, EnqueueRead, EnqueueThrow
    <3>2. base \in [Scans \cup Tasks -> Seq(Items)] /\ store \in Seq(Items)
      BY DEF Shape, TypeOK
    <3> QED
      BY <3>1, <3>2, OldCopies, EmptyQueue
  <2>2. /\ row' \in [Scans -> {"none", "online", "queued"}]
        /\ told' \in [Scans -> Verdicts \cup {"nothing", "QUEUED"}]
    BY <1>2, ServedTyped
       DEF Shape, TypeOK, SubmitAnswered, SubmitUnanswered, EnqueueRead, EnqueueThrow
  <2>3. UNCHANGED <<store, stale>>
    BY <1>2 DEF SubmitAnswered, SubmitUnanswered, EnqueueRead, EnqueueThrow
  <2> QED
    BY <1>1, <2>1, <2>2, <2>3, OldCopies, ShapeFrom DEF Shape, TypeOK
<1>3. CASE EnqueueWrite(s)
  <2> DEFINE new == [scan |-> s, attempts |-> 0]
  <2>1. new \in Items /\ GoodItemAfter(new)
    <3>1. at'[s] = "done" /\ sends'[s] = sends[s] /\ sends[s] \in Nat
      BY <1>3, RetriesAssumption DEF EnqueueWrite, Shape, TypeOK
    <3> QED
      BY <3>1, RetriesAssumption DEF Items, GoodItemAfter
  <2>2. GoodAfter(store')
    BY <1>3, <2>1, OldCopies, AfterEdit DEF EnqueueWrite, Overwrite
  <2>3. base' \in [Scans \cup Tasks -> Seq(Items)] /\ \A p \in Scans \cup Tasks : GoodAfter(base'[p])
    BY <1>3, OldCopies, EmptyQueue DEF Shape, TypeOK, EnqueueWrite
  <2>4. /\ row' = row /\ stale' \in BOOLEAN
        /\ told' \in [Scans -> Verdicts \cup {"nothing", "QUEUED"}]
    BY <1>3 DEF EnqueueWrite, Overwrite, Shape, TypeOK
  <2> QED
    BY <1>1, <2>2, <2>3, <2>4, OldCopies, ShapeFrom DEF Shape, TypeOK
<1> QED
  BY <1>2, <1>3 DEF ScanStep

LEMMA TaskShape ==
  ASSUME Shape, [Next]_vars, NEW t \in Tasks, Begin(t) \/ Wake(t) \/ Work(t) \/ SyncThrow(t)
  PROVE  Shape'
<1> USE DEF Goto, Forget, ForgetAll, fate, local, api, Keep, NextItem
<1>1. /\ elapsed' \subseteq Scans \X (1..(MaxRetries - 1)) /\ syncing' \in BOOLEAN /\ stale' \in BOOLEAN
      /\ faults' \in 0..MaxFaults
      /\ at' \in [Scans \cup Tasks -> {"idle", "read", "write", "loop", "release", "done", "gone"}]
  <2>1. /\ elapsed' = elapsed
        /\ faults' = faults \/ Fault
        /\ UNCHANGED at \/ \E step \in {"idle", "read", "loop", "release"} : Goto(t, step)
        /\ UNCHANGED syncing \/ syncing' = FALSE \/ syncing' = (syncing \/ t \in Foreground)
        /\ UNCHANGED stale \/ stale' = (stale \/ store # base[t])
    BY DEF Begin, Wake, Work, SyncRead, BackgroundRead, ReadQueue, Defer, SendAnswered,
           SendUnanswered, SyncWrite, Release,
           SyncThrow, Overwrite
  <2>2. faults' \in 0..MaxFaults
    BY <2>1, FaultsAssumption DEF Shape, TypeOK, Fault
  <2> QED
    BY <2>1, <2>2 DEF Shape, TypeOK
<1>2. GoodAfter(store')
  BY OldCopies DEF Begin, Wake, Work, SyncRead, BackgroundRead, ReadQueue, Defer, SendAnswered,
                   SendUnanswered, SyncWrite, Release,
                   SyncThrow, Overwrite
<1>3. /\ base' \in [Scans \cup Tasks -> Seq(Items)]
      /\ \A p \in Scans \cup Tasks : GoodAfter(base'[p])
  <2>1. base' = base \/ \E q \in {store, <<>>} : base' = [base EXCEPT ![t] = q]
    BY DEF Begin, Wake, Work, SyncRead, BackgroundRead, ReadQueue, Defer, SendAnswered,
           SendUnanswered, SyncWrite, Release,
           SyncThrow
  <2>2. base \in [Scans \cup Tasks -> Seq(Items)] /\ store \in Seq(Items)
    BY DEF Shape, TypeOK
  <2> QED
    BY <2>1, <2>2, OldCopies, EmptyQueue
<1>4. /\ todo' \in [Tasks -> Seq(Items)]
      /\ \A u \in Tasks : GoodAfter(todo'[u])
  <2>1. \/ todo' = todo \/ \E q \in {store, <<>>} : todo' = [todo EXCEPT ![t] = q]
        \/ AtItem(t) /\ todo' = [todo EXCEPT ![t] = Tail(todo[t])]
    BY DEF Begin, Wake, Work, SyncRead, BackgroundRead, ReadQueue, Defer, SendAnswered,
           SendUnanswered, SyncWrite, Release,
           SyncThrow
  <2>2. todo \in [Tasks -> Seq(Items)] /\ store \in Seq(Items)
    BY DEF Shape, TypeOK
  <2>3. AtItem(t) => Tail(todo[t]) \in Seq(Items) /\ GoodAfter(Tail(todo[t]))
    BY <2>2, HeadTail, OldCopies, AfterEdit DEF AtItem
  <2> QED
    BY <2>1, <2>2, <2>3, OldCopies, EmptyQueue
<1>5. /\ kept' \in [Tasks -> Seq(Items)]
      /\ \A u \in Tasks : GoodAfter(kept'[u])
  <2>1. \/ kept' = kept
        \/ kept' = [kept EXCEPT ![t] = <<>>]
        \/ AtItem(t) /\ kept' = [kept EXCEPT ![t] = Append(kept[t], Item(t))]
        \/ /\ AtItem(t) /\ kept' = [kept EXCEPT ![t] = Append(kept[t], Retried(Item(t)))]
           /\ Item(t).attempts + 1 < MaxRetries /\ Sent(Item(t).scan) /\ at' = at
    BY DEF Begin, Wake, Work, SyncRead, BackgroundRead, ReadQueue, Defer, SendAnswered,
           SendUnanswered, SyncWrite, Release,
           SyncThrow, RetryOrDrop
  <2>2. kept \in [Tasks -> Seq(Items)]
    BY DEF Shape, TypeOK
  <2>3. ASSUME NEW i \in Items, GoodItemAfter(i)
        PROVE  Append(kept[t], i) \in Seq(Items) /\ GoodAfter(Append(kept[t], i))
    BY <2>2, <2>3, AppendItem, OldCopies, AfterEdit
  <2>4. AtItem(t) => Item(t) \in Items /\ GoodItemAfter(Item(t))
    <3>1. AtItem(t) => Item(t) = todo[t][1] /\ 1 \in 1..Len(todo[t]) /\ todo[t] \in Seq(Items)
      BY DEF Shape, TypeOK, AtItem, Item
    <3> QED
      BY <3>1, ItemAhead, OldCopies DEF GoodAfter
  <2>5. /\ AtItem(t) /\ Item(t).attempts + 1 < MaxRetries /\ Sent(Item(t).scan) /\ at' = at
        => Retried(Item(t)) \in Items /\ GoodItemAfter(Retried(Item(t)))
    <3> SUFFICES ASSUME AtItem(t), Item(t).attempts + 1 < MaxRetries, Sent(Item(t).scan), at' = at
                 PROVE  Retried(Item(t)) \in Items /\ GoodItemAfter(Retried(Item(t)))
      OBVIOUS
    <3> DEFINE i == Item(t)
    <3>1. /\ i \in Items /\ i.scan \in Scans /\ at[i.scan] = "done" /\ i.attempts <= sends[i.scan]
          /\ i.attempts + 1 < MaxRetries
      BY ItemAhead DEF GoodItem
    <3>2. /\ i.attempts \in Nat /\ Retried(i) \in Items
          /\ Retried(i).scan = i.scan /\ Retried(i).attempts = i.attempts + 1
      BY <3>1, RetriedItem
    <3>3. sends[i.scan] \in 0..MaxRetries
      BY <3>1 DEF Shape, TypeOK
    <3>4. sends'[i.scan] = IF sends[i.scan] < MaxRetries THEN sends[i.scan] + 1 ELSE sends[i.scan]
      BY <3>1 DEF Sent, Shape, TypeOK
    <3> HIDE DEF i
    <3>5. i.attempts + 1 <= sends'[i.scan]
      BY <3>1, <3>2, <3>3, <3>4, RetriesAssumption
    <3>6. at'[i.scan] = "done"
      BY <3>1
    <3> QED
      BY <3>2, <3>5, <3>6 DEF GoodItemAfter, i
  <2> QED
    BY <2>1, <2>2, <2>3, <2>4, <2>5, OldCopies, EmptyQueue
<1>6. /\ row' \in [Scans -> {"none", "online", "queued"}]
      /\ told' \in [Scans -> Verdicts \cup {"nothing", "QUEUED"}]
      /\ dropped' \subseteq Scans /\ cleared' \subseteq Scans
  BY ItemAhead, ServedTyped
     DEF Shape, TypeOK, Begin, Wake, Work, SyncRead, BackgroundRead, ReadQueue, Defer,
         SendAnswered, SendUnanswered, SyncWrite,
         Release, SyncThrow, RetryOrDrop
<1>8. UNCHANGED lost
  BY DEF Begin, Wake, Work, SyncRead, BackgroundRead, ReadQueue, Defer, SendAnswered,
         SendUnanswered, SyncWrite, Release, SyncThrow, RetryOrDrop
<1> HIDE DEF Goto, Forget, ForgetAll, fate, local, api, Keep, NextItem
<1>7. \A u \in Tasks : GoodAfter(todo'[u]) /\ GoodAfter(kept'[u])
  BY <1>4, <1>5
<1> QED
  BY <1>1, <1>2, <1>3, <1>4, <1>5, <1>6, <1>7, <1>8, ShapeFrom DEF Shape, TypeOK

\* The fates of the app itself and of its clock.
LEMMA ShapeStep ==
  ASSUME Shape, [Next]_vars
  PROVE  Shape'
<1> USE DEF fate, local, api
<1>1. CASE UNCHANGED vars
  BY <1>1, OldCopies, ShapeFrom DEF vars, Shape, TypeOK
<1>2. CASE \E s \in Scans, n \in 1..(MaxRetries - 1) : Elapse(s, n)
  <2>1. elapsed' \subseteq Scans \X (1..(MaxRetries - 1))
    BY <1>2 DEF Elapse, Shape, TypeOK
  <2>2. UNCHANGED <<store, at, base, todo, kept, syncing, row, told, sends, dropped, cleared,
                    lost, stale, faults>>
    BY <1>2 DEF Elapse
  <2> QED
    BY <2>1, <2>2, OldCopies, ShapeFrom DEF Shape, TypeOK
<1>3. CASE Clear
  <2>1. cleared' \subseteq Scans /\ faults' \in 0..MaxFaults
    BY <1>3, Scanned, FaultsAssumption DEF Clear, Fault, Shape, TypeOK
  <2>2. /\ store' = <<>>
        /\ UNCHANGED <<at, base, todo, kept, syncing, elapsed, row, told, sends, dropped, lost, stale>>
    BY <1>3 DEF Clear
  <2>3. GoodAfter(store')
    BY <2>2, OldCopies
  <2> QED
    BY <2>1, <2>2, <2>3, OldCopies, ShapeFrom DEF Shape, TypeOK
<1>4. CASE Kill
  <2>1. /\ at' \in [Scans \cup Tasks -> {"idle", "read", "write", "loop", "release", "done", "gone"}]
        /\ faults' \in 0..MaxFaults
    BY <1>4, FaultsAssumption DEF Kill, Fault, Shape, TypeOK
  <2>2. /\ base' \in [Scans \cup Tasks -> Seq(Items)]
        /\ todo' \in [Tasks -> Seq(Items)] /\ kept' \in [Tasks -> Seq(Items)]
        /\ \A p \in Scans \cup Tasks : GoodAfter(base'[p])
        /\ \A t \in Tasks : GoodAfter(todo'[t]) /\ GoodAfter(kept'[t])
    BY <1>4, OldCopies, EmptyQueue DEF Kill
  <2> QED
    BY <1>4, <2>1, <2>2, OldCopies, ShapeFrom DEF Kill, Shape, TypeOK
<1>5. ASSUME Discard,
             UNCHANGED at \/ \E p \in Scans \cup Tasks, step \in {"write", "idle"} : Goto(p, step),
             UNCHANGED base \/ \E p \in Scans \cup Tasks : Forget(p)
      PROVE  Shape'
  <2>1. lost' \subseteq Scans /\ faults' \in 0..MaxFaults
    BY <1>5, Scanned, FaultsAssumption DEF Discard, Fault, Shape, TypeOK
  <2>2. /\ store' = <<>>
        /\ UNCHANGED <<todo, kept, syncing, elapsed, row, told, sends, dropped, cleared, stale>>
    BY <1>5 DEF Discard
  <2>3. at' \in [Scans \cup Tasks -> {"idle", "read", "write", "loop", "release", "done", "gone"}]
    BY <1>5 DEF Goto, Shape, TypeOK
  <2>4. base' \in [Scans \cup Tasks -> Seq(Items)] /\ \A p \in Scans \cup Tasks : GoodAfter(base'[p])
    BY <1>5, OldCopies, EmptyQueue DEF Forget, Shape, TypeOK
  <2> QED
    BY <2>1, <2>2, <2>3, <2>4, OldCopies, ShapeFrom DEF Shape, TypeOK
<1>6. ASSUME CountUnreadable \/ (\E s \in Scans : EnqueueUnreadable(s))
             \/ (\E t \in Tasks : SyncUnreadable(t))
      PROVE  Shape'
  BY <1>5, <1>6 DEF CountUnreadable, EnqueueUnreadable, SyncUnreadable
<1> QED
  BY <1>1, <1>2, <1>3, <1>4, <1>6, ScanShape, TaskShape DEF Next

----------------------------------------------------------------------------
\* A scan is given up on its last attempt, which was really made.
LEMMA DroppedStep ==
  ASSUME Shape, DroppedWasTried, [Next]_vars
  PROVE  DroppedWasTried'
<1>1. \A s \in dropped : s \in Scans /\ sends'[s] >= MaxRetries
  BY SendsGrow, RetriesAssumption DEF Shape, TypeOK, DroppedWasTried
<1>2. \/ dropped' = dropped
      \/ \E t \in Tasks : /\ AtItem(t) /\ Sent(Item(t).scan)
                          /\ ~(Item(t).attempts + 1 < MaxRetries)
                          /\ dropped' = dropped \cup {Item(t).scan}
  BY DEF Next, ScanStep, Work, SubmitAnswered, SubmitUnanswered, EnqueueRead, EnqueueWrite,
         EnqueueThrow, Begin, Wake, SyncRead, BackgroundRead, ReadQueue, Defer, SendAnswered,
         SendUnanswered, SyncWrite,
         Release, SyncThrow, Elapse, Kill, Clear, EnqueueUnreadable, SyncUnreadable,
         CountUnreadable, Discard, vars, fate, RetryOrDrop
<1>3. ASSUME NEW t \in Tasks, AtItem(t), Sent(Item(t).scan),
             ~(Item(t).attempts + 1 < MaxRetries)
      PROVE  sends'[Item(t).scan] >= MaxRetries
  <2> DEFINE i == Item(t)
  <2>1. i.scan \in Scans /\ i.attempts <= sends[i.scan] /\ i \in Items
    BY <1>3, ItemAhead DEF GoodItem
  <2>2. i.attempts \in 0..(MaxRetries - 1) /\ sends[i.scan] \in 0..MaxRetries
    BY <2>1 DEF Items, Shape, TypeOK
  <2>3. sends'[i.scan] = IF sends[i.scan] < MaxRetries THEN sends[i.scan] + 1 ELSE sends[i.scan]
    BY <1>3, <2>1 DEF Sent, Shape, TypeOK
  <2>4. ~(i.attempts + 1 < MaxRetries)
    BY <1>3
  <2> HIDE DEF i
  <2>5. sends'[i.scan] >= MaxRetries
    BY <2>1, <2>2, <2>3, <2>4, RetriesAssumption
  <2> QED
    BY <2>5 DEF i
<1> QED
  BY <1>1, <1>2, <1>3 DEF DroppedWasTried

\* Whoever has set the flag is at work, or on its way to reset it.
LEMMA FlagStep ==
  ASSUME Shape, FlagIsHeld, [Next]_vars
  PROVE  FlagIsHeld'
<1> USE DEF Shape, TypeOK, FlagIsHeld, Goto, local, Tasks
<1>1. ASSUME NEW s \in Scans, ScanStep(s) \/ EnqueueThrow(s) PROVE FlagIsHeld'
  BY <1>1, TasksAssumption
     DEF ScanStep, SubmitAnswered, SubmitUnanswered, EnqueueRead, EnqueueWrite, EnqueueThrow
<1>2. ASSUME NEW t \in Tasks, Begin(t) \/ Wake(t) \/ SyncRead(t) \/ BackgroundRead(t) PROVE FlagIsHeld'
  BY <1>2 DEF Begin, Wake, SyncRead, BackgroundRead, ReadQueue
<1>3. ASSUME NEW t \in Tasks, SyncWrite(t) \/ Release(t) \/ SyncThrow(t) PROVE FlagIsHeld'
  BY <1>3, TasksAssumption DEF SyncWrite, Release, SyncThrow
<1>4. CASE UNCHANGED <<at, syncing>>
  BY <1>4
<1>5. CASE Kill
  BY <1>5 DEF Kill
<1>6. ASSUME NEW t \in Tasks, Defer(t) \/ SendAnswered(t) \/ SendUnanswered(t)
      PROVE  UNCHANGED <<at, syncing>>
  BY <1>6 DEF Defer, SendAnswered, SendUnanswered
<1>7. ASSUME NEW s \in Scans, EnqueueUnreadable(s) PROVE FlagIsHeld'
  BY <1>7, TasksAssumption DEF EnqueueUnreadable, Discard
<1>8. ASSUME NEW t \in Tasks, SyncUnreadable(t) PROVE FlagIsHeld'
  BY <1>8 DEF SyncUnreadable, Discard
<1> QED
  BY <1>1, <1>2, <1>3, <1>4, <1>5, <1>6, <1>7, <1>8
     DEF Next, Work, Elapse, Clear, CountUnreadable, Discard, vars

(***************************************************************************)
(* Once queued, a scan that is settled stays settled: its verdict may be   *)
(* overwritten by another one only.                                        *)
(***************************************************************************)
LEMMA SettledStays ==
  ASSUME Shape, [Next]_vars, NEW s \in Scans, Settled(s),
         at[s] = "done" \/ (told[s] = "QUEUED" /\ told'[s] = "QUEUED")
  PROVE  Settled(s)'
<1>1. dropped \subseteq dropped' /\ cleared \subseteq cleared'
  BY DEF Next, ScanStep, Work, SubmitAnswered, SubmitUnanswered, EnqueueRead, EnqueueWrite,
         EnqueueThrow, Begin, Wake, SyncRead, BackgroundRead, ReadQueue, Defer, SendAnswered,
         SendUnanswered, SyncWrite,
         Release, SyncThrow, Elapse, Kill, Clear, EnqueueUnreadable, SyncUnreadable,
         CountUnreadable, Discard, vars, fate, RetryOrDrop
<1>2. \/ told' = told
      \/ \E r \in Scans, key \in {"online", "queued"} : Answered(r, key)
      \/ \E r \in Scans : at[r] = "write" /\ told' = [told EXCEPT ![r] = "QUEUED"]
  BY ItemAhead DEF Next, ScanStep, Work, SubmitAnswered, SubmitUnanswered, EnqueueRead,
                   EnqueueWrite,
         EnqueueThrow, Begin, Wake, SyncRead, BackgroundRead, ReadQueue, Defer, SendAnswered,
         SendUnanswered, SyncWrite,
         Release, SyncThrow, Elapse, Kill, Clear, EnqueueUnreadable, SyncUnreadable,
         CountUnreadable, Discard, vars, api
<1>3. ASSUME NEW r \in Scans, NEW key \in {"online", "queued"}, Answered(r, key)
      PROVE  told'[s] = told[s] \/ told'[s] \in Verdicts
  BY <1>3, ServedTyped DEF Shape
<1>4. told[s] \in Verdicts => told'[s] \in Verdicts
  BY <1>2, <1>3 DEF Shape, TypeOK, Verdicts
<1> QED
  BY <1>1, <1>4 DEF Settled

(***************************************************************************)
(* A sync at work: each scan it has read is ahead of it, kept, or settled. *)
(***************************************************************************)
LEMMA WorkedStep ==
  ASSUME Shape, [Next]_vars, NEW t \in Tasks, Worked(t)
  PROVE  Worked(t)'
<1>1. ASSUME NEW s \in InQueue(base[t]) PROVE s \in Scans /\ (Settled(s) => Settled(s)')
  <2>1. s \in Scans /\ at[s] = "done"
    <3>1. base[t] \in Seq(Items) /\ \A n \in 1..Len(base[t]) : at[base[t][n].scan] = "done"
      BY DEF Shape, GoodCopies, Good, GoodItem
    <3> QED
      BY <3>1, Scanned DEF InQueue
  <2> QED
    BY <2>1, SettledStays
<1>2. CASE UNCHANGED <<base[t], todo[t], kept[t]>> /\ (at'[t] = "loop" => at[t] = "loop")
  BY <1>1, <1>2 DEF Worked
<1>3. CASE at'[t] # "loop"
  BY <1>3 DEF Worked
<1>4. CASE SyncRead(t) \/ BackgroundRead(t)
  BY <1>4 DEF SyncRead, BackgroundRead, ReadQueue, Worked, Shape, TypeOK
<1>5. ASSUME AtItem(t), NEW i, i = Item(t)
      PROVE  /\ todo[t] \in Seq(Items) /\ kept[t] \in Seq(Items)
             /\ InQueue(todo[t]) = InQueue(Tail(todo[t])) \cup {i.scan}
             /\ \A j \in Items : InQueue(Append(kept[t], j)) = InQueue(kept[t]) \cup {j.scan}
             /\ i \in Items /\ i.scan \in Scans
  BY <1>5, HeadTail, AppendItem, ItemAhead DEF Shape, TypeOK, AtItem, Item
<1>6. CASE Defer(t)
  <2>1. PICK i : i = Item(t)
    OBVIOUS
  <2>2. /\ AtItem(t) /\ base'[t] = base[t] /\ at[t] = "loop"
        /\ todo'[t] = Tail(todo[t]) /\ kept'[t] = Append(kept[t], i)
    BY <1>6, <2>1 DEF Defer, AtItem, NextItem, Keep, Shape, TypeOK
  <2> QED
    BY <1>1, <1>5, <2>1, <2>2 DEF Worked
<1>7. CASE SendAnswered(t)
  <2>1. PICK i : i = Item(t)
    OBVIOUS
  <2>2. /\ AtItem(t) /\ base'[t] = base[t] /\ at[t] = "loop"
        /\ todo'[t] = Tail(todo[t]) /\ kept'[t] = kept[t]
        /\ Answered(i.scan, "queued")
    BY <1>7, <2>1 DEF SendAnswered, AtItem, NextItem, Shape, TypeOK
  <2>3. Settled(i.scan)'
    BY <1>5, <2>1, <2>2, ServedTyped DEF Settled, Shape
  <2> QED
    BY <1>1, <1>5, <2>1, <2>2, <2>3 DEF Worked
<1>8. CASE SendUnanswered(t)
  <2>1. PICK i : i = Item(t)
    OBVIOUS
  <2>2. /\ AtItem(t) /\ base'[t] = base[t] /\ at[t] = "loop"
        /\ todo'[t] = Tail(todo[t])
    BY <1>8 DEF SendUnanswered, AtItem, NextItem, Shape, TypeOK
  <2>3. \/ i.attempts + 1 < MaxRetries /\ kept'[t] = Append(kept[t], Retried(i))
        \/ kept'[t] = kept[t] /\ i.scan \in dropped'
    BY <1>8, <2>1 DEF SendUnanswered, RetryOrDrop, Keep, Shape, TypeOK
  <2>4. i.attempts + 1 < MaxRetries => Retried(i) \in Items /\ Retried(i).scan = i.scan
    BY <1>5, <2>1, <2>2, RetriedItem
  <2>5. i.scan \in dropped' => Settled(i.scan)'
    BY DEF Settled
  <2>6. i.scan \in InQueue(kept'[t]) \/ Settled(i.scan)'
    BY <1>5, <2>1, <2>2, <2>3, <2>4, <2>5
  <2>7. InQueue(kept[t]) \subseteq InQueue(kept'[t])
    BY <1>5, <2>1, <2>2, <2>3, <2>4
  <2> QED
    BY <1>1, <1>5, <2>1, <2>2, <2>6, <2>7 DEF Worked
<1>9. \/ SyncRead(t) \/ BackgroundRead(t) \/ Defer(t) \/ SendAnswered(t) \/ SendUnanswered(t)
      \/ at'[t] # "loop"
      \/ UNCHANGED <<base[t], todo[t], kept[t]>> /\ (at'[t] = "loop" => at[t] = "loop")
  <2> USE DEF Shape, TypeOK, Goto, Forget, ForgetAll, local
  <2>1. ASSUME NEW s \in Scans, ScanStep(s) \/ EnqueueThrow(s) \/ EnqueueUnreadable(s)
        PROVE  UNCHANGED <<base[t], todo[t], kept[t], at[t]>>
    BY <2>1, TasksAssumption
       DEF ScanStep, SubmitAnswered, SubmitUnanswered, EnqueueRead, EnqueueWrite, EnqueueThrow,
           EnqueueUnreadable, Discard, Tasks
  <2>2. ASSUME NEW u \in Tasks, u # t, Begin(u) \/ Wake(u) \/ Work(u) \/ SyncThrow(u) \/ SyncUnreadable(u)
        PROVE  UNCHANGED <<base[t], todo[t], kept[t], at[t]>>
    BY <2>2
       DEF Begin, Wake, Work, SyncRead, BackgroundRead, ReadQueue, Defer, SendAnswered,
           SendUnanswered, SyncWrite, Release, SyncThrow,
           AtItem, NextItem, Keep, RetryOrDrop, SyncUnreadable, Discard
  <2>3. CASE Begin(t) \/ Wake(t) \/ SyncWrite(t) \/ Release(t) \/ SyncThrow(t) \/ SyncUnreadable(t)
    BY <2>3 DEF Begin, Wake, SyncWrite, Release, SyncThrow, SyncUnreadable
  <2>4. CASE Kill
    BY <2>4 DEF Kill
  <2>5. CASE UNCHANGED local
    BY <2>5
  <2> QED
    BY <2>1, <2>2, <2>3, <2>4, <2>5 DEF Next, Work, Elapse, Clear, CountUnreadable, Discard, vars
<1> QED
  BY <1>2, <1>3, <1>4, <1>6, <1>7, <1>8, <1>9

(***************************************************************************)
(* Nobody loses a scan without undoing a write: who overwrites the queue   *)
(* with what it has read before it adds to it, or takes settled scans away.*)
(***************************************************************************)
LEMMA LossStep ==
  ASSUME Inv, [Next]_vars
  PROVE  LossOnlyByOverwriteOrDiscard'
<1> SUFFICES ASSUME ~stale', NEW s \in Scans, told'[s] = "QUEUED"
             PROVE  s \in InQueue(store') \/ Settled(s)' \/ s \in lost'
  BY DEF LossOnlyByOverwriteOrDiscard
<1> USE DEF Inv, Shape
<1>1. ~stale
  BY DEF Next, ScanStep, Work, SubmitAnswered, SubmitUnanswered, EnqueueRead, EnqueueWrite,
         EnqueueThrow, Begin, Wake, SyncRead, BackgroundRead, ReadQueue, Defer, SendAnswered,
         SendUnanswered, SyncWrite,
         Release, SyncThrow, Elapse, Kill, Clear, EnqueueUnreadable, SyncUnreadable,
         CountUnreadable, Discard, vars, Overwrite
<1>2. \/ told[s] = "QUEUED"
      \/ EnqueueWrite(s)
  <2>1. ASSUME NEW r \in Scans, NEW key \in {"online", "queued"}, Answered(r, key)
        PROVE  told'[s] = told[s]
    BY <2>1, ServedTyped DEF Verdicts
  <2>2. ASSUME NEW r \in Scans, EnqueueWrite(r), r # s PROVE told'[s] = told[s]
    BY <2>2 DEF EnqueueWrite, TypeOK
  <2> QED
    BY <2>1, <2>2, ItemAhead
       DEF Next, ScanStep, Work, SubmitAnswered, SubmitUnanswered, EnqueueRead,
           EnqueueThrow, Begin, Wake, SyncRead, BackgroundRead, ReadQueue, Defer, SendAnswered,
           SendUnanswered, SyncWrite,
           Release, SyncThrow, Elapse, Kill, Clear, EnqueueUnreadable, SyncUnreadable,
           CountUnreadable, Discard, vars, api
<1>3. CASE EnqueueWrite(s)
  <2>1. store' = Append(base[s], [scan |-> s, attempts |-> 0]) /\ base[s] \in Seq(Items)
    BY <1>3 DEF EnqueueWrite, Overwrite, TypeOK
  <2>2. [scan |-> s, attempts |-> 0] \in Items
    BY RetriesAssumption DEF Items
  <2> QED
    BY <2>1, <2>2, AppendItem
<1>4. CASE told[s] = "QUEUED"
  <2>1. s \in InQueue(store) \/ Settled(s) \/ s \in lost
    BY <1>1, <1>4 DEF LossOnlyByOverwriteOrDiscard
  <2>2. Settled(s) => Settled(s)'
    BY <1>4, SettledStays
  <2>7. lost \subseteq lost'
    BY DEF Next, ScanStep, Work, SubmitAnswered, SubmitUnanswered, EnqueueRead, EnqueueWrite,
           EnqueueThrow, Begin, Wake, SyncRead, BackgroundRead, ReadQueue, Defer, SendAnswered,
           SendUnanswered, SyncWrite, Release, SyncThrow, Elapse, Kill, Clear, EnqueueUnreadable,
           SyncUnreadable, CountUnreadable, Discard, vars, fate, RetryOrDrop
  <2> SUFFICES ASSUME s \in InQueue(store)
               PROVE  s \in InQueue(store') \/ Settled(s)' \/ s \in lost'
    BY <2>1, <2>2, <2>7
  <2>3. CASE store' = store
    BY <2>3
  <2>4. ASSUME NEW r \in Scans, EnqueueWrite(r) PROVE s \in InQueue(store')
    <3>1. store = base[r] /\ store' = Append(store, [scan |-> r, attempts |-> 0]) /\ store \in Seq(Items)
      BY <1>1, <2>4 DEF EnqueueWrite, Overwrite, TypeOK
    <3>2. [scan |-> r, attempts |-> 0] \in Items
      BY RetriesAssumption DEF Items
    <3> QED
      BY <3>1, <3>2, AppendItem
  <2>5. ASSUME NEW t \in Tasks, SyncWrite(t), store' # store PROVE s \in InQueue(store') \/ Settled(s)'
    <3>1. at[t] = "loop" /\ todo[t] = <<>> /\ store = base[t] /\ store' = kept[t]
      BY <1>1, <2>5 DEF SyncWrite, Overwrite
    <3> QED
      BY <2>2, <3>1, EmptyQueue DEF Worked
  <2>6. CASE Clear
    BY <2>6 DEF Clear, Settled
  <2>8. CASE Discard
    BY <2>8 DEF Discard
  <2> QED
    BY <2>3, <2>4, <2>5, <2>6, <2>8
       DEF Next, ScanStep, Work, SubmitAnswered, SubmitUnanswered, EnqueueRead,
           EnqueueThrow, Begin, Wake, SyncRead, BackgroundRead, ReadQueue, Defer, SendAnswered,
           SendUnanswered,
           Release, SyncThrow, Elapse, Kill, EnqueueUnreadable, SyncUnreadable, CountUnreadable,
           vars
<1> QED
  BY <1>2, <1>3, <1>4

----------------------------------------------------------------------------
LEMMA InvInit == Init => Inv
<1> SUFFICES ASSUME Init PROVE Inv
  OBVIOUS
<1>1. TypeOK
  <2>1. /\ store \in Seq(Items) /\ base \in [Scans \cup Tasks -> Seq(Items)]
        /\ todo \in [Tasks -> Seq(Items)] /\ kept \in [Tasks -> Seq(Items)]
    BY EmptyQueue DEF Init
  <2>2. /\ at \in [Scans \cup Tasks -> {"idle", "read", "write", "loop", "release", "done", "gone"}]
        /\ row \in [Scans -> {"none", "online", "queued"}]
        /\ told \in [Scans -> Verdicts \cup {"nothing", "QUEUED"}]
    BY DEF Init
  <2>3. sends \in [Scans -> 0..MaxRetries] /\ faults \in 0..MaxFaults
    BY FaultsAssumption, RetriesAssumption DEF Init
  <2>4. /\ syncing \in BOOLEAN /\ stale \in BOOLEAN
        /\ elapsed = {} /\ dropped = {} /\ cleared = {} /\ lost = {}
    BY DEF Init
  <2> QED
    BY <2>1, <2>2, <2>3, <2>4 DEF TypeOK
<1>2. GoodCopies
  BY EmptyQueue DEF Init, GoodCopies
<1>3. DroppedWasTried /\ FlagIsHeld /\ LossOnlyByOverwriteOrDiscard /\ \A t \in Tasks : Worked(t)
  BY DEF Init, DroppedWasTried, FlagIsHeld, LossOnlyByOverwriteOrDiscard, Worked, Tasks
<1> QED
  BY <1>1, <1>2, <1>3 DEF Inv

LEMMA InvStep == Inv /\ [Next]_vars => Inv'
<1> SUFFICES ASSUME Inv, [Next]_vars PROVE Inv'
  OBVIOUS
<1>1. Shape' /\ DroppedWasTried' /\ FlagIsHeld'
  BY ShapeStep, DroppedStep, FlagStep DEF Inv, Shape
<1>2. \A t \in Tasks : Worked(t)'
  BY WorkedStep DEF Inv, Shape
<1>3. LossOnlyByOverwriteOrDiscard'
  BY LossStep
<1> QED
  BY <1>1, <1>2, <1>3 DEF Inv, Shape

LEMMA Invariance == Spec => []Inv
  BY InvInit, InvStep, PTL DEF Spec

(***************************************************************************)
(* The state of the app and of the stored queue stays within its types:    *)
(* above all, no item's count ever reaches MaxRetries.                     *)
(***************************************************************************)
THEOREM QueueTyped == Spec => []TypeOK
<1>1. Inv => TypeOK
  BY DEF Inv
<1> QED
  BY <1>1, Invariance, PTL

(***************************************************************************)
(* A scan is dropped only after MaxRetries real attempts, for any number   *)
(* of overlapping syncs: a count written back late is a low count.         *)
(***************************************************************************)
THEOREM DroppedAfterTheLimit == Spec => []DroppedWasTried
<1>1. Inv => DroppedWasTried
  BY DEF Inv
<1> QED
  BY <1>1, Invariance, PTL

\* The flag of the foreground syncs is never left behind.
THEOREM FlagHasHolder == Spec => []FlagIsHeld
<1>1. Inv => FlagIsHeld
  BY DEF Inv
<1> QED
  BY <1>1, Invariance, PTL

(***************************************************************************)
(* A queued scan is lost only when a write of the queue undid another one, *)
(* or when the stored queue could not be read and was deleted: kills,      *)
(* failing writes, lost answers and clearing lose none.                    *)
(***************************************************************************)
THEOREM OnlyOverwriteOrDiscardLoses == Spec => []LossOnlyByOverwriteOrDiscard
<1>1. Inv => LossOnlyByOverwriteOrDiscard
  BY DEF Inv
<1> QED
  BY <1>1, Invariance, PTL
----------------------------------------------------------------------------
(***************************************************************************)
(* What the queue lacks: a lock.  Between its read and its write a scan or *)
(* a sync holds a copy of the queue; with one holder at a time, and no     *)
(* clearing meanwhile, every write is a write of what is stored.           *)
(***************************************************************************)
Holding(p) == at[p] \in {"write", "loop"}

OneHolder == \A p, q \in Scans \cup Tasks : Holding(p) /\ Holding(q) => p = q

NotWhileHeld == Clear \/ Discard => \A p \in Scans \cup Tasks : ~Holding(p)

Fresh == /\ ~stale
         /\ \A p \in Scans \cup Tasks : Holding(p) => base[p] = store
         /\ \A s \in Scans : at[s] # "loop"

LEMMA FreshStep ==
  ASSUME Shape, Fresh, OneHolder, [Next]_vars, [NotWhileHeld]_vars
  PROVE  Fresh'
<1> USE DEF Shape, TypeOK, Fresh, Holding, Goto, Tasks
<1>1. CASE UNCHANGED <<store, at, base, stale>>
  BY <1>1
<1>2. ASSUME Clear \/ Discard PROVE /\ ~stale' /\ \A p \in Scans \cup Tasks : ~Holding(p)
                                   /\ store' = <<>> /\ store # <<>>
  BY <1>2 DEF NotWhileHeld, Clear, Discard, vars
<1>3. CASE Clear \/ CountUnreadable
  BY <1>2, <1>3 DEF Clear, CountUnreadable, local
<1>4. ASSUME NEW s \in Scans, EnqueueUnreadable(s) PROVE Fresh'
  BY <1>2, <1>4, TasksAssumption DEF EnqueueUnreadable, Forget
<1>5. ASSUME NEW t \in Tasks, SyncUnreadable(t) PROVE Fresh'
  BY <1>2, <1>5, TasksAssumption DEF SyncUnreadable
<1>6. CASE Kill
  <2>1. \A p \in Scans \cup Tasks : at'[p] \notin {"write", "loop"}
    <3>1. ASSUME NEW p \in Scans \cup Tasks
          PROVE  at'[p] = IF p \in Tasks /\ at[p] # "gone" THEN "idle"
                          ELSE IF at[p] \in {"read", "write"} THEN "gone" ELSE at[p]
      BY <1>6 DEF Kill
    <3>2. \A s \in Scans : s \notin Tasks
      BY TasksAssumption
    <3> QED
      BY <3>1, <3>2
  <2>2. \A s \in Scans : at'[s] # "loop"
    BY <2>1
  <2> QED
    BY <1>6, <2>1, <2>2 DEF Kill
<1>7. ASSUME NEW s \in Scans, ScanStep(s) \/ EnqueueThrow(s) PROVE Fresh'
  <2>1. CASE SubmitAnswered(s) \/ SubmitUnanswered(s) \/ EnqueueThrow(s)
    BY <2>1, TasksAssumption DEF SubmitAnswered, SubmitUnanswered, EnqueueThrow, Forget
  <2>2. CASE EnqueueRead(s)
    BY <2>2, TasksAssumption DEF EnqueueRead
  <2>3. CASE EnqueueWrite(s)
    <3>1. /\ Holding(s) /\ ~Holding(s)' /\ ~stale'
          /\ \A p \in (Scans \cup Tasks) \ {s} : at'[p] = at[p] /\ base'[p] = base[p]
      BY <2>3 DEF EnqueueWrite, Overwrite, Forget
    <3> QED
      BY <3>1 DEF OneHolder
  <2> QED
    BY <1>7, <2>1, <2>2, <2>3 DEF ScanStep
<1>8. ASSUME NEW t \in Tasks, Begin(t) \/ Wake(t) \/ Work(t) \/ SyncThrow(t) PROVE Fresh'
  <2>1. CASE Begin(t) \/ Wake(t) \/ Release(t) \/ SyncThrow(t)
    BY <2>1, TasksAssumption DEF Begin, Wake, Release, SyncThrow, Forget, ForgetAll
  <2>2. CASE SyncRead(t) \/ BackgroundRead(t)
    BY <2>2, TasksAssumption DEF SyncRead, BackgroundRead, ReadQueue
  <2>3. CASE Defer(t) \/ SendAnswered(t) \/ SendUnanswered(t)
    BY <2>3 DEF Defer, SendAnswered, SendUnanswered
  <2>4. CASE SyncWrite(t)
    <3>1. /\ Holding(t) /\ ~Holding(t)' /\ ~stale'
          /\ \A p \in (Scans \cup Tasks) \ {t} : at'[p] = at[p] /\ base'[p] = base[p]
      BY <2>4, TasksAssumption DEF SyncWrite, Overwrite, Forget, ForgetAll
    <3> QED
      BY <3>1 DEF OneHolder
  <2> QED
    BY <1>8, <2>1, <2>2, <2>3, <2>4 DEF Work
<1> QED
  BY <1>1, <1>3, <1>4, <1>5, <1>6, <1>7, <1>8 DEF Next, Elapse, vars, local

(***************************************************************************)
(* The document's promise, NoDataLoss, holds of the code as it is but for  *)
(* two things: were the read-modify-write of the queue done by one holder  *)
(* at a time, and no stored queue unreadable, no queued scan would be lost *)
(* - through kills, lost answers and failing writes.                       *)
(***************************************************************************)
THEOREM LockKeepsData ==
  Spec /\ []OneHolder /\ [][NotWhileHeld]_vars /\ [](lost = {}) => []NoDataLoss
<1>1. Init => Fresh
  BY TasksAssumption DEF Init, Fresh, Holding
<1>2. Inv /\ Fresh /\ OneHolder /\ [Next]_vars /\ [NotWhileHeld]_vars => Fresh'
  BY FreshStep DEF Inv, Shape
<1>3. Inv /\ Fresh /\ lost = {} => NoDataLoss
  BY DEF Inv, Fresh, LossOnlyByOverwriteOrDiscard, NoDataLoss
<1> QED
  BY <1>1, <1>2, <1>3, Invariance, PTL DEF Spec
=============================================================================
