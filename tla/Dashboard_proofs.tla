---------------------------- MODULE Dashboard_proofs ---------------------------
(***************************************************************************)
(* Proofs about Dashboard, for any requests, organizations, registrants,   *)
(* codes and bounds.                                                       *)
(***************************************************************************)
EXTENDS Dashboard, FiniteSetTheorems, TLAPS

LEMMA JobTyped ==
  ASSUME NEW q \in Requests
  PROVE  /\ Job[q].op \in Ops /\ Job[q].org \in Codes /\ Job[q].to \in Codes
         /\ Job[q].page \in Pages /\ Job[q].server \in Servers /\ Key(q) \in Servers \X Codes
  BY JobAssumption DEF JobRecords, Key

LEMMA PlanTyped ==
  ASSUME NEW op \in Ops \ {"rename"}
  PROVE  Plan(op) \in Seq(SUBSET Queries) /\ Plan(op) # <<>>
<1> USE DEF Queries, Lists
<1>1. \A q1, q2 \in Queries : <<{q1}, {q2}>> \in Seq(SUBSET Queries) /\ <<{q1}, {q2}>> # <<>>
  OBVIOUS
<1>2. \A q1 \in Queries : <<{q1}>> \in Seq(SUBSET Queries) /\ <<{q1}>> # <<>>
  OBVIOUS
<1>3. /\ <<{"registrants", "checkins"}>> \in Seq(SUBSET Queries)
      /\ <<{"registrants", "checkins"}>> # <<>>
  OBVIOUS
<1>4. /\ <<{"registrants", "page"}, {"checkins"}>> \in Seq(SUBSET Queries)
      /\ <<{"registrants", "page"}, {"checkins"}>> # <<>>
  OBVIOUS
<1>5. CASE op \in Lists
  BY <1>1, <1>5 DEF Plan, ListPlan
<1>6. CASE op \notin Lists
  BY <1>1, <1>2, <1>3, <1>4, <1>6
  DEF Plan, Ops, Exports, Summaries, OverviewPlan, CategoriesPlan, LinksPlan, ScansPlan,
      LastScannedPlan, AttendeesPlan, SearchPlan, NoShowPlan, EventSummaryPlan,
      CategoryReportPlan, UsherScanPlan
<1> QED
  BY <1>5, <1>6

(***************************************************************************)
(* One query less: what remains of a plan.                                 *)
(***************************************************************************)
After(plan, query) ==
  LET rest == Head(plan) \ {query}
  IN  IF rest = {} THEN Tail(plan) ELSE <<rest>> \o Tail(plan)

Due(plan, query) == \E i \in 1..Len(plan) : query \in plan[i]

LEMMA AfterRemains ==
  ASSUME NEW plan \in Seq(SUBSET Queries), plan # <<>>, NEW query \in Head(plan)
  PROVE  /\ After(plan, query) \in Seq(SUBSET Queries)
         /\ \A x : Due(plan, x) => x = query \/ Due(After(plan, query), x)
<1> DEFINE rest == Head(plan) \ {query}
           tail == Tail(plan)
<1>0. /\ Head(plan) = plan[1] /\ Head(plan) \in SUBSET Queries /\ tail \in Seq(SUBSET Queries)
      /\ Len(plan) \in Nat \ {0} /\ Len(tail) = Len(plan) - 1
      /\ \A i \in 1..Len(tail) : tail[i] = plan[i + 1]
  OBVIOUS
<1>1. CASE rest = {}
  <2>1. After(plan, query) = tail
    BY <1>1 DEF After
  <2>2. ASSUME NEW x, NEW i \in 1..Len(plan), x \in plan[i], x # query
        PROVE  Due(tail, x)
    <3>1. i # 1
      BY <1>0, <1>1, <2>2
    <3>2. i - 1 \in 1..Len(tail) /\ x \in tail[i - 1]
      BY <1>0, <2>2, <3>1
    <3> QED
      BY <3>2 DEF Due
  <2> QED
    BY <1>0, <2>1, <2>2 DEF Due
<1>2. CASE rest # {}
  <2> DEFINE new == <<rest>> \o tail
  <2>1. After(plan, query) = new
    BY <1>2 DEF After
  <2>2. <<rest>> \in Seq(SUBSET Queries)
    BY <1>0
  <2>3. /\ new \in Seq(SUBSET Queries) /\ Len(new) = Len(plan) /\ new[1] = rest
        /\ \A i \in 2..Len(plan) : new[i] = tail[i - 1]
    BY <1>0, <2>2
  <2>4. ASSUME NEW x, NEW i \in 1..Len(plan), x \in plan[i], x # query
        PROVE  i \in 1..Len(new) /\ x \in new[i]
    <3>1. CASE i = 1
      BY <1>0, <2>3, <2>4, <3>1
    <3>2. CASE i # 1
      <4>1. i \in 2..Len(plan) /\ i - 1 \in 1..Len(tail) /\ tail[i - 1] = plan[i]
        BY <1>0, <3>2
      <4> QED
        BY <2>3, <2>4, <4>1
    <3> QED
      BY <3>1, <3>2
  <2> QED
    BY <2>1, <2>3, <2>4 DEF Due
<1> QED
  BY <1>1, <1>2

----------------------------------------------------------------------------
Steady(q) == /\ pc[q] = "reading" => left[q] # <<>>
             /\ pc[q] \in {"reading", "ready"} => Job[q].op # "rename"
             /\ pc[q] \in {"renaming", "reading", "ready"} => target[q] \in Orgs

Typed == TypeOK /\ \A q \in Requests : Steady(q)

LEMMA NothingTyped == NoRows \in [Queries -> SUBSET Registrants] /\ NoAnswer \in AnswerType
  BY DEF NoRows, NoAnswer, AnswerType

LEMMA TypedInit == Init => Typed
<1> SUFFICES ASSUME Init PROVE Typed
  OBVIOUS
<1> PICK t \in Scenarios : Init!(t)
  BY DEF Init
<1>1. t \in [coming: SUBSET Requests, status: [Registrants -> Statuses], writes: Nat, from: 0..MaxTime]
  BY ScenarioAssumption
<1>2. <<>> \in Seq(SUBSET Queries)
  OBVIOUS
<1> QED
  BY <1>1, <1>2, NothingTyped, CodeAssumption, BoundsAssumption DEF Typed, TypeOK, Steady, Steps

LEMMA TypedRead ==
  ASSUME Typed, NEW q \in Requests, Read(q)
  PROVE  /\ \E query \in Head(left[q]) :
              /\ \E found \in Returned(q, query) : rows' = [rows EXCEPT ![q][query] = found]
              /\ left' = [left EXCEPT ![q] = After(left[q], query)]
              /\ query \in Queries
         /\ left[q] \in Seq(SUBSET Queries) /\ left[q] # <<>>
<1>1. left[q] \in Seq(SUBSET Queries) /\ left[q] # <<>> /\ left \in [Requests -> Seq(SUBSET Queries)]
  BY DEF Typed, TypeOK, Steady, Read, At
<1>2. PICK query \in Head(left[q]) :
        /\ \E found \in Returned(q, query) : rows' = [rows EXCEPT ![q][query] = found]
        /\ left' = [left EXCEPT ![q] = IF Head(left[q]) \ {query} = {} THEN Tail(@)
                                       ELSE <<Head(left[q]) \ {query}>> \o Tail(@)]
  BY DEF Read
<1>3. left' = [left EXCEPT ![q] = After(left[q], query)]
  BY <1>1, <1>2 DEF After
<1>4. Head(left[q]) \in SUBSET Queries
  BY <1>1
<1> QED
  BY <1>1, <1>2, <1>3, <1>4

LEMMA ReturnedTyped ==
  ASSUME Typed, NEW q \in Requests, NEW query \in Queries, NEW found \in Returned(q, query)
  PROVE  found \subseteq Scope(q) /\ Scope(q) \subseteq Registrants
<1>1. Scope(q) \subseteq Registrants
  BY DEF Scope
<1>2. query \in {"registrants", "page", "FULL_REGISTRATION_LIST", "approved", "APPROVED_LIST",
                 "PENDING_LIST", "checkins", "perCategory", "CHECKED_IN_LIST", "NO_SHOW_LIST"}
  BY DEF Queries, Lists
<1>3. /\ Known(q) \subseteq Scope(q) /\ \A s : With(q, s) \subseteq Scope(q)
      /\ NoShows(q) \subseteq Scope(q) /\ Checked(q) \subseteq Scope(q)
  BY DEF Known, With, NoShows, Checked
<1>4. CASE query = "checkins"
  <2>1. found \subseteq Checked(q)
    BY <1>4 DEF Returned, Newest
  <2> QED
    BY <1>1, <1>3, <2>1
<1>5. CASE query = "page"
  <2>1. found \subseteq Known(q)
    BY <1>5 DEF Returned
  <2> QED
    BY <1>1, <1>3, <2>1
<1>6. CASE query \notin {"checkins", "page"}
  <2>1. found \in {Checked(q), Known(q), With(q, "APPROVED"), With(q, "PENDING"), NoShows(q)}
    BY <1>2, <1>6 DEF Returned
  <2> QED
    BY <1>1, <1>3, <2>1
<1> QED
  BY <1>4, <1>5, <1>6

(***************************************************************************)
(* What is written to the database: nobody is forgotten, a check-in goes   *)
(* only with its registrant, and every change is counted.                  *)
(***************************************************************************)
Writing ==
  \/ \E r \in Registrants : Register(r) \/ ChangeStatus(r) \/ Scan(r) \/ CheckIn(r)
  \/ \E l \in Links : DeleteLink(l)

Written ==
  /\ Aside /\ writes' \in Nat
  /\ status' \in [Registrants -> Statuses]
  /\ checkins' \subseteq {x \in Registrants : status'[x] \notin {"none", "gone"}}
  /\ scanned' \subseteq {x \in Registrants : status'[x] # "none"}
  /\ \A x \in Registrants : /\ status[x] # "none" => status'[x] # "none"
                            /\ status[x] = "gone" => status'[x] = "gone"
  /\ checkins \subseteq checkins' \cup Gone'
  /\ writes' = writes - 1 \/ UNCHANGED <<status, checkins, writes>>

LEMMA WritingTyped == Typed /\ Writing => Written
<1> SUFFICES ASSUME Typed, Writing PROVE Written
  OBVIOUS
<1> USE DEF Typed, TypeOK, Written, Gone
<1>1. ASSUME NEW r \in Registrants, Register(r) PROVE Written
  BY <1>1 DEF Register, Write, Statuses
<1>2. ASSUME NEW r \in Registrants, ChangeStatus(r) PROVE Written
  BY <1>2 DEF ChangeStatus, Write, Statuses
<1>3. ASSUME NEW r \in Registrants, Scan(r) PROVE Written
  BY <1>3 DEF Scan
<1>4. ASSUME NEW r \in Registrants, CheckIn(r) PROVE Written
  BY <1>4 DEF CheckIn, Write
<1>5. ASSUME NEW l \in Links, DeleteLink(l) PROVE Written
  BY <1>5 DEF DeleteLink, Write, Statuses
<1> QED
  BY <1>1, <1>2, <1>3, <1>4, <1>5 DEF Writing

LEMMA TypedStep == Typed /\ [Next]_vars => Typed'
<1> SUFFICES ASSUME Typed, [Next]_vars PROVE Typed'
  OBVIOUS
<1> USE DEF Typed, TypeOK, Steady, dbVars, pageVars, history, At, Goto, Steps
<1>1. CASE Writing
  BY <1>1, WritingTyped DEF Written, Aside
<1>2. CASE Tick
  BY <1>2, BoundsAssumption DEF Tick
<1>3. ASSUME NEW q \in Requests, Fire(q) PROVE Typed'
  <2>1. timer' = [timer EXCEPT ![Job[q].page] = now + 1] /\ overtaken' \subseteq Requests
    BY <1>3 DEF Fire
  <2>2. timer' \in [Pages -> 0..MaxTime + 1]
    BY <2>1, BoundsAssumption, JobTyped
  <2> QED
    BY <1>3, <2>1, <2>2 DEF Fire
<1>4. ASSUME NEW q \in Requests, Ask(q) \/ Refuse(q) \/ NotFound(q) PROVE Typed'
  BY <1>4 DEF Ask, Refuse, NotFound, Misses
<1>5. ASSUME NEW q \in Requests, FromCache(q) PROVE Typed'
  BY <1>5, JobTyped DEF FromCache
<1>6. ASSUME NEW q \in Requests, Compute(q) PROVE Typed'
  <2>1. PICK o \in Named(q) : target' = [target EXCEPT ![q] = o]
    BY <1>6 DEF Compute
  <2>2. o \in Orgs
    BY <2>1 DEF Named, Holders
  <2>3. left' = [left EXCEPT ![q] = Plan(Job[q].op)] /\ Job[q].op # "rename"
    BY <1>6 DEF Compute
  <2>4. left' \in [Requests -> Seq(SUBSET Queries)] /\ left'[q] # <<>>
    BY <2>3, JobTyped, PlanTyped
  <2>5. since' \in [Requests -> SUBSET Registrants] /\ raced' \subseteq Requests
    BY <1>6 DEF Compute
  <2>6. target' \in [Requests -> Orgs \cup {NoOrg}] /\ target'[q] = o
    BY <2>1, <2>2
  <2>7. \A p \in Requests : Steady(p)'
    BY <1>6, <2>1, <2>2, <2>3, <2>4 DEF Compute
  <2> QED
    BY <1>6, <2>4, <2>5, <2>6, <2>7 DEF Compute
<1>7. ASSUME NEW q \in Requests, FindToRename(q) PROVE Typed'
  BY <1>7 DEF FindToRename, Holders
<1>8. ASSUME NEW q \in Requests, Rename(q) PROVE Typed'
  <2> DEFINE o == target[q]
  <2>1. /\ o \in Orgs /\ Job[q].to \in Codes
        /\ code' = code \/ (Holders(Job[q].to) \ {o} = {} /\ code' = [code EXCEPT ![o] = Job[q].to])
        /\ outdated' \subseteq Requests
    BY <1>8, JobTyped DEF Rename
  <2>2. code' \in [Orgs -> Codes] /\ \A v, u \in Orgs : code'[v] = code'[u] => v = u
    <3>1. CASE code' = code
      BY <3>1
    <3>2. CASE Holders(Job[q].to) \ {o} = {} /\ code' = [code EXCEPT ![o] = Job[q].to]
      <4>1. \A u \in Orgs : code[u] = Job[q].to => u = o
        BY <3>2 DEF Holders
      <4>2. code' \in [Orgs -> Codes]
        BY <2>1, <3>2
      <4>3. code'[o] = Job[q].to /\ \A u \in Orgs : u # o => code'[u] = code[u]
        BY <2>1, <3>2
      <4> HIDE DEF o
      <4> QED
        BY <4>1, <4>2, <4>3
    <3> QED
      BY <2>1, <3>1, <3>2
  <2> QED
    BY <1>8, <2>1, <2>2, NothingTyped DEF Rename, Forget
<1>9. ASSUME NEW q \in Requests, Read(q) PROVE Typed'
  <2>1. PICK query \in Head(left[q]) :
          /\ \E found \in Returned(q, query) : rows' = [rows EXCEPT ![q][query] = found]
          /\ left' = [left EXCEPT ![q] = After(left[q], query)]
          /\ query \in Queries
    BY <1>9, TypedRead
  <2>2. After(left[q], query) \in Seq(SUBSET Queries)
    BY <1>9, <2>1, TypedRead, AfterRemains
  <2>3. left' \in [Requests -> Seq(SUBSET Queries)] /\ left'[q] = After(left[q], query)
    BY <2>1, <2>2
  <2>4. rows' \in [Requests -> [Queries -> SUBSET Registrants]]
    BY <2>1, ReturnedTyped
  <2>5. NoShows(q) \subseteq Registrants
    BY DEF NoShows, With, Scope
  <2>6. version' \in [Requests -> Nat] /\ missing' \in [Requests -> SUBSET Registrants]
    BY <1>9, <2>5 DEF Read
  <2>7. \A p \in Requests : Steady(p)'
    BY <1>9, <2>3, <2>1 DEF Read
  <2> QED
    BY <1>9, <2>3, <2>4, <2>6, <2>7 DEF Read
<1>10. ASSUME NEW q \in Requests, Fail(q) \/ Respond(q) PROVE Typed'
  <2>1. /\ pc' = [pc EXCEPT ![q] = "done"] /\ Forget(q)
        /\ UNCHANGED <<answer, cache, pageVars, now, dbVars, code, outdated>>
    BY <1>10 DEF Fail, Respond
  <2>2. <<>> \in Seq(SUBSET Queries)
    OBVIOUS
  <2>3. /\ left' \in [Requests -> Seq(SUBSET Queries)]
        /\ rows' \in [Requests -> [Queries -> SUBSET Registrants]]
        /\ version' \in [Requests -> Nat] /\ missing' \in [Requests -> SUBSET Registrants]
        /\ since' \in [Requests -> SUBSET Registrants]
        /\ target' \in [Requests -> Orgs \cup {NoOrg}]
        /\ overtaken' \subseteq Requests /\ raced' \subseteq Requests
    BY <2>1, <2>2, NothingTyped DEF Forget
  <2>4. \A p \in Requests : Steady(p)'
    BY <2>1 DEF Forget
  <2> QED
    BY <2>1, <2>3, <2>4
<1>11. ASSUME NEW q \in Requests, Publish(q) PROVE Typed'
  <2>1. Result(q) \in AnswerType
    BY <1>11 DEF Publish, Result, AnswerType
  <2> QED
    BY <1>11, <2>1, NothingTyped, JobTyped DEF Publish, Forget
<1>12. ASSUME NEW q \in Requests, Show(q) \/ Lost(q) PROVE Typed'
  <2>1. timer' \in [Pages -> 0..MaxTime + 1] /\ shown' \in [Pages -> AnswerType]
    <3>1. Job[q].page \in Pages /\ answer[q] \in AnswerType /\ now + 1 \in 0..MaxTime + 1
      BY JobTyped, BoundsAssumption
    <3>2. timer' = timer \/ timer' = [timer EXCEPT ![Job[q].page] = now + 1]
      BY <1>12 DEF Show, Lost
    <3>3. shown' = shown \/ shown' = [shown EXCEPT ![Job[q].page] = answer[q]]
      BY <1>12 DEF Show, Lost
    <3> QED
      BY <3>1, <3>2, <3>3
  <2> QED
    BY <1>12, <2>1, NothingTyped DEF Show, Lost
<1>13. CASE UNCHANGED vars
  BY <1>13 DEF vars
<1> QED
  BY <1>1, <1>2, <1>3, <1>4, <1>5, <1>6, <1>7, <1>8, <1>9, <1>10, <1>11, <1>12, <1>13
  DEF Next, Writing

LEMMA TypedAlways == Spec => []Typed
  BY TypedInit, TypedStep, PTL DEF Spec

(***************************************************************************)
(* The shape of the state holds in every behaviour; codes stay unique and  *)
(* who is checked in is registered.                                        *)
(***************************************************************************)
THEOREM TypeCorrect == Spec => []TypeOK
<1>1. Typed => TypeOK
  BY DEF Typed
<1> QED
  BY <1>1, TypedAlways, PTL

----------------------------------------------------------------------------
(***************************************************************************)
(* The figures.  A check-in is not taken back but with its registrant, so  *)
(* a set of check-ins read later, with those who are gone, holds one read  *)
(* earlier; what has been read, and what is still to be read, is said of   *)
(* each request on its way.                                                *)
(***************************************************************************)
Started(q) == pc[q] \in {"reading", "ready"}

LastQuery == <<{"checkins"}>>

Counting(q) ==
  Started(q) =>
    /\ pc[q] = "ready" => left[q] = <<>>
    /\ \A query \in Queries : rows[q][query] \subseteq Scope(q)
    /\ since[q] \subseteq Scope(q) \cap (checkins \cup Gone)
    /\ Job[q].op \notin Partial =>
         Due(left[q], "checkins") \/ since[q] \subseteq rows[q]["checkins"] \cup Gone

\* The check-ins are what a listing reads last.
Ends(plan) == plan # <<>> => plan[Len(plan)] = {"checkins"}

Listing(q) ==
  Started(q) /\ Job[q].op \in Listings =>
    /\ Ends(left[q])
    /\ pc[q] = "ready" => since[q] \cap rows[q]["page"] \subseteq rows[q]["checkins"] \cup Gone

Scanning(q) ==
  Started(q) /\ Job[q].op = "lastScanned" =>
    \/ pc[q] = "reading" /\ left[q] = LastQuery
    \/ /\ pc[q] = "ready"
       /\ \/ since[q] \subseteq rows[q]["checkins"] \cup Gone
          \/ Cardinality(rows[q]["checkins"]) >= Limit

Arrived(q) == rows[q]["approved"] \ missing[q]

Missing(q) ==
  Started(q) /\ Job[q].op = "noShow" =>
    \/ pc[q] = "reading" /\ left[q] = NoShowPlan
    \/ /\ version[q] >= writes
       /\ missing[q] \subseteq rows[q]["approved"]
       /\ Arrived(q) \subseteq Scope(q) \cap (checkins \cup Gone)
       /\ version[q] = writes => /\ rows[q]["approved"] = With(q, "APPROVED")
                                 /\ missing[q] = NoShows(q)
       /\ \/ pc[q] = "reading" /\ left[q] = LastQuery
          \/ /\ pc[q] = "ready"
             /\ Arrived(q) \subseteq rows[q]["checkins"] \cup Gone
             /\ version[q] = writes => rows[q]["checkins"] = Checked(q)

Present(q) ==
  Started(q) /\ Job[q].op = "CHECKED_IN_LIST" =>
    \/ pc[q] = "reading" /\ left[q] = ListPlan("CHECKED_IN_LIST")
    \/ /\ pc[q] = "reading" /\ left[q] = LastQuery
       /\ rows[q]["CHECKED_IN_LIST"] \subseteq Scope(q) \cap (checkins \cup Gone)
    \/ /\ pc[q] = "ready"
       /\ rows[q]["CHECKED_IN_LIST"] \subseteq rows[q]["checkins"] \cup Gone

Blank(q) == pc[q] \in {"idle", "sent"} => rows[q] = NoRows

Figures(q) == /\ Blank(q) /\ Counting(q) /\ Listing(q) /\ Scanning(q)
              /\ Missing(q) /\ Present(q)

FiguresInv == \A q \in Requests : Figures(q)

\* What a request has of its own.
Own(q) == <<pc[q], left[q], rows[q], target[q], version[q], missing[q], since[q]>>

LEMMA FiguresSame ==
  ASSUME NEW q \in Requests, Figures(q), UNCHANGED Own(q), UNCHANGED <<status, checkins, writes>>
  PROVE  Figures(q)'
<1>1. /\ Scope(q)' = Scope(q) /\ With(q, "APPROVED")' = With(q, "APPROVED") /\ Gone' = Gone
      /\ Checked(q)' = Checked(q)
  BY DEF Scope, With, Own, Gone, Checked
<1>2. NoShows(q)' = NoShows(q)
  BY <1>1 DEF NoShows
<1>3. Counting(q)'
  BY <1>1 DEF Figures, Counting, Started, Own, Due
<1>4. Missing(q)'
  BY <1>1, <1>2 DEF Figures, Missing, Started, Arrived, Own
<1>5. Present(q)'
  BY <1>1 DEF Figures, Present, Started, Own
<1>6. Blank(q)'
  BY DEF Figures, Blank, Own
<1>7. Listing(q)' /\ Scanning(q)'
  BY <1>1 DEF Figures, Listing, Scanning, Started, Own, Ends
<1> QED
  BY <1>3, <1>4, <1>5, <1>6, <1>7 DEF Figures

LEMMA FiguresWrite ==
  ASSUME Typed, FiguresInv, Writing
  PROVE  FiguresInv'
<1>0. Written /\ writes \in Nat
  BY WritingTyped DEF Typed, TypeOK
<1>1. /\ UNCHANGED <<pc, left, rows, target, version, missing, since>>
      /\ checkins \subseteq checkins' \cup Gone' /\ Gone \subseteq Gone'
  BY <1>0 DEF Written, Aside, Gone, history
<1> SUFFICES ASSUME NEW q \in Requests PROVE Figures(q)'
  BY DEF FiguresInv
<1>2. Scope(q)' = Scope(q) /\ UNCHANGED Own(q)
  BY <1>1 DEF Scope, Own
<1>3. Figures(q) /\ version[q] \in Nat
  BY DEF FiguresInv, Typed, TypeOK
<1>a. CASE UNCHANGED <<status, checkins, writes>>
  BY <1>2, <1>3, <1>a, FiguresSame
<1>b. CASE writes' = writes - 1
  <2>1. Counting(q)'
    BY <1>1, <1>2, <1>3 DEF Figures, Counting, Started, Due
  <2>2. Missing(q)'
    <3>1. version[q] >= writes => version'[q] > writes'
      BY <1>0, <1>1, <1>3, <1>b
    <3>2. version'[q] > writes' => version'[q] >= writes' /\ version'[q] # writes'
      BY <1>0, <1>1, <1>3 DEF Written
    <3> QED
      BY <1>1, <1>2, <1>3, <3>1, <3>2 DEF Figures, Missing, Started, Arrived
  <2>3. Present(q)'
    BY <1>1, <1>2, <1>3 DEF Figures, Present, Started
  <2>4. Blank(q)'
    BY <1>1, <1>3 DEF Figures, Blank
  <2>5. Listing(q)' /\ Scanning(q)'
    BY <1>1, <1>3 DEF Figures, Listing, Scanning, Started, Ends
  <2> QED
    BY <2>1, <2>2, <2>3, <2>4, <2>5 DEF Figures
<1> QED
  BY <1>0, <1>a, <1>b DEF Written

\* Until a request computes, and once it is over, it has nothing to hold to.
LEMMA FiguresIdle ==
  ASSUME NEW q \in Requests, pc[q] \notin {"reading", "ready"}, Blank(q)
  PROVE  Figures(q)
  BY DEF Figures, Counting, Listing, Scanning, Missing, Present, Started

LEMMA PlansHaveCheckins ==
  ASSUME NEW op \in (Ops \ {"rename"}) \ Partial
  PROVE  Due(Plan(op), "checkins")
<1>1. \A S : Due(<<S, {"checkins"}>>, "checkins") /\ Due(<<{"checkins"}, S>>, "checkins")
  <2> TAKE S
  <2>1. /\ 1 \in 1..Len(<<S, {"checkins"}>>) /\ 2 \in 1..Len(<<S, {"checkins"}>>)
        /\ 1 \in 1..Len(<<{"checkins"}, S>>)
    OBVIOUS
  <2>2. <<S, {"checkins"}>>[2] = {"checkins"} /\ <<{"checkins"}, S>>[1] = {"checkins"}
    OBVIOUS
  <2> QED
    BY <2>1, <2>2 DEF Due
<1>2. Due(<<{"checkins"}>>, "checkins") /\ Due(<<{"registrants", "checkins"}>>, "checkins")
  <2>1. /\ 1 \in 1..Len(<<{"checkins"}>>) /\ 1 \in 1..Len(<<{"registrants", "checkins"}>>)
        /\ "checkins" \in <<{"checkins"}>>[1] /\ "checkins" \in <<{"registrants", "checkins"}>>[1]
    OBVIOUS
  <2> QED
    BY <2>1 DEF Due
<1>3. CASE op \in Lists
  BY <1>1, <1>3 DEF Plan, ListPlan, Lists
<1>4. CASE op \notin Lists
  BY <1>1, <1>2, <1>4
  DEF Plan, Ops, Exports, Summaries, OverviewPlan, LinksPlan, ScansPlan, Partial, Listings,
      NoShowPlan, CategoryReportPlan, UsherScanPlan
<1> QED
  BY <1>3, <1>4

LEMMA FiguresCompute ==
  ASSUME Typed, FiguresInv, NEW q \in Requests, Compute(q)
  PROVE  Figures(q)'
<1>1. /\ pc'[q] = "reading" /\ Job[q].op # "rename" /\ left'[q] = Plan(Job[q].op)
      /\ since'[q] = Scope(q)' \cap checkins /\ UNCHANGED <<rows, checkins>> /\ rows[q] = NoRows
  BY DEF Compute, Misses, At, Goto, Typed, TypeOK, dbVars, FiguresInv, Figures, Blank
<1>2. /\ Plan("noShow") = NoShowPlan /\ Plan("CHECKED_IN_LIST") = ListPlan("CHECKED_IN_LIST")
      /\ Plan("lastScanned") = LastQuery
  BY DEF Plan, Lists, LastScannedPlan, LastQuery
<1>3. Counting(q)'
  <2>1. Job[q].op \notin Partial => Due(left'[q], "checkins")
    BY <1>1, JobTyped, PlansHaveCheckins
  <2>2. \A query \in Queries : rows'[q][query] = {}
    BY <1>1 DEF NoRows
  <2> QED
    BY <1>1, <2>1, <2>2 DEF Counting, Due
<1>4. Listing(q)'
  <2>1. \A S : Ends(<<S, {"checkins"}>>)
    BY DEF Ends
  <2>2. Job[q].op \in Listings => Ends(left'[q])
    BY <1>1, <2>1 DEF Listings, Plan, Lists, AttendeesPlan, SearchPlan
  <2> QED
    BY <1>1, <2>2 DEF Listing, Ends
<1> QED
  BY <1>1, <1>2, <1>3, <1>4 DEF Figures, Missing, Present, Blank, Scanning

LEMMA EndsStays ==
  ASSUME NEW plan \in Seq(SUBSET Queries), plan # <<>>, Ends(plan), NEW query \in Head(plan)
  PROVE  Ends(After(plan, query)) /\ (After(plan, query) = <<>> => query = "checkins")
<1> DEFINE rest == Head(plan) \ {query}
           tail == Tail(plan)
<1>1. /\ Head(plan) = plan[1] /\ Head(plan) \in SUBSET Queries /\ tail \in Seq(SUBSET Queries)
      /\ Len(plan) \in Nat \ {0} /\ Len(tail) = Len(plan) - 1
      /\ \A i \in 1..Len(tail) : tail[i] = plan[i + 1]
      /\ plan[Len(plan)] = {"checkins"}
  BY DEF Ends
<1> HIDE DEF tail
<1>2. CASE Len(plan) = 1
  <2>1. rest = {} /\ query = "checkins"
    BY <1>1, <1>2
  <2>2. tail = <<>>
    BY <1>1, <1>2
  <2> QED
    BY <2>1, <2>2 DEF After, Ends, tail
<1>3. CASE Len(plan) # 1
  <2>1. tail # <<>> /\ Len(tail) \in 1..Len(tail) /\ tail[Len(tail)] = {"checkins"}
    BY <1>1, <1>3
  <2>2. CASE rest = {}
    BY <2>1, <2>2 DEF After, Ends, tail
  <2>3. CASE rest # {}
    <3> DEFINE new == <<rest>> \o tail
    <3>1. After(plan, query) = new
      BY <2>3 DEF After, tail
    <3>2. <<rest>> \in Seq(SUBSET Queries)
      BY <1>1
    <3>3. Len(new) = Len(tail) + 1 /\ new # <<>> /\ new[Len(tail) + 1] = tail[Len(tail)]
      BY <1>1, <2>1, <3>2
    <3> HIDE DEF new, rest
    <3> QED
      BY <2>1, <3>1, <3>3 DEF Ends
  <2> QED
    BY <2>2, <2>3
<1> QED
  BY <1>2, <1>3

\* The first rows are all there are, or as many as a listing returns.
LEMMA NewestIsFull ==
  ASSUME NEW S, IsFiniteSet(S), NEW found \in Newest(S)
  PROVE  found = S \/ Cardinality(found) >= Limit
<1>1. found \subseteq S /\ Cardinality(found) = Least(Cardinality(S), Limit)
  BY DEF Newest
<1>2. Cardinality(S) \in Nat /\ Limit \in Nat
  BY FS_CardinalityType, BoundsAssumption
<1>3. CASE Cardinality(S) < Limit
  <2>1. Cardinality(found) = Cardinality(S)
    BY <1>1, <1>3 DEF Least
  <2> QED
    BY <1>1, <2>1, FS_Subset
<1>4. CASE ~ (Cardinality(S) < Limit)
  BY <1>1, <1>2, <1>4 DEF Least
<1> QED
  BY <1>3, <1>4

LEMMA TwoQueries ==
  /\ Head(NoShowPlan) = {"approved"} /\ After(NoShowPlan, "approved") = LastQuery
  /\ Head(ListPlan("CHECKED_IN_LIST")) = {"CHECKED_IN_LIST"}
  /\ After(ListPlan("CHECKED_IN_LIST"), "CHECKED_IN_LIST") = LastQuery
  /\ Head(LastQuery) = {"checkins"} /\ After(LastQuery, "checkins") = <<>>
  /\ LastQuery # <<>> /\ LastQuery # NoShowPlan /\ LastQuery # ListPlan("CHECKED_IN_LIST")
<1> USE DEF NoShowPlan, ListPlan, LastQuery
<1>1. /\ Head(NoShowPlan) = {"approved"} /\ Tail(NoShowPlan) = LastQuery
      /\ Head(ListPlan("CHECKED_IN_LIST")) = {"CHECKED_IN_LIST"}
      /\ Tail(ListPlan("CHECKED_IN_LIST")) = LastQuery
      /\ Head(LastQuery) = {"checkins"} /\ Tail(LastQuery) = <<>>
  OBVIOUS
<1>2. /\ Len(NoShowPlan) = 2 /\ Len(ListPlan("CHECKED_IN_LIST")) = 2 /\ Len(LastQuery) = 1
      /\ Len(<<>>) = 0
  OBVIOUS
<1> HIDE DEF NoShowPlan, ListPlan, LastQuery
<1>3. \A plan, x : Head(plan) = {x} => After(plan, x) = Tail(plan)
  BY DEF After
<1>4. /\ After(NoShowPlan, "approved") = LastQuery /\ After(LastQuery, "checkins") = <<>>
      /\ After(ListPlan("CHECKED_IN_LIST"), "CHECKED_IN_LIST") = LastQuery
  BY ONLY <1>1, <1>3, Zenon
<1>5. LastQuery # <<>> /\ LastQuery # NoShowPlan /\ LastQuery # ListPlan("CHECKED_IN_LIST")
  BY ONLY <1>2
<1> QED
  BY ONLY <1>1, <1>4, <1>5

LEMMA FiguresRead ==
  ASSUME Typed, FiguresInv, NEW q \in Requests, Read(q)
  PROVE  Figures(q)'
<1>a. PICK query \in Head(left[q]) :
        /\ \E found \in Returned(q, query) : rows' = [rows EXCEPT ![q][query] = found]
        /\ left' = [left EXCEPT ![q] = After(left[q], query)]
        /\ query \in Queries
  BY TypedRead
<1>1. PICK found \in Returned(q, query) : rows' = [rows EXCEPT ![q][query] = found]
  BY <1>a
<1>2. /\ left[q] \in Seq(SUBSET Queries) /\ left[q] # <<>> /\ pc[q] = "reading"
      /\ pc'[q] = (IF left'[q] = <<>> THEN "ready" ELSE "reading")
      /\ left'[q] = After(left[q], query)
      /\ rows'[q] = [rows[q] EXCEPT ![query] = found]
      /\ rows[q] \in [Queries -> SUBSET Registrants]
      /\ UNCHANGED <<target, since, dbVars>>
  BY <1>a, <1>1, TypedRead DEF Read, At, Goto, Typed, TypeOK, history
<1>3. /\ Scope(q)' = Scope(q) /\ With(q, "APPROVED")' = With(q, "APPROVED")
      /\ NoShows(q)' = NoShows(q) /\ UNCHANGED <<checkins, writes>>
      /\ Gone' = Gone /\ Checked(q)' = Checked(q) /\ Checked(q) = Scope(q) \cap checkins
  BY <1>2 DEF Scope, With, NoShows, dbVars, Gone, Checked
<1>4. Figures(q) /\ Started(q) /\ found \subseteq Scope(q)
  BY <1>a, <1>1, <1>2, ReturnedTyped DEF FiguresInv, Started
<1>5. /\ "checkins" \in Queries /\ "approved" \in Queries /\ "CHECKED_IN_LIST" \in Queries
      /\ "page" \in Queries
      /\ query = "checkins" /\ Job[q].op \notin Partial => found = Checked(q)
      /\ query = "checkins" /\ Job[q].op \in Listings => found = rows[q]["page"] \cap Checked(q)
      /\ query = "checkins" /\ Job[q].op = "lastScanned" => found \in Newest(Checked(q))
      /\ query = "approved" => found = With(q, "APPROVED")
      /\ query = "CHECKED_IN_LIST" => found = Checked(q)
  BY DEF Queries, Lists, Returned, Partial, Listings
<1>6. /\ version'[q] = IF left[q] = Plan(Job[q].op) THEN writes ELSE version[q]
      /\ missing'[q] = IF left[q] = Plan(Job[q].op) THEN NoShows(q) ELSE missing[q]
  BY DEF Read, Typed, TypeOK
<1>7. /\ Plan("noShow") = NoShowPlan
      /\ \A op : op \in {"noShow", "CHECKED_IN_LIST"} => op \notin Partial
  BY DEF Plan, Lists, Partial, Listings
<1>8. Counting(q)'
  <2>1. \A x \in Queries : rows'[q][x] \subseteq Scope(q)
    BY <1>2, <1>4 DEF Figures, Counting
  <2>2. Due(left[q], "checkins") => query = "checkins" \/ Due(left'[q], "checkins")
    BY <1>a, <1>1, <1>2, AfterRemains
  <2>3. query = "checkins" /\ Job[q].op \notin Partial => since[q] \subseteq rows'[q]["checkins"] \cup Gone
    BY <1>2, <1>3, <1>4, <1>5 DEF Figures, Counting
  <2>4. /\ Job[q].op \notin Partial /\ since[q] \subseteq rows[q]["checkins"] \cup Gone
        => since[q] \subseteq rows'[q]["checkins"] \cup Gone
    BY <1>2, <1>4, <1>5, <2>3 DEF Figures, Counting
  <2>5. since'[q] = since[q] /\ since[q] \subseteq Scope(q) \cap (checkins \cup Gone)
    BY <1>2, <1>4 DEF Figures, Counting
  <2>6. Job[q].op \notin Partial =>
          Due(left'[q], "checkins") \/ since[q] \subseteq rows'[q]["checkins"] \cup Gone
    BY <1>4, <2>2, <2>3, <2>4 DEF Figures, Counting
  <2> QED
    BY <1>2, <1>3, <2>1, <2>5, <2>6 DEF Counting, Due
<1>9. Missing(q)'
  <2> SUFFICES ASSUME Job[q].op = "noShow" PROVE Missing(q)'
    BY DEF Missing
  <2>1. CASE left[q] = NoShowPlan
    <3>1. query = "approved" /\ left'[q] = LastQuery /\ left'[q] # <<>>
      BY <1>a, <1>1, <1>2, <1>7, <2>1, TwoQueries
    <3>2. /\ pc'[q] = "reading" /\ version'[q] = writes /\ missing'[q] = NoShows(q)
          /\ rows'[q]["approved"] = With(q, "APPROVED") /\ writes \in Nat
      BY <1>2, <1>5, <1>6, <1>7, <2>1, <3>1 DEF Typed, TypeOK
    <3>3. /\ NoShows(q) \subseteq With(q, "APPROVED") /\ With(q, "APPROVED") \subseteq Scope(q)
          /\ With(q, "APPROVED") \ NoShows(q) \subseteq checkins
      BY DEF NoShows, With
    <3> QED
      BY <1>3, <3>1, <3>2, <3>3 DEF Missing, Arrived
  <2>2. CASE left[q] = LastQuery
    <3>1. query = "checkins" /\ left'[q] = <<>> /\ left[q] # NoShowPlan
      BY <1>a, <1>1, <1>2, <1>7, <2>2, TwoQueries
    <3>2. /\ pc'[q] = "ready" /\ version'[q] = version[q] /\ missing'[q] = missing[q]
          /\ rows'[q]["approved"] = rows[q]["approved"]
          /\ rows'[q]["checkins"] = Checked(q)
      BY <1>2, <1>5, <1>6, <1>7, <3>1
    <3> QED
      BY <1>2, <1>3, <1>4, <3>1, <3>2 DEF Figures, Missing, Arrived
  <2> QED
    BY <1>2, <1>4, <2>1, <2>2 DEF Figures, Missing
<1>10. Present(q)'
  <2> SUFFICES ASSUME Job[q].op = "CHECKED_IN_LIST" PROVE Present(q)'
    BY DEF Present
  <2>1. CASE left[q] = ListPlan("CHECKED_IN_LIST")
    <3>1. query = "CHECKED_IN_LIST" /\ left'[q] = LastQuery /\ left'[q] # <<>>
      BY <1>a, <1>1, <1>2, <1>7, <2>1, TwoQueries
    <3> QED
      BY <1>2, <1>3, <1>5, <3>1 DEF Present
  <2>2. CASE left[q] = LastQuery
    <3>1. query = "checkins" /\ left'[q] = <<>> /\ left[q] # ListPlan("CHECKED_IN_LIST")
      BY <1>a, <1>1, <1>2, <1>7, <2>2, TwoQueries
    <3> QED
      BY <1>2, <1>3, <1>4, <1>5, <1>7, <3>1 DEF Figures, Present
  <2> QED
    BY <1>2, <1>4, <2>1, <2>2 DEF Figures, Present
<1>11. Blank(q)'
  BY <1>2 DEF Blank
<1>12. Listing(q)'
  <2> SUFFICES ASSUME Job[q].op \in Listings PROVE Listing(q)'
    BY DEF Listing
  <2>1. Ends(left'[q]) /\ (left'[q] = <<>> => query = "checkins")
    BY <1>a, <1>1, <1>2, <1>4, EndsStays DEF Figures, Listing
  <2>2. left'[q] = <<>> => /\ rows'[q]["page"] = rows[q]["page"]
                           /\ rows'[q]["checkins"] = rows[q]["page"] \cap Checked(q)
    BY <1>2, <1>5, <2>1
  <2>3. since[q] \subseteq Scope(q) \cap (checkins \cup Gone)
    BY <1>4 DEF Figures, Counting
  <2> QED
    BY <1>2, <1>3, <2>1, <2>2, <2>3 DEF Listing, Ends
<1>13. Scanning(q)'
  <2> SUFFICES ASSUME Job[q].op = "lastScanned" PROVE Scanning(q)'
    BY DEF Scanning
  <2>1. left[q] = LastQuery /\ query = "checkins" /\ left'[q] = <<>>
    BY <1>a, <1>1, <1>2, <1>4, TwoQueries DEF Figures, Scanning
  <2>2. rows'[q]["checkins"] = found /\ found \in Newest(Checked(q)) /\ pc'[q] = "ready"
    BY <1>2, <1>5, <2>1
  <2>3. IsFiniteSet(Checked(q))
    BY <1>3, FiniteAssumption, FS_Subset DEF Scope
  <2>4. found = Checked(q) \/ Cardinality(found) >= Limit
    BY <2>2, <2>3, NewestIsFull
  <2>5. since[q] \subseteq Scope(q) \cap (checkins \cup Gone)
    BY <1>4 DEF Figures, Counting
  <2> QED
    BY <1>2, <1>3, <2>2, <2>4, <2>5 DEF Scanning
<1> QED
  BY <1>8, <1>9, <1>10, <1>11, <1>12, <1>13 DEF Figures

LEMMA FiguresStep == Typed /\ FiguresInv /\ [Next]_vars => FiguresInv'
<1> SUFFICES ASSUME Typed, FiguresInv, [Next]_vars PROVE FiguresInv'
  OBVIOUS
<1>0. /\ pc \in [Requests -> Steps] /\ left \in [Requests -> Seq(SUBSET Queries)]
      /\ rows \in [Requests -> [Queries -> SUBSET Registrants]]
      /\ target \in [Requests -> Orgs \cup {NoOrg}]
      /\ version \in [Requests -> Nat] /\ missing \in [Requests -> SUBSET Registrants]
      /\ since \in [Requests -> SUBSET Registrants]
      /\ \A p \in Requests : Figures(p)
  BY DEF Typed, TypeOK, FiguresInv
<1>1. CASE Writing
  BY <1>1, FiguresWrite
<1>2. CASE Tick \/ UNCHANGED vars
  <2>1. UNCHANGED <<status, checkins, writes>> /\ \A p \in Requests : UNCHANGED Own(p)
    BY <1>2 DEF Tick, vars, Own, history, dbVars
  <2> QED
    BY <1>0, <2>1, FiguresSame DEF FiguresInv
<1>3. ASSUME NEW q \in Requests,
             \/ Fire(q) \/ Ask(q) \/ Refuse(q) \/ FromCache(q) \/ NotFound(q) \/ Compute(q)
             \/ FindToRename(q) \/ Rename(q)
             \/ Read(q) \/ Fail(q) \/ Publish(q) \/ Respond(q) \/ Show(q) \/ Lost(q)
      PROVE  FiguresInv'
  <2>1. UNCHANGED <<status, checkins, writes>>
    BY <1>3 DEF Fire, Ask, Refuse, FromCache, NotFound, Compute, FindToRename, Rename, Read, Fail,
                Publish, Respond, Show, Lost, dbVars
  <2>2. ASSUME NEW p \in Requests, p # q PROVE UNCHANGED Own(p)
    <3>1. CASE Read(q)
      <4>1. rows'[p] = rows[p] /\ left'[p] = left[p]
        BY <1>0, <2>2, <3>1, TypedRead
      <4> QED
        BY <1>0, <2>2, <3>1, <4>1 DEF Read, Goto, Own
    <3>2. CASE Fail(q) \/ Publish(q) \/ Respond(q) \/ Rename(q)
      BY <1>0, <2>2, <3>2 DEF Fail, Publish, Respond, Rename, Forget, Goto, Own
    <3>3. CASE Compute(q) \/ FindToRename(q)
      BY <1>0, <2>2, <3>3 DEF Compute, FindToRename, Goto, Own, history
    <3>4. CASE Fire(q) \/ Ask(q) \/ Refuse(q) \/ FromCache(q) \/ NotFound(q) \/ Show(q) \/ Lost(q)
      BY <1>0, <2>2, <3>4 DEF Fire, Ask, Refuse, FromCache, NotFound, Show, Lost, Goto, Own, history
    <3> QED
      BY <1>3, <3>1, <3>2, <3>3, <3>4
  <2>3. Figures(q)'
    <3>1. CASE Read(q) \/ Compute(q)
      BY <3>1, FiguresRead, FiguresCompute DEF FiguresInv
    <3>2. CASE Fire(q) \/ Ask(q)
      <4>1. pc'[q] = "sent" /\ pc[q] = "idle" /\ rows' = rows
        BY <1>0, <3>2 DEF Fire, Ask, At, Goto
      <4> QED
        BY <1>0, <4>1 DEF Figures, Blank, Counting, Listing, Scanning, Missing, Present, Started
    <3>3. CASE Refuse(q) \/ FromCache(q) \/ NotFound(q) \/ FindToRename(q) \/ Rename(q) \/ Fail(q)
               \/ Publish(q) \/ Respond(q) \/ Show(q) \/ Lost(q)
      <4>1. pc'[q] \in {"done", "answered", "renaming"}
        BY <1>0, <3>3 DEF Refuse, FromCache, NotFound, FindToRename, Rename, Fail, Publish,
                          Respond, Show, Lost, Goto
      <4> QED
        BY <4>1 DEF Figures, Blank, Counting, Listing, Scanning, Missing, Present, Started
    <3> QED
      BY <1>3, <3>1, <3>2, <3>3
  <2> QED
    BY <1>0, <2>1, <2>2, <2>3, FiguresSame DEF FiguresInv
<1> QED
  BY <1>1, <1>2, <1>3 DEF Next, Writing

LEMMA FiguresAlways == Spec => []FiguresInv
<1>1. Init => FiguresInv
  BY DEF Init, FiguresInv, Figures, Blank, Counting, Listing, Scanning, Missing, Present, Started
<1> QED
  BY <1>1, TypedAlways, FiguresStep, PTL DEF Spec

\* The figures of the no-show query, when the sets it counted are known.
LEMMA NoShowArithmetic ==
  ASSUME NEW A, NEW M, NEW C, NEW R, IsFiniteSet(A), IsFiniteSet(C), M \subseteq A,
         R \subseteq A \ M, A \ M \subseteq C \cup R
  PROVE  /\ Cardinality(A) \in Nat /\ Cardinality(C) \in Nat /\ Cardinality(M) \in Nat
         /\ Cardinality(R) \in Nat
         /\ Cardinality(A) - Cardinality(C) <= Cardinality(M) + Cardinality(R)
         /\ C \subseteq A /\ M = A \ C => Cardinality(A) - Cardinality(C) = Cardinality(M)
<1>1. /\ IsFiniteSet(M) /\ IsFiniteSet(A \ M) /\ IsFiniteSet(R)
      /\ Cardinality(A \ M) = Cardinality(A) - Cardinality(A \cap M)
  BY FS_Subset, FS_Difference
<1>2. A \cap M = M
  OBVIOUS
<1>3. /\ IsFiniteSet(C \cup R)
      /\ Cardinality(C \cup R) = Cardinality(C) + Cardinality(R) - Cardinality(C \cap R)
      /\ IsFiniteSet(C \cap R)
  BY <1>1, FS_Union, FS_Intersection
<1>4. Cardinality(A \ M) <= Cardinality(C \cup R)
  BY <1>3, FS_Subset
<1>5. /\ Cardinality(A) \in Nat /\ Cardinality(C) \in Nat /\ Cardinality(M) \in Nat
      /\ Cardinality(A \ M) \in Nat /\ Cardinality(R) \in Nat /\ Cardinality(C \cap R) \in Nat
  BY <1>1, <1>3, FS_CardinalityType
<1>6. Cardinality(A \ M) = Cardinality(A) - Cardinality(M)
  BY <1>1, <1>2
<1>7. Cardinality(A) - Cardinality(C) <= Cardinality(M) + Cardinality(R)
  BY ONLY <1>3, <1>4, <1>5, <1>6
<1>8. ASSUME C \subseteq A, M = A \ C PROVE Cardinality(A) - Cardinality(C) = Cardinality(M)
  <2>1. C = A \ M
    BY <1>8
  <2> QED
    BY ONLY <1>5, <1>6, <2>1
<1> QED
  BY <1>5, <1>7, <1>8

(***************************************************************************)
(* The figures of the queries hold, whatever is written between them, a    *)
(* link and all its registrants deleted included                           *)
(* (analytics.service.ts:914,953, attendees.service.ts:107,                *)
(* queue.provider.ts).                                                     *)
(***************************************************************************)
THEOREM FiguresAreSound == Spec => []FiguresHold
<1>1. ASSUME Typed, FiguresInv, NEW q \in Requests, pc[q] = "ready", Job[q].op = "noShow",
             NEW R, R = (rows[q]["approved"] \ missing[q]) \cap Gone
      PROVE  /\ NoShowCount(q) <= Cardinality(missing[q]) + Cardinality(R)
             /\ version[q] = writes /\ rows[q]["checkins"] \subseteq With(q, "APPROVED")
                => NoShowCount(q) = Cardinality(missing[q])
  <2> DEFINE A == rows[q]["approved"]
             C == rows[q]["checkins"]
             M == missing[q]
  <2>1. /\ M \subseteq A /\ R \subseteq A \ M /\ A \ M \subseteq C \cup R
        /\ version[q] = writes => A = With(q, "APPROVED") /\ M = NoShows(q) /\ C = Checked(q)
    BY <1>1 DEF FiguresInv, Figures, Missing, Arrived, Started
  <2>2. IsFiniteSet(A) /\ IsFiniteSet(C)
    <3>1. A \subseteq Registrants /\ C \subseteq Registrants
      BY <1>1 DEF Typed, TypeOK, Queries
    <3> QED
      BY <3>1, FiniteAssumption, FS_Subset
  <2>3. /\ Cardinality(A) \in Nat /\ Cardinality(C) \in Nat /\ Cardinality(M) \in Nat
        /\ Cardinality(R) \in Nat
        /\ Cardinality(A) - Cardinality(C) <= Cardinality(M) + Cardinality(R)
        /\ C \subseteq A /\ M = A \ C => Cardinality(A) - Cardinality(C) = Cardinality(M)
    <3> HIDE DEF A, C, M
    <3> QED
      BY <2>1, <2>2, NoShowArithmetic
  <2>4. version[q] = writes => M = A \ C
    BY <2>1 DEF NoShows, With, Checked
  <2>5. NoShowCount(q) = IF Cardinality(A) - Cardinality(C) > 0 THEN Cardinality(A) - Cardinality(C) ELSE 0
    BY DEF NoShowCount
  <2> HIDE DEF A, C, M
  <2>6. NoShowCount(q) <= Cardinality(M) + Cardinality(R)
    BY <2>3, <2>5
  <2>7. version[q] = writes /\ C \subseteq With(q, "APPROVED") => NoShowCount(q) = Cardinality(M)
    BY <2>1, <2>3, <2>4, <2>5
  <2> QED
    BY <2>6, <2>7 DEF C, M
<1>2. Typed /\ FiguresInv => FiguresHold
  <2> SUFFICES ASSUME Typed, FiguresInv, NEW q \in Requests, pc[q] = "ready",
                      NEW come, come = rows[q]["checkins"] \cup Gone
               PROVE  /\ Job[q].op \notin Partial => since[q] \subseteq come
                      /\ Job[q].op = "lastScanned" =>
                           since[q] \subseteq come \/ Cardinality(rows[q]["checkins"]) >= Limit
                      /\ Job[q].op \in Listings => since[q] \cap rows[q]["page"] \subseteq come
                      /\ Job[q].op = "CHECKED_IN_LIST" => rows[q]["CHECKED_IN_LIST"] \subseteq come
    BY <1>1 DEF FiguresHold, At
  <2>0. Figures(q) /\ Started(q)
    BY DEF FiguresInv, Started
  <2>1. Job[q].op \notin Partial => since[q] \subseteq come
    <3>1. ~ Due(<<>>, "checkins")
      BY DEF Due
    <3> QED
      BY <2>0, <3>1 DEF Figures, Counting
  <2>2. Job[q].op \in Listings => since[q] \cap rows[q]["page"] \subseteq come
    BY <2>0 DEF Figures, Listing
  <2>3. Job[q].op = "lastScanned" =>
          since[q] \subseteq come \/ Cardinality(rows[q]["checkins"]) >= Limit
    BY <2>0 DEF Figures, Scanning
  <2>4. Job[q].op = "CHECKED_IN_LIST" => rows[q]["CHECKED_IN_LIST"] \subseteq come
    BY <2>0 DEF Figures, Present
  <2> QED
    BY <2>1, <2>2, <2>3, <2>4
<1> QED
  BY <1>2, TypedAlways, FiguresAlways, PTL

----------------------------------------------------------------------------
(***************************************************************************)
(* The cache.  An entry is of the organization that has its code, or the   *)
(* computation that left it there was under way, or over, when the code    *)
(* changed hands.                                                          *)
(***************************************************************************)
Started0(p) == pc[p] \notin {"idle", "sent"}

Keys == Servers \X Codes

Entry(k, a) ==
  a.stored >= 0 =>
    /\ a.org \in Orgs
    /\ a.since \subseteq a.rows["checkins"] \cup Gone
    /\ \A r \in a.rows["checkins"] \cup a.rows["registrants"] : OrgOf[r] = a.org
    /\ code[a.org] = k[2] \/ a.by \subseteq outdated
    /\ \A p \in a.by : p \in Requests /\ Started0(p) /\ Key(p) = k

CodeInv ==
  /\ \A k \in Keys : Entry(k, cache[k])
  /\ \A q \in Requests :
       Started(q) /\ IsOverview(q) => code[target[q]] = Job[q].org \/ q \in outdated

LEMMA ResultIsEntry ==
  ASSUME Typed, FiguresInv, CodeInv, NEW q \in Requests, pc[q] = "ready", IsOverview(q)
  PROVE  LET a == Result(q)
         IN  /\ a.stored = now /\ a.org \in Orgs /\ a.by = {q}
             /\ a.since \subseteq a.rows["checkins"] \cup Gone
             /\ \A r \in a.rows["checkins"] \cup a.rows["registrants"] : OrgOf[r] = a.org
             /\ code[a.org] = Job[q].org \/ a.by \subseteq outdated
<1>1. Started(q) /\ Counting(q) /\ Steady(q)
  BY DEF Started, FiguresInv, Figures, Typed
<1>2. since[q] \subseteq rows[q]["checkins"] \cup Gone
  <2>1. ~ Due(<<>>, "checkins")
    BY DEF Due
  <2> QED
    BY <1>1, <2>1 DEF Counting, IsOverview, Partial, Listings
<1>3. rows[q]["checkins"] \subseteq Scope(q) /\ rows[q]["registrants"] \subseteq Scope(q)
  BY <1>1 DEF Counting, Queries
<1>4. \A r \in Scope(q) : OrgOf[r] = target[q]
  BY DEF Scope
<1>5. target[q] \in Orgs /\ (code[target[q]] = Job[q].org \/ q \in outdated)
  BY <1>1 DEF Steady, CodeInv
<1> QED
  BY <1>2, <1>3, <1>4, <1>5 DEF Result

LEMMA CodeAside ==
  ASSUME CodeInv, UNCHANGED <<cache, code, outdated, target>>, Gone \subseteq Gone',
         \A p \in Requests : \/ pc'[p] = pc[p]
                             \/ pc'[p] \notin {"idle", "sent", "reading", "ready"}
                             \/ pc'[p] = "sent" /\ pc[p] = "idle"
                             \/ Started(p) /\ pc'[p] \in {"reading", "ready"}
  PROVE  CodeInv'
<1>1. \A p \in Requests : Started0(p) => Started0(p)'
  BY DEF Started0, Started
<1>2. \A p \in Requests : Started(p)' => Started(p)
  BY DEF Started
<1> QED
  BY <1>1, <1>2 DEF CodeInv, Entry, IsOverview, Key

LEMMA CodeRename ==
  ASSUME Typed, CodeInv, NEW q \in Requests, Rename(q)
  PROVE  CodeInv'
<1> DEFINE o == target[q]
<1>1. /\ pc \in [Requests -> Steps] /\ pc' = [pc EXCEPT ![q] = "done"] /\ pc[q] = "renaming"
      /\ cache' = cache /\ Gone' = Gone /\ code \in [Orgs -> Codes] /\ outdated \subseteq outdated'
      /\ \A p \in Requests : p # q => target'[p] = target[p]
      /\ o \in Orgs
  BY DEF Rename, Forget, At, Goto, Typed, TypeOK, Steady, Gone, dbVars
<1>2. \A p \in Requests : Started0(p) => Started0(p)'
  BY <1>1 DEF Started0
<1>3. \A u \in Orgs : code'[u] = code[u] \/
        (u = o /\ \A p \in Requests : Started0(p) /\ Job[p].org = code[o] => p \in outdated')
  BY <1>1 DEF Rename, Started0
<1> HIDE DEF o
<1>4. ASSUME NEW k \in Keys PROVE Entry(k, cache[k])'
  <2>1. \A p \in Requests : Key(p) = k => Job[p].org = k[2]
    BY DEF Key
  <2>2. Entry(k, cache[k])
    BY <1>4 DEF CodeInv
  <2>3. cache'[k] = cache[k] /\ \A p : Key(p)' = Key(p)
    BY <1>1 DEF Key
  <2> QED
    BY <1>1, <1>2, <1>3, <2>1, <2>2, <2>3 DEF Entry
<1>5. ASSUME NEW p \in Requests, Started(p)', IsOverview(p)
      PROVE  code'[target'[p]] = Job[p].org \/ p \in outdated'
  <2>1. p # q /\ Started(p) /\ target'[p] = target[p] /\ target[p] \in Orgs
    BY <1>1, <1>5 DEF Started, Typed, Steady
  <2> QED
    BY <1>1, <1>3, <1>5, <2>1 DEF CodeInv, Started, Started0
<1> QED
  BY <1>4, <1>5 DEF CodeInv, IsOverview

LEMMA CodeStep == Typed /\ FiguresInv /\ CodeInv /\ [Next]_vars => CodeInv'
<1> SUFFICES ASSUME Typed, FiguresInv, CodeInv, [Next]_vars PROVE CodeInv'
  OBVIOUS
<1>0. pc \in [Requests -> Steps] /\ target \in [Requests -> Orgs \cup {NoOrg}]
  BY DEF Typed, TypeOK
<1>1. CASE Writing
  <2>1. Written
    BY <1>1, WritingTyped
  <2>2. Gone \subseteq Gone'
    BY <2>1 DEF Written, Gone
  <2> QED
    BY <2>1, <2>2, CodeAside DEF Written, Aside, history
<1>2. CASE Tick \/ UNCHANGED vars
  BY <1>2, CodeAside DEF Tick, vars, history, Gone, dbVars
<1>3. ASSUME NEW q \in Requests,
             Fire(q) \/ Ask(q) \/ Refuse(q) \/ FromCache(q) \/ NotFound(q) \/ Show(q) \/ Lost(q)
      PROVE  CodeInv'
  BY <1>0, <1>3, CodeAside
  DEF Fire, Ask, Refuse, FromCache, NotFound, Show, Lost, At, Goto, history, Gone, dbVars
<1>4. ASSUME NEW q \in Requests, Compute(q) \/ FindToRename(q) PROVE CodeInv'
  <2>1. /\ UNCHANGED <<cache, code, outdated>> /\ pc[q] = "sent" /\ Gone' = Gone
        /\ \E step \in {"reading", "renaming"} :
             pc' = [pc EXCEPT ![q] = step] /\ (step = "reading" => Compute(q))
    BY <1>4 DEF Compute, FindToRename, Misses, At, Goto, history, Gone, dbVars
  <2>2. PICK u \in Orgs : target' = [target EXCEPT ![q] = u] /\ (IsOverview(q) => code[u] = Job[q].org)
    BY <1>4 DEF Compute, FindToRename, Named, Holders, IsOverview
  <2>3. \A p \in Requests : Started0(p) => Started0(p)'
    BY <1>0, <2>1 DEF Started0
  <2>4. ASSUME NEW p \in Requests, Started(p)', IsOverview(p)
        PROVE  code'[target'[p]] = Job[p].org \/ p \in outdated'
    <3>1. CASE p = q
      BY <1>0, <2>1, <2>2, <2>4, <3>1
    <3>2. CASE p # q
      BY <1>0, <2>1, <2>2, <2>4, <3>2 DEF CodeInv, Started
    <3> QED
      BY <3>1, <3>2
  <2> QED
    BY <2>1, <2>3, <2>4 DEF CodeInv, Entry, IsOverview, Key
<1>5. ASSUME NEW q \in Requests, Read(q) PROVE CodeInv'
  BY <1>0, <1>5, CodeAside DEF Read, At, Goto, Started, Gone, dbVars
<1>6. ASSUME NEW q \in Requests, Fail(q) \/ Respond(q) PROVE CodeInv'
  <2>1. /\ UNCHANGED <<cache, code, outdated>> /\ Gone' = Gone /\ pc' = [pc EXCEPT ![q] = "done"]
        /\ \A p \in Requests : p # q => target'[p] = target[p]
    BY <1>0, <1>6 DEF Fail, Respond, Goto, Forget, Gone, dbVars
  <2>2. \A p \in Requests : Started0(p) => Started0(p)'
    BY <1>0, <2>1 DEF Started0
  <2>3. \A p \in Requests : Started(p)' => Started(p) /\ p # q
    BY <1>0, <2>1 DEF Started
  <2> QED
    BY <2>1, <2>2, <2>3 DEF CodeInv, Entry, IsOverview, Key
<1>7. ASSUME NEW q \in Requests, Publish(q) PROVE CodeInv'
  <2>1. /\ UNCHANGED <<code, outdated>> /\ pc' = [pc EXCEPT ![q] = "answered"]
        /\ cache' = [cache EXCEPT ![Key(q)] = Result(q)] /\ Gone' = Gone
        /\ pc[q] = "ready" /\ IsOverview(q)
        /\ \A p \in Requests : p # q => target'[p] = target[p]
    BY <1>0, <1>7 DEF Publish, At, Goto, Forget, Gone, dbVars
  <2>2. \A p \in Requests : Started0(p) => Started0(p)'
    BY <1>0, <2>1 DEF Started0
  <2>3. \A p \in Requests : Started(p)' => Started(p) /\ p # q
    BY <1>0, <2>1 DEF Started
  <2>4. ASSUME NEW k \in Keys PROVE Entry(k, cache[k])'
    <3>1. CASE k = Key(q)
      <4>1. Started0(q)' /\ cache \in [Keys -> AnswerType]
        BY <1>0, <2>1 DEF Started0, Typed, TypeOK, Keys
      <4>2. cache'[k] = Result(q) /\ k[2] = Job[q].org
        BY <2>1, <2>4, <3>1, <4>1 DEF Key
      <4> QED
        BY <2>1, <3>1, <4>1, <4>2, ResultIsEntry DEF Entry, Key
    <3>2. CASE k # Key(q)
      <4>1. cache'[k] = cache[k]
        BY <2>1, <2>4, <3>2 DEF Typed, TypeOK, Keys
      <4> QED
        BY <2>1, <2>2, <2>4, <4>1 DEF CodeInv, Entry, Key
    <3> QED
      BY <3>1, <3>2
  <2> QED
    BY <2>1, <2>3, <2>4 DEF CodeInv, IsOverview
<1>8. ASSUME NEW q \in Requests, Rename(q) PROVE CodeInv'
  BY <1>8, CodeRename
<1> QED
  BY <1>1, <1>2, <1>3, <1>4, <1>5, <1>6, <1>7, <1>8
  DEF Next, Writing

LEMMA CodeAlways == Spec => []CodeInv
<1>1. Init => CodeInv
  <2>1. \A k \in Keys : Init => cache[k].stored = -1
    BY DEF Init, NoAnswer, Keys
  <2>2. ~(-1 >= 0)
    OBVIOUS
  <2> QED
    BY <2>1, <2>2 DEF Init, CodeInv, Entry, Started
<1> QED
  BY <1>1, TypedAlways, FiguresAlways, CodeStep, PTL DEF Spec

(***************************************************************************)
(* What an overview answers is recent, holds the check-ins there were when *)
(* it was computed, and is of the organization its code names, or named    *)
(* when the code changed hands (analytics.service.ts:392,622).             *)
(***************************************************************************)
THEOREM OverviewsAreRecent == Spec => AnswersAreRecent
<1> DEFINE Answered ==
      \A q \in Requests :
        IsOverview(q) /\ ~ At(q, "answered") /\ pc'[q] = "answered" =>
          LET a == answer'[q]
          IN  /\ now < a.stored + TTL
              /\ \A p \in a.by : Job[p].server = Job[q].server
              /\ a.since \subseteq a.rows["checkins"] \cup Gone
              /\ \A r \in a.rows["checkins"] \cup a.rows["registrants"] : OrgOf[r] = a.org
              /\ code[a.org] = Job[q].org \/ a.by \subseteq outdated
<1>1. ASSUME Typed, FiguresInv, CodeInv, [Next]_vars PROVE Answered
  <2> SUFFICES ASSUME NEW q \in Requests, IsOverview(q), pc[q] # "answered", pc'[q] = "answered"
               PROVE  LET a == answer'[q]
                      IN  /\ now < a.stored + TTL
                          /\ \A p \in a.by : Job[p].server = Job[q].server
                          /\ a.since \subseteq a.rows["checkins"] \cup Gone
                          /\ \A r \in a.rows["checkins"] \cup a.rows["registrants"] : OrgOf[r] = a.org
                          /\ code[a.org] = Job[q].org \/ a.by \subseteq outdated
    BY DEF At
  <2>0. /\ pc \in [Requests -> Steps] /\ answer \in [Requests -> AnswerType]
        /\ cache \in [Keys -> AnswerType] /\ now \in Nat /\ TTL \in Nat \ {0}
        /\ Key(q) \in Keys /\ Key(q)[2] = Job[q].org
    BY <1>1, JobTyped, BoundsAssumption DEF Typed, TypeOK, Keys, Key
  <2>1. FromCache(q) \/ Publish(q)
    <3>1. ~ Writing
      BY <1>1, WritingTyped DEF Written, Aside
    <3>2. ~ Tick /\ ~ UNCHANGED vars
      BY DEF Tick, vars
    <3>3. \A p \in Requests :
            /\ ~ Fire(p) /\ ~ Ask(p) /\ ~ Refuse(p) /\ ~ NotFound(p) /\ ~ Compute(p)
            /\ ~ FindToRename(p) /\ ~ Rename(p) /\ ~ Read(p) /\ ~ Fail(p) /\ ~ Respond(p)
            /\ ~ Show(p) /\ ~ Lost(p)
      BY <2>0 DEF Fire, Ask, Refuse, NotFound, Compute, FindToRename, Rename, Read, Fail, Respond,
                  Show, Lost, Goto
    <3>4. \A p \in Requests : p # q => ~ FromCache(p) /\ ~ Publish(p)
      BY <2>0 DEF FromCache, Publish, Goto
    <3>5. \E p \in Requests : FromCache(p) \/ Publish(p)
      BY <1>1, <3>1, <3>2, <3>3 DEF Next, Writing
    <3> QED
      BY <3>4, <3>5
  <2>2. CASE FromCache(q)
    <3>1. /\ answer'[q] = cache[Key(q)] /\ cache[Key(q)].stored >= 0
          /\ cache[Key(q)].stored + TTL > now
      BY <2>0, <2>2 DEF FromCache, Hit
    <3>2. cache[Key(q)].stored \in Int
      <4>1. cache[Key(q)] \in AnswerType
        BY <2>0
      <4> QED
        BY <4>1, BoundsAssumption DEF AnswerType
    <3>3. Entry(Key(q), cache[Key(q)])
      BY <1>1, <2>0 DEF CodeInv
    <3>4. \A p \in Requests : Key(p) = Key(q) => Job[p].server = Job[q].server
      BY DEF Key
    <3> QED
      BY <2>0, <3>1, <3>2, <3>3, <3>4 DEF Entry
  <2>3. CASE Publish(q)
    <3>1. answer'[q] = Result(q) /\ pc[q] = "ready"
      BY <2>0, <2>3 DEF Publish, At
    <3> QED
      BY <1>1, <2>0, <3>1, ResultIsEntry
  <2> QED
    BY <2>1, <2>2, <2>3
<1>2. Typed /\ FiguresInv /\ CodeInv /\ [Next]_vars => [Answered]_vars
  BY <1>1
<1> QED
  BY <1>2, TypedAlways, FiguresAlways, CodeAlways, PTL DEF Spec, AnswersAreRecent

----------------------------------------------------------------------------
(***************************************************************************)
(* What a page shows.  The answers under a code are those cached by the    *)
(* processes, those on their way to a page, and those pages show.  What a  *)
(* process has cached is behind none of them that it computed itself, and  *)
(* neither is what a computation has read, unless two ran at once; a load  *)
(* that was not overtaken brings what it was answered to the page that     *)
(* shows what it did when the load began.                                  *)
(***************************************************************************)
Counted == {"checkins", "registrants"}
Loads(c) == {q \in Requests : IsOverview(q) /\ Job[q].org = c}
AnswersOf(c) == {cache[<<s, c>>] : s \in Servers} \cup {answer[q] : q \in Loads(c)}
                           \cup {shown[Job[q].page] : q \in Loads(c)}
InFlight(q) == pc[q] \in {"sent", "reading", "ready", "answered"}

Spoilt(a) == a.by \cap outdated # {}
Behind(a, e) == \/ e.by \cap raced # {} \/ Spoilt(a)
                \/ Elsewhere(a, e)
                \/ \A query \in Counted : a.rows[query] \subseteq e.rows[query] \cup Gone

\* The rows a query of the overview is about, and those that are gone.
InBase(query) == IF query = "checkins" THEN checkins \cup Gone
                 ELSE {r \in Registrants : status[r] # "none"}

Held(c, a) ==
  \/ a = NoAnswer
  \/ /\ a.org \in Orgs /\ a.stored >= 0
     /\ \A query \in Counted : /\ a.rows[query] \subseteq InBase(query)
                               /\ \A r \in a.rows[query] : OrgOf[r] = a.org
     /\ \E b \in Loads(c) : a.by = {b} /\ Started0(b)
     /\ code[a.org] = c \/ Spoilt(a)

\* Another process computed it.
Foreign(x, a) == \E b \in a.by : Job[b].server # Job[x].server

\* A computation has, or will have, what an answer from before it has.
Covers(x, a) ==
  \/ a = NoAnswer \/ Spoilt(a) \/ Foreign(x, a)
  \/ /\ a.org = target[x]
     /\ \A query \in Counted : Due(left[x], query)
                               \/ a.rows[query] \subseteq rows[x][query] \cup Gone

\* No cache would bring it back.
Newer(c, a) == \A s \in Servers : cache[<<s, c>>] # NoAnswer => Behind(a, cache[<<s, c>>])

AnswersHeld == \A c \in Codes : \A a \in AnswersOf(c) : Held(c, a) /\ Newer(c, a)

ComputationsCover ==
  \A c \in Codes : \A x \in Loads(c) :
    Started(x) =>
      /\ \A query \in Counted : rows[x][query] \subseteq InBase(query)
      /\ \A y \in Loads(c) \ {x} : Started(y) /\ Key(y) = Key(x) => x \in raced
      /\ x \notin raced => \A a \in AnswersOf(c) : Covers(x, a)

LoadsApart ==
  \A q \in Requests :
    /\ pc[q] = "answered" => IsOverview(q)
    /\ IsOverview(q) /\ InFlight(q) =>
         \A p \in Requests \ {q} :
           IsOverview(p) /\ InFlight(p) /\ Job[p].page = Job[q].page => q \in overtaken

LoadsAdvance ==
  \A q \in Requests :
    pc[q] = "answered" => q \in overtaken \/ Behind(shown[Job[q].page], answer[q])

AdvanceInv == AnswersHeld /\ ComputationsCover /\ LoadsApart /\ LoadsAdvance

\* What the steps of the overview leave alone, and what only grows.
Growing ==
  /\ raced \subseteq raced' /\ outdated \subseteq outdated' /\ overtaken \subseteq overtaken'
  /\ \A query \in Counted : InBase(query) \subseteq InBase(query)'
  /\ Gone \subseteq Gone'
  /\ \A p \in Requests : Started0(p) => Started0(p)'

\* No answer is new: what is answered now was cached, what is shown was answered.
NothingNew ==
  /\ cache' = cache
  /\ \A p \in Requests :
       IsOverview(p) =>
         /\ answer'[p] \in {answer[p], NoAnswer, cache[Key(p)]}
         /\ \/ shown'[Job[p].page] = shown[Job[p].page]
            \/ \E o \in Requests : /\ IsOverview(o) /\ Job[o].page = Job[p].page
                                   /\ shown'[Job[p].page] = answer[o]

LEMMA AnswersMove ==
  ASSUME NothingNew, NEW c \in Codes, NEW a \in AnswersOf(c)'
  PROVE  a = NoAnswer \/ a \in AnswersOf(c)
<1>1. cache' = cache
  BY DEF NothingNew
<1>2. \A q \in Loads(c) : answer'[q] \in AnswersOf(c) \cup {NoAnswer}
  <2> TAKE q \in Loads(c)
  <2>1. Job[q].server \in Servers /\ Key(q) = <<Job[q].server, c>> /\ q \in Requests /\ IsOverview(q)
    BY JobTyped DEF Loads, Key
  <2> QED
    BY <2>1 DEF NothingNew, AnswersOf
<1>3. \A q \in Loads(c) : shown'[Job[q].page] \in AnswersOf(c)
  <2> TAKE q \in Loads(c)
  <2>1. CASE shown'[Job[q].page] = shown[Job[q].page]
    BY <2>1 DEF AnswersOf
  <2>2. ASSUME NEW o \in Requests, IsOverview(o), Job[o].page = Job[q].page,
               shown'[Job[q].page] = answer[o]
        PROVE  shown'[Job[q].page] \in AnswersOf(c)
    <3>1. o \in Loads(c)
      BY <2>2, PageAssumption DEF Loads, IsOverview
    <3> QED
      BY <2>2, <3>1 DEF AnswersOf
  <2> QED
    BY <2>1, <2>2 DEF NothingNew, Loads
<1>4. Loads(c)' = Loads(c)
  BY DEF Loads, IsOverview
<1> QED
  BY <1>1, <1>2, <1>3, <1>4 DEF AnswersOf

LEMMA SpoiltStays == ASSUME Growing, NEW a, Spoilt(a) PROVE Spoilt(a)'
  BY DEF Spoilt, Growing

LEMMA BehindStays == ASSUME Growing, NEW a, NEW e, Behind(a, e) PROVE Behind(a, e)'
  BY DEF Behind, Spoilt, Growing, Elsewhere

LEMMA NothingIsBehind == ASSUME NEW e PROVE Behind(NoAnswer, e)
  BY DEF Behind, NoAnswer, NoRows, Counted, Queries

\* A code that changes hands spoils the answers that were computed under it.
Accounted ==
  \A u \in Orgs : code'[u] = code[u]
                  \/ \A p \in Requests : Started0(p) /\ Job[p].org = code[u] => p \in outdated'

LEMMA HeldStays ==
  ASSUME Growing, Accounted, NEW c \in Codes, NEW a, Held(c, a)
  PROVE  Held(c, a)'
<1> SUFFICES ASSUME a # NoAnswer PROVE Held(c, a)'
  BY DEF Held, NoAnswer, NoRows
<1>1. PICK b \in Loads(c) : a.by = {b} /\ Started0(b)
  BY DEF Held
<1>2. b \in Loads(c)' /\ Started0(b)' /\ b \in Requests /\ Job[b].org = c
  BY <1>1 DEF Loads, Growing, IsOverview
<1>3. /\ a.org \in Orgs /\ a.stored >= 0
      /\ \A query \in Counted : /\ a.rows[query] \subseteq InBase(query)'
                                /\ \A r \in a.rows[query] : OrgOf[r] = a.org
  BY DEF Held, Growing
<1>4. code'[a.org] = c \/ Spoilt(a)'
  <2>1. CASE Spoilt(a)
    BY <2>1, SpoiltStays
  <2>2. CASE code[a.org] = c
    BY <1>1, <1>2, <1>3, <2>2 DEF Accounted, Spoilt
  <2> QED
    BY <2>1, <2>2 DEF Held
<1> QED
  BY <1>1, <1>2, <1>3, <1>4 DEF Held, Counted

LEMMA AnswersAside ==
  ASSUME AnswersHeld, Growing, Accounted, NothingNew
  PROVE  AnswersHeld'
<1> SUFFICES ASSUME NEW c \in Codes, NEW a \in AnswersOf(c)'
             PROVE  Held(c, a)' /\ Newer(c, a)'
  BY DEF AnswersHeld
<1>1. CASE a = NoAnswer
  <2>1. Held(c, a)'
    BY <1>1 DEF Held, NoAnswer, NoRows
  <2>2. Newer(c, a)'
    BY <1>1 DEF Newer, Behind, NoAnswer, NoRows, Counted, Queries
  <2> QED
    BY <2>1, <2>2
<1>2. CASE a \in AnswersOf(c)
  <2>1. Held(c, a) /\ Newer(c, a)
    BY <1>2 DEF AnswersHeld
  <2>2. Newer(c, a)'
    BY <2>1, BehindStays DEF Newer, Behind, Spoilt, Elsewhere, Growing, NothingNew
  <2> QED
    BY <2>1, <2>2, HeldStays DEF NothingNew
<1> QED
  BY <1>1, <1>2, AnswersMove

LEMMA CoversStays ==
  ASSUME Growing, NEW x, NEW a, Covers(x, a), UNCHANGED <<left[x], rows[x], target[x]>>
  PROVE  Covers(x, a)'
  BY SpoiltStays DEF Covers, Counted, Due, NoAnswer, NoRows, Growing, Foreign

LEMMA ComputationsAside ==
  ASSUME ComputationsCover, Growing, NothingNew,
         \A x \in Requests :
           IsOverview(x) /\ Started(x)' =>
             Started(x) /\ UNCHANGED <<left[x], rows[x], target[x]>>
  PROVE  ComputationsCover'
<1> SUFFICES ASSUME NEW c \in Codes, NEW x \in Loads(c), Started(x)'
             PROVE  /\ \A query \in Counted : rows'[x][query] \subseteq InBase(query)'
                    /\ \A y \in Loads(c) \ {x} : Started(y)' /\ Key(y) = Key(x) => x \in raced'
                    /\ x \notin raced' => \A a \in AnswersOf(c)' : Covers(x, a)'
  BY DEF ComputationsCover, Loads, IsOverview, Counted, Key
<1>0. /\ x \in Requests /\ Started(x) /\ UNCHANGED <<left[x], rows[x], target[x]>>
      /\ \A y \in Loads(c) : y \in Requests /\ IsOverview(y)
  BY DEF Loads
<1>1. \A query \in Counted : rows'[x][query] \subseteq InBase(query)'
  BY <1>0 DEF ComputationsCover, Growing
<1>2. \A y \in Loads(c) \ {x} : Started(y)' /\ Key(y) = Key(x) => x \in raced'
  BY <1>0 DEF ComputationsCover, Growing
<1>3. ASSUME x \notin raced', NEW a \in AnswersOf(c)' PROVE Covers(x, a)'
  <2>1. CASE a = NoAnswer
    BY <2>1 DEF Covers, NoAnswer, NoRows
  <2>2. CASE a \in AnswersOf(c)
    <3>1. Covers(x, a)
      BY <1>0, <1>3, <2>2 DEF ComputationsCover, Growing
    <3> QED
      BY <1>0, <3>1, CoversStays
  <2> QED
    BY <2>1, <2>2, AnswersMove
<1> QED
  BY <1>1, <1>2, <1>3

LEMMA LoadsApartAside ==
  ASSUME LoadsApart, Growing,
         \A p \in Requests : /\ pc'[p] = "answered" => IsOverview(p)
                             /\ IsOverview(p) /\ InFlight(p)' => InFlight(p)
  PROVE  LoadsApart'
  BY DEF LoadsApart, Growing, IsOverview

LEMMA LoadsAdvanceAside ==
  ASSUME LoadsAdvance, Growing,
         \A p \in Requests :
           pc'[p] = "answered" =>
             /\ pc[p] = "answered"
             /\ \/ p \in overtaken
                \/ UNCHANGED <<answer[p], shown[Job[p].page]>>
  PROVE  LoadsAdvance'
  BY BehindStays DEF LoadsAdvance, Growing, Behind, Spoilt

LEMMA GrowingStep == Typed /\ [Next]_vars => Growing /\ Accounted
<1> SUFFICES ASSUME Typed, [Next]_vars PROVE Growing /\ Accounted
  OBVIOUS
<1>0. pc \in [Requests -> Steps] /\ Registrants = Registrants'
  BY DEF Typed, TypeOK
<1> USE DEF Growing, Accounted, InBase, Started0
<1>1. CASE Writing
  <2>1. Written
    BY <1>1, WritingTyped
  <2>2. Gone \subseteq Gone'
    BY <2>1 DEF Written, Gone
  <2> QED
    BY <2>1, <2>2 DEF Written, Aside, history
<1>2. CASE Tick \/ UNCHANGED vars
  BY <1>2 DEF Tick, vars, dbVars, history, Gone
<1>3. ASSUME NEW q \in Requests,
             \/ Fire(q) \/ Ask(q) \/ Refuse(q) \/ FromCache(q) \/ NotFound(q) \/ Compute(q)
             \/ FindToRename(q) \/ Read(q) \/ Fail(q) \/ Publish(q) \/ Respond(q)
             \/ Show(q) \/ Lost(q)
      PROVE  Growing /\ Accounted
  <2>1. UNCHANGED <<code, outdated, status, checkins>>
        /\ raced \subseteq raced' /\ overtaken \subseteq overtaken'
    BY <1>3 DEF Fire, Ask, Refuse, FromCache, NotFound, Compute, FindToRename, Read, Fail, Publish,
                Respond, Show, Lost, Forget, dbVars, history
  <2>2. \E step : pc' = [pc EXCEPT ![q] = step] /\ (step = "sent" => pc[q] = "idle") /\ step # "idle"
    BY <1>3 DEF Fire, Ask, Refuse, FromCache, NotFound, Compute, FindToRename, Read, Fail, Publish,
                Respond, Show, Lost, Goto, At
  <2> QED
    BY <1>0, <2>1, <2>2 DEF Gone
<1>4. ASSUME NEW q \in Requests, Rename(q) PROVE Growing /\ Accounted
  <2> DEFINE o == target[q]
  <2>1. /\ pc' = [pc EXCEPT ![q] = "done"] /\ code \in [Orgs -> Codes] /\ o \in Orgs
        /\ UNCHANGED <<status, checkins, raced, overtaken>> /\ outdated \subseteq outdated'
    BY <1>4 DEF Rename, Forget, Goto, At, Typed, TypeOK, Steady, dbVars
  <2>2. \A u \in Orgs : code'[u] = code[u] \/
          (u = o /\ \A p \in Requests : Started0(p) /\ Job[p].org = code[o] => p \in outdated')
    BY <1>4, <2>1 DEF Rename
  <2> HIDE DEF o
  <2> QED
    BY <1>0, <2>1, <2>2 DEF Gone
<1> QED
  BY <1>1, <1>2, <1>3, <1>4 DEF Next, Writing

\* Of another request, a step of a request changes nothing but what its page shows.
Apart(q) ==
  \A p \in Requests \ {q} :
    UNCHANGED <<pc[p], left[p], rows[p], target[p], answer[p]>>

LEMMA ApartStep ==
  ASSUME Typed, NEW q \in Requests,
         \/ Fire(q) \/ Ask(q) \/ Refuse(q) \/ FromCache(q) \/ NotFound(q) \/ Compute(q)
         \/ FindToRename(q) \/ Rename(q)
         \/ Read(q) \/ Fail(q) \/ Publish(q) \/ Respond(q) \/ Show(q) \/ Lost(q)
  PROVE  Apart(q)
<1>0. /\ pc \in [Requests -> Steps] /\ left \in [Requests -> Seq(SUBSET Queries)]
      /\ rows \in [Requests -> [Queries -> SUBSET Registrants]]
      /\ target \in [Requests -> Orgs \cup {NoOrg}] /\ answer \in [Requests -> AnswerType]
  BY DEF Typed, TypeOK
<1>1. CASE Read(q)
  <2>1. \A p \in Requests \ {q} : rows'[p] = rows[p] /\ left'[p] = left[p]
    BY <1>0, <1>1, TypedRead
  <2> QED
    BY <1>0, <1>1, <2>1 DEF Read, Goto, Apart
<1>2. CASE Fail(q) \/ Publish(q) \/ Respond(q) \/ Rename(q)
  BY <1>0, <1>2 DEF Fail, Publish, Respond, Rename, Forget, Goto, Apart
<1>3. CASE Compute(q) \/ FindToRename(q)
  BY <1>0, <1>3 DEF Compute, FindToRename, Goto, Apart, history
<1>4. CASE Fire(q) \/ Ask(q) \/ Refuse(q) \/ FromCache(q) \/ NotFound(q) \/ Show(q) \/ Lost(q)
  BY <1>0, <1>4 DEF Fire, Ask, Refuse, FromCache, NotFound, Show, Lost, Goto, Apart, history
<1> QED
  BY <1>1, <1>2, <1>3, <1>4

(***************************************************************************)
(* A computation covers the answers there are when it begins, because it   *)
(* has read nothing yet and is of the organization that has the code.      *)
(***************************************************************************)
LEMMA CoverCompute ==
  ASSUME Typed, FiguresInv, AnswersHeld, ComputationsCover, Growing, NothingNew,
         NEW q \in Requests, Compute(q), Apart(q)
  PROVE  ComputationsCover'
<1>0. /\ pc[q] = "sent" /\ pc'[q] = "reading" /\ UNCHANGED <<rows, cache, answer, shown>>
      /\ left'[q] = Plan(Job[q].op) /\ rows[q] = NoRows
      /\ UNCHANGED <<code, outdated, checkins, status>>
  BY DEF Compute, Misses, At, Goto, Typed, TypeOK, pageVars, dbVars, FiguresInv, Figures, Blank
<1>1. IsOverview(q) => target'[q] \in Orgs /\ code[target'[q]] = Job[q].org
  BY DEF Compute, Named, Holders, IsOverview, Typed, TypeOK
<1>2. ASSUME IsOverview(q), NEW query \in Counted PROVE Due(left'[q], query)
  <2>1. left'[q] = OverviewPlan
    BY <1>0, <1>2 DEF Plan, IsOverview, Lists
  <2>2. 1 \in 1..Len(OverviewPlan) /\ OverviewPlan[1] = Counted
    BY DEF OverviewPlan, Counted
  <2> QED
    BY <1>2, <2>1, <2>2 DEF Due
<1> SUFFICES ASSUME NEW c \in Codes, NEW x \in Loads(c), Started(x)'
             PROVE  /\ \A query \in Counted : rows'[x][query] \subseteq InBase(query)'
                    /\ \A y \in Loads(c) \ {x} : Started(y)' /\ Key(y) = Key(x) => x \in raced'
                    /\ x \notin raced' => \A a \in AnswersOf(c)' : Covers(x, a)'
  BY DEF ComputationsCover, Loads, IsOverview, Counted, Key
<1>3. /\ x \in Requests /\ IsOverview(x) /\ Job[x].org = c
      /\ \A y \in Loads(c) : y \in Requests /\ IsOverview(y) /\ Job[y].org = c
      /\ AnswersOf(c)' = AnswersOf(c)
  BY <1>0 DEF Loads, AnswersOf, IsOverview
<1>4. IsOverview(q) => \A y \in Requests \ {q} :
        IsOverview(y) /\ Key(y) = Key(q) /\ Started(y) => q \in raced' /\ y \in raced'
  BY DEF Compute, Started
<1>5. \A query \in Counted : rows'[x][query] \subseteq InBase(query)'
  <2>1. CASE x = q
    BY <1>0, <2>1 DEF NoRows, Counted, Queries
  <2>2. CASE x # q
    BY <1>3, <2>2 DEF ComputationsCover, Started, Apart, Growing
  <2> QED
    BY <2>1, <2>2
<1>6. ASSUME NEW y \in Loads(c) \ {x}, Started(y)', Key(y) = Key(x) PROVE x \in raced'
  <2>1. x # q => Started(x)
    BY <1>3 DEF Started, Apart
  <2>2. y # q => Started(y)
    BY <1>3, <1>6 DEF Started, Apart
  <2> QED
    BY <1>3, <1>4, <1>6, <2>1, <2>2 DEF ComputationsCover, Growing
<1>7. ASSUME x \notin raced', NEW a \in AnswersOf(c) PROVE Covers(x, a)'
  <2>1. CASE x = q
    <3> SUFFICES ASSUME a # NoAnswer, ~ Spoilt(a) PROVE Covers(x, a)'
      BY SpoiltStays DEF Covers, NoAnswer, NoRows
    <3>1. Held(c, a) /\ a.org \in Orgs /\ code[a.org] = c
      BY <1>7 DEF AnswersHeld, Held
    <3>2. a.org = target'[q]
      BY <1>1, <1>3, <2>1, <3>1 DEF Typed, TypeOK
    <3> QED
      BY <1>2, <1>3, <2>1, <3>2 DEF Covers, Counted, Due
  <2>2. CASE x # q
    <3>1. Started(x) /\ UNCHANGED <<left[x], rows[x], target[x]>>
      BY <1>3, <2>2 DEF Started, Apart
    <3>2. Covers(x, a)
      BY <1>7, <3>1 DEF ComputationsCover, Growing
    <3> QED
      BY <3>1, <3>2, CoversStays
  <2> QED
    BY <2>1, <2>2
<1> QED
  BY <1>3, <1>5, <1>6, <1>7

(***************************************************************************)
(* It goes on to, because what it reads is everything there is by then.    *)
(***************************************************************************)
LEMMA CoverRead ==
  ASSUME Typed, AnswersHeld, ComputationsCover, Growing, NothingNew,
         NEW q \in Requests, Read(q), Apart(q)
  PROVE  ComputationsCover'
<1>a. PICK query \in Head(left[q]) :
        /\ \E found \in Returned(q, query) : rows' = [rows EXCEPT ![q][query] = found]
        /\ left' = [left EXCEPT ![q] = After(left[q], query)]
        /\ query \in Queries
  BY TypedRead
<1>0. PICK found \in Returned(q, query) : rows' = [rows EXCEPT ![q][query] = found]
  BY <1>a
<1>1. /\ left[q] \in Seq(SUBSET Queries) /\ left[q] # <<>> /\ pc[q] = "reading"
      /\ left'[q] = After(left[q], query)
      /\ rows'[q] = [rows[q] EXCEPT ![query] = found]
      /\ rows[q] \in [Queries -> SUBSET Registrants]
      /\ UNCHANGED <<target, cache, answer, shown, raced, outdated, checkins, status>>
  BY <1>a, <1>0, TypedRead DEF Read, At, Typed, TypeOK, pageVars, dbVars
<1>2. \A z : Due(left[q], z) => z = query \/ Due(left'[q], z)
  BY <1>a, <1>1, AfterRemains
<1>3. /\ "checkins" \in Queries /\ "registrants" \in Queries
      /\ query = "checkins" /\ IsOverview(q) => found = Scope(q) \cap checkins
      /\ query = "registrants" => found = Known(q)
  BY <1>0 DEF Queries, Returned, Lists, Listings, IsOverview, Checked
<1>4. IsOverview(q) => Scope(q) = {r \in Registrants : OrgOf[r] = target[q]}
  BY PageAssumption DEF Scope, IsOverview
<1> SUFFICES ASSUME NEW c \in Codes, NEW x \in Loads(c), Started(x)'
             PROVE  /\ \A z \in Counted : rows'[x][z] \subseteq InBase(z)'
                    /\ \A y \in Loads(c) \ {x} : Started(y)' /\ Key(y) = Key(x) => x \in raced'
                    /\ x \notin raced' => \A a \in AnswersOf(c)' : Covers(x, a)'
  BY DEF ComputationsCover, Loads, IsOverview, Counted, Key
<1>5. /\ x \in Requests /\ IsOverview(x) /\ Job[x].org = c
      /\ \A y \in Loads(c) : y \in Requests
      /\ AnswersOf(c)' = AnswersOf(c)
      /\ \A y \in Requests : Started(y)' => Started(y)
      /\ \A z : InBase(z)' = InBase(z)
      /\ Gone' = Gone
  BY <1>1 DEF Loads, AnswersOf, IsOverview, Apart, Started, InBase, Gone
<1>6. ASSUME IsOverview(q), NEW z \in Counted, z = query
      PROVE  /\ rows'[q][z] \subseteq InBase(z)
             /\ {r \in InBase(z) : OrgOf[r] = target[q]} \subseteq rows'[q][z] \cup Gone
  BY <1>1, <1>3, <1>4, <1>6 DEF Counted, Known, InBase, Typed, TypeOK, Gone
<1>7. \A z \in Counted : rows'[x][z] \subseteq InBase(z)'
  <2>1. CASE x = q
    <3> TAKE z \in Counted
    <3>1. CASE z = query
      BY <1>5, <1>6, <2>1, <3>1
    <3>2. CASE z # query
      BY <1>1, <1>5, <2>1, <3>2 DEF ComputationsCover, Counted, Queries
    <3> QED
      BY <3>1, <3>2
  <2>2. CASE x # q
    BY <1>5, <2>2 DEF ComputationsCover, Apart
  <2> QED
    BY <2>1, <2>2
<1>8. \A y \in Loads(c) \ {x} : Started(y)' /\ Key(y) = Key(x) => x \in raced'
  BY <1>1, <1>5 DEF ComputationsCover
<1>9. ASSUME x \notin raced', NEW a \in AnswersOf(c) PROVE Covers(x, a)'
  <2>0. Covers(x, a)
    BY <1>1, <1>5, <1>9 DEF ComputationsCover
  <2>1. CASE x = q
    <3> SUFFICES ASSUME a # NoAnswer, ~ Spoilt(a), ~ Foreign(x, a) PROVE Covers(x, a)'
      BY SpoiltStays DEF Covers, NoAnswer, NoRows, Foreign
    <3>1. /\ a.org = target[q]
          /\ \A z \in Counted : Due(left[q], z) \/ a.rows[z] \subseteq rows[q][z] \cup Gone
          /\ \A z \in Counted : /\ a.rows[z] \subseteq InBase(z)
                                /\ \A r \in a.rows[z] : OrgOf[r] = a.org
      BY <1>9, <2>0, <2>1 DEF Covers, AnswersHeld, Held
    <3>2. ASSUME NEW z \in Counted
                 PROVE  Due(left'[q], z) \/ a.rows[z] \subseteq rows'[q][z] \cup Gone
      <4>1. CASE z = query
        BY <1>5, <1>6, <2>1, <3>1, <4>1
      <4>2. CASE z # query
        BY <1>1, <1>2, <3>1, <4>2 DEF Counted, Queries
      <4> QED
        BY <4>1, <4>2
    <3> QED
      BY <1>1, <1>5, <2>1, <3>1, <3>2 DEF Covers, Counted, Due
  <2>2. CASE x # q
    BY <1>5, <2>0, <2>2, CoversStays DEF Apart
  <2> QED
    BY <2>1, <2>2
<1> QED
  BY <1>5, <1>7, <1>8, <1>9

(***************************************************************************)
(* What it publishes is therefore behind none of the answers before it.    *)
(***************************************************************************)
LEMMA PublishIsAhead ==
  ASSUME Typed, FiguresInv, CodeInv, AnswersHeld, ComputationsCover, NEW q \in Requests,
         pc[q] = "ready", IsOverview(q), NEW a \in AnswersOf(Job[q].org)
  PROVE  Behind(a, Result(q))
<1>1. Started(q) /\ q \in Loads(Job[q].org) /\ Job[q].org \in Codes /\ left[q] = <<>>
  BY JobTyped DEF Started, Loads, FiguresInv, Figures, Counting
<1>2. \A query : ~ Due(left[q], query)
  BY <1>1 DEF Due
<1>3. Result(q).by = {q} /\ Result(q).rows = rows[q]
  BY DEF Result
<1>4. q \in raced \/ Covers(q, a)
  BY <1>1 DEF ComputationsCover
<1>5. CASE q \in raced
  BY <1>3, <1>5 DEF Behind
<1>6. CASE Covers(q, a)
  BY <1>2, <1>3, <1>6, NothingIsBehind DEF Covers, Behind, Foreign, Elsewhere
<1> QED
  BY <1>4, <1>5, <1>6

LEMMA AdvancePublish ==
  ASSUME Typed, FiguresInv, CodeInv, AdvanceInv, Growing, Accounted,
         NEW q \in Requests, Publish(q), Apart(q)
  PROVE  AdvanceInv'
<1> DEFINE e == Result(q)
<1>0. /\ pc[q] = "ready" /\ pc'[q] = "answered" /\ IsOverview(q) /\ Job[q].org \in Codes
      /\ Key(q) \in Keys /\ Key(q)[2] = Job[q].org
      /\ answer'[q] = e /\ cache'[Key(q)] = e
      /\ \A k \in Keys : k # Key(q) => cache'[k] = cache[k]
      /\ UNCHANGED <<shown, code, outdated, raced, overtaken, checkins, status>>
  BY JobTyped DEF Publish, At, Goto, Forget, Typed, TypeOK, pageVars, dbVars, Key, Keys
<1>1. /\ e.by = {q} /\ e.rows = rows[q] /\ e.org \in Orgs /\ e.stored >= 0
      /\ \A r \in e.rows["checkins"] \cup e.rows["registrants"] : OrgOf[r] = e.org
      /\ code[e.org] = Job[q].org \/ e.by \subseteq outdated
  BY <1>0, ResultIsEntry DEF Result, Typed, TypeOK
<1> HIDE DEF e
<1>2. /\ \A p \in Requests : /\ IsOverview(p)' = IsOverview(p)
                              /\ pc'[p] = "answered" => p = q \/ pc[p] = "answered"
      /\ \A c : Loads(c)' = Loads(c)
      /\ \A p \in Requests : InFlight(p)' => InFlight(p)
      /\ \A p \in Requests : Started(p)' => Started(p) /\ p # q
  BY <1>0 DEF IsOverview, Loads, Apart, InFlight, Started
<1>3. ASSUME NEW c \in Codes, NEW a \in AnswersOf(c)'
      PROVE  a \in AnswersOf(c) \/ (c = Job[q].org /\ a = e)
  <2>1. \A p \in Loads(c) : p # q => answer'[p] = answer[p]
    BY DEF Apart, Loads
  <2>2. q \in Loads(c) => c = Job[q].org
    BY DEF Loads
  <2>3. \A k \in Servers : <<k, c>> \in Keys /\ (<<k, c>> = Key(q) => c = Job[q].org)
    BY DEF Keys, Key
  <2> QED
    BY <1>0, <1>2, <1>3, <2>1, <2>2, <2>3 DEF AnswersOf
<1>4. \A a \in AnswersOf(Job[q].org) : Behind(a, e)
  BY <1>0, PublishIsAhead DEF AdvanceInv, e
<1>5. AnswersHeld'
  <2> SUFFICES ASSUME NEW c \in Codes, NEW a \in AnswersOf(c)'
               PROVE  Held(c, a)' /\ Newer(c, a)'
    BY DEF AnswersHeld
  <2>1. Held(c, a)'
    <3>1. CASE a \in AnswersOf(c)
      BY <3>1, HeldStays DEF AdvanceInv, AnswersHeld
    <3>2. CASE c = Job[q].org /\ a = e
      <4>1. q \in Loads(c) /\ Started0(q)' /\ Started(q)
        BY <1>0, <3>2 DEF Loads, Started0, Started
      <4>2. \A query \in Counted : rows[q][query] \subseteq InBase(query)
        BY <4>1 DEF AdvanceInv, ComputationsCover
      <4>3. \E b \in Loads(c)' : a.by = {b} /\ Started0(b)'
        BY <1>1, <1>2, <3>2, <4>1
      <4>4. code'[a.org] = c \/ Spoilt(a)'
        BY <1>0, <1>1, <3>2 DEF Spoilt
      <4>5. \A query \in Counted : /\ a.rows[query] \subseteq InBase(query)'
                                   /\ \A r \in a.rows[query] : OrgOf[r] = a.org
        BY <1>1, <3>2, <4>2 DEF AdvanceInv, Growing, Counted
      <4> QED
        BY <1>1, <3>2, <4>3, <4>4, <4>5 DEF Held, Counted
    <3> QED
      BY <1>3, <3>1, <3>2
  <2>2. ASSUME NEW z \in Servers, cache'[<<z, c>>] # NoAnswer
        PROVE  Behind(a, cache'[<<z, c>>])
    <3> DEFINE k == <<z, c>>
    <3>0. k \in Keys
      BY DEF Keys
    <3>1. CASE k = Key(q)
      <4>1. c = Job[q].org
        BY <3>1 DEF Key
      <4> QED
        BY <1>0, <1>3, <1>4, <3>1, <4>1 DEF Behind
    <3>2. CASE k # Key(q)
      <4>1. cache'[k] = cache[k] /\ cache[k] # NoAnswer /\ cache[k] \in AnswersOf(c)
        BY <1>0, <2>2, <3>0, <3>2 DEF AnswersOf
      <4>2. CASE a \in AnswersOf(c)
        BY <4>1, <4>2 DEF AdvanceInv, AnswersHeld, Newer
      <4>3. CASE c = Job[q].org /\ a = e
        <5>1. PICK b \in Loads(c) : cache[k].by = {b} /\ cache[k].stored >= 0
          BY <4>1 DEF AdvanceInv, AnswersHeld, Held
        <5>2. Key(b) = k
          BY <3>0, <5>1 DEF CodeInv, Entry
        <5>3. Job[b].server # Job[q].server
          BY <3>2, <4>3, <5>1, <5>2 DEF Key, Loads
        <5> QED
          BY <1>1, <4>1, <4>3, <5>1, <5>3 DEF Behind, Elsewhere
      <4> QED
        BY <1>3, <4>2, <4>3
    <3> QED
      BY <3>1, <3>2
  <2>3. Newer(c, a)'
    BY <1>0, <2>2 DEF Newer, Behind, Spoilt, Elsewhere, Gone
  <2> QED
    BY <2>1, <2>3
<1>6. ComputationsCover'
  <2> SUFFICES ASSUME NEW c \in Codes, NEW x \in Loads(c), Started(x)'
               PROVE  /\ \A z \in Counted : rows'[x][z] \subseteq InBase(z)'
                      /\ \A y \in Loads(c) \ {x} : Started(y)' /\ Key(y) = Key(x) => x \in raced'
                      /\ x \notin raced' => \A a \in AnswersOf(c)' : Covers(x, a)'
    BY DEF ComputationsCover, Loads, IsOverview, Counted, Key
  <2>0. /\ x \in Requests /\ x # q /\ Started(x) /\ UNCHANGED <<rows[x], left[x], target[x]>>
        /\ \A y \in Loads(c) : y \in Requests
    BY <1>2 DEF Loads, Apart
  <2>1. \A z \in Counted : rows'[x][z] \subseteq InBase(z)'
    BY <2>0 DEF AdvanceInv, ComputationsCover, Growing
  <2>2. \A y \in Loads(c) \ {x} : Started(y)' /\ Key(y) = Key(x) => x \in raced'
    BY <1>0, <1>2, <2>0 DEF AdvanceInv, ComputationsCover
  <2>3. ASSUME x \notin raced', NEW a \in AnswersOf(c)' PROVE Covers(x, a)'
    <3>1. CASE a \in AnswersOf(c)
      <4>1. Covers(x, a)
        BY <1>0, <2>0, <2>3, <3>1 DEF AdvanceInv, ComputationsCover
      <4> QED
        BY <2>0, <4>1, CoversStays
    <3>2. CASE c = Job[q].org /\ a = e
      <4>1. Key(q) # Key(x)
        BY <1>0, <2>0, <2>3, <3>2 DEF AdvanceInv, ComputationsCover, Loads, Started
      <4>2. Job[q].server # Job[x].server
        BY <3>2, <4>1 DEF Key, Loads
      <4> QED
        BY <1>1, <3>2, <4>2 DEF Covers, Foreign
    <3> QED
      BY <1>3, <3>1, <3>2
  <2> QED
    BY <2>1, <2>2, <2>3
<1>7. LoadsApart'
  BY <1>0, <1>2, LoadsApartAside DEF AdvanceInv, LoadsApart
<1>8. LoadsAdvance'
  <2> SUFFICES ASSUME NEW p \in Requests, pc'[p] = "answered"
               PROVE  p \in overtaken' \/ Behind(shown[Job[p].page], answer[p])'
    BY DEF LoadsAdvance
  <2>1. CASE p = q
    <3>1. shown[Job[q].page] \in AnswersOf(Job[q].org)
      BY <1>0 DEF AnswersOf, Loads
    <3> QED
      BY <1>0, <1>4, <2>1, <3>1 DEF Behind, Spoilt, Elsewhere, Gone
  <2>2. CASE p # q
    <3>1. pc[p] = "answered" /\ UNCHANGED answer[p]
      BY <1>2, <2>2 DEF Apart
    <3> QED
      BY <1>0, <3>1 DEF AdvanceInv, LoadsAdvance, Behind, Spoilt, Elsewhere, Gone
  <2> QED
    BY <2>1, <2>2
<1> QED
  BY <1>5, <1>6, <1>7, <1>8 DEF AdvanceInv

LEMMA AdvanceCompute ==
  ASSUME Typed, FiguresInv, AdvanceInv, Growing, Accounted,
         NEW q \in Requests, Compute(q) \/ Read(q), Apart(q)
  PROVE  AdvanceInv'
<1>1. /\ pc'[q] \in {"reading", "ready"} /\ pc[q] \in {"sent", "reading"}
      /\ UNCHANGED <<cache, answer, shown>>
  BY DEF Compute, Read, Misses, At, Goto, Typed, TypeOK, pageVars
<1>2. NothingNew
  BY <1>1 DEF NothingNew
<1>3. AnswersHeld'
  BY <1>2, AnswersAside DEF AdvanceInv
<1>4. ComputationsCover'
  BY <1>2, CoverCompute, CoverRead DEF AdvanceInv
<1>5. \A p \in Requests : /\ pc'[p] = "answered" => pc[p] = "answered"
                          /\ InFlight(p)' => InFlight(p)
  BY <1>1 DEF Apart, InFlight
<1>6. LoadsApart'
  BY <1>5, LoadsApartAside DEF AdvanceInv, LoadsApart
<1>7. LoadsAdvance'
  BY <1>1, <1>5, LoadsAdvanceAside DEF AdvanceInv
<1> QED
  BY <1>3, <1>4, <1>6, <1>7 DEF AdvanceInv

\* A load begins: it overtakes the loads of its page that are still under way.
LEMMA AdvanceFire ==
  ASSUME Typed, AdvanceInv, Growing, NEW q \in Requests, Fire(q), Apart(q)
  PROVE  LoadsApart'
<1>1. /\ pc'[q] = "sent" /\ pc[q] = "idle" /\ IsOverview(q)
      /\ \A o \in Requests \ {q} :
           IsOverview(o) /\ Job[o].page = Job[q].page /\ InFlight(o) =>
             q \in overtaken' /\ o \in overtaken'
  BY DEF Fire, At, Goto, Typed, TypeOK, InFlight
<1>2. \A p \in Requests \ {q} : (InFlight(p)' <=> InFlight(p)) /\ pc'[p] = pc[p]
  BY DEF Apart, InFlight
<1>3. \A p \in Requests : pc'[p] = "answered" => IsOverview(p)
  BY <1>1, <1>2 DEF AdvanceInv, LoadsApart
<1>4. ASSUME NEW p \in Requests, IsOverview(p), InFlight(p)',
             NEW o \in Requests \ {p}, IsOverview(o), InFlight(o)', Job[o].page = Job[p].page
      PROVE  p \in overtaken'
  BY <1>1, <1>2, <1>4 DEF AdvanceInv, LoadsApart, Growing
<1> QED
  BY <1>3, <1>4 DEF LoadsApart, IsOverview

(***************************************************************************)
(* An answer arrives: what the page shows is behind the next one it gets,  *)
(* unless that was on its way already.                                     *)
(***************************************************************************)
LEMMA AdvanceShow ==
  ASSUME Typed, AdvanceInv, Growing, NEW q \in Requests, Show(q), Apart(q)
  PROVE  NothingNew /\ LoadsAdvance'
<1>0. /\ pc[q] = "answered" /\ pc'[q] = "done" /\ answer'[q] = NoAnswer /\ cache' = cache
      /\ shown'[Job[q].page] = answer[q]
      /\ \A p \in Pages : p # Job[q].page => shown'[p] = shown[p]
      /\ IsOverview(q)
  BY JobTyped DEF Show, At, Goto, Typed, TypeOK, AdvanceInv, LoadsApart
<1>1. \A p \in Requests : p # q => answer'[p] = answer[p] /\ pc'[p] = pc[p]
  BY DEF Apart
<1>2. NothingNew
  BY <1>0, <1>1, JobTyped DEF NothingNew
<1>3. ASSUME NEW p \in Requests, pc'[p] = "answered"
      PROVE  /\ pc[p] = "answered"
             /\ p \in overtaken \/ UNCHANGED <<answer[p], shown[Job[p].page]>>
  <2>1. p # q /\ pc[p] = "answered" /\ answer'[p] = answer[p]
    BY <1>0, <1>1, <1>3
  <2>2. Job[p].page = Job[q].page => p \in overtaken
    BY <1>0, <2>1 DEF AdvanceInv, LoadsApart, InFlight
  <2> QED
    BY <1>0, <2>1, <2>2, JobTyped
<1> QED
  BY <1>2, <1>3, LoadsAdvanceAside DEF AdvanceInv

LEMMA AdvanceStep ==
  Typed /\ FiguresInv /\ CodeInv /\ AdvanceInv /\ [Next]_vars => AdvanceInv'
<1> SUFFICES ASSUME Typed, FiguresInv, CodeInv, AdvanceInv, [Next]_vars PROVE AdvanceInv'
  OBVIOUS
<1>0. Growing /\ Accounted /\ pc \in [Requests -> Steps]
  BY GrowingStep DEF Typed, TypeOK
<1>1. CASE Writing \/ Tick \/ UNCHANGED vars
  <2>1. UNCHANGED <<pc, left, rows, target, answer, cache, shown>>
    BY <1>1, WritingTyped DEF Written, Aside, Tick, vars, pageVars
  <2>2. NothingNew
    BY <2>1 DEF NothingNew
  <2> QED
    BY <1>0, <2>1, <2>2, AnswersAside, ComputationsAside, LoadsApartAside, LoadsAdvanceAside
    DEF AdvanceInv, Started, InFlight, LoadsApart
<1>2. ASSUME NEW q \in Requests,
             \/ Fire(q) \/ Ask(q) \/ Refuse(q) \/ FromCache(q) \/ NotFound(q) \/ Compute(q)
             \/ FindToRename(q) \/ Rename(q)
             \/ Read(q) \/ Fail(q) \/ Publish(q) \/ Respond(q) \/ Show(q) \/ Lost(q)
      PROVE  AdvanceInv'
  <2>0. Apart(q)
    BY <1>2, ApartStep
  <2>1. CASE Publish(q)
    BY <1>0, <2>0, <2>1, AdvancePublish
  <2>2. CASE Compute(q) \/ Read(q)
    BY <1>0, <2>0, <2>2, AdvanceCompute
  <2>3. ASSUME NothingNew, pc'[q] \notin {"reading", "ready"}, LoadsApart', LoadsAdvance'
        PROVE  AdvanceInv'
    <3>1. \A x \in Requests :
            Started(x)' => Started(x) /\ UNCHANGED <<left[x], rows[x], target[x]>>
      BY <2>0, <2>3 DEF Started, Apart
    <3> QED
      BY <1>0, <2>3, <3>1, AnswersAside, ComputationsAside DEF AdvanceInv
  <2>4. CASE Show(q)
    <3>1. pc'[q] = "done" /\ NothingNew /\ LoadsAdvance'
      BY <1>0, <2>0, <2>4, AdvanceShow DEF Show, Goto
    <3>2. LoadsApart'
      BY <1>0, <2>0, <3>1, LoadsApartAside DEF AdvanceInv, LoadsApart, InFlight, Apart
    <3> QED
      BY <2>3, <3>1, <3>2
  <2>5. CASE FromCache(q)
    <3>1. /\ pc[q] = "sent" /\ pc'[q] = "answered" /\ IsOverview(q) /\ Job[q].org \in Codes
          /\ UNCHANGED <<cache, shown, raced, outdated, status>> /\ answer'[q] = cache[Key(q)]
          /\ cache[Key(q)] # NoAnswer /\ Job[q].server \in Servers
          /\ Key(q) = <<Job[q].server, Job[q].org>>
      BY <1>0, <2>5, JobTyped DEF FromCache, At, Goto, Typed, TypeOK, pageVars, dbVars, history,
                                  Hit, NoAnswer, Key
    <3>2. NothingNew
      BY <2>0, <3>1 DEF NothingNew, Apart
    <3>3. LoadsApart'
      BY <1>0, <2>0, <3>1, LoadsApartAside DEF AdvanceInv, LoadsApart, InFlight, Apart
    <3>4. shown[Job[q].page] \in AnswersOf(Job[q].org)
      BY <3>1 DEF AnswersOf, Loads
    <3>5. Behind(shown[Job[q].page], cache[Key(q)])
      BY <3>1, <3>4 DEF AdvanceInv, AnswersHeld, Newer
    <3>6. LoadsAdvance'
      BY <1>0, <2>0, <3>1, <3>5 DEF AdvanceInv, LoadsAdvance, Behind, Spoilt, Apart, Growing,
                                    Elsewhere, Gone
    <3> QED
      BY <2>3, <3>1, <3>2, <3>3, <3>6
  <2>6. CASE Fire(q)
    <3>1. pc'[q] = "sent" /\ UNCHANGED <<cache, answer, shown>>
      BY <1>0, <2>6 DEF Fire, Goto
    <3>2. NothingNew
      BY <3>1 DEF NothingNew
    <3>3. LoadsAdvance'
      BY <1>0, <2>0, <3>1, LoadsAdvanceAside DEF AdvanceInv, Apart
    <3> QED
      BY <1>0, <2>0, <2>3, <2>6, <3>1, <3>2, <3>3, AdvanceFire
  <2>7. CASE Ask(q) \/ Refuse(q) \/ NotFound(q) \/ FindToRename(q) \/ Rename(q) \/ Fail(q)
             \/ Respond(q) \/ Lost(q)
    <3>1. /\ UNCHANGED <<cache, shown>> /\ answer'[q] \in {answer[q], NoAnswer}
          /\ pc'[q] \in {"sent", "renaming", "done"} /\ (pc'[q] = "sent" => ~ IsOverview(q))
      BY <1>0, <2>7 DEF Ask, Refuse, NotFound, FindToRename, Rename, Fail, Respond, Lost, Goto,
                        pageVars, Typed, TypeOK
    <3>2. NothingNew
      BY <2>0, <3>1 DEF NothingNew, Apart
    <3>3. LoadsApart'
      BY <1>0, <2>0, <3>1, LoadsApartAside DEF AdvanceInv, LoadsApart, InFlight, Apart
    <3>4. LoadsAdvance'
      BY <1>0, <2>0, <3>1, LoadsAdvanceAside DEF AdvanceInv, Apart
    <3> QED
      BY <2>3, <3>1, <3>2, <3>3, <3>4
  <2> QED
    BY <1>2, <2>1, <2>2, <2>4, <2>5, <2>6, <2>7
<1> QED
  BY <1>1, <1>2 DEF Next, Writing

LEMMA AdvanceAlways == Spec => []AdvanceInv
<1>1. Init => AdvanceInv
  <2> SUFFICES ASSUME Init PROVE AdvanceInv
    OBVIOUS
  <2>1. /\ \A q \in Requests : answer[q] = NoAnswer /\ pc[q] \in {"idle", "done"}
        /\ \A k \in Keys : cache[k] = NoAnswer
        /\ \A p \in Pages : shown[p] = NoAnswer
    <3>1. /\ answer = [q \in Requests |-> NoAnswer] /\ cache = [k \in Keys |-> NoAnswer]
          /\ shown = [p \in Pages |-> NoAnswer]
      BY DEF Init, Keys
    <3>2. \A q \in Requests : pc[q] \in {"idle", "done"}
      BY DEF Init
    <3> QED
      BY <3>1, <3>2
  <2>2. \A c \in Codes : \A z \in Servers : cache[<<z, c>>] = NoAnswer
    BY <2>1 DEF Keys
  <2>3. AnswersHeld
    <3>1. \A q \in Requests : answer[q] = NoAnswer /\ shown[Job[q].page] = NoAnswer
      BY <2>1, JobTyped
    <3>2. \A c \in Codes : \A a \in AnswersOf(c) : a = NoAnswer
      <4> TAKE c \in Codes
      <4> TAKE a \in AnswersOf(c)
      <4>1. ASSUME NEW z \in Servers, a = cache[<<z, c>>] PROVE a = NoAnswer
        BY <2>2, <4>1
      <4>2. ASSUME NEW q \in Loads(c), a \in {answer[q], shown[Job[q].page]} PROVE a = NoAnswer
        <5>1. q \in Requests
          BY DEF Loads
        <5> QED
          BY <3>1, <4>2, <5>1
      <4> QED
        BY <4>1, <4>2 DEF AnswersOf
    <3> QED
      BY <2>2, <3>2 DEF AnswersHeld, Held, Newer
  <2>4. ComputationsCover /\ LoadsApart /\ LoadsAdvance
    BY <2>1 DEF ComputationsCover, LoadsApart, LoadsAdvance, Loads, Started, InFlight
  <2> QED
    BY <2>3, <2>4 DEF AdvanceInv
<1> QED
  BY <1>1, TypedAlways, FiguresAlways, CodeAlways, AdvanceStep, PTL DEF Spec

(***************************************************************************)
(* A page goes back only when its loads, or two computations in one        *)
(* process, overtook each other, another process served it, the code has   *)
(* changed hands, or those missing were deleted with their link            *)
(* (analytics/page.tsx:234, analytics.service.ts:45, 392).                 *)
(***************************************************************************)
THEOREM PagesAdvance == Spec => DashboardAdvances
<1> DEFINE Advances ==
      \A q \in Requests :
        LET p == Job[q].page
        IN  At(q, "answered") /\ shown'[p] # shown[p] /\ pc'[q] = "done" =>
              \/ q \in overtaken \/ answer[q].by \cap raced # {}
              \/ shown[p].by \cap outdated # {} \/ Elsewhere(shown[p], answer[q])
              \/ \A query \in {"checkins", "registrants"} :
                   shown[p].rows[query] \subseteq shown'[p].rows[query] \cup Gone
<1>1. ASSUME Typed, AdvanceInv, [Next]_vars PROVE Advances
  <2> SUFFICES ASSUME NEW q \in Requests, pc[q] = "answered", pc'[q] = "done",
                      shown'[Job[q].page] # shown[Job[q].page]
               PROVE  /\ q \in overtaken \/ Behind(shown[Job[q].page], answer[q])
                      /\ shown'[Job[q].page] = answer[q]
    BY DEF At, Behind, Spoilt, Counted
  <2>0. pc \in [Requests -> Steps] /\ shown \in [Pages -> AnswerType]
    BY <1>1 DEF Typed, TypeOK
  <2>1. Show(q)
    <3>1. PICK o \in Requests : Show(o)
      BY <1>1, WritingTyped
      DEF Next, Writing, Written, Aside, Tick, Fire, Ask, Refuse, FromCache,
          NotFound, Compute, FindToRename, Rename, Read, Fail, Publish, Respond, Lost,
          pageVars, vars
    <3>2. o = q
      BY <2>0, <3>1 DEF Show, Goto, At
    <3> QED
      BY <3>1, <3>2
  <2>2. shown'[Job[q].page] = answer[q]
    BY <2>0, <2>1, JobTyped DEF Show
  <2> QED
    BY <1>1, <2>2 DEF AdvanceInv, LoadsAdvance
<1> QED
  BY <1>1, TypedAlways, AdvanceAlways, PTL DEF Spec, DashboardAdvances
===============================================================================
