------------------------------- MODULE Dashboard -------------------------------
(***************************************************************************)
(* The figures of an organization: the overview with its cache and the     *)
(* page that polls it, the breakdowns, the attendee list, and the report   *)
(* exports, all of them computed from several queries while attendees      *)
(* register, are decided on and checked in, while links are deleted with   *)
(* their registrants, and while a super admin gives an organization        *)
(* another code: a URL, a token and the cache name an organization by its  *)
(* code.  Each process of the API has a cache of its own.                  *)
(*                                                                         *)
(* A step is one query.  A query is modelled by the set of registrants     *)
(* whose rows it returns or counts: a figure is the size of such a set, or *)
(* of its part at one link, event or entrance.  Of the figures of the      *)
(* overview registrations and check-ins are kept; the others are read in   *)
(* the same way.  One tick of the clock is the page's interval.            *)
(***************************************************************************)
EXTENDS Integers, Sequences, FiniteSets, Policy

CONSTANTS
  Requests, Job,         \* what may be asked, and by whom
  Scenarios,             \* which requests may come, on what they find, how often
                         \* attendees change meanwhile, and from which tick on
  Orgs, NoOrg, Events, Registrants,
  Codes, FirstCode,      \* codes of organizations, and the one each begins with
  Links,
  OrgOf, EventOf, LinkOf, \* organization, event and link of each registrant
  Anything,              \* no event is named
  Servers,               \* processes of the API
  Pages, TTL,            \* browser pages; lifetime of a cache entry, in ticks
  Limit,                 \* rows a listing returns at most
  MaxTime                \* bound: ticks

Lists == {"FULL_REGISTRATION_LIST", "APPROVED_LIST", "PENDING_LIST",
          "CHECKED_IN_LIST", "NO_SHOW_LIST"}
Summaries == {"EVENT_SUMMARY", "CATEGORY_REPORT", "USHER_SCAN_REPORT"}
Exports == Lists \cup Summaries
Ops == {"overview", "noShow", "links", "categories", "scans", "lastScanned",
        "attendees", "search", "rename"} \cup Exports
Listings == {"attendees", "search"}
Statuses == {"none", "PENDING", "APPROVED", "REJECTED", "gone"}

\* `org' is the code in the URL or the token, `to' the code a rename asks for,
\* `server' the process that serves the request.
JobRecords == [op: Ops, auth: [roles: SUBSET RoleNames, org: Codes], org: Codes,
               to: Codes, event: Events \cup {Anything}, page: Pages, server: Servers]

ASSUME JobAssumption == Job \in [Requests -> JobRecords]
ASSUME CodeAssumption == FirstCode \in [Orgs -> Codes] /\ NoOrg \notin Orgs
                         /\ \A o, u \in Orgs : FirstCode[o] = FirstCode[u] => o = u
ASSUME OwnerAssumption ==
  OrgOf \in [Registrants -> Orgs] /\ EventOf \in [Registrants -> Events]
  /\ LinkOf \in [Registrants -> Links]
\* A page is that of one organization, and asks for all of its events.
ASSUME PageAssumption ==
  \A p, q \in Requests : Job[p].op = "overview" /\ Job[q].op = "overview" =>
    Job[p].event = Anything /\ (Job[p].page = Job[q].page => Job[p].org = Job[q].org)
ASSUME ScenarioAssumption ==
  Scenarios \subseteq [coming: SUBSET Requests, status: [Registrants -> Statuses],
                       writes: Nat, from: 0..MaxTime]
ASSUME FiniteAssumption == IsFiniteSet(Registrants)
ASSUME BoundsAssumption == TTL \in Nat \ {0} /\ Limit \in Nat \ {0} /\ MaxTime \in Nat

VARIABLES
  pc,        \* where each request stands
  left,      \* the queries it has still to make
  rows,      \* what its queries returned
  answer,    \* what it is answered
  target,    \* the organization a request found under the code it names
  code,      \* the code of each organization
  cache,     \* the entry each process has under each code
  shown,     \* the answer each page shows
  timer,     \* when the interval of a page fires next
  now,
  status, checkins, writes,  \* registrants, their check-ins, changes to come
  scanned,   \* registrants a check-in under way has read to be approved
  version,   \* history: `writes' at the first query of a request
  missing,   \* history: the no-shows there were then
  since,     \* history: the check-ins there were when it began to compute
  overtaken, \* history: loads of a page that were under way together
  raced,     \* history: computations of an overview that were
  outdated   \* history: those whose code has changed hands since

dbVars == <<status, checkins, writes, scanned>>
pageVars == <<shown, timer>>
history == <<version, missing, since, overtaken, raced, outdated>>
vars == <<pc, left, rows, answer, target, cache, pageVars, now, dbVars, code, history>>

(***************************************************************************)
(* The queries of each operation: those of a set are started together, the *)
(* sets one after the other.                                               *)
(***************************************************************************)
OverviewPlan == <<{"registrants", "checkins"}>>
CategoriesPlan == <<{"registrants"}>>
LinksPlan == <<{"registrants"}, {"checkins"}>>
ScansPlan == <<{"checkins"}, {"perCategory"}>>
LastScannedPlan == <<{"checkins"}>>
AttendeesPlan == <<{"registrants", "page"}, {"checkins"}>>
SearchPlan == <<{"page"}, {"checkins"}>>

\* Faulty: the two queries are started together.
NoShowAtOnce == <<{"approved", "checkins"}>>

NoShowPlan == <<{"approved"}, {"checkins"}>>

EventSummaryPlan == <<{"registrants"}>>
ListPlan(list) == <<{list}, {"checkins"}>>
CategoryReportPlan == <<{"registrants"}, {"checkins"}>>
UsherScanPlan == <<{"checkins"}>>

Plan(op) ==
  CASE op = "overview" -> OverviewPlan
    [] op = "categories" -> CategoriesPlan
    [] op = "links" -> LinksPlan
    [] op = "scans" -> ScansPlan
    [] op = "lastScanned" -> LastScannedPlan
    [] op = "attendees" -> AttendeesPlan
    [] op = "search" -> SearchPlan
    [] op = "noShow" -> NoShowPlan
    [] op = "EVENT_SUMMARY" -> EventSummaryPlan
    [] op \in Lists -> ListPlan(op)
    [] op = "CATEGORY_REPORT" -> CategoryReportPlan
    [] op = "USHER_SCAN_REPORT" -> UsherScanPlan

Queries == {"registrants", "page", "approved", "checkins", "perCategory"} \cup Lists

Scope(q) == {r \in Registrants : /\ OrgOf[r] = target[q]
                                 /\ Job[q].event \in {Anything, EventOf[r]}}
Known(q) == {r \in Scope(q) : status[r] \notin {"none", "gone"}}
With(q, s) == {r \in Scope(q) : status[r] = s}
NoShows(q) == With(q, "APPROVED") \ checkins

Checked(q) == Scope(q) \cap checkins

\* The first rows, in an order that is not modelled.
Least(n, m) == IF n < m THEN n ELSE m
Newest(S) == {s \in SUBSET S : Cardinality(s) = Least(Cardinality(S), Limit)}

\* What a query may return.  A listing takes one page of those its filter finds,
\* and the check-ins of those alone.
Returned(q, query) ==
  CASE query = "page" -> {s \in SUBSET Known(q) : Cardinality(s) <= Limit}
    [] query = "checkins" /\ Job[q].op \in Listings -> {rows[q]["page"] \cap Checked(q)}
    [] query = "checkins" /\ Job[q].op = "lastScanned" -> Newest(Checked(q))
    [] query = "checkins" /\ Job[q].op \notin Listings \cup {"lastScanned"} -> {Checked(q)}
    [] query \in {"perCategory", "CHECKED_IN_LIST"} -> {Checked(q)}
    [] query \in {"registrants", "FULL_REGISTRATION_LIST"} -> {Known(q)}
    [] query \in {"approved", "APPROVED_LIST"} -> {With(q, "APPROVED")}
    [] query = "PENDING_LIST" -> {With(q, "PENDING")}
    [] query = "NO_SHOW_LIST" -> {NoShows(q)}

NoRows == [query \in Queries |-> {}]
NoAnswer == [org |-> NoOrg, rows |-> NoRows, since |-> {},
             stored |-> -1, by |-> {}]

Init ==
  \E t \in Scenarios :
    /\ pc = [q \in Requests |-> IF q \in t.coming THEN "idle" ELSE "done"]
    /\ left = [q \in Requests |-> <<>>]
    /\ rows = [q \in Requests |-> NoRows]
    /\ answer = [q \in Requests |-> NoAnswer]
    /\ target = [q \in Requests |-> NoOrg]
    /\ code = FirstCode
    /\ cache = [k \in Servers \X Codes |-> NoAnswer]
    /\ shown = [p \in Pages |-> NoAnswer]
    /\ timer = [p \in Pages |-> 0]
    /\ now = t.from
    /\ status = t.status
    /\ checkins = {} /\ scanned = {} /\ writes = t.writes
    /\ version = [q \in Requests |-> 0]
    /\ missing = [q \in Requests |-> {}]
    /\ since = [q \in Requests |-> {}]
    /\ overtaken = {} /\ raced = {} /\ outdated = {}

----------------------------------------------------------------------------
(***************************************************************************)
(* Registrants come, are decided on, and are checked in if they were       *)
(* approved when the check-in looked; a link is deleted with those who     *)
(* registered by it, their check-ins and the registrations still to come.  *)
(* Registration and Attendance model how.                                  *)
(***************************************************************************)
Aside == UNCHANGED <<pc, left, rows, answer, target, cache, pageVars, now, code, history>>
Write == writes > 0 /\ writes' = writes - 1 /\ Aside
Gone == {r \in Registrants : status[r] = "gone"}

Register(r) ==
  /\ status[r] = "none"
  /\ \E s \in {"PENDING", "APPROVED", "REJECTED"} : status' = [status EXCEPT ![r] = s]
  /\ Write /\ UNCHANGED <<checkins, scanned>>

ChangeStatus(r) ==
  /\ status[r] \notin {"none", "gone"}
  /\ \E s \in {"APPROVED", "REJECTED"} : status' = [status EXCEPT ![r] = s]
  /\ Write /\ UNCHANGED <<checkins, scanned>>

Scan(r) ==
  /\ status[r] = "APPROVED" /\ r \notin checkins \cup scanned
  /\ scanned' = scanned \cup {r}
  /\ Aside /\ UNCHANGED <<status, checkins, writes>>

CheckIn(r) ==
  /\ r \in scanned /\ status[r] \notin {"none", "gone"}
  /\ checkins' = checkins \cup {r}
  /\ scanned' = scanned \ {r}
  /\ Write /\ UNCHANGED status

DeleteLink(l) ==
  LET its == {r \in Registrants : LinkOf[r] = l}
  IN  /\ its \ Gone # {}
      /\ status' = [r \in Registrants |-> IF r \in its THEN "gone" ELSE status[r]]
      /\ checkins' = checkins \ its
      /\ Write /\ UNCHANGED scanned

Tick ==
  /\ now < MaxTime /\ now' = now + 1
  /\ UNCHANGED <<pc, left, rows, answer, target, cache, pageVars, dbVars, code, history>>

----------------------------------------------------------------------------
(***************************************************************************)
(* A request begins.  The overview is asked for by the page: on mount, and *)
(* then whenever the interval fires, whether or not the load before it has *)
(* come back.                                                              *)
(***************************************************************************)
At(q, step) == pc[q] = step
Goto(q, step) == pc' = [pc EXCEPT ![q] = step]
IsOverview(q) == Job[q].op = "overview"
Key(q) == <<Job[q].server, Job[q].org>>

\* The routes of the ushers name no organization: they serve that of the token.
UsherAccess(q) == Job[q].auth.roles \cap {"SUPER_ADMIN", "ORG_ADMIN", "ORG_STAFF"} # {}

Permitted(q) ==
  /\ IF Job[q].op = "search" THEN UsherAccess(q)
     ELSE CanAccessTenant(Job[q].auth, Job[q].org)
  /\ Job[q].op = "rename" => HasRole(Job[q].auth, "SUPER_ADMIN")
  /\ Job[q].op \in Exports => Job[q].auth.roles \cap {"SUPER_ADMIN", "ORG_ADMIN"} # {}

Fire(q) ==
  LET p == Job[q].page
      loads == {o \in Requests \ {q} : /\ IsOverview(o) /\ Job[o].page = p
                                       /\ pc[o] \in {"sent", "reading", "ready", "answered"}}
  IN  /\ At(q, "idle") /\ IsOverview(q) /\ now >= timer[p]
      /\ timer' = [timer EXCEPT ![p] = now + 1]
      /\ overtaken' = IF loads = {} THEN overtaken ELSE overtaken \cup loads \cup {q}
      /\ Goto(q, "sent")
      /\ UNCHANGED <<left, rows, answer, target, cache, shown, now, dbVars, code,
                     version, missing, since, raced, outdated>>

Ask(q) ==
  /\ At(q, "idle") /\ ~ IsOverview(q)
  /\ Goto(q, "sent")
  /\ UNCHANGED <<left, rows, answer, target, cache, pageVars, now, dbVars, code, history>>

Refuse(q) ==
  /\ At(q, "sent") /\ ~ Permitted(q)
  /\ Goto(q, "done")
  /\ UNCHANGED <<left, rows, answer, target, cache, pageVars, now, dbVars, code, history>>

\* Faulty: an entry is served as long as there is one.
HitStale(q) == cache[Key(q)].stored >= 0

Hit(q) == cache[Key(q)].stored >= 0 /\ cache[Key(q)].stored + TTL > now

FromCache(q) ==
  /\ At(q, "sent") /\ Permitted(q) /\ IsOverview(q) /\ Hit(q)
  /\ answer' = [answer EXCEPT ![q] = cache[Key(q)]]
  /\ Goto(q, "answered")
  /\ UNCHANGED <<left, rows, target, cache, pageVars, now, dbVars, code, history>>

(***************************************************************************)
(* The organization is looked up by its code: none has it, and the request *)
(* is refused.  A token holds the organization's id as well: a search goes *)
(* by that, whatever became of the code since.                             *)
(***************************************************************************)
Holders(c) == {o \in Orgs : code[o] = c}
Named(q) == IF Job[q].op = "search" THEN {o \in Orgs : FirstCode[o] = Job[q].auth.org}
            ELSE Holders(Job[q].org)
Misses(q) == At(q, "sent") /\ Permitted(q) /\ ~ (IsOverview(q) /\ Hit(q))

NotFound(q) ==
  /\ Misses(q) /\ Named(q) = {}
  /\ Goto(q, "done")
  /\ UNCHANGED <<left, rows, answer, target, cache, pageVars, now, dbVars, code, history>>

Compute(q) ==
  LET rivals == {o \in Requests \ {q} : /\ IsOverview(o) /\ Key(o) = Key(q)
                                        /\ pc[o] \in {"reading", "ready"}}
  IN  /\ Misses(q) /\ Job[q].op # "rename"
      /\ \E o \in Named(q) : target' = [target EXCEPT ![q] = o]
      /\ Goto(q, "reading")
      /\ left' = [left EXCEPT ![q] = Plan(Job[q].op)]
      /\ since' = [since EXCEPT ![q] = Scope(q)' \cap checkins]
      /\ raced' = IF IsOverview(q) /\ rivals # {} THEN raced \cup rivals \cup {q} ELSE raced
      /\ UNCHANGED <<rows, answer, cache, pageVars, now, dbVars, code,
                     version, missing, overtaken, outdated>>

Read(q) ==
  /\ At(q, "reading")
  /\ \E query \in Head(left[q]) :
       LET rest == Head(left[q]) \ {query}
       IN  /\ \E found \in Returned(q, query) : rows' = [rows EXCEPT ![q][query] = found]
           /\ left' = [left EXCEPT ![q] = IF rest = {} THEN Tail(@) ELSE <<rest>> \o Tail(@)]
  /\ Goto(q, IF left'[q] = <<>> THEN "ready" ELSE "reading")
  /\ version' = IF left[q] = Plan(Job[q].op) THEN [version EXCEPT ![q] = writes] ELSE version
  /\ missing' = IF left[q] = Plan(Job[q].op) THEN [missing EXCEPT ![q] = NoShows(q)] ELSE missing
  /\ UNCHANGED <<answer, target, cache, pageVars, now, dbVars, code,
                 since, overtaken, raced, outdated>>

\* What a request has read is forgotten when it is over.
Forget(q) ==
  /\ rows' = [rows EXCEPT ![q] = NoRows]
  /\ left' = [left EXCEPT ![q] = <<>>]
  /\ version' = [version EXCEPT ![q] = 0]
  /\ missing' = [missing EXCEPT ![q] = {}]
  /\ since' = [since EXCEPT ![q] = {}]
  /\ target' = [target EXCEPT ![q] = NoOrg]
  /\ UNCHANGED <<overtaken, raced>>

\* A query fails: so does the request, and nothing is cached.
Fail(q) ==
  /\ At(q, "reading")
  /\ Goto(q, "done")
  /\ Forget(q)
  /\ UNCHANGED <<answer, cache, pageVars, now, dbVars, code, outdated>>

Result(q) == [org |-> target[q], rows |-> rows[q], since |-> since[q],
              stored |-> now, by |-> {q}]

\* Faulty: one entry for all codes.
PublishEverywhere(q) ==
  /\ At(q, "ready") /\ IsOverview(q)
  /\ answer' = [answer EXCEPT ![q] = Result(q)]
  /\ cache' = [k \in Servers \X Codes |-> Result(q)]
  /\ Goto(q, "answered")
  /\ Forget(q)
  /\ UNCHANGED <<pageVars, now, dbVars, code, outdated>>

Publish(q) ==
  /\ At(q, "ready") /\ IsOverview(q)
  /\ answer' = [answer EXCEPT ![q] = Result(q)]
  /\ cache' = [cache EXCEPT ![Key(q)] = Result(q)]
  /\ Goto(q, "answered")
  /\ Forget(q)
  /\ UNCHANGED <<pageVars, now, dbVars, code, outdated>>

\* Other figures are returned, and exports written to their artifact.
Respond(q) ==
  /\ At(q, "ready") /\ ~ IsOverview(q)
  /\ Goto(q, "done")
  /\ Forget(q)
  /\ UNCHANGED <<answer, cache, pageVars, now, dbVars, code, outdated>>

\* A super admin gives an organization another code; codes are unique.
FindToRename(q) ==
  /\ Misses(q) /\ Job[q].op = "rename"
  /\ \E o \in Holders(Job[q].org) : target' = [target EXCEPT ![q] = o]
  /\ Goto(q, "renaming")
  /\ UNCHANGED <<left, rows, answer, cache, pageVars, now, dbVars, code, history>>

Rename(q) ==
  LET o == target[q]
      taken == Holders(Job[q].to) \ {o} # {}
  IN  /\ At(q, "renaming")
      /\ code' = IF taken THEN code ELSE [code EXCEPT ![o] = Job[q].to]
      /\ outdated' = IF taken THEN outdated ELSE outdated \cup
           {p \in Requests : /\ pc[p] \notin {"idle", "sent"}
                             /\ Job[p].org \in {code[o], Job[q].to}}
      /\ Goto(q, "done")
      /\ Forget(q)
      /\ UNCHANGED <<answer, cache, pageVars, now, dbVars>>

\* The page shows whatever answer arrives, and the interval starts again.
Show(q) ==
  LET p == Job[q].page
  IN  /\ At(q, "answered")
      /\ shown' = [shown EXCEPT ![p] = answer[q]]
      /\ timer' = [timer EXCEPT ![p] = now + 1]
      /\ answer' = [answer EXCEPT ![q] = NoAnswer]
      /\ Goto(q, "done")
      /\ UNCHANGED <<left, rows, target, cache, now, dbVars, code, history>>

\* The answer is lost, or an error: the page keeps what it shows.
Lost(q) ==
  /\ At(q, "answered")
  /\ answer' = [answer EXCEPT ![q] = NoAnswer]
  /\ Goto(q, "done")
  /\ UNCHANGED <<left, rows, target, cache, pageVars, now, dbVars, code, history>>

Next ==
  \/ \E r \in Registrants : Register(r) \/ ChangeStatus(r) \/ Scan(r) \/ CheckIn(r)
  \/ \E l \in Links : DeleteLink(l)
  \/ Tick
  \/ \E q \in Requests :
       \/ Fire(q) \/ Ask(q) \/ Refuse(q) \/ FromCache(q) \/ NotFound(q) \/ Compute(q)
       \/ FindToRename(q) \/ Rename(q)
       \/ Read(q) \/ Fail(q) \/ Publish(q) \/ Respond(q) \/ Show(q) \/ Lost(q)

Spec == Init /\ [][Next]_vars

----------------------------------------------------------------------------
Steps == {"idle", "sent", "renaming", "reading", "ready", "answered", "done"}
AnswerType == [org: Orgs \cup {NoOrg}, rows: [Queries -> SUBSET Registrants],
               since: SUBSET Registrants,
               stored: {-1} \cup 0..MaxTime, by: SUBSET Requests]

\* Type invariant.
TypeOK ==
  /\ pc \in [Requests -> Steps]
  /\ left \in [Requests -> Seq(SUBSET Queries)]
  /\ rows \in [Requests -> [Queries -> SUBSET Registrants]]
  /\ answer \in [Requests -> AnswerType]
  /\ target \in [Requests -> Orgs \cup {NoOrg}]
  /\ code \in [Orgs -> Codes]
  /\ \A o, u \in Orgs : code[o] = code[u] => o = u
  /\ cache \in [Servers \X Codes -> AnswerType]
  /\ shown \in [Pages -> AnswerType]
  /\ timer \in [Pages -> 0..MaxTime + 1] /\ now \in 0..MaxTime
  /\ status \in [Registrants -> Statuses]
  /\ checkins \subseteq {r \in Registrants : status[r] \notin {"none", "gone"}}
  /\ scanned \subseteq {r \in Registrants : status[r] # "none"}
  /\ writes \in Nat
  /\ version \in [Requests -> Nat]
  /\ missing \in [Requests -> SUBSET Registrants]
  /\ since \in [Requests -> SUBSET Registrants]
  /\ overtaken \subseteq Requests /\ raced \subseteq Requests
  /\ outdated \subseteq Requests

(***************************************************************************)
(* Figures computed from several queries, however many writes come between *)
(* them.  None misses a check-in from before it was asked for, except with *)
(* its registrant, whose link was deleted; the last scans do so only when  *)
(* their list is full, and a listing says of nobody on its page that they  *)
(* had not come.  The number of no-shows is at most those there were when  *)
(* the first query ran and those who had come and were deleted since; an   *)
(* export of the checked-in counts a check-in for each who is still there  *)
(* - because check-ins are read last.  Nobody wrote in between, and the    *)
(* number is that of the export of no-shows, unless somebody was rejected  *)
(* after the check-in: then it is less.                                    *)
(***************************************************************************)
NoShowCount(q) ==
  LET n == Cardinality(rows[q]["approved"]) - Cardinality(rows[q]["checkins"])
  IN  IF n > 0 THEN n ELSE 0

Partial == Listings \cup {"lastScanned", "categories", "EVENT_SUMMARY"}

FiguresHold ==
  \A q \in Requests :
    At(q, "ready") =>
      LET come == rows[q]["checkins"] \cup Gone
      IN  /\ Job[q].op \notin Partial => since[q] \subseteq come
          /\ Job[q].op = "lastScanned" =>
               since[q] \subseteq come \/ Cardinality(rows[q]["checkins"]) >= Limit
          /\ Job[q].op \in Listings => since[q] \cap rows[q]["page"] \subseteq come
          /\ Job[q].op = "noShow" =>
               LET removed == (rows[q]["approved"] \ missing[q]) \cap Gone
               IN  /\ NoShowCount(q) <= Cardinality(missing[q]) + Cardinality(removed)
                   /\ version[q] = writes /\ rows[q]["checkins"] \subseteq With(q, "APPROVED")
                      => NoShowCount(q) = Cardinality(missing[q])
          /\ Job[q].op = "CHECKED_IN_LIST" => rows[q]["CHECKED_IN_LIST"] \subseteq come

(***************************************************************************)
(* An overview was computed less than TTL before it is served, by the      *)
(* process that serves it, and holds at least the check-ins there were     *)
(* when that began and are still there, those of one organization: the one *)
(* that has the code, or that had it before the code changed hands in the  *)
(* meantime.                                                               *)
(***************************************************************************)
AnswersAreRecent ==
  [][\A q \in Requests :
       IsOverview(q) /\ ~ At(q, "answered") /\ pc'[q] = "answered" =>
         LET a == answer'[q]
         IN  /\ now < a.stored + TTL
             /\ \A p \in a.by : Job[p].server = Job[q].server
             /\ a.since \subseteq a.rows["checkins"] \cup Gone
             /\ \A r \in a.rows["checkins"] \cup a.rows["registrants"] : OrgOf[r] = a.org
             /\ code[a.org] = Job[q].org \/ a.by \subseteq outdated]_vars

(***************************************************************************)
(* The check-ins and registrations a page shows go back only when two of   *)
(* its loads overtook each other, two processes of the API served them,    *)
(* two computations of the overview ran at once in one process, so that    *)
(* the older figures were cached last, the code has been given to another  *)
(* organization, or the link of those missing was deleted.                 *)
(***************************************************************************)
Elsewhere(a, e) == \E b \in a.by, d \in e.by : Job[b].server # Job[d].server

DashboardAdvances ==
  [][\A q \in Requests :
       LET p == Job[q].page
       IN  At(q, "answered") /\ shown'[p] # shown[p] /\ pc'[q] = "done" =>
             \/ q \in overtaken \/ answer[q].by \cap raced # {}
             \/ shown[p].by \cap outdated # {} \/ Elsewhere(shown[p], answer[q])
             \/ \A query \in {"checkins", "registrants"} :
                  shown[p].rows[query] \subseteq shown'[p].rows[query] \cup Gone]_vars
===============================================================================
