---------------------------- MODULE Registration ----------------------------
(***************************************************************************)
(* How registrants come into the Registrant table of one event: the public *)
(* form (RegistrationsService.submit), the desk (AttendeesService          *)
(* .registerOnsite) and the rows of an import (the import.process job),    *)
(* while the organizer opens, closes and resizes the registration links.   *)
(*                                                                         *)
(* A step is one awaited database call.  Every check is made on a read of  *)
(* its own, some awaits before the insert; the table itself is unique only *)
(* in (registrationLinkId, email) and in referenceCode.                    *)
(***************************************************************************)
EXTENDS Integers, FiniteSets

CONSTANTS
  Requests,   \* submissions, desk registrations and imported rows
  Op,         \* which of these a request is
  Traffic,    \* sets of requests that may come in one behaviour
  Link, Email,\* the registration link and the e-mail address of each
  Links, Emails,
  Codes,      \* reference codes
  NoCode,
  Limits,     \* capacities a link may be given
  Unlimited   \* no capacity rule (null)

(***************************************************************************)
(* An imported row has the duplicate strategy of its import job.           *)
(***************************************************************************)
Imports == {"importSkip", "importFlag", "importUpdate"}
Ops == {"submit", "onsite"} \cup Imports

ASSUME RequestAssumption == /\ IsFiniteSet(Requests)
                            /\ Op \in [Requests -> Ops]
                            /\ Link \in [Requests -> Links]
                            /\ Email \in [Requests -> Emails]
ASSUME TrafficAssumption == Traffic \subseteq SUBSET Requests
ASSUME CodeAssumption == NoCode \notin Codes
ASSUME LimitAssumption == Limits \subseteq Nat \cup {Unlimited} /\ Unlimited \notin Nat

VARIABLES
  registered,  \* requests that have created a Registrant row
  code,        \* the referenceCode a request has drawn
  decision,    \* the lifecycleStatus it has decided on
  badged,      \* rows whose badge was issued
  limit, open, \* capacity of each link; whether it takes registrations
  pc, answer,
  cap,         \* the capacity each request has read
  foundFull    \* history: the link was full when the request read it

table == <<registered, badged>>
rules == <<limit, open>>
vars == <<registered, code, decision, badged, limit, open, pc, answer, cap, foundFull>>

Lifecycle == {"PENDING", "APPROVED", "REJECTED"}
Steps == {"idle", "event", "link", "count", "code", "create", "update",
          "responses", "deliver", "audit", "done"}
Refusals == {"REFUSED", "CONFLICT", "FULL", "SKIPPED", "FLAGGED", "UPDATED"}
Answers == Refusals \cup {"none", "CREATED", "ERROR"}

RowsOf(l) == {q \in registered : Link[q] = l}
SameEmail(q) == {p \in registered : Email[p] = Email[q]}
SamePlace(q) == {p \in RowsOf(Link[q]) : Email[p] = Email[q]}
Full(l, c) == c # Unlimited /\ Cardinality(RowsOf(l)) >= c

Init ==
  /\ registered = {}
  /\ code = [q \in Requests |-> NoCode]
  /\ decision = [q \in Requests |-> "PENDING"]
  /\ badged = {}
  /\ limit \in [Links -> Limits]
  /\ open \in [Links -> BOOLEAN]
  /\ \E coming \in Traffic :
       pc = [q \in Requests |-> IF q \in coming THEN "idle" ELSE "done"]
  /\ answer = [q \in Requests |-> "none"]
  /\ cap = [q \in Requests |-> Unlimited]
  /\ foundFull = [q \in Requests |-> FALSE]

----------------------------------------------------------------------------
Goto(q, step) == pc' = [pc EXCEPT ![q] = step] /\ UNCHANGED answer
Reply(q, a) == /\ pc' = [pc EXCEPT ![q] = "done"]
               /\ answer' = [answer EXCEPT ![q] = a]

(***************************************************************************)
(* The link is public or unlisted, active, of an event not archived, and   *)
(* within its window.                                                      *)
(***************************************************************************)
Takes(l) == open[l]

\* registerOnsite finds the link by its slug, whether it is open or not.
AtDesk(q) == Op[q] = "onsite" /\ (Goto(q, "event") \/ Reply(q, "REFUSED"))

(***************************************************************************)
(* The link and its rule are read once.  Every kind of request may be      *)
(* refused here: a submission for its window, password, invite token,      *)
(* captcha, consent or photo, a desk registration for its link, an         *)
(* imported row for missing values.                                        *)
(***************************************************************************)
ReadLink(q) ==
  /\ pc[q] = "idle"
  /\ cap' = [cap EXCEPT ![q] = limit[Link[q]]]
  /\ foundFull' = [foundFull EXCEPT ![q] = Full(Link[q], limit[Link[q]])]
  /\ \/ Op[q] = "submit" /\ Takes(Link[q]) /\ Goto(q, "link")
     \/ Op[q] \in Imports /\ Goto(q, "link")
     \/ Op[q] # "onsite" /\ Reply(q, "REFUSED")
     \/ AtDesk(q)
  /\ UNCHANGED <<table, rules, code, decision>>

\* The desk looks for the address in the whole event.
FindInEvent(q) ==
  /\ pc[q] = "event"
  /\ IF SameEmail(q) # {} THEN Reply(q, "CONFLICT") ELSE Goto(q, "link")
  /\ UNCHANGED <<table, rules, code, decision, cap, foundFull>>

WhenFound(q) ==
  CASE Op[q] \in {"submit", "onsite"} -> Reply(q, "CONFLICT")
    [] Op[q] = "importSkip" -> Reply(q, "SKIPPED")
    [] Op[q] = "importFlag" -> Reply(q, "FLAGGED")
    [] Op[q] = "importUpdate" -> Goto(q, "update")

WhenNew(q) ==
  CASE Op[q] = "submit" -> Goto(q, "count")
    [] Op[q] \in Imports -> Goto(q, "code")
    [] Op[q] = "onsite" -> Goto(q, "create")

\* Faulty: the address looked for in every link of the event.
FindAnywhere(q) ==
  /\ pc[q] = "link"
  /\ IF SameEmail(q) # {} THEN WhenFound(q) ELSE WhenNew(q)
  /\ UNCHANGED <<table, rules, code, decision, cap, foundFull>>

FindInLink(q) ==
  /\ pc[q] = "link"
  /\ IF SamePlace(q) # {} THEN WhenFound(q) ELSE WhenNew(q)
  /\ UNCHANGED <<table, rules, code, decision, cap, foundFull>>

\* The answers given are held against the fields of the form.
Validate(q) == Goto(q, "code") \/ Reply(q, "REFUSED")

\* Faulty: one too many let in.
CountLoosely(q) ==
  /\ pc[q] = "count"
  /\ IF cap[q] # Unlimited /\ Cardinality(RowsOf(Link[q])) > cap[q]
     THEN Reply(q, "FULL")
     ELSE Validate(q)
  /\ UNCHANGED <<table, rules, code, decision, cap, foundFull>>

Count(q) ==
  /\ pc[q] = "count"
  /\ IF Full(Link[q], cap[q])
     THEN Reply(q, "FULL")
     ELSE Validate(q)
  /\ UNCHANGED <<table, rules, code, decision, cap, foundFull>>

CodesInUse == {code[p] : p \in registered}

(***************************************************************************)
(* The first approval rule of the link that matches the answers given, or  *)
(* the link's approval mode, decides on a submission; an import approves.  *)
(***************************************************************************)
Decisions(q) == IF Op[q] = "submit" THEN Lifecycle ELSE {"APPROVED"}

(***************************************************************************)
(* nextReferenceCode draws a code that is not in use, or gives up after    *)
(* eight draws; then the lifecycle status is decided.                      *)
(***************************************************************************)
PickCode(q) ==
  /\ pc[q] = "code"
  /\ \/ /\ \E c \in Codes \ CodesInUse : code' = [code EXCEPT ![q] = c]
        /\ \E s \in Decisions(q) : decision' = [decision EXCEPT ![q] = s]
        /\ Goto(q, "create")
     \/ /\ CodesInUse # {}
        /\ Reply(q, IF Op[q] = "submit" THEN "REFUSED" ELSE "ERROR")
        /\ UNCHANGED <<code, decision>>
  /\ UNCHANGED <<table, rules, cap, foundFull>>

\* Faulty: without the unique index on link and e-mail.
CreateUnindexed(q) ==
  /\ pc[q] = "create"
  /\ \E c \in Codes \ CodesInUse : code' = [code EXCEPT ![q] = c]
  /\ registered' = registered \cup {q}
  /\ Goto(q, "deliver")
  /\ UNCHANGED <<badged, rules, decision, cap, foundFull>>

\* The desk makes up a code without looking whether it is in use.
CodesToTry(q) == IF Op[q] = "onsite" THEN Codes ELSE {code[q]}

(***************************************************************************)
(* registrant.create, with the answers; those of the desk follow in calls  *)
(* of their own.  The desk approves.  Nobody catches a unique violation.   *)
(***************************************************************************)
Create(q) ==
  /\ pc[q] = "create"
  /\ \E c \in CodesToTry(q) :
       IF SamePlace(q) # {} \/ c \in CodesInUse
       THEN /\ Reply(q, "ERROR")
            /\ UNCHANGED <<registered, code, decision>>
       ELSE /\ registered' = registered \cup {q}
            /\ code' = [code EXCEPT ![q] = c]
            /\ decision' = IF Op[q] = "onsite"
                           THEN [decision EXCEPT ![q] = "APPROVED"]
                           ELSE decision
            /\ Goto(q, IF Op[q] = "onsite" THEN "responses" ELSE "deliver")
  /\ UNCHANGED <<badged, rules, cap, foundFull>>

\* createMany of the answers and upsert of the photo: the row is there already.
StoreResponses(q) ==
  /\ pc[q] = "responses"
  /\ Goto(q, "deliver")
  /\ UNCHANGED <<table, rules, code, decision, cap, foundFull>>

(***************************************************************************)
(* Confirmation, badge, SMS and webhook: each may fail, and is swallowed.  *)
(* Of these only the badge is kept here.                                   *)
(***************************************************************************)
Deliver(q) ==
  /\ pc[q] = "deliver"
  /\ badged' \in IF decision[q] = "APPROVED" THEN {badged, badged \cup {q}} ELSE {badged}
  /\ Goto(q, "audit")
  /\ UNCHANGED <<registered, rules, code, decision, cap, foundFull>>

Finish(q) ==
  /\ pc[q] = "audit" /\ Op[q] # "onsite"
  /\ Reply(q, "CREATED")
  /\ UNCHANGED <<table, rules, code, decision, cap, foundFull>>

\* The desk writes its audit entry and looks for the badge it tells of.
FinishAtDesk(q) ==
  /\ pc[q] = "audit" /\ Op[q] = "onsite"
  /\ Reply(q, "CREATED")
  /\ UNCHANGED <<table, rules, code, decision, cap, foundFull>>

\* importUpdate renames the registrant it found and sees to a badge for it.
Update(q) ==
  /\ pc[q] = "update"
  /\ \E p \in SamePlace(q) : badged' \in {badged, badged \cup {p}}
  /\ Reply(q, "UPDATED")
  /\ UNCHANGED <<registered, rules, code, decision, cap, foundFull>>

\* An awaited call throws, or the process dies.
Throw(q) ==
  /\ pc[q] \notin {"idle", "done"}
  /\ Reply(q, "ERROR")
  /\ UNCHANGED <<table, rules, code, decision, cap, foundFull>>

\* The organizer changes a link: updateLink and its rule, the window passes.
ChangeLink(l) ==
  /\ \/ limit' \in {[limit EXCEPT ![l] = c] : c \in Limits} /\ UNCHANGED open
     \/ open' = [open EXCEPT ![l] = ~@] /\ UNCHANGED limit
  /\ UNCHANGED <<table, code, decision, pc, answer, cap, foundFull>>

Step(q) == \/ ReadLink(q) \/ FindInEvent(q) \/ FindInLink(q) \/ Count(q)
           \/ PickCode(q) \/ Create(q) \/ StoreResponses(q) \/ Deliver(q)
           \/ Finish(q) \/ FinishAtDesk(q) \/ Update(q)

Next == \/ \E q \in Requests : Step(q) \/ Throw(q)
        \/ \E l \in Links : ChangeLink(l)

Spec == Init /\ [][Next]_vars

----------------------------------------------------------------------------
(***************************************************************************)
(* The shape of the state; a row has a code, and is of a request that got  *)
(* as far as the insert.                                                   *)
(***************************************************************************)
TypeOK ==
  /\ registered \subseteq Requests
  /\ badged \subseteq registered
  /\ code \in [Requests -> Codes \cup {NoCode}]
  /\ \A q \in registered : code[q] \in Codes
  /\ decision \in [Requests -> Lifecycle]
  /\ limit \in [Links -> Limits]
  /\ open \in [Links -> BOOLEAN]
  /\ pc \in [Requests -> Steps]
  /\ answer \in [Requests -> Answers]
  /\ cap \in [Requests -> Limits \cup {Unlimited}]
  /\ foundFull \in [Requests -> BOOLEAN]

(***************************************************************************)
(* docs/registrant-experience-api.md:70: one registrant per link and       *)
(* e-mail address, whichever of form, desk and import raced for it; and a  *)
(* reference code, by which registrants retrieve their badge, names one.   *)
(***************************************************************************)
UniqueRegistrants ==
  \A p, q \in registered :
    \/ Link[p] = Link[q] /\ Email[p] = Email[q]
    \/ code[p] = code[q]
    => p = q

(***************************************************************************)
(* Nobody is told of a registration that does not exist, or refused after  *)
(* having been registered: CREATED means that the request's row is there,  *)
(* CONFLICT, SKIPPED and UPDATED that another's is, in the same link or,   *)
(* for the desk, in the same event.                                        *)
(***************************************************************************)
TruthfulAnswers ==
  \A q \in Requests :
    /\ answer[q] = "CREATED" => q \in registered
    /\ answer[q] \in Refusals => q \notin registered
    /\ answer[q] \in {"SKIPPED", "FLAGGED", "UPDATED"} => SamePlace(q) # {}
    /\ answer[q] = "CONFLICT" =>
         IF Op[q] = "onsite" THEN SameEmail(q) # {} ELSE SamePlace(q) # {}

(***************************************************************************)
(* The capacity check is racy, but only among submissions that overlap: a  *)
(* submission that found its link full when it read the link is never      *)
(* registered, whatever the organizer and others do before it counts.      *)
(***************************************************************************)
LateStayOut ==
  \A q \in registered : Op[q] = "submit" => ~foundFull[q]

(***************************************************************************)
(* `system design.md':147: the capacity limit is the "Maximum number of    *)
(* registrants" of a link.                                                 *)
(***************************************************************************)
WithinCapacity == \A l \in Links : limit[l] # Unlimited => Cardinality(RowsOf(l)) <= limit[l]
=============================================================================
