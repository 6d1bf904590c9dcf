------------------------- MODULE Registration_proofs ------------------------
(***************************************************************************)
(* Proofs about Registration, for any number of requests, links, addresses *)
(* and codes.                                                              *)
(*                                                                         *)
(* The invariant is in Progress: what a request has established by the     *)
(* await it stands at.  Rows are never removed, so what a request has seen *)
(* in the table stays there; its own row is not there before its insert.   *)
(* A request that found its link full carries a capacity the link exceeds  *)
(* until it counts.                                                        *)
(*                                                                         *)
(* WithinCapacity is false; the last part proves what it needs, and how    *)
(* far a link can be overrun without it.                                   *)
(***************************************************************************)
EXTENDS Registration, TLAPS, FiniteSetTheorems

Progress(q) ==
  /\ pc[q] # "done" => answer[q] = "none"
  /\ pc[q] \in {"idle", "event", "link", "count", "code", "create", "update"}
       => q \notin registered
  /\ pc[q] \in {"responses", "deliver", "audit"} => q \in registered
  /\ pc[q] = "event" => Op[q] = "onsite"
  /\ pc[q] = "count" => Op[q] = "submit"
  /\ pc[q] = "update" => Op[q] = "importUpdate" /\ SamePlace(q) # {}
  /\ pc[q] = "create" /\ Op[q] # "onsite" => code[q] \in Codes
  /\ q \in registered => code[q] \in Codes

\* A submission carries the news that its link is full up to its count.
Lateness(q) ==
  Op[q] = "submit" /\ foundFull[q] =>
    /\ q \notin registered
    /\ pc[q] \notin {"code", "create"}
    /\ pc[q] \in {"link", "count"} => Full(Link[q], cap[q])

TruthfulAnswer(q) ==
  /\ answer[q] = "CREATED" => q \in registered
  /\ answer[q] \in Refusals => q \notin registered
  /\ answer[q] \in {"SKIPPED", "FLAGGED", "UPDATED"} => SamePlace(q) # {}
  /\ answer[q] = "CONFLICT" =>
       IF Op[q] = "onsite" THEN SameEmail(q) # {} ELSE SamePlace(q) # {}

Inv == /\ TypeOK
       /\ UniqueRegistrants
       /\ \A q \in Requests : Progress(q) /\ TruthfulAnswer(q) /\ Lateness(q)

----------------------------------------------------------------------------
\* Rows are only added, so a link that is full for a capacity stays full for it.
LEMMA RowsGrow ==
  ASSUME registered \subseteq registered', registered' \subseteq Requests, NEW l
  PROVE  /\ Cardinality(RowsOf(l)) \in Nat
         /\ Cardinality(RowsOf(l)') \in Nat
         /\ Cardinality(RowsOf(l)) <= Cardinality(RowsOf(l)')
<1>1. RowsOf(l) \subseteq RowsOf(l)' /\ RowsOf(l)' \subseteq Requests
  BY DEF RowsOf
<1>2. IsFiniteSet(RowsOf(l)')
  BY <1>1, RequestAssumption, FS_Subset
<1> QED
  BY <1>1, <1>2, FS_Subset, FS_CardinalityType

\* The initial states satisfy the invariant.
LEMMA InvInit == Init => Inv
<1> SUFFICES ASSUME Init PROVE Inv
  OBVIOUS
<1>1. TypeOK
  BY DEF Init, TypeOK, Lifecycle, Steps, Answers, Refusals
<1>2. UniqueRegistrants
  BY DEF Init, UniqueRegistrants
<1>3. ASSUME NEW q \in Requests PROVE Progress(q) /\ TruthfulAnswer(q) /\ Lateness(q)
  BY <1>3 DEF Init, Progress, TruthfulAnswer, Lateness, Refusals
<1> QED
  BY <1>1, <1>2, <1>3 DEF Inv

(***************************************************************************)
(* Other requests: a step of q that adds at most its own row, and touches  *)
(* nobody else's locals, leaves what holds of the others.                  *)
(***************************************************************************)
LEMMA Others ==
  ASSUME Inv, NEW q \in Requests, registered' \in {registered, registered \cup {q}},
         \A p \in Requests \ {q} :
           /\ pc'[p] = pc[p] /\ answer'[p] = answer[p] /\ code'[p] = code[p]
           /\ cap'[p] = cap[p] /\ foundFull'[p] = foundFull[p],
         NEW p \in Requests \ {q}
  PROVE  (Progress(p) /\ TruthfulAnswer(p) /\ Lateness(p))'
<1>1. p \in registered' <=> p \in registered
  OBVIOUS
<1>2. SamePlace(p) \subseteq SamePlace(p)' /\ SameEmail(p) \subseteq SameEmail(p)'
  BY DEF SamePlace, SameEmail, RowsOf
<1>3. Full(Link[p], cap[p]) => Full(Link[p], cap[p])'
  <2>1. /\ registered \subseteq registered' /\ registered' \subseteq Requests
        /\ cap[p] \in Nat \cup {Unlimited} /\ cap'[p] = cap[p]
    BY LimitAssumption DEF Inv, TypeOK
  <2>2. /\ Cardinality(RowsOf(Link[p])) \in Nat
        /\ Cardinality(RowsOf(Link[p])') \in Nat
        /\ Cardinality(RowsOf(Link[p])) <= Cardinality(RowsOf(Link[p])')
    BY <2>1, RowsGrow
  <2>3. Cardinality(RowsOf(Link[p])') = Cardinality(RowsOf(Link[p]))'
    OBVIOUS
  <2> QED
    BY <2>1, <2>2, <2>3 DEF Full
<1>4. Progress(p) /\ TruthfulAnswer(p) /\ Lateness(p)
  BY DEF Inv
<1>5. Progress(p)'
  BY <1>1, <1>2, <1>4 DEF Progress
<1>6. TruthfulAnswer(p)'
  BY <1>1, <1>2, <1>4 DEF TruthfulAnswer
<1>7. Lateness(p)'
  BY <1>1, <1>3, <1>4 DEF Lateness
<1> QED
  BY <1>5, <1>6, <1>7

(***************************************************************************)
(* Own step: a request that answers or goes on without touching the table. *)
(***************************************************************************)
LEMMA OwnStep ==
  ASSUME Inv, NEW q \in Requests, registered' \in {registered, registered \cup {q}},
         \A p \in Requests \ {q} :
           /\ pc'[p] = pc[p] /\ answer'[p] = answer[p] /\ code'[p] = code[p]
           /\ cap'[p] = cap[p] /\ foundFull'[p] = foundFull[p],
         TypeOK', UniqueRegistrants',
         Progress(q)', TruthfulAnswer(q)', Lateness(q)'
  PROVE  Inv'
  BY Others DEF Inv

(***************************************************************************)
(* Every step preserves the invariant.                                     *)
(***************************************************************************)
LEMMA InvStep == Inv /\ [Next]_vars => Inv'
<1> SUFFICES ASSUME Inv, [Next]_vars PROVE Inv'
  OBVIOUS
<1> USE DEF table, rules
<1>1. ASSUME NEW q \in Requests, ReadLink(q) PROVE Inv'
  <2>1. TypeOK'
    BY <1>1, LimitAssumption, RequestAssumption
       DEF Inv, TypeOK, ReadLink, AtDesk, Takes, Goto, Reply, Full, Steps, Answers, Refusals
  <2>2. UniqueRegistrants'
    BY <1>1 DEF Inv, UniqueRegistrants, ReadLink, AtDesk
  <2>3. Progress(q)' /\ TruthfulAnswer(q)'
    BY <1>1 DEF Inv, TypeOK, Progress, TruthfulAnswer, ReadLink, AtDesk, Goto, Reply, Refusals, Imports
  <2>4. Lateness(q)'
    BY <1>1, <2>3 DEF Inv, TypeOK, Progress, Lateness, Full, RowsOf, ReadLink, AtDesk, Goto, Reply, Imports
  <2> QED
    BY <1>1, <2>1, <2>2, <2>3, <2>4, OwnStep DEF ReadLink, AtDesk, Goto, Reply, Inv, TypeOK
<1>2. ASSUME NEW q \in Requests, FindInEvent(q) \/ FindInLink(q) \/ Count(q) PROVE Inv'
  <2> USE DEF FindInEvent, FindInLink, Count, Validate, WhenFound, WhenNew, Goto, Reply
  <2>1. TypeOK'
    BY <1>2, RequestAssumption DEF Inv, TypeOK, Steps, Answers, Refusals, Imports, Ops
  <2>2. UniqueRegistrants'
    BY <1>2, RequestAssumption DEF Inv, UniqueRegistrants, Ops, Imports
  <2>3. Progress(q)' /\ TruthfulAnswer(q)'
    <3>1. /\ SamePlace(q)' = SamePlace(q) /\ SameEmail(q)' = SameEmail(q)
          /\ SamePlace(q) # {} => SameEmail(q) # {}
      BY <1>2, RequestAssumption DEF SamePlace, SameEmail, RowsOf, Ops, Imports
    <3>2. Op[q] \in Ops /\ pc[q] # "done" /\ Progress(q) /\ registered' = registered /\ code' = code
      BY <1>2, RequestAssumption DEF Inv, Ops, Imports
    <3>3. CASE FindInEvent(q)
      BY <3>1, <3>2, <3>3 DEF Inv, TypeOK, Progress, TruthfulAnswer, Refusals
    <3>4. CASE FindInLink(q)
      BY <3>1, <3>2, <3>4 DEF Inv, TypeOK, Progress, TruthfulAnswer, Refusals, Imports, Ops
    <3>5. CASE Count(q)
      BY <3>1, <3>2, <3>5 DEF Inv, TypeOK, Progress, TruthfulAnswer, Refusals
    <3> QED
      BY <1>2, <3>3, <3>4, <3>5
  <2>4. Lateness(q)'
    BY <1>2, <2>3, RequestAssumption
       DEF Inv, TypeOK, Progress, Lateness, Full, RowsOf, Imports, Ops
  <2> QED
    BY <1>2, <2>1, <2>2, <2>3, <2>4, OwnStep, RequestAssumption DEF Inv, TypeOK, Ops, Imports
<1>3. ASSUME NEW q \in Requests, PickCode(q) PROVE Inv'
  <2> USE DEF PickCode, Decisions, Goto, Reply
  <2>1. TypeOK'
    BY <1>3 DEF Inv, TypeOK, Steps, Answers, Refusals, Lifecycle
  <2>2. UniqueRegistrants'
    BY <1>3 DEF Inv, TypeOK, UniqueRegistrants, Progress
  <2>3. Progress(q)' /\ TruthfulAnswer(q)'
    BY <1>3 DEF Inv, TypeOK, Progress, TruthfulAnswer, Refusals
  <2>4. Lateness(q)'
    BY <1>3 DEF Inv, TypeOK, Progress, Lateness
  <2> QED
    BY <1>3, <2>1, <2>2, <2>3, <2>4, OwnStep DEF Inv, TypeOK
<1>4. ASSUME NEW q \in Requests, Create(q) PROVE Inv'
  <2>1. PICK c \in CodesToTry(q) :
          \/ /\ Reply(q, "ERROR")
             /\ UNCHANGED <<registered, code, decision>>
          \/ /\ SamePlace(q) = {} /\ c \notin CodesInUse
             /\ registered' = registered \cup {q}
             /\ code' = [code EXCEPT ![q] = c]
             /\ decision' = IF Op[q] = "onsite"
                            THEN [decision EXCEPT ![q] = "APPROVED"]
                            ELSE decision
             /\ Goto(q, IF Op[q] = "onsite" THEN "responses" ELSE "deliver")
    BY <1>4 DEF Create
  <2>2. /\ pc[q] = "create" /\ c \in Codes
        /\ UNCHANGED <<badged, limit, open, cap, foundFull>>
    BY <1>4, <2>1 DEF Create, CodesToTry, Inv, Progress
  <2>3. CASE /\ Reply(q, "ERROR")
             /\ UNCHANGED <<registered, code, decision>>
    <3>1. TypeOK' /\ UniqueRegistrants'
      BY <2>2, <2>3 DEF Inv, TypeOK, UniqueRegistrants, Reply, Steps, Answers
    <3>2. (Progress(q) /\ TruthfulAnswer(q) /\ Lateness(q))'
      BY <2>2, <2>3 DEF Inv, TypeOK, Progress, TruthfulAnswer, Lateness, Reply, Refusals
    <3> QED
      BY <2>2, <2>3, <3>1, <3>2, OwnStep DEF Reply, Inv, TypeOK
  <2>4. CASE /\ SamePlace(q) = {} /\ c \notin CodesInUse
             /\ registered' = registered \cup {q}
             /\ code' = [code EXCEPT ![q] = c]
             /\ decision' = IF Op[q] = "onsite"
                            THEN [decision EXCEPT ![q] = "APPROVED"]
                            ELSE decision
             /\ Goto(q, IF Op[q] = "onsite" THEN "responses" ELSE "deliver")
    <3>1. TypeOK'
      BY <2>2, <2>4 DEF Inv, TypeOK, Goto, Steps, Lifecycle
    <3>2. ASSUME NEW p \in registered
          PROVE  ~(Link[p] = Link[q] /\ Email[p] = Email[q]) /\ code[p] # c
      BY <2>4 DEF SamePlace, RowsOf, CodesInUse
    <3>3. UniqueRegistrants'
      BY <2>2, <2>4, <3>2 DEF Inv, TypeOK, UniqueRegistrants
    <3>4. (Progress(q) /\ TruthfulAnswer(q) /\ Lateness(q))'
      BY <2>2, <2>4 DEF Inv, TypeOK, Progress, TruthfulAnswer, Lateness, Goto, Refusals
    <3> QED
      BY <2>2, <2>4, <3>1, <3>3, <3>4, OwnStep DEF Goto, Inv, TypeOK
  <2> QED
    BY <2>1, <2>3, <2>4
<1>5. ASSUME NEW q \in Requests, StoreResponses(q) \/ Deliver(q) \/ Finish(q)
                                    \/ FinishAtDesk(q) \/ Update(q) \/ Throw(q) PROVE Inv'
  <2> USE DEF StoreResponses, Deliver, Finish, FinishAtDesk, Update, Throw, Goto, Reply
  <2>1. TypeOK'
    BY <1>5 DEF Inv, TypeOK, Steps, Answers, Refusals, Progress, SamePlace, RowsOf
  <2>2. UniqueRegistrants'
    BY <1>5 DEF Inv, UniqueRegistrants
  <2>3. (Progress(q) /\ TruthfulAnswer(q) /\ Lateness(q))'
    BY <1>5 DEF Inv, TypeOK, Progress, TruthfulAnswer, Lateness, Refusals, SamePlace, RowsOf
  <2> QED
    BY <1>5, <2>1, <2>2, <2>3, OwnStep DEF Inv, TypeOK
<1>6. ASSUME UNCHANGED <<registered, badged, code, decision, pc, answer, cap, foundFull>>,
             limit' \in [Links -> Limits], open' \in [Links -> BOOLEAN]
      PROVE  Inv'
  <2>1. TypeOK' /\ UniqueRegistrants'
    BY <1>6 DEF Inv, TypeOK, UniqueRegistrants
  <2>2. ASSUME NEW q \in Requests PROVE (Progress(q) /\ TruthfulAnswer(q) /\ Lateness(q))'
    BY <1>6 DEF Inv, Progress, TruthfulAnswer, Lateness, SamePlace, SameEmail, RowsOf, Full
  <2> QED
    BY <2>1, <2>2 DEF Inv
<1>7. ASSUME NEW l \in Links, ChangeLink(l) PROVE Inv'
  BY <1>6, <1>7 DEF ChangeLink, Inv, TypeOK
<1>8. CASE UNCHANGED vars
  BY <1>6, <1>8 DEF vars, Inv, TypeOK
<1> QED
  BY <1>1, <1>2, <1>3, <1>4, <1>5, <1>7, <1>8 DEF Next, Step

LEMMA Invariance == Spec => []Inv
  BY InvInit, InvStep, PTL DEF Spec

----------------------------------------------------------------------------
(***************************************************************************)
(* The state of the registration keeps its shape: a row has a code, and a  *)
(* badge is of a row.                                                      *)
(***************************************************************************)
THEOREM RegistrationTyped == Spec => []TypeOK
<1>1. Inv => TypeOK
  BY DEF Inv
<1> QED
  BY <1>1, Invariance, PTL

(***************************************************************************)
(* However many forms, desks and imports race, an address is registered    *)
(* once per link and a reference code names one registrant.                *)
(***************************************************************************)
THEOREM OneRegistrant == Spec => []UniqueRegistrants
<1>1. Inv => UniqueRegistrants
  BY DEF Inv
<1> QED
  BY <1>1, Invariance, PTL

(***************************************************************************)
(* What a submission, a desk or an import row is told of a registration is *)
(* the case in the table.                                                  *)
(***************************************************************************)
THEOREM OutcomesAreTrue == Spec => []TruthfulAnswers
<1>1. Inv => TruthfulAnswers
  BY DEF Inv, TruthfulAnswers, TruthfulAnswer
<1> QED
  BY <1>1, Invariance, PTL

(***************************************************************************)
(* A submission that found its link full is never registered, for every    *)
(* number of competing submissions and every change of capacity meanwhile. *)
(***************************************************************************)
THEOREM FullIsFull == Spec => []LateStayOut
<1>1. Inv => LateStayOut
  BY DEF Inv, TypeOK, LateStayOut, Lateness
<1> QED
  BY <1>1, Invariance, PTL

----------------------------------------------------------------------------
(***************************************************************************)
(* Capacity.  WithinCapacity does not hold; the run registration_capacity  *)
(* shows how.  How far it can be overrun is another matter: whoever counts *)
(* last sees fewer rows than the capacity, and after that only those who   *)
(* have counted already can still insert.                                  *)
(***************************************************************************)
SubmittedTo(l) == {q \in RowsOf(l) : Op[q] = "submit"}

\* The submissions of a link that have counted and have not inserted.
Passing(l) ==
  {q \in Requests : Op[q] = "submit" /\ Link[q] = l /\ pc[q] \in {"code", "create"}}

\* No more than k submissions of a link are between count and insert.
Overlap(k) == \A l \in Links : Cardinality(Passing(l)) <= k

\* An organizer raises the capacity of a link or lifts it, but does not lower it.
NeverLowered ==
  \A l \in Links :
    \/ limit'[l] \in {limit[l], Unlimited}
    \/ limit[l] # Unlimited /\ limit'[l] >= limit[l]

Overrun(k) ==
  \A l \in Links :
    limit[l] # Unlimited => Cardinality(SubmittedTo(l)) <= limit[l] + k - 1

Taken(l) == SubmittedTo(l) \cup Passing(l)

\* What a submission has read of the capacity is no more than what it is.
CautiousRead(q) ==
  Op[q] = "submit" /\ pc[q] \in {"link", "count"} =>
    \/ limit[Link[q]] = Unlimited
    \/ cap[q] # Unlimited /\ cap[q] <= limit[Link[q]]

Bounded(k) ==
  /\ \A q \in Requests : CautiousRead(q)
  /\ \A l \in Links :
       limit[l] # Unlimited => Cardinality(Taken(l)) <= limit[l] + k - 1

\* Sets of requests are finite, and two of them hold no more than both.
LEMMA Counts ==
  ASSUME NEW A \in SUBSET Requests, NEW B \in SUBSET Requests
  PROVE  /\ IsFiniteSet(A)
         /\ Cardinality(A) \in Nat /\ Cardinality(B) \in Nat
         /\ Cardinality(A \cup B) \in Nat
         /\ Cardinality(A) <= Cardinality(A \cup B)
         /\ Cardinality(A \cup B) <= Cardinality(A) + Cardinality(B)
<1>1. IsFiniteSet(A) /\ IsFiniteSet(B) /\ IsFiniteSet(A \cup B)
  BY RequestAssumption, FS_Subset, FS_Union
<1>2. /\ Cardinality(A) \in Nat /\ Cardinality(B) \in Nat
      /\ Cardinality(A \cup B) \in Nat /\ Cardinality(A \cap B) \in Nat
  BY <1>1, FS_CardinalityType, FS_Intersection
<1>3. Cardinality(A) <= Cardinality(A \cup B)
  BY <1>1, FS_Subset
<1>4. Cardinality(A \cup B) = Cardinality(A) + Cardinality(B) - Cardinality(A \cap B)
  BY <1>1, FS_Union
<1> QED
  BY <1>1, <1>2, <1>3, <1>4

\* The places of a link are taken by requests, in this state and in the next.
LEMMA PlacesOfRequests ==
  ASSUME Inv, NEW l
  PROVE  /\ Taken(l) \in SUBSET Requests /\ SubmittedTo(l) \in SUBSET RowsOf(l)
         /\ SubmittedTo(l) \in SUBSET Requests /\ RowsOf(l) \in SUBSET Requests
         /\ Passing(l)' \in SUBSET Requests
  BY DEF Inv, TypeOK, Taken, SubmittedTo, Passing, RowsOf

LEMMA BoundedInit == ASSUME NEW k \in Nat \ {0}, Init PROVE Bounded(k)
<1>1. ASSUME NEW l \in Links PROVE Cardinality(Taken(l)) = 0
  BY FS_EmptySet DEF Init, Taken, SubmittedTo, Passing, RowsOf
<1>2. limit \in [Links -> Nat \cup {Unlimited}]
  BY LimitAssumption DEF Init
<1> QED
  BY <1>1, <1>2, LimitAssumption DEF Bounded, CautiousRead, Init

(***************************************************************************)
(* A step that takes no new place, and does not lower the capacity.        *)
(***************************************************************************)
LEMMA NothingTaken ==
  ASSUME NEW k \in Nat \ {0}, Inv, Inv', NeverLowered, NEW l \in Links,
         limit[l] # Unlimited => Cardinality(Taken(l)) <= limit[l] + k - 1,
         Taken(l)' \subseteq Taken(l)
  PROVE  limit'[l] # Unlimited => Cardinality(Taken(l)') <= limit'[l] + k - 1
<1>1. /\ limit[l] \in Nat \cup {Unlimited} /\ limit'[l] \in Nat \cup {Unlimited}
      /\ registered \subseteq Requests
  BY LimitAssumption DEF Inv, TypeOK
<1>2. /\ IsFiniteSet(Taken(l)) /\ Cardinality(Taken(l)) \in Nat
  BY PlacesOfRequests, Counts
<1>3. Cardinality(Taken(l)') \in Nat /\ Cardinality(Taken(l)') <= Cardinality(Taken(l))
  BY <1>2, FS_Subset, FS_CardinalityType
<1> QED
  BY <1>1, <1>2, <1>3, LimitAssumption DEF NeverLowered

(***************************************************************************)
(* The count is the only step that takes a place: it sees fewer rows than  *)
(* the capacity, and Overlap bounds those who stand between.               *)
(***************************************************************************)
LEMMA CountTakes ==
  ASSUME NEW k \in Nat \ {0}, Inv, Bounded(k), Overlap(k)', NEW q \in Requests, Count(q)
  PROVE  Bounded(k)'
<1>0. /\ pc[q] = "count" /\ Op[q] = "submit" /\ q \notin registered
      /\ UNCHANGED <<registered, limit, cap>>
      /\ pc' \in {[pc EXCEPT ![q] = "code"], [pc EXCEPT ![q] = "done"]}
      /\ pc'[q] = "code" => ~Full(Link[q], cap[q])
      /\ Link[q] \in Links /\ pc \in [Requests -> Steps]
  BY RequestAssumption
     DEF Count, Validate, Goto, Reply, Inv, TypeOK, Progress, table, rules
<1>1. ASSUME NEW p \in Requests PROVE CautiousRead(p)'
  BY <1>0, <1>1 DEF Bounded, CautiousRead
<1>2. ASSUME NEW l \in Links PROVE limit'[l] # Unlimited => Cardinality(Taken(l)') <= limit'[l] + k - 1
  <2>1. limit[l] # Unlimited => Cardinality(Taken(l)) <= limit[l] + k - 1
    BY DEF Bounded
  <2>2. CASE l # Link[q] \/ pc'[q] # "code"
    <3>1. Taken(l)' = Taken(l) \/ (l = Link[q] /\ Taken(l)' \subseteq Taken(l))
      BY <1>0, <2>2 DEF Taken, SubmittedTo, Passing, RowsOf
    <3>2. limit' = limit /\ limit[l] \in Nat \cup {Unlimited}
      BY <1>0, LimitAssumption DEF Inv, TypeOK
    <3>3. IsFiniteSet(Taken(l)) /\ Cardinality(Taken(l)) \in Nat
      BY PlacesOfRequests, Counts
    <3>4. Cardinality(Taken(l)') \in Nat /\ Cardinality(Taken(l)') <= Cardinality(Taken(l))
      BY <3>1, <3>3, FS_Subset, FS_CardinalityType
    <3> QED
      BY <2>1, <3>2, <3>3, <3>4
  <2>3. CASE l = Link[q] /\ pc'[q] = "code" /\ limit[l] # Unlimited
    <3>1. /\ limit[l] \in Nat /\ limit' = limit /\ cap[q] \in Nat \cup {Unlimited}
      BY <1>0, <2>3, LimitAssumption DEF Inv, TypeOK
    <3>2. cap[q] # Unlimited /\ cap[q] <= limit[l]
      BY <1>0, <2>3 DEF Bounded, CautiousRead
    <3>3. Cardinality(RowsOf(l)) \in Nat /\ Cardinality(RowsOf(l)) < cap[q]
      BY <1>0, <2>3, <3>1, <3>2, PlacesOfRequests, Counts, LimitAssumption DEF Full
    <3>4. Cardinality(SubmittedTo(l)) \in Nat /\ Cardinality(SubmittedTo(l)) <= Cardinality(RowsOf(l))
      BY PlacesOfRequests, Counts, FS_Subset
    <3>5. Taken(l)' = SubmittedTo(l) \cup Passing(l)'
      BY <1>0 DEF Taken, SubmittedTo, RowsOf
    <3>6. /\ Cardinality(Taken(l)') <= Cardinality(SubmittedTo(l)) + Cardinality(Passing(l)')
          /\ Cardinality(Passing(l)') \in Nat /\ Cardinality(Taken(l)') \in Nat
      BY <3>5, PlacesOfRequests, Counts
    <3>7. Cardinality(Passing(l)') <= k
      BY DEF Overlap
    <3> QED
      BY <3>1, <3>2, <3>3, <3>4, <3>6, <3>7
  <2>4. CASE limit[l] = Unlimited
    BY <1>0, <2>4
  <2> QED
    BY <2>2, <2>3, <2>4
<1> QED
  BY <1>1, <1>2 DEF Bounded
(***************************************************************************)
(* Any other step of a request takes no place: an insert keeps the one its *)
(* submission had already.                                                 *)
(***************************************************************************)
LEMMA OthersTakeNone ==
  ASSUME NEW k \in Nat \ {0}, Inv, Inv', Bounded(k), NEW q \in Requests,
         Step(q) \/ Throw(q), ~Count(q)
  PROVE  Bounded(k)'
<1>1. /\ UNCHANGED limit
      /\ registered' \in {registered, registered \cup {q}}
      /\ q \in registered' \ registered => pc[q] = "create"
      /\ \A p \in Requests \ {q} : pc'[p] = pc[p] /\ cap'[p] = cap[p]
      /\ pc'[q] \in {"code", "create"} /\ Op[q] = "submit" => pc[q] \in {"code", "create"}
      /\ pc'[q] \in {"link", "count"} /\ Op[q] = "submit" =>
           \/ cap'[q] = limit[Link[q]]
           \/ pc[q] = "link" /\ cap'[q] = cap[q]
  <2> USE DEF Goto, Reply, table, rules
  <2>1. CASE ReadLink(q)
    BY <2>1 DEF ReadLink, AtDesk, Inv, TypeOK
  <2>2. CASE FindInEvent(q)
    BY <2>2 DEF FindInEvent, Inv, TypeOK, Progress
  <2>3. CASE FindInLink(q)
    BY <2>3, RequestAssumption DEF FindInLink, WhenFound, WhenNew, Inv, TypeOK, Ops, Imports
  <2>4. CASE PickCode(q)
    BY <2>4 DEF PickCode, Inv, TypeOK
  <2>5. CASE Create(q)
    BY <2>5 DEF Create, Inv, TypeOK
  <2>6. CASE StoreResponses(q) \/ Deliver(q) \/ Finish(q) \/ FinishAtDesk(q) \/ Update(q) \/ Throw(q)
    BY <2>6 DEF StoreResponses, Deliver, Finish, FinishAtDesk, Update, Throw, Inv, TypeOK
  <2> QED
    BY <2>1, <2>2, <2>3, <2>4, <2>5, <2>6 DEF Step
<1>2. Link \in [Requests -> Links] /\ limit \in [Links -> Nat \cup {Unlimited}]
  BY RequestAssumption, LimitAssumption DEF Inv, TypeOK
<1>3. ASSUME NEW p \in Requests PROVE CautiousRead(p)'
  <2>1. CASE p # q
    BY <1>1, <1>2, <2>1 DEF Bounded, CautiousRead
  <2>2. CASE p = q
    BY <1>1, <1>2, <2>2, LimitAssumption DEF Bounded, CautiousRead
  <2> QED
    BY <2>1, <2>2
<1>4. ASSUME NEW l \in Links PROVE limit'[l] # Unlimited => Cardinality(Taken(l)') <= limit'[l] + k - 1
  <2>1. Taken(l)' \subseteq Taken(l)
    BY <1>1 DEF Taken, SubmittedTo, Passing, RowsOf, Inv, TypeOK
  <2>2. NeverLowered
    BY <1>1 DEF NeverLowered
  <2>3. limit[l] # Unlimited => Cardinality(Taken(l)) <= limit[l] + k - 1
    BY DEF Bounded
  <2> QED
    BY <2>1, <2>2, <2>3, NothingTaken
<1> QED
  BY <1>3, <1>4 DEF Bounded

LEMMA BoundedStep ==
  ASSUME NEW k \in Nat \ {0}, Inv, Inv', Bounded(k), Overlap(k)', [NeverLowered]_vars, [Next]_vars
  PROVE  Bounded(k)'
<1>0. limit \in [Links -> Nat \cup {Unlimited}] /\ NeverLowered
  BY LimitAssumption DEF NeverLowered, vars, Inv, TypeOK
<1>1. ASSUME NEW q \in Requests, Step(q) \/ Throw(q) PROVE Bounded(k)'
  BY <1>1, CountTakes, OthersTakeNone
<1>2. ASSUME UNCHANGED <<registered, pc, cap>> PROVE Bounded(k)'
  <2>1. ASSUME NEW p \in Requests PROVE CautiousRead(p)'
    <3>1. Link[p] \in Links /\ limit' \in [Links -> Nat \cup {Unlimited}]
          /\ cap[p] \in Nat \cup {Unlimited}
      BY RequestAssumption, LimitAssumption DEF Inv, TypeOK
    <3> QED
      BY <1>0, <1>2, <3>1, LimitAssumption DEF Bounded, CautiousRead, NeverLowered
  <2>2. ASSUME NEW l \in Links PROVE limit'[l] # Unlimited => Cardinality(Taken(l)') <= limit'[l] + k - 1
    <3>1. Taken(l)' = Taken(l)
      BY <1>2 DEF Taken, SubmittedTo, Passing, RowsOf
    <3>2. limit[l] # Unlimited => Cardinality(Taken(l)) <= limit[l] + k - 1
      BY DEF Bounded
    <3> QED
      BY <1>0, <3>1, <3>2, NothingTaken
  <2> QED
    BY <2>1, <2>2 DEF Bounded
<1>3. ASSUME NEW l \in Links, ChangeLink(l) PROVE Bounded(k)'
  BY <1>2, <1>3 DEF ChangeLink, table
<1>4. CASE UNCHANGED vars
  BY <1>2, <1>4 DEF vars
<1> QED
  BY <1>1, <1>3, <1>4 DEF Next

LEMMA BoundedIsOverrun ==
  ASSUME NEW k \in Nat \ {0}, Inv, Bounded(k)
  PROVE  Overrun(k)
<1> SUFFICES ASSUME NEW l \in Links, limit[l] # Unlimited
             PROVE  Cardinality(SubmittedTo(l)) <= limit[l] + k - 1
  BY DEF Overrun
<1>1. limit[l] \in Nat \cup {Unlimited}
  BY LimitAssumption DEF Inv, TypeOK
<1>2. Cardinality(Taken(l)) <= limit[l] + k - 1
  BY DEF Bounded
<1>3. SubmittedTo(l) \subseteq Taken(l)
  BY DEF Taken
<1>4. /\ Cardinality(SubmittedTo(l)) \in Nat /\ Cardinality(Taken(l)) \in Nat
      /\ Cardinality(SubmittedTo(l)) <= Cardinality(Taken(l))
  BY <1>3, PlacesOfRequests, Counts, FS_Subset
<1> QED
  BY <1>1, <1>2, <1>4

(***************************************************************************)
(* A link is overrun by no more than the submissions that overlapped, less *)
(* one: if never more than k stand between count and insert and nobody     *)
(* lowers a capacity, no link has more than capacity + k - 1 registrants   *)
(* that came through its form, whatever the desk and the imports insert.   *)
(***************************************************************************)
THEOREM OverlapBoundsOverrun ==
  ASSUME NEW k \in Nat \ {0}
  PROVE  Spec /\ []Overlap(k) /\ [][NeverLowered]_vars => []Overrun(k)
<1>1. Init => Bounded(k)
  BY BoundedInit
<1>2. Inv /\ Inv' /\ Bounded(k) /\ Overlap(k)' /\ [NeverLowered]_vars /\ [Next]_vars => Bounded(k)'
  BY BoundedStep
<1>3. Inv /\ Bounded(k) => Overrun(k)
  BY BoundedIsOverrun
<1> QED
  BY <1>1, <1>2, <1>3, Invariance, PTL DEF Spec

\* No registrant of the desk or of an import: neither of them counts.
ByFormOnly == \A q \in registered : Op[q] = "submit"

(***************************************************************************)
(* What the capacity rule needs to hold: that no two submissions stand     *)
(* between count and insert together, that no capacity is lowered, and     *)
(* that all come through the form.  The run registration_capacity breaks   *)
(* it by lacking the first alone.                                          *)
(***************************************************************************)
THEOREM CapacityWithoutOverlap ==
  Spec /\ []Overlap(1) /\ [][NeverLowered]_vars /\ []ByFormOnly => []WithinCapacity
<1>1. Init => Bounded(1)
  BY BoundedInit
<1>2. Inv /\ Inv' /\ Bounded(1) /\ Overlap(1)' /\ [NeverLowered]_vars /\ [Next]_vars => Bounded(1)'
  BY BoundedStep
<1>3. Inv /\ Bounded(1) /\ ByFormOnly => WithinCapacity
  <2> SUFFICES ASSUME Inv, Bounded(1), ByFormOnly, NEW l \in Links, limit[l] # Unlimited
               PROVE  Cardinality(RowsOf(l)) <= limit[l]
    BY DEF WithinCapacity
  <2>1. Cardinality(SubmittedTo(l)) <= limit[l] + 1 - 1
    BY BoundedIsOverrun DEF Overrun
  <2>2. SubmittedTo(l) = RowsOf(l)
    BY DEF ByFormOnly, SubmittedTo, RowsOf
  <2>3. limit[l] \in Nat \cup {Unlimited}
    BY LimitAssumption DEF Inv, TypeOK
  <2>4. Cardinality(RowsOf(l)) \in Nat
    BY PlacesOfRequests, Counts
  <2> QED
    BY <2>1, <2>2, <2>3, <2>4
<1> QED
  BY <1>1, <1>2, <1>3, Invariance, PTL DEF Spec
=============================================================================
