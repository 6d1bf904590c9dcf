-------------------------- MODULE Organizing_proofs --------------------------
(***************************************************************************)
(* Proofs about Organizing, for any organizers, visitors, links, form      *)
(* fields and templates, and any number of requests at once.               *)
(***************************************************************************)
EXTENDS Organizing, TLAPS

LEMMA JobTyped ==
  ASSUME NEW q \in Requests
  PROVE  /\ Job[q] \in JobRecords /\ Job[q].op \in Ops
         /\ Job[q].event \in Events /\ Job[q].link \in Links /\ Job[q].slug \in Slugs
         /\ Job[q].start \in Dates \cup {Keep, NoDate} /\ Job[q].end \in Dates \cup {Keep, NoDate}
         /\ Job[q].active \in BOOLEAN /\ Job[q].mode \in Modes
         /\ Job[q].keys \subseteq Keys /\ Job[q].template \in Templates
         /\ Job[q].type \in Types \cup {Untyped}
         /\ Job[q].status \in {"kept", "DRAFT", "PUBLISHED"}
BY JobAssumption DEF JobRecords

(***************************************************************************)
(* The steps of a request, by what it is about.                            *)
(***************************************************************************)
EventStep(q) == CreateEvent(q) \/ UpdateEvent(q) \/ ArchiveEvent(q)
LinkStep(q) == CreateLink(q) \/ UpdateLink(q) \/ DeleteLink(q)
UpsertStep(q) == UpsertFind(q) \/ UpsertWrite(q)
FieldStep(q) == FieldsBegin(q) \/ FieldsCommit(q)
RuleStep(q) == RulesFind(q) \/ RulesCommit(q)
VisitStep(q) == Resolve(q) \/ Metadata(q) \/ Retrieve(q) \/ Access(q) \/ Decide(q)
AnswerStep(q) == FindRegistrant(q) \/ SaveDelete(q) \/ SaveCreate(q) \/ EditAnswer(q)
TemplateStep(q) == CreateTemplate(q) \/ UpdateTemplate(q) \/ SetTemplateType(q)
MessageStep(q) == FindTypes(q) \/ PickTemplate(q) \/ PickSms(q) \/ SendText(q)
Step(q) == \/ Start(q) \/ Find(q) \/ Abort(q)
           \/ EventStep(q) \/ LinkStep(q) \/ UpsertStep(q) \/ FieldStep(q) \/ RuleStep(q)
           \/ VisitStep(q) \/ AnswerStep(q) \/ TemplateStep(q) \/ MessageStep(q)

LEMMA NextIsStep == Next <=> \E q \in Requests : Step(q)
BY DEF Next, Step, EventStep, LinkStep, UpsertStep, FieldStep, RuleStep, VisitStep, AnswerStep,
       TemplateStep, MessageStep

(***************************************************************************)
(* Where a request may stand, given what it asks for.  An event is never   *)
(* deleted, so that one that was found is there when it is written.        *)
(***************************************************************************)
WriteOps == {"createEvent", "updateEvent", "archiveEvent", "createLink", "updateLink", "deleteLink"}

Place(q) ==
  LET op == Job[q].op
  IN  /\ pc[q] \in {"find", "write"} => op \notin Anonymous /\ Valid(q)
      /\ pc[q] = "write" => op \in WriteOps
      /\ pc[q] = "write" /\ op \in {"updateEvent", "archiveEvent"} => event[Job[q].event].live
      /\ pc[q] \in {"upsertFind", "upsertWrite"} => op \in Saves
      /\ pc[q] \in {"fieldsBegin", "fieldsCommit"} => op = "fields"
      /\ pc[q] \in {"rulesFind", "rulesCommit"} => op = "rules"
      /\ pc[q] = "resolve" => op \in Visits
      /\ pc[q] = "access" => op \in {"resolve", "submit", "update"}
      /\ pc[q] = "decide" => op = "submit"
      /\ pc[q] \in {"registrant", "save", "failing"} => op = "update"
      /\ pc[q] = "edit" => op = "edit"
      /\ pc[q] \in {"template", "type"} => op \in {"createTemplate", "updateTemplate"}
      /\ pc[q] \in {"types", "pick"} => op = "notify"
      /\ pc[q] = "sms" => op = "sms"
      /\ pc[q] = "queued" => op \in {"notify", "sms"}
      /\ pc[q] = "retrieve" => op = "retrieve"

Typed == TypeOK /\ pc[Past] = "done" /\ \A q \in Requests : Place(q)

EventRows == [live: {TRUE}, status: {"DRAFT", "PUBLISHED", "ARCHIVED"},
              start: Dates \cup {NoDate}, end: Dates \cup {NoDate}]
LinkRows == [live: {TRUE}, slug: Slugs, active: BOOLEAN,
             start: Dates \cup {NoDate}, end: Dates \cup {NoDate}]

LEMMA RowsTyped ==
  /\ \A status \in {"DRAFT", "PUBLISHED", "ARCHIVED"}, start, end \in Dates \cup {NoDate} :
       EventRow(status, start, end) \in EventRows
  /\ \A slug \in Slugs, active \in BOOLEAN, start, end \in Dates \cup {NoDate} :
       LinkRow(slug, active, start, end) \in LinkRows
BY DEF EventRow, LinkRow, EventRows, LinkRows

LEMMA LiveRows ==
  ASSUME TypeOK
  PROVE  /\ \A e \in Events : event[e].live => event[e] \in EventRows
         /\ \A l \in Links : link[l].live => link[l] \in LinkRows
         /\ \A r \in EventRows : r.live /\ r.status \in {"DRAFT", "PUBLISHED", "ARCHIVED"}
                                 /\ r.start \in Dates \cup {NoDate} /\ r.end \in Dates \cup {NoDate}
         /\ \A r \in LinkRows : r.start \in Dates \cup {NoDate} /\ r.end \in Dates \cup {NoDate}
<1>1. ~ NoRow.live
  BY DEF NoRow
<1>2. ASSUME NEW e \in Events, event[e].live PROVE event[e] \in EventRows
  <2>1. event[e] \in {NoRow} \cup EventRows
    BY DEF TypeOK, EventRows
  <2> QED BY <1>1, <1>2, <2>1
<1>3. ASSUME NEW l \in Links, link[l].live PROVE link[l] \in LinkRows
  <2>1. link[l] \in {NoRow} \cup LinkRows
    BY DEF TypeOK, LinkRows
  <2> QED BY <1>1, <1>3, <2>1
<1>4. \A r \in EventRows : r.live /\ r.status \in {"DRAFT", "PUBLISHED", "ARCHIVED"}
                             /\ r.start \in Dates \cup {NoDate} /\ r.end \in Dates \cup {NoDate}
  BY DEF EventRows
<1>5. \A r \in LinkRows : r.start \in Dates \cup {NoDate} /\ r.end \in Dates \cup {NoDate}
  BY DEF LinkRows
<1> QED BY <1>2, <1>3, <1>4, <1>5

LEMMA DatesTyped ==
  ASSUME NEW d \in Dates \cup {Keep, NoDate}
  PROVE  /\ Date(d) \in Dates \cup {NoDate}
         /\ \A old \in Dates \cup {NoDate} : Given(d, old) \in Dates \cup {NoDate}
BY DEF Date, Given, Dates, Keep, NoDate

----------------------------------------------------------------------------
(***************************************************************************)
(* A step moves one request, and never one that is over; an event that is  *)
(* there stays.                                                            *)
(***************************************************************************)
Moved(q) == /\ pc[q] \notin Over \ {"idle"}
            /\ pc' = [pc EXCEPT ![q] = pc'[q]]

LEMMA OneMoves ==
  ASSUME TypeOK, NEW q \in Requests, Step(q)
  PROVE  Moved(q)
<1>0. ASSUME NEW s, Goto(q, s) PROVE pc' = [pc EXCEPT ![q] = pc'[q]]
  BY <1>0 DEF Goto, Note, TypeOK
<1> USE DEF At, Over, Moved
<1>1. CASE Start(q) \/ Find(q) \/ Abort(q)
  BY <1>0, <1>1 DEF Start, Find, Abort
<1>2. CASE EventStep(q) \/ LinkStep(q)
  BY <1>0, <1>2 DEF EventStep, LinkStep, CreateEvent, UpdateEvent, ArchiveEvent, CreateLink,
                    UpdateLink, DeleteLink
<1>3. CASE UpsertStep(q) \/ FieldStep(q) \/ RuleStep(q)
  BY <1>0, <1>3 DEF UpsertStep, FieldStep, RuleStep, UpsertFind, UpsertWrite, FieldsBegin, FieldsCommit,
                    RulesFind, RulesCommit
<1>4. CASE VisitStep(q)
  BY <1>0, <1>4 DEF VisitStep, Resolve, Metadata, Retrieve, Access, Decide
<1>5. CASE AnswerStep(q)
  BY <1>0, <1>5 DEF AnswerStep, FindRegistrant, SaveDelete, SaveCreate, EditAnswer
<1>6. CASE TemplateStep(q) \/ MessageStep(q)
  BY <1>0, <1>6 DEF TemplateStep, MessageStep, CreateTemplate, UpdateTemplate, SetTemplateType,
                    FindTypes, PickTemplate, PickSms, SendText
<1> QED
  BY <1>1, <1>2, <1>3, <1>4, <1>5, <1>6 DEF Step

LEMMA EventsStay ==
  ASSUME TypeOK, NEW q \in Requests, Step(q), Place(q), NEW e \in Events, event[e].live
  PROVE  event'[e].live
<1>0. /\ Job[q].event \in Events
      /\ \A status, start, end : EventRow(status, start, end).live
      /\ event = [x \in Events |-> event[x]]
  BY JobTyped DEF EventRow, TypeOK
<1>1. CASE EventStep(q)
  <2>1. CASE CreateEvent(q)
    BY <1>0, <2>1 DEF CreateEvent, Note
  <2>2. CASE UpdateEvent(q)
    BY <1>0, <2>2 DEF UpdateEvent, Note
  <2>3. CASE ArchiveEvent(q)
    BY <1>0, <2>3 DEF ArchiveEvent, Note
  <2> QED BY <1>1, <2>1, <2>2, <2>3 DEF EventStep
<1>2. CASE Start(q) \/ Find(q) \/ Abort(q) \/ LinkStep(q) \/ UpsertStep(q)
  BY <1>2 DEF Start, Find, Abort, LinkStep, UpsertStep, CreateLink, UpdateLink, DeleteLink,
              UpsertFind, UpsertWrite, rowVars
<1>3. CASE FieldStep(q) \/ RuleStep(q) \/ VisitStep(q)
  BY <1>3 DEF FieldStep, RuleStep, VisitStep, FieldsBegin, FieldsCommit, RulesFind, RulesCommit,
              Resolve, Metadata, Retrieve, Access, Decide, rowVars
<1>4. CASE AnswerStep(q) \/ TemplateStep(q) \/ MessageStep(q)
  BY <1>4 DEF AnswerStep, TemplateStep, MessageStep, FindRegistrant, SaveDelete, SaveCreate,
              EditAnswer, CreateTemplate, UpdateTemplate, SetTemplateType, FindTypes, PickTemplate,
              PickSms, SendText, OnlyMessages, rowVars
<1> QED
  BY <1>1, <1>2, <1>3, <1>4 DEF Step

\* What a request asks for decides where it goes.
LEMMA PlaceMoved ==
  ASSUME TypeOK, NEW q \in Requests, Step(q), Place(q)
  PROVE  Place(q)'
<1>0. /\ Job[q].event \in Events /\ Job[q].op \in Ops
      /\ q \in DOMAIN pc
  BY JobTyped DEF TypeOK
<1> USE DEF Place, At, IsOp
<1>1. CASE Start(q)
  <2>1. CASE ~ Permitted(q) \/ ~ Valid(q)
    BY <1>0, <1>1, <2>1 DEF Start, Goto
  <2>2. CASE Permitted(q) /\ Valid(q)
    BY <1>0, <1>1, <2>2 DEF Start, Goto, Visits, Anonymous
  <2> QED BY <2>1, <2>2
<1>2. CASE Find(q)
  <2>1. pc[q] = "find" /\ Job[q].op \notin Anonymous /\ Valid(q) /\ event' = event
    BY <1>2 DEF Find, rowVars
  <2>2. \/ pc'[q] = "refused"
        \/ Found(q) /\ pc'[q] = FirstStep(q)
    BY <1>0, <1>2 DEF Find, Goto
  <2>3. CASE pc'[q] = "refused"
    BY <2>3
  <2>4. CASE Found(q) /\ pc'[q] = FirstStep(q)
    BY <1>0, <2>1, <2>4 DEF Found, FirstStep, Ops, Anonymous, Visits, WriteOps, Saves
  <2> QED BY <2>2, <2>3, <2>4
<1>3. CASE Abort(q)
  BY <1>0, <1>3 DEF Abort, Goto
<1>4. CASE EventStep(q) \/ LinkStep(q)
  <2>1. pc'[q] \in {"done", "refused"}
    BY <1>0, <1>4 DEF EventStep, LinkStep, CreateEvent, UpdateEvent, ArchiveEvent, CreateLink,
                      UpdateLink, DeleteLink, Goto
  <2> QED BY <2>1
<1>5. CASE UpsertStep(q)
  <2>1. pc[q] \in {"upsertFind", "upsertWrite"}
        /\ pc'[q] \in {"upsertFind", "upsertWrite", "done", "failed"}
    BY <1>0, <1>5 DEF UpsertStep, UpsertFind, UpsertWrite, Goto
  <2> QED BY <2>1
<1>6. CASE FieldStep(q)
  <2>1. pc[q] \in {"fieldsBegin", "fieldsCommit"} /\ pc'[q] \in {"fieldsCommit", "done", "failed"}
    BY <1>0, <1>6 DEF FieldStep, FieldsBegin, FieldsCommit, Goto
  <2> QED BY <2>1
<1>7. CASE RuleStep(q)
  <2>1. pc[q] \in {"rulesFind", "rulesCommit"} /\ pc'[q] \in {"rulesCommit", "done", "failed"}
    BY <1>0, <1>7 DEF RuleStep, RulesFind, RulesCommit, Goto
  <2> QED BY <2>1
<1>8. CASE VisitStep(q)
  <2>1. CASE Resolve(q)
    <3>1. Job[q].op \in {"resolve", "submit", "update"} /\ pc'[q] \in {"access", "refused"}
      BY <1>0, <2>1 DEF Resolve, Goto, Visits
    <3> QED BY <3>1
  <2>2. CASE Metadata(q) \/ Retrieve(q) \/ Decide(q)
    <3>1. pc'[q] \in {"shown", "refused"}
      BY <1>0, <2>2 DEF Metadata, Retrieve, Decide, Goto
    <3> QED BY <3>1
  <2>3. CASE Access(q)
    <3>1. \/ pc'[q] \in {"shown", "refused"}
          \/ Job[q].op = "submit" /\ pc'[q] = "decide"
          \/ Job[q].op = "update" /\ pc'[q] = "registrant"
      BY <1>0, <2>3 DEF Access, Goto
    <3> QED BY <3>1
  <2> QED BY <1>8, <2>1, <2>2, <2>3 DEF VisitStep
<1>9. CASE AnswerStep(q)
  <2>1. CASE FindRegistrant(q)
    <3>1. pc[q] = "registrant" /\ pc'[q] \in {"refused", "save"}
      BY <1>0, <2>1 DEF FindRegistrant, Goto
    <3> QED BY <3>1
  <2>2. CASE SaveDelete(q)
    <3>1. pc[q] \in {"save", "failing"} /\ pc'[q] \in {"save", "failing", "done", "failed"}
      BY <1>0, <2>2 DEF SaveDelete, Goto
    <3> QED BY <3>1
  <2>4. CASE SaveCreate(q)
    <3>1. pc[q] = "save" /\ pc'[q] \in {"save", "failing", "done", "failed"}
      BY <1>0, <2>4 DEF SaveCreate, Goto
    <3> QED BY <3>1
  <2>3. CASE EditAnswer(q)
    <3>1. pc[q] = "edit" /\ pc'[q] \in {"edit", "done", "failed"}
      BY <1>0, <2>3 DEF EditAnswer, Goto
    <3> QED BY <3>1
  <2> QED BY <1>9, <2>1, <2>2, <2>3, <2>4 DEF AnswerStep
<1>10. CASE TemplateStep(q)
  <2>1. pc[q] \in {"template", "type"} /\ pc'[q] \in {"type", "done"}
    BY <1>0, <1>10 DEF TemplateStep, CreateTemplate, UpdateTemplate, SetTemplateType, Goto
  <2> QED BY <2>1
<1>11. CASE MessageStep(q)
  <2>1. /\ pc[q] \in {"types", "pick", "sms", "queued"}
        /\ pc'[q] \in {"pick", "queued", "sent", "done"}
        /\ pc'[q] = "pick" => pc[q] = "types"
        /\ pc[q] = "queued" => pc'[q] = "sent"
    BY <1>0, <1>11 DEF MessageStep, FindTypes, PickTemplate, PickSms, SendText, Goto
  <2> QED BY <2>1
<1> QED
  BY <1>1, <1>2, <1>3, <1>4, <1>5, <1>6, <1>7, <1>8, <1>9, <1>10, <1>11 DEF Step

LEMMA PlaceStep ==
  ASSUME Typed, NEW q \in Requests, Step(q), NEW p \in Requests
  PROVE  Place(p)'
<1>1. CASE p = q
  BY <1>1, PlaceMoved DEF Typed
<1>2. CASE p # q
  <2>1. pc'[p] = pc[p] /\ Place(p) /\ Job[p].event \in Events
    <3>1. Moved(q) /\ Place(p) /\ Job[p].event \in Events
      BY OneMoves, JobTyped DEF Typed
    <3>2. DOMAIN pc = Requests
      BY DEF Typed, TypeOK
    <3> QED
      BY <1>2, <3>1, <3>2 DEF Moved
  <2>2. event[Job[p].event].live => event'[Job[p].event].live
    BY <2>1, EventsStay DEF Typed
  <2> QED
    BY <2>1, <2>2 DEF Place
<1> QED
  BY <1>1, <1>2

(***************************************************************************)
(* The shape of the state, one variable at a time.                         *)
(***************************************************************************)
PcShape(f) == f \in [Requests -> Over \cup
       {"find", "write", "upsertFind", "upsertWrite", "fieldsBegin", "fieldsCommit",
        "rulesFind", "rulesCommit", "edit", "resolve", "access", "decide",
        "registrant", "save", "failing", "template", "type", "types", "pick", "sms",
        "queued", "retrieve"}]
EventShape(f) == f \in [Events -> {NoRow} \cup EventRows]
LinkShape(f) == f \in [Links -> {NoRow} \cup LinkRows]
MetaShape(f) == f \in [Events \cup Links -> [EventSlots \cup LinkSlots -> Requests \cup {Nobody}]]
FieldShape(f) == f \in [Links -> SUBSET FieldRow]
RuleShape(f) == f \in [Links -> SUBSET Requests]
AnswerShape(f) == f \in [Links -> [Keys -> Requests \cup {Nobody}]]
WindowShape(f) == f \in [Requests -> Dated]
SawShape(f) == f \in [Requests -> (SUBSET FieldRow) \cup (SUBSET Requests)]
SlotShape(f) == f \in [Requests -> SUBSET (EventSlots \cup LinkSlots)]
ExistsShape(f) == f \in [Requests -> BOOLEAN]
TodoShape(f) == f \in [Requests -> SUBSET (Keys \cup {"delete", "create"})]
BeforeShape(f) == f \in [Requests -> SUBSET Keys]
SomeRequests(s) == s \subseteq Requests
BegunShape(f) == f \in [Links -> SUBSET (Requests \cup {Nobody})]
TemplateShape(f) == f \in [Templates -> [by: Requests \cup {Nobody}, active: BOOLEAN]]
TypeShape(f) == f \in [Templates -> Types \cup {Untyped}]
FoundShape(f) == f \in [Requests -> SUBSET Templates]
KnewShape(f) == f \in [Requests -> SUBSET Requests]
Count(n) == n \in Nat

Rows == /\ EventShape(event) /\ LinkShape(link) /\ MetaShape(meta) /\ FieldShape(fields)
        /\ RuleShape(rules) /\ AnswerShape(answers)
Reads == /\ WindowShape(window) /\ SawShape(saw) /\ SlotShape(slots) /\ ExistsShape(exists)
         /\ TodoShape(todo)
Histories == BeforeShape(before) /\ SomeRequests(crowded) /\ BegunShape(begun)
Texts == /\ TemplateShape(template) /\ TypeShape(type) /\ FoundShape(found)
         /\ SomeRequests(settled) /\ KnewShape(knew)
Shape == PcShape(pc) /\ Rows /\ Reads /\ Histories /\ Texts /\ Count(aborts)

LEMMA ShapeIsType == (TypeOK <=> Shape) /\ (TypeOK' <=> Shape')
<1> USE DEF Rows, Reads, Histories, Texts, Shape, PcShape, EventShape, LinkShape, MetaShape,
      FieldShape, RuleShape, AnswerShape, WindowShape, SawShape, SlotShape, ExistsShape, TodoShape,
      BeforeShape, SomeRequests, BegunShape, TemplateShape, TypeShape, FoundShape, KnewShape,
      Count, EventRows, LinkRows
<1>1. TypeOK <=> Shape
  BY Zenon DEF TypeOK
<1>2. TypeOK' <=> Shape'
  BY Zenon DEF TypeOK
<1> QED BY <1>1, <1>2

LEMMA GotoShape ==
  ASSUME TypeOK, NEW q \in Requests, NEW s, Goto(q, s),
         s \in Over \cup
       {"find", "write", "upsertFind", "upsertWrite", "fieldsBegin", "fieldsCommit",
        "rulesFind", "rulesCommit", "edit", "resolve", "access", "decide",
        "registrant", "save", "failing", "template", "type", "types", "pick", "sms",
        "queued", "retrieve"}
  PROVE  PcShape(pc')
BY DEF TypeOK, Goto, Note, PcShape

LEMMA StepTyped ==
  ASSUME Typed, NEW q \in Requests, Step(q)
  PROVE  TypeOK'
<1>0. /\ Job[q].event \in Events /\ Job[q].link \in Links /\ Job[q].slug \in Slugs
      /\ Job[q].start \in Dates \cup {Keep, NoDate} /\ Job[q].end \in Dates \cup {Keep, NoDate}
      /\ Job[q].active \in BOOLEAN /\ Job[q].mode \in Modes
      /\ Job[q].keys \subseteq Keys /\ Job[q].template \in Templates
      /\ Job[q].type \in Types \cup {Untyped}
  BY JobTyped
<1>t. TypeOK /\ Place(q) /\ Place(q)'
  BY PlaceMoved DEF Typed
<1>s. Shape
  BY <1>t, ShapeIsType
<1> SUFFICES Shape'
  BY ShapeIsType
<1> USE DEF At, Note
<1>pc. PcShape(pc')
  <2>g. ASSUME NEW s, Goto(q, s), s \in Over \cup
       {"find", "write", "upsertFind", "upsertWrite", "fieldsBegin", "fieldsCommit",
        "rulesFind", "rulesCommit", "edit", "resolve", "access", "decide",
        "registrant", "save", "failing", "template", "type", "types", "pick", "sms",
        "queued", "retrieve"}
        PROVE  PcShape(pc')
    BY <1>t, <2>g, GotoShape
  <2> USE DEF Over
  <2>1. CASE Start(q)
    BY <2>1, <2>g DEF Start
  <2>2. CASE Find(q)
    <3>1. FirstStep(q) \in {"upsertFind", "fieldsBegin", "rulesFind", "edit", "template", "write",
                            "done"}
      BY DEF FirstStep
    <3>2. Goto(q, "refused") \/ Goto(q, FirstStep(q))
      BY <2>2 DEF Find
    <3> QED BY <3>1, <3>2, <2>g
  <2>3. CASE Abort(q)
    BY <2>3, <2>g DEF Abort
  <2>4. CASE EventStep(q) \/ LinkStep(q)
    BY <2>4, <2>g DEF EventStep, LinkStep, CreateEvent, UpdateEvent, ArchiveEvent, CreateLink,
                      UpdateLink, DeleteLink
  <2>5. CASE UpsertStep(q) \/ FieldStep(q) \/ RuleStep(q)
    BY <2>5, <2>g DEF UpsertStep, FieldStep, RuleStep, UpsertFind, UpsertWrite, FieldsBegin,
                      FieldsCommit, RulesFind, RulesCommit
  <2>6. CASE VisitStep(q)
    <3>1. CASE Access(q)
      <4>1. Job[q].op \in {"resolve", "submit", "update"}
        BY <1>t, <3>1 DEF Access, Place
      <4> QED
        BY <2>g, <3>1, <4>1 DEF Access, IsOp
    <3>2. CASE Resolve(q) \/ Metadata(q) \/ Retrieve(q) \/ Decide(q)
      BY <2>g, <3>2 DEF Resolve, Metadata, Retrieve, Decide
    <3> QED BY <2>6, <3>1, <3>2 DEF VisitStep
  <2>7. CASE AnswerStep(q)
    <3>1. CASE FindRegistrant(q)
      BY <3>1, <2>g DEF FindRegistrant
    <3>2. CASE SaveDelete(q)
      BY <3>2, <2>g DEF SaveDelete
    <3>3. CASE SaveCreate(q)
      BY <3>3, <2>g DEF SaveCreate
    <3>4. CASE EditAnswer(q)
      BY <3>4, <2>g DEF EditAnswer
    <3> QED BY <2>7, <3>1, <3>2, <3>3, <3>4 DEF AnswerStep
  <2>8. CASE TemplateStep(q) \/ MessageStep(q)
    BY <2>8, <2>g DEF TemplateStep, MessageStep, CreateTemplate, UpdateTemplate, SetTemplateType,
                      FindTypes, PickTemplate, PickSms, SendText
  <2> QED
    BY <2>1, <2>2, <2>3, <2>4, <2>5, <2>6, <2>7, <2>8 DEF Step
<1> USE DEF Shape, Rows, Reads, Histories, Texts
<1>1. CASE Start(q)
  BY <1>s, <1>pc, <1>1 DEF Start, rowVars, readVars, history, messageVars
<1>2. CASE Find(q)
  <2>1. WindowShape(window')
    <3>1. IsOp(q, {"updateEvent"}) /\ Found(q) => event[Job[q].event].live
      BY DEF IsOp, Found
    <3>2. IsOp(q, {"updateEvent"}) /\ Found(q) =>
            [start |-> event[Job[q].event].start, end |-> event[Job[q].event].end] \in Dated
      BY <1>0, <1>t, <3>1, LiveRows DEF Dated
    <3> QED
      BY <1>s, <1>2, <3>2 DEF Find, WindowShape
  <2>2. SlotShape(slots')
    BY <1>s, <1>2 DEF Find, SlotShape, Slots
  <2>3. TodoShape(todo')
    BY <1>0, <1>s, <1>2 DEF Find, TodoShape
  <2>4. SomeRequests(crowded')
    BY <1>s, <1>2 DEF Find, SomeRequests, Crowds, Rivals
  <2>5. BegunShape(begun')
    BY <1>s, <1>2 DEF Find, BegunShape
  <2>6. UNCHANGED <<rowVars, saw, exists, before, messageVars, aborts>>
    BY <1>2 DEF Find
  <2> QED
    BY <1>s, <1>pc, <2>1, <2>2, <2>3, <2>4, <2>5, <2>6 DEF rowVars, messageVars
<1>3. CASE Abort(q)
  <2>1. Count(aborts')
    BY <1>s, <1>3 DEF Abort, Count
  <2> QED
    BY <1>s, <1>pc, <1>3, <2>1 DEF Abort, rowVars, readVars, history, messageVars
<1>4. CASE EventStep(q)
  <2>1. EventShape(event')
    <3>1. CASE CreateEvent(q)
      <4>1. EventRow("DRAFT", Date(Job[q].start), Date(Job[q].end)) \in EventRows
        BY <1>0, RowsTyped, DatesTyped
      <4> QED
        BY <1>0, <1>s, <3>1, <4>1 DEF CreateEvent, EventShape
    <3>2. CASE UpdateEvent(q) \/ ArchiveEvent(q)
      <4>1. event[Job[q].event].live
        BY <1>t, <3>2 DEF Place, UpdateEvent, ArchiveEvent, IsOp
      <4>2. /\ event[Job[q].event].status \in {"DRAFT", "PUBLISHED", "ARCHIVED"}
            /\ event[Job[q].event].start \in Dates \cup {NoDate}
            /\ event[Job[q].event].end \in Dates \cup {NoDate}
        BY <1>0, <1>t, <4>1, LiveRows
      <4>3. CASE UpdateEvent(q)
        <5>1. Status(q, event[Job[q].event].status) \in {"DRAFT", "PUBLISHED", "ARCHIVED"}
          BY <1>0, <4>2, JobTyped DEF Status
        <5>2. EventRow(Status(q, event[Job[q].event].status),
                       Given(Job[q].start, event[Job[q].event].start),
                       Given(Job[q].end, event[Job[q].event].end)) \in EventRows
          BY <1>0, <4>2, <5>1, RowsTyped, DatesTyped
        <5> QED
          BY <1>0, <1>s, <4>3, <5>2 DEF UpdateEvent, EventShape
      <4>4. CASE ArchiveEvent(q)
        <5>1. EventRow("ARCHIVED", event[Job[q].event].start, event[Job[q].event].end) \in EventRows
          BY <4>2, RowsTyped
        <5> QED
          BY <1>0, <1>s, <4>4, <5>1 DEF ArchiveEvent, EventShape
      <4> QED BY <3>2, <4>3, <4>4
    <3> QED BY <1>4, <3>1, <3>2 DEF EventStep
  <2>2. OnlyEvents
    BY <1>4 DEF EventStep, CreateEvent, UpdateEvent, ArchiveEvent
  <2> QED
    BY <1>s, <1>pc, <2>1, <2>2 DEF OnlyEvents, readVars, history, messageVars
<1>5. CASE LinkStep(q)
  <2>1. LinkShape(link')
    <3>1. CASE CreateLink(q)
      <4>1. LinkRow(Job[q].slug, TRUE, Date(Job[q].start), Date(Job[q].end)) \in LinkRows
        BY <1>0, RowsTyped, DatesTyped
      <4> QED
        BY <1>0, <1>s, <3>1, <4>1 DEF CreateLink, LinkShape
    <3>2. CASE UpdateLink(q) /\ link' # link
      <4>1. /\ link[Job[q].link].live
            /\ link' = [link EXCEPT ![Job[q].link] =
                 LinkRow(Job[q].slug, Job[q].active,
                         Given(Job[q].start, link[Job[q].link].start),
                         Given(Job[q].end, link[Job[q].link].end))]
        BY <3>2 DEF UpdateLink
      <4>2. /\ link[Job[q].link].start \in Dates \cup {NoDate}
            /\ link[Job[q].link].end \in Dates \cup {NoDate}
        BY <1>0, <1>t, <4>1, LiveRows
      <4> QED
        BY <1>0, <1>s, <4>1, <4>2, RowsTyped, DatesTyped DEF LinkShape
    <3>3. CASE DeleteLink(q)
      BY <1>s, <3>3 DEF DeleteLink, LinkShape
    <3>4. CASE link' = link
      BY <1>s, <3>4
    <3> QED BY <1>5, <3>1, <3>2, <3>3, <3>4 DEF LinkStep
  <2>2. FieldShape(fields') /\ AnswerShape(answers')
    <3>1. CASE DeleteLink(q)
      BY <1>s, <3>1 DEF DeleteLink, FieldShape, AnswerShape
    <3>2. CASE CreateLink(q) \/ UpdateLink(q)
      BY <1>s, <3>2 DEF CreateLink, UpdateLink
    <3> QED BY <1>5, <3>1, <3>2 DEF LinkStep
  <2>3. UNCHANGED <<event, meta, rules, readVars, history, messageVars, aborts>>
    BY <1>5 DEF LinkStep, CreateLink, UpdateLink, DeleteLink
  <2> QED
    BY <1>s, <1>pc, <2>1, <2>2, <2>3 DEF readVars, history, messageVars
<1>6. CASE UpsertStep(q)
  <2>1. ExistsShape(exists') /\ SlotShape(slots')
    BY <1>s, <1>6 DEF UpsertStep, UpsertFind, UpsertWrite, ExistsShape, SlotShape
  <2>2. MetaShape(meta')
    <3>1. CASE meta' = meta
      BY <1>s, <3>1
    <3>2. CASE UpsertWrite(q) /\ meta' # meta
      <4>1. PICK by \in {q, Nobody} : meta' = [meta EXCEPT ![Scope(q)][Current(q)] = by]
        BY <3>2 DEF UpsertWrite
      <4>2. Scope(q) \in Events \cup Links
        BY <1>0 DEF Scope
      <4> QED
        BY <1>s, <4>1, <4>2 DEF MetaShape
    <3> QED BY <1>6, <3>1, <3>2 DEF UpsertStep, UpsertFind, rowVars
  <2>3. UNCHANGED <<event, link, fields, rules, answers, window, saw, todo,
                     history, messageVars, aborts>>
    BY <1>6 DEF UpsertStep, UpsertFind, UpsertWrite, rowVars
  <2> QED
    BY <1>s, <1>pc, <2>1, <2>2, <2>3 DEF history, messageVars
<1>7. CASE FieldStep(q)
  <2>1. FieldShape(fields')
    BY <1>0, <1>s, <1>7 DEF FieldStep, FieldsBegin, FieldsCommit, FieldRows, FieldRow, FieldShape,
                            rowVars
  <2>2. SawShape(saw')
    BY <1>0, <1>s, <1>7 DEF FieldStep, FieldsBegin, FieldsCommit, FieldShape, SawShape, readVars
  <2>3. UNCHANGED <<event, link, meta, rules, answers, window, slots, exists, todo,
                    history, messageVars, aborts>>
    BY <1>7 DEF FieldStep, FieldsBegin, FieldsCommit, rowVars, readVars
  <2> QED
    BY <1>s, <1>pc, <2>1, <2>2, <2>3 DEF history, messageVars
<1>8. CASE RuleStep(q)
  <2>1. RuleShape(rules')
    BY <1>0, <1>s, <1>8 DEF RuleStep, RulesFind, RulesCommit, RuleShape, rowVars
  <2>2. SawShape(saw')
    BY <1>0, <1>s, <1>8 DEF RuleStep, RulesFind, RulesCommit, RuleShape, SawShape, readVars
  <2>3. UNCHANGED <<event, link, meta, fields, answers, window, slots, exists, todo,
                    history, messageVars, aborts>>
    BY <1>8 DEF RuleStep, RulesFind, RulesCommit, rowVars, readVars
  <2> QED
    BY <1>s, <1>pc, <2>1, <2>2, <2>3 DEF history, messageVars
<1>9. CASE VisitStep(q)
  <2>1. SawShape(saw')
    BY <1>0, <1>s, <1>9 DEF VisitStep, Resolve, Metadata, Retrieve, Access, Decide, FieldShape,
                            RuleShape, SawShape, readVars
  <2>2. UNCHANGED <<rowVars, window, slots, exists, todo, history, messageVars, aborts>>
    BY <1>9 DEF VisitStep, Resolve, Metadata, Retrieve, Access, Decide, readVars
  <2> QED
    BY <1>s, <1>pc, <2>1, <2>2 DEF rowVars, history, messageVars
<1>10. CASE FindRegistrant(q)
  <2>1. TodoShape(todo') /\ BeforeShape(before')
    BY <1>s, <1>10 DEF FindRegistrant, TodoShape, BeforeShape
  <2>2. SomeRequests(crowded')
    BY <1>s, <1>10 DEF FindRegistrant, SomeRequests, Crowds, Rivals
  <2>3. UNCHANGED <<rowVars, window, saw, slots, exists, begun, messageVars, aborts>>
    BY <1>10 DEF FindRegistrant
  <2> QED
    BY <1>s, <1>pc, <2>1, <2>2, <2>3 DEF rowVars, messageVars
<1>11. CASE SaveDelete(q) \/ SaveCreate(q) \/ EditAnswer(q)
  <2>1. AnswerShape(answers')
    <3>1. CASE SaveDelete(q)
      BY <1>0, <1>s, <3>1 DEF SaveDelete, AnswerShape
    <3>2. CASE SaveCreate(q)
      BY <1>0, <1>s, <3>2 DEF SaveCreate, AnswerShape
    <3>3. CASE EditAnswer(q)
      BY <1>0, <1>s, <3>3 DEF EditAnswer, AnswerShape
    <3> QED BY <1>11, <3>1, <3>2, <3>3
  <2>2. TodoShape(todo')
    BY <1>s, <1>11 DEF SaveDelete, SaveCreate, EditAnswer, TodoShape
  <2>3. UNCHANGED <<event, link, meta, fields, rules, window, saw, slots, exists,
                     history, messageVars, aborts>>
    BY <1>11 DEF SaveDelete, SaveCreate, EditAnswer
  <2> QED
    BY <1>s, <1>pc, <2>1, <2>2, <2>3 DEF history, messageVars
<1>12. CASE TemplateStep(q)
  <2>1. TemplateShape(template')
    <3>1. CASE CreateTemplate(q)
      BY <1>0, <1>s, <3>1 DEF CreateTemplate, TemplateShape
    <3>2. CASE UpdateTemplate(q)
      BY <1>0, <1>s, <3>2 DEF UpdateTemplate, TemplateShape
    <3>3. CASE SetTemplateType(q)
      BY <1>s, <3>3 DEF SetTemplateType
    <3> QED BY <1>12, <3>1, <3>2, <3>3 DEF TemplateStep
  <2>2. TypeShape(type') /\ SomeRequests(settled')
    BY <1>0, <1>s, <1>12 DEF TemplateStep, CreateTemplate, UpdateTemplate, SetTemplateType,
                             TypeShape, SomeRequests
  <2>3. OnlyMessages /\ UNCHANGED <<found, knew>>
    BY <1>12 DEF TemplateStep, CreateTemplate, UpdateTemplate, SetTemplateType
  <2> QED
    BY <1>s, <1>pc, <2>1, <2>2, <2>3 DEF OnlyMessages, rowVars, readVars, history
<1>13. CASE MessageStep(q)
  <2>1. FoundShape(found')
    BY <1>s, <1>13 DEF MessageStep, FindTypes, PickTemplate, PickSms, SendText, FoundShape,
                       messageVars
  <2>2. KnewShape(knew')
    BY <1>s, <1>13 DEF MessageStep, FindTypes, PickTemplate, PickSms, SendText, KnewShape,
                       SomeRequests, messageVars
  <2>3. OnlyMessages /\ UNCHANGED <<template, type, settled>>
    BY <1>13 DEF MessageStep, FindTypes, PickTemplate, PickSms, SendText, messageVars
  <2> QED
    BY <1>s, <1>pc, <2>1, <2>2, <2>3 DEF OnlyMessages, rowVars, readVars, history
<1> QED
  BY <1>1, <1>2, <1>3, <1>4, <1>5, <1>6, <1>7, <1>8, <1>9, <1>10, <1>11, <1>12, <1>13
     DEF Step, AnswerStep

LEMMA TypedStep == Typed /\ [Next]_vars => Typed'
<1> SUFFICES ASSUME Typed, [Next]_vars PROVE Typed'
  OBVIOUS
<1>1. ASSUME NEW q \in Requests, Step(q) PROVE Typed'
  <2>1. q # Past /\ pc'[Past] = "done"
    <3>1. Moved(q) /\ pc[Past] = "done" /\ DOMAIN pc = Requests /\ Past \in Requests
      BY <1>1, OneMoves, JobAssumption DEF Typed, TypeOK
    <3> QED
      BY <3>1 DEF Moved, Over
  <2> QED
    BY <1>1, <2>1, StepTyped, PlaceStep DEF Typed
<1>2. CASE UNCHANGED vars
  BY <1>2, Zenon DEF Typed, TypeOK, Place, vars, rowVars, readVars, history, messageVars
<1> QED
  BY <1>1, <1>2, NextIsStep

LEMMA InitTyped == Init => Typed
<1> SUFFICES ASSUME Init PROVE Typed
  OBVIOUS
<1>1. PICK t \in Scenarios :
    /\ pc = [q \in Requests |-> IF q \in t.coming THEN "idle" ELSE "done"]
    /\ event = [e \in Events |->
                  IF \E l \in t.live : EventOf[l] = e
                  THEN EventRow("PUBLISHED", Job[Past].start, Job[Past].end) ELSE NoRow]
    /\ link = [l \in Links |-> IF l \in t.live
                               THEN LinkRow(Job[Past].slug, TRUE, NoDate, NoDate) ELSE NoRow]
    /\ meta = [x \in Events \cup Links |->
                 [slot \in EventSlots \cup LinkSlots |->
                    Stored(Past, slot, t.settled /\ x \in t.live /\ slot \in LinkSlots)]]
    /\ fields = [l \in Links |-> IF l \in t.live
                                 THEN {[key |-> k, by |-> Past] : k \in t.asked} ELSE {}]
    /\ rules = [l \in Links |-> IF t.ruled /\ l \in t.live THEN {Past} ELSE {}]
    /\ answers = [l \in Links |-> [k \in Keys |->
                    IF l \in t.live /\ k \in t.answered THEN Past ELSE Nobody]]
    /\ window = [q \in Requests |-> [start |-> NoDate, end |-> NoDate]]
    /\ saw = [q \in Requests |-> {}]
    /\ slots = [q \in Requests |-> {}]
    /\ exists = [q \in Requests |-> FALSE]
    /\ todo = [q \in Requests |-> {}]
    /\ before = [q \in Requests |-> {}]
    /\ crowded = {}
    /\ begun = [l \in Links |-> {IF t.settled /\ l \in t.live THEN Past ELSE Nobody}]
    /\ template = [x \in Templates |-> [by |-> IF x \in t.written THEN Past ELSE Nobody,
                                        active |-> x \in t.written]]
    /\ type = [x \in Templates |-> IF x \in t.written THEN Job[Past].type ELSE Untyped]
    /\ found = [q \in Requests |-> {}]
    /\ settled = {Past}
    /\ knew = [q \in Requests |-> {}]
    /\ aborts = t.aborts
  BY DEF Init
<1>2. /\ Past \in Requests /\ Past \notin t.coming /\ t.aborts \in Nat
      /\ t.asked \subseteq Keys
      /\ Job[Past].slug \in Slugs /\ Job[Past].type \in Types \cup {Untyped}
      /\ Job[Past].start \in Dates \cup {NoDate} /\ Job[Past].end \in Dates \cup {NoDate}
  BY JobAssumption, JobTyped, PastAssumption, ScenarioAssumption
<1>3. Shape
  <2>1. PcShape(pc) /\ pc[Past] = "done"
    BY <1>1, <1>2 DEF PcShape, Over
  <2>2. EventShape(event)
    <3>1. EventRow("PUBLISHED", Job[Past].start, Job[Past].end) \in EventRows
      BY <1>2, RowsTyped
    <3> QED BY <1>1, <3>1 DEF EventShape
  <2>3. LinkShape(link)
    <3>1. LinkRow(Job[Past].slug, TRUE, NoDate, NoDate) \in LinkRows
      BY <1>2, RowsTyped
    <3> QED BY <1>1, <3>1 DEF LinkShape
  <2>4. MetaShape(meta)
    <3>1. \A slot, yes : Stored(Past, slot, yes) \in Requests \cup {Nobody}
      BY <1>2 DEF Stored
    <3> QED BY <1>1, <3>1 DEF MetaShape
  <2>5. FieldShape(fields) /\ RuleShape(rules) /\ AnswerShape(answers)
    BY <1>1, <1>2 DEF FieldShape, FieldRow, RuleShape, AnswerShape
  <2>6. /\ WindowShape(window) /\ SawShape(saw) /\ SlotShape(slots) /\ ExistsShape(exists)
        /\ TodoShape(todo)
    BY <1>1 DEF WindowShape, Dated, SawShape, SlotShape, ExistsShape, TodoShape
  <2>7. BeforeShape(before) /\ SomeRequests(crowded) /\ BegunShape(begun)
    BY <1>1, <1>2 DEF BeforeShape, SomeRequests, BegunShape
  <2>8. TemplateShape(template) /\ TypeShape(type)
    BY <1>1, <1>2 DEF TemplateShape, TypeShape
  <2>9. FoundShape(found) /\ SomeRequests(settled) /\ KnewShape(knew) /\ Count(aborts)
    BY <1>1, <1>2 DEF FoundShape, SomeRequests, KnewShape, Count
  <2> QED
    BY <2>1, <2>2, <2>3, <2>4, <2>5, <2>6, <2>7, <2>8, <2>9 DEF Shape, Rows, Reads, Histories, Texts
<1>4. \A q \in Requests : pc[q] \in {"idle", "done"} /\ Place(q)
  BY <1>1 DEF Place
<1> QED
  BY <1>1, <1>2, <1>3, <1>4, ShapeIsType DEF Typed

LEMMA AlwaysTyped == Spec => []Typed
BY InitTyped, TypedStep, PTL DEF Spec

(***************************************************************************)
(* Rows, reads and histories keep their shape, and no request is ever      *)
(* where it has no business to be.                                         *)
(***************************************************************************)
THEOREM TypeCorrect == Spec => []TypeOK
<1>1. Typed => TypeOK
  BY DEF Typed
<1> QED
  BY <1>1, AlwaysTyped, PTL

----------------------------------------------------------------------------
(***************************************************************************)
(* Approval rules.  Rows belong to saves that are done.  As long as what a *)
(* save has read is still there, it was read in one piece: of two such     *)
(* saves one read what the other read and more, for nobody writes a row    *)
(* twice.  And whoever's rows it has not read came after its lookup, from  *)
(* somebody who read as much as it did - so that, had they both read       *)
(* anything, one of them would have been told.                             *)
(***************************************************************************)
Deleting(q) == pc[q] = "rulesCommit"
Intact(q) == Deleting(q) /\ saw[q] \subseteq rules[Job[q].link]
Clean(a) == a \in Requests /\ pc[a] = "done"

RulesInv ==
  /\ \A l \in Links : \A a \in rules[l] : Clean(a)
  /\ \A q \in Requests : Deleting(q) => \A a \in saw[q] : Clean(a)
  /\ \A p, q \in Requests :
       Intact(p) /\ Intact(q) /\ Job[p].link = Job[q].link =>
         saw[p] \subseteq saw[q] \/ saw[q] \subseteq saw[p]
  /\ \A q \in Requests :
       Intact(q) => \A a \in rules[Job[q].link] \ saw[q] : saw[q] = {} \/ FoundNone(a)
  /\ RulesOfOneSave

RulesAside(q) ==
  /\ rules' = rules
  /\ \A p \in Requests \ {q} : saw'[p] = saw[p]
  /\ pc'[q] # "rulesCommit"

LEMMA OtherSteps ==
  ASSUME Typed, NEW q \in Requests, Step(q), ~ RuleStep(q)
  PROVE  RulesAside(q)
<1>0. DOMAIN pc = Requests /\ DOMAIN saw = Requests /\ Place(q)
  BY DEF Typed, TypeOK
<1> USE <1>0 DEF RulesAside, At, Goto, Note, rowVars, readVars
<1>1. CASE Start(q) \/ Abort(q)
  BY <1>1 DEF Start, Abort
<1>2. CASE Find(q)
  <2>1. pc'[q] \in {"refused", FirstStep(q)} /\ FirstStep(q) # "rulesCommit"
    BY <1>2 DEF Find, FirstStep
  <2> QED BY <1>2, <2>1 DEF Find
<1>3. CASE EventStep(q) \/ LinkStep(q)
  BY <1>3 DEF EventStep, LinkStep, CreateEvent, UpdateEvent, ArchiveEvent, CreateLink,
              UpdateLink, DeleteLink, OnlyEvents
<1>4. CASE UpsertStep(q) \/ FieldStep(q)
  BY <1>4 DEF UpsertStep, FieldStep, UpsertFind, UpsertWrite, FieldsBegin, FieldsCommit
<1>5. CASE VisitStep(q)
  <2>1. CASE Access(q)
    BY <2>1 DEF Access, Place, IsOp
  <2>2. CASE Resolve(q) \/ Metadata(q) \/ Retrieve(q) \/ Decide(q)
    BY <2>2 DEF Resolve, Metadata, Retrieve, Decide
  <2> QED BY <1>5, <2>1, <2>2 DEF VisitStep
<1>6. CASE AnswerStep(q)
  <2>1. CASE FindRegistrant(q)
    BY <2>1 DEF FindRegistrant
  <2>2. CASE SaveDelete(q)
    BY <2>2 DEF SaveDelete
  <2>3. CASE SaveCreate(q)
    BY <2>3 DEF SaveCreate
  <2>4. CASE EditAnswer(q)
    BY <2>4 DEF EditAnswer
  <2> QED BY <1>6, <2>1, <2>2, <2>3, <2>4 DEF AnswerStep
<1>7. CASE TemplateStep(q) \/ MessageStep(q)
  BY <1>7 DEF TemplateStep, MessageStep, CreateTemplate, UpdateTemplate, SetTemplateType,
              FindTypes, PickTemplate, PickSms, SendText, OnlyMessages
<1> QED
  BY <1>1, <1>2, <1>3, <1>4, <1>5, <1>6, <1>7 DEF Step

\* A step that leaves the rules alone, and does not look them up.
LEMMA RulesFrame ==
  ASSUME Typed, RulesInv, NEW q \in Requests, Moved(q), RulesAside(q)
  PROVE  RulesInv'
<1>1. \A p \in Requests \ {q} : pc'[p] = pc[p] /\ saw'[p] = saw[p]
  BY DEF Moved, RulesAside, Typed, TypeOK
<1>2. \A a : Clean(a) /\ a \in Requests => a # q /\ Clean(a)'
  BY <1>1 DEF Clean, Moved, Over
<1>3. \A p \in Requests : Deleting(p)' => p # q /\ Deleting(p) /\ saw'[p] = saw[p]
  BY <1>1 DEF Deleting, RulesAside
<1>4. \A p \in Requests : Intact(p)' => p # q /\ Intact(p) /\ saw'[p] = saw[p]
  BY <1>3 DEF Intact, RulesAside
<1>5. rules' = rules /\ (\A l \in Links : rules[l] \subseteq Requests) /\ \A p \in Requests : Job[p].link \in Links
  BY JobTyped DEF RulesAside, Typed, TypeOK
<1>6. \A l \in Links : \A a \in rules[l] : a \in Requests /\ a # q /\ Clean(a)' /\ FoundNone(a)' = FoundNone(a)
  BY <1>1, <1>2, <1>5 DEF RulesInv, FoundNone
<1>7. \A p \in Requests : Deleting(p)' => \A a \in saw'[p] : Clean(a)'
  <2> SUFFICES ASSUME NEW p \in Requests, Deleting(p)', NEW a \in saw[p], p # q, saw'[p] = saw[p]
               PROVE  Clean(a)'
    BY <1>3
  <2>1. Clean(a) /\ Deleting(p)
    BY <1>3 DEF RulesInv
  <2> QED
    BY <2>1, <1>1 DEF Clean, Moved, Over, Typed, TypeOK
<1> QED
  BY <1>4, <1>5, <1>6, <1>7 DEF RulesInv, RulesOfOneSave

LEMMA RulesFindStep ==
  ASSUME Typed, RulesInv, NEW q \in Requests, Moved(q), RulesFind(q)
  PROVE  RulesInv'
<1>1. /\ pc[q] = "rulesFind" /\ pc'[q] = "rulesCommit" /\ rules' = rules
      /\ saw'[q] = rules[Job[q].link]
      /\ \A p \in Requests \ {q} : pc'[p] = pc[p] /\ saw'[p] = saw[p]
  BY DEF RulesFind, At, Goto, Note, rowVars, Typed, TypeOK
<1>2. (\A l \in Links : rules[l] \subseteq Requests) /\ \A p \in Requests : Job[p].link \in Links
  BY JobTyped DEF Typed, TypeOK
<1>3. \A l \in Links : \A a \in rules[l] : a \in Requests \ {q} /\ Clean(a)' /\ FoundNone(a)' = FoundNone(a)
  BY <1>1, <1>2 DEF RulesInv, FoundNone, Clean
<1>4. \A p \in Requests \ {q} :
        (Deleting(p)' <=> Deleting(p)) /\ (Intact(p)' <=> Intact(p)) /\ saw'[p] = saw[p]
  BY <1>1 DEF Deleting, Intact
<1>5. \A p \in Requests : Deleting(p)' => \A a \in saw'[p] : Clean(a)'
  <2>1. ASSUME NEW p \in Requests \ {q}, Deleting(p), NEW a \in saw[p] PROVE Clean(a)'
    <3>1. Clean(a)
      BY <2>1 DEF RulesInv
    <3> QED
      BY <1>1, <3>1 DEF Clean, Moved, Over, Typed, TypeOK
  <2> QED
    BY <1>1, <1>2, <1>3, <1>4, <2>1
<1>6. \A p, o \in Requests :
        Intact(p)' /\ Intact(o)' /\ Job[p].link = Job[o].link =>
          saw'[p] \subseteq saw'[o] \/ saw'[o] \subseteq saw'[p]
  <2> SUFFICES ASSUME NEW p \in Requests, NEW o \in Requests, Intact(p)', Intact(o)',
                      Job[p].link = Job[o].link
               PROVE  saw'[p] \subseteq saw'[o] \/ saw'[o] \subseteq saw'[p]
    OBVIOUS
  <2>1. CASE p = q \/ o = q
    BY <1>1, <2>1 DEF Intact
  <2>2. CASE p # q /\ o # q
    BY <1>4, <2>2 DEF RulesInv
  <2> QED BY <2>1, <2>2
<1>7. \A p \in Requests :
        Intact(p)' => \A a \in rules'[Job[p].link] \ saw'[p] : saw'[p] = {} \/ FoundNone(a)'
  BY <1>1, <1>2, <1>3, <1>4 DEF RulesInv
<1>8. RulesOfOneSave'
  BY <1>1, <1>3 DEF RulesInv, RulesOfOneSave
<1> QED
  BY <1>1, <1>3, <1>5, <1>6, <1>7, <1>8 DEF RulesInv

LEMMA RulesCommitStep ==
  ASSUME Typed, RulesInv, NEW q \in Requests, Moved(q), RulesCommit(q)
  PROVE  RulesInv'
<1> DEFINE l == Job[q].link
<1>0. /\ pc[q] = "rulesCommit" /\ saw' = saw /\ l \in Links /\ q # Past
      /\ \A p \in Requests \ {q} : pc'[p] = pc[p]
      /\ \A k \in Links : rules[k] \subseteq Requests
      /\ \A p \in Requests : Job[p].link \in Links
  BY JobTyped DEF RulesCommit, At, readVars, Moved, Typed, TypeOK
<1>1. CASE rules' = rules /\ pc'[q] = "failed"
  BY <1>0, <1>1, RulesFrame DEF RulesAside
<1>2. CASE /\ saw[q] \subseteq rules[l] /\ pc'[q] = "done"
           /\ rules' = [rules EXCEPT ![l] = (rules[l] \ saw[q]) \cup (IF Job[q].ruled THEN {q} ELSE {})]
  <2>1. /\ rules'[l] \subseteq (rules[l] \ saw[q]) \cup {q}
        /\ \A k \in Links \ {l} : rules'[k] = rules[k]
    BY <1>0, <1>2 DEF Typed, TypeOK
  <2>2. Intact(q) /\ Clean(q)'
    BY <1>0, <1>2 DEF Intact, Deleting, Clean
  <2>3. \A a : Clean(a) => a # q /\ Clean(a)'
    BY <1>0 DEF Clean, Moved, Over, Typed, TypeOK
  <2>4. \A p \in Requests : Deleting(p)' => p # q /\ Deleting(p) /\ q \notin saw[p]
    BY <1>0, <1>2, <2>3 DEF Deleting, RulesInv
  <2>5. \A p \in Requests : Intact(p)' => p # q /\ Intact(p) /\ q \notin saw[p]
    BY <1>0, <2>1, <2>4 DEF Intact
  <2>6. \A k \in Links : \A a \in rules'[k] : Clean(a)'
    BY <2>1, <2>2, <2>3 DEF RulesInv
  <2>7. \A p \in Requests : Deleting(p)' => \A a \in saw'[p] : Clean(a)'
    BY <1>0, <2>3, <2>4 DEF RulesInv
  <2>8. \A p, o \in Requests :
          Intact(p)' /\ Intact(o)' /\ Job[p].link = Job[o].link =>
            saw'[p] \subseteq saw'[o] \/ saw'[o] \subseteq saw'[p]
    BY <1>0, <2>5 DEF RulesInv
  <2>9. \A a : FoundNone(a)' = FoundNone(a)
    BY <1>0 DEF FoundNone
  <2>10. \A p \in Requests :
           Intact(p)' => \A a \in rules'[Job[p].link] \ saw'[p] : saw'[p] = {} \/ FoundNone(a)'
    <3> SUFFICES ASSUME NEW p \in Requests, Intact(p)',
                        NEW a \in rules'[Job[p].link] \ saw'[p], saw[p] # {}
                 PROVE  FoundNone(a)
      BY <1>0, <2>9
    <3>1. Intact(p) /\ p # q /\ a \notin saw[p] /\ saw[p] \subseteq rules'[Job[p].link]
      BY <1>0, <2>5 DEF Intact
    <3>2. CASE a # q \/ Job[p].link # l
      <4>1. a \in rules[Job[p].link]
        BY <1>0, <2>1, <3>2
      <4> QED
        BY <3>1, <4>1 DEF RulesInv
    <3>3. CASE a = q /\ Job[p].link = l
      <4>1. saw[p] \subseteq rules[l] \ saw[q]
        BY <2>1, <2>5, <3>1, <3>3
      <4>2. saw[p] \subseteq saw[q] \/ saw[q] \subseteq saw[p]
        BY <2>2, <3>1, <3>3 DEF RulesInv
      <4>3. saw[q] = {}
        BY <4>1, <4>2
      <4> QED
        BY <1>0, <3>3, <4>3 DEF FoundNone
    <3> QED BY <3>2, <3>3
  <2>11. RulesOfOneSave'
    <3> SUFFICES ASSUME NEW k \in Links, NEW a \in rules'[k], NEW b \in rules'[k], a # b
                 PROVE  FoundNone(a) \/ FoundNone(b)
      BY <2>9 DEF RulesOfOneSave
    <3>1. CASE k # l \/ (a # q /\ b # q)
      <4>1. a \in rules[k] /\ b \in rules[k]
        BY <2>1, <3>1
      <4> QED
        BY <4>1 DEF RulesInv, RulesOfOneSave
    <3>2. ASSUME NEW c \in rules'[l], c # q PROVE FoundNone(c) \/ FoundNone(q)
      <4>1. c \in rules[l] \ saw[q]
        BY <2>1, <3>2
      <4>2. saw[q] = {} \/ FoundNone(c)
        BY <2>2, <4>1 DEF RulesInv
      <4> QED
        BY <1>0, <4>2 DEF FoundNone
    <3> QED BY <3>1, <3>2
  <2> QED
    BY <2>6, <2>7, <2>8, <2>10, <2>11 DEF RulesInv
<1> QED
  BY <1>0, <1>1, <1>2 DEF RulesCommit, Goto, Note, Typed, TypeOK

LEMMA RulesStep == Typed /\ RulesInv /\ [Next]_vars => RulesInv'
<1> SUFFICES ASSUME Typed, RulesInv, [Next]_vars PROVE RulesInv'
  OBVIOUS
<1>1. ASSUME NEW q \in Requests, Step(q) PROVE RulesInv'
  <2>1. Moved(q)
    BY <1>1, OneMoves DEF Typed
  <2> QED
    BY <1>1, <2>1, OtherSteps, RulesFrame, RulesFindStep, RulesCommitStep DEF RuleStep
<1>2. CASE UNCHANGED vars
  BY <1>2 DEF RulesInv, RulesOfOneSave, Clean, Deleting, Intact, FoundNone, vars, rowVars, readVars
<1> QED
  BY <1>1, <1>2, NextIsStep

(***************************************************************************)
(* Two saves of approval rules have rows in force together only if one of  *)
(* them found none, for any number of saves that overlap and fail.         *)
(***************************************************************************)
THEOREM RulesStandAlone == Spec => []RulesOfOneSave
<1>1. Init => RulesInv
  <2> SUFFICES ASSUME Init PROVE RulesInv
    OBVIOUS
  <2>1. /\ \A q \in Requests : pc[q] \in {"idle", "done"}
        /\ \A l \in Links : rules[l] \subseteq {Past}
    BY DEF Init
  <2>2. pc[Past] = "done"
    BY InitTyped DEF Typed
  <2> QED
    BY <2>1, <2>2, JobAssumption DEF RulesInv, RulesOfOneSave, Deleting, Intact, Clean
<1>2. RulesInv => RulesOfOneSave
  BY DEF RulesInv
<1> QED
  BY <1>1, <1>2, RulesStep, AlwaysTyped, PTL DEF Spec

----------------------------------------------------------------------------
(***************************************************************************)
(* Windows of events.  An update that is about to be written was checked   *)
(* with the window it read.                                                *)
(***************************************************************************)
Merge(q, row) == [start |-> IF Job[q].start > 0 THEN Job[q].start ELSE row.start,
                  end |-> IF Job[q].end > 0 THEN Job[q].end ELSE row.end]

Checked(q) ==
  pc[q] = "write" /\ IsOp(q, {"updateEvent"}) =>
    Ordered(Merge(q, window[q]).start, Merge(q, window[q]).end)

LEMMA OnlyFindChecks ==
  ASSUME Typed, NEW q \in Requests, Step(q), ~ Find(q)
  PROVE  window' = window /\ pc'[q] # "write"
<1>0. DOMAIN pc = Requests /\ Place(q)
  BY DEF Typed, TypeOK
<1> USE <1>0 DEF At, Goto, Note, readVars
<1>1. CASE Start(q) \/ Abort(q)
  BY <1>1 DEF Start, Abort
<1>3. CASE EventStep(q) \/ LinkStep(q)
  BY <1>3 DEF EventStep, LinkStep, CreateEvent, UpdateEvent, ArchiveEvent, CreateLink,
              UpdateLink, DeleteLink, OnlyEvents
<1>4. CASE UpsertStep(q) \/ FieldStep(q) \/ RuleStep(q)
  BY <1>4 DEF UpsertStep, FieldStep, RuleStep, UpsertFind, UpsertWrite, FieldsBegin, FieldsCommit,
              RulesFind, RulesCommit
<1>5. CASE VisitStep(q)
  <2>1. CASE Access(q)
    BY <2>1 DEF Access, Place, IsOp
  <2>2. CASE Resolve(q) \/ Metadata(q) \/ Retrieve(q) \/ Decide(q)
    BY <2>2 DEF Resolve, Metadata, Retrieve, Decide
  <2> QED BY <1>5, <2>1, <2>2 DEF VisitStep
<1>6. CASE AnswerStep(q)
  <2>1. CASE FindRegistrant(q)
    BY <2>1 DEF FindRegistrant
  <2>2. CASE SaveDelete(q)
    BY <2>2 DEF SaveDelete
  <2>3. CASE SaveCreate(q)
    BY <2>3 DEF SaveCreate
  <2>4. CASE EditAnswer(q)
    BY <2>4 DEF EditAnswer
  <2> QED BY <1>6, <2>1, <2>2, <2>3, <2>4 DEF AnswerStep
<1>7. CASE TemplateStep(q) \/ MessageStep(q)
  BY <1>7 DEF TemplateStep, MessageStep, CreateTemplate, UpdateTemplate, SetTemplateType,
              FindTypes, PickTemplate, PickSms, SendText, OnlyMessages
<1> QED
  BY <1>1, <1>3, <1>4, <1>5, <1>6, <1>7 DEF Step

LEMMA CheckedStep ==
  ASSUME Typed, NEW p \in Requests, Checked(p), [Next]_vars
  PROVE  Checked(p)'
<1>1. ASSUME NEW q \in Requests, Step(q), q # p \/ ~ Find(q) PROVE Checked(p)'
  <2>1. Moved(q) /\ p \in DOMAIN pc /\ p \in DOMAIN window
    BY <1>1, OneMoves DEF Typed, TypeOK
  <2>2. window'[p] = window[p]
    BY <1>1, <2>1, OnlyFindChecks DEF Find, Note
  <2>3. CASE q = p
    BY <1>1, <2>3, OnlyFindChecks DEF Checked
  <2>4. CASE q # p
    BY <2>1, <2>2, <2>4 DEF Checked, Moved
  <2> QED BY <2>3, <2>4
<1>2. CASE Find(p)
  <2> SUFFICES ASSUME pc'[p] = "write", IsOp(p, {"updateEvent"})
               PROVE  Ordered(Merge(p, window'[p]).start, Merge(p, window'[p]).end)
    BY DEF Checked
  <2>1. Found(p) /\ Ordered(Merged(p).start, Merged(p).end)
    BY <1>2 DEF Find, Goto, Note, Typed, TypeOK
  <2>2. /\ window'[p].start = event[Job[p].event].start
        /\ window'[p].end = event[Job[p].event].end
    BY <1>2, <2>1 DEF Find, Note, Typed, TypeOK
  <2> QED
    BY <2>1, <2>2 DEF Merged, Merge
<1>3. CASE UNCHANGED vars
  BY <1>3 DEF Checked, vars, readVars
<1> QED
  BY <1>1, <1>2, <1>3, NextIsStep

LEMMA WindowStep ==
  ASSUME Typed, [Next]_vars, NEW q \in Requests, Checked(q),
         pc[q] = "write", pc'[q] = "done", IsOp(q, {"createEvent", "updateEvent"}),
         ~ Ordered(event'[Job[q].event].start, event'[Job[q].event].end)
  PROVE  IsOp(q, {"updateEvent"}) /\ window[q] # WindowOf(event[Job[q].event])
<1> DEFINE e == Job[q].event
<1>0. /\ e \in Events /\ Valid(q)
      /\ Job[q].start \in Dates \cup {Keep, NoDate} /\ Job[q].end \in Dates \cup {Keep, NoDate}
      /\ DOMAIN event = Events
  BY JobTyped DEF Typed, TypeOK, Place
<1>1. Step(q)
  <2>1. PICK p \in Requests : Step(p)
    BY NextIsStep DEF vars
  <2>2. Moved(p) /\ q \in DOMAIN pc
    BY <2>1, OneMoves DEF Typed, TypeOK
  <2> QED
    BY <2>1, <2>2 DEF Moved
<1>2. EventStep(q)
  <2>1. ~ (Start(q) \/ Find(q) \/ UpsertStep(q) \/ FieldStep(q) \/ RuleStep(q))
    BY DEF At, Start, Find, UpsertStep, FieldStep, RuleStep, UpsertFind, UpsertWrite, FieldsBegin,
           FieldsCommit, RulesFind, RulesCommit
  <2>2. ~ (Abort(q) \/ LinkStep(q))
    <3>1. q \in DOMAIN pc
      BY DEF Typed, TypeOK
    <3> QED
      BY <3>1 DEF Abort, LinkStep, CreateLink, UpdateLink, DeleteLink, Goto, Note, IsOp
  <2>3. ~ (VisitStep(q) \/ AnswerStep(q) \/ TemplateStep(q) \/ MessageStep(q))
    BY DEF At, VisitStep, Resolve, Metadata, Retrieve, Access, Decide, AnswerStep, FindRegistrant,
           SaveDelete, SaveCreate, EditAnswer, TemplateStep, CreateTemplate, UpdateTemplate,
           SetTemplateType, MessageStep, FindTypes, PickTemplate, PickSms, SendText
  <2> QED
    BY <1>1, <2>1, <2>2, <2>3 DEF Step
<1>3. ~ ArchiveEvent(q)
  BY DEF ArchiveEvent, IsOp
<1>4. ~ CreateEvent(q)
  <2> SUFFICES ASSUME CreateEvent(q) PROVE FALSE
    OBVIOUS
  <2>1. Ordered(Job[q].start, Job[q].end)
    BY <1>0 DEF Valid, CreateEvent, IsOp
  <2>2. event'[e] = EventRow("DRAFT", Date(Job[q].start), Date(Job[q].end))
    BY <1>0 DEF CreateEvent, Note
  <2>3. event'[e].start = Date(Job[q].start) /\ event'[e].end = Date(Job[q].end)
    BY <2>2 DEF EventRow
  <2> QED
    BY <1>0, <2>1, <2>3 DEF Ordered, Date, NoDate
<1>5. UpdateEvent(q)
  BY <1>2, <1>3, <1>4 DEF EventStep
<1>6. ASSUME window[q] = WindowOf(event[e]) PROVE FALSE
  <2>1. window[q].start = event[e].start /\ window[q].end = event[e].end
    BY <1>6 DEF WindowOf
  <2>2. Ordered(Merge(q, event[e]).start, Merge(q, event[e]).end)
    BY <1>5, <2>1 DEF Checked, Merge, UpdateEvent
  <2>3. /\ event'[e].start = Given(Job[q].start, event[e].start)
        /\ event'[e].end = Given(Job[q].end, event[e].end)
    <3>1. event'[e] = EventRow(Status(q, event[e].status), Given(Job[q].start, event[e].start),
                               Given(Job[q].end, event[e].end))
      BY <1>0, <1>5 DEF UpdateEvent, Note
    <3> QED BY <3>1 DEF EventRow
  <2>4. event[e].start \in Dates \cup {NoDate} /\ event[e].end \in Dates \cup {NoDate}
    <3>1. event[e].live
      BY <1>5 DEF UpdateEvent, At, IsOp, Typed, Place
    <3> QED BY <1>0, <3>1, LiveRows DEF Typed
  <2>5. ~ Ordered(event'[e].start, event'[e].end)
    OBVIOUS
  <2> HIDE DEF e
  <2> QED
    BY <1>0, <2>2, <2>3, <2>4, <2>5 DEF Ordered, Merge, Given, Keep, NoDate, Dates
<1> QED
  BY <1>5, <1>6 DEF UpdateEvent

(***************************************************************************)
(* An event gets a window that ends before it begins only from an update   *)
(* whose check another one has outdated, for any number of updates.        *)
(***************************************************************************)
THEOREM WindowsHold == Spec => EventWindowHolds
<1> DEFINE CheckedAll == \A q \in Requests : Checked(q)
<1>1. Init => CheckedAll
  BY DEF Init, Checked
<1>2. Typed /\ CheckedAll /\ [Next]_vars => CheckedAll'
  BY CheckedStep
<1>3. Typed /\ CheckedAll /\ [Next]_vars =>
        [\A q \in Requests :
           /\ At(q, "write") /\ pc'[q] = "done" /\ IsOp(q, {"createEvent", "updateEvent"})
           /\ ~ Ordered(event'[Job[q].event].start, event'[Job[q].event].end)
           => /\ IsOp(q, {"updateEvent"})
              /\ window[q] # WindowOf(event[Job[q].event])]_vars
  BY WindowStep DEF At
<1> QED
  BY <1>1, <1>2, <1>3, AlwaysTyped, PTL DEF Spec, EventWindowHolds

----------------------------------------------------------------------------
(***************************************************************************)
(* Access settings.  Every row of them is one that a save which began to   *)
(* write has stored; where there is none, such a save wanted none.         *)
(***************************************************************************)
ModeRow(l) ==
  LET s == meta[l]["accessMode"]
  IN  IF s = Nobody THEN \E o \in begun[l] : o = Nobody \/ Job[o].mode = "none"
      ELSE s \in begun[l] /\ Job[s].mode # "none"

PasswordRow(l) ==
  LET s == meta[l]["accessPassword"]
  IN  s # Nobody => /\ s \in begun[l] /\ Job[s].mode = "PASSWORD_PROTECTED"
                    /\ Job[s].password # NoSecret

Begins(q) == pc[q] \in {"upsertFind", "upsertWrite"} /\ IsOp(q, {"linkSettings"})
             => q \in begun[Job[q].link]

DoorsInv == (\A l \in Links : ModeRow(l) /\ PasswordRow(l)) /\ \A q \in Requests : Begins(q)

LEMMA OthersKeepDoors ==
  ASSUME Typed, NEW q \in Requests, Step(q), ~ Find(q), ~ UpsertWrite(q)
  PROVE  /\ meta' = meta /\ begun' = begun
         /\ pc'[q] \in {"upsertFind", "upsertWrite"} => pc[q] \in {"upsertFind", "upsertWrite"}
<1>0. DOMAIN pc = Requests
  BY DEF Typed, TypeOK
<1> USE <1>0 DEF At, Goto, Note, rowVars, history
<1>1. CASE Start(q) \/ Abort(q)
  BY <1>1 DEF Start, Abort
<1>2. CASE EventStep(q) \/ LinkStep(q)
  BY <1>2 DEF EventStep, LinkStep, CreateEvent, UpdateEvent, ArchiveEvent, CreateLink,
              UpdateLink, DeleteLink, OnlyEvents
<1>3. CASE UpsertStep(q) \/ FieldStep(q) \/ RuleStep(q)
  BY <1>3 DEF UpsertStep, FieldStep, RuleStep, UpsertFind, FieldsBegin, FieldsCommit,
              RulesFind, RulesCommit
<1>4. CASE VisitStep(q)
  <2>1. CASE Access(q)
    <3>1. Place(q)
      BY DEF Typed
    <3> QED
      BY <2>1, <3>1 DEF Access, Place, IsOp
  <2>2. CASE Resolve(q) \/ Metadata(q) \/ Retrieve(q) \/ Decide(q)
    BY <2>2 DEF Resolve, Metadata, Retrieve, Decide
  <2> QED BY <1>4, <2>1, <2>2 DEF VisitStep
<1>5. CASE AnswerStep(q)
  <2>1. CASE FindRegistrant(q)
    BY <2>1 DEF FindRegistrant
  <2>2. CASE SaveDelete(q)
    BY <2>2 DEF SaveDelete
  <2>3. CASE SaveCreate(q)
    BY <2>3 DEF SaveCreate
  <2>4. CASE EditAnswer(q)
    BY <2>4 DEF EditAnswer
  <2> QED BY <1>5, <2>1, <2>2, <2>3, <2>4 DEF AnswerStep
<1>6. CASE TemplateStep(q) \/ MessageStep(q)
  BY <1>6 DEF TemplateStep, MessageStep, CreateTemplate, UpdateTemplate, SetTemplateType,
              FindTypes, PickTemplate, PickSms, SendText, OnlyMessages
<1> QED
  BY <1>1, <1>2, <1>3, <1>4, <1>5, <1>6 DEF Step

LEMMA DoorsFindStep ==
  ASSUME Typed, DoorsInv, NEW q \in Requests, Moved(q), Find(q)
  PROVE  DoorsInv'
<1>1. /\ meta' = meta /\ pc[q] = "find"
      /\ \A l \in Links : begun[l] \subseteq begun'[l]
      /\ Found(q) /\ IsOp(q, {"linkSettings"}) => q \in begun'[Job[q].link]
  BY JobTyped DEF Find, At, rowVars
<1>2. pc'[q] = "upsertFind" => Found(q)
  BY DEF Find, Goto, Note, Typed, TypeOK
<1>3. pc'[q] # "upsertWrite"
  BY DEF Find, Goto, Note, FirstStep, Typed, TypeOK
<1>4. \A l \in Links : ModeRow(l)' /\ PasswordRow(l)'
  BY <1>1 DEF DoorsInv, ModeRow, PasswordRow
<1>5. ASSUME NEW p \in Requests PROVE Begins(p)'
  <2>1. CASE p = q
    BY <1>1, <1>2, <1>3, <2>1 DEF Begins
  <2>2. CASE p # q
    <3>1. pc'[p] = pc[p] /\ Job[p].link \in Links /\ Begins(p)
      BY <2>2, JobTyped DEF Moved, Typed, TypeOK, DoorsInv
    <3> QED
      BY <1>1, <3>1 DEF Begins
  <2> QED BY <2>1, <2>2
<1> QED
  BY <1>4, <1>5 DEF DoorsInv

\* Settings of an event are not those of a link.
LEMMA DoorsWriteStep ==
  ASSUME Typed, DoorsInv, NEW q \in Requests, Moved(q), UpsertWrite(q)
  PROVE  DoorsInv'
<1>1. /\ pc[q] = "upsertWrite" /\ begun' = begun /\ IsOp(q, Saves)
      /\ \A p \in Requests \ {q} : pc'[p] = pc[p]
      /\ DOMAIN meta = Events \cup Links
      /\ \A x \in Events \cup Links : DOMAIN meta[x] = EventSlots \cup LinkSlots
      /\ Scope(q) \in Events \cup Links
  BY JobTyped DEF UpsertWrite, At, history, Moved, Typed, TypeOK, Place, IsOp, Scope
<1>2. \A p \in Requests : Begins(p)'
  BY <1>1 DEF Begins, DoorsInv
<1>3. CASE meta' = meta
  BY <1>1, <1>2, <1>3 DEF DoorsInv, ModeRow, PasswordRow
<1>4. CASE meta' # meta
  <2> DEFINE slot == Current(q)
  <2>1. meta' = [meta EXCEPT ![Scope(q)][slot] = IF Stores(q, slot) THEN q ELSE Nobody]
    BY <1>4 DEF UpsertWrite
  <2> HIDE DEF slot
  <2>2. ASSUME NEW l \in Links, ~ (Scope(q) = l) PROVE ModeRow(l)' /\ PasswordRow(l)'
    <3>1. meta'[l] = meta[l]
      BY <1>1, <2>1, <2>2
    <3> QED
      BY <1>1, <3>1 DEF DoorsInv, ModeRow, PasswordRow
  <2>3. ASSUME NEW l \in Links, Scope(q) = l PROVE ModeRow(l)' /\ PasswordRow(l)'
    <3>1. IsOp(q, {"linkSettings"}) /\ l = Job[q].link
      BY <1>1, <2>3, JobTyped, OwnerAssumption DEF Scope, IsOp, Saves
    <3>2. q \in begun[l] /\ q # Nobody /\ ModeRow(l) /\ PasswordRow(l)
      BY <1>1, <3>1, NobodyAssumption DEF DoorsInv, Begins
    <3>3. \A x \in LinkSlots : meta'[l][x] = IF x = slot THEN IF Stores(q, x) THEN q ELSE Nobody
                                             ELSE meta[l][x]
      BY <1>1, <2>1, <2>3
    <3>4. ModeRow(l)'
      <4>1. "accessMode" \in LinkSlots /\ (Stores(q, "accessMode") <=> Job[q].mode # "none")
        BY DEF LinkSlots, Stores
      <4>2. CASE meta'[l]["accessMode"] = meta[l]["accessMode"]
        BY <1>1, <3>2, <4>2 DEF ModeRow
      <4>3. CASE /\ slot = "accessMode"
                 /\ meta'[l]["accessMode"] = IF Job[q].mode # "none" THEN q ELSE Nobody
        BY <1>1, <3>2, <4>3 DEF ModeRow
      <4> QED BY <3>3, <4>1, <4>2, <4>3
    <3>5. PasswordRow(l)'
      <4>1. /\ "accessPassword" \in LinkSlots
            /\ Stores(q, "accessPassword") <=>
                 Job[q].mode = "PASSWORD_PROTECTED" /\ Job[q].password # NoSecret
        BY DEF LinkSlots, Stores
      <4>2. CASE meta'[l]["accessPassword"] = meta[l]["accessPassword"]
        BY <1>1, <3>2, <4>2 DEF PasswordRow
      <4>3. CASE meta'[l]["accessPassword"] =
                   IF Stores(q, "accessPassword") THEN q ELSE Nobody
        BY <1>1, <3>2, <4>1, <4>3 DEF PasswordRow
      <4> QED BY <3>3, <4>1, <4>2, <4>3
    <3> QED BY <3>4, <3>5
  <2> QED
    BY <1>2, <2>2, <2>3 DEF DoorsInv
<1> QED
  BY <1>3, <1>4

LEMMA DoorsStep == Typed /\ DoorsInv /\ [Next]_vars => DoorsInv'
<1> SUFFICES ASSUME Typed, DoorsInv, [Next]_vars PROVE DoorsInv'
  OBVIOUS
<1>1. ASSUME NEW q \in Requests, Step(q) PROVE DoorsInv'
  <2>1. Moved(q)
    BY <1>1, OneMoves DEF Typed
  <2>2. CASE ~ Find(q) /\ ~ UpsertWrite(q)
    <3>1. /\ meta' = meta /\ begun' = begun
          /\ pc'[q] \in {"upsertFind", "upsertWrite"} => pc[q] \in {"upsertFind", "upsertWrite"}
      BY <1>1, <2>2, OthersKeepDoors
    <3>2. \A p \in Requests \ {q} : pc'[p] = pc[p]
      BY <2>1 DEF Moved, Typed, TypeOK
    <3> QED
      BY <3>1, <3>2 DEF DoorsInv, ModeRow, PasswordRow, Begins
  <2> QED
    BY <1>1, <2>1, <2>2, DoorsFindStep, DoorsWriteStep
<1>2. CASE UNCHANGED vars
  BY <1>2 DEF DoorsInv, ModeRow, PasswordRow, Begins, vars, rowVars, history
<1> QED
  BY <1>1, <1>2, NextIsStep

LEMMA OnlyAccessAdmits ==
  ASSUME Typed, NEW q \in Requests, [Next]_vars,
         At(q, "access"), pc'[q] \in {"shown", "decide", "registrant"}
  PROVE  Access(q)
<1>0. DOMAIN pc = Requests
  BY DEF Typed, TypeOK
<1> USE <1>0 DEF At, Goto, Note
<1>1. Step(q)
  <2>1. PICK p \in Requests : Step(p)
    BY NextIsStep DEF vars
  <2>2. Moved(p)
    BY <2>1, OneMoves DEF Typed
  <2> QED
    BY <2>1, <2>2 DEF Moved
<1>2. ~ (Start(q) \/ Find(q) \/ Abort(q) \/ UpsertStep(q) \/ FieldStep(q) \/ RuleStep(q))
  BY DEF Start, Find, Abort, UpsertStep, FieldStep, RuleStep, UpsertFind, UpsertWrite, FieldsBegin,
         FieldsCommit, RulesFind, RulesCommit
<1>3. ~ (EventStep(q) \/ LinkStep(q))
  BY DEF EventStep, LinkStep, CreateEvent, UpdateEvent, ArchiveEvent, CreateLink, UpdateLink, DeleteLink
<1>4. ~ (AnswerStep(q) \/ TemplateStep(q) \/ MessageStep(q))
  BY DEF AnswerStep, FindRegistrant, SaveDelete, SaveCreate, EditAnswer, TemplateStep,
         CreateTemplate, UpdateTemplate, SetTemplateType, MessageStep, FindTypes, PickTemplate,
         PickSms, SendText
<1>5. ~ (Resolve(q) \/ Metadata(q) \/ Retrieve(q) \/ Decide(q))
  BY DEF Resolve, Metadata, Retrieve, Decide
<1> QED
  BY <1>1, <1>2, <1>3, <1>4, <1>5 DEF Step, VisitStep

LEMMA DoorStep ==
  ASSUME Typed, DoorsInv, NEW q \in Requests, [Next]_vars,
         At(q, "access"), pc'[q] \in {"shown", "decide", "registrant"}
  PROVE  \E s \in begun[Job[q].link] : Intends(s, Job[q].offer)
<1> DEFINE l == Job[q].link
           by == meta[l]["accessMode"]
           key == meta[l]["accessPassword"]
<1>1. l \in Links /\ ModeRow(l) /\ PasswordRow(l)
  BY JobTyped DEF DoorsInv
<1>2. Admits(Mode(l), Secret(l), Job[q].offer)
  <2>1. DOMAIN pc = Requests
    BY DEF Typed, TypeOK
  <2>2. Access(q)
    BY OnlyAccessAdmits
  <2>3. ~ Admits(Mode(l), Secret(l), Job[q].offer) => pc'[q] = "refused"
    BY <2>1, <2>2 DEF Access, Goto, At, IsOp, Admits
  <2> QED BY <2>3
<1>3. CASE by = Nobody
  <2>1. PICK o \in begun[l] : o = Nobody \/ Job[o].mode = "none"
    BY <1>1, <1>3 DEF ModeRow
  <2> QED
    BY <2>1 DEF Intends, Admits
<1>4. CASE by # Nobody /\ Job[by].mode = "PUBLIC"
  BY <1>1, <1>4 DEF ModeRow, Intends, Admits
<1>5. CASE by # Nobody /\ Job[by].mode # "PUBLIC"
  <2>1. Secret(l) # NoSecret /\ Job[q].offer = Secret(l)
    BY <1>1, <1>2, <1>5 DEF Admits, Mode, ModeRow
  <2>2. key # Nobody /\ Secret(l) = Job[key].password
    BY <2>1 DEF Secret
  <2>3. key \in begun[l] /\ Job[key].mode = "PASSWORD_PROTECTED"
    BY <1>1, <2>2 DEF PasswordRow
  <2> QED
    BY <2>1, <2>2, <2>3 DEF Intends, Admits
<1> QED
  BY <1>3, <1>4, <1>5

(***************************************************************************)
(* Whoever a link lets in is somebody one whole save of its settings would *)
(* let in, for any number of saves that overlap and are cut short.         *)
(***************************************************************************)
THEOREM DoorsHold == Spec => DoorsStayClosed
<1>1. Init => DoorsInv
  <2> SUFFICES ASSUME Init PROVE DoorsInv
    OBVIOUS
  <2>1. PICK t \in Scenarios :
          /\ \A q \in Requests : pc[q] \in {"idle", "done"}
          /\ meta = [x \in Events \cup Links |->
                      [slot \in EventSlots \cup LinkSlots |->
                         Stored(Past, slot, t.settled /\ x \in t.live /\ slot \in LinkSlots)]]
          /\ begun = [l \in Links |-> {IF t.settled /\ l \in t.live THEN Past ELSE Nobody}]
    BY DEF Init
  <2>2. ASSUME NEW l \in Links PROVE ModeRow(l) /\ PasswordRow(l)
    <3>1. /\ meta[l]["accessMode"] = Stored(Past, "accessMode", t.settled /\ l \in t.live)
          /\ meta[l]["accessPassword"] = Stored(Past, "accessPassword", t.settled /\ l \in t.live)
          /\ begun[l] = {IF t.settled /\ l \in t.live THEN Past ELSE Nobody}
      BY <2>1 DEF LinkSlots
    <3>2. Past # Nobody
      BY JobAssumption, NobodyAssumption
    <3> QED
      BY <3>1, <3>2 DEF ModeRow, PasswordRow, Stored, Stores
  <2> QED
    BY <2>1, <2>2 DEF DoorsInv, Begins
<1>2. Typed /\ DoorsInv /\ [Next]_vars =>
        [\A q \in Requests :
           At(q, "access") /\ pc'[q] \in {"shown", "decide", "registrant"} =>
             \E s \in begun[Job[q].link] : Intends(s, Job[q].offer)]_vars
  BY DoorStep
<1> QED
  BY <1>1, <1>2, DoorsStep, AlwaysTyped, PTL DEF Spec, DoorsStayClosed

----------------------------------------------------------------------------
(***************************************************************************)
(* Templates and messages.  Two edits of one template that are under way   *)
(* are both crowded; the row of a template is its own author's, and its    *)
(* type too once an author who was not crowded is done.                    *)
(***************************************************************************)
Author(x) == template[x].by
Editing(q) == pc[q] \in {"template", "type"}
Choosing(q) == pc[q] \in {"pick", "queued"} /\ IsOp(q, {"notify"})

Overlapping == \A p, q \in Requests :
  p # q /\ Editing(p) /\ Editing(q) /\ Job[p].template = Job[q].template => p \in crowded /\ q \in crowded
RowIsLast(q) == LET a == Author(Job[q].template) IN pc[q] = "type" => a = q \/ a \in crowded
TypeFits(x) == LET a == Author(x)
               IN  /\ a \in settled \ crowded => type[x] = Job[a].type
                   /\ a \notin {Nobody, Past} => Job[a].template = x
TextFits(q) == Choosing(q) =>
  /\ knew[q] \subseteq settled
  /\ \A x \in found[q] : Author(x) \in knew[q] \ crowded => Job[Author(x)].type = Job[q].type

TextInv == /\ \A q \in settled : pc[q] = "done"
           /\ Overlapping
           /\ \A q \in Requests : RowIsLast(q) /\ TextFits(q)
           /\ \A x \in Templates : TypeFits(x)

TextAside(q) ==
  /\ UNCHANGED messageVars /\ crowded \subseteq crowded'
  /\ pc'[q] \notin {"template", "type", "pick", "queued"}

LEMMA OthersKeepText ==
  ASSUME Typed, NEW q \in Requests, Step(q), ~ Find(q), ~ TemplateStep(q), ~ MessageStep(q)
  PROVE  TextAside(q)
<1>0. DOMAIN pc = Requests
  BY DEF Typed, TypeOK
<1> USE <1>0 DEF At, Goto, Note, history, TextAside
<1>1. CASE Start(q) \/ Abort(q)
  BY <1>1 DEF Start, Abort
<1>2. CASE EventStep(q) \/ LinkStep(q)
  BY <1>2 DEF EventStep, LinkStep, CreateEvent, UpdateEvent, ArchiveEvent, CreateLink,
              UpdateLink, DeleteLink, OnlyEvents
<1>3. CASE UpsertStep(q) \/ FieldStep(q) \/ RuleStep(q)
  BY <1>3 DEF UpsertStep, FieldStep, RuleStep, UpsertFind, UpsertWrite, FieldsBegin, FieldsCommit,
              RulesFind, RulesCommit
<1>4. CASE VisitStep(q)
  <2>1. CASE Access(q)
    <3>1. Place(q)
      BY DEF Typed
    <3> QED
      BY <2>1, <3>1 DEF Access, Place, IsOp
  <2>2. CASE Resolve(q) \/ Metadata(q) \/ Retrieve(q) \/ Decide(q)
    BY <2>2 DEF Resolve, Metadata, Retrieve, Decide
  <2> QED BY <1>4, <2>1, <2>2 DEF VisitStep
<1>5. CASE AnswerStep(q)
  <2>1. CASE FindRegistrant(q)
    BY <2>1 DEF FindRegistrant, Crowds
  <2>2. CASE SaveDelete(q)
    BY <2>2 DEF SaveDelete
  <2>3. CASE SaveCreate(q)
    BY <2>3 DEF SaveCreate
  <2>4. CASE EditAnswer(q)
    BY <2>4 DEF EditAnswer
  <2> QED BY <1>5, <2>1, <2>2, <2>3, <2>4 DEF AnswerStep
<1> QED
  BY <1>1, <1>2, <1>3, <1>4, <1>5 DEF Step

LEMMA TextFrame ==
  ASSUME Typed, TextInv, NEW q \in Requests, Moved(q), TextAside(q)
  PROVE  TextInv'
<1>1. /\ \A p \in Requests \ {q} : pc'[p] = pc[p]
      /\ \A a, x : Author(x)' = Author(x)
      /\ settled' = settled /\ type' = type /\ found' = found /\ knew' = knew
      /\ settled \subseteq Requests /\ pc[q] # "done"
  BY DEF Moved, Over, TextAside, messageVars, Author, Typed, TypeOK
<1>2. \A p \in settled' : pc'[p] = "done"
  BY <1>1 DEF TextInv
<1>3. \A p \in Requests : /\ Editing(p)' => Editing(p) /\ p # q
                          /\ Choosing(p)' => Choosing(p) /\ p # q
  BY <1>1 DEF Editing, Choosing, TextAside
<1>4. Overlapping'
  BY <1>3 DEF TextInv, Overlapping, TextAside
<1>5. \A p \in Requests : RowIsLast(p)'
  BY <1>1 DEF TextInv, RowIsLast, TextAside
<1>6. \A p \in Requests : TextFits(p)'
  BY <1>1, <1>3 DEF TextInv, TextFits, TextAside
<1>7. \A x \in Templates : TypeFits(x)'
  BY <1>1 DEF TextInv, TypeFits, TextAside
<1> QED
  BY <1>2, <1>4, <1>5, <1>6, <1>7 DEF TextInv

LEMMA TextFindStep ==
  ASSUME Typed, TextInv, NEW q \in Requests, Moved(q), Find(q)
  PROVE  TextInv'
<1>1. /\ \A p \in Requests \ {q} : pc'[p] = pc[p]
      /\ \A x : Author(x)' = Author(x)
      /\ settled' = settled /\ type' = type /\ found' = found /\ knew' = knew
      /\ settled \subseteq Requests /\ pc[q] # "done"
  BY DEF Moved, Over, Find, messageVars, Author, Typed, TypeOK
<1>2. pc'[q] \notin {"type", "pick", "queued"} /\ crowded \subseteq crowded'
  BY DEF Find, Goto, Note, FirstStep, Crowds, Typed, TypeOK
<1>3. pc'[q] = "template" => crowded' = Crowds(q)
  <2> SUFFICES ASSUME pc'[q] = "template" PROVE crowded' = Crowds(q)
    OBVIOUS
  <2>1. Found(q) /\ FirstStep(q) = "template"
    BY DEF Find, Goto, Typed, TypeOK
  <2>2. IsOp(q, {"createTemplate", "updateTemplate"})
    BY <2>1, JobTyped DEF FirstStep
  <2> QED
    BY <2>1, <2>2 DEF Find, IsOp
<1>4. \A p \in settled' : pc'[p] = "done"
  BY <1>1 DEF TextInv
<1>5. \A p \in Requests \ {q} : Editing(p)' <=> Editing(p)
  BY <1>1 DEF Editing
<1>6. \A p \in Requests : Choosing(p)' => Choosing(p) /\ p # q
  BY <1>1, <1>2 DEF Choosing
<1>7. ASSUME NEW p \in Requests \ {q}, Editing(p)', Editing(q)', Job[p].template = Job[q].template
      PROVE  p \in crowded' /\ q \in crowded'
  <2>1. crowded' = Crowds(q)
    BY <1>2, <1>3, <1>7 DEF Editing
  <2>2. p \in Rivals(q)
    BY <1>5, <1>7 DEF Rivals, Editing
  <2> QED BY <2>1, <2>2 DEF Crowds
<1>8. Overlapping'
  <2> SUFFICES ASSUME NEW p \in Requests, NEW o \in Requests, p # o, Editing(p)', Editing(o)',
                      Job[p].template = Job[o].template
               PROVE  p \in crowded' /\ o \in crowded'
    BY DEF Overlapping
  <2>1. CASE p = q \/ o = q
    BY <1>7, <2>1
  <2>2. CASE p # q /\ o # q
    BY <1>2, <1>5, <2>2 DEF TextInv, Overlapping
  <2> QED BY <2>1, <2>2
<1>9. \A p \in Requests : RowIsLast(p)'
  BY <1>1, <1>2 DEF TextInv, RowIsLast
<1>10. \A p \in Requests : TextFits(p)'
  BY <1>1, <1>2, <1>6 DEF TextInv, TextFits
<1>11. \A x \in Templates : TypeFits(x)'
  BY <1>1, <1>2 DEF TextInv, TypeFits
<1> QED
  BY <1>4, <1>8, <1>9, <1>10, <1>11 DEF TextInv

\* createTemplate and updateTemplate: whoever is at the type already is a rival.
LEMMA TextWriteStep ==
  ASSUME Typed, TextInv, NEW q \in Requests, Moved(q), CreateTemplate(q) \/ UpdateTemplate(q)
  PROVE  TextInv'
<1> DEFINE t == Job[q].template
<1>1. /\ \A p \in Requests \ {q} : pc'[p] = pc[p]
      /\ settled' = settled /\ type' = type /\ found' = found /\ knew' = knew /\ crowded' = crowded
      /\ settled \subseteq Requests /\ pc[q] = "template" /\ pc'[q] = "type"
      /\ t \in Templates /\ q \notin settled /\ q \notin {Nobody, Past}
  BY JobTyped, NobodyAssumption DEF Moved, CreateTemplate, UpdateTemplate, OnlyMessages, history,
     Goto, At, Typed, TypeOK, TextInv
<1>2. /\ Author(t)' = q
      /\ \A x \in Templates \ {t} : Author(x)' = Author(x)
  <2>1. template \in [Templates -> [by: Requests \cup {Nobody}, active: BOOLEAN]]
    BY DEF Typed, TypeOK
  <2>2. \/ template' = [template EXCEPT ![t] = [by |-> q, active |-> TRUE]]
        \/ template' = [template EXCEPT ![t] = [by |-> q, active |-> Job[q].active]]
    BY DEF CreateTemplate, UpdateTemplate, Note
  <2> HIDE DEF t
  <2> QED BY <1>1, <2>1, <2>2 DEF Author
<1>3. \A p \in settled' : pc'[p] = "done"
  BY <1>1 DEF TextInv
<1>4. \A p \in Requests : (Editing(p)' <=> Editing(p)) /\ (Choosing(p)' => Choosing(p) /\ p # q)
  BY <1>1 DEF Editing, Choosing
<1>5. Overlapping'
  BY <1>1, <1>4 DEF TextInv, Overlapping
<1>6. ASSUME NEW p \in Requests PROVE RowIsLast(p)'
  <2>1. CASE p = q
    BY <1>2, <2>1 DEF RowIsLast
  <2>2. CASE p # q /\ pc[p] = "type" /\ Job[p].template = t
    <3>1. q \in crowded
      BY <1>1, <2>2 DEF TextInv, Overlapping, Editing
    <3> QED
      BY <1>1, <1>2, <2>2, <3>1 DEF RowIsLast
  <2>3. CASE p # q /\ (pc[p] # "type" \/ Job[p].template # t)
    <3>1. RowIsLast(p) /\ pc'[p] = pc[p] /\ Job[p].template \in Templates
      BY <1>1, <2>3, JobTyped DEF TextInv
    <3> QED
      BY <1>1, <1>2, <2>3, <3>1 DEF RowIsLast
  <2> QED BY <2>1, <2>2, <2>3
<1>7. ASSUME NEW p \in Requests PROVE TextFits(p)'
  <2> SUFFICES ASSUME Choosing(p)', NEW x \in found[p], Author(x)' \in knew[p] \ crowded
               PROVE  Job[Author(x)'].type = Job[p].type
    BY <1>1, <1>4 DEF TextInv, TextFits
  <2>1. TextFits(p) /\ Choosing(p) /\ x \in Templates
    BY <1>4 DEF TextInv, Typed, TypeOK
  <2>2. x # t
    BY <1>1, <1>2, <2>1 DEF TextFits
  <2> QED
    BY <1>2, <2>1, <2>2 DEF TextFits
<1>8. ASSUME NEW x \in Templates PROVE TypeFits(x)'
  <2>1. CASE x = t
    BY <1>1, <1>2, <2>1 DEF TypeFits
  <2>2. CASE x # t
    <3>1. TypeFits(x)
      BY DEF TextInv
    <3> QED
      BY <1>1, <1>2, <2>2, <3>1 DEF TypeFits
  <2> QED BY <2>1, <2>2
<1> QED
  BY <1>3, <1>5, <1>6, <1>7, <1>8 DEF TextInv

LEMMA TextTypeStep ==
  ASSUME Typed, TextInv, NEW q \in Requests, Moved(q), SetTemplateType(q)
  PROVE  TextInv'
<1> DEFINE t == Job[q].template
<1>1. /\ \A p \in Requests \ {q} : pc'[p] = pc[p]
      /\ settled' = settled \cup {q} /\ found' = found /\ knew' = knew /\ crowded' = crowded
      /\ settled \subseteq Requests /\ pc[q] = "type" /\ pc'[q] = "done"
      /\ t \in Templates /\ q \notin {Nobody, Past}
      /\ \A x : Author(x)' = Author(x)
  BY JobTyped, NobodyAssumption DEF Moved, SetTemplateType, OnlyMessages, history, Author,
     Goto, At, Typed, TypeOK
<1>2. type'[t] = Job[q].type /\ \A x \in Templates \ {t} : type'[x] = type[x]
  BY <1>1 DEF SetTemplateType, Note, Typed, TypeOK
<1>3. \A p \in settled' : pc'[p] = "done"
  BY <1>1 DEF TextInv
<1>4. \A p \in Requests : /\ Editing(p)' => Editing(p) /\ p # q
                          /\ Choosing(p)' => Choosing(p) /\ p # q
  BY <1>1 DEF Editing, Choosing
<1>5. Overlapping'
  BY <1>1, <1>4 DEF TextInv, Overlapping
<1>6. \A p \in Requests : RowIsLast(p)'
  BY <1>1 DEF TextInv, RowIsLast
<1>7. \A p \in Requests : TextFits(p)'
  BY <1>1, <1>4 DEF TextInv, TextFits
<1>8. ASSUME NEW x \in Templates PROVE TypeFits(x)'
  <2>1. TypeFits(x) /\ RowIsLast(q)
    BY DEF TextInv
  <2>2. CASE x = t
    BY <1>1, <1>2, <2>1, <2>2 DEF TypeFits, RowIsLast
  <2>3. CASE x # t
    BY <1>1, <1>2, <2>1, <2>3 DEF TypeFits
  <2> QED BY <2>2, <2>3
<1> QED
  BY <1>3, <1>5, <1>6, <1>7, <1>8 DEF TextInv

LEMMA TextMessageStep ==
  ASSUME Typed, TextInv, NEW q \in Requests, Moved(q), MessageStep(q)
  PROVE  TextInv'
<1>1. /\ \A p \in Requests \ {q} : pc'[p] = pc[p] /\ found'[p] = found[p] /\ knew'[p] = knew[p]
      /\ settled' = settled /\ crowded' = crowded /\ type' = type
      /\ pc[q] # "done" /\ pc'[q] \in {"pick", "queued", "done", "sent"}
      /\ \A x : Author(x)' = Author(x)
  BY DEF MessageStep, FindTypes, PickTemplate, PickSms, SendText, OnlyMessages, messageVars, history,
     Author, Goto, Note, At, Moved, Typed, TypeOK
<1>2. settled \subseteq Requests /\ \A p \in settled' : pc'[p] = "done"
  BY <1>1 DEF TextInv, Typed, TypeOK
<1>3. \A p \in Requests : Editing(p)' => Editing(p) /\ p # q
  BY <1>1 DEF Editing
<1>4. Overlapping'
  BY <1>1, <1>3 DEF TextInv, Overlapping
<1>5. \A p \in Requests : RowIsLast(p)'
  BY <1>1 DEF TextInv, RowIsLast
<1>6. \A x \in Templates : TypeFits(x)'
  BY <1>1 DEF TextInv, TypeFits
<1>7. ASSUME NEW p \in Requests \ {q} PROVE TextFits(p)'
  <2>1. TextFits(p)
    BY DEF TextInv
  <2> QED
    BY <1>1, <2>1 DEF TextFits, Choosing
<1>8. TextFits(q)'
  <2> SUFFICES ASSUME Choosing(q)' PROVE TextFits(q)'
    BY DEF TextFits
  <2>1. CASE FindTypes(q)
    <3>1. knew'[q] = settled /\ found'[q] = {x \in Templates : type[x] = Job[q].type}
      BY <2>1 DEF FindTypes, Note, Typed, TypeOK
    <3> QED
      BY <1>1, <3>1 DEF TextFits, TextInv, TypeFits
  <2>2. CASE PickTemplate(q)
    <3>1. knew'[q] = knew[q] /\ found'[q] \subseteq found[q] /\ pc[q] = "pick"
      BY <2>2 DEF PickTemplate, Note, At, Typed, TypeOK
    <3>2. Choosing(q) /\ TextFits(q)
      BY <3>1 DEF Choosing, TextInv
    <3> QED
      BY <1>1, <3>1, <3>2 DEF TextFits
  <2>3. CASE PickSms(q)
    BY <2>3 DEF PickSms, At, Choosing, IsOp, Typed, Place
  <2>4. CASE SendText(q)
    BY <2>4 DEF SendText, Goto, Choosing, Typed, TypeOK
  <2> QED
    BY <2>1, <2>2, <2>3, <2>4 DEF MessageStep
<1> QED
  BY <1>2, <1>4, <1>5, <1>6, <1>7, <1>8 DEF TextInv

LEMMA TextStep == Typed /\ TextInv /\ [Next]_vars => TextInv'
<1> SUFFICES ASSUME Typed, TextInv, [Next]_vars PROVE TextInv'
  OBVIOUS
<1>1. ASSUME NEW q \in Requests, Step(q) PROVE TextInv'
  <2>1. Moved(q)
    BY <1>1, OneMoves DEF Typed
  <2>2. CASE ~ Find(q) /\ ~ TemplateStep(q) /\ ~ MessageStep(q)
    BY <1>1, <2>1, <2>2, OthersKeepText, TextFrame
  <2>3. CASE TemplateStep(q)
    BY <2>1, <2>3, TextWriteStep, TextTypeStep DEF TemplateStep
  <2> QED
    BY <2>1, <2>2, <2>3, TextFindStep, TextMessageStep
<1>2. CASE UNCHANGED vars
  BY <1>2 DEF TextInv, Overlapping, RowIsLast, TypeFits, TextFits, Editing, Choosing, Author,
              vars, history, messageVars
<1> QED
  BY <1>1, <1>2, NextIsStep

(***************************************************************************)
(* The text of an automated message was written for its type, for any      *)
(* number of templates and edits, except where TextFitsItsType says.       *)
(***************************************************************************)
THEOREM TextsFit == Spec => TextFitsItsType
<1>1. Init => TextInv
  <2> SUFFICES ASSUME Init PROVE TextInv
    OBVIOUS
  <2>1. /\ \A q \in Requests : pc[q] \in {"idle", "done"}
        /\ settled = {Past} /\ pc[Past] = "done"
    <3>1. settled = {Past} /\ \A q \in Requests : pc[q] \in {"idle", "done"}
      BY DEF Init
    <3>2. pc[Past] = "done"
      BY InitTyped DEF Typed
    <3> QED BY <3>1, <3>2
  <2>2. ASSUME NEW x \in Templates PROVE TypeFits(x)
    <3>1. /\ template[x].by \in {Past, Nobody}
          /\ template[x].by = Past => type[x] = Job[Past].type
      BY JobAssumption, NobodyAssumption DEF Init
    <3> QED
      BY <2>1, <3>1, JobAssumption, NobodyAssumption DEF TypeFits, Author
  <2> QED
    BY <2>1, <2>2 DEF TextInv, Overlapping, RowIsLast, TextFits, Editing, Choosing
<1>2. Typed /\ TextInv /\ [Next]_vars =>
        [\A q \in Requests :
           IsOp(q, {"notify"}) /\ At(q, "queued") /\ pc'[q] = "sent" =>
             \A x \in found[q] :
               LET author == template[x].by
               IN  author \in knew[q] \ crowded => Job[author].type = Job[q].type]_vars
  BY DEF TextInv, TextFits, Choosing, At, Author
<1> QED
  BY <1>1, <1>2, TextStep, AlwaysTyped, PTL DEF Spec, TextFitsItsType

----------------------------------------------------------------------------
(***************************************************************************)
(* Answers.  Fields are known by who wrote them, and who did is done; an   *)
(* update that nobody crowded either still has its answers to delete, and  *)
(* then the insertion is bound to fail, or it deleted them first.          *)
(***************************************************************************)
Answering(q) == pc[q] \in {"save", "failing", "edit"}
Visiting(q) == pc[q] \in {"access", "registrant", "save", "failing"}
Source(f) == f.by \in Requests /\ pc[f.by] = "done"
Stale(q) == \E f \in saw[q] \ fields[Job[q].link] : f.key \in Sent(q)

Together == \A p, q \in Requests :
  p # q /\ Answering(p) /\ Answering(q) /\ Job[p].link = Job[q].link => p \in crowded /\ q \in crowded
Sources == /\ \A l \in Links : \A f \in fields[l] : Source(f)
           /\ \A q \in Requests : Visiting(q) => \A f \in saw[q] : Source(f)
Bound(q) == "delete" \in todo[q] =>
              Stale(q) \/ \A k \in before[q] \cap Sent(q) : answers[Job[q].link][k] # Nobody
Cleared(q) == "create" \notin todo[q] => before[q] \cap Sent(q) = {}
Ahead(q) == todo[q] \subseteq {"delete", "create"}
Standing(q) == pc[q] = "save" /\ q \notin crowded => Bound(q) /\ Cleared(q) /\ Ahead(q)

AnswersInv == Together /\ Sources /\ \A q \in Requests : Standing(q)

(***************************************************************************)
(* What a step of q may do to the rows, and to what others have read.      *)
(***************************************************************************)
Adds(q, l) == \A f \in fields'[l] : f \in fields[l] \/ (f.by = q /\ pc'[q] = "done")
Keeps(q, l) == \/ \A k \in Keys : answers[l][k] # Nobody => answers'[l][k] # Nobody
               \/ fields'[l] = {}
               \/ Answering(q) /\ Job[q].link = l
RowEffect(q) == \A l \in Links : Adds(q, l) /\ Keeps(q, l)

OwnEffect(q) ==
  /\ \A p \in Requests \ {q} : saw'[p] = saw[p] /\ before'[p] = before[p] /\ todo'[p] = todo[p]
  /\ crowded \subseteq crowded'
  /\ Answering(q)' => Answering(q) \/ crowded' = Crowds(q)
  /\ Visiting(q)' => saw'[q] \subseteq fields[Job[q].link] \/ (Visiting(q) /\ saw'[q] = saw[q])
  /\ pc'[q] = "save" => FindRegistrant(q) \/ SaveDelete(q) \/ SaveCreate(q)

LEMMA StepsOnRows ==
  ASSUME Typed, NEW q \in Requests, Step(q)
  PROVE  RowEffect(q)
<1>0. /\ DOMAIN pc = Requests /\ Nobody \notin Requests /\ Job[q].link \in Links
      /\ DOMAIN fields = Links /\ DOMAIN answers = Links
      /\ \A l \in Links : DOMAIN answers[l] = Keys
  BY JobTyped, NobodyAssumption DEF Typed, TypeOK
<1>1. fields' = fields /\ answers' = answers => RowEffect(q)
  BY DEF RowEffect, Adds, Keeps
<1> USE <1>0 DEF At, Goto, Note, rowVars
<1>2. CASE Start(q) \/ Abort(q) \/ Find(q)
  BY <1>1, <1>2 DEF Start, Abort, Find
<1>3. CASE EventStep(q)
  BY <1>1, <1>3 DEF EventStep, CreateEvent, UpdateEvent, ArchiveEvent, OnlyEvents
<1>4. CASE CreateLink(q) \/ UpdateLink(q)
  BY <1>1, <1>4 DEF CreateLink, UpdateLink
<1>5. CASE DeleteLink(q)
  <2> DEFINE t == Job[q].link
  <2>1. fields' = [fields EXCEPT ![t] = {}] /\ answers' = [answers EXCEPT ![t] = [k \in Keys |-> Nobody]]
    BY <1>5 DEF DeleteLink
  <2> HIDE DEF t
  <2> QED BY <2>1 DEF RowEffect, Adds, Keeps
<1>6. CASE UpsertStep(q) \/ RuleStep(q) \/ FieldsBegin(q)
  BY <1>1, <1>6 DEF UpsertStep, RuleStep, UpsertFind, UpsertWrite, FieldsBegin, RulesFind, RulesCommit
<1>7. CASE FieldsCommit(q)
  <2>1. CASE fields' = fields
    BY <1>1, <1>7, <2>1 DEF FieldsCommit
  <2>2. CASE fields' # fields
    <3> DEFINE t == Job[q].link
    <3>1. /\ fields' = [fields EXCEPT ![t] = (fields[t] \ saw[q]) \cup FieldRows(q)]
          /\ pc'[q] = "done" /\ answers' = answers
      BY <1>7, <2>2 DEF FieldsCommit
    <3>2. \A f \in FieldRows(q) : f.by = q
      BY DEF FieldRows
    <3> HIDE DEF t
    <3> QED BY <3>1, <3>2 DEF RowEffect, Adds, Keeps
  <2> QED BY <2>1, <2>2
<1>8. CASE VisitStep(q)
  BY <1>1, <1>8 DEF VisitStep, Resolve, Metadata, Retrieve, Access, Decide
<1>9. CASE AnswerStep(q)
  <2>1. CASE FindRegistrant(q)
    BY <1>1, <2>1 DEF FindRegistrant
  <2>2. CASE SaveDelete(q) \/ SaveCreate(q)
    <3>1. fields' = fields /\ Answering(q)
      BY <2>2 DEF SaveDelete, SaveCreate, Answering
    <3>2. ASSUME NEW l \in Links, l # Job[q].link PROVE answers'[l] = answers[l]
      BY <2>2, <3>2 DEF SaveDelete, SaveCreate
    <3> QED
      BY <3>1, <3>2 DEF RowEffect, Adds, Keeps
  <2>3. CASE EditAnswer(q)
    <3>1. fields' = fields /\ Answering(q)
      BY <2>3 DEF EditAnswer, Answering
    <3>2. ASSUME NEW l \in Links, l # Job[q].link PROVE answers'[l] = answers[l]
      BY <2>3, <3>2 DEF EditAnswer
    <3> QED
      BY <3>1, <3>2 DEF RowEffect, Adds, Keeps
  <2> QED BY <1>9, <2>1, <2>2, <2>3 DEF AnswerStep
<1>10. CASE TemplateStep(q) \/ MessageStep(q)
  BY <1>1, <1>10 DEF TemplateStep, MessageStep, CreateTemplate, UpdateTemplate, SetTemplateType,
              FindTypes, PickTemplate, PickSms, SendText, OnlyMessages
<1> QED
  BY <1>2, <1>3, <1>4, <1>5, <1>6, <1>7, <1>8, <1>9, <1>10 DEF Step, LinkStep, FieldStep

LEMMA StepsOnRequests ==
  ASSUME Typed, NEW q \in Requests, Step(q)
  PROVE  OwnEffect(q)
<1>0. /\ DOMAIN pc = Requests /\ DOMAIN saw = Requests /\ DOMAIN todo = Requests
      /\ DOMAIN before = Requests /\ DOMAIN fields = Links /\ Job[q].link \in Links
  BY JobTyped DEF Typed, TypeOK
<1>1. crowded \subseteq Crowds(q)
  BY DEF Crowds
<1> USE <1>0 DEF At, Goto, Note, rowVars, readVars, history, OwnEffect, Answering, Visiting
<1>2. CASE Start(q) \/ Abort(q)
  BY <1>2 DEF Start, Abort
<1>3. CASE Find(q)
  <2>1. /\ pc'[q] = "refused" \/ (Found(q) /\ pc'[q] = FirstStep(q))
        /\ saw' = saw /\ before' = before /\ \A p \in Requests \ {q} : todo'[p] = todo[p]
        /\ crowded' \in {crowded, Crowds(q)}
    BY <1>3 DEF Find
  <2>2. pc'[q] \notin {"access", "registrant", "save", "failing"}
    BY <2>1 DEF FirstStep
  <2>3. pc'[q] = "edit" => crowded' = Crowds(q)
    <3> SUFFICES ASSUME pc'[q] = "edit" PROVE crowded' = Crowds(q)
      OBVIOUS
    <3>1. Found(q) /\ IsOp(q, {"edit"})
      BY <2>1 DEF FirstStep
    <3> QED BY <1>3, <3>1 DEF Find, IsOp
  <2> QED BY <1>1, <2>1, <2>2, <2>3
<1>4. CASE EventStep(q) \/ LinkStep(q)
  BY <1>4 DEF EventStep, LinkStep, CreateEvent, UpdateEvent, ArchiveEvent, CreateLink,
              UpdateLink, DeleteLink, OnlyEvents
<1>5. CASE UpsertStep(q) \/ FieldStep(q) \/ RuleStep(q)
  BY <1>5 DEF UpsertStep, FieldStep, RuleStep, UpsertFind, UpsertWrite, FieldsBegin, FieldsCommit,
              RulesFind, RulesCommit
<1>6. CASE VisitStep(q)
  <2>1. CASE Access(q)
    <3>1. Place(q)
      BY DEF Typed
    <3> QED
      BY <2>1, <3>1 DEF Access, Place, IsOp
  <2>2. CASE Resolve(q)
    BY <2>2 DEF Resolve
  <2>3. CASE Metadata(q) \/ Retrieve(q) \/ Decide(q)
    BY <2>3 DEF Metadata, Retrieve, Decide
  <2> QED BY <1>6, <2>1, <2>2, <2>3 DEF VisitStep
<1>7. CASE AnswerStep(q)
  <2>1. CASE FindRegistrant(q)
    BY <1>1, <2>1 DEF FindRegistrant
  <2>2. CASE SaveDelete(q)
    BY <2>2 DEF SaveDelete
  <2>3. CASE SaveCreate(q)
    BY <2>3 DEF SaveCreate
  <2>4. CASE EditAnswer(q)
    BY <2>4 DEF EditAnswer
  <2> QED BY <1>7, <2>1, <2>2, <2>3, <2>4 DEF AnswerStep
<1>8. CASE TemplateStep(q) \/ MessageStep(q)
  BY <1>8 DEF TemplateStep, MessageStep, CreateTemplate, UpdateTemplate, SetTemplateType,
              FindTypes, PickTemplate, PickSms, SendText, OnlyMessages
<1> QED
  BY <1>2, <1>3, <1>4, <1>5, <1>6, <1>7, <1>8 DEF Step

LEMMA StepMoves ==
  ASSUME Typed, NEW q \in Requests, Step(q)
  PROVE  pc[q] # "done" /\ \A p \in Requests \ {q} : pc'[p] = pc[p]
<1>1. Moved(q)
  BY OneMoves DEF Typed
<1> QED BY <1>1 DEF Moved, Over, Typed, TypeOK

LEMMA TogetherStep ==
  ASSUME Typed, Together, NEW q \in Requests, Step(q)
  PROVE  Together'
<1>1. /\ crowded \subseteq crowded'
      /\ Answering(q)' => Answering(q) \/ crowded' = Crowds(q)
      /\ \A p \in Requests \ {q} : Answering(p)' <=> Answering(p)
  BY StepsOnRequests, StepMoves DEF OwnEffect, Answering
<1>2. ASSUME NEW p \in Requests \ {q}, Answering(p)', Answering(q)', Job[p].link = Job[q].link
      PROVE  p \in crowded' /\ q \in crowded'
  <2>1. CASE Answering(q)
    BY <1>1, <1>2, <2>1 DEF Together
  <2>2. CASE crowded' = Crowds(q)
    <3>1. p \in Rivals(q)
      BY <1>1, <1>2 DEF Rivals, Answering
    <3> QED BY <2>2, <3>1 DEF Crowds
  <2> QED BY <1>1, <1>2, <2>1, <2>2
<1> SUFFICES ASSUME NEW p \in Requests, NEW o \in Requests, p # o, Answering(p)', Answering(o)',
                    Job[p].link = Job[o].link
             PROVE  p \in crowded' /\ o \in crowded'
  BY DEF Together
<1>3. CASE p = q \/ o = q
  BY <1>2, <1>3
<1>4. CASE p # q /\ o # q
  BY <1>1, <1>4 DEF Together
<1> QED BY <1>3, <1>4

LEMMA SourcesStep ==
  ASSUME Typed, Sources, NEW q \in Requests, Step(q)
  PROVE  Sources'
<1>1. /\ pc[q] # "done" /\ \A p \in Requests \ {q} : pc'[p] = pc[p]
      /\ \A p \in Requests \ {q} : saw'[p] = saw[p]
      /\ Visiting(q)' => saw'[q] \subseteq fields[Job[q].link] \/ (Visiting(q) /\ saw'[q] = saw[q])
      /\ \A l \in Links : Adds(q, l)
      /\ \A p \in Requests \ {q} : Visiting(p)' <=> Visiting(p)
      /\ Job[q].link \in Links
  BY StepsOnRequests, StepsOnRows, StepMoves, JobTyped DEF OwnEffect, RowEffect, Visiting
<1>2. \A f : Source(f) => Source(f)'
  BY <1>1 DEF Source
<1>3. \A l \in Links : \A f \in fields'[l] : Source(f)'
  BY <1>1, <1>2 DEF Sources, Adds, Source
<1>4. \A p \in Requests : Visiting(p)' => \A f \in saw'[p] : Source(f)'
  BY <1>1, <1>2 DEF Sources
<1> QED BY <1>3, <1>4 DEF Sources

LEMMA StandingOther ==
  ASSUME Typed, AnswersInv, NEW q \in Requests, Step(q), NEW p \in Requests \ {q}
  PROVE  Standing(p)'
<1> SUFFICES ASSUME pc'[p] = "save", p \notin crowded'
             PROVE  Bound(p)' /\ Cleared(p)' /\ Ahead(p)'
  BY DEF Standing
<1>1. /\ pc[q] # "done" /\ pc[p] = "save" /\ p \notin crowded
      /\ saw'[p] = saw[p] /\ before'[p] = before[p] /\ todo'[p] = todo[p]
      /\ Job[p].link \in Links /\ Adds(q, Job[p].link) /\ Keeps(q, Job[p].link)
  BY StepsOnRequests, StepsOnRows, StepMoves, JobTyped DEF OwnEffect, RowEffect
<1>2. /\ Bound(p) /\ Cleared(p) /\ Ahead(p) /\ \A f \in saw[p] : Source(f)
      /\ ~ (Answering(q) /\ Job[q].link = Job[p].link)
  BY <1>1 DEF AnswersInv, Standing, Sources, Together, Answering, Visiting
<1>3. Sent(p)' = Sent(p)
  BY <1>1 DEF Sent, Known
<1>4. Cleared(p)'
  BY <1>1, <1>2, <1>3 DEF Cleared
<1>5. Bound(p)'
  <2> SUFFICES ASSUME "delete" \in todo[p], ~ Stale(p)', NEW k \in before[p] \cap Sent(p)
               PROVE  answers'[Job[p].link][k] # Nobody
    BY <1>1, <1>3 DEF Bound
  <2>1. \A f \in saw[p] : f.key \in Sent(p) => f \in fields'[Job[p].link]
    BY <1>1, <1>3 DEF Stale
  <2>2. \A f \in saw[p] : f.by # q
    BY <1>1, <1>2 DEF Source
  <2>3. ~ Stale(p)
    BY <1>1, <2>1, <2>2 DEF Adds, Stale
  <2>4. answers[Job[p].link][k] # Nobody
    BY <1>2, <2>3 DEF Bound
  <2>5. fields'[Job[p].link] # {}
    BY <2>1 DEF Sent, Known
  <2>6. k \in Keys
    BY DEF Typed, TypeOK
  <2> QED
    BY <1>1, <1>2, <2>4, <2>5, <2>6 DEF Keeps
<1> QED BY <1>1, <1>2, <1>4, <1>5 DEF Ahead

LEMMA StandingSelf ==
  ASSUME Typed, AnswersInv, NEW q \in Requests, Step(q)
  PROVE  Standing(q)'
<1>0. /\ DOMAIN pc = Requests /\ DOMAIN todo = Requests /\ DOMAIN before = Requests
      /\ DOMAIN answers = Links /\ Job[q].link \in Links /\ Job[q].keys \subseteq Keys
  BY JobTyped DEF Typed, TypeOK
<1> USE <1>0 DEF At, Goto, Note
<1> SUFFICES ASSUME pc'[q] = "save", q \notin crowded'
             PROVE  Bound(q)' /\ Cleared(q)' /\ Ahead(q)'
  BY DEF Standing
<1>1. (FindRegistrant(q) \/ SaveDelete(q) \/ SaveCreate(q)) /\ q \notin crowded
  BY StepsOnRequests DEF OwnEffect
<1>2. saw' = saw /\ fields' = fields
  BY <1>1 DEF FindRegistrant, SaveDelete, SaveCreate, rowVars
<1>3. Sent(q)' = Sent(q) /\ (Stale(q)' <=> Stale(q))
  BY <1>2 DEF Sent, Known, Stale
<1>4. CASE FindRegistrant(q)
  <2>1. /\ answers' = answers /\ todo'[q] = {"delete"} \cup (IF Sent(q) = {} THEN {} ELSE {"create"})
        /\ before'[q] = {k \in Keys : answers[Job[q].link][k] # Nobody}
    BY <1>4 DEF FindRegistrant, rowVars
  <2> QED
    BY <1>3, <2>1 DEF Bound, Cleared, Ahead
<1>5. CASE SaveDelete(q)
  <2>1. /\ todo'[q] = todo[q] \ {"delete"} /\ before' = before /\ pc[q] = "save"
    BY <1>5 DEF SaveDelete, history
  <2>2. Cleared(q) /\ Ahead(q)
    BY <1>1, <2>1 DEF AnswersInv, Standing
  <2> QED
    BY <1>3, <2>1, <2>2 DEF Bound, Cleared, Ahead
<1>6. CASE SaveCreate(q)
  <2>1. /\ todo'[q] = todo[q] \ {"create"} /\ before' = before /\ pc[q] = "save" /\ todo'[q] # {}
        /\ \A k \in Sent(q) : answers[Job[q].link][k] = Nobody
        /\ ~ Stale(q)
    BY <1>6 DEF SaveCreate, history, Stale
  <2>2. Bound(q) /\ Ahead(q)
    BY <1>1, <2>1 DEF AnswersInv, Standing
  <2> QED
    BY <1>3, <2>1, <2>2 DEF Bound, Cleared, Ahead
<1> QED BY <1>1, <1>4, <1>5, <1>6

LEMMA AnswersStep == Typed /\ AnswersInv /\ [Next]_vars => AnswersInv'
<1> SUFFICES ASSUME Typed, AnswersInv, [Next]_vars PROVE AnswersInv'
  OBVIOUS
<1>1. ASSUME NEW q \in Requests, Step(q) PROVE AnswersInv'
  <2>1. Together' /\ Sources'
    BY <1>1, TogetherStep, SourcesStep DEF AnswersInv
  <2>2. \A p \in Requests : Standing(p)'
    BY <1>1, StandingOther, StandingSelf
  <2> QED BY <2>1, <2>2 DEF AnswersInv
<1>2. CASE UNCHANGED vars
  BY <1>2 DEF AnswersInv, Together, Sources, Standing, Bound, Cleared, Ahead, Stale, Sent, Known,
              Answering, Visiting, Source, vars, rowVars, readVars, history
<1> QED
  BY <1>1, <1>2, NextIsStep

LEMMA UpdateStep ==
  ASSUME Typed, AnswersInv, NEW q \in Requests, [Next]_vars, IsOp(q, {"update"}),
         ~ At(q, "done"), pc'[q] = "done", q \notin crowded, NEW k \in Sent(q)
  PROVE  answers'[Job[q].link][k] = q \/ before[q] \cap Sent(q) = {}
<1>0. /\ DOMAIN pc = Requests /\ DOMAIN todo = Requests /\ DOMAIN answers = Links
      /\ Job[q].link \in Links /\ k \in Keys
  BY JobTyped DEF Typed, TypeOK, Sent
<1>1. Step(q)
  <2>1. PICK p \in Requests : Step(p)
    BY NextIsStep DEF vars, At
  <2> QED
    BY <2>1, StepMoves DEF At
<1>2. SaveDelete(q) \/ SaveCreate(q)
  <2> USE <1>0 DEF At, Goto, IsOp
  <2>0. Place(q)
    BY DEF Typed
  <2>1. ~ (Start(q) \/ Find(q) \/ Abort(q))
    BY <2>0 DEF Start, Find, Abort, Place, Anonymous, Visits
  <2>2. ~ (EventStep(q) \/ LinkStep(q) \/ UpsertStep(q) \/ FieldStep(q) \/ RuleStep(q))
    BY <2>0 DEF EventStep, LinkStep, UpsertStep, FieldStep, RuleStep, CreateEvent, UpdateEvent,
       ArchiveEvent, CreateLink, UpdateLink, DeleteLink, UpsertFind, UpsertWrite, FieldsBegin,
       FieldsCommit, RulesFind, RulesCommit, Place, WriteOps, Saves
  <2>3. ~ VisitStep(q)
    BY DEF VisitStep, Resolve, Metadata, Retrieve, Access, Decide
  <2>4. ~ (FindRegistrant(q) \/ EditAnswer(q))
    BY <2>0 DEF FindRegistrant, EditAnswer, Place
  <2>5. ~ (TemplateStep(q) \/ MessageStep(q))
    BY <2>0 DEF TemplateStep, CreateTemplate, UpdateTemplate, SetTemplateType, MessageStep,
       FindTypes, PickTemplate, PickSms, SendText, Place
  <2> QED
    BY <1>1, <2>1, <2>2, <2>3, <2>4, <2>5 DEF Step, AnswerStep
<1>3. CASE SaveDelete(q)
  <2>1. pc[q] = "save" /\ "create" \notin todo[q]
    BY <1>0, <1>3 DEF SaveDelete, Goto, Note, At
  <2> QED
    BY <2>1 DEF AnswersInv, Standing, Cleared
<1>4. CASE SaveCreate(q)
  <2> DEFINE l == Job[q].link
  <2>1. answers' = [answers EXCEPT ![l] = [x \in Keys |-> IF x \in Sent(q) THEN q ELSE @[x]]]
    BY <1>0, <1>4 DEF SaveCreate, Goto
  <2> HIDE DEF l
  <2>2. answers'[l] = [x \in Keys |-> IF x \in Sent(q) THEN q ELSE answers[l][x]]
    BY <1>0, <2>1 DEF l
  <2> QED BY <1>0, <2>2 DEF l
<1> QED BY <1>2, <1>3, <1>4

(***************************************************************************)
(* A registrant whose update succeeded has the answers that were sent, for *)
(* any fields, whoever edits the form meanwhile; UpdateHolds says when not.*)
(***************************************************************************)
THEOREM UpdatesHold == Spec => UpdateHolds
<1>1. Init => AnswersInv
  <2> SUFFICES ASSUME Init PROVE AnswersInv
    OBVIOUS
  <2>1. /\ \A q \in Requests : pc[q] \in {"idle", "done"}
        /\ \A l \in Links : \A f \in fields[l] : f.by = Past
    BY DEF Init
  <2>2. pc[Past] = "done" /\ Past \in Requests
    BY InitTyped, JobAssumption DEF Typed
  <2> QED
    BY <2>1, <2>2 DEF AnswersInv, Together, Sources, Standing, Answering, Visiting, Source
<1>2. Typed /\ AnswersInv /\ [Next]_vars =>
        [\A q \in Requests :
           LET l == Job[q].link
           IN  /\ IsOp(q, {"update"}) /\ ~ At(q, "done") /\ pc'[q] = "done"
               /\ q \notin crowded /\ link[l].live
               => \/ \A k \in Sent(q) : answers'[l][k] = q
                  \/ before[q] \cap Sent(q) = {}]_vars
  BY UpdateStep
<1> QED
  BY <1>1, <1>2, AnswersStep, AlwaysTyped, PTL DEF Spec, UpdateHolds
==============================================================================
