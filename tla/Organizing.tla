------------------------------ MODULE Organizing ------------------------------
(***************************************************************************)
(* Events, registration links and what hangs on a link - access settings,  *)
(* form fields, approval rules - as organizers edit them while the public  *)
(* page reads them; the answers of a registrant as the registrant and the  *)
(* desk edit them; message templates as they are edited and used.          *)
(*                                                                         *)
(* A step is one awaited query, or one transaction at its commit; anything *)
(* may happen between two steps of a request, and a request may be cut     *)
(* short.  Rows are told apart by the request that wrote them: the value   *)
(* of a row is what that request asked for.                                *)
(***************************************************************************)
EXTENDS Integers, FiniteSets, Policy

CONSTANTS
  Requests, Job,       \* what may come, and what it asks for
  Past,                \* the request that stands for what was configured before
  Scenarios,           \* which requests may come, and on what they find
  Orgs, Events, OrgOf,
  Links, EventOf, Slugs,
  Keys,                \* keys of form fields and answers
  Secrets, NoSecret,   \* passwords and invite tokens; none given
  Templates,           \* of the organization's messages
  Types, Untyped,      \* message types; a template without one
  Nobody

Keep == -1             \* a date the request does not mention (undefined)
NoDate == 0            \* null
Dates == 1..2
Modes == {"none", "PUBLIC", "INVITE_ONLY", "PASSWORD_PROTECTED"}
EventSlots == {"registrationStartsAt", "registrationEndsAt"}
LinkSlots == {"accessMode", "accessPassword", "allowRegistrantUpdate"}

Saves == {"linkSettings", "eventSettings"}
Ops == Saves \cup {"createEvent", "updateEvent", "archiveEvent",
                   "createLink", "updateLink", "deleteLink", "fields", "rules",
                   "metadata", "resolve", "submit", "update", "retrieve", "edit",
                   "createTemplate", "updateTemplate", "notify", "sms"}
Visits == {"metadata", "resolve", "submit", "update"}
Anonymous == Visits \cup {"retrieve", "notify", "sms"}

(***************************************************************************)
(* `start' and `end' are startsAt and endsAt of an event, opensAt and      *)
(* closesAt of a link, or the registration window of event settings;       *)
(* `status' is the one an updateEvent gives an event, if any;              *)
(* `keys' are the form fields or answers sent, `ruled' says whether there  *)
(* is any rule in the request, `wellFormed' whether the fields or rules it *)
(* lists pass on their own; `offer' is what a visitor names as password    *)
(* and invite token; `type' is the type a template is written for, or that *)
(* of an automated message.                                                *)
(***************************************************************************)
JobRecords ==
  [op: Ops, auth: [roles: SUBSET RoleNames, org: Orgs], event: Events, link: Links,
   start: Dates \cup {Keep, NoDate}, end: Dates \cup {Keep, NoDate},
   status: {"kept", "DRAFT", "PUBLISHED"}, slug: Slugs,
   active: BOOLEAN, mode: Modes, password: Secrets \cup {NoSecret}, updates: BOOLEAN,
   keys: SUBSET Keys, ruled: BOOLEAN, wellFormed: BOOLEAN, offer: Secrets \cup {NoSecret},
   template: Templates, type: Types \cup {Untyped}]

ASSUME JobAssumption == Job \in [Requests -> JobRecords] /\ Past \in Requests
ASSUME OwnerAssumption == /\ OrgOf \in [Events -> Orgs] /\ EventOf \in [Links -> Events]
                          /\ Events \cap Links = {}

\* What stands in the database has dates, or none.
ASSUME PastAssumption == Job[Past].start # Keep /\ Job[Past].end # Keep
ASSUME ScenarioAssumption ==
  Scenarios \subseteq [coming: SUBSET (Requests \ {Past}), live: SUBSET Links,
                       settled: BOOLEAN, ruled: BOOLEAN, asked: SUBSET Keys,
                       answered: SUBSET Keys, written: SUBSET Templates, aborts: Nat]
ASSUME NobodyAssumption == Nobody \notin Requests /\ NoSecret \notin Secrets
                           /\ Untyped \notin Types

VARIABLES
  pc,        \* the await each request stands at
  event,     \* rows of Event
  link,      \* rows of RegistrationLink with their LinkRule
  meta,      \* who wrote each row of MigrationMetadata that holds a setting
  fields,    \* rows of FormField of each link
  rules,     \* saves whose approval rules are stored for each link
  answers,   \* who wrote each RegistrantResponse of the registrant of a link
  template,  \* who wrote each CommunicationTemplate, and is it active
  type,      \* the MigrationMetadata row with the type of each template
  window,    \* the window of its event that an updateEvent read
  saw,       \* the rows of fields or rules a request read
  slots,     \* settings a save has still to write
  exists,    \* did the save find a row for the setting it is about to write
  todo,      \* queries of an updateSubmission, or answers of an edit, to come
  found,     \* templates a message may be made from; the one it is made from
  before,    \* history: keys answered when an updateSubmission began to write
  crowded,   \* history: edits of one registrant or template that overlapped
  begun,     \* history: saves of the settings of a link that began to write;
             \* Nobody stands for a link that was never configured
  settled,   \* history: edits of templates that are complete
  knew,      \* history: those complete when a message looked for its template
  aborts     \* how many requests may still be cut short

rowVars == <<event, link, meta, fields, rules, answers>>
readVars == <<window, saw, slots, exists, todo>>
history == <<before, crowded, begun>>
messageVars == <<template, type, found, settled, knew>>
vars == <<pc, rowVars, readVars, history, messageVars, aborts>>

NoRow == [live |-> FALSE]
EventRow(status, start, end) ==
  [live |-> TRUE, status |-> status, start |-> start, end |-> end]
LinkRow(slug, active, start, end) ==
  [live |-> TRUE, slug |-> slug, active |-> active, start |-> start, end |-> end]

(***************************************************************************)
(* Does a save leave a row for a setting, or delete it.                    *)
(***************************************************************************)
Stores(q, slot) ==
  CASE slot = "accessMode" -> Job[q].mode # "none"
    [] slot = "accessPassword" ->
         Job[q].mode = "PASSWORD_PROTECTED" /\ Job[q].password # NoSecret
    [] slot = "allowRegistrantUpdate" -> Job[q].updates
    [] slot = "registrationStartsAt" -> Job[q].start > 0
    [] slot = "registrationEndsAt" -> Job[q].end > 0

Slots(q) == IF Job[q].op = "eventSettings" THEN EventSlots ELSE LinkSlots
Scope(q) == IF Job[q].op = "eventSettings" THEN Job[q].event ELSE Job[q].link

FieldRows(q) == {[key |-> k, by |-> q] : k \in Job[q].keys}
Stored(q, slot, yes) == IF yes /\ Stores(q, slot) THEN q ELSE Nobody

Init ==
  \E t \in Scenarios :
    /\ pc = [q \in Requests |-> IF q \in t.coming THEN "idle" ELSE "done"]
    /\ event = [e \in Events |->
                  IF \E l \in t.live : EventOf[l] = e
                  THEN EventRow("PUBLISHED", Job[Past].start, Job[Past].end) ELSE NoRow]
    /\ link = [l \in Links |-> IF l \in t.live
                               THEN LinkRow(Job[Past].slug, TRUE, NoDate, NoDate) ELSE NoRow]
    /\ meta = [x \in Events \cup Links |->
                 [slot \in EventSlots \cup LinkSlots |->
                    Stored(Past, slot, t.settled /\ x \in t.live /\ slot \in LinkSlots)]]
    /\ fields = [l \in Links |-> IF l \in t.live
                                 THEN {[key |-> k, by |-> Past] : k \in t.asked} ELSE {}]
    /\ rules = [l \in Links |-> IF t.ruled /\ l \in t.live THEN {Past} ELSE {}]
    /\ answers = [l \in Links |-> [k \in Keys |->
                    IF l \in t.live /\ k \in t.answered THEN Past ELSE Nobody]]
    /\ window = [q \in Requests |-> [start |-> NoDate, end |-> NoDate]]
    /\ saw = [q \in Requests |-> {}]
    /\ slots = [q \in Requests |-> {}]
    /\ exists = [q \in Requests |-> FALSE]
    /\ todo = [q \in Requests |-> {}]
    /\ before = [q \in Requests |-> {}]
    /\ crowded = {}
    /\ begun = [l \in Links |-> {IF t.settled /\ l \in t.live THEN Past ELSE Nobody}]
    /\ template = [x \in Templates |-> [by |-> IF x \in t.written THEN Past ELSE Nobody,
                                        active |-> x \in t.written]]
    /\ type = [x \in Templates |-> IF x \in t.written THEN Job[Past].type ELSE Untyped]
    /\ found = [q \in Requests |-> {}]
    /\ settled = {Past}
    /\ knew = [q \in Requests |-> {}]
    /\ aborts = t.aborts

----------------------------------------------------------------------------
At(q, step) == pc[q] = step
Goto(q, step) == pc' = [pc EXCEPT ![q] = step]
Note(f, q, value) == [f EXCEPT ![q] = value]
IsOp(q, ops) == Job[q].op \in ops

\* A window with a date missing is accepted.
Ordered(start, end) == start > 0 /\ end > 0 => start <= end

(***************************************************************************)
(* assertEventWritePermission and assertWriteAccess of communications, and *)
(* what is checked of the request alone; updateEvent checks the window     *)
(* later, with the row.  updateAttendee asks for attendee operations; the  *)
(* public pages ask for nobody.                                            *)
(***************************************************************************)
Permitted(q) ==
  LET org == OrgOf[Job[q].event]
  IN  CASE IsOp(q, Anonymous) -> TRUE
        [] IsOp(q, {"edit"}) -> CanManageAttendeeOps(Job[q].auth, org)
        [] OTHER -> CanManageEventSettings(Job[q].auth, org)

\* The keys of the fields differ, their limits are in order, their options given.
ValidFields(q) == IsOp(q, {"fields"}) => Job[q].wellFormed

\* A rule has a value where its operator takes one, and only there.
ValidRules(q) == IsOp(q, {"rules"}) => Job[q].wellFormed

Valid(q) ==
  /\ ValidFields(q) /\ ValidRules(q)
  /\ IsOp(q, {"createEvent", "createLink", "updateLink", "eventSettings"}) =>
       Ordered(Job[q].start, Job[q].end)
  /\ IsOp(q, {"linkSettings"}) /\ Job[q].mode = "PASSWORD_PROTECTED" =>
       Job[q].password # NoSecret

Start(q) ==
  /\ At(q, "idle")
  /\ Goto(q, IF ~ Permitted(q) \/ ~ Valid(q) THEN "refused"
             ELSE CASE IsOp(q, Visits) -> "resolve"
                    [] IsOp(q, {"notify"}) -> "types"
                    [] IsOp(q, {"sms"}) -> "sms"
                    [] IsOp(q, {"retrieve"}) -> "retrieve"
                    [] OTHER -> "find")
  /\ UNCHANGED <<rowVars, readVars, history, messageVars, aborts>>

(***************************************************************************)
(* findFirst of the event or the link.                                     *)
(***************************************************************************)
Found(q) ==
  CASE IsOp(q, {"createEvent", "createTemplate"}) -> TRUE
    [] IsOp(q, {"updateTemplate"}) -> template[Job[q].template].by # Nobody
    [] IsOp(q, {"updateEvent", "archiveEvent", "createLink", "eventSettings"}) ->
         event[Job[q].event].live
    [] OTHER -> link[Job[q].link].live /\ EventOf[Job[q].link] = Job[q].event

\* Faulty: the row is not looked at.
MergedBlind(q) == [start |-> Job[q].start, end |-> Job[q].end]

\* The merge of updateEvent: `??' takes the row's date for null as well.
Merged(q) ==
  LET row == event[Job[q].event]
  IN  [start |-> IF Job[q].start > 0 THEN Job[q].start ELSE row.start,
       end |-> IF Job[q].end > 0 THEN Job[q].end ELSE row.end]

FirstStep(q) ==
  CASE IsOp(q, Saves) -> "upsertFind"
    [] IsOp(q, {"fields"}) -> "fieldsBegin"
    [] IsOp(q, {"rules"}) -> "rulesFind"
    [] IsOp(q, {"edit"}) -> IF Job[q].keys = {} THEN "done" ELSE "edit"
    [] IsOp(q, {"createTemplate", "updateTemplate"}) -> "template"
    [] OTHER -> "write"

Rivals(q) ==
  {o \in Requests \ {q} :
     \/ pc[o] \in {"save", "failing", "edit"} /\ Job[o].link = Job[q].link
     \/ pc[o] \in {"template", "type"} /\ Job[o].template = Job[q].template}
Crowds(q) == IF Rivals(q) = {} THEN crowded ELSE crowded \cup Rivals(q) \cup {q}

Find(q) ==
  LET misfit == IsOp(q, {"updateEvent"}) /\ ~ Ordered(Merged(q).start, Merged(q).end)
  IN  /\ At(q, "find")
      /\ Goto(q, IF ~ Found(q) \/ misfit THEN "refused" ELSE FirstStep(q))
      /\ window' = Note(window, q,
           IF IsOp(q, {"updateEvent"}) /\ Found(q)
           THEN [start |-> event[Job[q].event].start, end |-> event[Job[q].event].end]
           ELSE window[q])
      /\ slots' = Note(slots, q, IF IsOp(q, Saves) THEN Slots(q) ELSE {})
      /\ todo' = Note(todo, q, IF IsOp(q, {"edit"}) THEN Job[q].keys ELSE {})
      /\ crowded' = IF IsOp(q, {"edit", "createTemplate", "updateTemplate"}) /\ Found(q)
                    THEN Crowds(q) ELSE crowded
      /\ begun' = [l \in Links |->
           IF IsOp(q, {"linkSettings"}) /\ Found(q) /\ l = Job[q].link
           THEN begun[l] \cup {q} ELSE begun[l]]
      /\ UNCHANGED <<rowVars, saw, exists, before, messageVars, aborts>>

----------------------------------------------------------------------------
(***************************************************************************)
(* Events.                                                                 *)
(***************************************************************************)
Given(date, old) == IF date = Keep THEN old ELSE date

\* Faulty: `undefined' is stored.
DateRaw(date) == date

Date(date) == IF date > 0 THEN date ELSE NoDate

OnlyEvents == UNCHANGED <<link, meta, fields, rules, answers, readVars, history,
                          messageVars, aborts>>

CreateEvent(q) ==
  LET e == Job[q].event
  IN  /\ At(q, "write") /\ IsOp(q, {"createEvent"}) /\ ~ event[e].live
      /\ event' = Note(event, e, EventRow("DRAFT", Date(Job[q].start), Date(Job[q].end)))
      /\ Goto(q, "done")
      /\ OnlyEvents

\* An archived event may be published again.
Status(q, old) == IF Job[q].status = "kept" THEN old ELSE Job[q].status

UpdateEvent(q) ==
  LET row == event[Job[q].event]
  IN  /\ At(q, "write") /\ IsOp(q, {"updateEvent"})
      /\ event' = Note(event, Job[q].event,
           EventRow(Status(q, row.status), Given(Job[q].start, row.start),
                    Given(Job[q].end, row.end)))
      /\ Goto(q, "done")
      /\ OnlyEvents

ArchiveEvent(q) ==
  LET row == event[Job[q].event]
  IN  /\ At(q, "write") /\ IsOp(q, {"archiveEvent"})
      /\ event' = Note(event, Job[q].event, EventRow("ARCHIVED", row.start, row.end))
      /\ Goto(q, "done")
      /\ OnlyEvents

(***************************************************************************)
(* Links: the unique index is on event and slug.                           *)
(***************************************************************************)
Taken(l, slug) ==
  \E o \in Links \ {l} : EventOf[o] = EventOf[l] /\ link[o].live /\ link[o].slug = slug

CreateLink(q) ==
  LET l == Job[q].link
  IN  /\ At(q, "write") /\ IsOp(q, {"createLink"}) /\ ~ link[l].live
      /\ IF Taken(l, Job[q].slug)
         THEN Goto(q, "refused") /\ UNCHANGED link
         ELSE /\ Goto(q, "done")
              /\ link' = Note(link, l, LinkRow(Job[q].slug, TRUE, Date(Job[q].start),
                                                                  Date(Job[q].end)))
      /\ UNCHANGED <<event, meta, fields, rules, answers, readVars, history, messageVars, aborts>>

UpdateLink(q) ==
  LET l == Job[q].link
  IN  /\ At(q, "write") /\ IsOp(q, {"updateLink"})
      /\ IF ~ link[l].live \/ Taken(l, Job[q].slug)
         THEN Goto(q, "refused") /\ UNCHANGED link
         ELSE /\ Goto(q, "done")
              /\ link' = Note(link, l,
                   LinkRow(Job[q].slug, Job[q].active, Given(Job[q].start, link[l].start),
                           Given(Job[q].end, link[l].end)))
      /\ UNCHANGED <<event, meta, fields, rules, answers, readVars, history, messageVars, aborts>>

\* Fields and registrants go with the link, settings and rules stay.
DeleteLink(q) ==
  LET l == Job[q].link
  IN  /\ At(q, "write") /\ IsOp(q, {"deleteLink"})
      /\ Goto(q, IF link[l].live THEN "done" ELSE "refused")
      /\ link' = Note(link, l, NoRow)
      /\ fields' = Note(fields, l, {})
      /\ answers' = Note(answers, l, [k \in Keys |-> Nobody])
      /\ UNCHANGED <<event, meta, rules, readVars, history, messageVars, aborts>>

----------------------------------------------------------------------------
(***************************************************************************)
(* updateLinkSettings and updateEventSettings: one upsertMetadataValue     *)
(* after the other, in the order accessMode, accessPassword,               *)
(* allowRegistrantUpdate; a lookup, then the write it suggests, which      *)
(* throws when another request wrote or deleted the row in between.        *)
(***************************************************************************)
Order == [slot \in EventSlots \cup LinkSlots |->
  CASE slot \in {"accessMode", "registrationStartsAt"} -> 1
    [] slot \in {"accessPassword", "registrationEndsAt"} -> 2
    [] OTHER -> 3]
Current(q) == CHOOSE s \in slots[q] : \A o \in slots[q] : Order[s] <= Order[o]

UpsertFind(q) ==
  LET row == meta[Scope(q)][Current(q)]
      skip == row = Nobody /\ ~ Stores(q, Current(q))
  IN  /\ At(q, "upsertFind")
      /\ exists' = Note(exists, q, row # Nobody)
      /\ slots' = IF skip THEN Note(slots, q, slots[q] \ {Current(q)}) ELSE slots
      /\ Goto(q, IF ~ skip THEN "upsertWrite"
                 ELSE IF slots'[q] = {} THEN "done" ELSE "upsertFind")
      /\ UNCHANGED <<rowVars, window, saw, todo, history, messageVars, aborts>>

\* Faulty: a row is replaced by deleting it and creating another.
UpsertReplace(q) ==
  LET slot == Current(q)
      there == meta[Scope(q)][slot] # Nobody
  IN  /\ At(q, "upsertWrite")
      /\ meta' = [meta EXCEPT ![Scope(q)][slot] =
                    IF Stores(q, slot) /\ ~ there THEN q ELSE Nobody]
      /\ slots' = IF there /\ Stores(q, slot) THEN slots
                  ELSE Note(slots, q, slots[q] \ {slot})
      /\ Goto(q, IF slots'[q] = {} THEN "done" ELSE "upsertFind")
      /\ UNCHANGED <<event, link, fields, rules, answers, window, saw, exists, todo,
                     history, messageVars, aborts>>

UpsertWrite(q) ==
  LET slot == Current(q)
      there == meta[Scope(q)][slot] # Nobody
  IN  /\ At(q, "upsertWrite")
      /\ IF there # exists[q]
         THEN Goto(q, "failed") /\ UNCHANGED <<meta, slots>>
         ELSE /\ meta' = [meta EXCEPT ![Scope(q)][slot] =
                            IF Stores(q, slot) THEN q ELSE Nobody]
              /\ slots' = Note(slots, q, slots[q] \ {slot})
              /\ Goto(q, IF slots'[q] = {} THEN "done" ELSE "upsertFind")
      /\ UNCHANGED <<event, link, fields, rules, answers, window, saw, exists, todo,
                     history, messageVars, aborts>>

(***************************************************************************)
(* updateLinkFormFields: deleteMany and createMany in a transaction.  It   *)
(* deletes the rows its statement sees and skips those that are gone.      *)
(***************************************************************************)
FieldsBegin(q) ==
  /\ At(q, "fieldsBegin")
  /\ saw' = Note(saw, q, fields[Job[q].link])
  /\ Goto(q, "fieldsCommit")
  /\ UNCHANGED <<rowVars, window, slots, exists, todo, history, messageVars, aborts>>

FieldsCommit(q) ==
  LET l == Job[q].link
      rest == fields[l] \ saw[q]
      clash == ~ link[l].live \/ \E f \in rest : f.key \in Job[q].keys
  IN  /\ At(q, "fieldsCommit")
      /\ Goto(q, IF clash /\ Job[q].keys # {} THEN "failed" ELSE "done")
      /\ fields' = IF clash /\ Job[q].keys # {} THEN fields
                   ELSE Note(fields, l, rest \cup FieldRows(q))
      /\ UNCHANGED <<event, link, meta, rules, answers, readVars, history, messageVars, aborts>>

(***************************************************************************)
(* updateLinkApprovalRules: the rows to delete are looked up before the    *)
(* transaction, which throws when one of them is gone.                     *)
(***************************************************************************)
RulesFind(q) ==
  /\ At(q, "rulesFind")
  /\ saw' = Note(saw, q, rules[Job[q].link])
  /\ Goto(q, "rulesCommit")
  /\ UNCHANGED <<rowVars, window, slots, exists, todo, history, messageVars, aborts>>

\* Faulty: rows that are gone are passed over (deleteMany).
RulesCommitLoose(q) ==
  LET l == Job[q].link
      written == IF Job[q].ruled THEN {q} ELSE {}
  IN  /\ At(q, "rulesCommit")
      /\ Goto(q, "done")
      /\ rules' = Note(rules, l, (rules[l] \ saw[q]) \cup written)
      /\ UNCHANGED <<event, link, meta, fields, answers, readVars, history, messageVars, aborts>>

RulesCommit(q) ==
  LET l == Job[q].link
      kept == rules[l] \ saw[q]
      written == IF Job[q].ruled THEN {q} ELSE {}
      gone == ~ (saw[q] \subseteq rules[l])
  IN  /\ At(q, "rulesCommit")
      /\ Goto(q, IF gone THEN "failed" ELSE "done")
      /\ rules' = IF gone THEN rules ELSE Note(rules, l, kept \cup written)
      /\ UNCHANGED <<event, link, meta, fields, answers, readVars, history, messageVars, aborts>>

----------------------------------------------------------------------------
(***************************************************************************)
(* The public page.  The slug must name one active link of an event that   *)
(* is not archived; the clock is any date.                                 *)
(***************************************************************************)
Candidates(slug) ==
  {l \in Links : /\ link[l].live /\ link[l].slug = slug /\ link[l].active
                 /\ event[EventOf[l]].status # "ARCHIVED"}
IsOpen(row, now) ==
  /\ row.start > 0 => row.start <= now
  /\ row.end > 0 => row.end >= now

Resolve(q) ==
  LET l == Job[q].link
      unique == Candidates(Job[q].slug) = {l}
  IN  /\ At(q, "resolve") /\ ~ IsOp(q, {"metadata"})
      /\ \E now \in Dates :
           Goto(q, IF unique /\ IsOpen(link[l], now) THEN "access" ELSE "refused")
      /\ saw' = Note(saw, q, IF unique THEN fields[l] ELSE {})
      /\ UNCHANGED <<rowVars, window, slots, exists, todo, history, messageVars, aborts>>

(***************************************************************************)
(* getPublicLinkMetadata is given the event, in which the slug is unique,  *)
(* and tells everybody about the link, whether it is open or not.          *)
(***************************************************************************)
Metadata(q) ==
  LET inEvent == {l \in Candidates(Job[q].slug) : EventOf[l] = Job[q].event}
  IN  /\ At(q, "resolve") /\ IsOp(q, {"metadata"})
      /\ Goto(q, IF inEvent = {} THEN "refused" ELSE "shown")
      /\ UNCHANGED <<rowVars, readVars, history, messageVars, aborts>>

(***************************************************************************)
(* retrieve asks for reference code and e-mail address only: the link may  *)
(* be closed, but the registrant goes with a link that is deleted.         *)
(***************************************************************************)
Retrieve(q) ==
  /\ At(q, "retrieve")
  /\ Goto(q, IF link[Job[q].link].live THEN "shown" ELSE "refused")
  /\ UNCHANGED <<rowVars, readVars, history, messageVars, aborts>>

(***************************************************************************)
(* getLinkAccessSettings and assertLinkAccess: one query reads all         *)
(* settings of the link.                                                   *)
(***************************************************************************)
Mode(l) == LET by == meta[l]["accessMode"] IN IF by = Nobody THEN "none" ELSE Job[by].mode
Secret(l) ==
  LET by == meta[l]["accessPassword"] IN IF by = Nobody THEN NoSecret ELSE Job[by].password

Admits(mode, secret, offer) ==
  mode \in {"none", "PUBLIC"} \/ (secret # NoSecret /\ offer = secret)

Access(q) ==
  LET l == Job[q].link
      admitted == Admits(Mode(l), Secret(l), Job[q].offer)
      forbidden == IsOp(q, {"update"}) /\ meta[l]["allowRegistrantUpdate"] = Nobody
  IN  /\ At(q, "access")
      /\ Goto(q, IF forbidden \/ ~ admitted THEN "refused"
                 ELSE CASE IsOp(q, {"resolve"}) -> "shown"
                        [] IsOp(q, {"submit"}) -> "decide"
                        [] IsOp(q, {"update"}) -> "registrant")
      /\ UNCHANGED <<rowVars, readVars, history, messageVars, aborts>>

\* The rules a submission is decided by are read after its answers are checked.
Decide(q) ==
  /\ At(q, "decide")
  /\ saw' = Note(saw, q, rules[Job[q].link])
  /\ Goto(q, "shown")
  /\ UNCHANGED <<rowVars, window, slots, exists, todo, history, messageVars, aborts>>

----------------------------------------------------------------------------
(***************************************************************************)
(* The rest of updateSubmission: deleteMany and createMany of the answers  *)
(* are started together, and the request fails as soon as one of them      *)
(* throws.                                                                 *)
(***************************************************************************)
Known(q) == {f.key : f \in saw[q]}
Sent(q) == Job[q].keys \cap Known(q)

FindRegistrant(q) ==
  /\ At(q, "registrant")
  /\ Goto(q, IF link[Job[q].link].live /\ (Job[q].keys \subseteq Known(q) \/ Known(q) = {})
             THEN "save" ELSE "refused")
  /\ todo' = Note(todo, q, {"delete"} \cup (IF Sent(q) = {} THEN {} ELSE {"create"}))
  /\ before' = Note(before, q, {k \in Keys : answers[Job[q].link][k] # Nobody})
  /\ crowded' = IF pc'[q] = "save" THEN Crowds(q) ELSE crowded
  /\ UNCHANGED <<rowVars, window, saw, slots, exists, begun, messageVars, aborts>>

SaveDelete(q) ==
  /\ pc[q] \in {"save", "failing"} /\ "delete" \in todo[q]
  /\ answers' = [answers EXCEPT ![Job[q].link] =
       [k \in Keys |-> IF k \in Known(q) THEN Nobody ELSE @[k]]]
  /\ todo' = Note(todo, q, todo[q] \ {"delete"})
  /\ Goto(q, IF todo'[q] # {} THEN pc[q] ELSE IF At(q, "save") THEN "done" ELSE "failed")
  /\ UNCHANGED <<event, link, meta, fields, rules, window, saw, slots, exists, history, messageVars, aborts>>

\* Faulty: createMany with skipDuplicates.
SaveCreateSkip(q) ==
  LET l == Job[q].link
  IN  /\ At(q, "save") /\ "create" \in todo[q]
      /\ answers' = [answers EXCEPT ![l] =
           [k \in Keys |-> IF k \in Sent(q) /\ @[k] = Nobody THEN q ELSE @[k]]]
      /\ todo' = Note(todo, q, todo[q] \ {"create"})
      /\ Goto(q, IF todo'[q] = {} THEN "done" ELSE "save")
      /\ UNCHANGED <<event, link, meta, fields, rules, window, saw, slots, exists,
                     history, messageVars, aborts>>

SaveCreate(q) ==
  LET l == Job[q].link
      clash == \/ \E k \in Sent(q) : answers[l][k] # Nobody
               \/ \E f \in saw[q] \ fields[l] : f.key \in Sent(q)
  IN  /\ At(q, "save") /\ "create" \in todo[q]
      /\ answers' = IF clash THEN answers
                    ELSE [answers EXCEPT ![l] = [k \in Keys |-> IF k \in Sent(q) THEN q ELSE @[k]]]
      /\ todo' = Note(todo, q, todo[q] \ {"create"})
      /\ Goto(q, IF todo'[q] = {} THEN IF clash THEN "failed" ELSE "done"
                 ELSE IF clash THEN "failing" ELSE "save")
      /\ UNCHANGED <<event, link, meta, fields, rules, window, saw, slots, exists,
                     history, messageVars, aborts>>

(***************************************************************************)
(* updateAttendee: the answers are upserted one by one.                    *)
(***************************************************************************)
EditAnswer(q) ==
  LET l == Job[q].link
  IN  /\ At(q, "edit")
      /\ \E k \in todo[q] :
           /\ IF link[l].live
              THEN answers' = [answers EXCEPT ![l][k] = q]
              ELSE UNCHANGED answers
           /\ todo' = Note(todo, q, todo[q] \ {k})
      /\ Goto(q, IF ~ link[l].live THEN "failed"
                 ELSE IF todo'[q] = {} THEN "done" ELSE "edit")
      /\ UNCHANGED <<event, link, meta, fields, rules, window, saw, slots, exists,
                     history, messageVars, aborts>>

----------------------------------------------------------------------------
(***************************************************************************)
(* Message templates: createTemplate and updateTemplate write the row and, *)
(* in another call, the type.  An update always does: messageType is an    *)
(* own property of its dto, sent or not, and without it the type goes.     *)
(***************************************************************************)
OnlyMessages == UNCHANGED <<rowVars, readVars, history, aborts>>

CreateTemplate(q) ==
  /\ At(q, "template") /\ IsOp(q, {"createTemplate"})
  /\ template[Job[q].template].by = Nobody
  /\ template' = Note(template, Job[q].template, [by |-> q, active |-> TRUE])
  /\ Goto(q, "type")
  /\ OnlyMessages /\ UNCHANGED <<type, found, settled, knew>>

UpdateTemplate(q) ==
  /\ At(q, "template") /\ IsOp(q, {"updateTemplate"})
  /\ template' = Note(template, Job[q].template, [by |-> q, active |-> Job[q].active])
  /\ Goto(q, "type")
  /\ OnlyMessages /\ UNCHANGED <<type, found, settled, knew>>

SetTemplateType(q) ==
  /\ At(q, "type")
  /\ type' = Note(type, Job[q].template, Job[q].type)
  /\ settled' = settled \cup {q}
  /\ Goto(q, "done")
  /\ OnlyMessages /\ UNCHANGED <<template, found, knew>>

(***************************************************************************)
(* findTemplateByMessageType: the templates of the type, then the one that *)
(* was changed last of those that are active.  The text is that of the row *)
(* when the message is sent; a message without a template has a text of    *)
(* its own for each type.                                                  *)
(***************************************************************************)
FindTypes(q) ==
  /\ At(q, "types")
  /\ found' = Note(found, q, {x \in Templates : type[x] = Job[q].type})
  /\ knew' = Note(knew, q, settled)
  /\ Goto(q, IF found'[q] = {} THEN "queued" ELSE "pick")
  /\ OnlyMessages /\ UNCHANGED <<template, type, settled>>

\* Faulty: any active template of the organization will do.
PickAny(q) ==
  /\ At(q, "pick")
  /\ \E x \in Templates : template[x].active /\ found' = Note(found, q, {x})
  /\ Goto(q, "queued")
  /\ OnlyMessages /\ UNCHANGED <<template, type, settled, knew>>

PickTemplate(q) ==
  /\ At(q, "pick")
  /\ LET usable == {x \in found[q] : template[x].active}
     IN  \/ usable = {} /\ found' = Note(found, q, {})
         \/ \E x \in usable : found' = Note(found, q, {x})
  /\ Goto(q, "queued")
  /\ OnlyMessages /\ UNCHANGED <<template, type, settled, knew>>

(***************************************************************************)
(* The SMS to an approved registrant, for which the link's settings name   *)
(* no template: the active one that was changed last, whatever its type;   *)
(* without one there is no message.                                        *)
(***************************************************************************)
PickSms(q) ==
  /\ At(q, "sms")
  /\ LET usable == {x \in Templates : template[x].active}
     IN  \/ usable = {} /\ Goto(q, "done") /\ UNCHANGED found
         \/ /\ \E x \in usable : found' = Note(found, q, {x})
            /\ Goto(q, "queued")
  /\ OnlyMessages /\ UNCHANGED <<template, type, settled, knew>>

SendText(q) ==
  /\ At(q, "queued")
  /\ Goto(q, "sent")
  /\ OnlyMessages /\ UNCHANGED messageVars

----------------------------------------------------------------------------
(***************************************************************************)
(* The process dies, or a query fails for reasons of its own; what was     *)
(* written stays written.                                                  *)
(***************************************************************************)
Over == {"idle", "done", "refused", "failed", "shown", "sent"}

Abort(q) ==
  /\ aborts > 0
  /\ pc[q] \notin Over
  /\ aborts' = aborts - 1
  /\ Goto(q, "failed")
  /\ UNCHANGED <<rowVars, readVars, history, messageVars>>

Next ==
  \E q \in Requests :
    \/ Start(q) \/ Find(q) \/ Abort(q)
    \/ CreateEvent(q) \/ UpdateEvent(q) \/ ArchiveEvent(q)
    \/ CreateLink(q) \/ UpdateLink(q) \/ DeleteLink(q)
    \/ UpsertFind(q) \/ UpsertWrite(q)
    \/ FieldsBegin(q) \/ FieldsCommit(q) \/ RulesFind(q) \/ RulesCommit(q)
    \/ Resolve(q) \/ Metadata(q) \/ Retrieve(q) \/ Access(q) \/ Decide(q)
    \/ FindRegistrant(q) \/ SaveDelete(q) \/ SaveCreate(q) \/ EditAnswer(q)
    \/ CreateTemplate(q) \/ UpdateTemplate(q) \/ SetTemplateType(q)
    \/ FindTypes(q) \/ PickTemplate(q) \/ PickSms(q) \/ SendText(q)

Spec == Init /\ [][Next]_vars

----------------------------------------------------------------------------
Dated == [start: Dates \cup {NoDate}, end: Dates \cup {NoDate}]
FieldRow == [key: Keys, by: Requests]

\* Type invariant.
TypeOK ==
  /\ pc \in [Requests -> Over \cup
       {"find", "write", "upsertFind", "upsertWrite", "fieldsBegin", "fieldsCommit",
        "rulesFind", "rulesCommit", "edit", "resolve", "access", "decide",
        "registrant", "save", "failing", "template", "type", "types", "pick", "sms",
        "queued", "retrieve"}]
  /\ event \in [Events -> {NoRow} \cup
       [live: {TRUE}, status: {"DRAFT", "PUBLISHED", "ARCHIVED"},
        start: Dates \cup {NoDate}, end: Dates \cup {NoDate}]]
  /\ link \in [Links -> {NoRow} \cup
       [live: {TRUE}, slug: Slugs, active: BOOLEAN,
        start: Dates \cup {NoDate}, end: Dates \cup {NoDate}]]
  /\ meta \in [Events \cup Links -> [EventSlots \cup LinkSlots -> Requests \cup {Nobody}]]
  /\ fields \in [Links -> SUBSET FieldRow]
  /\ rules \in [Links -> SUBSET Requests]
  /\ answers \in [Links -> [Keys -> Requests \cup {Nobody}]]
  /\ window \in [Requests -> Dated]
  /\ saw \in [Requests -> (SUBSET FieldRow) \cup (SUBSET Requests)]
  /\ slots \in [Requests -> SUBSET (EventSlots \cup LinkSlots)]
  /\ exists \in [Requests -> BOOLEAN]
  /\ todo \in [Requests -> SUBSET (Keys \cup {"delete", "create"})]
  /\ before \in [Requests -> SUBSET Keys]
  /\ crowded \subseteq Requests
  /\ begun \in [Links -> SUBSET (Requests \cup {Nobody})]
  /\ template \in [Templates -> [by: Requests \cup {Nobody}, active: BOOLEAN]]
  /\ type \in [Templates -> Types \cup {Untyped}]
  /\ found \in [Requests -> SUBSET Templates]
  /\ settled \subseteq Requests /\ knew \in [Requests -> SUBSET Requests]
  /\ aborts \in Nat

(***************************************************************************)
(* The stored settings of a link may mix two saves, or be half of one.     *)
(* Still, whoever the page lets in is somebody that the whole of one save  *)
(* would have let in: at no moment of a save is a link with a password     *)
(* open to those who do not name one.                                      *)
(***************************************************************************)
Intends(s, offer) ==
  \/ s = Nobody
  \/ Admits(Job[s].mode, IF Job[s].mode = "PASSWORD_PROTECTED" THEN Job[s].password
                         ELSE NoSecret, offer)

DoorsStayClosed ==
  [][\A q \in Requests :
       At(q, "access") /\ pc'[q] \in {"shown", "decide", "registrant"} =>
         \E s \in begun[Job[q].link] : Intends(s, Job[q].offer)]_vars

(***************************************************************************)
(* Approval rules of two saves are only ever in force together when one of *)
(* the saves found no rules at all, so that nothing in its transaction     *)
(* told it of the other.                                                   *)
(***************************************************************************)
FoundNone(q) == q # Past /\ saw[q] = {}

RulesOfOneSave ==
  \A l \in Links : \A a, b \in rules[l] : a = b \/ FoundNone(a) \/ FoundNone(b)

(***************************************************************************)
(* A registrant told that the update succeeded has the answers that were   *)
(* sent, unless somebody edited them at the same time or none of the keys  *)
(* had an answer before: only then does nothing stop the insertion from    *)
(* coming first and being deleted.                                         *)
(***************************************************************************)
UpdateHolds ==
  [][\A q \in Requests :
       LET l == Job[q].link
       IN  /\ IsOp(q, {"update"}) /\ ~ At(q, "done") /\ pc'[q] = "done"
           /\ q \notin crowded /\ link[l].live
           => \/ \A k \in Sent(q) : answers'[l][k] = q
              \/ before[q] \cap Sent(q) = {}]_vars

(***************************************************************************)
(* The window of an event is inverted only by an update that was checked   *)
(* against a row another update has changed since.                         *)
(***************************************************************************)
WindowOf(row) == [start |-> row.start, end |-> row.end]

EventWindowHolds ==
  [][\A q \in Requests :
       /\ At(q, "write") /\ pc'[q] = "done" /\ IsOp(q, {"createEvent", "updateEvent"})
       /\ ~ Ordered(event'[Job[q].event].start, event'[Job[q].event].end)
       => /\ IsOp(q, {"updateEvent"})
          /\ window[q] # WindowOf(event[Job[q].event])]_vars

(***************************************************************************)
(* The text of an automated message was written for its type, unless the   *)
(* one who wrote it was not done when the message looked for a template,   *)
(* or edited the template together with somebody else.                     *)
(***************************************************************************)
TextFitsItsType ==
  [][\A q \in Requests :
       IsOp(q, {"notify"}) /\ At(q, "queued") /\ pc'[q] = "sent" =>
         \A x \in found[q] :
           LET author == template[x].by
           IN  author \in knew[q] \ crowded => Job[author].type = Job[q].type]_vars
===============================================================================
