---------------------------- MODULE MCOrganizing ----------------------------
(***************************************************************************)
(* Small instances of Organizing: links l1 and l2 of events e1 and e2 of   *)
(* one organization, both reached under slug s1.                           *)
(***************************************************************************)
EXTENDS Organizing, TLC

CONSTANTS o1, e1, e2, l1, l2, s1, s2, k1, k2, p1, p2, past,
          open, lock, invite, dates, guest, holder,
          rulesA, rulesB, rulesC, applicant,
          starts, ends, both, archive, revive, opening,
          form, formB, answer, answerB, desk, second, rename, later, sooner, remove, staff,
          t1, t2, approval, rejection, draft, retype, retract, notice, refusal,
          sms, about, retrieval, badForm, badRules

Admin == [roles |-> {"ORG_ADMIN"}, org |-> o1]
Staff == [roles |-> {"ORG_STAFF"}, org |-> o1]

Base ==
  [op |-> "resolve", auth |-> Admin, event |-> e1, link |-> l1, start |-> Keep,
   end |-> Keep, status |-> "kept", slug |-> s1, active |-> TRUE, mode |-> "none", password |-> NoSecret,
   updates |-> TRUE, keys |-> {}, ruled |-> FALSE, wellFormed |-> TRUE, offer |-> NoSecret,
   template |-> t1, type |-> approval]

Settings(mode, password) ==
  [Base EXCEPT !.op = "linkSettings", !.mode = mode, !.password = password]
Rules(ruled) == [Base EXCEPT !.op = "rules", !.ruled = ruled]
Visit(op, offer, keys) == [Base EXCEPT !.op = op, !.offer = offer, !.keys = keys]
OfEvent(op, start, end) == [Base EXCEPT !.op = op, !.start = start, !.end = end]
Text(op, template1, type1) == [Base EXCEPT !.op = op, !.template = template1, !.type = type1]
OfLink(op, start, end) == [Base EXCEPT !.op = op, !.start = start, !.end = end, !.slug = s2]

AllJobs ==
  (past :> [Settings("PASSWORD_PROTECTED", p1) EXCEPT !.start = 1, !.end = 2]) @@
  (open :> Settings("PUBLIC", NoSecret)) @@
  (lock :> Settings("PASSWORD_PROTECTED", p2)) @@
  (invite :> [Settings("INVITE_ONLY", NoSecret) EXCEPT !.updates = FALSE]) @@
  (dates :> OfEvent("eventSettings", 1, 2)) @@
  (guest :> Visit("resolve", NoSecret, {})) @@
  (holder :> Visit("resolve", p2, {})) @@
  (rulesA :> Rules(TRUE)) @@ (rulesB :> Rules(TRUE)) @@ (rulesC :> Rules(FALSE)) @@
  (applicant :> Visit("submit", p1, {})) @@
  (starts :> OfEvent("updateEvent", 2, Keep)) @@ (ends :> OfEvent("updateEvent", NoDate, 1)) @@
  (both :> OfEvent("updateEvent", 1, 2)) @@ (archive :> OfEvent("archiveEvent", Keep, Keep)) @@
  (revive :> [OfEvent("updateEvent", Keep, Keep) EXCEPT !.status = "PUBLISHED"]) @@
  (opening :> [OfEvent("createEvent", 1, 2) EXCEPT !.event = e2]) @@
  (form :> Visit("fields", NoSecret, {k2})) @@ (formB :> Visit("fields", NoSecret, {k1})) @@
  (answer :> Visit("update", p1, {k1})) @@ (answerB :> Visit("update", p1, {k1, k2})) @@
  (desk :> Visit("edit", NoSecret, {k1, k2})) @@
  (second :> [Visit("createLink", NoSecret, {}) EXCEPT !.event = e2, !.link = l2]) @@
  (rename :> [OfLink("updateLink", 1, 1) EXCEPT !.event = e2, !.link = l2]) @@
  (later :> OfLink("updateLink", 2, Keep)) @@ (sooner :> OfLink("updateLink", NoDate, 1)) @@
  (remove :> OfLink("deleteLink", Keep, Keep)) @@
  (draft :> Text("createTemplate", t2, approval)) @@
  (retype :> Text("updateTemplate", t1, rejection)) @@
  (retract :> [Text("updateTemplate", t1, Untyped) EXCEPT !.active = FALSE]) @@
  (refusal :> Text("notify", t1, rejection)) @@
  (notice :> Text("notify", t1, approval)) @@
  (sms :> Visit("sms", NoSecret, {})) @@
  (about :> Visit("metadata", NoSecret, {})) @@
  (retrieval :> Visit("retrieve", NoSecret, {})) @@
  (badForm :> [Visit("fields", NoSecret, {k1}) EXCEPT !.wellFormed = FALSE]) @@
  (badRules :> [Rules(TRUE) EXCEPT !.wellFormed = FALSE]) @@
  (staff :> [Settings("PUBLIC", NoSecret) EXCEPT !.auth = Staff])

MCJob == [q \in Requests |-> AllJobs[q]]
MCOrgOf == [e \in Events |-> o1]
MCEventOf == [l \in Links |-> IF l = l1 THEN e1 ELSE e2]

Scene(coming, ruled, asked, answered, maxAborts) ==
  [coming |-> coming, live |-> {l1}, settled |-> TRUE, ruled |-> ruled,
   asked |-> asked, answered |-> answered, written |-> {t1}, aborts |-> maxAborts]

\* Saves of the settings of a protected link, and who comes by.
Doors == {Scene({open, lock, invite, guest, holder}, FALSE, {}, {}, 1),
          Scene({open, lock, staff, holder}, FALSE, {}, {}, 1),
          [Scene({lock, guest, dates}, FALSE, {}, {}, 1) EXCEPT !.settled = FALSE]}

\* Three saves of approval rules, and an applicant.
Ruling == {Scene({rulesA, rulesB, rulesC, applicant}, ruled, {}, {}, 1) : ruled \in BOOLEAN}

\* Half updates of the window of an event; one archived and published again while a
\* visitor comes by; a second event and its link.
Windows == {Scene({starts, ends, both}, FALSE, {}, {}, 1),
            Scene({opening, second, rename, later, archive, holder}, FALSE, {}, {}, 0),
            Scene({ends, archive, revive, holder}, FALSE, {}, {}, 1),
            Scene({second, remove, opening, dates, guest}, FALSE, {}, {}, 0),
            Scene({remove, about, retrieval, later, sooner}, FALSE, {}, {}, 0)}

\* Answers, edited by the registrant and at the desk while the form changes.
Answers ==
  {Scene({answer, answerB, form}, FALSE, {k1}, asked, 1) : asked \in SUBSET {k1}} \cup
  {Scene({answerB, desk, formB}, FALSE, {k1, k2}, {k1}, 1),
   Scene({answer, desk, remove}, FALSE, {k1}, {k1}, 0),
   Scene({answer, badForm, badRules}, TRUE, {k1}, {}, 0),
   Scene({answerB, invite}, FALSE, {k1, k2}, {k2}, 1)}

\* A template is written, two more edits of another, and messages.
Writing == {Scene({draft, retype, notice, refusal}, FALSE, {}, {}, 1),
            Scene({retype, retract, notice, refusal}, FALSE, {}, {}, 1),
            Scene({retract, sms}, FALSE, {}, {}, 1)}

MCScenarios == Writing \cup Doors \cup Ruling \cup Windows \cup Answers
=============================================================================
