----------------------------- MODULE MCDashboard -----------------------------
(***************************************************************************)
(* Small instances of Dashboard: registrants r1 and r2 of organization o1, *)
(* none of o2; the page p1 of an admin of o1, p2 of another, p3 of o2.     *)
(* `rename' takes the code c1 from o1, and `claim' gives it to o2.  The    *)
(* process s2 serves `away', s1 all other requests.                        *)
(***************************************************************************)
EXTENDS Dashboard, TLC

CONSTANTS o1, o2, e1, e2, r1, r2, p1, p2, p3,
          mount, poll, other, abroad, absent, perLink, perCategory, scans, lastScanned,
          full, approved, pending, present, noShow, summary, category, usher,
          outsider, staff, attendees, search, rename, claim, swap, c1, c2, c3, l1, l2, s1, s2, away

Admin(o) == [roles |-> {"ORG_ADMIN"}, org |-> o]
Super == [roles |-> {"SUPER_ADMIN"}, org |-> c1]
Load(o, p) == [op |-> "overview", auth |-> Admin(o), org |-> o, to |-> o,
               event |-> Anything, page |-> p, server |-> s1]
Figures(op) == [Load(c1, p1) EXCEPT !.op = op]
Gives(old, new) == [Load(old, p1) EXCEPT !.op = "rename", !.auth = Super, !.to = new]

AllJobs ==
  (mount :> Load(c1, p1)) @@ (poll :> Load(c1, p1)) @@
  (other :> Load(c1, p2)) @@ (abroad :> Load(c2, p3)) @@
  (absent :> Figures("noShow")) @@
  (perLink :> Figures("links")) @@ (perCategory :> Figures("categories")) @@
  (scans :> [Figures("scans") EXCEPT !.event = e1]) @@ (lastScanned :> Figures("lastScanned")) @@
  (full :> Figures("FULL_REGISTRATION_LIST")) @@ (approved :> Figures("APPROVED_LIST")) @@
  (pending :> Figures("PENDING_LIST")) @@ (present :> Figures("CHECKED_IN_LIST")) @@
  (noShow :> Figures("NO_SHOW_LIST")) @@ (summary :> Figures("EVENT_SUMMARY")) @@
  (category :> Figures("CATEGORY_REPORT")) @@ (usher :> Figures("USHER_SCAN_REPORT")) @@
  (outsider :> [Figures("links") EXCEPT !.auth = Admin(c2)]) @@
  (attendees :> Figures("attendees")) @@
  (search :> [Figures("search") EXCEPT !.auth.roles = {"ORG_STAFF"}]) @@
  (rename :> Gives(c1, c3)) @@ (claim :> Gives(c2, c1)) @@
  (swap :> [Gives(c1, c2) EXCEPT !.auth = Admin(c1)]) @@
  (away :> [Load(c1, p1) EXCEPT !.server = s2]) @@
  (staff :> [Figures("CHECKED_IN_LIST") EXCEPT !.auth.roles = {"ORG_STAFF"}])

MCJob == [q \in Requests |-> AllJobs[q]]
MCFirstCode == (o1 :> c1) @@ (o2 :> c2)
MCOrgOf == [r \in Registrants |-> o1]
MCEventOf == (r1 :> e1) @@ (r2 :> e2)
MCLinkOf == (r1 :> l1) @@ (r2 :> l2)

Opening == [r \in Registrants |-> "APPROVED"]
Fresh == [r \in Registrants |-> IF r = r2 THEN "none" ELSE "APPROVED"]
Undecided == [r \in Registrants |-> IF r = r2 THEN "none" ELSE "PENDING"]

Scenario(coming, status1, writes1, from) ==
  [coming |-> coming, status |-> status1, writes |-> writes1, from |-> from]

\* A page polls, and another of the organization, or of another one, loads
\* meanwhile; figures and exports are computed.
MCScenarios ==
  {Scenario({mount, poll, other}, Undecided, 1, 1), Scenario({mount, poll}, Fresh, 2, 0),
   Scenario({other, away, poll}, Undecided, 1, 1),
   Scenario({mount, poll, abroad}, Undecided, 0, 1),
   Scenario({mount, poll, rename, claim}, Undecided, 0, 1),
   Scenario({mount, claim, swap}, Undecided, 0, 1)} \cup
  {Scenario(coming, status1, 3, 2) :
     coming \in {{absent}, {present}, {perLink, outsider}, {perCategory}, {scans}, {lastScanned},
                 {category}, {full, staff}, {approved}, {pending}, {noShow}, {usher}, {summary},
                 {attendees}, {search, rename}},
     status1 \in {Opening, Fresh}}
=============================================================================
