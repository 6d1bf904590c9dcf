------------------------------ MODULE MCSessions ------------------------------
(***************************************************************************)
(* Small instances of Sessions: organization o1 with its administrator     *)
(* `boss' and a newcomer `new'.                                            *)
(***************************************************************************)
EXTENDS Sessions, TLC

CONSTANTS o1, boss, new, p1, p2, api1, api2, hired, first,
          mkRole, delRole, invite, activate, activate2, bulk, block, unlock,
          mkChief, mkChief2, promote, accept, enter,
          join, wrong1, wrong2, right, other, scan, search, sync, out

Admin == [roles |-> {"ORG_ADMIN"}, org |-> o1]
Super == [roles |-> {"SUPER_ADMIN"}, org |-> NoOrg]

JobOf(op, auth, org, email, role, inv, after, pw) ==
  [op |-> op, process |-> api1, auth |-> auth, org |-> org, email |-> email, role |-> role,
   name |-> "CUSTOM", invite |-> inv, after |-> after, password |-> pw, active |-> FALSE]

Plain(op, auth, email, pw) ==
  JobOf(op, auth, IF op = "login" /\ email = SuperEmail THEN NoOrg ELSE o1,
        email, "ORG_STAFF", invite, Nobody, pw)

(***************************************************************************)
(* `hired' and `first' are the invite and the sign-in of the past.  The    *)
(* roles that mkChief and mkChief2 create are called SUPER_ADMIN; `other'  *)
(* is served by the other process.                                         *)
(***************************************************************************)
AllJobs ==
  (hired :> JobOf("invite", Super, o1, boss, "ORG_ADMIN", invite, Nobody, p1)) @@
  (first :> Plain("login", Admin, boss, p1)) @@
  (mkRole :> Plain("createRole", Admin, boss, p1)) @@
  (delRole :> JobOf("deleteRole", Admin, o1, boss, mkRole, invite, Nobody, p1)) @@
  (invite :> JobOf("invite", Admin, o1, new, mkRole, invite, Nobody, p1)) @@
  (bulk :> JobOf("invite", Super, o1, boss, "ORG_STAFF", invite, invite, p1)) @@
  (activate :> JobOf("activate", Admin, o1, new, mkRole, invite, Nobody, p1)) @@
  (activate2 :> JobOf("activate", Admin, o1, new, mkRole, invite, Nobody, p2)) @@
  (mkChief :> [Plain("createRole", Admin, boss, p1) EXCEPT !.name = "SUPER_ADMIN"]) @@
  (mkChief2 :> [Plain("createRole", Admin, boss, p1) EXCEPT !.name = "SUPER_ADMIN"]) @@
  (promote :> JobOf("invite", Admin, o1, new, mkChief, invite, Nobody, p1)) @@
  (accept :> JobOf("activate", Admin, o1, new, mkChief, promote, Nobody, p2)) @@
  (enter :> JobOf("login", Admin, NoOrg, new, "ORG_STAFF", invite, Nobody, p2)) @@
  (other :> [Plain("login", Admin, boss, p1) EXCEPT !.process = api2]) @@
  (join :> Plain("login", Admin, new, p2)) @@
  (block :> Plain("setActive", Super, new, p1)) @@
  (unlock :> Plain("unlock", Super, boss, p1)) @@
  (wrong1 :> Plain("login", Admin, boss, p2)) @@
  (wrong2 :> Plain("login", Admin, boss, p2)) @@
  (right :> Plain("login", Admin, boss, p1)) @@
  (scan :> Plain("refresh", Admin, boss, p1)) @@
  (search :> Plain("refresh", Admin, boss, p1)) @@
  (sync :> Plain("background", Admin, boss, p1)) @@
  (out :> Plain("logout", Admin, boss, p1))

MCJob == [q \in Requests |-> AllJobs[q]]

Scene(coming, accepted, signedIn, device, processes, env, maxRestarts, maxKills) ==
  [coming |-> coming, accepted |-> accepted, signedIn |-> signedIn, device |-> device,
   processes |-> processes, env |-> env, restarts |-> maxRestarts, kills |-> maxKills]

\* A custom role made, used and deleted; two activations of one invite.
Hiring == {Scene({mkRole, invite, activate, activate2, delRole}, {hired}, Nobody, {},
                 {api1}, TRUE, 1, 0)}

\* A custom role of the super admin's name, and a sign-in by it.
Promoting == {Scene({mkChief, mkChief2, promote, accept, enter, right}, {hired}, Nobody, {},
                    {api1}, FALSE, 1, 0)}

\* A new database, a row of a bulk invitation, a sign-in right after joining.
Joining == {Scene({mkRole, invite, bulk, activate2, block, join}, {}, Nobody, {join},
                  {api1}, TRUE, 0, 0)}

\* A new database and two processes that start together.
Starting == {Scene({other}, {}, Nobody, {}, {api1, api2}, env, 1, 0) : env \in BOOLEAN}

\* Wrong passwords against a sign-in and an unlock.
Guessing == {Scene({wrong1, wrong2, right, unlock}, {hired}, Nobody, {right},
                   {api1}, TRUE, 0, 1)}

\* The tasks of a signed-in scanner.
Scanning == {Scene({scan, search, sync}, {hired}, first, {scan, search, sync},
                   {api1}, TRUE, 0, 0),
             Scene({scan, sync, out}, {hired}, first, {scan, sync, out},
                   {api1}, TRUE, 0, 1)}

AccessScenarios == Hiring \cup Promoting \cup Joining \cup Starting \cup Guessing \cup Scanning
===============================================================================
