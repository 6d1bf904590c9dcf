------------------------------- MODULE Accounts -------------------------------
(***************************************************************************)
(* Users, roles, invites and memberships: OrganizationsService,            *)
(* SuperAdminService and the identity bootstrap that each API process runs *)
(* before it listens.  A step is one awaited database call of a request or *)
(* of a bootstrap; they interleave.  What the schema enforces by its       *)
(* foreign keys is part of the step: an invite keeps its role from being   *)
(* deleted (Restrict), a deleted role takes its memberships with it        *)
(* (Cascade).                                                              *)
(***************************************************************************)
EXTENDS Integers, Policy

CONSTANTS
  Requests, Job,
  Processes,    \* the API processes there may be
  Emails, Orgs, NoOrg, Passwords,
  Nobody,       \* no request, no process, no password, no session
  SuperEmail, SuperPassword,   \* BOOTSTRAP_SUPER_ADMIN_EMAIL, _PASSWORD
  Scenarios     \* which requests may come, and what came before

SystemRoles == {"SUPER_ADMIN", "ORG_ADMIN", "ORG_STAFF"}

\* A system role, or a custom one, named after the request that created it.
RoleIds == SystemRoles \cup Requests

AccountOps == {"invite", "activate", "createRole", "deleteRole", "setActive"}
SessionOps == {"login", "refresh", "background", "logout", "unlock"}

(***************************************************************************)
(* A job names the process that serves it and what its operation needs:    *)
(* the invite an activation uses, the role an invite grants or a deletion  *)
(* is after, the name of a new role, and so on; `after' is the row before  *)
(* it in a bulk invitation.                                                *)
(***************************************************************************)
Jobs == [op: AccountOps \cup SessionOps, process: Processes,
         auth: [roles: SUBSET RoleNames, org: Orgs \cup {NoOrg}],
         org: Orgs \cup {NoOrg}, email: Emails, role: RoleIds, name: RoleNames,
         invite: Requests, after: Requests \cup {Nobody}, password: Passwords,
         active: BOOLEAN]

ASSUME JobAssumption == Job \in [Requests -> Jobs]
ASSUME NobodyAssumption == Nobody \notin Requests \cup Passwords \cup Processes
ASSUME OrgAssumption == NoOrg \notin Orgs
ASSUME RoleAssumption == Requests \cap SystemRoles = {}
ASSUME SuperAssumption == SuperEmail \in Emails /\ SuperPassword \in Passwords

\* Authentication goes by this name alone: a custom role may have any.
NameOf(r) == IF r \in SystemRoles THEN r ELSE Job[r].name

(***************************************************************************)
(* A scenario: the requests to come, the invites accepted in the past, the *)
(* sign-in of the device, if it has one, and which requests are its own;   *)
(* the API processes, and whether the super admin's address and password   *)
(* are in their environment, now and in the past; and bounds on the        *)
(* restarts of the processes and of the app.                               *)
(***************************************************************************)
ASSUME ScenarioAssumption ==
  Scenarios \subseteq [coming: SUBSET Requests, accepted: SUBSET Requests,
                       signedIn: Requests \cup {Nobody}, device: SUBSET Requests,
                       processes: SUBSET Processes, env: BOOLEAN,
                       restarts: Nat, kills: Nat]

\* What is past does not come again, and the device was signed in by a sign-in
\* of a member or, without an organization, of somebody with a role of that name.
ASSUME PastAssumption ==
  \A s \in Scenarios :
    /\ s.accepted \cap s.coming = {}
    /\ s.signedIn \notin s.coming
    /\ s.signedIn # Nobody =>
         LET job == Job[s.signedIn]
         IN  /\ job.op = "login"
             /\ \/ \E i \in s.accepted :
                     /\ job.email = Job[i].email
                     /\ \/ job.org = Job[i].org /\ job.org \in Orgs
                        \/ job.org = NoOrg /\ NameOf(Job[i].role) = "SUPER_ADMIN"
                \/ /\ s.env /\ s.accepted # {}
                   /\ job.org = NoOrg /\ job.email = SuperEmail

VARIABLES
  scenario,
  known, active, password,  \* rows of users: who has one, isActive, passwordHash
  systemRows,  \* rows of roles without an organization, for each name: no unique
               \* index applies to them
  customs,     \* the custom roles there are
  invites,     \* the invite created by each request
  members,     \* rows of user_roles with an organization; the rows of a doubled
               \* system role are not told apart
  bindings,    \* those without: they make SuperEmail super admin
  boot, restarts,         \* the bootstrap of each process
  racedRoles, racedRows,  \* what two bootstraps were about to create at once:
                          \* rows of a role, bindings to a row (history)
  pc, answer

bootVars == <<systemRows, bindings, boot, restarts, racedRoles, racedRows>>
accountVars == <<scenario, known, active, password, customs, invites, members, bootVars>>

Memberships == [user: Emails, role: RoleIds, org: Orgs \cup {NoOrg}]
Granted(i) == [user |-> Job[i].email, role |-> Job[i].role, org |-> Job[i].org]

\* A row is named after the process and the run of it that created the row.
Rows == [by: Processes \cup {Nobody}, run: Nat]
Bindings == [row: Rows, by: Processes \cup {Nobody}, run: Nat]
OldRow == [by |-> Nobody, run |-> 0]

Steps == {"idle", "role", "insert", "upsert", "grant", "users", "invites", "delete",
          "update", "audit",
          "countRead", "countWrite", "refuse", "clear", "issue", "create",
          "find", "revoke", "revokeAll", "respond", "save", "remember", "forget", "done"}
Answers == {"none", "OK", "FORBIDDEN", "BAD_REQUEST", "NOT_FOUND", "UNAUTHORIZED",
            "TOO_MANY_REQUESTS", "ERROR"}

Goto(q, step) == pc' = [pc EXCEPT ![q] = step] /\ UNCHANGED answer
Reply(q, a) == pc' = [pc EXCEPT ![q] = "done"] /\ answer' = [answer EXCEPT ![q] = a]

Up(p) == boot[p].at = "up"
At(q, op, step) == Job[q].op = op /\ pc[q] = step /\ Up(Job[q].process)

(***************************************************************************)
(* The database is new, or holds what earlier runs of the API left there.  *)
(***************************************************************************)
AccountsInit ==
  /\ scenario \in Scenarios
  /\ LET past == scenario.accepted
         old == past # {}
         bound == old /\ scenario.env
     IN  /\ known = {Job[i].email : i \in past} \cup {e \in {SuperEmail} : bound}
         /\ active = known
         /\ password = [e \in Emails |-> IF e \in known THEN SuperPassword
                                         ELSE Nobody]
         /\ systemRows = [r \in SystemRoles |-> {x \in {OldRow} : old}]
         /\ customs = {r \in Requests : \E i \in past : Job[i].role = r}
         /\ bindings = {[row |-> x, by |-> Nobody, run |-> 0] : x \in {y \in {OldRow} : bound}}
         /\ invites = [q \in Requests |-> IF q \in past THEN "accepted" ELSE "none"]
         /\ members = {Granted(i) : i \in past}
  /\ boot = [p \in Processes |->
               [at |-> IF p \in scenario.processes THEN "find" ELSE "off", i |-> 1,
                row |-> OldRow]]
  /\ restarts = 0
  /\ racedRoles = {} /\ racedRows = {}
  /\ pc = [q \in Requests |-> IF q \in scenario.coming THEN "idle" ELSE "done"]
  /\ answer = [q \in Requests |-> "none"]

----------------------------------------------------------------------------
(***************************************************************************)
(* IdentityBootstrapService.onModuleInit, in each process: the system      *)
(* roles are looked up and created one by one, then the super admin and    *)
(* its binding, if the environment names one.  A process serves nothing    *)
(* before it is through; a failure of it ends the process.                 *)
(***************************************************************************)
BootOrder == <<"SUPER_ADMIN", "ORG_ADMIN", "ORG_STAFF">>

BootFrame == UNCHANGED <<scenario, active, password, customs, invites, members, restarts, pc,
                         answer>>
Booting(p, step) == boot[p].at = step
BootTo(p, step) == boot' = [boot EXCEPT ![p].at = step]
RoleOf(p) == BootOrder[boot[p].i]

\* On to the next of the roles or, after the last, to the super admin.
NextRole(p) == IF boot[p].i < 3 THEN boot' = [boot EXCEPT ![p].at = "find", ![p].i = @ + 1]
               ELSE BootTo(p, "user")

\* Faulty: the roles created without looking.
BootFindNever(p) ==
  /\ Booting(p, "find")
  /\ BootTo(p, "create")
  /\ racedRoles' = racedRoles \cup {r \in {RoleOf(p)} :
                      \E o \in Processes : Booting(o, "create") /\ RoleOf(o) = r}
  /\ BootFrame /\ UNCHANGED <<known, systemRows, bindings, racedRows>>

BootFind(p) ==
  /\ Booting(p, "find")
  /\ \/ systemRows[RoleOf(p)] # {} /\ NextRole(p) /\ UNCHANGED racedRoles
     \/ /\ systemRows[RoleOf(p)] = {} /\ BootTo(p, "create")
        /\ racedRoles' = racedRoles \cup {r \in {RoleOf(p)} :
                            \E o \in Processes : Booting(o, "create") /\ RoleOf(o) = r}
  /\ BootFrame /\ UNCHANGED <<known, systemRows, bindings, racedRows>>

BootCreate(p) ==
  /\ Booting(p, "create")
  /\ systemRows' = [systemRows EXCEPT ![RoleOf(p)] = @ \cup {[by |-> p, run |-> restarts]}]
  /\ NextRole(p)
  /\ BootFrame /\ UNCHANGED <<known, bindings, racedRoles, racedRows>>

BootUser(p) ==
  /\ Booting(p, "user")
  /\ \/ ~scenario.env /\ BootTo(p, "up") /\ UNCHANGED <<known, active, password>>
     \/ /\ scenario.env /\ BootTo(p, "role")
        /\ known' = known \cup {SuperEmail}
        /\ active' = active \cup {SuperEmail}
        /\ password' = [password EXCEPT ![SuperEmail] = SuperPassword]
  /\ UNCHANGED <<scenario, customs, invites, members, restarts, pc, answer>>
  /\ UNCHANGED <<systemRows, bindings, racedRoles, racedRows>>

\* findFirst: any one of the rows.  The roles were created before, so there is one.
BootRole(p) ==
  /\ Booting(p, "role")
  /\ \E x \in systemRows["SUPER_ADMIN"] :
       boot' = [boot EXCEPT ![p] = [at |-> "bound", i |-> @.i, row |-> x]]
  /\ BootFrame /\ UNCHANGED <<known, systemRows, bindings, racedRoles, racedRows>>

Bound(x) == \E b \in bindings : b.row = x

BootBound(p) ==
  /\ Booting(p, "bound")
  /\ \/ Bound(boot[p].row) /\ BootTo(p, "up") /\ UNCHANGED racedRows
     \/ /\ ~Bound(boot[p].row) /\ BootTo(p, "bind")
        /\ racedRows' = racedRows \cup {x \in {boot[p].row} :
                            \E o \in Processes : Booting(o, "bind") /\ boot[o].row = x}
  /\ BootFrame /\ UNCHANGED <<known, systemRows, bindings, racedRoles>>

BootBind(p) ==
  /\ Booting(p, "bind")
  /\ bindings' = bindings \cup {[row |-> boot[p].row, by |-> p, run |-> restarts]}
  /\ BootTo(p, "up")
  /\ BootFrame /\ UNCHANGED <<known, systemRows, racedRoles, racedRows>>

(***************************************************************************)
(* A process dies, at any point, and is started again: the requests it was *)
(* serving get no answer.  ServerSide are the steps of the API.            *)
(***************************************************************************)
ServerSide == Steps \ {"idle", "respond", "save", "remember", "forget", "done"}

Served(q, p) == Job[q].process = p /\ pc[q] \in ServerSide

Restart(p) ==
  /\ p \in scenario.processes
  /\ restarts < scenario.restarts
  /\ restarts' = restarts + 1
  /\ boot' = [boot EXCEPT ![p] = [at |-> "find", i |-> 1, row |-> OldRow]]
  /\ answer' = [q \in Requests |-> IF Served(q, p) THEN "ERROR" ELSE answer[q]]
  /\ pc' = [q \in Requests |-> IF Served(q, p) THEN "done" ELSE pc[q]]
  /\ UNCHANGED <<scenario, known, active, password, customs, invites, members>>
  /\ UNCHANGED <<systemRows, bindings, racedRoles, racedRows>>

Boot(p) == \/ BootFind(p) \/ BootCreate(p) \/ BootUser(p) \/ BootRole(p)
           \/ BootBound(p) \/ BootBind(p)

----------------------------------------------------------------------------
(***************************************************************************)
(* POST /org/:orgCode/users/invite.  A row of a bulk invitation is         *)
(* inviteUser again, after the row before it and whatever came of that.    *)
(***************************************************************************)
Untouched == UNCHANGED accountVars

MayStart(q) == Job[q].after # Nobody => pc[Job[q].after] = "done"

\* The role is one of the organization's own or one of those it may see.
Exists(r) == IF r \in SystemRoles THEN systemRows[r] # {} ELSE r \in customs

Offered(q) == /\ Exists(Job[q].role)
              /\ \/ Job[q].role \in {"ORG_ADMIN", "ORG_STAFF"}
                 \/ /\ Job[q].role \in Requests
                    /\ Job[Job[q].role].org = Job[q].org

InviteRole(q) ==
  /\ At(q, "invite", "idle") /\ MayStart(q)
  /\ IF ~CanInviteUsers(Job[q].auth, Job[q].org) THEN Reply(q, "FORBIDDEN")
     ELSE IF ~Offered(q) THEN Reply(q, "BAD_REQUEST")
     ELSE Goto(q, "insert")
  /\ Untouched

\* The foreign key of the invite fails on a role deleted since.
InviteInsert(q) ==
  /\ At(q, "invite", "insert")
  /\ IF Exists(Job[q].role)
     THEN invites' = [invites EXCEPT ![q] = "open"] /\ Goto(q, "audit")
     ELSE Reply(q, "ERROR") /\ UNCHANGED invites
  /\ UNCHANGED <<scenario, known, active, password, customs, members, bootVars>>

\* Seven days pass.
InviteExpires(q) ==
  /\ invites[q] = "open"
  /\ invites' = [invites EXCEPT ![q] = "expired"]
  /\ UNCHANGED <<scenario, known, active, password, customs, members, bootVars, pc, answer>>

(***************************************************************************)
(* POST /org/:orgCode/users/activate.  The user is upserted first; the     *)
(* membership and the acceptance follow together.                          *)
(***************************************************************************)
ActivateRead(q) ==
  /\ At(q, "activate", "idle")
  /\ IF invites[Job[q].invite] = "open" /\ Job[Job[q].invite].org = Job[q].org
     THEN Goto(q, "upsert")
     ELSE Reply(q, "BAD_REQUEST")
  /\ Untouched

ActivateUpsert(q) ==
  /\ At(q, "activate", "upsert")
  /\ LET e == Job[Job[q].invite].email
     IN  /\ known' = known \cup {e}
         /\ active' = active \cup {e}
         /\ password' = [password EXCEPT ![e] = Job[q].password]
  /\ Goto(q, "grant")
  /\ UNCHANGED <<scenario, customs, invites, members, bootVars>>

\* Faulty: the invite closed without the transaction around both writes.
ActivateGrantLater(q) ==
  /\ At(q, "activate", "grant")
  /\ invites' = [invites EXCEPT ![Job[q].invite] = "accepted"]
  /\ Goto(q, "audit")
  /\ UNCHANGED <<scenario, known, active, password, customs, members, bootVars>>

ActivateGrant(q) ==
  /\ At(q, "activate", "grant")
  /\ members' = members \cup {Granted(Job[q].invite)}
  /\ invites' = [invites EXCEPT ![Job[q].invite] = "accepted"]
  /\ Goto(q, "audit")
  /\ UNCHANGED <<scenario, known, active, password, customs, bootVars>>

(***************************************************************************)
(* Custom roles.  A name is unique within the organization; no name is     *)
(* reserved.  An update touches the description only.                      *)
(***************************************************************************)
Taken(q) == \E r \in customs : Job[r].org = Job[q].org /\ Job[r].name = Job[q].name

CreateRole(q) ==
  /\ At(q, "createRole", "idle")
  /\ IF ~CanManageEventSettings(Job[q].auth, Job[q].org) THEN Reply(q, "FORBIDDEN")
     ELSE IF Taken(q) THEN Reply(q, "BAD_REQUEST")
     ELSE Goto(q, "insert")
  /\ Untouched

\* The unique index fails on a name taken since.
CreateRoleInsert(q) ==
  /\ At(q, "createRole", "insert")
  /\ IF Taken(q) THEN Reply(q, "ERROR") /\ UNCHANGED customs
     ELSE customs' = customs \cup {q} /\ Goto(q, "audit")
  /\ UNCHANGED <<scenario, known, active, password, invites, members, bootVars>>

DeleteFind(q) ==
  /\ At(q, "deleteRole", "idle")
  /\ LET r == Job[q].role
     IN  IF ~CanManageEventSettings(Job[q].auth, Job[q].org) THEN Reply(q, "FORBIDDEN")
         ELSE IF r \notin customs THEN Reply(q, "NOT_FOUND")
         ELSE IF Job[r].org # Job[q].org THEN Reply(q, "NOT_FOUND")
         ELSE Goto(q, "users")
  /\ Untouched

DeleteUsers(q) ==
  /\ At(q, "deleteRole", "users")
  /\ IF \E b \in members : b.role = Job[q].role
     THEN Reply(q, "BAD_REQUEST")
     ELSE Goto(q, "invites")
  /\ Untouched

HasInvite(r) == \E i \in Requests : invites[i] # "none" /\ Job[i].role = r

DeleteInvites(q) ==
  /\ At(q, "deleteRole", "invites")
  /\ IF HasInvite(Job[q].role) THEN Reply(q, "BAD_REQUEST") ELSE Goto(q, "delete")
  /\ Untouched

DeleteDelete(q) ==
  /\ At(q, "deleteRole", "delete")
  /\ LET r == Job[q].role
     IN  \/ /\ HasInvite(r) \/ r \notin customs
            /\ Reply(q, "ERROR")
            /\ UNCHANGED <<customs, members>>
         \/ /\ ~HasInvite(r) /\ r \in customs
            /\ customs' = customs \ {r}
            /\ members' = {b \in members : b.role # r}
            /\ Goto(q, "audit")
  /\ UNCHANGED <<scenario, known, active, password, invites, bootVars>>

\* PATCH /super-admin/users/:id
SetActiveRead(q) ==
  /\ At(q, "setActive", "idle")
  /\ IF ~CanCreateOrganization(Job[q].auth) THEN Reply(q, "FORBIDDEN")
     ELSE IF Job[q].email \notin known THEN Reply(q, "NOT_FOUND")
     ELSE Goto(q, "update")
  /\ Untouched

SetActiveUpdate(q) ==
  /\ At(q, "setActive", "update")
  /\ active' = IF Job[q].active THEN active \cup {Job[q].email} ELSE active \ {Job[q].email}
  /\ Goto(q, "audit")
  /\ UNCHANGED <<scenario, known, password, customs, invites, members, bootVars>>

\* audit.write, the last await of each of them.
AccountAudit(q) ==
  /\ Job[q].op \in AccountOps /\ pc[q] = "audit" /\ Up(Job[q].process)
  /\ Reply(q, "OK")
  /\ Untouched

AccountStep(q) ==
  \/ InviteRole(q) \/ InviteInsert(q) \/ InviteExpires(q)
  \/ ActivateRead(q) \/ ActivateUpsert(q) \/ ActivateGrant(q)
  \/ CreateRole(q) \/ CreateRoleInsert(q)
  \/ DeleteFind(q) \/ DeleteUsers(q) \/ DeleteInvites(q) \/ DeleteDelete(q)
  \/ SetActiveRead(q) \/ SetActiveUpdate(q) \/ AccountAudit(q)

----------------------------------------------------------------------------
(***************************************************************************)
(* A member of an organization is somebody who accepted an invite to the   *)
(* role, and who accepted one is a member: whatever activations, failures  *)
(* between the writes of one, and deletions of the role race.  A deleted   *)
(* role would take its memberships with it; what prevents it is that the   *)
(* invite they came from, used or not, keeps the role                      *)
(* (organizations.service.ts:775-793 only looks beforehand).               *)
(***************************************************************************)
MembershipIsInvitation ==
  members = {Granted(i) : i \in {j \in Requests : invites[j] = "accepted"}}

(***************************************************************************)
(* However many processes run the bootstrap, and however often one is cut  *)
(* short and run again: a system role gets a second row, and a row of the  *)
(* super admin's role a second binding, only when two processes stood      *)
(* between the lookup and the creation of it at the same time; no unique   *)
(* index helps, the rows have no organization.  And whatever was doubled,  *)
(* a process that serves has all system roles before it and, if its        *)
(* environment names one, a super admin                                    *)
(* (identity-bootstrap.service.ts:22-49,52-57,75-103).                     *)
(***************************************************************************)
BootOnce ==
  /\ \A r \in SystemRoles : \A x, y \in systemRows[r] : x = y \/ r \in racedRoles
  /\ \A b, c \in bindings : b.row = c.row => b = c \/ b.row \in racedRows
  /\ \A p \in Processes :
       Up(p) => /\ \A r \in SystemRoles : systemRows[r] # {}
                /\ scenario.env => /\ SuperEmail \in known
                                   /\ \E b \in bindings : b.row \in systemRows["SUPER_ADMIN"]
===============================================================================
