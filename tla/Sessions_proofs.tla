---------------------------- MODULE Sessions_proofs ---------------------------
(***************************************************************************)
(* Proofs about Accounts and Sessions, for any requests, addresses,        *)
(* organizations and scenarios.                                            *)
(***************************************************************************)
EXTENDS Sessions, TLAPS

LEMMA JobTyped ==
  ASSUME NEW q \in Requests
  PROVE  /\ Job[q].op \in AccountOps \cup SessionOps /\ Job[q].process \in Processes
         /\ Job[q].org \in Orgs \cup {NoOrg}
         /\ Job[q].email \in Emails
         /\ Job[q].role \in RoleIds
         /\ Job[q].invite \in Requests
         /\ Job[q].password \in Passwords
         /\ Granted(q) \in Memberships
<1>1. Job[q] \in Jobs
  BY JobAssumption
<1> QED
  BY <1>1 DEF Jobs, Granted, Memberships

LEMMA ScenarioTyped ==
  ASSUME scenario \in Scenarios
  PROVE  /\ scenario.coming \subseteq Requests /\ scenario.accepted \subseteq Requests
         /\ scenario.signedIn \in Requests \cup {Nobody}
         /\ scenario.device \subseteq Requests
         /\ scenario.processes \subseteq Processes /\ scenario.env \in BOOLEAN
         /\ scenario.restarts \in Nat /\ scenario.kills \in Nat
<1>1. scenario \in [coming: SUBSET Requests, accepted: SUBSET Requests,
                    signedIn: Requests \cup {Nobody}, device: SUBSET Requests,
                    processes: SUBSET Processes, env: BOOLEAN,
                    restarts: Nat, kills: Nat]
  BY ScenarioAssumption
<1> QED
  BY <1>1

\* A request between its first lookup of a refresh token and its last write of one.
Holds(q) == pc[q] \in {"find", "create", "revoke", "revokeAll"} => held[q] \in Tokens

Typed == TypeOK /\ \A q \in Requests : Holds(q)

LEMMA TypedInit == Init => Typed
<1> SUFFICES ASSUME Init PROVE Typed
  OBVIOUS
<1> USE DEF Init, AccountsInit, SessionsInit, Tokens
<1>0. scenario \in Scenarios
  OBVIOUS
<1>1. /\ known \subseteq Emails /\ active \subseteq Emails
      /\ password \in [Emails -> Passwords \cup {Nobody}]
  BY <1>0, JobTyped, ScenarioTyped, SuperAssumption
<1>2. /\ systemRows \in [SystemRoles -> SUBSET Rows] /\ customs \subseteq Requests
      /\ bindings \subseteq Bindings /\ racedRoles \subseteq SystemRoles /\ racedRows \subseteq Rows
  BY DEF Rows, Bindings, OldRow
<1>3. invites \in [Requests -> {"none", "open", "accepted", "expired"}]
  OBVIOUS
<1>4. members \subseteq Memberships
  BY <1>0, JobTyped, ScenarioTyped
<1>5. boot \in [Processes -> [at: {"off", "find", "create", "user", "role", "bound", "bind", "up"},
                             i: 1..3, row: Rows]]
  BY DEF Rows, OldRow
<1>6. restarts \in 0..scenario.restarts /\ kills \in 0..scenario.kills
  BY <1>0, ScenarioTyped
<1>7. pc \in [Requests -> Steps] /\ answer \in [Requests -> Answers]
  BY DEF Steps, Answers
<1>8. /\ failed \in [Emails -> Nat] /\ locked \subseteq Emails /\ wrong \in [Emails -> Nat]
      /\ seen \in [Requests -> Nat] /\ gone \subseteq Requests
      /\ bucket \in [BucketKeys -> 0..Limit]
  BY LimitAssumption
<1>9. /\ token \in [Tokens -> {"none", "live", "revoked", "expired"}]
      /\ owner \in [Tokens -> Emails \cup {Nobody}]
      /\ orgOf \in [Tokens -> Orgs \cup {NoOrg}]
      /\ held \in [Requests -> Tokens \cup {Nobody}]
      /\ stored \in Tokens \cup {Nobody} /\ memory \in Tokens \cup {Nobody}
  BY <1>0, JobTyped, ScenarioTyped
<1>10. \A q \in Requests : Holds(q)
  BY DEF Holds
<1> QED
  BY <1>0, <1>1, <1>2, <1>3, <1>4, <1>5, <1>6, <1>7, <1>8, <1>9, <1>10 DEF Typed, TypeOK

\* What a bootstrap, and the death of a process, do to everything else.
LEMMA BootEffect ==
  ASSUME NEW p \in Processes, Boot(p)
  PROVE  /\ UNCHANGED <<scenario, customs, invites, members, pc, answer>>
         /\ known \subseteq known' /\ bindings \subseteq bindings'
  BY DEF Boot, BootFind, BootCreate, BootUser, BootRole, BootBound, BootBind, BootFrame

LEMMA CrashEffect ==
  ASSUME NEW p \in Processes, Crash(p)
  PROVE  /\ UNCHANGED <<scenario, known, customs, invites, members, systemRows, bindings,
                        racedRoles, racedRows, loginVars, tokenVars, seen, deviceVars>>
         /\ \A q \in Requests :
              \/ pc'[q] = pc[q] /\ answer'[q] = answer[q]
              \/ pc[q] \in ServerSide /\ pc'[q] = "done" /\ answer'[q] = "ERROR"
  BY DEF Crash, Restart, Served

LEMMA TypedBoot ==
  ASSUME Typed, NEW p \in Processes, Boot(p), UNCHANGED sessionVars
  PROVE  Typed'
<1> USE DEF Typed, TypeOK, Holds, sessionVars, loginVars, tokenVars, deviceVars, Tokens, BootTo,
            Booting, NextRole, BootFrame
<1>0. /\ BootOrder[1] \in SystemRoles /\ BootOrder[2] \in SystemRoles /\ BootOrder[3] \in SystemRoles
      /\ boot[p].i \in {1, 2, 3} /\ boot[p].row \in Rows /\ restarts \in Nat
  BY ScenarioTyped DEF BootOrder, SystemRoles
<1>1. RoleOf(p) \in SystemRoles
  BY <1>0 DEF RoleOf
<1>2. CASE BootFind(p)
  BY <1>1, <1>2 DEF BootFind
<1>3. CASE BootCreate(p)
  <2>1. [by |-> p, run |-> restarts] \in Rows
    BY <1>0 DEF Rows
  <2> QED
    BY <1>1, <1>3, <2>1 DEF BootCreate
<1>4. CASE BootUser(p)
  BY <1>4, SuperAssumption DEF BootUser
<1>5. CASE BootRole(p)
  <2>1. PICK x \in systemRows["SUPER_ADMIN"] : boot' = [boot EXCEPT ![p] = [at |-> "bound", i |-> @.i, row |-> x]]
    BY <1>5 DEF BootRole
  <2>2. x \in Rows
    BY <2>1 DEF SystemRoles
  <2> QED
    BY <1>5, <2>1, <2>2 DEF BootRole
<1>6. CASE BootBound(p)
  BY <1>0, <1>6 DEF BootBound
<1>7. CASE BootBind(p)
  <2>1. [row |-> boot[p].row, by |-> p, run |-> restarts] \in Bindings
    BY <1>0 DEF Bindings
  <2> QED
    BY <1>7, <2>1 DEF BootBind
<1> QED
  BY <1>2, <1>3, <1>4, <1>5, <1>6, <1>7 DEF Boot

LEMMA TypedCrash ==
  ASSUME Typed, NEW p \in Processes, Crash(p)
  PROVE  Typed'
<1> USE DEF Typed, TypeOK, Holds, loginVars, tokenVars, deviceVars, Tokens
<1>1. OldRow \in Rows
  BY DEF OldRow, Rows
<1>2. restarts' \in 0..scenario'.restarts /\ scenario' = scenario
  BY ScenarioTyped DEF Crash, Restart
<1>3. bucket' \in [BucketKeys -> 0..Limit]
  BY LimitAssumption DEF Crash
<1>4. /\ pc' \in [Requests -> Steps] /\ answer' \in [Requests -> Answers]
      /\ \A q \in Requests : pc'[q] \in {pc[q], "done"}
  BY DEF Crash, Restart, Served, Steps, Answers
<1> QED
  BY <1>1, <1>2, <1>3, <1>4 DEF Crash, Restart

LEMMA TypedAccount ==
  ASSUME Typed, NEW q \in Requests, AccountStep(q), UNCHANGED sessionVars
  PROVE  Typed'
<1> USE DEF Typed, TypeOK, Holds, sessionVars, loginVars, tokenVars, deviceVars, Tokens,
            At, Goto, Reply, Untouched, accountVars, bootVars, Steps, Answers
<1>1. CASE InviteRole(q)
  BY <1>1 DEF InviteRole
<1>2. CASE InviteInsert(q)
  BY <1>2 DEF InviteInsert
<1>3. CASE InviteExpires(q)
  BY <1>3 DEF InviteExpires
<1>4. CASE ActivateRead(q)
  BY <1>4 DEF ActivateRead
<1>5. CASE ActivateUpsert(q)
  BY <1>5, JobTyped DEF ActivateUpsert
<1>6. CASE ActivateGrant(q)
  BY <1>6, JobTyped DEF ActivateGrant
<1>7. CASE CreateRole(q) \/ CreateRoleInsert(q)
  BY <1>7 DEF CreateRole, CreateRoleInsert
<1>8. CASE DeleteFind(q) \/ DeleteUsers(q) \/ DeleteInvites(q)
  BY <1>8 DEF DeleteFind, DeleteUsers, DeleteInvites
<1>9. CASE DeleteDelete(q)
  BY <1>9 DEF DeleteDelete
<1>10. CASE SetActiveRead(q)
  BY <1>10 DEF SetActiveRead
<1>11. CASE SetActiveUpdate(q)
  BY <1>11, JobTyped DEF SetActiveUpdate
<1>12. CASE AccountAudit(q)
  BY <1>12 DEF AccountAudit
<1> QED
  BY <1>1, <1>2, <1>3, <1>4, <1>5, <1>6, <1>7, <1>8, <1>9, <1>10, <1>11, <1>12 DEF AccountStep

LEMMA TypedLogin ==
  ASSUME Typed, NEW q \in Requests, LoginStep(q)
  PROVE  Typed'
<1> USE DEF Typed, TypeOK, Holds, accountVars, bootVars, sessionVars, loginVars, tokenVars,
            deviceVars,
            Tokens, At, Goto, Reply, Steps, Answers
<1>0. Job[q].email \in Emails /\ Job[q].org \in Orgs \cup {NoOrg} /\ BucketOf(q) \in BucketKeys
  BY JobTyped DEF BucketOf, BucketKeys
<1>1. CASE LoginRead(q)
  <2>1. bucket' = bucket \/ (Admitted(q) /\ Count(q))
    BY <1>1 DEF LoginRead
  <2>2. bucket' \in [BucketKeys -> 0..Limit]
    BY <1>0, <2>1, LimitAssumption DEF Admitted, Count
  <2>3. pc' \in [Requests -> Steps] /\ answer' \in [Requests -> Answers]
    BY <1>1 DEF LoginRead
  <2>4. \A p \in Requests : Holds(p)'
    BY <1>1 DEF LoginRead
  <2> QED
    BY <1>1, <2>2, <2>3, <2>4 DEF LoginRead
<1>2. CASE CountRead(q)
  BY <1>0, <1>2 DEF CountRead
<1>3. CASE CountWrite(q)
  BY <1>0, <1>3 DEF CountWrite
<1>4. CASE LoginRefuse(q)
  BY <1>4 DEF LoginRefuse
<1>5. CASE LoginClear(q)
  BY <1>0, <1>5 DEF LoginClear
<1>6. CASE LoginIssue(q)
  BY <1>0, <1>6 DEF LoginIssue
<1>7. CASE Unlock(q)
  BY <1>0, <1>7 DEF Unlock
<1> QED
  BY <1>1, <1>2, <1>3, <1>4, <1>5, <1>6, <1>7 DEF LoginStep

LEMMA TypedDevice ==
  ASSUME Typed, NEW q \in Requests, DeviceStep(q)
  PROVE  Typed'
<1> USE DEF Typed, TypeOK, Holds, accountVars, bootVars, sessionVars, loginVars, tokenVars,
            deviceVars,
            Tokens, At, Goto, Reply, Steps, Answers
<1>0. BucketOf(q) \in BucketKeys
  BY JobTyped DEF BucketOf, BucketKeys
<1>1. CASE TaskStart(q)
  BY <1>1 DEF TaskStart
<1>2. CASE RefreshFind(q)
  <2>1. bucket' = bucket \/ (Admitted(q) /\ Count(q))
    BY <1>2 DEF RefreshFind
  <2>2. bucket' \in [BucketKeys -> 0..Limit]
    BY <1>0, <2>1, LimitAssumption DEF Admitted, Count
  <2>3. pc' \in [Requests -> Steps] /\ answer' \in [Requests -> Answers]
    BY <1>2 DEF RefreshFind
  <2>4. \A p \in Requests : Holds(p)'
    BY <1>2 DEF RefreshFind
  <2> QED
    BY <1>2, <2>2, <2>3, <2>4 DEF RefreshFind
<1>3. CASE RefreshCreate(q)
  BY <1>3 DEF RefreshCreate
<1>4. CASE RefreshRevoke(q) \/ LogoutRevoke(q)
  BY <1>4 DEF RefreshRevoke, LogoutRevoke
<1>5. CASE SessionAudit(q) \/ Respond(q)
  BY <1>5 DEF SessionAudit, Respond
<1>6. CASE Save(q) \/ Forget(q) \/ Remember(q)
  BY <1>6 DEF Save, Forget, Remember
<1> QED
  BY <1>1, <1>2, <1>3, <1>4, <1>5, <1>6 DEF DeviceStep

LEMMA TypedStep == Typed /\ [Next]_vars => Typed'
<1> SUFFICES ASSUME Typed, [Next]_vars PROVE Typed'
  OBVIOUS
<1> USE DEF Typed, TypeOK, Holds, accountVars, bootVars, sessionVars, loginVars, tokenVars,
            deviceVars,
            Tokens, Goto, Reply
<1>1. ASSUME NEW q \in Requests, CallFails(q) \/ AccountFails(q) PROVE Typed'
  BY <1>1 DEF CallFails, AccountFails, Steps, Answers
<1>2. ASSUME NEW k \in BucketKeys, Window(k) PROVE Typed'
  BY <1>2, LimitAssumption DEF Window
<1>3. ASSUME NEW e \in Emails, LockEnds(e) PROVE Typed'
  BY <1>3 DEF LockEnds
<1>4. ASSUME NEW t \in Tokens, TokenExpires(t) PROVE Typed'
  BY <1>4 DEF TokenExpires
<1>5. CASE Kill
  BY <1>5, ScenarioTyped DEF Kill, Steps, Answers
<1>6. CASE UNCHANGED vars
  BY <1>6 DEF vars
<1> QED
  BY <1>1, <1>2, <1>3, <1>4, <1>5, <1>6, TypedBoot, TypedCrash, TypedAccount, TypedLogin, TypedDevice
  DEF Next

LEMMA TypedAlways == Spec => []Typed
  BY TypedInit, TypedStep, PTL DEF Spec

(***************************************************************************)
(* The shape of the state holds in every behaviour (organizations, auth,   *)
(* bootstrap and the scanner's session).                                   *)
(***************************************************************************)
THEOREM TypeCorrect == Spec => []TypeOK
<1>1. Typed => TypeOK
  BY DEF Typed
<1> QED
  BY <1>1, TypedAlways, PTL

----------------------------------------------------------------------------
(***************************************************************************)
(* Memberships.  The invites accepted and the memberships grow together;   *)
(* what needs saying besides is that a request to invite has no invite     *)
(* before its insert, and that an activation works on one that exists.     *)
(***************************************************************************)
Inviting(q) == Job[q].op = "invite" /\ pc[q] \in {"idle", "insert"} => invites[q] = "none"
Activating(q) ==
  Job[q].op = "activate" /\ pc[q] \in {"upsert", "grant"} => invites[Job[q].invite] # "none"

MembersInv == /\ MembershipIsInvitation
              /\ \A q \in Requests : Inviting(q) /\ Activating(q)

\* A step that leaves both sides alone and brings no request to those points.
Aside == /\ UNCHANGED <<invites, members>>
         /\ \A p \in Requests :
              \/ pc'[p] = pc[p] \/ pc'[p] \notin {"idle", "insert", "upsert", "grant"}
              \/ Job[p].op \notin {"invite", "activate"}

LEMMA MembersAside == MembersInv /\ Aside => MembersInv'
  BY DEF MembersInv, Aside, MembershipIsInvitation, Inviting, Activating

LEMMA MembersInit == Init => MembersInv
<1> SUFFICES ASSUME Init PROVE MembersInv
  OBVIOUS
<1> USE DEF Init, AccountsInit
<1>1. /\ scenario.accepted \subseteq Requests
      /\ \A q \in Requests : q \in scenario.coming => q \notin scenario.accepted
  BY ScenarioTyped, PastAssumption
<1>2. {j \in Requests : invites[j] = "accepted"} = scenario.accepted
  BY <1>1
<1>3. MembershipIsInvitation
  BY <1>2 DEF MembershipIsInvitation
<1> QED
  BY <1>1, <1>3 DEF MembersInv, Inviting, Activating

LEMMA MembersAccount ==
  ASSUME Typed, MembersInv, NEW q \in Requests, AccountStep(q)
  PROVE  MembersInv'
<1> USE DEF At, Goto, Reply, Untouched, accountVars, bootVars
<1>0. /\ invites \in [Requests -> {"none", "open", "accepted", "expired"}]
      /\ pc \in [Requests -> Steps] /\ Job[q].invite \in Requests
  BY JobTyped DEF Typed, TypeOK
<1>1. CASE InviteRole(q)
  BY <1>0, <1>1 DEF InviteRole, MembersInv, Inviting, Activating, MembershipIsInvitation
<1>2. CASE InviteInsert(q)
  <2>1. CASE invites' = [invites EXCEPT ![q] = "open"] /\ pc' = [pc EXCEPT ![q] = "audit"]
    <3>1. invites[q] = "none"
      BY <1>2 DEF InviteInsert, MembersInv, Inviting
    <3>2. {j \in Requests : invites'[j] = "accepted"} = {j \in Requests : invites[j] = "accepted"}
      BY <1>0, <2>1, <3>1
    <3>3. members' = members
      BY <1>2 DEF InviteInsert
    <3> QED
      BY <1>0, <1>2, <2>1, <3>1, <3>2, <3>3
      DEF MembersInv, Inviting, Activating, MembershipIsInvitation
  <2>2. CASE UNCHANGED invites /\ pc' = [pc EXCEPT ![q] = "done"]
    BY <1>0, <1>2, <2>2, MembersAside DEF InviteInsert, Aside
  <2> QED
    BY <1>2, <2>1, <2>2 DEF InviteInsert
<1>3. CASE InviteExpires(q)
  <2>1. {j \in Requests : invites'[j] = "accepted"} = {j \in Requests : invites[j] = "accepted"}
    BY <1>0, <1>3 DEF InviteExpires
  <2> QED
    BY <1>0, <1>3, <2>1 DEF InviteExpires, MembersInv, Inviting, Activating, MembershipIsInvitation
<1>4. CASE ActivateRead(q)
  BY <1>0, <1>4 DEF ActivateRead, MembersInv, Inviting, Activating, MembershipIsInvitation
<1>5. CASE ActivateUpsert(q)
  BY <1>0, <1>5 DEF ActivateUpsert, MembersInv, Inviting, Activating, MembershipIsInvitation
<1>6. CASE ActivateGrant(q)
  <2> DEFINE i == Job[q].invite
  <2>1. invites[i] # "none"
    BY <1>6 DEF ActivateGrant, MembersInv, Activating
  <2>2. {j \in Requests : invites'[j] = "accepted"}
          = {j \in Requests : invites[j] = "accepted"} \cup {i}
    BY <1>0, <1>6 DEF ActivateGrant
  <2>3. MembershipIsInvitation'
    BY <1>6, <2>2 DEF ActivateGrant, MembersInv, MembershipIsInvitation
  <2> QED
    BY <1>0, <1>6, <2>1, <2>3 DEF ActivateGrant, MembersInv, Inviting, Activating
<1>7. CASE CreateRole(q) \/ CreateRoleInsert(q) \/ DeleteFind(q) \/ DeleteUsers(q) \/ DeleteInvites(q)
  BY <1>0, <1>7, MembersAside DEF CreateRole, CreateRoleInsert, DeleteFind, DeleteUsers,
                                  DeleteInvites, Aside
<1>8. CASE DeleteDelete(q)
  <2>1. members' = members
    <3>1. CASE ~HasInvite(Job[q].role) /\ members' = {b \in members : b.role # Job[q].role}
      <4>1. \A b \in members : b.role # Job[q].role
        BY <3>1 DEF HasInvite, MembersInv, MembershipIsInvitation, Granted
      <4> QED
        BY <3>1, <4>1
    <3> QED
      BY <1>8, <3>1 DEF DeleteDelete
  <2> QED
    BY <1>0, <1>8, <2>1, MembersAside DEF DeleteDelete, Aside
<1>9. CASE SetActiveRead(q) \/ SetActiveUpdate(q) \/ AccountAudit(q)
  BY <1>0, <1>9, MembersAside DEF SetActiveRead, SetActiveUpdate, AccountAudit, Aside
<1> QED
  BY <1>1, <1>2, <1>3, <1>4, <1>5, <1>6, <1>7, <1>8, <1>9 DEF AccountStep

LEMMA MembersStep == Typed /\ MembersInv /\ [Next]_vars => MembersInv'
<1> SUFFICES ASSUME Typed, MembersInv, [Next]_vars PROVE MembersInv'
  OBVIOUS
<1> USE DEF accountVars, bootVars, Goto, Reply, At
<1>0. pc \in [Requests -> Steps]
  BY DEF Typed, TypeOK
<1>1. ASSUME NEW p \in Processes, Boot(p) \/ Crash(p) PROVE MembersInv'
  BY <1>1, BootEffect, CrashEffect, MembersAside DEF Aside
<1>2. ASSUME NEW q \in Requests, LoginStep(q) PROVE MembersInv'
  BY <1>0, <1>2, MembersAside
  DEF LoginStep, LoginRead, CountRead, CountWrite, LoginRefuse, LoginClear, LoginIssue, Unlock,
      Aside
<1>3. ASSUME NEW q \in Requests, DeviceStep(q) PROVE MembersInv'
  BY <1>0, <1>3, MembersAside
  DEF DeviceStep, TaskStart, RefreshFind, RefreshCreate, RefreshRevoke, LogoutRevoke,
      SessionAudit, Respond, Save, Forget, Remember, Aside
<1>4. ASSUME NEW q \in Requests, CallFails(q) \/ AccountFails(q) PROVE MembersInv'
  BY <1>0, <1>4, MembersAside DEF CallFails, AccountFails, Aside
<1>5. ASSUME NEW k, Window(k) \/ LockEnds(k) \/ TokenExpires(k) PROVE MembersInv'
  BY <1>5, MembersAside DEF Window, LockEnds, TokenExpires, Aside
<1>6. CASE Kill
  BY <1>0, <1>6, MembersAside DEF Kill, Aside
<1>7. CASE UNCHANGED vars
  BY <1>7, MembersAside DEF vars, Aside
<1> QED
  BY <1>1, <1>2, <1>3, <1>4, <1>5, <1>6, <1>7, MembersAccount DEF Next

LEMMA MembersAlways == Spec => []MembersInv
  BY TypedAlways, MembersInit, MembersStep, PTL DEF Spec

(***************************************************************************)
(* Memberships are the accepted invites, whatever activations, failures    *)
(* and deletions of roles race (organizations.service.ts:262, 775).        *)
(***************************************************************************)
THEOREM MembersAreInvited == Spec => []MembershipIsInvitation
<1>1. MembersInv => MembershipIsInvitation
  BY DEF MembersInv
<1> QED
  BY <1>1, MembersAlways, PTL

----------------------------------------------------------------------------
(***************************************************************************)
(* The bootstrap.  What it has seen of the roles stays true while it goes  *)
(* on: nothing else creates or deletes a system role.                      *)
(***************************************************************************)
Present == \A r \in SystemRoles : systemRows[r] # {}

OneRow == \A r \in SystemRoles : \A x, y \in systemRows[r] : x = y \/ r \in racedRoles
OneBinding == \A b, c \in bindings : b.row = c.row => b = c \/ b.row \in racedRows
BoundRows == \A b \in bindings : b.row \in systemRows["SUPER_ADMIN"]

\* What process p has seen.
Looked(p) ==
  /\ boot[p].at \in {"find", "create"} =>
       \A j \in 1..3 : j < boot[p].i => systemRows[BootOrder[j]] # {}
  /\ boot[p].at = "create" => systemRows[RoleOf(p)] = {} \/ RoleOf(p) \in racedRoles
  /\ boot[p].at \in {"user", "role", "bound", "bind", "up"} => Present
  /\ boot[p].at \in {"role", "bound", "bind"} => SuperEmail \in known
  /\ boot[p].at \in {"bound", "bind"} => boot[p].row \in systemRows["SUPER_ADMIN"]
  /\ boot[p].at = "bind" => ~Bound(boot[p].row) \/ boot[p].row \in racedRows
  /\ boot[p].at = "up" /\ scenario.env => SuperEmail \in known /\ bindings # {}

\* Two processes between lookup and creation of the same row.
Raced(p, o) ==
  /\ boot[p].at = "create" /\ boot[o].at = "create" /\ RoleOf(p) = RoleOf(o)
       => RoleOf(p) \in racedRoles
  /\ boot[p].at = "bind" /\ boot[o].at = "bind" /\ boot[p].row = boot[o].row
       => boot[p].row \in racedRows

BootInv ==
  /\ OneRow /\ OneBinding /\ BoundRows
  /\ \A p \in Processes : Looked(p)
  /\ \A p, o \in Processes : p # o => Raced(p, o)

BootSame == /\ UNCHANGED <<scenario, systemRows, bindings, boot, racedRoles, racedRows>>
            /\ known \subseteq known'

LEMMA BootAside == BootInv /\ BootSame => BootInv'
  BY DEF BootInv, BootSame, OneRow, OneBinding, BoundRows, Looked, Raced, Present, RoleOf, Bound

LEMMA BootRoles ==
  /\ BootOrder[1] = "SUPER_ADMIN" /\ BootOrder[2] = "ORG_ADMIN" /\ BootOrder[3] = "ORG_STAFF"
  /\ SystemRoles = {BootOrder[1], BootOrder[2], BootOrder[3]}
  BY DEF BootOrder, SystemRoles

LEMMA BootInit == Init => BootInv
<1> SUFFICES ASSUME Init PROVE BootInv
  OBVIOUS
<1> USE DEF Init, AccountsInit
<1>1. OneRow /\ OneBinding
  BY DEF OneRow, OneBinding
<1>2. BoundRows
  BY DEF BoundRows, SystemRoles
<1>3. \A p \in Processes : boot[p].at \in {"off", "find"} /\ boot[p].i = 1
  OBVIOUS
<1> QED
  BY <1>1, <1>2, <1>3 DEF BootInv, Looked, Raced

\* A process that has seen all it needs before, of rows that do not go.
LEMMA BootOther ==
  ASSUME Typed, NEW o \in Processes, Looked(o), scenario' = scenario, known \subseteq known',
         boot'[o] = boot[o],
         \A r \in SystemRoles : systemRows[r] \subseteq systemRows'[r],
         bindings \subseteq bindings', racedRoles \subseteq racedRoles', racedRows \subseteq racedRows',
         boot[o].at = "create" => systemRows'[RoleOf(o)] = {} \/ RoleOf(o) \in racedRoles',
         boot[o].at = "bind" => ~Bound(boot[o].row)' \/ boot[o].row \in racedRows'
  PROVE  Looked(o)'
<1>1. \A j \in 1..3 : systemRows[BootOrder[j]] # {} => systemRows'[BootOrder[j]] # {}
  BY BootRoles
<1>2. Present => Present'
  BY DEF Present
<1>3. \A x : x \in systemRows["SUPER_ADMIN"] => x \in systemRows'["SUPER_ADMIN"]
  BY DEF SystemRoles
<1> QED
  BY <1>1, <1>2, <1>3 DEF Looked, RoleOf, Bound

LEMMA BootMove ==
  ASSUME Typed, BootInv, NEW p \in Processes,
         scenario' = scenario, known \subseteq known',
         \A o \in Processes \ {p} : boot'[o] = boot[o],
         \A r \in SystemRoles : systemRows[r] \subseteq systemRows'[r],
         bindings \subseteq bindings', racedRoles \subseteq racedRoles', racedRows \subseteq racedRows',
         OneRow', OneBinding', BoundRows',
         \A o \in Processes \ {p} : boot[o].at = "create" =>
           systemRows'[RoleOf(o)] = {} \/ RoleOf(o) \in racedRoles',
         \A o \in Processes \ {p} : boot[o].at = "bind" =>
           ~Bound(boot[o].row)' \/ boot[o].row \in racedRows',
         Looked(p)', \A o \in Processes \ {p} : Raced(p, o)'
  PROVE  BootInv'
<1>1. ASSUME NEW o \in Processes \ {p} PROVE Looked(o)'
  <2>1. Looked(o) /\ boot'[o] = boot[o]
    BY DEF BootInv
  <2>2. boot[o].at = "create" => systemRows'[RoleOf(o)] = {} \/ RoleOf(o) \in racedRoles'
    OBVIOUS
  <2>3. boot[o].at = "bind" => ~Bound(boot[o].row)' \/ boot[o].row \in racedRows'
    OBVIOUS
  <2> QED
    BY <2>1, <2>2, <2>3, BootOther
<1>2. ASSUME NEW o \in Processes, NEW u \in Processes, o # u PROVE Raced(o, u)'
  <2>1. CASE o # p /\ u # p
    BY <1>2, <2>1 DEF BootInv, Raced, RoleOf
  <2>2. CASE o = p
    BY <1>2, <2>2
  <2>3. CASE u = p
    BY <1>2, <2>3 DEF Raced
  <2> QED
    BY <2>1, <2>2, <2>3
<1> QED
  BY <1>1, <1>2 DEF BootInv

LEMMA BootBoot ==
  ASSUME Typed, BootInv, NEW p \in Processes, Boot(p)
  PROVE  BootInv'
<1> USE DEF BootTo, Booting, BootFrame
<1>0. /\ boot \in [Processes -> [at: {"off", "find", "create", "user", "role", "bound", "bind", "up"},
                                 i: 1..3, row: Rows]]
      /\ systemRows \in [SystemRoles -> SUBSET Rows]
      /\ boot[p].i \in {1, 2, 3} /\ RoleOf(p) \in SystemRoles /\ RoleOf(p) = BootOrder[boot[p].i]
      /\ scenario.env \in BOOLEAN
  BY BootRoles, ScenarioTyped DEF Typed, TypeOK, RoleOf
<1>1. Looked(p) /\ \A o \in Processes : Looked(o) /\ (o # p => Raced(p, o) /\ Raced(o, p))
  BY DEF BootInv
<1>2. \A o \in Processes \ {p} : boot'[o] = boot[o]
  BY <1>0 DEF Boot, BootFind, BootCreate, BootUser, BootRole, BootBound, BootBind, NextRole
<1>3. CASE BootFind(p)
  <2>1. /\ UNCHANGED <<scenario, known, systemRows, bindings, racedRows>>
        /\ racedRoles \subseteq racedRoles'
    BY <1>3 DEF BootFind
  <2>2. OneRow' /\ OneBinding' /\ BoundRows'
    BY <2>1 DEF BootInv, OneRow, OneBinding, BoundRows
  <2>3. Looked(p)' /\ \A o \in Processes \ {p} : Raced(p, o)'
    <3>1. CASE systemRows[RoleOf(p)] # {} /\ NextRole(p)
      <4>1. CASE boot[p].i < 3
        <5>1. boot'[p].at = "find" /\ boot'[p].i = boot[p].i + 1
          BY <1>0, <3>1, <4>1 DEF NextRole
        <5>2. \A j \in 1..3 : j < boot[p].i + 1 => systemRows[BootOrder[j]] # {}
          BY <1>0, <1>1, <1>3, <3>1 DEF Looked, BootFind
        <5> QED
          BY <2>1, <5>1, <5>2 DEF Looked, Raced
      <4>2. CASE boot[p].i = 3
        <5>1. boot'[p].at = "user"
          BY <1>0, <3>1, <4>2 DEF NextRole
        <5>2. \A j \in 1..3 : systemRows[BootOrder[j]] # {}
          BY <1>0, <1>1, <1>3, <3>1, <4>2 DEF Looked, BootFind
        <5>3. Present
          BY <5>2, BootRoles DEF Present
        <5> QED
          BY <2>1, <5>1, <5>3 DEF Looked, Raced, Present
      <4> QED
        BY <1>0, <4>1, <4>2
    <3>2. CASE /\ systemRows[RoleOf(p)] = {} /\ boot' = [boot EXCEPT ![p].at = "create"]
               /\ racedRoles' = racedRoles \cup {r \in {RoleOf(p)} :
                      \E o \in Processes : boot[o].at = "create" /\ RoleOf(o) = r}
      <4>1. boot'[p].at = "create" /\ boot'[p].i = boot[p].i
        BY <1>0, <3>2
      <4>2. Looked(p)'
        BY <1>1, <1>3, <2>1, <3>2, <4>1 DEF Looked, RoleOf, BootFind
      <4>3. ASSUME NEW o \in Processes \ {p} PROVE Raced(p, o)'
        BY <1>2, <3>2, <4>1 DEF Raced, RoleOf
      <4> QED
        BY <4>2, <4>3
    <3> QED
      BY <1>3, <3>1, <3>2 DEF BootFind
  <2>4. \A o \in Processes : Looked(o)
    BY DEF BootInv
  <2> QED
    BY <1>2, <2>1, <2>2, <2>3, <2>4, BootMove DEF Looked, Bound
<1>4. CASE BootCreate(p)
  <2> DEFINE r == RoleOf(p)
             x == [by |-> p, run |-> restarts]
  <2>1. /\ UNCHANGED <<scenario, known, bindings, racedRoles, racedRows>>
        /\ systemRows' = [systemRows EXCEPT ![r] = @ \cup {x}] /\ NextRole(p)
    BY <1>4 DEF BootCreate
  <2>2. \A t \in SystemRoles : systemRows'[t] = IF t = r THEN systemRows[t] \cup {x} ELSE systemRows[t]
    BY <1>0, <2>1
  <2>3. systemRows[r] = {} \/ r \in racedRoles
    BY <1>1, <1>4 DEF Looked, BootCreate
  <2>4. OneRow'
    BY <2>1, <2>2, <2>3 DEF BootInv, OneRow
  <2>5. OneBinding' /\ BoundRows'
    BY <2>1, <2>2 DEF BootInv, OneBinding, BoundRows, SystemRoles
  <2>6. ASSUME NEW o \in Processes \ {p}, boot[o].at = "create"
        PROVE  systemRows'[RoleOf(o)] = {} \/ RoleOf(o) \in racedRoles'
    <3>1. RoleOf(o) \in SystemRoles /\ (systemRows[RoleOf(o)] = {} \/ RoleOf(o) \in racedRoles)
      BY <1>0, <1>1, <2>6, BootRoles DEF Looked, RoleOf
    <3>2. RoleOf(o) = r => r \in racedRoles
      BY <1>1, <1>4, <2>6 DEF Raced, BootCreate
    <3> QED
      BY <2>1, <2>2, <3>1, <3>2
  <2>7. ASSUME NEW o \in Processes \ {p}, boot[o].at = "bind"
        PROVE  ~Bound(boot[o].row)' \/ boot[o].row \in racedRows'
    BY <1>1, <1>2, <2>1, <2>7 DEF Looked, Bound
  <2>8. Looked(p)' /\ \A o \in Processes \ {p} : Raced(p, o)'
    <3> DEFINE i == boot[p].i
    <3>0. \A j \in 1..3 : j < i + 1 => systemRows'[BootOrder[j]] # {}
      <4> SUFFICES ASSUME NEW j \in 1..3, j < i + 1 PROVE systemRows'[BootOrder[j]] # {}
        OBVIOUS
      <4>1. BootOrder[j] \in SystemRoles /\ i \in 1..3
        BY <1>0, BootRoles
      <4>2. CASE j = i
        BY <2>2, <4>1, <4>2 DEF RoleOf
      <4>3. CASE j # i
        <5>1. systemRows[BootOrder[j]] # {}
          BY <1>1, <1>4, <4>1, <4>3 DEF Looked, BootCreate
        <5> QED
          BY <2>2, <4>1, <5>1
      <4> QED
        BY <4>2, <4>3
    <3>1. CASE boot[p].i < 3
      <4>1. boot'[p].at = "find" /\ boot'[p].i = boot[p].i + 1
        BY <1>0, <2>1, <3>1 DEF NextRole
      <4>2. \A j \in 1..3 : j < boot[p].i + 1 => systemRows'[BootOrder[j]] # {}
        BY <3>0
      <4> QED
        BY <4>1, <4>2 DEF Looked, Raced
    <3>2. CASE boot[p].i = 3
      <4>1. boot'[p].at = "user"
        BY <1>0, <2>1, <3>2 DEF NextRole
      <4>2. \A j \in 1..3 : systemRows'[BootOrder[j]] # {}
        BY <3>0, <3>2
      <4>3. Present'
        BY <4>2, BootRoles DEF Present
      <4> QED
        BY <4>1, <4>3 DEF Looked, Raced
    <3> QED
      BY <1>0, <3>1, <3>2
  <2>9. \A t \in SystemRoles : systemRows[t] \subseteq systemRows'[t]
    BY <2>2
  <2> HIDE DEF r, x
  <2> QED
    BY <1>2, <2>1, <2>4, <2>5, <2>6, <2>7, <2>8, <2>9, BootMove
<1>5. CASE BootUser(p) \/ BootRole(p)
  <2>1. /\ UNCHANGED <<scenario, systemRows, bindings, racedRoles, racedRows>>
        /\ known \subseteq known'
    BY <1>5 DEF BootUser, BootRole
  <2>2. OneRow' /\ OneBinding' /\ BoundRows'
    BY <2>1 DEF BootInv, OneRow, OneBinding, BoundRows
  <2>3. Looked(p)' /\ \A o \in Processes \ {p} : Raced(p, o)'
    <3>1. CASE BootUser(p)
      <4>1. /\ boot[p].at = "user" /\ boot'[p].i = boot[p].i
            /\ \/ boot'[p].at = "up" /\ ~scenario.env
               \/ boot'[p].at = "role" /\ SuperEmail \in known'
        BY <1>0, <3>1 DEF BootUser
      <4> QED
        BY <1>1, <2>1, <4>1 DEF Looked, Raced, Present
    <3>2. CASE BootRole(p)
      <4>1. PICK y \in systemRows["SUPER_ADMIN"] : boot' = [boot EXCEPT ![p] = [at |-> "bound", i |-> @.i, row |-> y]]
        BY <3>2 DEF BootRole
      <4>2. boot[p].at = "role" /\ boot'[p].at = "bound" /\ boot'[p].row = y /\ known' = known
        BY <1>0, <3>2, <4>1 DEF BootRole
      <4> QED
        BY <1>1, <2>1, <4>1, <4>2 DEF Looked, Raced, Present
    <3> QED
      BY <1>5, <3>1, <3>2
  <2>4. \A o \in Processes : Looked(o)
    BY DEF BootInv
  <2> QED
    BY <1>2, <2>1, <2>2, <2>3, <2>4, BootMove DEF Looked, Bound
<1>6. CASE BootBound(p)
  <2>1. /\ UNCHANGED <<scenario, known, systemRows, bindings, racedRoles>>
        /\ racedRows \subseteq racedRows' /\ boot[p].at = "bound"
    BY <1>6 DEF BootBound
  <2>2. OneRow' /\ OneBinding' /\ BoundRows'
    BY <2>1 DEF BootInv, OneRow, OneBinding, BoundRows
  <2>3. Looked(p)' /\ \A o \in Processes \ {p} : Raced(p, o)'
    <3>1. CASE Bound(boot[p].row) /\ boot' = [boot EXCEPT ![p].at = "up"]
      <4>1. boot'[p].at = "up" /\ bindings # {}
        BY <1>0, <3>1 DEF Bound
      <4> QED
        BY <1>1, <2>1, <4>1 DEF Looked, Raced, Present
    <3>2. CASE /\ ~Bound(boot[p].row) /\ boot' = [boot EXCEPT ![p].at = "bind"]
               /\ racedRows' = racedRows \cup {y \in {boot[p].row} :
                      \E o \in Processes : boot[o].at = "bind" /\ boot[o].row = y}
      <4>1. boot'[p].at = "bind" /\ boot'[p].row = boot[p].row
        BY <1>0, <3>2
      <4>2. Looked(p)'
        BY <1>1, <2>1, <3>2, <4>1 DEF Looked, Bound, Present
      <4>3. ASSUME NEW o \in Processes \ {p} PROVE Raced(p, o)'
        BY <1>2, <3>2, <4>1 DEF Raced
      <4> QED
        BY <4>2, <4>3
    <3> QED
      BY <1>6, <3>1, <3>2 DEF BootBound
  <2>4. \A o \in Processes : Looked(o)
    BY DEF BootInv
  <2> QED
    BY <1>2, <2>1, <2>2, <2>3, <2>4, BootMove DEF Looked, Bound
<1>7. CASE BootBind(p)
  <2> DEFINE y == boot[p].row
             c == [row |-> y, by |-> p, run |-> restarts]
  <2>1. /\ UNCHANGED <<scenario, known, systemRows, racedRoles, racedRows>>
        /\ bindings' = bindings \cup {c} /\ c.row = y /\ boot[p].at = "bind"
    BY <1>7 DEF BootBind
  <2>2. (~Bound(y) \/ y \in racedRows) /\ y \in systemRows["SUPER_ADMIN"]
    BY <1>1, <2>1 DEF Looked
  <2> HIDE DEF c
  <2>3. OneRow' /\ BoundRows'
    BY <2>1, <2>2 DEF BootInv, OneRow, BoundRows
  <2>4. OneBinding'
    BY <2>1, <2>2 DEF BootInv, OneBinding, Bound
  <2>5. ASSUME NEW o \in Processes \ {p}, boot[o].at = "create"
        PROVE  systemRows'[RoleOf(o)] = {} \/ RoleOf(o) \in racedRoles'
    BY <1>1, <2>1, <2>5 DEF Looked
  <2>6. ASSUME NEW o \in Processes \ {p}, boot[o].at = "bind"
        PROVE  ~Bound(boot[o].row)' \/ boot[o].row \in racedRows'
    <3>1. boot[o].row = y => y \in racedRows
      BY <1>1, <2>1, <2>6 DEF Raced
    <3>2. ~Bound(boot[o].row) \/ boot[o].row \in racedRows
      BY <1>1, <2>6 DEF Looked
    <3> QED
      BY <1>2, <2>1, <3>1, <3>2 DEF Bound
  <2>7. Looked(p)' /\ \A o \in Processes \ {p} : Raced(p, o)'
    <3>1. boot'[p].at = "up" /\ bindings' # {}
      BY <1>0, <1>7, <2>1 DEF BootBind
    <3> QED
      BY <1>1, <2>1, <3>1 DEF Looked, Raced, Present
  <2> QED
    BY <1>2, <2>1, <2>3, <2>4, <2>5, <2>6, <2>7, BootMove
<1> QED
  BY <1>3, <1>4, <1>5, <1>6, <1>7 DEF Boot

LEMMA BootCrash ==
  ASSUME Typed, BootInv, NEW p \in Processes, Crash(p)
  PROVE  BootInv'
<1>1. /\ UNCHANGED <<scenario, known, systemRows, bindings, racedRoles, racedRows>>
      /\ boot' = [boot EXCEPT ![p] = [at |-> "find", i |-> 1, row |-> OldRow]]
      /\ boot \in [Processes -> [at: {"off", "find", "create", "user", "role", "bound", "bind", "up"},
                                 i: 1..3, row: Rows]]
  BY DEF Crash, Restart, Typed, TypeOK
<1>2. \A o \in Processes : Looked(o)'
  BY <1>1 DEF BootInv, Looked, Present, RoleOf, Bound
<1>3. \A o, u \in Processes : o # u => Raced(o, u)'
  BY <1>1 DEF BootInv, Raced, RoleOf
<1> QED
  BY <1>1, <1>2, <1>3 DEF BootInv, OneRow, OneBinding, BoundRows

LEMMA BootStep == Typed /\ BootInv /\ [Next]_vars => BootInv'
<1> SUFFICES ASSUME Typed, BootInv, [Next]_vars PROVE BootInv'
  OBVIOUS
<1> USE DEF accountVars, bootVars
<1>1. ASSUME NEW q \in Requests, AccountStep(q) PROVE BootInv'
  BY <1>1, BootAside
  DEF AccountStep, InviteRole, InviteInsert, InviteExpires, ActivateRead, ActivateUpsert,
      ActivateGrant, CreateRole, CreateRoleInsert, DeleteFind, DeleteUsers, DeleteInvites,
      DeleteDelete, SetActiveRead, SetActiveUpdate, AccountAudit, Untouched, BootSame
<1>2. ASSUME NEW q \in Requests, LoginStep(q) PROVE BootInv'
  BY <1>2, BootAside
  DEF LoginStep, LoginRead, CountRead, CountWrite, LoginRefuse, LoginClear, LoginIssue, Unlock,
      BootSame
<1>3. ASSUME NEW q \in Requests, DeviceStep(q) PROVE BootInv'
  BY <1>3, BootAside
  DEF DeviceStep, TaskStart, RefreshFind, RefreshCreate, RefreshRevoke, LogoutRevoke,
      SessionAudit, Respond, Save, Forget, Remember, BootSame
<1>4. ASSUME NEW q \in Requests, CallFails(q) \/ AccountFails(q) PROVE BootInv'
  BY <1>4, BootAside DEF CallFails, AccountFails, BootSame
<1>5. ASSUME NEW k, Window(k) \/ LockEnds(k) \/ TokenExpires(k) PROVE BootInv'
  BY <1>5, BootAside DEF Window, LockEnds, TokenExpires, BootSame
<1>6. CASE Kill
  BY <1>6, BootAside DEF Kill, BootSame
<1>7. CASE UNCHANGED vars
  BY <1>7, BootAside DEF vars, BootSame
<1> QED
  BY <1>1, <1>2, <1>3, <1>4, <1>5, <1>6, <1>7, BootBoot, BootCrash DEF Next

(***************************************************************************)
(* System roles and bindings are doubled only where two bootstraps stood   *)
(* between lookup and creation together, and a process that serves has     *)
(* them all before it, for any number of processes, however often each     *)
(* bootstrap was cut short (identity-bootstrap.service.ts).                *)
(***************************************************************************)
THEOREM BootIsOnce == Spec => []BootOnce
<1>1. BootInv => BootOnce
  BY DEF BootInv, BootOnce, OneRow, OneBinding, BoundRows, Looked, Up, Present
<1> QED
  BY <1>1, TypedAlways, BootInit, BootStep, PTL DEF Spec

----------------------------------------------------------------------------
(***************************************************************************)
(* Lock-out.  A count read by markFailedLogin is never above the number of *)
(* wrong passwords ever tried: between the read and the write that number  *)
(* only grows, the stored count may be reset.                              *)
(***************************************************************************)
CountInv ==
  /\ LockedWasEarned
  /\ \A q \in Requests : Job[q].op = "login" /\ pc[q] = "countWrite" => seen[q] <= wrong[Job[q].email]

CountSame == /\ UNCHANGED <<loginVars, seen>>
             /\ \A p \in Requests : pc'[p] = pc[p] \/ pc'[p] # "countWrite"

LEMMA CountAside == CountInv /\ CountSame => CountInv'
  BY DEF CountInv, CountSame, LockedWasEarned, loginVars

LEMMA CountStep == Typed /\ CountInv /\ [Next]_vars => CountInv'
<1> SUFFICES ASSUME Typed, CountInv, [Next]_vars PROVE CountInv'
  OBVIOUS
<1> USE DEF Goto, Reply, At, Untouched, accountVars, bootVars
<1>0. /\ pc \in [Requests -> Steps] /\ seen \in [Requests -> Nat]
      /\ failed \in [Emails -> Nat] /\ wrong \in [Emails -> Nat] /\ Threshold \in Nat
      /\ \A q \in Requests : Job[q].email \in Emails
  BY JobTyped, ThresholdAssumption DEF Typed, TypeOK
<1>1. ASSUME NEW p \in Processes, (Boot(p) /\ UNCHANGED sessionVars) \/ Crash(p)
      PROVE  CountInv'
  BY <1>1, BootEffect, CrashEffect, CountAside DEF sessionVars, CountSame
<1>2. ASSUME NEW q \in Requests, AccountStep(q), UNCHANGED sessionVars PROVE CountInv'
  BY <1>0, <1>2, CountAside
  DEF AccountStep, InviteRole, InviteInsert, InviteExpires, ActivateRead, ActivateUpsert,
      ActivateGrant, CreateRole, CreateRoleInsert, DeleteFind, DeleteUsers, DeleteInvites,
      DeleteDelete,
      SetActiveRead, SetActiveUpdate, AccountAudit, sessionVars, CountSame
<1>3. ASSUME NEW q \in Requests, LoginStep(q) PROVE CountInv'
  <2>1. CASE LoginRead(q) \/ LoginRefuse(q) \/ LoginIssue(q)
    BY <1>0, <2>1, CountAside
    DEF LoginRead, LoginRefuse, LoginIssue, sessionVars, CountSame
  <2>2. CASE CountRead(q)
    BY <1>0, <2>2 DEF CountRead, CountInv, LockedWasEarned, loginVars
  <2>3. CASE CountWrite(q)
    <3> DEFINE e == Job[q].email
    <3>1. /\ seen[q] <= wrong[e] /\ e \in Emails
          /\ failed' = [failed EXCEPT ![e] = seen[q] + 1]
          /\ wrong' = [wrong EXCEPT ![e] = @ + 1]
          /\ locked' = IF seen[q] + 1 >= Threshold THEN locked \cup {e} ELSE locked \ {e}
          /\ seen' = seen /\ pc' = [pc EXCEPT ![q] = "refuse"]
      BY <1>0, <2>3 DEF CountWrite, CountInv
    <3>2. \A f \in Emails : wrong'[f] >= wrong[f]
      BY <1>0, <3>1
    <3>3. LockedWasEarned'
      BY <1>0, <3>1 DEF CountInv, LockedWasEarned
    <3>4. ASSUME NEW p \in Requests, Job[p].op = "login", pc'[p] = "countWrite"
          PROVE  seen'[p] <= wrong'[Job[p].email]
      BY <1>0, <3>1, <3>2, <3>4 DEF CountInv
    <3> QED
      BY <3>3, <3>4 DEF CountInv
  <2>4. CASE LoginClear(q)
    BY <1>0, <2>4 DEF LoginClear, CountInv, LockedWasEarned
  <2>5. CASE Unlock(q)
    BY <1>0, <2>5 DEF Unlock, CountInv, LockedWasEarned, loginVars
  <2> QED
    BY <1>3, <2>1, <2>2, <2>3, <2>4, <2>5 DEF LoginStep
<1>4. ASSUME NEW q \in Requests, DeviceStep(q) PROVE CountInv'
  BY <1>0, <1>4, CountAside
  DEF DeviceStep, TaskStart, RefreshFind, RefreshCreate, RefreshRevoke, LogoutRevoke,
      SessionAudit, Respond, Save, Forget, Remember, sessionVars, CountSame
<1>5. ASSUME NEW q \in Requests, CallFails(q) \/ AccountFails(q) PROVE CountInv'
  BY <1>0, <1>5, CountAside DEF CallFails, AccountFails, sessionVars, CountSame
<1>6. ASSUME NEW k, Window(k) \/ TokenExpires(k) PROVE CountInv'
  BY <1>6, CountAside DEF Window, TokenExpires, CountSame
<1>7. ASSUME NEW e \in Emails, LockEnds(e) PROVE CountInv'
  BY <1>7 DEF LockEnds, CountInv, LockedWasEarned
<1>8. CASE Kill
  BY <1>0, <1>8, CountAside DEF Kill, CountSame
<1>9. CASE UNCHANGED vars
  BY <1>9, CountAside DEF vars, sessionVars, CountSame
<1> QED
  BY <1>1, <1>2, <1>3, <1>4, <1>5, <1>6, <1>7, <1>8, <1>9 DEF Next

(***************************************************************************)
(* No account is locked for less than Threshold wrong passwords, whatever  *)
(* attempts, sign-ins and unlocks interleave (auth.service.ts:37).         *)
(***************************************************************************)
THEOREM LocksAreEarned == Spec => []LockedWasEarned
<1>1. Init => CountInv
  BY ThresholdAssumption
  DEF Init, AccountsInit, SessionsInit, CountInv, LockedWasEarned
<1>2. CountInv => LockedWasEarned
  BY DEF CountInv
<1> QED
  BY <1>1, <1>2, TypedAlways, CountStep, PTL DEF Spec

----------------------------------------------------------------------------
(***************************************************************************)
(* The device's session.  A token is nobody's before the task that asked   *)
(* for it has stored it, so nobody but that task can have it revoked until *)
(* then; and a task that revoked the stored token still holds it, and is   *)
(* on its way to write another.                                            *)
(***************************************************************************)
Renewals == {"login", "refresh", "background"}

Tasks(q) ==
  /\ answer[q] # "none" => pc[q] = "done"
  /\ pc[q] \in {"find", "create", "revoke", "revokeAll", "save", "forget", "remember"}
       => q \in scenario.device
  /\ Job[q].op = "logout" /\ pc[q] \notin {"idle", "done"} => q \in scenario.device
  /\ held[q] # Nobody => Job[q].op \in {"refresh", "background", "logout"}
  /\ pc[q] \in {"respond", "save"} \/ (pc[q] = "audit" /\ Job[q].op \in SessionOps)
       => Job[q].op \in Renewals \cup {"logout"}
  /\ pc[q] = "save" => Job[q].op # "logout"

Unseen(q) == pc[q] \notin {"remember", "done"} =>
               stored # q /\ memory # q /\ \A p \in Requests : held[p] # q

Fresh(q) == pc[q] \in {"revoke", "audit", "respond", "save"} /\ Job[q].op \in Renewals
              => token[q] \in {"live", "expired"}

StoredInv == /\ \A q \in Requests : Tasks(q) /\ Unseen(q) /\ Fresh(q)
             /\ StoredSessionUsable

\* A call that failed stays failed.
LEMMA FailuresStay ==
  ASSUME Typed, StoredInv, scenario' = scenario, gone \subseteq gone',
         \A q \in Requests : pc[q] = "done" => answer'[q] = answer[q]
  PROVE  Failing \subseteq Failing'
  BY ScenarioTyped DEF Typed, TypeOK, StoredInv, Tasks, Failing

\* A step of a request that touches no token and no session.
LEMMA StoredReply ==
  ASSUME Typed, StoredInv, NEW q \in Requests, NEW a \in Answers,
         scenario' = scenario, UNCHANGED <<tokenVars, deviceVars>>,
         pc[q] \notin {"done"}, Replacing(q) /\ q \in scenario.device => a = "ERROR",
         Reply(q, a)
  PROVE  StoredInv'
<1> USE DEF tokenVars, deviceVars, Reply
<1>0. pc \in [Requests -> Steps] /\ answer \in [Requests -> Answers]
  BY DEF Typed, TypeOK
<1>1. \A p \in Requests : (Tasks(p) /\ Unseen(p) /\ Fresh(p))'
  BY <1>0 DEF StoredInv, Tasks, Unseen, Fresh
<1>2. Failing \subseteq Failing'
  BY <1>0, FailuresStay
<1>3. StoredSessionUsable'
  <2>1. CASE Replacing(q) /\ q \in scenario.device
    BY <1>0, <2>1 DEF StoredSessionUsable, Failing
  <2>2. CASE ~(Replacing(q) /\ q \in scenario.device)
    <3>1. \A p \in scenario.device : Replacing(p) => p \in Requests /\ Replacing(p)'
      BY <1>0, <2>2, ScenarioTyped DEF Replacing, Typed, TypeOK
    <3> QED
      BY <1>2, <3>1 DEF StoredInv, StoredSessionUsable
  <2> QED
    BY <2>1, <2>2
<1> QED
  BY <1>1, <1>3 DEF StoredInv

LEMMA StoredGoto ==
  ASSUME Typed, StoredInv, NEW q \in Requests, NEW step \in Steps,
         scenario' = scenario, UNCHANGED <<tokenVars, deviceVars>>,
         Goto(q, step), pc[q] # "done", step \notin {"done", "remember"},
         (Tasks(q) /\ Fresh(q) /\ Unseen(q))',
         Replacing(q) /\ q \in scenario.device => Replacing(q)'
  PROVE  StoredInv'
<1> USE DEF tokenVars, deviceVars, Goto
<1>0. pc \in [Requests -> Steps] /\ answer \in [Requests -> Answers]
  BY DEF Typed, TypeOK
<1>1. \A p \in Requests : (Tasks(p) /\ Unseen(p) /\ Fresh(p))'
  BY <1>0 DEF StoredInv, Tasks, Unseen, Fresh
<1>2. Failing \subseteq Failing'
  BY <1>0, FailuresStay
<1>3. \A p \in scenario.device : Replacing(p) => Replacing(p)'
  BY <1>0, ScenarioTyped DEF Replacing, Typed, TypeOK
<1> QED
  BY <1>1, <1>2, <1>3 DEF StoredInv, StoredSessionUsable

LEMMA StoredStill ==
  StoredInv /\ UNCHANGED <<scenario, pc, answer, tokenVars, deviceVars>> => StoredInv'
  BY DEF StoredInv, Tasks, Unseen, Fresh, StoredSessionUsable, Failing, Replacing,
         tokenVars, deviceVars

LEMMA StoredInit == Init => StoredInv
<1> SUFFICES ASSUME Init PROVE StoredInv
  OBVIOUS
<1> USE DEF Init, AccountsInit, SessionsInit
<1>1. scenario.signedIn \notin scenario.coming /\ scenario.signedIn \in Requests \cup {Nobody}
  BY ScenarioTyped, PastAssumption
<1>2. \A q \in Requests : Tasks(q) /\ Fresh(q)
  BY DEF Tasks, Fresh
<1>3. \A q \in Requests : Unseen(q)
  BY <1>1, NobodyAssumption DEF Unseen
<1>4. StoredSessionUsable
  BY <1>1 DEF StoredSessionUsable, Tokens
<1> QED
  BY <1>2, <1>3, <1>4 DEF StoredInv

LEMMA StoredCrash ==
  ASSUME Typed, StoredInv, NEW r \in Processes, Crash(r)
  PROVE  StoredInv'
<1> USE DEF tokenVars, deviceVars
<1>0. /\ UNCHANGED <<scenario, tokenVars, deviceVars>>
      /\ \A q \in Requests :
           \/ pc'[q] = pc[q] /\ answer'[q] = answer[q]
           \/ pc[q] \in ServerSide /\ pc'[q] = "done" /\ answer'[q] = "ERROR"
  BY CrashEffect
<1>1. \A p \in Requests : (Tasks(p) /\ Unseen(p) /\ Fresh(p))'
  BY <1>0 DEF StoredInv, Tasks, Unseen, Fresh, ServerSide, Steps
<1>2. Failing \subseteq Failing'
  BY <1>0, FailuresStay DEF ServerSide
<1>3. ASSUME NEW p \in scenario.device, Replacing(p) PROVE Replacing(p)' \/ p \in Failing'
  BY <1>0, <1>3, ScenarioTyped DEF Replacing, Failing, ServerSide, Steps, Typed, TypeOK
<1> QED
  BY <1>0, <1>1, <1>2, <1>3 DEF StoredInv, StoredSessionUsable

LEMMA StoredKill == Typed /\ StoredInv /\ Kill => StoredInv'
<1> SUFFICES ASSUME Typed, StoredInv, Kill PROVE StoredInv'
  OBVIOUS
<1> USE DEF Kill, accountVars, bootVars, tokenVars, Device
<1>0. pc \in [Requests -> Steps] /\ answer \in [Requests -> Answers]
  BY DEF Typed, TypeOK
<1>1. \A p \in Requests : (Tasks(p) /\ Unseen(p) /\ Fresh(p))'
  BY <1>0 DEF StoredInv, Tasks, Unseen, Fresh
<1>2. Failing \subseteq Failing'
  BY <1>0, FailuresStay
<1>3. ASSUME NEW p \in scenario.device, Replacing(p) PROVE p \in Failing'
  BY <1>3 DEF Replacing, Failing
<1> QED
  BY <1>1, <1>2, <1>3 DEF StoredInv, StoredSessionUsable

LEMMA StoredAccount ==
  ASSUME Typed, StoredInv, NEW q \in Requests, AccountStep(q), UNCHANGED sessionVars
  PROVE  StoredInv'
<1> USE DEF At, Goto, Reply, Untouched, accountVars, bootVars, sessionVars, tokenVars, deviceVars
<1>0. /\ pc \in [Requests -> Steps] /\ answer \in [Requests -> Answers]
      /\ stored \in Requests \cup {Nobody} /\ scenario' = scenario
  BY DEF Typed, TypeOK, Tokens, AccountStep, InviteRole, InviteInsert, InviteExpires,
     ActivateRead, ActivateUpsert, ActivateGrant, CreateRole, CreateRoleInsert, DeleteFind,
     DeleteUsers,
     DeleteInvites, DeleteDelete, SetActiveRead, SetActiveUpdate, AccountAudit
<1>1. CASE UNCHANGED <<pc, answer>>
  BY <1>0, <1>1, StoredStill
<1>2. CASE /\ Job[q].op \in AccountOps /\ pc[q] # "done"
           /\ \E a \in Answers : Reply(q, a)
  <2>1. CASE Replacing(q)
    <3>1. held[q] = Nobody /\ stored = Nobody
      BY <1>2, <2>1 DEF Replacing, StoredInv, Tasks, AccountOps
    <3>2. \A p \in Requests : (Tasks(p) /\ Unseen(p) /\ Fresh(p))'
      BY <1>0, <1>2 DEF StoredInv, Tasks, Unseen, Fresh
    <3> QED
      BY <1>0, <3>1, <3>2 DEF StoredInv, StoredSessionUsable
  <2>2. CASE ~Replacing(q)
    <3> PICK a \in Answers : Reply(q, a)
      BY <1>2
    <3> QED
      BY <1>0, <1>2, <2>2, StoredReply
  <2> QED
    BY <2>1, <2>2
<1>3. CASE /\ Job[q].op \in AccountOps /\ pc[q] \notin {"done", "remember"}
           /\ \E step \in {"insert", "upsert", "grant", "users", "invites", "delete", "update",
                          "audit"} : Goto(q, step)
  <2>1. /\ answer' = answer
        /\ \E step \in {"insert", "upsert", "grant", "users", "invites", "delete", "update",
                          "audit"} : pc' = [pc EXCEPT ![q] = step]
    BY <1>3
  <2>0. Job[q].op \notin SessionOps /\ Job[q].op \notin Renewals /\ Job[q].op # "logout"
    BY <1>3 DEF AccountOps, SessionOps, Renewals
  <2>2. ASSUME NEW p \in Requests PROVE (Tasks(p) /\ Unseen(p) /\ Fresh(p))'
    <3>1. /\ Tasks(p) /\ Unseen(p) /\ Fresh(p) /\ pc[q] \notin {"done", "remember"}
          /\ UNCHANGED <<token, held, stored, memory, scenario>>
      BY <1>0, <1>3 DEF StoredInv
    <3>2. CASE p = q
      BY <1>0, <2>0, <2>1, <3>1, <3>2 DEF Tasks, Unseen, Fresh
    <3>3. CASE p # q
      <4>1. pc'[p] = pc[p]
        BY <1>0, <2>1, <3>3
      <4> QED
        BY <2>1, <3>1, <4>1 DEF Tasks, Unseen, Fresh
    <3> QED
      BY <3>2, <3>3
  <2>3. Failing \subseteq Failing'
    BY <1>0, <2>1, FailuresStay
  <2>4. ASSUME stored # Nobody, NEW p \in scenario.device, Replacing(p) PROVE Replacing(p)'
    <3>1. p # q
      BY <1>3, <2>4 DEF Replacing, StoredInv, Tasks, AccountOps
    <3> QED
      BY <1>0, <2>1, <2>4, <3>1, ScenarioTyped DEF Replacing, Typed, TypeOK
  <2> QED
    BY <1>0, <2>2, <2>3, <2>4 DEF StoredInv, StoredSessionUsable
<1>4. CASE InviteRole(q) \/ InviteInsert(q) \/ InviteExpires(q)
  BY <1>1, <1>2, <1>3, <1>4 DEF InviteRole, InviteInsert, InviteExpires, AccountOps, Answers
<1>5. CASE ActivateRead(q) \/ ActivateUpsert(q) \/ ActivateGrant(q)
  BY <1>1, <1>2, <1>3, <1>5 DEF ActivateRead, ActivateUpsert, ActivateGrant, AccountOps, Answers
<1>6. CASE CreateRole(q) \/ CreateRoleInsert(q)
  BY <1>1, <1>2, <1>3, <1>6 DEF CreateRole, CreateRoleInsert, AccountOps, Answers
<1>7. CASE DeleteFind(q) \/ DeleteUsers(q) \/ DeleteInvites(q) \/ DeleteDelete(q)
  BY <1>1, <1>2, <1>3, <1>7
  DEF DeleteFind, DeleteUsers, DeleteInvites, DeleteDelete, AccountOps, Answers
<1>8. CASE SetActiveRead(q) \/ SetActiveUpdate(q) \/ AccountAudit(q)
  BY <1>1, <1>2, <1>3, <1>8 DEF SetActiveRead, SetActiveUpdate, AccountAudit, AccountOps, Answers
<1> QED
  BY <1>4, <1>5, <1>6, <1>7, <1>8 DEF AccountStep

LEMMA StoredLogin ==
  ASSUME Typed, StoredInv, NEW q \in Requests, LoginStep(q)
  PROVE  StoredInv'
<1> USE DEF At, Goto, Reply, accountVars, bootVars, sessionVars, loginVars, tokenVars, deviceVars
<1>0. /\ pc \in [Requests -> Steps] /\ answer \in [Requests -> Answers]
      /\ token \in [Requests -> {"none", "live", "revoked", "expired"}]
      /\ scenario' = scenario /\ UNCHANGED deviceVars
      /\ Job[q].op \in {"login", "unlock"} /\ pc[q] \notin {"done", "remember"}
      /\ pc[q] \in {"idle", "countRead", "countWrite", "refuse", "clear", "issue"}
  BY DEF Typed, TypeOK, Tokens, LoginStep, LoginRead, CountRead, CountWrite, LoginRefuse,
     LoginClear, LoginIssue, Unlock
<1>1. \/ \E a \in Answers : pc' = [pc EXCEPT ![q] = "done"] /\ answer' = [answer EXCEPT ![q] = a]
      \/ /\ answer' = answer
         /\ \E step \in {"countRead", "countWrite", "refuse", "clear", "issue"} :
              pc' = [pc EXCEPT ![q] = step]
      \/ /\ answer' = answer /\ pc' = [pc EXCEPT ![q] = "audit"]
         /\ Job[q].op = "login" /\ token'[q] = "live"
  BY <1>0 DEF LoginStep, LoginRead, CountRead, CountWrite, LoginRefuse, LoginClear, LoginIssue,
     Unlock, Answers
<1>2. \A t \in Requests : token'[t] = token[t] \/ (t = q /\ token'[t] = "live")
  BY <1>0 DEF LoginStep, LoginRead, CountRead, CountWrite, LoginRefuse, LoginClear, LoginIssue,
     Unlock
<1>3. \A p \in Requests : (Tasks(p) /\ Unseen(p) /\ Fresh(p))'
  BY <1>0, <1>1, <1>2 DEF StoredInv, Tasks, Unseen, Fresh, Renewals
<1>4. Failing \subseteq Failing'
  BY <1>0, <1>1, FailuresStay
<1>5. ASSUME NEW p \in scenario.device, Replacing(p) PROVE Replacing(p)'
  BY <1>0, <1>1, <1>5, ScenarioTyped DEF Replacing, Typed, TypeOK
<1> QED
  BY <1>0, <1>2, <1>3, <1>4, <1>5 DEF StoredInv, StoredSessionUsable, Typed, TypeOK, Tokens

LEMMA StoredDevice ==
  ASSUME Typed, StoredInv, NEW q \in Requests, DeviceStep(q)
  PROVE  StoredInv'
<1> USE DEF At, Goto, Reply, Refreshing, Device, accountVars, bootVars, sessionVars, loginVars,
            tokenVars,
            deviceVars
<1>0. /\ pc \in [Requests -> Steps] /\ answer \in [Requests -> Answers]
      /\ token \in [Requests -> {"none", "live", "revoked", "expired"}]
      /\ held \in [Requests -> Requests \cup {Nobody}]
      /\ stored \in Requests \cup {Nobody} /\ memory \in Requests \cup {Nobody}
      /\ Nobody \notin Requests /\ scenario.device \subseteq Requests
  BY ScenarioTyped, NobodyAssumption DEF Typed, TypeOK, Tokens
<1>1. CASE TaskStart(q)
  <2>1. /\ scenario' = scenario /\ answer' = answer /\ q \in scenario.device
        /\ UNCHANGED <<token, stored, memory, gone>> /\ pc[q] = "idle"
        /\ \E t \in {memory, stored} : held' = [held EXCEPT ![q] = t]
        /\ \E step \in {"find", "forget", "revokeAll"} : pc' = [pc EXCEPT ![q] = step]
        /\ Job[q].op \in {"refresh", "background", "logout"}
    BY <1>1 DEF TaskStart
  <2>2. \A p \in Requests : (Tasks(p) /\ Unseen(p) /\ Fresh(p))'
    BY <1>0, <2>1 DEF StoredInv, Tasks, Unseen, Fresh
  <2>3. Failing \subseteq Failing'
    BY <2>1 DEF Failing
  <2>4. \A p \in scenario.device : Replacing(p) => Replacing(p)'
    BY <1>0, <2>1 DEF Replacing
  <2> QED
    BY <2>1, <2>2, <2>3, <2>4 DEF StoredInv, StoredSessionUsable
<1>2. CASE RefreshFind(q)
  <2>1. /\ scenario' = scenario /\ UNCHANGED <<token, held, stored, memory, gone>>
        /\ pc[q] = "find" /\ Job[q].op \in {"refresh", "background"}
        /\ \/ pc' = [pc EXCEPT ![q] = "create"] /\ answer' = answer
           \/ /\ pc' = [pc EXCEPT ![q] = "done"]
              /\ \E a \in Answers : answer' = [answer EXCEPT ![q] = a]
    BY <1>2 DEF RefreshFind, Answers
  <2>2. \A p \in Requests : (Tasks(p) /\ Unseen(p) /\ Fresh(p))'
    BY <1>0, <2>1 DEF StoredInv, Tasks, Unseen, Fresh
  <2>3. Failing \subseteq Failing'
    BY <1>0, <2>1 DEF Failing, StoredInv, Tasks
  <2>4. \A p \in scenario.device : Replacing(p) => Replacing(p)'
    BY <1>0, <2>1 DEF Replacing
  <2> QED
    BY <2>1, <2>2, <2>3, <2>4 DEF StoredInv, StoredSessionUsable
<1>3. CASE RefreshCreate(q)
  <2>1. /\ scenario' = scenario /\ UNCHANGED <<held, stored, memory, gone, answer>>
        /\ pc[q] = "create" /\ Job[q].op \in {"refresh", "background"}
        /\ pc' = [pc EXCEPT ![q] = "revoke"] /\ token' = [token EXCEPT ![q] = "live"]
    BY <1>3 DEF RefreshCreate
  <2>2. \A p \in Requests : (Tasks(p) /\ Unseen(p) /\ Fresh(p))'
    BY <1>0, <2>1 DEF StoredInv, Tasks, Unseen, Fresh
  <2>3. \A p \in scenario.device : Replacing(p) => Replacing(p)'
    BY <1>0, <2>1 DEF Replacing
  <2> QED
    BY <1>0, <2>1, <2>2, <2>3 DEF StoredInv, StoredSessionUsable, Failing
<1>4. CASE RefreshRevoke(q) \/ LogoutRevoke(q)
  <2>1. /\ scenario' = scenario /\ UNCHANGED <<held, stored, memory, gone, answer>>
        /\ pc[q] \in {"revoke", "revokeAll"}
        /\ Job[q].op \in {"refresh", "background"} => pc[q] = "revoke"
        /\ pc' = [pc EXCEPT ![q] = "audit"] /\ token' = [token EXCEPT ![held[q]] = "revoked"]
        /\ Job[q].op \in {"refresh", "background", "logout"}
    BY <1>4 DEF RefreshRevoke, LogoutRevoke
  <2>2. \A p \in Requests : (Tasks(p) /\ Unseen(p))'
    BY <1>0, <2>1 DEF StoredInv, Tasks, Unseen, Renewals
  <2>3. ASSUME NEW p \in Requests PROVE Fresh(p)'
    <3>1. CASE held[q] = p
      <4>1. pc[p] \in {"remember", "done"}
        BY <3>1 DEF StoredInv, Unseen
      <4> QED
        BY <1>0, <2>1, <4>1 DEF Fresh
    <3>2. CASE held[q] # p
      BY <1>0, <2>1, <3>2 DEF StoredInv, Fresh, Renewals
    <3> QED
      BY <3>1, <3>2
  <2>4. CASE held[q] = stored
    <3>1. Replacing(q)' /\ q \in scenario.device
      BY <1>0, <2>1, <2>4 DEF Replacing, StoredInv, Tasks
    <3> QED
      BY <2>1, <2>2, <2>3, <3>1 DEF StoredInv, StoredSessionUsable
  <2>5. CASE held[q] # stored
    <3>1. \A p \in scenario.device : Replacing(p) => Replacing(p)'
      BY <1>0, <2>1 DEF Replacing
    <3> QED
      BY <1>0, <2>1, <2>2, <2>3, <2>5, <3>1 DEF StoredInv, StoredSessionUsable, Failing
  <2> QED
    BY <2>4, <2>5
<1>5. CASE SessionAudit(q)
  <2>1. /\ (Tasks(q) /\ Fresh(q) /\ Unseen(q))' /\ (Replacing(q) => Replacing(q)')
    BY <1>0, <1>5 DEF SessionAudit, StoredInv, Tasks, Fresh, Unseen, Replacing
  <2> QED
    BY <1>5, <2>1, StoredGoto DEF SessionAudit, Steps
<1>6. CASE Respond(q)
  <2>1. CASE q \in gone \/ ~Device(q)
    BY <1>6, <2>1, StoredReply DEF Respond, Answers
  <2>2. CASE q \notin gone /\ Device(q)
    <3>1. /\ (Tasks(q) /\ Fresh(q) /\ Unseen(q))' /\ (Replacing(q) => Replacing(q)')
      BY <1>0, <1>6, <2>2 DEF Respond, StoredInv, Tasks, Fresh, Unseen, Replacing
    <3> QED
      BY <1>6, <2>2, <3>1, StoredGoto DEF Respond, Steps
  <2> QED
    BY <2>1, <2>2
<1>7. CASE Save(q)
  <2>1. /\ scenario' = scenario /\ UNCHANGED <<token, held, memory, gone>> /\ stored' = q
        /\ pc[q] = "save" /\ Job[q].op \in Renewals
        /\ \/ pc' = [pc EXCEPT ![q] = "remember"] /\ answer' = answer
           \/ pc' = [pc EXCEPT ![q] = "done"] /\ answer' = [answer EXCEPT ![q] = "OK"]
    BY <1>7 DEF Save, StoredInv, Tasks
  <2>2. \A p \in Requests : (Tasks(p) /\ Unseen(p) /\ Fresh(p))'
    BY <1>0, <2>1 DEF StoredInv, Tasks, Unseen, Fresh
  <2>3. token'[stored'] \in {"live", "expired"}
    BY <2>1 DEF StoredInv, Fresh
  <2> QED
    BY <2>2, <2>3 DEF StoredInv, StoredSessionUsable
<1>8. CASE Forget(q)
  BY <1>0, <1>8 DEF Forget, StoredInv, Tasks, Unseen, Fresh, StoredSessionUsable
<1>9. CASE Remember(q)
  <2>1. /\ scenario' = scenario /\ UNCHANGED <<token, held, stored, gone>> /\ memory' \in {q, Nobody}
        /\ pc[q] = "remember" /\ pc' = [pc EXCEPT ![q] = "done"]
        /\ answer' = [answer EXCEPT ![q] = "OK"]
    BY <1>9 DEF Remember
  <2>2. \A p \in Requests : (Tasks(p) /\ Unseen(p) /\ Fresh(p))'
    BY <1>0, <2>1 DEF StoredInv, Tasks, Unseen, Fresh
  <2>3. Failing \subseteq Failing'
    BY <1>0, <2>1 DEF Failing, StoredInv, Tasks
  <2>4. \A p \in scenario.device : Replacing(p) => Replacing(p)'
    BY <1>0, <2>1 DEF Replacing
  <2> QED
    BY <2>1, <2>2, <2>3, <2>4 DEF StoredInv, StoredSessionUsable
<1> QED
  BY <1>1, <1>2, <1>3, <1>4, <1>5, <1>6, <1>7, <1>8, <1>9 DEF DeviceStep

LEMMA StoredStep == Typed /\ StoredInv /\ [Next]_vars => StoredInv'
<1> SUFFICES ASSUME Typed, StoredInv, [Next]_vars PROVE StoredInv'
  OBVIOUS
<1>0. /\ pc \in [Requests -> Steps] /\ answer \in [Requests -> Answers]
      /\ token \in [Requests -> {"none", "live", "revoked", "expired"}]
  BY DEF Typed, TypeOK, Tokens
<1>1. ASSUME NEW r \in Processes, Boot(r), UNCHANGED sessionVars PROVE StoredInv'
  BY <1>1, BootEffect, StoredStill DEF sessionVars
<1>2. ASSUME NEW q \in Requests, CallFails(q) PROVE StoredInv'
  <2>1. CASE Job[q].op = "logout" /\ pc[q] \notin {"forget", "remember"} /\ q \notin gone
    <3>1. /\ (Tasks(q) /\ Fresh(q) /\ Unseen(q))' /\ (Replacing(q) => Replacing(q)')
      BY <1>0, <1>2, <2>1
      DEF CallFails, Goto, StoredInv, Tasks, Fresh, Unseen, Replacing, sessionVars, tokenVars,
          deviceVars, accountVars, bootVars
    <3> QED
      BY <1>2, <2>1, <3>1, StoredGoto DEF CallFails, sessionVars, accountVars, bootVars, Steps
  <2>2. CASE ~(Job[q].op = "logout" /\ pc[q] \notin {"forget", "remember"} /\ q \notin gone)
    BY <1>2, <2>2, StoredReply DEF CallFails, sessionVars, accountVars, bootVars, Answers
  <2> QED
    BY <2>1, <2>2
<1>3. ASSUME NEW q \in Requests, AccountFails(q) PROVE StoredInv'
  BY <1>3, StoredReply DEF AccountFails, sessionVars, accountVars, bootVars, Answers
<1>4. ASSUME NEW k, Window(k) \/ LockEnds(k) PROVE StoredInv'
  BY <1>4, StoredStill DEF Window, LockEnds, accountVars, bootVars
<1>5. ASSUME NEW t \in Tokens, TokenExpires(t) PROVE StoredInv'
  BY <1>0, <1>5
  DEF TokenExpires, accountVars, bootVars, deviceVars, StoredInv, Tasks, Unseen, Fresh,
      Replacing, Failing,
      StoredSessionUsable, Tokens
<1>6. CASE UNCHANGED vars
  BY <1>6, StoredStill DEF vars, accountVars, bootVars, sessionVars
<1> QED
  BY <1>1, <1>2, <1>3, <1>4, <1>5, <1>6, StoredCrash, StoredKill, StoredAccount, StoredLogin,
     StoredDevice DEF Next

LEMMA StoredAlways == Spec => []StoredInv
  BY TypedAlways, StoredInit, StoredStep, PTL DEF Spec

(***************************************************************************)
(* Unless a call of the device failed, what it has stored can still be     *)
(* refreshed, or is about to be replaced, however many of its tasks        *)
(* refresh at once (auth.service.ts:238, App.tsx).                         *)
(***************************************************************************)
THEOREM StoredSessionsLast == Spec => []StoredSessionUsable
<1>1. StoredInv => StoredSessionUsable
  BY DEF StoredInv
<1> QED
  BY <1>1, StoredAlways, PTL

----------------------------------------------------------------------------
(***************************************************************************)
(* Sessions and memberships.  Neither a membership nor the super admin's   *)
(* binding ever goes, so what the sign-in found is still there when its    *)
(* token is written, and in every token copied from it.                    *)
(***************************************************************************)
Chain(q) ==
  /\ Job[q].op = "login" /\ pc[q] \in {"clear", "issue"} => HasAssignment(Job[q].email, Job[q].org)
  /\ held[q] # Nobody => token[held[q]] # "none"
  /\ pc[q] = "forget" => Job[q].op = "logout"
  /\ pc[q] = "remember" /\ Job[q].op # "logout" => token[q] # "none"

ChainInv == /\ SessionsOfMembers
            /\ \A q \in Requests : Chain(q)
            /\ stored # Nobody => token[stored] # "none"
            /\ memory # Nobody => token[memory] # "none"

LEMMA AssignmentsStay ==
  ASSUME Typed, MembersInv, [Next]_vars, NEW e, NEW org, HasAssignment(e, org)
  PROVE  HasAssignment(e, org)'
<1> USE DEF Goto, Reply, At, Untouched, accountVars, bootVars
<1>1. members \subseteq members' /\ bindings \subseteq bindings'
  <2>1. ASSUME NEW p \in Processes, Boot(p) \/ Crash(p)
        PROVE  members \subseteq members' /\ bindings \subseteq bindings'
    BY <2>1, BootEffect, CrashEffect
  <2>2. ASSUME NEW q \in Requests, AccountStep(q)
        PROVE  members \subseteq members' /\ bindings \subseteq bindings'
    <3>1. CASE DeleteDelete(q)
      <4>1. CASE ~HasInvite(Job[q].role) /\ members' = {b \in members : b.role # Job[q].role}
        <5>1. \A b \in members : b.role # Job[q].role
          BY <4>1 DEF HasInvite, MembersInv, MembershipIsInvitation, Granted
        <5> QED
          BY <3>1, <4>1, <5>1 DEF DeleteDelete
      <4> QED
        BY <3>1, <4>1 DEF DeleteDelete
    <3>2. CASE ~DeleteDelete(q)
      BY <2>2, <3>2
      DEF AccountStep, InviteRole, InviteInsert, InviteExpires, ActivateRead, ActivateUpsert,
          ActivateGrant, CreateRole, CreateRoleInsert, DeleteFind, DeleteUsers, DeleteInvites,
          SetActiveRead, SetActiveUpdate, AccountAudit
    <3> QED
      BY <3>1, <3>2
  <2>3. ASSUME NEW q \in Requests, LoginStep(q) \/ DeviceStep(q) \/ CallFails(q) \/ AccountFails(q)
        PROVE  members \subseteq members' /\ bindings \subseteq bindings'
    BY <2>3
    DEF LoginStep, LoginRead, CountRead, CountWrite, LoginRefuse, LoginClear, LoginIssue, Unlock,
        DeviceStep, TaskStart, RefreshFind, RefreshCreate, RefreshRevoke, LogoutRevoke,
        SessionAudit, Respond, Save, Forget, Remember, CallFails, AccountFails
  <2>4. ASSUME NEW k, Window(k) \/ LockEnds(k) \/ TokenExpires(k)
        PROVE  members \subseteq members' /\ bindings \subseteq bindings'
    BY <2>4 DEF Window, LockEnds, TokenExpires
  <2>5. CASE Kill \/ UNCHANGED vars
    BY <2>5 DEF Kill, vars
  <2> QED
    BY <2>1, <2>2, <2>3, <2>4, <2>5 DEF Next
<1> QED
  BY <1>1 DEF HasAssignment, HasSuperName

\* A step that writes no token but may move requests.
Onward(p) == \/ pc'[p] = pc[p]
             \/ pc'[p] \notin {"clear", "issue", "forget", "remember"}
             \/ pc'[p] = "forget" /\ Job[p].op = "logout"

LEMMA ChainAside ==
  ASSUME Typed, MembersInv, ChainInv, [Next]_vars, UNCHANGED <<tokenVars, held, stored, memory>>,
         \A p \in Requests : Onward(p)
  PROVE  ChainInv'
<1>1. \A e, org : HasAssignment(e, org) => HasAssignment(e, org)'
  BY AssignmentsStay
<1> QED
  BY <1>1 DEF ChainInv, SessionsOfMembers, Chain, tokenVars, Onward

LEMMA ChainInit == Init => ChainInv
<1> SUFFICES ASSUME Init PROVE ChainInv
  OBVIOUS
<1> USE DEF Init, AccountsInit, SessionsInit, Tokens
<1>1. ASSUME NEW t \in Tokens, token[t] # "none" PROVE HasAssignment(owner[t], orgOf[t])
  <2>1. t = scenario.signedIn /\ t # Nobody
    BY <1>1, NobodyAssumption
  <2>2. owner[t] = Job[t].email /\ orgOf[t] = Job[t].org
    BY <2>1
  <2>3. CASE scenario.env /\ scenario.accepted # {} /\ Job[t].org = NoOrg /\ Job[t].email = SuperEmail
    <3>1. bindings # {}
      BY <2>3
    <3> QED
      BY <2>2, <2>3, <3>1 DEF HasAssignment, HasSuperName
  <2>4. ASSUME NEW i \in scenario.accepted, Job[t].email = Job[i].email,
               \/ Job[t].org = Job[i].org /\ Job[t].org \in Orgs
               \/ Job[t].org = NoOrg /\ NameOf(Job[i].role) = "SUPER_ADMIN"
        PROVE  HasAssignment(owner[t], orgOf[t])
    <3>1. Granted(i) \in members
      OBVIOUS
    <3> QED
      BY <2>2, <2>4, <3>1, OrgAssumption DEF HasAssignment, HasSuperName, Granted
  <2> QED
    BY <2>1, <2>3, <2>4, PastAssumption
<1>2. stored # Nobody => token[stored] # "none"
  BY ScenarioTyped
<1>3. memory # Nobody => token[memory] # "none"
  BY ScenarioTyped
<1> QED
  BY <1>1, <1>2, <1>3 DEF ChainInv, SessionsOfMembers, Chain

LEMMA ChainLogin ==
  ASSUME Typed, MembersInv, ChainInv, [Next]_vars, NEW q \in Requests, LoginStep(q)
  PROVE  ChainInv'
<1> USE DEF At, Goto, Reply
<1>0. /\ pc \in [Requests -> Steps] /\ token \in [Tokens -> {"none", "live", "revoked", "expired"}]
      /\ owner \in [Tokens -> Emails \cup {Nobody}] /\ orgOf \in [Tokens -> Orgs \cup {NoOrg}]
      /\ Tokens = Requests
  BY DEF Typed, TypeOK, Tokens
<1>1. \A e, org : HasAssignment(e, org) => HasAssignment(e, org)'
  BY AssignmentsStay
<1>2. CASE LoginRead(q)
  <2>1. /\ UNCHANGED <<tokenVars, held, stored, memory, accountVars>>
        /\ \/ \E step \in {"done", "countRead"} : pc' = [pc EXCEPT ![q] = step]
           \/ /\ pc' = [pc EXCEPT ![q] = "clear"]
              /\ HasAssignment(Job[q].email, Job[q].org)
    BY <1>2 DEF LoginRead, tokenVars, deviceVars
  <2> QED
    BY <1>0, <1>1, <2>1 DEF ChainInv, SessionsOfMembers, Chain, tokenVars
<1>3. CASE CountRead(q) \/ CountWrite(q) \/ LoginRefuse(q) \/ Unlock(q)
  BY <1>0, <1>3, ChainAside
  DEF CountRead, CountWrite, LoginRefuse, Unlock, sessionVars, deviceVars, Onward
<1>4. CASE LoginClear(q)
  BY <1>0, <1>1, <1>4
  DEF LoginClear, ChainInv, SessionsOfMembers, Chain, tokenVars, deviceVars
<1>5. CASE LoginIssue(q)
  <2>1. HasAssignment(Job[q].email, Job[q].org)'
    BY <1>1, <1>5 DEF LoginIssue, ChainInv, Chain
  <2>2. SessionsOfMembers'
    BY <1>0, <1>1, <1>5, <2>1 DEF LoginIssue, ChainInv, SessionsOfMembers
  <2>3. \A t \in Tokens : token[t] # "none" => token'[t] # "none"
    BY <1>0, <1>5 DEF LoginIssue
  <2>4. /\ held \in [Requests -> Tokens \cup {Nobody}]
        /\ stored \in Tokens \cup {Nobody} /\ memory \in Tokens \cup {Nobody}
        /\ UNCHANGED <<held, stored, memory>>
        /\ \A p \in Requests : pc'[p] = pc[p] \/ pc'[p] = "audit"
    BY <1>0, <1>5 DEF LoginIssue, Typed, TypeOK, deviceVars
  <2> QED
    BY <1>0, <1>1, <2>2, <2>3, <2>4 DEF ChainInv, Chain
<1> QED
  BY <1>2, <1>3, <1>4, <1>5 DEF LoginStep

LEMMA ChainDevice ==
  ASSUME Typed, MembersInv, StoredInv, ChainInv, [Next]_vars, NEW q \in Requests, DeviceStep(q)
  PROVE  ChainInv'
<1> USE DEF At, Goto, Reply, Refreshing
<1>0. /\ pc \in [Requests -> Steps] /\ token \in [Tokens -> {"none", "live", "revoked", "expired"}]
      /\ owner \in [Tokens -> Emails \cup {Nobody}] /\ orgOf \in [Tokens -> Orgs \cup {NoOrg}]
      /\ held \in [Requests -> Tokens \cup {Nobody}]
      /\ stored \in Tokens \cup {Nobody} /\ memory \in Tokens \cup {Nobody}
      /\ Tokens = Requests /\ Nobody \notin Requests
  BY NobodyAssumption DEF Typed, TypeOK, Tokens
<1>1. \A e, org : HasAssignment(e, org) => HasAssignment(e, org)'
  BY AssignmentsStay
<1>2. CASE TaskStart(q)
  <2>1. /\ UNCHANGED <<tokenVars, stored, memory>> /\ \E t \in {memory, stored} : held' = [held EXCEPT ![q] = t]
        /\ \A p \in Requests : Onward(p)
    BY <1>0, <1>2 DEF TaskStart, Onward
  <2>2. \A p \in Requests : Chain(p)'
    BY <1>0, <1>1, <2>1 DEF ChainInv, Chain, tokenVars, Onward
  <2> QED
    BY <1>1, <2>1, <2>2 DEF ChainInv, SessionsOfMembers, tokenVars
<1>3. CASE RefreshFind(q) \/ SessionAudit(q) \/ Respond(q)
  BY <1>0, <1>3, ChainAside DEF RefreshFind, SessionAudit, Respond, sessionVars, deviceVars, Onward
<1>4. CASE RefreshCreate(q)
  <2>1. held[q] \in Tokens /\ token[held[q]] # "none"
    BY <1>0, <1>4 DEF RefreshCreate, Typed, Holds, ChainInv, Chain
  <2>3. SessionsOfMembers'
    <3> SUFFICES ASSUME NEW t \in Tokens, token'[t] # "none"
                 PROVE  HasAssignment(owner[t], orgOf[t])'
      BY DEF SessionsOfMembers
    <3>1. CASE t = q
      <4>1. owner'[t] = owner[held[q]] /\ orgOf'[t] = orgOf[held[q]]
        BY <1>0, <1>4, <3>1 DEF RefreshCreate
      <4>2. UNCHANGED <<members, bindings>>
        BY <1>4 DEF RefreshCreate, accountVars, bootVars
      <4>3. HasAssignment(owner[held[q]], orgOf[held[q]])
        BY <2>1 DEF ChainInv, SessionsOfMembers
      <4> QED
        BY <4>1, <4>2, <4>3 DEF HasAssignment, HasSuperName
    <3>2. CASE t # q
      <4>1. token'[t] = token[t] /\ owner'[t] = owner[t] /\ orgOf'[t] = orgOf[t]
        BY <1>0, <1>4, <3>2 DEF RefreshCreate
      <4>2. UNCHANGED <<members, bindings>>
        BY <1>4 DEF RefreshCreate, accountVars, bootVars
      <4> QED
        BY <4>1, <4>2 DEF HasAssignment, HasSuperName, ChainInv, SessionsOfMembers
    <3> QED
      BY <3>1, <3>2
  <2>4. \A t \in Tokens : token[t] # "none" => token'[t] # "none"
    BY <1>0, <1>4 DEF RefreshCreate
  <2>5. /\ UNCHANGED <<held, stored, memory>>
        /\ \A p \in Requests : pc'[p] = pc[p] \/ pc'[p] = "revoke"
    BY <1>0, <1>4 DEF RefreshCreate, deviceVars
  <2> QED
    BY <1>0, <1>1, <2>3, <2>4, <2>5 DEF ChainInv, Chain
<1>5. CASE RefreshRevoke(q) \/ LogoutRevoke(q)
  <2>1. held[q] \in Tokens /\ token[held[q]] # "none"
    BY <1>0, <1>5 DEF RefreshRevoke, LogoutRevoke, Typed, Holds, ChainInv, Chain
  <2>2. /\ UNCHANGED <<owner, orgOf, held, stored, memory>>
        /\ \A p \in Requests : pc'[p] = pc[p] \/ pc'[p] = "audit"
        /\ \A t \in Tokens : token'[t] # "none" <=> token[t] # "none"
    BY <1>0, <1>5, <2>1 DEF RefreshRevoke, LogoutRevoke, deviceVars
  <2> QED
    BY <1>0, <1>1, <2>2 DEF ChainInv, SessionsOfMembers, Chain
<1>6. CASE Save(q) \/ Forget(q) \/ Remember(q)
  <2>2. CASE Save(q)
    BY <1>0, <1>1, <2>2
    DEF Save, StoredInv, Tasks, Fresh, Renewals, ChainInv, SessionsOfMembers, Chain, tokenVars
  <2>3. CASE Forget(q)
    BY <1>0, <1>1, <2>3 DEF Forget, ChainInv, SessionsOfMembers, Chain, tokenVars
  <2>4. CASE Remember(q)
    BY <1>0, <1>1, <2>4 DEF Remember, ChainInv, SessionsOfMembers, Chain, tokenVars
  <2> QED
    BY <1>6, <2>2, <2>3, <2>4
<1> QED
  BY <1>2, <1>3, <1>4, <1>5, <1>6 DEF DeviceStep

LEMMA ChainStep == Typed /\ MembersInv /\ StoredInv /\ ChainInv /\ [Next]_vars => ChainInv'
<1> SUFFICES ASSUME Typed, MembersInv, StoredInv, ChainInv, [Next]_vars PROVE ChainInv'
  OBVIOUS
<1> USE DEF Goto, Reply, At, Untouched, accountVars, bootVars
<1>0. pc \in [Requests -> Steps]
  BY DEF Typed, TypeOK
<1>1. ASSUME NEW p \in Processes, (Boot(p) /\ UNCHANGED sessionVars) \/ Crash(p)
      PROVE  ChainInv'
  BY <1>1, BootEffect, CrashEffect, ChainAside DEF sessionVars, deviceVars, Onward
<1>2. ASSUME NEW q \in Requests, AccountStep(q), UNCHANGED sessionVars PROVE ChainInv'
  BY <1>0, <1>2, ChainAside
  DEF AccountStep, InviteRole, InviteInsert, InviteExpires, ActivateRead, ActivateUpsert,
      ActivateGrant, CreateRole, CreateRoleInsert, DeleteFind, DeleteUsers, DeleteInvites,
      DeleteDelete,
      SetActiveRead, SetActiveUpdate, AccountAudit, sessionVars, deviceVars, Onward
<1>3. ASSUME NEW q \in Requests, CallFails(q) \/ AccountFails(q) PROVE ChainInv'
  BY <1>0, <1>3, ChainAside DEF CallFails, AccountFails, sessionVars, deviceVars, Onward
<1>4. ASSUME NEW k, Window(k) \/ LockEnds(k) PROVE ChainInv'
  BY <1>4, ChainAside DEF Window, LockEnds, deviceVars, Onward
<1>5. ASSUME NEW t \in Tokens, TokenExpires(t) PROVE ChainInv'
  <2>1. /\ \A s \in Tokens : token'[s] # "none" <=> token[s] # "none"
        /\ UNCHANGED <<owner, orgOf, held, stored, memory, pc>>
        /\ held \in [Requests -> Tokens \cup {Nobody}]
        /\ stored \in Tokens \cup {Nobody} /\ memory \in Tokens \cup {Nobody}
    BY <1>5 DEF TokenExpires, Typed, TypeOK, deviceVars
  <2>2. \A e, org : HasAssignment(e, org) => HasAssignment(e, org)'
    BY AssignmentsStay
  <2> QED
    BY <2>1, <2>2 DEF ChainInv, SessionsOfMembers, Chain, Tokens
<1>6. CASE Kill
  <2>1. /\ UNCHANGED <<tokenVars, held, stored>> /\ memory' = stored
        /\ \A p \in Requests : pc'[p] = pc[p] \/ pc'[p] = "done"
    BY <1>0, <1>6 DEF Kill
  <2>2. \A e, org : HasAssignment(e, org) => HasAssignment(e, org)'
    BY AssignmentsStay
  <2> QED
    BY <2>1, <2>2 DEF ChainInv, SessionsOfMembers, Chain, tokenVars
<1>7. CASE UNCHANGED vars
  BY <1>7, ChainAside DEF vars, sessionVars, deviceVars, Onward
<1> QED
  BY <1>1, <1>2, <1>3, <1>4, <1>5, <1>6, <1>7, ChainLogin, ChainDevice DEF Next

(***************************************************************************)
(* Every session, however often refreshed, is of an organization its user  *)
(* is a member of or, without one, of a user with a role named SUPER_ADMIN,*)
(* the bootstrap's or a custom one (auth.service.ts:99-203,225-302).       *)
(***************************************************************************)
THEOREM SessionsAreOfMembers == Spec => []SessionsOfMembers
<1>1. ChainInv => SessionsOfMembers
  BY DEF ChainInv
<1> QED
  BY <1>1, TypedAlways, MembersAlways, StoredAlways, ChainInit, ChainStep, PTL DEF Spec

----------------------------------------------------------------------------
(***************************************************************************)
(* Refinement.  A step of the API or of the device leaves the ledger       *)
(* alone, or is one step of it.  What the invariant lacks for this is that *)
(* no request has a token before the step that creates it.                 *)
(***************************************************************************)
Unissued == {"idle", "countRead", "countWrite", "refuse", "clear", "issue", "find", "create"}

Blank(q) == pc[q] \in Unissued => token[q] = "none"

AllBlank == \A q \in Requests : Blank(q)

\* A step that brings no request there, and gives none that stays there a token.
LEMMA BlankFrame ==
  ASSUME AllBlank,
         \A p \in Requests : pc'[p] \in Unissued => pc[p] \in Unissued /\ token'[p] = token[p]
  PROVE  AllBlank'
  BY DEF AllBlank, Blank

LEMMA BlankStep == Typed /\ ChainInv /\ AllBlank /\ [Next]_vars => AllBlank'
<1> SUFFICES ASSUME Typed, ChainInv, AllBlank, [Next]_vars PROVE AllBlank'
  OBVIOUS
<1> USE DEF Goto, Reply, At, Untouched, accountVars, bootVars, Unissued
<1>0. /\ pc \in [Requests -> Steps] /\ Tokens = Requests
      /\ token \in [Tokens -> {"none", "live", "revoked", "expired"}]
  BY DEF Typed, TypeOK, Tokens
<1>1. ASSUME NEW p \in Processes, (Boot(p) /\ UNCHANGED sessionVars) \/ Crash(p)
      PROVE  AllBlank'
  BY <1>1, BootEffect, CrashEffect, BlankFrame DEF sessionVars, tokenVars
<1>2. ASSUME NEW q \in Requests, AccountStep(q), UNCHANGED sessionVars PROVE AllBlank'
  BY <1>0, <1>2, BlankFrame
  DEF AccountStep, InviteRole, InviteInsert, InviteExpires, ActivateRead, ActivateUpsert,
      ActivateGrant, CreateRole, CreateRoleInsert, DeleteFind, DeleteUsers, DeleteInvites,
      DeleteDelete,
      SetActiveRead, SetActiveUpdate, AccountAudit, sessionVars, tokenVars
<1>3. ASSUME NEW q \in Requests, LoginStep(q) PROVE AllBlank'
  BY <1>0, <1>3, BlankFrame
  DEF LoginStep, LoginRead, CountRead, CountWrite, LoginRefuse, LoginClear, LoginIssue, Unlock,
      sessionVars, tokenVars
<1>4. ASSUME NEW q \in Requests, DeviceStep(q) PROVE AllBlank'
  <2>1. CASE RefreshRevoke(q) \/ LogoutRevoke(q)
    <3>1. held[q] \in Tokens /\ token[held[q]] # "none"
      BY <1>0, <2>1, NobodyAssumption
      DEF RefreshRevoke, LogoutRevoke, Typed, Holds, ChainInv, Chain
    <3>2. pc[held[q]] \notin Unissued
      BY <1>0, <3>1 DEF AllBlank, Blank
    <3> QED
      BY <1>0, <2>1, <3>1, <3>2, BlankFrame DEF RefreshRevoke, LogoutRevoke
  <2>2. CASE ~(RefreshRevoke(q) \/ LogoutRevoke(q))
    BY <1>0, <1>4, <2>2, BlankFrame
    DEF DeviceStep, TaskStart, RefreshFind, RefreshCreate, SessionAudit, Respond, Save, Forget,
        Remember, sessionVars, tokenVars
  <2> QED
    BY <2>1, <2>2
<1>5. ASSUME NEW q \in Requests, CallFails(q) \/ AccountFails(q) PROVE AllBlank'
  BY <1>0, <1>5, BlankFrame DEF CallFails, AccountFails, sessionVars, tokenVars
<1>6. ASSUME NEW k, Window(k) \/ LockEnds(k) PROVE AllBlank'
  BY <1>6, BlankFrame DEF Window, LockEnds, tokenVars
<1>7. ASSUME NEW t \in Tokens, TokenExpires(t) PROVE AllBlank'
  BY <1>0, <1>7, BlankFrame DEF TokenExpires, AllBlank, Blank
<1>8. CASE Kill
  BY <1>0, <1>8, BlankFrame DEF Kill, tokenVars
<1>9. CASE UNCHANGED vars
  BY <1>9, BlankFrame DEF vars, sessionVars, tokenVars
<1> QED
  BY <1>1, <1>2, <1>3, <1>4, <1>5, <1>6, <1>7, <1>8, <1>9 DEF Next

LEMMA BlankInit == Init => AllBlank
<1> SUFFICES ASSUME Init, NEW q \in Requests, pc[q] \in Unissued PROVE token[q] = "none"
  BY DEF AllBlank, Blank
<1>1. q \in scenario.coming
  BY DEF Init, AccountsInit, Unissued
<1>2. q # scenario.signedIn
  BY <1>1, PastAssumption DEF Init, AccountsInit
<1> QED
  BY <1>2 DEF Init, SessionsInit, Tokens

----------------------------------------------------------------------------
\* Who is about to take over, and from whom, is as it was.
SameHeirs ==
  \A t \in Tokens : \/ pc[t] # "create" /\ pc'[t] # "create"
                    \/ pc'[t] = pc[t] /\ held'[t] = held[t]

LEMMA LedgerStill ==
  ASSUME UNCHANGED <<tokenVars, members, bindings>>, SameHeirs
  PROVE  UNCHANGED Ledger!ledgerVars
<1>1. Entitled' = Entitled
  BY DEF Entitled, HasAssignment, HasSuperName
<1>2. SubjectFrom' = SubjectFrom /\ token' = token
  BY DEF SubjectFrom, tokenVars
<1>3. OriginFrom' = OriginFrom
  BY DEF OriginFrom, SameHeirs
<1> QED
  BY <1>1, <1>2, <1>3 DEF Ledger!ledgerVars

LEMMA LedgerEntitles ==
  ASSUME Typed, MembersInv, [Next]_vars, UNCHANGED tokenVars, SameHeirs
  PROVE  Ledger!LedgerNext
<1>1. Entitled \subseteq Entitled'
  BY AssignmentsStay DEF Entitled
<1>2. SubjectFrom' = SubjectFrom /\ token' = token
  BY DEF SubjectFrom, tokenVars
<1>3. OriginFrom' = OriginFrom
  BY DEF OriginFrom, SameHeirs
<1> QED
  BY <1>1, <1>2, <1>3 DEF Ledger!LedgerNext, Ledger!Entitle

LEMMA LedgerGivesUp ==
  ASSUME UNCHANGED <<tokenVars, members, bindings>>,
         \A t \in Tokens : \/ pc'[t] # "create"
                           \/ pc'[t] = pc[t] /\ held'[t] = held[t]
  PROVE  Ledger!LedgerNext
<1>1. Entitled' = Entitled
  BY DEF Entitled, HasAssignment, HasSuperName
<1>2. SubjectFrom' = SubjectFrom /\ token' = token
  BY DEF SubjectFrom, tokenVars
<1>3. \A t \in Tokens : OriginFrom'[t] \in {OriginFrom[t], Nobody}
  BY DEF OriginFrom
<1> QED
  BY <1>1, <1>2, <1>3 DEF Ledger!LedgerNext, Ledger!GiveUp

\* Only the row of token t is new: it is live, and of that user and organization.
LEMMA LedgerBegins ==
  ASSUME Typed, NEW t \in Tokens, NEW e, NEW org, token[t] = "none",
         token' = [token EXCEPT ![t] = "live"], owner' = [owner EXCEPT ![t] = e],
         orgOf' = [orgOf EXCEPT ![t] = org], UNCHANGED <<members, bindings>>
  PROVE  Ledger!Begin(t, <<e, org>>)
<1>1. Entitled' = Entitled
  BY DEF Entitled, HasAssignment, HasSuperName
<1>2. owner \in [Tokens -> Emails \cup {Nobody}] /\ orgOf \in [Tokens -> Orgs \cup {NoOrg}]
  BY DEF Typed, TypeOK
<1>3. ASSUME NEW s \in Tokens
      PROVE  <<owner'[s], orgOf'[s]>> = IF s = t THEN <<e, org>> ELSE <<owner[s], orgOf[s]>>
  BY <1>2
<1>4. SubjectFrom' = [SubjectFrom EXCEPT ![t] = <<e, org>>]
  BY <1>3 DEF SubjectFrom
<1> QED
  BY <1>1, <1>4 DEF Ledger!Begin

LEMMA LedgerOpens ==
  ASSUME Typed, ChainInv, AllBlank, NEW q \in Requests, LoginIssue(q)
  PROVE  Ledger!LedgerNext
<1> USE DEF At, Goto
<1>1. /\ q \in SignIns /\ q \in Tokens /\ token[q] = "none"
      /\ UNCHANGED <<members, bindings, held>> /\ pc[q] = "issue"
      /\ pc' = [pc EXCEPT ![q] = "audit"]
  BY DEF LoginIssue, SignIns, Tokens, AllBlank, Blank, Unissued, accountVars, bootVars, deviceVars
<1>2. SubjectOf[q] \in Entitled
  <2>1. HasAssignment(Job[q].email, Job[q].org)
    BY <1>1 DEF LoginIssue, ChainInv, Chain
  <2> QED
    BY <1>1, <2>1, JobTyped DEF SubjectOf, Entitled
<1>3. SubjectOf[q] = <<Job[q].email, Job[q].org>>
  BY <1>1 DEF SubjectOf
<1>4. Ledger!Begin(q, SubjectOf[q])
  <2>1. /\ token' = [token EXCEPT ![q] = "live"]
        /\ owner' = [owner EXCEPT ![q] = Job[q].email]
        /\ orgOf' = [orgOf EXCEPT ![q] = Job[q].org]
    BY DEF LoginIssue
  <2>2. Ledger!Begin(q, <<Job[q].email, Job[q].org>>)
    BY <1>1, <2>1, LedgerBegins
  <2> QED
    BY <1>3, <2>2
<1>5. OriginFrom' = OriginFrom
  BY <1>1 DEF OriginFrom, Typed, TypeOK, Tokens
<1> QED
  BY <1>1, <1>2, <1>4, <1>5 DEF Ledger!LedgerNext, Ledger!Open

LEMMA LedgerAsks ==
  ASSUME Typed, NEW q \in Requests, RefreshFind(q)
  PROVE  Ledger!LedgerNext \/ UNCHANGED Ledger!ledgerVars
<1> USE DEF Goto, Reply, Refreshing
<1>0. /\ pc \in [Requests -> Steps] /\ Tokens = Requests /\ pc[q] = "find"
      /\ held[q] \in Tokens /\ q \notin SignIns
      /\ UNCHANGED <<members, bindings, held, tokenVars>>
  BY DEF RefreshFind, Typed, TypeOK, Holds, Tokens, SignIns, accountVars, bootVars, deviceVars
<1>1. CASE pc' = [pc EXCEPT ![q] = "done"]
  <2>1. SameHeirs
    BY <1>0, <1>1 DEF SameHeirs
  <2> QED
    BY <1>0, <2>1, LedgerStill
<1>2. CASE token[held[q]] = "live" /\ pc' = [pc EXCEPT ![q] = "create"]
  <2>1. Entitled' = Entitled /\ SubjectFrom' = SubjectFrom /\ token' = token
    BY <1>0 DEF Entitled, HasAssignment, HasSuperName, SubjectFrom, tokenVars
  <2>2. OriginFrom[q] = Nobody /\ OriginFrom' = [OriginFrom EXCEPT ![q] = held[q]]
    BY <1>0, <1>2 DEF OriginFrom
  <2>3. Ledger!Ask(q, held[q])
    BY <1>0, <1>2, <2>1, <2>2 DEF Ledger!Ask
  <2> QED
    BY <1>0, <2>3 DEF Ledger!LedgerNext
<1> QED
  BY <1>1, <1>2 DEF RefreshFind

LEMMA LedgerTakesOver ==
  ASSUME Typed, AllBlank, NEW q \in Requests, RefreshCreate(q)
  PROVE  Ledger!LedgerNext
<1> USE DEF Goto, Refreshing
<1>0. /\ pc \in [Requests -> Steps] /\ Tokens = Requests /\ pc[q] = "create"
      /\ held[q] \in Tokens /\ q \notin SignIns /\ token[q] = "none"
      /\ UNCHANGED <<members, bindings, held>> /\ pc' = [pc EXCEPT ![q] = "revoke"]
  BY DEF RefreshCreate, Typed, TypeOK, Holds, Tokens, SignIns, accountVars, bootVars, deviceVars,
         AllBlank, Blank, Unissued
<1>1. OriginFrom[q] = held[q] /\ held[q] # Nobody
  BY <1>0, NobodyAssumption DEF OriginFrom
<1>2. SubjectFrom[OriginFrom[q]] = <<owner[held[q]], orgOf[held[q]]>>
  BY <1>0, <1>1 DEF SubjectFrom
<1>3. Ledger!Begin(q, SubjectFrom[OriginFrom[q]])
  <2>1. /\ token' = [token EXCEPT ![q] = "live"]
        /\ owner' = [owner EXCEPT ![q] = owner[held[q]]]
        /\ orgOf' = [orgOf EXCEPT ![q] = orgOf[held[q]]]
    BY DEF RefreshCreate
  <2>2. Ledger!Begin(q, <<owner[held[q]], orgOf[held[q]]>>)
    BY <1>0, <2>1, LedgerBegins
  <2> QED
    BY <1>2, <2>2
<1>4. OriginFrom' = [OriginFrom EXCEPT ![q] = Nobody]
  BY <1>0 DEF OriginFrom
<1> QED
  BY <1>0, <1>1, <1>3, <1>4 DEF Ledger!LedgerNext, Ledger!TakeOver

\* A revocation or the expiry of a token that was opened.
LEMMA LedgerEnds ==
  ASSUME NEW t \in Tokens, UNCHANGED <<owner, orgOf, members, bindings>>, SameHeirs,
         \/ token[t] = "live" /\ token' = [token EXCEPT ![t] = "expired"]
         \/ token[t] # "none" /\ token' = [token EXCEPT ![t] = "revoked"]
  PROVE  Ledger!LedgerNext
<1>1. Entitled' = Entitled /\ SubjectFrom' = SubjectFrom
  BY DEF Entitled, HasAssignment, HasSuperName, SubjectFrom
<1>2. OriginFrom' = OriginFrom
  BY DEF OriginFrom, SameHeirs
<1>3. Ledger!End(t)
  BY <1>1, <1>2 DEF Ledger!End, Ledger!Opened
<1> QED
  BY <1>3 DEF Ledger!LedgerNext

LEMMA LedgerStep ==
  Typed /\ MembersInv /\ ChainInv /\ AllBlank /\ [Next]_vars
    => [Ledger!LedgerNext]_(Ledger!ledgerVars)
<1> SUFFICES ASSUME Typed, MembersInv, ChainInv, AllBlank, [Next]_vars
             PROVE  Ledger!LedgerNext \/ UNCHANGED Ledger!ledgerVars
  OBVIOUS
<1> USE DEF Goto, Reply, At, Untouched, accountVars, bootVars
<1>0. pc \in [Requests -> Steps] /\ Tokens = Requests
  BY DEF Typed, TypeOK, Tokens
<1>1. ASSUME NEW p \in Processes, Boot(p), UNCHANGED sessionVars
      PROVE  Ledger!LedgerNext
  <2>1. SameHeirs
    BY <1>1, BootEffect DEF SameHeirs, sessionVars, deviceVars
  <2> QED
    BY <1>1, <2>1, LedgerEntitles DEF sessionVars
<1>2. ASSUME NEW p \in Processes, Crash(p) PROVE Ledger!LedgerNext
  <2>1. \A t \in Tokens : pc'[t] # "create" \/ (pc'[t] = pc[t] /\ held'[t] = held[t])
    BY <1>0, <1>2, CrashEffect DEF deviceVars
  <2>2. UNCHANGED <<tokenVars, members, bindings>>
    BY <1>2, CrashEffect
  <2> QED
    BY <2>1, <2>2, LedgerGivesUp
<1>3. ASSUME NEW q \in Requests, AccountStep(q), UNCHANGED sessionVars
      PROVE  Ledger!LedgerNext
  <2>1. SameHeirs
    BY <1>0, <1>3
    DEF SameHeirs, AccountStep, InviteRole, InviteInsert, InviteExpires, ActivateRead,
        ActivateUpsert, ActivateGrant, CreateRole, CreateRoleInsert, DeleteFind, DeleteUsers,
        DeleteInvites,
        DeleteDelete, SetActiveRead, SetActiveUpdate, AccountAudit, sessionVars, deviceVars
  <2> QED
    BY <1>3, <2>1, LedgerEntitles DEF sessionVars
<1>4. ASSUME NEW q \in Requests, LoginStep(q)
      PROVE  Ledger!LedgerNext \/ UNCHANGED Ledger!ledgerVars
  <2>1. CASE LoginIssue(q)
    BY <2>1, LedgerOpens
  <2>2. CASE ~LoginIssue(q)
    <3>1. SameHeirs /\ UNCHANGED <<tokenVars, members, bindings>>
      BY <1>0, <1>4, <2>2
      DEF SameHeirs, LoginStep, LoginRead, CountRead, CountWrite, LoginRefuse, LoginClear, Unlock,
          accountVars, bootVars, sessionVars, deviceVars
    <3> QED
      BY <3>1, LedgerStill
  <2> QED
    BY <2>1, <2>2
<1>5. ASSUME NEW q \in Requests, DeviceStep(q)
      PROVE  Ledger!LedgerNext \/ UNCHANGED Ledger!ledgerVars
  <2>1. CASE RefreshFind(q)
    BY <2>1, LedgerAsks
  <2>2. CASE RefreshCreate(q)
    BY <2>2, LedgerTakesOver
  <2>3. CASE RefreshRevoke(q) \/ LogoutRevoke(q)
    <3>1. held[q] \in Tokens /\ token[held[q]] # "none"
      BY <1>0, <2>3, NobodyAssumption
      DEF RefreshRevoke, LogoutRevoke, Typed, Holds, ChainInv, Chain
    <3>2. SameHeirs
      BY <1>0, <2>3 DEF SameHeirs, RefreshRevoke, LogoutRevoke, deviceVars
    <3>3. /\ token' = [token EXCEPT ![held[q]] = "revoked"]
          /\ UNCHANGED <<owner, orgOf, members, bindings>>
      BY <2>3 DEF RefreshRevoke, LogoutRevoke, accountVars, bootVars
    <3> QED
      BY <3>1, <3>2, <3>3, LedgerEnds
  <2>4. CASE TaskStart(q)
    <3>1. SameHeirs /\ UNCHANGED <<tokenVars, members, bindings>>
      BY <1>0, <2>4 DEF SameHeirs, TaskStart, accountVars, bootVars, Typed, TypeOK
    <3> QED
      BY <3>1, LedgerStill
  <2>5. CASE SessionAudit(q) \/ Respond(q) \/ Save(q) \/ Forget(q) \/ Remember(q)
    <3>1. SameHeirs /\ UNCHANGED <<tokenVars, members, bindings>>
      BY <1>0, <2>5
      DEF SameHeirs, SessionAudit, Respond, Save, Forget, Remember, accountVars, bootVars,
          sessionVars,
          deviceVars
    <3> QED
      BY <3>1, LedgerStill
  <2> QED
    BY <1>5, <2>1, <2>2, <2>3, <2>4, <2>5 DEF DeviceStep
<1>6. ASSUME NEW q \in Requests, CallFails(q) \/ AccountFails(q) PROVE Ledger!LedgerNext
  <2>1. /\ \A t \in Tokens : pc'[t] # "create" \/ (pc'[t] = pc[t] /\ held'[t] = held[t])
        /\ UNCHANGED <<tokenVars, members, bindings>>
    BY <1>0, <1>6 DEF CallFails, AccountFails, accountVars, bootVars, sessionVars, deviceVars
  <2> QED
    BY <2>1, LedgerGivesUp
<1>7. ASSUME NEW k, Window(k) \/ LockEnds(k) PROVE UNCHANGED Ledger!ledgerVars
  <2>1. SameHeirs /\ UNCHANGED <<tokenVars, members, bindings>>
    BY <1>7 DEF SameHeirs, Window, LockEnds, accountVars, bootVars, deviceVars
  <2> QED
    BY <2>1, LedgerStill
<1>8. ASSUME NEW t \in Tokens, TokenExpires(t) PROVE Ledger!LedgerNext
  <2>1. SameHeirs
    BY <1>8 DEF SameHeirs, TokenExpires, deviceVars
  <2> QED
    BY <1>8, <2>1, LedgerEnds DEF TokenExpires, accountVars, bootVars
<1>9. CASE Kill
  <2>1. SameHeirs /\ UNCHANGED <<tokenVars, members, bindings>>
    BY <1>0, <1>9 DEF SameHeirs, Kill, accountVars, bootVars
  <2> QED
    BY <2>1, LedgerStill
<1>10. CASE UNCHANGED vars
  <2>1. SameHeirs /\ UNCHANGED <<tokenVars, members, bindings>>
    BY <1>10 DEF vars, SameHeirs, accountVars, bootVars, sessionVars, deviceVars
  <2> QED
    BY <2>1, LedgerStill
<1> QED
  BY <1>1, <1>2, <1>3, <1>4, <1>5, <1>6, <1>7, <1>8, <1>9, <1>10 DEF Next

(***************************************************************************)
(* Authentication implements the session ledger: every session is opened   *)
(* for a member of its organization or, without one, for somebody with a   *)
(* role named SUPER_ADMIN, or takes over user and organization of one that *)
(* was found live, and none lives again after its end                      *)
(* (auth.service.ts:99-203,225-302).                                       *)
(***************************************************************************)
THEOREM ImplementsSessionLedger == Spec => KeepsSessions
<1>1. Init => Ledger!LedgerInit
  <2> SUFFICES ASSUME Init PROVE Ledger!LedgerInit
    OBVIOUS
  <2>1. token \in [Tokens -> {"none", "live"}]
    BY DEF Init, SessionsInit
  <2>2. OriginFrom = [t \in Tokens |-> Nobody]
    BY DEF Init, AccountsInit, OriginFrom, Tokens
  <2>3. ASSUME NEW t \in Tokens, token[t] # "none"
        PROVE  t \in SignIns /\ SubjectFrom[t] = SubjectOf[t] /\ SubjectFrom[t] \in Entitled
    <3>1. t = scenario.signedIn /\ t # Nobody
      BY <2>3, NobodyAssumption DEF Init, SessionsInit, Tokens
    <3>2. Job[t].op = "login"
      BY <3>1, PastAssumption DEF Init, AccountsInit
    <3>3. owner[t] = Job[t].email /\ orgOf[t] = Job[t].org
      BY <3>1 DEF Init, SessionsInit
    <3>4. HasAssignment(owner[t], orgOf[t])
      BY <2>3, ChainInit DEF ChainInv, SessionsOfMembers
    <3> QED
      BY <3>2, <3>3, <3>4, JobTyped DEF SignIns, SubjectFrom, SubjectOf, Entitled, Tokens
  <2> QED
    BY <2>1, <2>2, <2>3 DEF Ledger!LedgerInit, Ledger!Opened
<1> QED
  BY <1>1, TypedAlways, MembersAlways, StoredAlways, ChainInit, ChainStep, BlankInit, BlankStep,
     LedgerStep, PTL DEF Spec, KeepsSessions, Ledger!LedgerSpec
===============================================================================
