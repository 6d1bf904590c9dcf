------------------------------- MODULE Sessions -------------------------------
(***************************************************************************)
(* Sign-in, refresh-token rotation, sign-out and account lock-out of       *)
(* AuthService, over the users and memberships of Accounts, together with  *)
(* the mobile scanner that holds a session: its store, which survives the  *)
(* app, and the copy in the app's memory.  A request of the device goes    *)
(* through the steps of the API and then through those of the app; the     *)
(* tasks of the app run concurrently, each with the session it started     *)
(* from.                                                                   *)
(***************************************************************************)
EXTENDS Accounts

CONSTANTS
  Threshold,   \* wrong passwords that lock an account (5 in the code)
  Limit        \* requests a rate-limit bucket admits in its window (10)

ASSUME ThresholdAssumption == Threshold \in Nat \ {0}
ASSUME LimitAssumption == Limit \in Nat
ASSUME NobodyHasNoEmail == Nobody \notin Emails

(***************************************************************************)
(* A refresh token is named after the sign-in or refresh that created it.  *)
(***************************************************************************)
Tokens == Requests

VARIABLES
  failed, locked,   \* User.failedLoginCount; lockedUntil in the future
  wrong,            \* wrong passwords ever recorded for each account (history)
  token, owner, orgOf,  \* refresh tokens: state, user, organization
  seen,             \* the failedLoginCount each request has read
  held,             \* the token each task works with
  stored, memory,   \* the token in the device's store and in the app's memory
  gone, kills,      \* tasks whose app was killed under them; how often it was
  bucket            \* AuthRateLimitGuard: admitted in the window, per key

loginVars == <<failed, locked, wrong>>
tokenVars == <<token, owner, orgOf>>
deviceVars == <<held, stored, memory, gone, kills>>
sessionVars == <<loginVars, tokenVars, seen, deviceVars, bucket>>
vars == <<accountVars, pc, answer, sessionVars>>

\* Sign-ins are limited per address, refreshes all together: they name none.
\* The buckets are a Map of each process.
BucketKeys == Processes \X (Emails \cup {Nobody})
BucketOf(q) == <<Job[q].process, IF Job[q].op = "login" THEN Job[q].email ELSE Nobody>>

SessionsInit ==
  /\ failed = [e \in Emails |-> 0]
  /\ locked = {}
  /\ wrong = [e \in Emails |-> 0]
  /\ token = [t \in Tokens |-> IF t = scenario.signedIn THEN "live" ELSE "none"]
  /\ owner = [t \in Tokens |-> IF t = scenario.signedIn THEN Job[t].email ELSE Nobody]
  /\ orgOf = [t \in Tokens |-> IF t = scenario.signedIn THEN Job[t].org ELSE NoOrg]
  /\ seen = [q \in Requests |-> 0]
  /\ held = [q \in Requests |-> Nobody]
  /\ stored = scenario.signedIn
  /\ memory = scenario.signedIn
  /\ gone = {} /\ kills = 0
  /\ bucket = [k \in BucketKeys |-> 0]

----------------------------------------------------------------------------
(***************************************************************************)
(* The rate-limit guard in front of sign-in and refresh.                   *)
(***************************************************************************)
\* Faulty: one more than the limit.
AdmittedOneMore(q) == bucket[BucketOf(q)] <= Limit

Admitted(q) == bucket[BucketOf(q)] < Limit

Count(q) == bucket' = [bucket EXCEPT ![BucketOf(q)] = @ + 1]

\* A minute passes.
Window(k) ==
  /\ bucket[k] > 0
  /\ bucket' = [bucket EXCEPT ![k] = 0]
  /\ UNCHANGED <<accountVars, pc, answer, loginVars, tokenVars, seen, deviceVars>>

(***************************************************************************)
(* POST /auth/login.  Everything is decided on one read of the user and    *)
(* its memberships.  Without an organization it takes a role of the name   *)
(* SUPER_ADMIN: the bootstrap's, or a custom one of an organization.       *)
(***************************************************************************)
HasSuperName(e) == \/ e = SuperEmail /\ bindings # {}
                   \/ \E b \in members : b.user = e /\ NameOf(b.role) = "SUPER_ADMIN"

HasAssignment(e, org) ==
  IF org = NoOrg THEN HasSuperName(e)
  ELSE \E b \in members : b.user = e /\ b.org = org

LoginRead(q) ==
  /\ At(q, "login", "idle")
  /\ LET e == Job[q].email
     IN  IF ~Admitted(q)
         THEN Reply(q, "TOO_MANY_REQUESTS") /\ UNCHANGED bucket
         ELSE /\ Count(q)
              /\ IF e \notin known \/ e \notin active \/ e \in locked
                 THEN Reply(q, "UNAUTHORIZED")
                 ELSE IF password[e] # Job[q].password THEN Goto(q, "countRead")
                 ELSE IF ~HasAssignment(e, Job[q].org)
                 THEN Reply(q, IF Job[q].org = NoOrg THEN "BAD_REQUEST" ELSE "UNAUTHORIZED")
                 ELSE Goto(q, "clear")
  /\ UNCHANGED <<accountVars, loginVars, tokenVars, seen, deviceVars>>

\* markFailedLogin reads the count and writes it one higher, with the lock
\* that goes with it, or none.
CountRead(q) ==
  /\ At(q, "login", "countRead")
  /\ seen' = [seen EXCEPT ![q] = failed[Job[q].email]]
  /\ Goto(q, "countWrite")
  /\ UNCHANGED <<accountVars, loginVars, tokenVars, deviceVars, bucket>>

\* Faulty: the lock comes with the failure before the last allowed one.
CountWriteEarly(q) ==
  /\ At(q, "login", "countWrite")
  /\ LET e == Job[q].email  n == seen[q] + 1
     IN  /\ failed' = [failed EXCEPT ![e] = n]
         /\ locked' = IF n >= Threshold - 1 THEN locked \cup {e} ELSE locked \ {e}
         /\ wrong' = [wrong EXCEPT ![e] = @ + 1]
  /\ Goto(q, "refuse")
  /\ UNCHANGED <<accountVars, tokenVars, seen, deviceVars, bucket>>

CountWrite(q) ==
  /\ At(q, "login", "countWrite")
  /\ LET e == Job[q].email  n == seen[q] + 1
     IN  /\ failed' = [failed EXCEPT ![e] = n]
         /\ locked' = IF n >= Threshold THEN locked \cup {e} ELSE locked \ {e}
         /\ wrong' = [wrong EXCEPT ![e] = @ + 1]
  /\ Goto(q, "refuse")
  /\ UNCHANGED <<accountVars, tokenVars, seen, deviceVars, bucket>>

LoginRefuse(q) ==
  /\ At(q, "login", "refuse")
  /\ Reply(q, "UNAUTHORIZED")
  /\ UNCHANGED <<accountVars, sessionVars>>

\* clearLoginFailures
LoginClear(q) ==
  /\ At(q, "login", "clear")
  /\ failed' = [failed EXCEPT ![Job[q].email] = 0]
  /\ locked' = locked \ {Job[q].email}
  /\ Goto(q, "issue")
  /\ UNCHANGED <<accountVars, wrong, tokenVars, seen, deviceVars, bucket>>

LoginIssue(q) ==
  /\ At(q, "login", "issue")
  /\ token' = [token EXCEPT ![q] = "live"]
  /\ owner' = [owner EXCEPT ![q] = Job[q].email]
  /\ orgOf' = [orgOf EXCEPT ![q] = Job[q].org]
  /\ Goto(q, "audit")
  /\ UNCHANGED <<accountVars, loginVars, seen, deviceVars, bucket>>

\* POST /auth/admin/unlock/:email, in one go: the user is not deleted.
Unlock(q) ==
  /\ At(q, "unlock", "idle")
  /\ IF ~CanCreateOrganization(Job[q].auth) THEN Reply(q, "FORBIDDEN") /\ UNCHANGED loginVars
     ELSE IF Job[q].email \notin known THEN Reply(q, "UNAUTHORIZED") /\ UNCHANGED loginVars
     ELSE /\ failed' = [failed EXCEPT ![Job[q].email] = 0]
          /\ locked' = locked \ {Job[q].email}
          /\ UNCHANGED wrong
          /\ Reply(q, "OK")
  /\ UNCHANGED <<accountVars, tokenVars, seen, deviceVars, bucket>>

\* Fifteen minutes pass: the lock is over, the count stands.
LockEnds(e) ==
  /\ e \in locked
  /\ locked' = locked \ {e}
  /\ UNCHANGED <<accountVars, pc, answer, failed, wrong, tokenVars, seen, deviceVars, bucket>>

----------------------------------------------------------------------------
(***************************************************************************)
(* The device.  A task starts from the session in memory (attemptRefresh,  *)
(* signOut) or in the store (the background sync) of that moment.          *)
(***************************************************************************)
Device(q) == q \in scenario.device

TaskStart(q) ==
  /\ pc[q] = "idle" /\ Device(q)
  /\ \/ /\ Job[q].op \in {"refresh", "background"}
        /\ held' = [held EXCEPT ![q] = IF Job[q].op = "refresh" THEN memory ELSE stored]
        /\ held'[q] # Nobody
        /\ Goto(q, "find")
     \/ /\ Job[q].op = "logout"
        /\ held' = [held EXCEPT ![q] = memory]
        /\ Goto(q, IF memory = Nobody THEN "forget" ELSE "revokeAll")
  /\ UNCHANGED <<accountVars, loginVars, tokenVars, seen, stored, memory, gone, kills, bucket>>

Refreshing(q) == Job[q].op \in {"refresh", "background"} /\ Up(Job[q].process)

\* Faulty: a token is found whether it has ended or not.
RefreshFindEnded(q) ==
  /\ Refreshing(q) /\ pc[q] = "find"
  /\ IF ~Admitted(q)
     THEN Reply(q, "TOO_MANY_REQUESTS") /\ UNCHANGED bucket
     ELSE Count(q) /\ Goto(q, "create")
  /\ UNCHANGED <<accountVars, loginVars, tokenVars, seen, deviceVars>>

\* POST /auth/refresh
RefreshFind(q) ==
  /\ Refreshing(q) /\ pc[q] = "find"
  /\ IF ~Admitted(q)
     THEN Reply(q, "TOO_MANY_REQUESTS") /\ UNCHANGED bucket
     ELSE /\ Count(q)
          /\ IF token[held[q]] = "live" THEN Goto(q, "create") ELSE Reply(q, "UNAUTHORIZED")
  /\ UNCHANGED <<accountVars, loginVars, tokenVars, seen, deviceVars>>

RefreshCreate(q) ==
  /\ Refreshing(q) /\ pc[q] = "create"
  /\ token' = [token EXCEPT ![q] = "live"]
  /\ owner' = [owner EXCEPT ![q] = owner[held[q]]]
  /\ orgOf' = [orgOf EXCEPT ![q] = orgOf[held[q]]]
  /\ Goto(q, "revoke")
  /\ UNCHANGED <<accountVars, loginVars, seen, deviceVars, bucket>>

\* Faulty: the replacement revoked with the token it replaces.
RefreshRevokeAll(q) ==
  /\ Refreshing(q) /\ pc[q] = "revoke"
  /\ token' = [t \in Tokens |-> IF owner[t] = owner[held[q]] THEN "revoked" ELSE token[t]]
  /\ Goto(q, "audit")
  /\ UNCHANGED <<accountVars, loginVars, owner, orgOf, seen, deviceVars, bucket>>

RefreshRevoke(q) ==
  /\ Refreshing(q) /\ pc[q] = "revoke"
  /\ token' = [token EXCEPT ![held[q]] = "revoked"]
  /\ Goto(q, "audit")
  /\ UNCHANGED <<accountVars, loginVars, owner, orgOf, seen, deviceVars, bucket>>

\* POST /auth/logout
LogoutRevoke(q) ==
  /\ At(q, "logout", "revokeAll")
  /\ token' = [token EXCEPT ![held[q]] = "revoked"]
  /\ Goto(q, "audit")
  /\ UNCHANGED <<accountVars, loginVars, owner, orgOf, seen, deviceVars, bucket>>

SessionAudit(q) ==
  /\ Job[q].op \in SessionOps /\ pc[q] = "audit" /\ Up(Job[q].process)
  /\ Goto(q, "respond")
  /\ UNCHANGED <<accountVars, sessionVars>>

\* The response arrives, or finds nobody.
Respond(q) ==
  /\ pc[q] = "respond"
  /\ IF q \in gone THEN Reply(q, "ERROR")
     ELSE IF ~Device(q) THEN Reply(q, "OK")
     ELSE Goto(q, IF Job[q].op = "logout" THEN "forget" ELSE "save")
  /\ UNCHANGED <<accountVars, sessionVars>>

\* persistSession, and the write of backgroundRefreshSession.
Save(q) ==
  /\ pc[q] = "save"
  /\ stored' = q
  /\ IF Job[q].op = "background" THEN Reply(q, "OK") ELSE Goto(q, "remember")
  /\ UNCHANGED <<accountVars, loginVars, tokenVars, seen, held, memory, gone, kills, bucket>>

Forget(q) ==
  /\ pc[q] = "forget"
  /\ stored' = Nobody
  /\ Goto(q, "remember")
  /\ UNCHANGED <<accountVars, loginVars, tokenVars, seen, held, memory, gone, kills, bucket>>

\* setSession
Remember(q) ==
  /\ pc[q] = "remember"
  /\ memory' = IF Job[q].op = "logout" THEN Nobody ELSE q
  /\ Reply(q, "OK")
  /\ UNCHANGED <<accountVars, loginVars, tokenVars, seen, held, stored, gone, kills, bucket>>

(***************************************************************************)
(* A call of a session request throws, or its answer is lost.  A sign-out  *)
(* clears the device in any case.                                          *)
(***************************************************************************)
CallFails(q) ==
  /\ Job[q].op \in SessionOps
  /\ pc[q] \notin {"idle", "done"}
  /\ IF Job[q].op = "logout" /\ pc[q] \notin {"forget", "remember"} /\ q \notin gone
     THEN Goto(q, "forget")
     ELSE Reply(q, "ERROR")
  /\ UNCHANGED <<accountVars, sessionVars>>

\* A request of another component throws: it answers 500.
AccountFails(q) ==
  /\ Job[q].op \in AccountOps
  /\ pc[q] \notin {"idle", "done"}
  /\ Reply(q, "ERROR")
  /\ UNCHANGED <<accountVars, sessionVars>>

\* The app is killed and opened again: it loads what the store has.
Kill ==
  /\ kills < scenario.kills /\ kills' = kills + 1
  /\ gone' = gone \cup {q \in scenario.device : pc[q] \notin {"idle", "done"}}
  /\ memory' = stored
  /\ pc' = [q \in Requests |-> IF Device(q) /\ pc[q] \in {"save", "remember", "forget"}
                               THEN "done" ELSE pc[q]]
  /\ answer' = [q \in Requests |-> IF Device(q) /\ pc[q] \in {"save", "remember", "forget"}
                                   THEN "ERROR" ELSE answer[q]]
  /\ UNCHANGED <<accountVars, loginVars, tokenVars, seen, held, stored, bucket>>

\* A process that dies takes its buckets with it.
Crash(p) ==
  /\ Restart(p)
  /\ bucket' = [k \in BucketKeys |-> IF k[1] = p THEN 0 ELSE bucket[k]]
  /\ UNCHANGED <<loginVars, tokenVars, seen, deviceVars>>

TokenExpires(t) ==
  /\ token[t] = "live"
  /\ token' = [token EXCEPT ![t] = "expired"]
  /\ UNCHANGED <<accountVars, pc, answer, loginVars, owner, orgOf, seen, deviceVars, bucket>>

LoginStep(q) == \/ LoginRead(q) \/ CountRead(q) \/ CountWrite(q) \/ LoginRefuse(q)
                \/ LoginClear(q) \/ LoginIssue(q) \/ Unlock(q)
DeviceStep(q) == \/ TaskStart(q) \/ RefreshFind(q) \/ RefreshCreate(q) \/ RefreshRevoke(q)
                 \/ LogoutRevoke(q) \/ SessionAudit(q) \/ Respond(q)
                 \/ Save(q) \/ Forget(q) \/ Remember(q)

Init == AccountsInit /\ SessionsInit

Next ==
  \/ \E p \in Processes : (Boot(p) /\ UNCHANGED sessionVars) \/ Crash(p)
  \/ \E q \in Requests : AccountStep(q) /\ UNCHANGED sessionVars
  \/ \E q \in Requests : LoginStep(q) \/ DeviceStep(q) \/ CallFails(q) \/ AccountFails(q)
  \/ \E k \in BucketKeys : Window(k)
  \/ \E e \in Emails : LockEnds(e)
  \/ \E t \in Tokens : TokenExpires(t)
  \/ Kill

Spec == Init /\ [][Next]_vars

----------------------------------------------------------------------------
(***************************************************************************)
(* The shape of the state; a request past its first lookup holds a token.  *)
(***************************************************************************)
TypeOK ==
  /\ scenario \in Scenarios
  /\ known \subseteq Emails /\ active \subseteq Emails
  /\ password \in [Emails -> Passwords \cup {Nobody}]
  /\ systemRows \in [SystemRoles -> SUBSET Rows] /\ customs \subseteq Requests
  /\ invites \in [Requests -> {"none", "open", "accepted", "expired"}]
  /\ members \subseteq Memberships
  /\ bindings \subseteq Bindings
  /\ boot \in [Processes -> [at: {"off", "find", "create", "user", "role", "bound", "bind", "up"},
                             i: 1..3, row: Rows]]
  /\ racedRoles \subseteq SystemRoles /\ racedRows \subseteq Rows
  /\ restarts \in 0..scenario.restarts
  /\ pc \in [Requests -> Steps]
  /\ answer \in [Requests -> Answers]
  /\ failed \in [Emails -> Nat] /\ locked \subseteq Emails /\ wrong \in [Emails -> Nat]
  /\ token \in [Tokens -> {"none", "live", "revoked", "expired"}]
  /\ owner \in [Tokens -> Emails \cup {Nobody}]
  /\ orgOf \in [Tokens -> Orgs \cup {NoOrg}]
  /\ seen \in [Requests -> Nat]
  /\ held \in [Requests -> Tokens \cup {Nobody}]
  /\ stored \in Tokens \cup {Nobody} /\ memory \in Tokens \cup {Nobody}
  /\ gone \subseteq Requests /\ kills \in 0..scenario.kills
  /\ bucket \in [BucketKeys -> 0..Limit]

(***************************************************************************)
(* Nobody is locked out for less than Threshold wrong passwords, however   *)
(* the reads and writes of concurrent attempts, sign-ins and unlocks of    *)
(* markFailedLogin and clearLoginFailures interleave: a lost update may    *)
(* spare an attempt, it never invents one.                                 *)
(***************************************************************************)
LockedWasEarned ==
  \A e \in Emails : /\ failed[e] <= wrong[e]
                    /\ e \in locked => wrong[e] >= Threshold

(***************************************************************************)
(* A session, however often it was rotated since its sign-in, is one of    *)
(* an organization its user is a member of or, without an organization, of *)
(* a user with a role named SUPER_ADMIN, wherever that role was granted:   *)
(* it was read before the sign-in wrote anything, and the chain of         *)
(* refreshes copies what it found.  It is not said that a role of that     *)
(* name comes from the bootstrap, nor what the routes permit a session.    *)
(***************************************************************************)
SessionsOfMembers ==
  \A t \in Tokens : token[t] # "none" => HasAssignment(owner[t], orgOf[t])

Failing == {q \in scenario.device : answer[q] = "ERROR" \/ q \in gone}

\* A task that will replace, or clear, what the device has stored.
Replacing(q) == /\ held[q] = stored
                /\ pc[q] \in {"audit", "respond", "save", "forget"}

(***************************************************************************)
(* As long as no call of the device failed, its stored session is not one  *)
(* that rotation or sign-out has killed, or the task that killed it is     *)
(* about to replace it: any number of foreground and background tasks,     *)
(* each with a copy of the session of its own, may refresh at once.        *)
(***************************************************************************)
StoredSessionUsable ==
  \/ Failing # {}
  \/ stored = Nobody
  \/ token[stored] \in {"live", "expired"}
  \/ \E q \in scenario.device : Replacing(q)

----------------------------------------------------------------------------
(***************************************************************************)
(* The promise of SessionLedger, with the table of refresh tokens as the   *)
(* ledger.                                                                 *)
(***************************************************************************)
SignIns == {t \in Tokens : Job[t].op = "login"}
SubjectOf == [t \in Tokens |-> <<Job[t].email, Job[t].org>>]
SubjectFrom == [t \in Tokens |-> <<owner[t], orgOf[t]>>]
Entitled == {s \in Emails \X (Orgs \cup {NoOrg}) : HasAssignment(s[1], s[2])}

\* A refresh takes over from the token it found live until it has created its own.
OriginFrom ==
  [t \in Tokens |-> IF t \notin SignIns /\ pc[t] = "create" THEN held[t] ELSE Nobody]

Ledger == INSTANCE SessionLedger
            WITH entitled <- Entitled, state <- token, subject <- SubjectFrom, origin <- OriginFrom

(***************************************************************************)
(* Sign-in and rotation (auth.service.ts:82-150,238) keep the ledger, with *)
(* bootstraps, crashes, lost answers and a device of several tasks in      *)
(* between: the membership is read awaits before the token is written, and *)
(* the token is found live awaits before its replacement is.               *)
(***************************************************************************)
KeepsSessions == Ledger!LedgerSpec
===============================================================================
