-------------------------------- MODULE Policy --------------------------------
(***************************************************************************)
(* PolicyService and the guards built on it: what an authentication        *)
(* context - the roles and the organization of an access token - permits   *)
(* on the routes of an organization.                                       *)
(***************************************************************************)
RoleNames == {"SUPER_ADMIN", "ORG_ADMIN", "ORG_STAFF", "CUSTOM"}

HasRole(auth, name) == name \in auth.roles

CanCreateOrganization(auth) == HasRole(auth, "SUPER_ADMIN")

CanAccessTenant(auth, org) == HasRole(auth, "SUPER_ADMIN") \/ auth.org = org

CanInviteUsers(auth, org) ==
  HasRole(auth, "SUPER_ADMIN") \/ (HasRole(auth, "ORG_ADMIN") /\ auth.org = org)

CanManageEventSettings(auth, org) ==
  /\ CanAccessTenant(auth, org)
  /\ HasRole(auth, "SUPER_ADMIN") \/ HasRole(auth, "ORG_ADMIN")

CanManageAttendeeOps(auth, org) ==
  /\ CanAccessTenant(auth, org)
  /\ auth.roles \cap {"SUPER_ADMIN", "ORG_ADMIN", "ORG_STAFF"} # {}
===============================================================================
