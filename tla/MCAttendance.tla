---------------------------- MODULE MCAttendance ----------------------------
(***************************************************************************)
(* Small instances of Attendance.  Registrants r1 and r3 belong to event   *)
(* e1 of organization o1, by links of their own, r2 to event e2 of o2.     *)
(***************************************************************************)
EXTENDS Attendance, TLC

CONSTANTS r1, r2, r3, k1, k2, o1, o2, e1, e2,
          door, retry, door2, manual, stranger, elsewhere, other,
          reject, approve, cancel, resend, page, resent, reuse, import, unlink

MCOrgOf == [r \in Registrants |-> IF r = r2 THEN o2 ELSE o1]
MCEventOf == [r \in Registrants |-> IF r = r2 THEN e2 ELSE e1]
MCLinkOf == [r \in Registrants |-> r]

Scans(token, key, org, event, zoned) ==
  [op |-> "scan", reg |-> r1, token |-> token, key |-> key, org |-> org,
   event |-> event, zoned |-> zoned]
Desk(op) ==
  [op |-> op, reg |-> r1, token |-> r1, key |-> k1, org |-> o1,
   event |-> NoEvent, zoned |-> FALSE]

(***************************************************************************)
(* A scan of r1, its retry under the same key, a scan at another door;     *)
(* scans by an usher of the other organization and for the other event; a  *)
(* scan of r2, and one of r3, under a key also used for r1; the scan of a  *)
(* resent badge; the desk, an import and the deletion of r1's link.        *)
(***************************************************************************)
AllJobs ==
  (door :> Scans(r1, k1, o1, e1, FALSE)) @@ (retry :> Scans(r1, k1, o1, e1, FALSE)) @@
  (door2 :> Scans(r1, k2, o1, NoEvent, TRUE)) @@
  (stranger :> Scans(r1, k1, o2, NoEvent, FALSE)) @@
  (elsewhere :> Scans(r1, k2, o1, e2, FALSE)) @@
  (other :> Scans(r2, k1, o2, NoEvent, FALSE)) @@
  (resent :> Scans(resend, k1, o1, e1, FALSE)) @@
  (reuse :> Scans(r3, k1, o1, e1, FALSE)) @@
  (import :> Desk("import")) @@ (unlink :> Desk("deleteLink")) @@
  (manual :> Desk("manual")) @@ (reject :> Desk("reject")) @@
  (approve :> Desk("approve")) @@ (cancel :> Desk("cancel")) @@
  (resend :> Desk("resend")) @@ (page :> Desk("getBadge"))

MCJob == [q \in Requests |-> AllJobs[q]]

\* The others are approved.
MCBeginnings == {f \in [Registrants -> Lifecycle] :
                   \A r \in Registrants \ {r1} : f[r] = "APPROVED"}

\* Two doors; two tenants.
GateTraffic == {{door, retry, door2, manual},
                {door, stranger, other, reject}, {door, elsewhere, reject},
                {door, door2, reuse, unlink}}

\* The desk handing out badges while the one it resent is scanned.
DeskTraffic == {{approve, resend, resent}, {cancel, page, resend, resent},
                {approve, import, page, unlink}, {cancel, manual, resend, unlink}}

\* All of it.
DayTraffic == GateTraffic \cup DeskTraffic

\* A cancellation racing a scan.
CancelTraffic == {{cancel, door}}
=============================================================================
