--------------------------- MODULE AdmissionLedger --------------------------
(***************************************************************************)
(* What the check-in API promises the people at the doors, whatever order  *)
(* their requests are served in: a registrant is admitted by at most one   *)
(* request and for good, one idempotency key admits at most one of those   *)
(* who are there, nobody is admitted once removed, and an answer is true   *)
(* when it is given.  An error response promises nothing: the request may  *)
(* or may not have admitted the registrant.                                *)
(***************************************************************************)
CONSTANTS Registrants, Requests,
          Nobody,     \* no request: the registrant has not been admitted
          SubjectOf,  \* the registrant a request is about
          SlotOf      \* the organization and idempotency key it claims

VARIABLES admitted,   \* the request that admitted each registrant
          told,       \* the answer each request got
          removed     \* registrants who have been removed

ledgerVars == <<admitted, told, removed>>

\* Answers by which a request is told that it admitted nobody.
Refusals == {"DUPLICATE", "IDEMPOTENT_REPLAY", "INVALID", "WRONG_EVENT",
             "ACCESS_DENIED", "NOT_APPROVED", "OK", "REFUSED"}

AdmittedBy(q) == \E r \in Registrants : admitted[r] = q

LedgerInit == /\ admitted = [r \in Registrants |-> Nobody]
              /\ told = [q \in Requests |-> "none"]
              /\ removed = {}

Admit(q) ==
  /\ told[q] = "none"
  /\ admitted[SubjectOf[q]] = Nobody /\ SubjectOf[q] \notin removed
  /\ admitted' = [admitted EXCEPT ![SubjectOf[q]] = q]
  /\ UNCHANGED <<told, removed>>
  /\ \A p \in Requests :
       AdmittedBy(p) /\ SubjectOf[p] \notin removed => SlotOf[p] # SlotOf[q]

Tell(q) ==
  LET a == told'[q]
  IN  /\ told[q] = "none" /\ a # "none"
      /\ told' = [told EXCEPT ![q] = a]
      /\ a = "ACCEPTED" => admitted[SubjectOf[q]] = q
      /\ a \in Refusals => ~AdmittedBy(q)
      /\ a = "DUPLICATE" => admitted[SubjectOf[q]] # Nobody
      /\ a = "IDEMPOTENT_REPLAY" => \E p \in Requests : AdmittedBy(p) /\ SlotOf[p] = SlotOf[q]
      /\ UNCHANGED <<admitted, removed>>

\* The ledger keeps what is written in it about those who are removed.
Remove(rs) ==
  /\ removed' = removed \cup rs
  /\ UNCHANGED <<admitted, told>>

LedgerNext ==
  \/ \E q \in Requests : Admit(q) \/ Tell(q)
  \/ \E rs \in SUBSET Registrants : Remove(rs)

LedgerSpec == LedgerInit /\ [][LedgerNext]_ledgerVars
=============================================================================
