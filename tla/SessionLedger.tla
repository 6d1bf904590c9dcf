---------------------------- MODULE SessionLedger ----------------------------
(***************************************************************************)
(* What authentication promises of the sessions it gives out, whatever     *)
(* requests, crashes and devices overlap: a session is opened for somebody *)
(* entitled to it, or takes over from one that was live when that was      *)
(* asked for; it is of the same user and organization for good; and one    *)
(* that has ended never lives again.                                       *)
(***************************************************************************)
CONSTANTS Tokens,
          SignIns,    \* the tokens that sign-ins give out
          Nobody,     \* no token
          SubjectOf   \* the user and organization each sign-in asks for

VARIABLES entitled,   \* who may have sessions: users, each with an organization
          state,      \* "none", "live", "expired" or "revoked", for each token
          subject,    \* whose session each token is
          origin      \* the live session each token was asked to take over from

ledgerVars == <<entitled, state, subject, origin>>

Opened == {t \in Tokens : state[t] # "none"}

LedgerInit ==
  /\ state \in [Tokens -> {"none", "live"}]
  /\ \A t \in Opened : /\ t \in SignIns
                       /\ subject[t] = SubjectOf[t]
                       /\ subject[t] \in entitled
  /\ origin = [t \in Tokens |-> Nobody]

Entitle == /\ entitled \subseteq entitled'
           /\ UNCHANGED <<state, subject, origin>>

Begin(t, who) ==
  /\ state[t] = "none"
  /\ state' = [state EXCEPT ![t] = "live"]
  /\ subject' = [subject EXCEPT ![t] = who]
  /\ UNCHANGED entitled

Open(t) == /\ t \in SignIns
           /\ SubjectOf[t] \in entitled
           /\ Begin(t, SubjectOf[t])
           /\ UNCHANGED origin

Ask(t, u) == /\ t \notin SignIns
             /\ origin[t] = Nobody /\ state[u] = "live"
             /\ origin' = [origin EXCEPT ![t] = u]
             /\ UNCHANGED <<entitled, state, subject>>

TakeOver(t) == /\ origin[t] # Nobody
               /\ Begin(t, subject[origin[t]])
               /\ origin' = [origin EXCEPT ![t] = Nobody]

\* Requests fail, many at once when the process does.
GiveUp == /\ \A t \in Tokens : origin'[t] \in {origin[t], Nobody}
          /\ UNCHANGED <<entitled, state, subject>>

End(t) == /\ \/ state[t] = "live" /\ state' = [state EXCEPT ![t] = "expired"]
             \/ t \in Opened /\ state' = [state EXCEPT ![t] = "revoked"]
          /\ UNCHANGED <<entitled, subject, origin>>

LedgerNext ==
  \/ Entitle \/ GiveUp
  \/ \E t \in Tokens : Open(t) \/ TakeOver(t) \/ End(t)
  \/ \E t, u \in Tokens : Ask(t, u)

LedgerSpec == LedgerInit /\ [][LedgerNext]_ledgerVars
==============================================================================
