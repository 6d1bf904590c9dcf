---------------------------- MODULE MCRegistration ---------------------------
(***************************************************************************)
(* Small instances of Registration: two links, two addresses, two codes.   *)
(***************************************************************************)
EXTENDS Registration, TLC

CONSTANTS form, form2, again, desk, rename, skip, flag,
          l1, l2, a1, a2, c1, c2

MCOp == (form :> "submit") @@ (form2 :> "submit") @@ (again :> "submit") @@
        (desk :> "onsite") @@ (rename :> "importUpdate") @@
        (skip :> "importSkip") @@ (flag :> "importFlag")
MCLink == [q \in Requests |-> IF q = desk THEN l2 ELSE l1]
MCEmail == [q \in Requests |-> IF q = form2 THEN a2 ELSE a1]

(***************************************************************************)
(* One address through form, desk and import, at the desk in another link; *)
(* two submissions of one link, or one made twice; an import of an address *)
(* that is being submitted.                                                *)
(***************************************************************************)
MixedTraffic == {{form, desk, rename}, {form, form2}, {form, again}, {skip, form}, {flag, form}}

RushTraffic == {{form, form2}}

\* Codes are only compared with each other.
CodeSymmetry == Permutations(Codes)
=============================================================================
