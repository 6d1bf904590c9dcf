---------------------------- MODULE MCSystemJobs ----------------------------
(***************************************************************************)
(* Small instances of SystemJobs.  Address `bad' makes the provider fail.  *)
(***************************************************************************)
EXTENDS SystemJobs, TLC

CONSTANTS notify, campaign, form, upload, again, twin, export, ann, ben, bad, h1, h2

Of(op, to, strategy) == [op |-> op, to |-> to, strategy |-> strategy]

AllJobs ==
  (notify :> Of("notify", <<ann>>, "SKIP")) @@
  (campaign :> Of("bulk", <<bad, NoAddress>>, "SKIP")) @@
  (form :> Of("submit", <<ann, NoAddress>>, "SKIP")) @@
  (upload :> Of("import", <<ben, NoAddress>>, "UPDATE")) @@
  (again :> Of("import", <<ann>>, "FLAG")) @@ (twin :> Of("import", <<ann>>, "SKIP")) @@
  (export :> Of("report", <<>>, "SKIP"))

MCJob == [q \in Requests |-> AllJobs[q]]

Coming(requests, w, n) == [coming |-> requests, workers |-> w, deaths |-> n]

\* Messages alone; a submission with its webhooks; an import, an import whose
\* worker may die twice, two imports of one address; a report, likewise.
JobTraffic == {Coming({notify, campaign}, 1, 1), Coming({form}, 1, 0), Coming({upload}, 1, 0),
               Coming({again}, 1, 2), Coming({again, twin}, 2, 0), Coming({export}, 1, 2)}
=============================================================================
