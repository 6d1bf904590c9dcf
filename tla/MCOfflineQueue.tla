--------------------------- MODULE MCOfflineQueue ---------------------------
(***************************************************************************)
(* Small instances of OfflineQueue.                                        *)
(***************************************************************************)
EXTENDS OfflineQueue, TLC

CONSTANTS s1, s2, fg1, fg2, bg

\* One scan and every kind of sync; two scans and one sync.
MCTraffic == {{s1, fg1, fg2, bg}, {s1, s2, fg1}}

LossTraffic == {{s1, s2, fg1}}
=============================================================================
