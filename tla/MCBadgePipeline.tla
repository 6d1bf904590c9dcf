--------------------------- MODULE MCBadgePipeline ---------------------------
(***************************************************************************)
(* Small instances of BadgePipeline.                                       *)
(***************************************************************************)
EXTENDS BadgePipeline, TLC

CONSTANTS issue, page, resend, regenerate, import, w1, w2

MCOp == (issue :> "issue") @@ (page :> "getBadge") @@ (resend :> "resend") @@
        (regenerate :> "regenerate") @@ (import :> "import")

\* A badge is issued on approval while its registrant opens the badge page;
\* the desk resends a badge and regenerates it.
SafetyTraffic == {{issue, page}, {resend, regenerate}}

\* An import issues a badge, which the desk resends.
LiveTraffic == {{import, resend}}
=============================================================================
