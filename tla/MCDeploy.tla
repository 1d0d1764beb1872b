------------------------------ MODULE MCDeploy ------------------------------
(* Two plugins that share a skill. *)
EXTENDS DeployProps, TLC

CONSTANTS k1, k2, lint, review, style, j1, p1, p2, p3

Shared == lint :> {style} @@ review :> {style}
=============================================================================
