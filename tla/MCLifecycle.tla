----------------------------- MODULE MCLifecycle -----------------------------
(***************************************************************************)
(* Instances of Lifecycle for TLC: one workspace under every interleaving, *)
(* and a team p -> c -> g, p an external agent, under one request at a     *)
(* time.                                                                   *)
(***************************************************************************)
EXTENDS LifecycleProps, TLC

CONSTANTS p, c, g, t1, t2

Alone == [w \in Ws |-> NoWs]

Team == [w \in Ws |-> CASE w = p -> NoWs [] w = g -> c [] OTHER -> p]

Sym == Permutations(Workers)
=============================================================================
