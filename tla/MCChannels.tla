----------------------------- MODULE MCChannels -----------------------------
(* Every config is of one bot and has a chat of its own. *)
EXTENDS ChannelsProps

CONSTANTS c1, c2, k1, k2, b1, x, y, p1, p2

OneBot == [k \in Confs |-> b1]

ChatEach == [k \in Confs |-> IF k = k1 THEN {x} ELSE {y}]
=============================================================================
