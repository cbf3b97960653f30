----------------------------- MODULE MCWebhooks -----------------------------
(* Instances of Webhooks for TLC: two paired sites. *)
EXTENDS Webhooks, TLC

CONSTANTS a, b, d1, d2, w1, w2, k1, k2

MCPeer == a :> b @@ b :> a
=============================================================================
