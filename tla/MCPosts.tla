------------------------------- MODULE MCPosts -------------------------------
(* Instances of Posts for TLC. *)
EXTENDS Posts

CONSTANTS p1, stuck, web, scribe, worker, ticker
=============================================================================
