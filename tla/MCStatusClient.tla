--------------------------- MODULE MCStatusClient ---------------------------
(***************************************************************************)
(* Values for StatusClient: one kind of request and two callers.  A read   *)
(* that asks for age 0 calls a snapshot of age 2 stale; one that asks for  *)
(* 2 accepts what the cache's reuse_ttl of 1 calls expired.                *)
(***************************************************************************)
EXTENDS StatusClient, TLC

CONSTANTS t1, t2, usage, allow

MCCallers == {t1, t2}
MCMetrics == {usage}
MCPolicies == {allow}
MCTimes == {0, 2}
MCMaximumAges == {0}
LenientAges == {2}
=============================================================================
