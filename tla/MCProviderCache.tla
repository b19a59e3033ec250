--------------------------- MODULE MCProviderCache ---------------------------
(***************************************************************************)
(* Values for the constants of ProviderCache.  The clock may show any      *)
(* instant of MCTimes and jump between them: with ReuseTtl = 1 and         *)
(* MaximumStaleAge = 2 an entry can be reusable, only tolerable, too old,  *)
(* and dated after the reading.                                            *)
(***************************************************************************)
EXTENDS ProviderCache, TLC

CONSTANTS t1, t2, usage, deny, allow

MCCallers == {t1, t2}
MCMetrics == {usage}
MCPolicies == {deny, allow}
MCTimes == {0, 1, 3}

(* No action prefers a caller or a policy. *)
MCSymmetry == Permutations(MCCallers) \union Permutations(MCPolicies)
=============================================================================
