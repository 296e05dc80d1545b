---------------------------- MODULE MCRateLimiter ----------------------------
(***************************************************************************)
(* RateLimiter with limits of one and two requests per minute, a plan that *)
(* is misconfigured and one that was added to the database after start-up. *)
(***************************************************************************)
EXTENDS RateLimiter, TLC

CONSTANTS r1, r2, r3, ann

MCPlans == {"free", "standard", "broken", "late"}
MCPolicyOf == "free" :> 1 @@ "standard" :> 2 @@ "broken" :> 0
=============================================================================
