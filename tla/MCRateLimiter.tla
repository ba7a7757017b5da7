---------------------------- MODULE MCRateLimiter ----------------------------
(* Instances of RateLimiter for TLC: a pool that runs code, one that       *)
(* searches, and one of each with the limiter turned off.                  *)
EXTENDS RateLimiter, TLC

CONSTANTS code, search, freeCode, freeSearch

MCPools == {code, search, freeCode, freeSearch}
MCKind == code :> "code" @@ search :> "search" @@ freeCode :> "code" @@ freeSearch :> "search"
MCLimited == code :> TRUE @@ search :> TRUE @@ freeCode :> FALSE @@ freeSearch :> FALSE
MCRate == code :> 1 @@ search :> 2 @@ freeCode :> 1 @@ freeSearch :> 1
MCWorkers == code :> 2 @@ search :> 2 @@ freeCode :> 1 @@ freeSearch :> 1

=============================================================================
