---------------------------- MODULE MCRateLimiter ----------------------------
(***************************************************************************)
(* Windows of three seconds of four ticks, a budget of one request, two    *)
(* instances one tick apart, scripts that run up to two ticks late.        *)
(***************************************************************************)
EXTENDS RateLimiter, TLC

CONSTANTS w1, w2

MCWorkers == {w1, w2}
MCSkew == w1 :> 0 @@ w2 :> 1
=============================================================================
