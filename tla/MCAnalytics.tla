----------------------------- MODULE MCAnalytics -----------------------------
(***************************************************************************)
(* Analyses of up to three symbols with two attempts each, one after the   *)
(* other, and logins, on a pool of two threads: too few for one analysis,  *)
(* and what it abandons is still there when the next one asks.             *)
(***************************************************************************)
EXTENDS Analytics

CONSTANTS r1, l1, aapl, msft, spy, t1, t2

MCRequests == {r1}
MCLogins == {l1}
MCSymbols == {aapl, msft, spy}
MCThreads == {t1, t2}
=============================================================================
