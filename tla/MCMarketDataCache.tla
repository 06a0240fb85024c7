------------------------- MODULE MCMarketDataCache -------------------------
(***************************************************************************)
(* Two concurrent requests for one key around midnight.  The times keep    *)
(* the order of the defaults: mutable < historical < stale retention, and  *)
(* a backoff that fits in the operation timeout.                           *)
(***************************************************************************)
EXTENDS MarketDataCache

CONSTANTS w1, w2

MCWorkers == {w1, w2}
=============================================================================
