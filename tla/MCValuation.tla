----------------------------- MODULE MCValuation -----------------------------
(***************************************************************************)
(* Accepted ledgers of at most four rows before, in and after an interval  *)
(* of three days, and price series that are flat, move, have gaps, start   *)
(* late, go beyond the interval or have no session in it.                  *)
(***************************************************************************)
EXTENDS Valuation

Row(id, kind, sym, qty, price, cashAmount, fees, at) ==
  [id |-> id, kind |-> kind, sym |-> sym, qty |-> qty, price |-> price,
   cash |-> cashAmount, fees |-> fees, at |-> at, created |-> (id + 1) % 3]
Trade(id, kind, sym, qty, price, fees, at) == Row(id, kind, sym, qty, price, 0, fees, at)
Move(id, kind, amount, fees, at) == Row(id, kind, "none", 0, 0, amount, fees, at)

(* created_at contradicts the dates of back-dated rows, and the ids both.  *)
Pool ==
  {Trade(1, "BUY", "A", 2, 2, 0, 1), Trade(2, "BUY", "A", 1, 2, 0, 2),
   Trade(3, "SELL", "A", 1, 2, 0, 3), Trade(4, "SELL", "A", 2, 2, 1, 4),
   Trade(5, "BUY", "B", 1, 3, 0, 3), Trade(6, "BUY", "B", 1, 3, 1, 2),
   Trade(7, "SELL", "B", 1, 3, 5, 4), Trade(8, "BUY", "B", 1, 3, 0, 5),
   Move(9, "DEPOSIT", 4, 0, 2), Move(10, "DEPOSIT", 1, 2, 1),
   Move(11, "WITHDRAWAL", 2, 0, 4), Move(12, "WITHDRAWAL", 2, 0, 3)}

MCSymbols == {"A", "B"}
MCStart == 2
MCEnd == 4
MCLedgers == {S \in SUBSET Pool : Cardinality(S) <= 4 /\ Replays(S)}

Table(a, b) == [s \in MCSymbols |-> IF s = "A" THEN a ELSE b]
MCMarkets ==
  {Table(2 :> 2 @@ 3 :> 2 @@ 4 :> 2, 2 :> 3 @@ 3 :> 3 @@ 4 :> 3),
   Table(2 :> 2 @@ 4 :> 2, 3 :> 3 @@ 5 :> 3),
   Table(2 :> 2 @@ 3 :> 1 @@ 4 :> 4, 3 :> 3 @@ 4 :> 1),
   Table(4 :> 3, 1 :> 2 @@ 2 :> 3 @@ 3 :> 1 @@ 4 :> 1 @@ 5 :> 2),
   Table(1 :> 2 @@ 2 :> 2 @@ 3 :> 3, 5 :> 2)}
=============================================================================
