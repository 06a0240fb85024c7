--------------------------- MODULE HoldingsReplay ---------------------------
(***************************************************************************)
(* The loop of derive_positions: the rows are sorted, the quantities are   *)
(* updated in that order, and the first SELL below zero raises.  Holdings  *)
(* says the same without a loop; LoopAgrees of Valuation compares the two. *)
(***************************************************************************)
EXTENDS Holdings

(* The locals: the dict, [symbols met so far -> quantity], and the raise.  *)
Empty == [quantities |-> << >>, raised |-> FALSE]

(* quantities.get(symbol, Decimal(0)).                                     *)
Current(l, sym) == IF sym \in DOMAIN l.quantities THEN l.quantities[sym] ELSE 0

Assign(l, sym, q) ==
  [l EXCEPT !.quantities = [s \in DOMAIN @ \cup {sym} |-> IF s = sym THEN q ELSE @[s]]]

(* Mutant: off by one, a SELL that closes its position raises.             *)
StepButOne(l, t) ==
  LET updated == Current(l, t.sym) + SignedQuantity(t) IN
  CASE l.raised \/ t.kind \notin {"BUY", "SELL"} -> l
    [] ~l.raised /\ t.kind = "BUY"               -> Assign(l, t.sym, updated)
    [] ~l.raised /\ t.kind = "SELL"              ->
         IF updated <= 0 THEN [l EXCEPT !.raised = TRUE] ELSE Assign(l, t.sym, updated)

(* One pass of the loop's body; once it has raised, no further row counts. *)
Step(l, t) ==
  LET updated == Current(l, t.sym) + SignedQuantity(t) IN
  CASE l.raised \/ t.kind \notin {"BUY", "SELL"} -> l
    [] ~l.raised /\ t.kind = "BUY"               -> Assign(l, t.sym, updated)
    [] ~l.raised /\ t.kind = "SELL"              ->
         IF updated < 0 THEN [l EXCEPT !.raised = TRUE] ELSE Assign(l, t.sym, updated)

(* The n-th row of sorted(transactions, key=_ledger_order).                *)
Nth(txs, n) == CHOOSE t \in txs : Cardinality(UpTo(txs, t)) = n

(* The locals after the first n rows, and after all.                       *)
Loop(txs) ==
  LET after[n \in 0..Cardinality(txs)] ==
        IF n = 0 THEN Empty ELSE Step(after[n - 1], Nth(txs, n))
  IN  after[Cardinality(txs)]
Raises(txs) == Loop(txs).raised

(* The tuple of positions the loop's caller gets.                          *)
Returned(txs) ==
  LET q == Loop(txs).quantities IN [s \in {u \in DOMAIN q : q[u] # 0} |-> q[s]]
=============================================================================
