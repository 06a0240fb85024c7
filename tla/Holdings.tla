------------------------------ MODULE Holdings ------------------------------
(***************************************************************************)
(* The position replay of domain/holdings.py, as operators on finite sets  *)
(* of ledger rows.  A row is a record with at least the fields             *)
(*   id       the UUID, as its rank (Python and Postgres order it alike)   *)
(*   kind     "BUY", "SELL" or "CASH" (DEPOSIT and WITHDRAWAL hold nothing)*)
(*   sym, qty the traded symbol and its quantity, in quanta of 10^-12      *)
(*   at       occurred_at        created   created_at                      *)
(* The Python code raises on the first SELL that exceeds the position;     *)
(* HoldingsReplay has that loop, and LoopAgrees of Valuation shows that    *)
(* these operators say the same without it.                                *)
(***************************************************************************)
EXTENDS Integers, FiniteSets, FiniteSetsExt

(* occurred_at, then created_at, then id.                                  *)
LedgerOrder(t, u) ==
  \/ t.at < u.at
  \/ t.at = u.at /\ t.created < u.created
  \/ t.at = u.at /\ t.created = u.created /\ t.id < u.id

SignedQuantity(t) == CASE t.kind = "BUY"  -> t.qty
                       [] t.kind = "SELL" -> -t.qty
                       [] OTHER           -> 0

(* What a replay of the rows in txs holds of sym.                          *)
Quantity(txs, sym) ==
  SumFunction([t \in {u \in txs : u.sym = sym} |-> SignedQuantity(t)])

(* The rows a replay has applied once it has applied t.                    *)
UpTo(txs, t) == {u \in txs : u = t \/ LedgerOrder(u, t)}

(* derive_positions(txs) returns instead of raising "SELL exceeds ...".    *)
Replays(txs) ==
  \A t \in txs : t.kind = "SELL" => Quantity(UpTo(txs, t), t.sym) >= 0

(* The positions derive_positions returns: the symbols held, non-zero.     *)
DerivePositions(txs) ==
  LET traded == {t.sym : t \in {u \in txs : u.kind \in {"BUY", "SELL"}}}
      held   == {s \in traded : Quantity(txs, s) # 0}
  IN  [s \in held |-> Quantity(txs, s)]
=============================================================================
