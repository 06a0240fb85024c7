----------------------------- MODULE LedgerData -----------------------------
(***************************************************************************)
(* The data of the transaction ledger: what a client posts, the row built  *)
(* from it, and the rules a row must satisfy (application/services.py and  *)
(* domain/holdings.py).  Shared by the abstract ledger, the write path and *)
(* the CSV import.                                                         *)
(***************************************************************************)
EXTENDS Integers, Sequences, Holdings

CONSTANTS
  Portfolios,   \* the portfolios that exist
  OwnerOf,      \* [Portfolios -> owners]
  Payloads,     \* the authenticated POST bodies clients may send
  Names,        \* raw external ids and symbols
  Normal,       \* [Names -> Names]: strip() of an id, strip().upper() of a symbol
  NoName,       \* the blank or absent name
  Ids,          \* UUIDs, by rank
  Times         \* readings of the UTC clock

ASSUME OwnersAssumption == DOMAIN OwnerOf = Portfolios
ASSUME NamesAssumption  == NoName \in Names /\ Normal \in [Names -> Names]
ASSUME NormalAssumption == \A n \in Names : Normal[Normal[n]] = Normal[n]
ASSUME ClockAssumption  == Times \subseteq Nat /\ Ids \subseteq Nat

(* One NewTransaction, with the caller and the portfolio of its URL.       *)
(* exact says that every amount quantizes to its column's scale and fits.  *)
PayloadType ==
  [owner : {p.owner : p \in Payloads}, pf : {p.pf : p \in Payloads},
   ext : Names, kind : {"BUY", "SELL", "CASH"}, sym : Names,
   qty : Int, cash : Int, at : Int, exact : BOOLEAN]

ASSUME PayloadsAssumption == Payloads \subseteq PayloadType

RowType == [id : Ids, pf : {p.pf : p \in Payloads}, ext : Names,
            kind : {"BUY", "SELL", "CASH"}, sym : Names,
            qty : Int, cash : Int, at : Int, created : Times]

(* _build_transaction: names are normalised, id and created_at are new.    *)
BuildTransaction(p, id, created) ==
  [id |-> id, pf |-> p.pf, ext |-> Normal[p.ext], kind |-> p.kind,
   sym |-> Normal[p.sym], qty |-> p.qty, cash |-> p.cash, at |-> p.at,
   created |-> created]

(* _quantize_exact and validate_transaction accept the payload.            *)
IsValid(p) ==
  /\ p.exact
  /\ Normal[p.ext] # NoName
  /\ IF p.kind = "CASH"
     THEN Normal[p.sym] = NoName /\ p.qty = 0 /\ p.cash > 0
     ELSE Normal[p.sym] # NoName /\ p.qty > 0 /\ p.cash = 0

(* Mutant: created_at, new on every call, is compared too.                 *)
SameRow(t, u) ==
  /\ t.pf = u.pf /\ t.ext = u.ext /\ t.kind = u.kind /\ t.sym = u.sym
  /\ t.qty = u.qty /\ t.cash = u.cash /\ t.at = u.at /\ t.created = u.created

(* _same_transaction_payload: every field but id and created_at.           *)
SamePayload(t, u) ==
  /\ t.pf = u.pf /\ t.ext = u.ext /\ t.kind = u.kind /\ t.sym = u.sym
  /\ t.qty = u.qty /\ t.cash = u.cash /\ t.at = u.at

(* The rows of a ledger kept in commit order.                              *)
Rows(log) == {log[i] : i \in DOMAIN log}

(* SELECT ... WHERE external_id = ext over the committed rows.             *)
ByExternalId(log, ext) == {t \in Rows(log) : t.ext = ext}

(* portfolio is not None and portfolio.owner_id == owner_id.               *)
Owned(p) == p.pf \in Portfolios /\ OwnerOf[p.pf] = p.owner
=============================================================================
