------------------------ MODULE MCTransactionImport ------------------------
(***************************************************************************)
(* Documents whose rows depend on each other: a SELL after and before its  *)
(* BUY, an id repeated with the same and with other data; rows that        *)
(* TransactionInput rejects, blank and overlong lines, an instant UTC      *)
(* cannot hold; documents refused as a whole; other writers who compete    *)
(* for ids and positions.                                                  *)
(***************************************************************************)
EXTENDS TransactionImport

MCPortfolios == {"p1"}
MCOwnerOf == [p \in MCPortfolios |-> "alice"]
MCNames == {"e1", " e1", "e2", "e3", "e4", "A", "a", ""}
MCNormal == [n \in MCNames |-> CASE n = " e1" -> "e1" [] n = "a" -> "A" [] OTHER -> n]

Columns == <<"external_id", " transaction_type", "occurred_at", "symbol",
             "quantity", "unit_price", "cash_amount", "fees">>
MCAmounts == [t \in {"0", "1", "2", "-1"} |->
  CASE t = "0" -> 0 [] t = "1" -> 1 [] t = "2" -> 2 [] t = "-1" -> -1]
MCDates == [t \in {"jan", "feb", "year 1 +14:00"} |->
  CASE t = "jan" -> 1 [] t = "feb" -> 2 [] t = "year 1 +14:00" -> 0]
MCInstants == {1, 2}

Cells == MCNames \cup DOMAIN MCAmounts \cup DOMAIN MCDates
  \cup {Columns[i] : i \in DOMAIN Columns}
  \cup {"transaction_type", "note", "BUY", "SELL", "DEPOSIT", "  ", "torn", "today"}
MCStrip == [t \in Cells |->
  CASE t = " e1" -> "e1" [] t = "  " -> "" [] t = " transaction_type" -> "transaction_type"
    [] OTHER -> t]

Trade(ext, type, qty, at) == <<ext, type, at, "A", qty, "1">>
Buy     == Trade("e1", "BUY", "1", "jan")
Again   == <<" e1", "BUY", "jan", "a", "1", "1", "  ", "0">>
Other   == Trade("e1", "BUY", "2", "jan")
Sell    == Trade("e2", "SELL", "1", "jan")
Late    == Trade("e3", "SELL", "1", "feb")
More    == Trade("e4", "BUY", "1", "feb")
Cash    == <<"e2", "DEPOSIT", "jan", "", "", "", "2">>
Torn1   == <<"e4", "torn">>
Blank   == <<"  ", "", "  ">>
Wide    == <<"e2", "DEPOSIT", "jan", "", "", "", "2", "0", "1">>
Short   == <<"e2", "BUY", "jan">>
NoId    == <<"  ", "BUY", "jan", "A", "1", "1">>
Free    == Trade("e2", "BUY", "0", "jan")
Rebate  == <<"e2", "DEPOSIT", "jan", "", "", "", "2", "-1">>
Both    == <<"e2", "DEPOSIT", "jan", "A", "", "", "2">>
Undated == Trade("e2", "SELL", "1", "today")
Ancient == Trade("e2", "BUY", "1", "year 1 +14:00")

Doc(lines) == [owner |-> "alice", pf |-> "p1", size |-> 1, utf8 |-> TRUE, nul |-> FALSE,
               header |-> Columns, lines |-> lines]
Rows3 == Doc(<<Buy, Blank, Sell>>)

Whole ==
  {Doc(<<Buy, Sell>>), Doc(<<Sell, Buy>>), Doc(<<Buy, Blank, Again, Sell>>),
   Doc(<<Buy, Other, Late>>), Doc(<<Buy, More, <<>>, Blank, Sell, Late>>),
   Doc(<<Late, Sell, More, Buy>>), Doc(<<NoId, Buy, Cash, Short>>),
   Doc(<<Wide, Free, Rebate, Buy>>), Doc(<<Both, Undated, Buy>>),
   Doc(<<Buy, Ancient, More>>)}
Flawed ==
  {Doc(<<Buy, Torn1>>), Doc(<<Buy, More, Sell, Late, Buy>>), Doc(<<Blank, <<>> >>), Doc(<<>>),
   [Rows3 EXCEPT !.size = 2], [Rows3 EXCEPT !.utf8 = FALSE], [Rows3 EXCEPT !.nul = TRUE]}
  \cup {[Rows3 EXCEPT !.header = h] :
          h \in {<<>>, Append(Columns, "  "), Append(Columns, "fees"), SubSeq(Columns, 2, 8),
                 Append(Columns, "note"), Append(Columns, "torn")}}

MCDocuments ==
  Whole \cup Flawed
    \cup {[d EXCEPT !.owner = "bob"] : d \in {Doc(<<Buy>>), Doc(<<Buy, Torn1>>)}}
    \cup {[Doc(<<Buy>>) EXCEPT !.pf = "p2"]}

Post(ext, kind, qty, at) ==
  [owner |-> "alice", pf |-> "p1", ext |-> ext, kind |-> kind, sym |-> "A",
   qty |-> qty, cash |-> 0, at |-> at, exact |-> TRUE]
MCPayloads ==
  {Post("e1", "BUY", 1, 1), Post("e1", "BUY", 2, 1), Post("e2", "SELL", 1, 1),
   Post("e3", "SELL", 1, 2), Post("e4", "BUY", 1, 2)}

MCIds == 1..8
=============================================================================
