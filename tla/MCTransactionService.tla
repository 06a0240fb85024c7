------------------------ MODULE MCTransactionService ------------------------
(***************************************************************************)
(* Two portfolios of two owners, contended external ids, a double spend of *)
(* one BUY, a back-dated SELL, a shared asset and a stranger.              *)
(***************************************************************************)
EXTENDS TransactionService

MCPortfolios == {"p1", "p2"}
MCOwnerOf == [p \in MCPortfolios |-> IF p = "p1" THEN "alice" ELSE "bob"]
MCNames == {"e1", " e1", "e2", "e3", "A", "a", "none"}
MCNormal == [n \in MCNames |-> CASE n = " e1" -> "e1" [] n = "a" -> "A" [] OTHER -> n]

Trade(owner, pf, ext, kind, sym, qty, at) ==
  [owner |-> owner, pf |-> pf, ext |-> ext, kind |-> kind, sym |-> sym,
   qty |-> qty, cash |-> 0, at |-> at, exact |-> TRUE]

Buy    == Trade("alice", "p1", "e1", "BUY", "A", 1, 1)
Retry  == Trade("alice", "p1", " e1", "BUY", "a", 1, 1)
Reuse  == Trade("alice", "p1", "e1", "BUY", "A", 1, 2)
Sell   == Trade("alice", "p1", "e2", "SELL", "A", 1, 2)
Spend  == Trade("alice", "p1", "e3", "SELL", "A", 1, 1)
Alien  == Trade("bob", "p1", "e3", "BUY", "A", 1, 1)
Other  == Trade("bob", "p2", "e1", "BUY", "A", 1, 1)
Ghost  == Trade("bob", "p3", "e1", "BUY", "A", 1, 1)
Cash   == [Trade("alice", "p1", "e1", "CASH", "none", 0, 1) EXCEPT !.cash = 1]
Scale  == [Buy EXCEPT !.exact = FALSE]

WritePayloads == {Buy, Retry, Reuse, Sell, Spend, Cash, Alien, Scale, Ghost}
RacePayloads  == {Buy, Other, Alien}

(* WritePayloads can leave two rows in p1, and its lock admits one builder;*)
(* RacePayloads can leave a row in each portfolio, with a builder for each.*)
WriteIds == 1..3
RaceIds == 1..4
MCTimes == 0..1
RaceTimes == {0}
=============================================================================
