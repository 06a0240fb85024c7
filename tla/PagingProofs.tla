---------------------------- MODULE PagingProofs ----------------------------
(***************************************************************************)
(* Proofs that a walk over pages misses no row and that totals are true,   *)
(* for any number of sessions, rows, scopes and page sizes. The argument   *)
(* is about ranks: rows are only added, so the number of rows ahead of a   *)
(* row never falls, and a row that is not yet seen stays beyond offset.    *)
(* Then proofs that the migration requires owners without ever leaving a   *)
(* row behind that has none, for any number of sessions of either release, *)
(* and that what it does to the running release is to make it wait: every  *)
(* step is a step of Paging or leaves its variables alone, so that what    *)
(* holds of Paging holds while a deployment migrates the table.            *)
(***************************************************************************)
EXTENDS OwnerMigration, FiniteSetTheorems, TLAPS

Rank(r) == Cardinality(Ahead(r, walk.scope))
Unseen == walk.before \ walk.seen

FiniteInv == IsFiniteSet(rows) /\ \A s \in Sessions : IsFiniteSet(open[s])

(* What a session has inserted is one row, with an id of its own.          *)
FreshInv == \A s \in Sessions : \A r \in open[s] :
  /\ \A q \in rows : q.id # r.id
  /\ \A x \in Sessions : \A q \in open[x] : q.id = r.id => x = s /\ q = r

(* The total was counted after the rows that begun counts.                 *)
BegunInv == walk.at \in {"items", "count", "page"} =>
  walk.begun <= Cardinality(Of(walk.scope))

(* The rows of the beginning that are not seen are at or beyond the page,  *)
(* those not on it beyond it, and then the total says there is more.       *)
WalkInv ==
  /\ walk.at \in {"items", "count", "page"} => \A r \in Unseen : Rank(r) >= walk.offset
  /\ walk.at \in {"count", "page"} =>
       \A r \in Unseen \ walk.items : Rank(r) >= walk.offset + walk.limit
  /\ walk.at = "page" => \A r \in Unseen \ walk.items : walk.offset + walk.limit < walk.total

IInv == TypeOK /\ FiniteInv /\ FreshInv /\ BegunInv /\ WalkInv /\ TotalTrue /\ WalkComplete

-----------------------------------------------------------------------------
(* There are finitely many rows.                                           *)
LEMMA Finite ==
  ASSUME IsFiniteSet(rows), NEW scope, NEW r
  PROVE  /\ IsFiniteSet(Of(scope)) /\ Cardinality(Of(scope)) \in Nat
         /\ IsFiniteSet(Ahead(r, scope)) /\ Cardinality(Ahead(r, scope)) \in Nat
<1>1. Of(scope) \in SUBSET rows
  BY DEF Of
<1>2. Ahead(r, scope) \in SUBSET Of(scope)
  BY DEF Ahead
<1>3. IsFiniteSet(Of(scope))
  BY <1>1, FS_Subset
<1>4. IsFiniteSet(Ahead(r, scope))
  BY <1>2, <1>3, FS_Subset
<1> QED
  BY <1>3, <1>4, FS_CardinalityType

(* Rows are only added, so neither a total nor a rank ever falls.          *)
LEMMA Growth ==
  ASSUME IsFiniteSet(rows'), rows \subseteq rows', NEW scope, NEW r
  PROVE  /\ Cardinality(Of(scope)) \in Nat /\ Cardinality(Of(scope)') \in Nat
         /\ Cardinality(Of(scope)) <= Cardinality(Of(scope)')
         /\ Cardinality(Ahead(r, scope)) \in Nat /\ Cardinality(Ahead(r, scope)') \in Nat
         /\ Cardinality(Ahead(r, scope)) <= Cardinality(Ahead(r, scope)')
<1>1. Of(scope) \in SUBSET (Of(scope)') /\ Of(scope)' \in SUBSET rows'
  BY DEF Of
<1>2. Ahead(r, scope) \in SUBSET (Ahead(r, scope)') /\ Ahead(r, scope)' \in SUBSET (Of(scope)')
  BY <1>1 DEF Ahead, Newer
<1>3. IsFiniteSet(Of(scope)')
  BY <1>1, FS_Subset
<1>4. IsFiniteSet(Ahead(r, scope)')
  BY <1>2, <1>3, FS_Subset
<1>5. IsFiniteSet(Of(scope)) /\ IsFiniteSet(Ahead(r, scope))
  BY <1>1, <1>2, <1>3, <1>4, FS_Subset
<1> QED
  BY <1>1, <1>2, <1>3, <1>4, <1>5, FS_Subset, FS_CardinalityType

(* A row of the scope is not ahead of itself.                              *)
LEMMA RankBelowCount ==
  ASSUME IsFiniteSet(rows), rows \subseteq Row, NEW scope, NEW r \in Of(scope)
  PROVE  Cardinality(Ahead(r, scope)) < Cardinality(Of(scope))
<1>1. Ahead(r, scope) \in SUBSET Of(scope)
  BY DEF Ahead
<1>2. r.at \in Int /\ r.id \in Int
  BY PagingAssumption DEF Of, Row
<1>3. r \notin Ahead(r, scope)
  BY <1>2 DEF Ahead, Newer
<1>4. Ahead(r, scope) # Of(scope)
  BY <1>3
<1> QED
  BY <1>1, <1>4, Finite, FS_Subset

(* The invariant holds before the first walk.                              *)
LEMMA InitIInv == Init => IInv
  BY FS_EmptySet, PagingAssumption DEF Init, Rest, IInv, TypeOK, Walk, FiniteInv, FreshInv, BegunInv,
     WalkInv, TotalTrue, WalkComplete, Unseen

(* While others write, the walk stands still and the ranks do not fall.    *)
LEMMA CreateStep ==
  ASSUME IInv, NEW s \in Sessions, Create(s)
  PROVE  IInv'
<1> USE DEF IInv
<1>1. walk' = walk /\ rows \subseteq rows'
  BY DEF Create, Insert, Commit, Rollback
<1>2. FiniteInv'
  <2>1. IsFiniteSet({}) /\ \A row : IsFiniteSet({row})
    BY FS_EmptySet, FS_Singleton
  <2>2. IsFiniteSet(rows \cup open[s])
    BY FS_Union DEF FiniteInv
  <2>3. rows' = rows \/ rows' = rows \cup open[s]
    BY DEF Create, Insert, Commit, Rollback
  <2>4. \A x \in Sessions : IsFiniteSet(open'[x])
    <3>1. CASE \E row \in Row : Insert(s, row)
      <4>1. PICK row : open' = [open EXCEPT ![s] = {row}]
        BY <3>1 DEF Insert
      <4> QED
        BY <2>1, <4>1 DEF FiniteInv, TypeOK
    <3>2. CASE Commit(s) \/ Rollback(s)
      BY <2>1, <3>2 DEF Commit, Rollback, FiniteInv, TypeOK
    <3> QED
      BY <3>1, <3>2 DEF Create
  <2> QED
    BY <2>2, <2>3, <2>4 DEF FiniteInv
<1>3. rows' \subseteq Row /\ open' \in [Sessions -> SUBSET Row]
  BY DEF Create, Insert, Commit, Rollback, TypeOK
<1>4. \A r, q \in rows' : r.id = q.id => r = q
  BY DEF Create, Insert, Commit, Rollback, TypeOK, FreshInv
<1>5. TypeOK'
  BY <1>1, <1>3, <1>4 DEF TypeOK, Walk
<1>6. FreshInv'
  <2>1. CASE \E row \in Row : Insert(s, row)
    BY <2>1 DEF Insert, TypeOK, FreshInv
  <2>2. CASE Commit(s) \/ Rollback(s)
    BY <2>2 DEF Commit, Rollback, TypeOK, FreshInv
  <2> QED
    BY <2>1, <2>2 DEF Create
<1> PICK scope : scope = walk.scope
  OBVIOUS
<1>7. Of(walk.scope) = Of(scope) /\ Of(walk.scope)' = Of(scope)'
  BY <1>1 DEF Of
<1>8. BegunInv' /\ TotalTrue'
  <2>1. /\ Cardinality(Of(scope)) \in Nat /\ Cardinality(Of(scope)') \in Nat
        /\ Cardinality(Of(scope)) <= Cardinality(Of(scope)')
    BY <1>1, <1>2, Growth DEF FiniteInv
  <2>2. walk.begun \in Nat /\ walk.total \in Nat
    BY DEF TypeOK, Walk
  <2> QED
    BY <1>1, <1>7, <2>1, <2>2 DEF BegunInv, TotalTrue
<1>9. \A r : Rank(r) \in Nat /\ Rank(r)' \in Nat /\ Rank(r) <= Rank(r)'
  <2> SUFFICES ASSUME NEW r PROVE Rank(r) \in Nat /\ Rank(r)' \in Nat /\ Rank(r) <= Rank(r)'
    OBVIOUS
  <2>1. Ahead(r, walk.scope) = Ahead(r, scope) /\ Ahead(r, walk.scope)' = Ahead(r, scope)'
    BY <1>7 DEF Ahead
  <2> QED
    BY <1>1, <1>2, <2>1, Growth DEF FiniteInv, Rank
<1>10. WalkInv' /\ WalkComplete'
  <2>1. walk.offset \in Nat /\ walk.limit \in Nat /\ Unseen' = Unseen
    BY <1>1, PagingAssumption DEF TypeOK, Walk, Unseen
  <2> QED
    BY <1>1, <1>9, <2>1 DEF WalkInv, WalkComplete
<1> QED
  BY <1>2, <1>5, <1>6, <1>8, <1>10

(* The first page: nothing is seen yet, and no rank is below zero.         *)
LEMMA StartStep ==
  ASSUME IInv, NEW scope \in Scopes, NEW limit \in Limits, Start(scope, limit)
  PROVE  IInv'
<1> USE DEF IInv, Start
<1>1. /\ rows' = rows /\ open' = open /\ walk'.at = "items" /\ walk'.scope = scope
      /\ walk'.limit = limit /\ walk'.offset = 0 /\ walk'.total = 0 /\ walk'.items = {}
      /\ walk'.begun = Cardinality(Of(scope)) /\ walk'.before = Of(scope) /\ walk'.seen = {}
  BY DEF Rest
<1>2. Cardinality(Of(scope)) \in Nat /\ \A r : Cardinality(Ahead(r, scope)) \in Nat
  BY Finite DEF FiniteInv
<1>3. TypeOK'
  BY <1>2 DEF TypeOK, Walk, Rest, Of
<1>4. FiniteInv' /\ FreshInv'
  BY <1>1 DEF FiniteInv, FreshInv
<1>5. Of(walk.scope)' = Of(scope) /\ \A r : Rank(r)' = Cardinality(Ahead(r, scope))
  BY <1>1 DEF Rank, Ahead, Of, Newer
<1>6. BegunInv' /\ TotalTrue'
  BY <1>1, <1>2, <1>5 DEF BegunInv, TotalTrue
<1>7. WalkInv' /\ WalkComplete'
  BY <1>1, <1>2, <1>5 DEF WalkInv, WalkComplete
<1> QED
  BY <1>3, <1>4, <1>6, <1>7

(* What every step of a walk under way keeps, and the types it relies on.  *)
LEMMA WalkFacts ==
  ASSUME IInv
  PROVE  /\ walk.offset \in Nat /\ walk.limit \in Nat \ {0} /\ walk.total \in Nat
         /\ walk.begun \in Nat /\ Cardinality(Of(walk.scope)) \in Nat
         /\ \A r : Rank(r) \in Nat
         /\ \A r \in walk.before : r \in Of(walk.scope) /\ Rank(r) < Cardinality(Of(walk.scope))
  BY PagingAssumption, Finite, RankBelowCount DEF IInv, TypeOK, Walk, FiniteInv, Rank, Of

(* The items of the page are the rows of these ranks: the unseen ones that *)
(* are not among them lie beyond the page.                                 *)
LEMMA SelectItemsStep ==
  ASSUME IInv, SelectItems
  PROVE  IInv'
<1> USE DEF IInv, SelectItems
<1>1. /\ rows' = rows /\ open' = open /\ walk.at = "items" /\ walk'.at = "count"
      /\ walk'.items = Page(walk.scope, walk.limit, walk.offset)
      /\ walk'.scope = walk.scope /\ walk'.limit = walk.limit /\ walk'.offset = walk.offset
      /\ walk'.begun = walk.begun /\ walk'.before = walk.before /\ walk'.seen = walk.seen
  BY DEF TypeOK, Walk
<1>2. TypeOK'
  BY DEF TypeOK, Walk, Page, Of
<1>3. FiniteInv' /\ FreshInv'
  BY <1>1 DEF FiniteInv, FreshInv
<1>4. /\ Of(walk.scope)' = Of(walk.scope) /\ \A r : Rank(r)' = Rank(r) /\ Unseen' = Unseen
  BY <1>1 DEF Rank, Ahead, Of, Newer, Unseen
<1>5. BegunInv' /\ TotalTrue' /\ WalkComplete'
  BY <1>1, <1>4 DEF BegunInv, TotalTrue, WalkComplete
<1>6. \A r \in Unseen \ walk'.items : Rank(r) >= walk.offset + walk.limit
  <2> SUFFICES ASSUME NEW r \in Unseen \ walk'.items PROVE Rank(r) >= walk.offset + walk.limit
    OBVIOUS
  <2>1. Rank(r) >= walk.offset
    BY <1>1 DEF WalkInv
  <2>2. r \in Of(walk.scope) /\ r \notin Page(walk.scope, walk.limit, walk.offset)
    BY <1>1, WalkFacts DEF Unseen
  <2> QED
    BY <2>1, <2>2, WalkFacts DEF Page, Rank
<1>7. WalkInv'
  BY <1>1, <1>4, <1>6 DEF WalkInv
<1> QED
  BY <1>2, <1>3, <1>5, <1>7

(* The total exceeds the rank of every row it counts.                      *)
LEMMA CountStep ==
  ASSUME IInv, Count
  PROVE  IInv'
<1> USE DEF IInv, Count
<1>1. /\ rows' = rows /\ open' = open /\ walk.at = "count" /\ walk'.at = "page"
      /\ walk'.total = Cardinality(Of(walk.scope)) /\ walk'.items = walk.items
      /\ walk'.scope = walk.scope /\ walk'.limit = walk.limit /\ walk'.offset = walk.offset
      /\ walk'.begun = walk.begun /\ walk'.before = walk.before /\ walk'.seen = walk.seen
  BY DEF TypeOK, Walk
<1>2. TypeOK'
  BY WalkFacts DEF TypeOK, Walk
<1>3. FiniteInv' /\ FreshInv'
  BY <1>1 DEF FiniteInv, FreshInv
<1>4. /\ Of(walk.scope)' = Of(walk.scope) /\ \A r : Rank(r)' = Rank(r) /\ Unseen' = Unseen
  BY <1>1 DEF Rank, Ahead, Of, Newer, Unseen
<1>5. BegunInv' /\ TotalTrue' /\ WalkComplete'
  BY <1>1, <1>4, WalkFacts DEF BegunInv, TotalTrue, WalkComplete
<1>6. \A r \in Unseen \ walk.items : walk.offset + walk.limit < Cardinality(Of(walk.scope))
  BY <1>1, WalkFacts DEF WalkInv, Unseen
<1>7. WalkInv'
  BY <1>1, <1>4, <1>6 DEF WalkInv
<1> QED
  BY <1>2, <1>3, <1>5, <1>7

(* The client turns the page only if rows may be left, and loses none.     *)
LEMMA TurnStep ==
  ASSUME IInv, Turn
  PROVE  IInv'
<1> USE DEF IInv, Turn
<1> DEFINE more == walk.offset + walk.limit < walk.total
<1>1. /\ rows' = rows /\ open' = open /\ walk.at = "page"
      /\ walk'.at = IF more THEN "items" ELSE "done"
      /\ walk'.offset = IF more THEN walk.offset + walk.limit ELSE walk.offset
      /\ walk'.scope = walk.scope /\ walk'.begun = Cardinality(Of(walk.scope))
      /\ walk'.before = walk.before /\ walk'.seen = walk.seen \cup walk.items
  BY DEF TypeOK, Walk
<1>2. TypeOK'
  <2>1. walk' \in Walk
    <3> DEFINE read == [walk EXCEPT !.seen = walk.seen \cup walk.items, !.items = {},
                                    !.total = 0, !.begun = Cardinality(Of(walk.scope))]
               next == IF more THEN "items" ELSE "done"
               offset == IF more THEN walk.offset + walk.limit ELSE walk.offset
    <3>1. walk \in Walk /\ walk.seen \cup walk.items \in SUBSET rows
      BY DEF TypeOK, Walk
    <3>2. Cardinality(Of(walk.scope)) \in Nat /\ offset \in Nat
      BY WalkFacts
    <3>3. walk' = [read EXCEPT !.at = next, !.offset = offset]
      BY <3>1 DEF Walk
    <3>4. read \in Walk
      <4> HIDE DEF IInv, Turn
      <4> QED
        BY <3>1, <3>2 DEF Walk
    <3> HIDE DEF read, next, offset, Turn
    <3>5. next \in {"items", "done"}
      BY DEF next
    <3> QED
      BY <1>1, <3>2, <3>3, <3>4, <3>5 DEF Walk
  <2> QED
    BY <1>1, <2>1 DEF TypeOK, Walk
<1>3. FiniteInv' /\ FreshInv'
  BY <1>1 DEF FiniteInv, FreshInv
<1>4. /\ Of(walk.scope)' = Of(walk.scope) /\ \A r : Rank(r)' = Rank(r)
      /\ Unseen' = Unseen \ walk.items
  BY <1>1 DEF Rank, Ahead, Of, Newer, Unseen
<1>5. BegunInv' /\ TotalTrue'
  BY <1>1, <1>4, WalkFacts DEF BegunInv, TotalTrue
<1>6. WalkInv' /\ WalkComplete'
  BY <1>1, <1>4 DEF WalkInv, WalkComplete, Unseen
<1> QED
  BY <1>2, <1>3, <1>5, <1>6

(* A page asked for again, and the end of a walk.                          *)
LEMMA RetryStep ==
  ASSUME IInv, Retry \/ Leave
  PROVE  IInv'
<1> USE DEF IInv, Retry, Leave
<1>1. /\ rows' = rows /\ open' = open /\ walk'.scope = walk.scope
      /\ \/ walk'.at = "rest"
         \/ /\ walk.at \in {"count", "page"} /\ walk'.at = "items"
            /\ walk'.offset = walk.offset /\ walk'.begun = Cardinality(Of(walk.scope))
            /\ walk'.before = walk.before /\ walk'.seen = walk.seen
  <2>1. CASE Retry
    BY <2>1 DEF TypeOK, Walk
  <2>2. CASE Leave
    BY <2>2 DEF Rest
  <2> QED
    BY <2>1, <2>2
<1>2. TypeOK'
  <2>1. CASE Retry
    BY <2>1, WalkFacts DEF TypeOK, Walk
  <2>2. CASE Leave
    BY <2>2 DEF TypeOK, Walk, Rest
  <2> QED
    BY <2>1, <2>2
<1>3. FiniteInv' /\ FreshInv'
  BY <1>1 DEF FiniteInv, FreshInv
<1>4. Of(walk.scope)' = Of(walk.scope) /\ \A r : Rank(r)' = Rank(r)
  BY <1>1 DEF Rank, Ahead, Of, Newer
<1>5. BegunInv' /\ TotalTrue'
  BY <1>1, <1>4, WalkFacts DEF BegunInv, TotalTrue
<1>6. WalkInv' /\ WalkComplete'
  BY <1>1, <1>4 DEF WalkInv, WalkComplete, Unseen
<1> QED
  BY <1>2, <1>3, <1>5, <1>6

-----------------------------------------------------------------------------
(* The inductive invariant of listings and of the walks over them.         *)
THEOREM Invariance == Spec => []IInv
<1>1. Init => IInv
  BY InitIInv
<1>2. IInv /\ [Next]_vars => IInv'
  <2> SUFFICES ASSUME IInv, [Next]_vars PROVE IInv'
    OBVIOUS
  <2>1. CASE UNCHANGED vars
    BY <2>1 DEF vars, IInv, TypeOK, Walk, FiniteInv, FreshInv, BegunInv, WalkInv, TotalTrue,
       WalkComplete, Unseen, Rank, Ahead, Of, Newer
  <2> QED
    BY <2>1, CreateStep, StartStep, SelectItemsStep, CountStep, TurnStep, RetryStep
       DEF Next, List
<1> QED
  BY <1>1, <1>2, PTL DEF Spec

(* Ids stay unique and pages within their scope.                           *)
THEOREM TypeCorrect == Spec => []TypeOK
  BY Invariance, PTL DEF IInv

(* The total of every page was the number of rows of the scope at some     *)
(* moment of its request.                                                  *)
THEOREM TotalsAreTrue == Spec => []TotalTrue
  BY Invariance, PTL DEF IInv

(* No walk over the pages of a growing listing misses a row that was there *)
(* when it began.                                                          *)
THEOREM WalksAreComplete == Spec => []WalkComplete
  BY Invariance, PTL DEF IInv

-----------------------------------------------------------------------------
(* Pages and totals.  Ranks are distinct, so a page of ranks from offset on*)
(* has at most limit rows, and at most those the scope has beyond offset.  *)
LEMMA RankStrict ==
  ASSUME IsFiniteSet(rows), rows \subseteq Row, NEW scope,
         NEW r \in Of(scope), NEW q \in Of(scope), Newer(r, q)
  PROVE  Cardinality(Ahead(r, scope)) < Cardinality(Ahead(q, scope))
<1>1. \A x \in Of(scope) : x.at \in Int /\ x.id \in Int
  BY PagingAssumption DEF Of, Row
<1>2. Ahead(r, scope) \in SUBSET Ahead(q, scope)
  BY <1>1 DEF Ahead, Newer
<1>3. r \in Ahead(q, scope) /\ r \notin Ahead(r, scope)
  BY <1>1 DEF Ahead, Newer
<1> QED
  BY <1>2, <1>3, Finite, FS_Subset

(* Two rows of a listing have two ranks.                                   *)
LEMMA RankInjective ==
  ASSUME TypeOK, IsFiniteSet(rows), NEW scope, NEW r \in Of(scope), NEW q \in Of(scope),
         Cardinality(Ahead(r, scope)) = Cardinality(Ahead(q, scope))
  PROVE  r = q
<1> SUFFICES ASSUME r # q PROVE FALSE
  OBVIOUS
<1>1. r.id # q.id /\ r.id \in Int /\ q.id \in Int /\ r.at \in Int /\ q.at \in Int
  BY PagingAssumption DEF TypeOK, Of, Row
<1>2. Newer(r, q) \/ Newer(q, r)
  BY <1>1 DEF Newer
<1>3. Cardinality(Ahead(r, scope)) \in Nat /\ Cardinality(Ahead(q, scope)) \in Nat
  BY Finite
<1>4. rows \subseteq Row
  BY DEF TypeOK
<1>5. CASE Newer(r, q)
  BY <1>3, <1>4, <1>5, RankStrict
<1>6. CASE Newer(q, r)
  BY <1>3, <1>4, <1>6, RankStrict
<1> QED
  BY <1>2, <1>5, <1>6

(* A page holds at most limit rows, and there are at least that many.      *)
LEMMA PageBounds ==
  ASSUME TypeOK, IsFiniteSet(rows), NEW scope, NEW limit \in Nat \ {0}, NEW offset \in Nat
  PROVE  LET page == Page(scope, limit, offset)
         IN  /\ IsFiniteSet(page) /\ Cardinality(page) \in Nat
             /\ Cardinality(page) <= limit
             /\ page # {} => offset + Cardinality(page) <= Cardinality(Of(scope))
<1> DEFINE page == Page(scope, limit, offset)
           rank == [r \in page |-> Cardinality(Ahead(r, scope))]
           all  == Cardinality(Of(scope))
<1>1. page \in SUBSET Of(scope) /\ \A r \in page : rank[r] \in offset..(offset + limit - 1)
  BY DEF Page
<1>2. \A r, q \in page : rank[r] = rank[q] => r = q
  BY <1>1, RankInjective
<1>3. rank \in Injection(page, offset..(offset + limit - 1))
  BY <1>1, <1>2 DEF Injection, IsInjective
<1>4. /\ IsFiniteSet(offset..(offset + limit - 1))
      /\ Cardinality(offset..(offset + limit - 1)) = limit
  BY FS_Interval
<1>5. IsFiniteSet(page) /\ Cardinality(page) \in Nat /\ Cardinality(page) <= limit
  <2> HIDE DEF page, rank
  <2> QED
    BY <1>3, <1>4, FS_Injection, FS_CardinalityType
<1>6. ASSUME page # {} PROVE offset + Cardinality(page) <= all
  <2>1. all \in Nat /\ \A r \in page : rank[r] \in offset..(all - 1)
    BY <1>1, Finite, RankBelowCount DEF TypeOK
  <2>2. rank \in Injection(page, offset..(all - 1))
    BY <1>2, <2>1 DEF Injection, IsInjective
  <2>3. offset <= all - 1
    BY <1>6, <2>1
  <2>4. IsFiniteSet(offset..(all - 1)) /\ Cardinality(offset..(all - 1)) = all - offset
    BY <2>1, <2>3, FS_Interval
  <2> HIDE DEF page, rank, all
  <2>5. Cardinality(page) <= all - offset
    BY <2>2, <2>4, FS_Injection
  <2> QED
    BY <1>5, <2>1, <2>5
<1> QED
  BY <1>5, <1>6

(* What the items on their way to the client keep while rows are added.    *)
PageInv ==
  /\ walk.at \in {"count", "page"} =>
       /\ Cardinality(walk.items) \in Nat /\ Cardinality(walk.items) <= walk.limit
       /\ walk.items # {} =>
            walk.offset + Cardinality(walk.items) <= Cardinality(Of(walk.scope))
  /\ TotalAdmitsItems

(* No step makes what a page knows of the listing false.                   *)
LEMMA PageStep ==
  ASSUME IInv, IInv', PageInv, [Next]_vars
  PROVE  PageInv'
<1>1. /\ walk.offset \in Nat /\ walk.limit \in Nat \ {0}
      /\ Cardinality(Of(walk.scope)) \in Nat /\ IsFiniteSet(rows) /\ IsFiniteSet(rows')
  BY WalkFacts DEF IInv, FiniteInv
<1>2. ASSUME NEW s \in Sessions, Create(s) PROVE PageInv'
  <2>1. walk' = walk /\ rows \subseteq rows'
    BY <1>2 DEF Create, Insert, Commit, Rollback
  <2> PICK scope : scope = walk.scope
    OBVIOUS
  <2>2. Of(walk.scope) = Of(scope) /\ Of(walk.scope)' = Of(scope)'
    BY <2>1 DEF Of
  <2>3. Cardinality(Of(scope)) <= Cardinality(Of(scope)') /\ Cardinality(Of(scope)') \in Nat
    BY <1>1, <2>1, Growth
  <2> QED
    BY <1>1, <2>1, <2>2, <2>3 DEF PageInv, TotalAdmitsItems
<1>3. CASE SelectItems
  <2>1. /\ walk'.at = "count" /\ walk'.items = Page(walk.scope, walk.limit, walk.offset)
        /\ walk'.scope = walk.scope /\ walk'.limit = walk.limit /\ walk'.offset = walk.offset
        /\ Of(walk.scope)' = Of(walk.scope)
    BY <1>3 DEF SelectItems, IInv, TypeOK, Walk, Of
  <2> DEFINE page == Page(walk.scope, walk.limit, walk.offset)
  <2>2. /\ Cardinality(page) \in Nat /\ Cardinality(page) <= walk.limit
        /\ page # {} => walk.offset + Cardinality(page) <= Cardinality(Of(walk.scope))
    BY <1>1, PageBounds DEF IInv
  <2> HIDE DEF page
  <2>3. walk'.items = page
    BY <2>1 DEF page
  <2> QED
    BY <2>1, <2>2, <2>3 DEF PageInv, TotalAdmitsItems
<1>4. CASE Count
  <2>1. /\ walk.at = "count" /\ walk'.at = "page" /\ walk'.items = walk.items
        /\ walk'.total = Cardinality(Of(walk.scope)) /\ walk'.scope = walk.scope
        /\ walk'.limit = walk.limit /\ walk'.offset = walk.offset
        /\ Of(walk.scope)' = Of(walk.scope)
    BY <1>4 DEF Count, IInv, TypeOK, Walk, Of
  <2> QED
    BY <1>1, <2>1 DEF PageInv, TotalAdmitsItems
<1>5. CASE \E scope \in Scopes, limit \in Limits : Start(scope, limit)
  <2>1. walk'.at = "items"
    BY <1>5 DEF Start, Rest
  <2> QED
    BY <2>1 DEF PageInv, TotalAdmitsItems
<1>6. CASE Turn \/ Retry \/ Leave
  <2>1. walk'.at \in {"rest", "items", "done"}
    <3>1. walk \in Walk
      BY DEF IInv, TypeOK
    <3>2. CASE Turn
      BY <3>1, <3>2 DEF Turn, Walk
    <3>3. CASE Retry
      BY <3>1, <3>3 DEF Retry, Walk
    <3>4. CASE Leave
      BY <3>4 DEF Leave, Rest
    <3> QED
      BY <1>6, <3>2, <3>3, <3>4
  <2> QED
    BY <2>1 DEF PageInv, TotalAdmitsItems
<1>7. CASE UNCHANGED vars
  BY <1>7 DEF vars, PageInv, TotalAdmitsItems, Of
<1> QED
  BY <1>2, <1>3, <1>4, <1>5, <1>6, <1>7 DEF Next, List

(* No page shows more rows than its limit and its total admit.             *)
THEOREM TotalsAdmitItems == Spec => []TotalAdmitsItems
<1>1. Init => PageInv
  BY DEF Init, Rest, PageInv, TotalAdmitsItems
<1>2. IInv /\ IInv' /\ PageInv /\ [Next]_vars => PageInv'
  BY PageStep
<1>3. PageInv => TotalAdmitsItems
  BY DEF PageInv
<1> QED
  BY <1>1, <1>2, <1>3, Invariance, PTL DEF Spec

-----------------------------------------------------------------------------
(* The inductive invariant: OwnersRequired, types, and that a migration    *)
(* runs only while owners are not required.                                *)
MigrationInv ==
  /\ MigrationTypeOK
  /\ OwnersRequired
  /\ upgrade # "none" => ~required

(* The migration itself.                                                   *)
LEMMA MigrateStep ==
  ASSUME MigrationInv, Migrate
  PROVE  MigrationInv'
<1>1. CASE Check
  BY <1>1 DEF Check, MigrationInv, MigrationTypeOK, OwnersRequired, Busy
<1>2. CASE Ask
  BY <1>2 DEF Ask, MigrationInv, MigrationTypeOK, OwnersRequired, Busy
<1>3. CASE Alter
  BY <1>3 DEF Alter, MigrationInv, MigrationTypeOK, OwnersRequired, Busy
<1>4. CASE Upgraded
  BY <1>4 DEF Upgraded, MigrationInv, MigrationTypeOK, OwnersRequired, Busy
<1>5. CASE Undo
  BY <1>5 DEF Undo, MigrationInv, MigrationTypeOK, OwnersRequired, Busy
<1>6. CASE Downgrade
  BY <1>6 DEF Downgrade, MigrationInv, MigrationTypeOK, OwnersRequired, Busy
<1> QED
  BY <1>1, <1>2, <1>3, <1>4, <1>5, <1>6 DEF Migrate

(* The old release, whose sessions the locks keep away from an ALTER.      *)
LEMMA OldReleaseStep ==
  ASSUME MigrationInv, NEW s \in OldSessions, OldInsert(s) \/ OldCommit(s) \/ OldRollback(s)
  PROVE  MigrationInv'
<1>1. CASE OldInsert(s)
  <2>1. upgrade \in {"none", "checked"} /\ ~required
    BY <1>1 DEF OldInsert, Free
  <2> QED
    BY <1>1, <2>1 DEF OldInsert, MigrationInv, MigrationTypeOK, OwnersRequired
<1>2. CASE OldCommit(s)
  <2>1. upgrade # "altered" /\ ~required
    BY <1>2 DEF OldCommit, MigrationInv, OwnersRequired, Busy
  <2> QED
    BY <1>2, <2>1 DEF OldCommit, MigrationInv, MigrationTypeOK, OwnersRequired
<1>3. CASE OldRollback(s)
  BY <1>3 DEF OldRollback, MigrationInv, MigrationTypeOK, OwnersRequired, Busy
<1> QED
  BY <1>1, <1>2, <1>3

(* This release: what it opens or reads needs a lock the ALTER withholds.  *)
LEMMA ServedStep ==
  ASSUME MigrationInv, TypeOK, Served
  PROVE  MigrationInv'
<1>1. UNCHANGED <<unowned, old, required, upgrade>>
  BY DEF Served, migVars
<1>2. upgrade = "altered" => ~Busy'
  <2> SUFFICES ASSUME upgrade = "altered" PROVE ~Busy'
    OBVIOUS
  <2>1. ~Free /\ ~Busy
    BY DEF Free, MigrationInv, OwnersRequired
  <2>2. CASE \E s \in Sessions : Commit(s) \/ Rollback(s)
    BY <1>1, <2>1, <2>2 DEF Commit, Rollback, Busy
  <2>3. CASE \E scope \in Scopes, limit \in Limits : Start(scope, limit)
    BY <1>1, <2>1, <2>3 DEF Start, Rest, Busy
  <2>4. CASE Count
    BY <2>1, <2>4 DEF Count, Busy
  <2>5. CASE Turn \/ Retry \/ Leave
    <3>1. walk \in Walk
      BY DEF TypeOK
    <3>2. walk'.at # "count" /\ UNCHANGED <<rows, open>>
      <4>1. CASE Turn
        BY <3>1, <4>1 DEF Turn, Walk
      <4>2. CASE Retry
        BY <3>1, <4>2 DEF Retry, Walk
      <4>3. CASE Leave
        BY <4>3 DEF Leave, Rest
      <4> QED
        BY <2>5, <4>1, <4>2, <4>3
    <3> QED
      BY <1>1, <2>1, <3>2 DEF Busy
  <2> QED
    BY <2>1, <2>2, <2>3, <2>4, <2>5 DEF Served
<1> QED
  BY <1>1, <1>2 DEF MigrationInv, MigrationTypeOK, OwnersRequired

(* A deployment is invisible to the listings but for the wait.             *)
THEOREM MigrationRefinesPaging == MigrationSpec => Spec
<1>1. MigrationInit => Init
  BY DEF MigrationInit
<1>2. [MigrationNext]_allVars => [Next]_vars
  <2> SUFFICES ASSUME [MigrationNext]_allVars PROVE [Next]_vars
    OBVIOUS
  <2>1. CASE Served
    BY <2>1 DEF Served, Next, Create, List
  <2>2. CASE Migrate
    BY <2>2 DEF Migrate, Check, Ask, Alter, Upgraded, Undo, Downgrade, vars
  <2>3. CASE Repair \/ \E s \in OldSessions : OldInsert(s) \/ OldCommit(s) \/ OldRollback(s)
    BY <2>3 DEF Repair, OldInsert, OldCommit, OldRollback, vars
  <2>4. CASE UNCHANGED allVars
    BY <2>4 DEF allVars, vars
  <2> QED
    BY <2>1, <2>2, <2>3, <2>4 DEF MigrationNext
<1> QED
  BY <1>1, <1>2, PTL DEF MigrationSpec, Spec

(* Deployments require owners all or nothing, whoever writes meanwhile.    *)
THEOREM OwnersAreRequired == MigrationSpec => []OwnersRequired
<1>1. MigrationInit => MigrationInv
  <2> SUFFICES ASSUME MigrationInit PROVE MigrationInv
    OBVIOUS
  <2>1. unowned = 0 /\ old = {} /\ required = FALSE /\ upgrade = "none"
    BY DEF MigrationInit
  <2>2. MigrationTypeOK
    BY <2>1 DEF MigrationTypeOK
  <2>3. OwnersRequired
    BY <2>1 DEF OwnersRequired
  <2> QED
    BY <2>1, <2>2, <2>3 DEF MigrationInv
<1>2. MigrationInv /\ TypeOK /\ [MigrationNext]_allVars => MigrationInv'
  <2> SUFFICES ASSUME MigrationInv, TypeOK, [MigrationNext]_allVars PROVE MigrationInv'
    OBVIOUS
  <2>1. CASE Repair
    BY <2>1 DEF Repair, MigrationInv, MigrationTypeOK, OwnersRequired, Busy
  <2>2. CASE UNCHANGED allVars
    BY <2>2 DEF allVars, MigrationInv, MigrationTypeOK, OwnersRequired, Busy
  <2> QED
    BY <2>1, <2>2, MigrateStep, OldReleaseStep, ServedStep DEF MigrationNext
<1>3. MigrationInv => OwnersRequired
  BY DEF MigrationInv
<1>4. MigrationSpec => []TypeOK
  BY MigrationRefinesPaging, TypeCorrect, PTL
<1> QED
  BY <1>1, <1>2, <1>3, <1>4, PTL DEF MigrationSpec

(* So no walk of pages misses a row while the table is migrated under it.  *)
COROLLARY WalksSurviveMigration == MigrationSpec => []WalkComplete
  BY MigrationRefinesPaging, WalksAreComplete, PTL
=============================================================================
