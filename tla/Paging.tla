------------------------------- MODULE Paging -------------------------------
(***************************************************************************)
(* The offset pages of portfolios and of analysis snapshots: list reads    *)
(* its items and its total by two statements, between which others commit, *)
(* and a client walks from page to page while the listing grows.           *)
(***************************************************************************)
EXTENDS Integers, FiniteSets

CONSTANTS
  Sessions,   \* units of work that insert
  Scopes,     \* owners of portfolios, or portfolios of snapshots
  Times,      \* values of created_at or generated_at
  Ids,        \* uuids, by their order
  Limits      \* page sizes clients ask for

ASSUME PagingAssumption ==
  /\ Times \subseteq Int /\ Ids \subseteq Int
  /\ Limits \subseteq Nat \ {0}

VARIABLES
  rows,    \* committed rows: [scope, at, id]
  open,    \* the row each session has inserted and not committed
  walk     \* a client walking the pages of a scope

vars == <<rows, open, walk>>

Row == [scope : Scopes, at : Times, id : Ids]

(* WHERE owner_id or portfolio_id is the scope.                            *)
Of(scope) == {r \in rows : r.scope = scope}

(* Mutant: rows of one instant come as the plan has them.                  *)
NewerByTime(r, q) ==
  \/ r.at > q.at
  \/ r.at = q.at /\ IF Cardinality(rows) % 2 = 0 THEN r.id > q.id ELSE r.id < q.id

(* order_by(created_at.desc(), id.desc()).                                 *)
Newer(r, q) == r.at > q.at \/ (r.at = q.at /\ r.id > q.id)

Ahead(q, scope) == {r \in Of(scope) : Newer(r, q)}

(* .limit(limit).offset(offset).                                           *)
Page(scope, limit, offset) ==
  {r \in Of(scope) : Cardinality(Ahead(r, scope)) \in offset..(offset + limit - 1)}

(* before: the rows of the scope when the walk began; begun: how many they *)
(* were when the request for this page began; seen: on the pages so far.   *)
Walk ==
  [at : {"rest", "items", "count", "page", "done"},
   scope : Scopes, limit : Limits, offset : Nat, total : Nat, begun : Nat,
   items : SUBSET rows, before : SUBSET rows, seen : SUBSET rows]

(* No walk, or the beginning of one.                                       *)
Rest(scope, limit) ==
  [at |-> "rest", scope |-> scope, limit |-> limit, offset |-> 0, items |-> {},
   total |-> 0, begun |-> 0, before |-> {}, seen |-> {}]

Init ==
  /\ rows = {} /\ open = [s \in Sessions |-> {}]
  /\ \E scope \in Scopes, limit \in Limits : walk = Rest(scope, limit)

(* add: the time of the row is that of the transaction, or of a clock read *)
(* before it; clocks are not synchronized, so it may be any.               *)
Insert(s, row) ==
  /\ open[s] = {}
  /\ \A r \in rows \cup UNION {open[x] : x \in Sessions} : r.id # row.id
  /\ open' = [open EXCEPT ![s] = {row}]
  /\ UNCHANGED <<rows, walk>>

Commit(s) ==
  /\ open[s] # {}
  /\ rows' = rows \cup open[s]
  /\ open' = [open EXCEPT ![s] = {}]
  /\ walk' = walk

Rollback(s) ==
  /\ open[s] # {}
  /\ open' = [open EXCEPT ![s] = {}]
  /\ UNCHANGED <<rows, walk>>

(* A client asks for the first page of a scope that is its own.            *)
Start(scope, limit) ==
  /\ walk.at = "rest"
  /\ walk' = [Rest(scope, limit) EXCEPT !.at = "items", !.before = Of(scope),
                                        !.begun = Cardinality(Of(scope))]
  /\ UNCHANGED <<rows, open>>

(* list_for_owner or list_for_portfolio.                                   *)
SelectItems ==
  /\ walk.at = "items"
  /\ walk' = [walk EXCEPT !.at = "count",
                          !.items = Page(walk.scope, walk.limit, walk.offset)]
  /\ UNCHANGED <<rows, open>>

(* Mutant: the rows were counted before the items were read.               *)
CountFirst ==
  /\ walk.at = "count"
  /\ walk' = [walk EXCEPT !.at = "page", !.total = walk.begun]
  /\ UNCHANGED <<rows, open>>

(* count_for_owner or count_for_portfolio, in the same transaction but, at *)
(* READ COMMITTED, by a snapshot of its own; the page is returned.         *)
Count ==
  /\ walk.at = "count"
  /\ walk' = [walk EXCEPT !.at = "page", !.total = Cardinality(Of(walk.scope))]
  /\ UNCHANGED <<rows, open>>

(* The client reads the page, and asks for the next one if there is one.   *)
Turn ==
  /\ walk.at = "page"
  /\ LET more == walk.offset + walk.limit < walk.total
     IN  walk' = [walk EXCEPT !.at = IF more THEN "items" ELSE "done",
                              !.offset = IF more THEN @ + walk.limit ELSE @,
                              !.seen = @ \cup walk.items, !.items = {}, !.total = 0,
                              !.begun = Cardinality(Of(walk.scope))]
  /\ UNCHANGED <<rows, open>>

(* The request fails, or its response is lost; the page is asked for again.*)
Retry ==
  /\ walk.at \in {"count", "page"}
  /\ walk' = [walk EXCEPT !.at = "items", !.items = {}, !.total = 0,
                          !.begun = Cardinality(Of(walk.scope))]
  /\ UNCHANGED <<rows, open>>

Leave ==
  /\ walk.at # "rest"
  /\ walk' = Rest(walk.scope, walk.limit)
  /\ UNCHANGED <<rows, open>>

Create(s) == (\E row \in Row : Insert(s, row)) \/ Commit(s) \/ Rollback(s)
List == SelectItems \/ Count

Next ==
  \/ \E s \in Sessions : Create(s)
  \/ \E scope \in Scopes, limit \in Limits : Start(scope, limit)
  \/ List \/ Turn \/ Retry \/ Leave

Spec == Init /\ [][Next]_vars

-----------------------------------------------------------------------------
(* Type invariant: ids are unique and a page holds rows of its scope only. *)
TypeOK ==
  /\ rows \subseteq Row /\ \A r, q \in rows : r.id = q.id => r = q
  /\ open \in [Sessions -> SUBSET Row]
  /\ walk \in Walk
  /\ \A r \in walk.items \cup walk.before \cup walk.seen : r.scope = walk.scope

(* A page never shows more than its limit and its total admit, although    *)
(* items and total are read by statements that see different tables.       *)
TotalAdmitsItems == walk.at = "page" /\ walk.items # {} =>
  /\ Cardinality(walk.items) <= walk.limit
  /\ walk.offset + Cardinality(walk.items) <= walk.total

(* The total was true at some moment of the request.                       *)
TotalTrue == walk.at = "page" => walk.total \in walk.begun..Cardinality(Of(walk.scope))

(* A walk that goes on while offset + limit < total misses no row that was *)
(* there when it began, however many rows are committed meanwhile, in any  *)
(* place of the order: they may repeat rows on later pages, never hide one.*)
WalkComplete == walk.at = "done" => walk.before \subseteq walk.seen
=============================================================================
