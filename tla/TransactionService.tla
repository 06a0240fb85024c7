------------------------- MODULE TransactionService -------------------------
(***************************************************************************)
(* TransactionService.create over SqlAlchemyUnitOfWork and Postgres at     *)
(* READ COMMITTED.  A worker is one request's task with its own session;   *)
(* each SQL statement is an action, so other sessions run between any two. *)
(* Rows and assets written by a session are invisible to the others until  *)
(* it commits, and the unique indexes make a second writer wait for it.    *)
(***************************************************************************)
EXTENDS LedgerData

CONSTANTS Workers, NoWorker, NoPayload, NoRow

ASSUME SentinelAssumption ==
  /\ NoWorker \notin Workers
  /\ NoPayload \notin Payloads
  /\ NoRow \notin RowType

VARIABLES
  clock,    \* datetime.now(UTC)
  ledger,   \* [Portfolios -> Seq(RowType)]: committed transactions, in commit order
  assets,   \* committed symbols of the assets table
  lockOf,   \* [Portfolios -> Workers or NoWorker]: who holds SELECT ... FOR UPDATE
  pc,       \* the statement each worker runs next
  req,      \* the payload it serves
  tx,       \* the Transaction it built, or the existing one it will return
  newAsset, \* the asset rows it inserted and has not committed
  answer    \* what it will return or raise, "none" while it has not decided

vars == <<clock, ledger, assets, lockOf, pc, req, tx, newAsset, answer>>

Steps == {"idle", "lock", "build", "lookup", "replay", "asset", "select",
          "insert", "commit", "close"}

Answers == {"none", "created", "replayed", "conflict", "invalid",
            "not_found", "error"}

Init ==
  /\ clock \in {t \in Times : \A u \in Times : t <= u}
  /\ ledger = [p \in Portfolios |-> <<>>]
  /\ assets = {}
  /\ lockOf = [p \in Portfolios |-> NoWorker]
  /\ pc = [w \in Workers |-> "idle"]
  /\ req = [w \in Workers |-> NoPayload]
  /\ tx = [w \in Workers |-> NoRow]
  /\ newAsset = [w \in Workers |-> {}]
  /\ answer = [w \in Workers |-> "none"]

Goto(w, step) == pc' = [pc EXCEPT ![w] = step]

(* return or raise inside the unit of work: only close() is left to do.    *)
Decide(w, verdict) ==
  /\ Goto(w, "close")
  /\ answer' = [answer EXCEPT ![w] = verdict]

UsedIds == {t.id : t \in UNION {Rows(ledger[p]) : p \in Portfolios}}
               \cup {tx[w].id : w \in {v \in Workers : tx[v] # NoRow}}

(* A client posts; nothing stops it from posting the same payload again.   *)
Submit(w, p) ==
  /\ pc[w] = "idle"
  /\ Goto(w, "lock")
  /\ req' = [req EXCEPT ![w] = p]
  /\ UNCHANGED <<clock, ledger, assets, lockOf, tx, newAsset, answer>>

(* Mutant: get instead of get_for_update, so two calls share a portfolio.  *)
GetWithoutLock(w) ==
  LET p == req[w] IN
  /\ pc[w] = "lock"
  /\ IF Owned(p) THEN Goto(w, "build") /\ answer' = answer ELSE Decide(w, "not_found")
  /\ UNCHANGED <<clock, ledger, assets, lockOf, req, tx, newAsset>>

(* get_for_update, then the owner check: the row is locked by its id alone,*)
(* so a caller who does not own it holds the lock until it closes.         *)
GetForUpdate(w) ==
  LET p == req[w] IN
  /\ pc[w] = "lock"
  /\ \/ /\ p.pf \notin Portfolios
        /\ Decide(w, "not_found")
        /\ lockOf' = lockOf
     \/ /\ p.pf \in Portfolios
        /\ lockOf[p.pf] = NoWorker
        /\ lockOf' = [lockOf EXCEPT ![p.pf] = w]
        /\ IF OwnerOf[p.pf] = p.owner
           THEN Goto(w, "build") /\ answer' = answer
           ELSE Decide(w, "not_found")
  /\ UNCHANGED <<clock, ledger, assets, req, tx, newAsset>>

(* Mutant: created_at comes from a clock read before the lock was granted. *)
BuildWithEarlyClock(w) ==
  /\ pc[w] = "build"
  /\ IF IsValid(req[w])
     THEN /\ Goto(w, "lookup")
          /\ \E id \in Ids \ UsedIds, t \in {u \in Times : u <= clock} :
               tx' = [tx EXCEPT ![w] = BuildTransaction(req[w], id, t)]
          /\ answer' = answer
     ELSE Decide(w, "invalid") /\ tx' = tx
  /\ UNCHANGED <<clock, ledger, assets, lockOf, req, newAsset>>

(* _build_transaction and validate_transaction: the id and the clock are   *)
(* read here, under the lock.  An instant UTC cannot hold raises           *)
(* OverflowError in the former, a 500 that leaves nothing, as Abort does.  *)
Build(w) ==
  /\ pc[w] = "build"
  /\ IF IsValid(req[w])
     THEN /\ Goto(w, "lookup")
          /\ \E id \in Ids \ UsedIds :
               tx' = [tx EXCEPT ![w] = BuildTransaction(req[w], id, clock)]
          /\ answer' = answer
     ELSE Decide(w, "invalid") /\ tx' = tx
  /\ UNCHANGED <<clock, ledger, assets, lockOf, req, newAsset>>

(* Mutant: any row with the id is a replay, its payload is not compared.   *)
LookupById(w) ==
  LET known == ByExternalId(ledger[tx[w].pf], tx[w].ext) IN
  /\ pc[w] = "lookup"
  /\ \/ /\ known = {}
        /\ Goto(w, "replay")
        /\ UNCHANGED <<tx, answer>>
     \/ \E e \in known : Decide(w, "replayed") /\ tx' = [tx EXCEPT ![w] = e]
  /\ UNCHANGED <<clock, ledger, assets, lockOf, req, newAsset>>

(* get_by_external_id and the idempotency decision.                        *)
Lookup(w) ==
  LET known == ByExternalId(ledger[tx[w].pf], tx[w].ext) IN
  /\ pc[w] = "lookup"
  /\ \/ /\ known = {}
        /\ Goto(w, "replay")
        /\ UNCHANGED <<tx, answer>>
     \/ \E e \in known :
          IF SamePayload(e, tx[w])
          THEN Decide(w, "replayed") /\ tx' = [tx EXCEPT ![w] = e]
          ELSE Decide(w, "conflict") /\ tx' = tx
  /\ UNCHANGED <<clock, ledger, assets, lockOf, req, newAsset>>

(* list_for_portfolio, and derive_positions over it and the new row.       *)
ReplayLedger(w) ==
  /\ pc[w] = "replay"
  /\ IF Replays(Rows(ledger[tx[w].pf]) \cup {tx[w]})
     THEN Goto(w, "asset") /\ answer' = answer
     ELSE Decide(w, "invalid")
  /\ UNCHANGED <<clock, ledger, assets, lockOf, req, tx, newAsset>>

(* _asset_id: INSERT ... ON CONFLICT DO NOTHING waits for a session that   *)
(* has inserted the symbol and not ended, and returns no row if it exists. *)
InsertAsset(w) ==
  LET sym == tx[w].sym IN
  /\ pc[w] = "asset"
  /\ \/ /\ sym = NoName
        /\ Goto(w, "insert")
        /\ newAsset' = newAsset
     \/ /\ sym # NoName
        /\ \A v \in Workers \ {w} : sym \notin newAsset[v]
        /\ IF sym \in assets
           THEN Goto(w, "select") /\ newAsset' = newAsset
           ELSE /\ Goto(w, "insert")
                /\ newAsset' = [newAsset EXCEPT ![w] = {sym}]
  /\ UNCHANGED <<clock, ledger, assets, lockOf, req, tx, answer>>

(* _asset_id: the SELECT after a conflict; None raises RuntimeError.       *)
SelectAsset(w) ==
  /\ pc[w] = "select"
  /\ IF tx[w].sym \in assets
     THEN Goto(w, "insert") /\ answer' = answer
     ELSE Decide(w, "error")
  /\ UNCHANGED <<clock, ledger, assets, lockOf, req, tx, newAsset>>

(* flush(): the INSERT waits for a session that has flushed the same key,  *)
(* and a committed row with it is an IntegrityError nothing handles.       *)
Insert(w) ==
  /\ pc[w] = "insert"
  /\ \A v \in Workers \ {w} :
       pc[v] = "commit" => <<tx[v].pf, tx[v].ext>> # <<tx[w].pf, tx[w].ext>>
  /\ IF ByExternalId(ledger[tx[w].pf], tx[w].ext) = {}
     THEN Goto(w, "commit") /\ answer' = answer
     ELSE Decide(w, "error")
  /\ UNCHANGED <<clock, ledger, assets, lockOf, req, tx, newAsset>>

Unlocked(w) == [p \in Portfolios |-> IF lockOf[p] = w THEN NoWorker ELSE lockOf[p]]

(* Mutant: the posted body is stored, not the Transaction built from it.   *)
CommitPayload(w) ==
  /\ pc[w] = "commit"
  /\ Decide(w, "created")
  /\ ledger' = [ledger EXCEPT ![tx[w].pf] = Append(@, req[w])]
  /\ assets' = assets \cup newAsset[w]
  /\ newAsset' = [newAsset EXCEPT ![w] = {}]
  /\ lockOf' = Unlocked(w)
  /\ UNCHANGED <<clock, req, tx>>

(* Mutant: a commit whose acknowledgement is lost is run again.            *)
CommitUntilAcknowledged(w) ==
  /\ pc[w] = "commit"
  /\ Decide(w, "created") \/ UNCHANGED <<pc, answer>>
  /\ ledger' = [ledger EXCEPT ![tx[w].pf] = Append(@, tx[w])]
  /\ assets' = assets \cup newAsset[w]
  /\ newAsset' = [newAsset EXCEPT ![w] = {}]
  /\ lockOf' = Unlocked(w)
  /\ UNCHANGED <<clock, req, tx>>

(* commit(): rows and asset become visible and the lock goes, at once.     *)
Commit(w) ==
  /\ pc[w] = "commit"
  /\ Decide(w, "created")
  /\ ledger' = [ledger EXCEPT ![tx[w].pf] = Append(@, tx[w])]
  /\ assets' = assets \cup newAsset[w]
  /\ newAsset' = [newAsset EXCEPT ![w] = {}]
  /\ lockOf' = Unlocked(w)
  /\ UNCHANGED <<clock, req, tx>>

(* Mutant: the connection returns to the pool with its transaction open.   *)
EndSessionKeepingLock(w) ==
  /\ pc' = [pc EXCEPT ![w] = "idle"]
  /\ req' = [req EXCEPT ![w] = NoPayload]
  /\ tx' = [tx EXCEPT ![w] = NoRow]
  /\ newAsset' = [newAsset EXCEPT ![w] = {}]
  /\ answer' = [answer EXCEPT ![w] = "none"]
  /\ UNCHANGED <<clock, ledger, assets, lockOf>>

(* The session ends: what it did not commit is rolled back, its locks go,  *)
(* and the worker is free.                                                 *)
EndSession(w) ==
  /\ pc' = [pc EXCEPT ![w] = "idle"]
  /\ req' = [req EXCEPT ![w] = NoPayload]
  /\ tx' = [tx EXCEPT ![w] = NoRow]
  /\ newAsset' = [newAsset EXCEPT ![w] = {}]
  /\ answer' = [answer EXCEPT ![w] = "none"]
  /\ lockOf' = Unlocked(w)
  /\ UNCHANGED <<clock, ledger, assets>>

(* __aexit__, and the response or the error reaches the client.            *)
Close(w) == pc[w] = "close" /\ EndSession(w)

(* A crash, a cancelled request, a lost connection: the database rolls the *)
(* session back.  After Commit it is the lost response of a created row.   *)
Abort(w) == pc[w] # "idle" /\ EndSession(w)

Tick ==
  /\ clock' \in {t \in Times : t > clock}
  /\ UNCHANGED <<ledger, assets, lockOf, pc, req, tx, newAsset, answer>>

Serve(w) ==
  \/ GetForUpdate(w) \/ Build(w) \/ Lookup(w) \/ ReplayLedger(w)
  \/ InsertAsset(w) \/ SelectAsset(w) \/ Insert(w) \/ Commit(w) \/ Close(w)

Next ==
  \/ Tick
  \/ \E w \in Workers : (\E p \in Payloads : Submit(w, p)) \/ Serve(w) \/ Abort(w)

Spec == Init /\ [][Next]_vars

(* A task that can run a statement runs it (the event loop and Postgres    *)
(* starve nobody), and Postgres hands a contended lock to its waiters in   *)
(* turn, so a wait that can end infinitely often does end.                 *)
Fairness == \A w \in Workers :
  /\ WF_vars(Serve(w))
  /\ SF_vars(GetForUpdate(w))
  /\ SF_vars(InsertAsset(w))
  /\ SF_vars(Insert(w))

FairSpec == Spec /\ Fairness

-----------------------------------------------------------------------------
(* Type invariant of the database, of the sessions' locals and of the      *)
(* answers TransactionService.create can give.                             *)
TypeOK ==
  /\ clock \in Times
  /\ ledger \in [Portfolios -> Seq(RowType)]
  /\ assets \subseteq Names
  /\ lockOf \in [Portfolios -> Workers \cup {NoWorker}]
  /\ pc \in [Workers -> Steps]
  /\ req \in [Workers -> Payloads \cup {NoPayload}]
  /\ tx \in [Workers -> RowType \cup {NoRow}]
  /\ newAsset \in [Workers -> SUBSET Names]
  /\ answer \in [Workers -> Answers]

(* Every committed ledger replays without a SELL that exceeds its position,*)
(* whatever order concurrent and back-dated writes were committed in.      *)
LedgerReplays == \A p \in Portfolios : Replays(Rows(ledger[p]))

(* An external id names at most one row of a portfolio, through retries,   *)
(* lost responses and concurrent posts of the same id.                     *)
ExternalIdUnique == \A p \in Portfolios : \A i, j \in DOMAIN ledger[p] :
  ledger[p][i].ext = ledger[p][j].ext => i = j

(* The two failures the code leaves to the database are unreachable: the   *)
(* unique index of transactions never fires and the asset upsert always    *)
(* finds its row, so neither becomes a 500.                                *)
NoServerError == \A w \in Workers : answer[w] # "error"

(* An answer is true when it is given: created and replayed name a         *)
(* committed row with the caller's payload; conflict means another payload *)
(* has the id; a well-formed payload is called invalid only if its id is   *)
(* still free, so a retry of a created row is never refused.               *)
AnswersTruthful == \A w \in Workers :
  LET p    == req[w]
      log  == ledger[p.pf]
      mine == BuildTransaction(p, tx[w].id, tx[w].created)
  IN /\ answer[w] \in {"created", "replayed"} =>
          Owned(p) /\ tx[w] \in Rows(log) /\ SamePayload(tx[w], mine)
     /\ answer[w] = "conflict" =>
          \E e \in ByExternalId(log, mine.ext) : ~SamePayload(e, mine)
     /\ answer[w] = "invalid" /\ IsValid(p) =>
          ByExternalId(log, Normal[p.ext]) = {}

(* Replay breaks ties of occurred_at by created_at: since the clock is read*)
(* under the lock, created_at never contradicts the order of commits.      *)
CreatedInCommitOrder == \A p \in Portfolios : \A i, j \in DOMAIN ledger[p] :
  i < j => ledger[p][i].created <= ledger[p][j].created

(* A committed trade always finds its asset row, whoever inserted it and   *)
(* whatever became of the sessions that raced for it.                      *)
AssetsComplete == \A p \in Portfolios : \A t \in Rows(ledger[p]) :
  t.sym # NoName => t.sym \in assets

(* No call hangs: whatever locks other calls take, share or abandon, every *)
(* call ends, with an answer or with its session.                          *)
EveryCallEnds == \A w \in Workers : pc[w] # "idle" ~> pc[w] = "idle"

(* The write path implements the atomic ledger.                            *)
Abstract == INSTANCE LedgerSpec WITH
  result <- [w \in Workers |->
               IF answer[w] \in {"created", "replayed"} THEN tx[w] ELSE NoRow]
ImplementsLedger == Abstract!Spec
=============================================================================
