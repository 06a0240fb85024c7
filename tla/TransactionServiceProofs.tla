---------------------- MODULE TransactionServiceProofs ----------------------
(***************************************************************************)
(* Proofs about TransactionService for any workers, portfolios, payloads   *)
(* and clock.  The lock taken by get_for_update is what makes the two reads*)
(* of the service (Lookup and ReplayLedger) still true when it commits: the*)
(* invariant says so step by step.                                         *)
(***************************************************************************)
EXTENDS TransactionService, TLAPS

Locked == {"build", "lookup", "replay", "asset", "select", "insert", "commit"}
Built  == Locked \ {"build"}
Looked == Built \ {"lookup"}
Passed == Looked \ {"replay"}

(* Idle workers are clean, busy ones serve a payload, and exactly those    *)
(* that are closing have an answer.                                        *)
BusyInv == \A w \in Workers :
  /\ pc[w] = "idle" <=> req[w] = NoPayload
  /\ pc[w] = "close" <=> answer[w] # "none"

(* A worker between the lock and the commit holds the lock of a portfolio  *)
(* its caller owns.                                                        *)
LockInv == \A w \in Workers : pc[w] \in Locked =>
  Owned(req[w]) /\ lockOf[req[w].pf] = w

(* The row it carries was built from its payload, which is valid.          *)
BuiltInv == \A w \in Workers : pc[w] \in Built =>
  /\ tx[w] \in RowType
  /\ tx[w] = BuildTransaction(req[w], tx[w].id, tx[w].created)
  /\ IsValid(req[w])

(* What Lookup and ReplayLedger read is still so.                          *)
FreshInv == \A w \in Workers : pc[w] \in Looked =>
  ByExternalId(ledger[tx[w].pf], tx[w].ext) = {}

ReplayInv == \A w \in Workers : pc[w] \in Passed =>
  Replays(Rows(ledger[tx[w].pf]) \cup {tx[w]})

(* The asset the row refers to is committed, or will be with it.           *)
AssetInv == \A w \in Workers :
  /\ pc[w] = "select" => tx[w].sym \in assets
  /\ pc[w] \in {"insert", "commit"} =>
       tx[w].sym = NoName \/ tx[w].sym \in assets \cup newAsset[w]

IInv ==
  /\ TypeOK /\ BusyInv /\ LockInv /\ BuiltInv /\ FreshInv /\ ReplayInv /\ AssetInv
  /\ LedgerReplays /\ ExternalIdUnique /\ NoServerError /\ AssetsComplete

-----------------------------------------------------------------------------
(* The rows of a log after a commit are the old ones and the new one.      *)
LEMMA RowsAppend ==
  ASSUME NEW S, NEW log \in Seq(S), NEW t \in S
  PROVE  /\ Append(log, t) \in Seq(S)
         /\ Rows(Append(log, t)) = Rows(log) \cup {t}
         /\ \A ext : t.ext # ext =>
              ByExternalId(Append(log, t), ext) = ByExternalId(log, ext)
<1>1. Append(log, t) \in Seq(S)
  OBVIOUS
<1>2. DOMAIN Append(log, t) = DOMAIN log \cup {Len(log) + 1}
  OBVIOUS
<1>3. \A i \in DOMAIN log : Append(log, t)[i] = log[i]
  OBVIOUS
<1>4. Append(log, t)[Len(log) + 1] = t
  OBVIOUS
<1>5. Rows(Append(log, t)) = Rows(log) \cup {t}
  BY <1>2, <1>3, <1>4, Zenon DEF Rows
<1>6. ASSUME NEW ext, t.ext # ext
      PROVE  ByExternalId(Append(log, t), ext) = ByExternalId(log, ext)
  BY <1>5, <1>6 DEF ByExternalId
<1> QED
  BY <1>1, <1>5, <1>6

(* A row built from a payload is a row of the ledger's type.               *)
LEMMA BuiltRowType ==
  ASSUME NEW p \in Payloads, NEW id \in Ids, NEW created \in Times
  PROVE  BuildTransaction(p, id, created) \in RowType
<1>1. p \in PayloadType
  BY PayloadsAssumption
<1>2. Normal[p.ext] \in Names /\ Normal[p.sym] \in Names
  BY <1>1, NamesAssumption DEF PayloadType
<1> QED
  BY <1>1, <1>2 DEF BuildTransaction, RowType, PayloadType

-----------------------------------------------------------------------------
(* The empty database is well typed.                                       *)
LEMMA TypeInit == Init => TypeOK
  BY NamesAssumption DEF Init, TypeOK, Steps, Answers

(* TypeOK needs the lock only to know that the portfolio exists.           *)
LEMMA TypeStep == TypeOK /\ BusyInv /\ LockInv /\ BuiltInv /\ [Next]_vars => TypeOK'
<1> SUFFICES ASSUME TypeOK, BusyInv, LockInv, BuiltInv, [Next]_vars PROVE TypeOK'
  OBVIOUS
<1> USE DEF TypeOK, Steps, Answers, Goto, Decide
<1>1. ASSUME NEW w \in Workers, NEW p \in Payloads, Submit(w, p) PROVE TypeOK'
  BY <1>1 DEF Submit
<1>2. ASSUME NEW w \in Workers, GetForUpdate(w) PROVE TypeOK'
  <2>1. lockOf' \in [Portfolios -> Workers \cup {NoWorker}]
    BY <1>2 DEF GetForUpdate
  <2>2. \/ Goto(w, "build") /\ answer' = answer
        \/ Decide(w, "not_found")
    BY <1>2 DEF GetForUpdate
  <2>3. UNCHANGED <<clock, ledger, assets, req, tx, newAsset>>
    BY <1>2 DEF GetForUpdate
  <2> QED
    BY <2>1, <2>2, <2>3
<1>3. ASSUME NEW w \in Workers, Build(w) PROVE TypeOK'
  <2>1. req[w] \in Payloads
    BY <1>3 DEF Build, BusyInv
  <2>2. \A id \in Ids : BuildTransaction(req[w], id, clock) \in RowType
    BY <2>1, BuiltRowType
  <2>3. tx' \in [Workers -> RowType \cup {NoRow}]
    <3>1. CASE IsValid(req[w])
      <4>1. PICK id \in Ids :
              tx' = [tx EXCEPT ![w] = BuildTransaction(req[w], id, clock)]
        BY <1>3, <3>1 DEF Build
      <4> QED
        BY <4>1, <2>2
    <3>2. CASE ~IsValid(req[w])
      BY <1>3, <3>2 DEF Build
    <3> QED
      BY <3>1, <3>2
  <2>4. \/ Goto(w, "lookup") /\ answer' = answer
        \/ Decide(w, "invalid")
    BY <1>3 DEF Build
  <2>5. UNCHANGED <<clock, ledger, assets, lockOf, req, newAsset>>
    BY <1>3 DEF Build
  <2> QED
    BY <2>3, <2>4, <2>5
<1>4. ASSUME NEW w \in Workers, Lookup(w) PROVE TypeOK'
  <2>1. tx[w] \in RowType /\ tx[w].pf \in Portfolios
    BY <1>4 DEF Lookup, BuiltInv, LockInv, Built, Locked, Owned, BuildTransaction
  <2>2. \A ext : ByExternalId(ledger[tx[w].pf], ext) \subseteq RowType
    BY <2>1 DEF ByExternalId, Rows
  <2>3. tx' \in [Workers -> RowType \cup {NoRow}]
    BY <1>4, <2>2 DEF Lookup
  <2>4. \/ Goto(w, "replay") /\ answer' = answer
        \/ Decide(w, "replayed")
        \/ Decide(w, "conflict")
    BY <1>4 DEF Lookup
  <2>5. UNCHANGED <<clock, ledger, assets, lockOf, req, newAsset>>
    BY <1>4 DEF Lookup
  <2> QED
    BY <2>3, <2>4, <2>5
<1>5. ASSUME NEW w \in Workers, ReplayLedger(w) PROVE TypeOK'
  BY <1>5 DEF ReplayLedger
<1>6. ASSUME NEW w \in Workers, InsertAsset(w) PROVE TypeOK'
  <2>1. tx[w].sym \in Names
    BY <1>6 DEF InsertAsset, BuiltInv, Built, Locked, RowType
  <2>2. newAsset' \in [Workers -> SUBSET Names]
    BY <1>6, <2>1 DEF InsertAsset
  <2>3. Goto(w, "insert") \/ Goto(w, "select")
    BY <1>6 DEF InsertAsset
  <2>4. UNCHANGED <<clock, ledger, assets, lockOf, req, tx, answer>>
    BY <1>6 DEF InsertAsset
  <2> QED
    BY <2>2, <2>3, <2>4
<1>7. ASSUME NEW w \in Workers, SelectAsset(w) PROVE TypeOK'
  BY <1>7 DEF SelectAsset
<1>8. ASSUME NEW w \in Workers, Insert(w) PROVE TypeOK'
  BY <1>8 DEF Insert
<1>9. ASSUME NEW w \in Workers, Commit(w) PROVE TypeOK'
  <2>1. tx[w] \in RowType /\ tx[w].pf \in Portfolios
    BY <1>9 DEF Commit, BuiltInv, LockInv, Built, Locked, Owned, BuildTransaction
  <2>2. Append(ledger[tx[w].pf], tx[w]) \in Seq(RowType)
    BY <2>1, RowsAppend
  <2> QED
    BY <1>9, <2>1, <2>2 DEF Commit, Unlocked
<1>10. ASSUME NEW w \in Workers, EndSession(w) PROVE TypeOK'
  BY <1>10 DEF EndSession, Unlocked
<1>11. ASSUME Tick PROVE TypeOK'
  BY <1>11 DEF Tick
<1>12. CASE UNCHANGED vars
  BY <1>12 DEF vars
<1> QED
  BY <1>1, <1>2, <1>3, <1>4, <1>5, <1>6, <1>7, <1>8, <1>9, <1>10, <1>11, <1>12
     DEF Next, Serve, Close, Abort
(* A session that ends is clean, and only a decision closes it.            *)
LEMMA BusyStep == IInv /\ [Next]_vars => BusyInv'
<1> SUFFICES ASSUME IInv, [Next]_vars PROVE BusyInv'
  OBVIOUS
<1> USE DEF IInv, BusyInv, TypeOK, Steps, Answers, Goto, Decide
<1>1. ASSUME NEW w \in Workers, NEW p \in Payloads, Submit(w, p) PROVE BusyInv'
  BY <1>1, SentinelAssumption DEF Submit
<1>2. ASSUME NEW w \in Workers, GetForUpdate(w) PROVE BusyInv'
  BY <1>2 DEF GetForUpdate
<1>3. ASSUME NEW w \in Workers, Build(w) PROVE BusyInv'
  BY <1>3 DEF Build
<1>4. ASSUME NEW w \in Workers, Lookup(w) PROVE BusyInv'
  BY <1>4 DEF Lookup
<1>5. ASSUME NEW w \in Workers, ReplayLedger(w) PROVE BusyInv'
  BY <1>5 DEF ReplayLedger
<1>6. ASSUME NEW w \in Workers, InsertAsset(w) PROVE BusyInv'
  BY <1>6 DEF InsertAsset
<1>7. ASSUME NEW w \in Workers, SelectAsset(w) PROVE BusyInv'
  BY <1>7 DEF SelectAsset
<1>8. ASSUME NEW w \in Workers, Insert(w) PROVE BusyInv'
  BY <1>8 DEF Insert
<1>9. ASSUME NEW w \in Workers, Commit(w) PROVE BusyInv'
  BY <1>9 DEF Commit, Unlocked
<1>10. ASSUME NEW w \in Workers, EndSession(w) PROVE BusyInv'
  BY <1>10 DEF EndSession, Unlocked
<1>11. ASSUME Tick PROVE BusyInv'
  BY <1>11 DEF Tick
<1>12. CASE UNCHANGED vars
  BY <1>12 DEF vars
<1> QED
  BY <1>1, <1>2, <1>3, <1>4, <1>5, <1>6, <1>7, <1>8, <1>9, <1>10, <1>11, <1>12
     DEF Next, Serve, Close, Abort

(* Only the holder of a lock gives it back, by committing or by ending.    *)
LEMMA LockStep == IInv /\ [Next]_vars => LockInv'
<1> SUFFICES ASSUME IInv, [Next]_vars PROVE LockInv'
  OBVIOUS
<1> USE DEF IInv, LockInv, TypeOK, Steps, Goto, Decide, Locked, Owned
<1>1. ASSUME NEW w \in Workers, NEW p \in Payloads, Submit(w, p) PROVE LockInv'
  BY <1>1 DEF Submit
<1>2. ASSUME NEW w \in Workers, GetForUpdate(w) PROVE LockInv'
  <2>1. \A v \in Workers \ {w} : pc'[v] = pc[v] /\ req'[v] = req[v]
    BY <1>2 DEF GetForUpdate
  <2>2. \A v \in Workers \ {w} : pc[v] \in Locked => lockOf'[req[v].pf] = v
    BY <1>2, SentinelAssumption DEF GetForUpdate
  <2>3. pc'[w] \in Locked =>
          /\ req'[w] = req[w] /\ Owned(req[w])
          /\ lockOf' = [lockOf EXCEPT ![req[w].pf] = w]
    BY <1>2 DEF GetForUpdate
  <2> QED
    BY <2>1, <2>2, <2>3
<1>3. ASSUME NEW w \in Workers, Build(w) PROVE LockInv'
  BY <1>3 DEF Build
<1>4. ASSUME NEW w \in Workers, Lookup(w) PROVE LockInv'
  BY <1>4 DEF Lookup
<1>5. ASSUME NEW w \in Workers, ReplayLedger(w) PROVE LockInv'
  BY <1>5 DEF ReplayLedger
<1>6. ASSUME NEW w \in Workers, InsertAsset(w) PROVE LockInv'
  BY <1>6 DEF InsertAsset
<1>7. ASSUME NEW w \in Workers, SelectAsset(w) PROVE LockInv'
  BY <1>7 DEF SelectAsset
<1>8. ASSUME NEW w \in Workers, Insert(w) PROVE LockInv'
  BY <1>8 DEF Insert
<1>9. ASSUME NEW w \in Workers, Commit(w) PROVE LockInv'
  BY <1>9 DEF Commit, Unlocked
<1>10. ASSUME NEW w \in Workers, EndSession(w) PROVE LockInv'
  BY <1>10 DEF EndSession, Unlocked
<1>11. ASSUME Tick PROVE LockInv'
  BY <1>11 DEF Tick
<1>12. CASE UNCHANGED vars
  BY <1>12 DEF vars
<1> QED
  BY <1>1, <1>2, <1>3, <1>4, <1>5, <1>6, <1>7, <1>8, <1>9, <1>10, <1>11, <1>12
     DEF Next, Serve, Close, Abort

(* The row is built once and carried unchanged until it is committed.      *)
LEMMA BuiltStep == IInv /\ [Next]_vars => BuiltInv'
<1> SUFFICES ASSUME IInv, [Next]_vars PROVE BuiltInv'
  OBVIOUS
<1> USE DEF IInv, BuiltInv, TypeOK, Steps, Goto, Decide, Built, Locked
<1>1. ASSUME NEW w \in Workers, NEW p \in Payloads, Submit(w, p) PROVE BuiltInv'
  BY <1>1 DEF Submit
<1>2. ASSUME NEW w \in Workers, GetForUpdate(w) PROVE BuiltInv'
  BY <1>2 DEF GetForUpdate
<1>3. ASSUME NEW w \in Workers, Build(w) PROVE BuiltInv'
  <2>1. req[w] \in Payloads
    BY <1>3 DEF Build, BusyInv
  <2>2. \A id \in Ids :
          LET t == BuildTransaction(req[w], id, clock) IN
          t \in RowType /\ t = BuildTransaction(req[w], t.id, t.created)
    BY <2>1, BuiltRowType DEF BuildTransaction
  <2>3. pc'[w] = "lookup" => IsValid(req[w]) /\
          \E id \in Ids : tx' = [tx EXCEPT ![w] = BuildTransaction(req[w], id, clock)]
    BY <1>3 DEF Build
  <2>4. pc'[w] \in {"lookup", "close"} /\ req' = req
    BY <1>3 DEF Build
  <2>5. \A v \in Workers \ {w} : pc'[v] = pc[v] /\ tx'[v] = tx[v]
    BY <1>3 DEF Build
  <2>6. \A v \in Workers \ {w} : pc'[v] \in Built =>
          /\ tx'[v] \in RowType
          /\ tx'[v] = BuildTransaction(req'[v], tx'[v].id, tx'[v].created)
          /\ IsValid(req'[v])
    BY <2>4, <2>5
  <2>7. pc'[w] \in Built =>
          /\ tx'[w] \in RowType
          /\ tx'[w] = BuildTransaction(req'[w], tx'[w].id, tx'[w].created)
          /\ IsValid(req'[w])
    BY <2>2, <2>3, <2>4
  <2> QED
    BY <2>6, <2>7
<1>4. ASSUME NEW w \in Workers, Lookup(w) PROVE BuiltInv'
  BY <1>4 DEF Lookup
<1>5. ASSUME NEW w \in Workers, ReplayLedger(w) PROVE BuiltInv'
  BY <1>5 DEF ReplayLedger
<1>6. ASSUME NEW w \in Workers, InsertAsset(w) PROVE BuiltInv'
  BY <1>6 DEF InsertAsset
<1>7. ASSUME NEW w \in Workers, SelectAsset(w) PROVE BuiltInv'
  BY <1>7 DEF SelectAsset
<1>8. ASSUME NEW w \in Workers, Insert(w) PROVE BuiltInv'
  BY <1>8 DEF Insert
<1>9. ASSUME NEW w \in Workers, Commit(w) PROVE BuiltInv'
  BY <1>9 DEF Commit, Unlocked
<1>10. ASSUME NEW w \in Workers, EndSession(w) PROVE BuiltInv'
  BY <1>10 DEF EndSession, Unlocked
<1>11. ASSUME Tick PROVE BuiltInv'
  BY <1>11 DEF Tick
<1>12. CASE UNCHANGED vars
  BY <1>12 DEF vars
<1> QED
  BY <1>1, <1>2, <1>3, <1>4, <1>5, <1>6, <1>7, <1>8, <1>9, <1>10, <1>11, <1>12
     DEF Next, Serve, Close, Abort

(* Committed assets stay, and an asset a session inserted is its own.      *)
LEMMA AssetStep == IInv /\ [Next]_vars => AssetInv'
<1> SUFFICES ASSUME IInv, [Next]_vars PROVE AssetInv'
  OBVIOUS
<1> USE DEF IInv, AssetInv, TypeOK, Steps, Goto, Decide
<1>1. ASSUME NEW w \in Workers, NEW p \in Payloads, Submit(w, p) PROVE AssetInv'
  BY <1>1 DEF Submit
<1>2. ASSUME NEW w \in Workers, GetForUpdate(w) PROVE AssetInv'
  BY <1>2 DEF GetForUpdate
<1>3. ASSUME NEW w \in Workers, Build(w) PROVE AssetInv'
  BY <1>3 DEF Build
<1>4. ASSUME NEW w \in Workers, Lookup(w) PROVE AssetInv'
  BY <1>4 DEF Lookup
<1>5. ASSUME NEW w \in Workers, ReplayLedger(w) PROVE AssetInv'
  BY <1>5 DEF ReplayLedger
<1>6. ASSUME NEW w \in Workers, InsertAsset(w) PROVE AssetInv'
  BY <1>6 DEF InsertAsset
<1>7. ASSUME NEW w \in Workers, SelectAsset(w) PROVE AssetInv'
  BY <1>7 DEF SelectAsset
<1>8. ASSUME NEW w \in Workers, Insert(w) PROVE AssetInv'
  BY <1>8 DEF Insert
<1>9. ASSUME NEW w \in Workers, Commit(w) PROVE AssetInv'
  BY <1>9 DEF Commit, Unlocked
<1>10. ASSUME NEW w \in Workers, EndSession(w) PROVE AssetInv'
  BY <1>10 DEF EndSession, Unlocked
<1>11. ASSUME Tick PROVE AssetInv'
  BY <1>11 DEF Tick
<1>12. CASE UNCHANGED vars
  BY <1>12 DEF vars
<1> QED
  BY <1>1, <1>2, <1>3, <1>4, <1>5, <1>6, <1>7, <1>8, <1>9, <1>10, <1>11, <1>12
     DEF Next, Serve, Close, Abort

(* A built row belongs to the portfolio whose lock its worker holds.       *)
LEMMA BuiltPortfolio ==
  ASSUME IInv, NEW w \in Workers, pc[w] \in Built
  PROVE  /\ tx[w] \in RowType /\ tx[w].pf \in Portfolios
         /\ lockOf[tx[w].pf] = w
<1>1. \A p, id, created : BuildTransaction(p, id, created).pf = p.pf
  BY DEF BuildTransaction
<1>2. tx[w].pf = req[w].pf /\ tx[w] \in RowType
  BY <1>1 DEF IInv, BuiltInv
<1>3. req[w].pf \in Portfolios /\ lockOf[req[w].pf] = w
  BY DEF IInv, LockInv, Built, Owned
<1> QED
  BY <1>2, <1>3

(* Two workers between lock and commit work on different portfolios.       *)
LEMMA Exclusive ==
  ASSUME IInv, NEW v \in Workers, NEW w \in Workers,
         pc[v] \in Built, pc[w] \in Built, tx[v].pf = tx[w].pf
  PROVE  v = w
  BY BuiltPortfolio

(* A commit adds one row, with a new external id, to a ledger that replays *)
(* with it, and touches no other portfolio.                                *)
LEMMA CommitEffect ==
  ASSUME IInv, NEW w \in Workers, Commit(w)
  PROVE  /\ tx[w] \in RowType /\ tx[w].pf \in Portfolios
         /\ ledger'[tx[w].pf] = Append(ledger[tx[w].pf], tx[w])
         /\ Rows(ledger'[tx[w].pf]) = Rows(ledger[tx[w].pf]) \cup {tx[w]}
         /\ \A p \in Portfolios \ {tx[w].pf} : ledger'[p] = ledger[p]
<1>1. tx[w] \in RowType /\ tx[w].pf \in Portfolios
  BY BuiltPortfolio DEF Commit, Built, Locked
<1>2. ledger[tx[w].pf] \in Seq(RowType)
  BY <1>1 DEF IInv, TypeOK
<1>3. ledger' = [ledger EXCEPT ![tx[w].pf] = Append(ledger[tx[w].pf], tx[w])]
  BY DEF Commit
<1>4. ledger'[tx[w].pf] = Append(ledger[tx[w].pf], tx[w])
  BY <1>1, <1>3 DEF IInv, TypeOK
<1>5. \A p \in Portfolios \ {tx[w].pf} : ledger'[p] = ledger[p]
  BY <1>1, <1>3 DEF IInv, TypeOK
<1> QED
  BY <1>1, <1>2, <1>4, <1>5, RowsAppend

(* The part of FreshInv and ReplayInv about worker v only changes when v   *)
(* moves or its portfolio is committed to, and the lock excludes the latter*)
LEMMA Undisturbed ==
  ASSUME IInv, [Next]_vars, NEW v \in Workers, pc[v] \in Built, pc'[v] \in Built
  PROVE  /\ tx'[v] = tx[v]
         /\ ledger'[tx[v].pf] = ledger[tx[v].pf]
<1>1. tx[v].pf \in Portfolios
  BY BuiltPortfolio
<1>2. ASSUME NEW w \in Workers, Commit(w)
      PROVE  tx'[v] = tx[v] /\ ledger'[tx[v].pf] = ledger[tx[v].pf]
  <2>1. pc'[w] = "close"
    BY <1>2 DEF Commit, Decide, Goto, IInv, TypeOK
  <2>2. tx[v].pf # tx[w].pf
    BY <1>2, <2>1, Exclusive DEF Commit, Built, Locked
  <2> QED
    BY <1>1, <1>2, <2>2, CommitEffect DEF Commit
<1>3. ASSUME NEW w \in Workers, EndSession(w)
      PROVE  tx'[v] = tx[v] /\ ledger' = ledger
  BY <1>3 DEF EndSession, IInv, TypeOK, Built, Locked
<1>4. ASSUME NEW w \in Workers, Build(w)
      PROVE  tx'[v] = tx[v] /\ ledger' = ledger
  BY <1>4 DEF Build, IInv, TypeOK, Built, Locked
<1>5. ASSUME NEW w \in Workers, Lookup(w)
      PROVE  tx'[v] = tx[v] /\ ledger' = ledger
  BY <1>5 DEF Lookup, IInv, TypeOK, Built, Locked, Decide, Goto
<1>6. ASSUME NEW w \in Workers,
             \/ \E p \in Payloads : Submit(w, p)
             \/ GetForUpdate(w) \/ ReplayLedger(w) \/ InsertAsset(w)
             \/ SelectAsset(w) \/ Insert(w)
      PROVE  tx' = tx /\ ledger' = ledger
  BY <1>6 DEF Submit, GetForUpdate, ReplayLedger, InsertAsset, SelectAsset, Insert
<1>7. CASE Tick \/ UNCHANGED vars
  BY <1>7 DEF Tick, vars
<1> QED
  BY <1>2, <1>3, <1>4, <1>5, <1>6, <1>7 DEF Next, Serve, Close, Abort

(* Only Lookup and ReplayLedger enter the phases they guard.               *)
LEMMA Phases ==
  ASSUME TypeOK, [Next]_vars, NEW v \in Workers
  PROVE  /\ pc'[v] \in Looked /\ pc[v] \notin Looked => Lookup(v) /\ pc'[v] = "replay"
         /\ pc'[v] \in Passed /\ pc[v] \notin Passed =>
              ReplayLedger(v) /\ pc'[v] = "asset"
<1> USE DEF TypeOK, Passed, Looked, Built, Locked, Goto, Decide
<1>1. ASSUME NEW w \in Workers, \/ GetForUpdate(w) \/ Build(w)
      PROVE  pc'[v] = pc[v] \/ pc'[v] \in {"build", "lookup", "close"}
  BY <1>1 DEF GetForUpdate, Build
<1>2. ASSUME NEW w \in Workers,
             InsertAsset(w) \/ SelectAsset(w) \/ Insert(w) \/ Commit(w)
      PROVE  pc'[v] = pc[v] \/ pc[v] \in Passed
  BY <1>2 DEF InsertAsset, SelectAsset, Insert, Commit
<1>3. ASSUME NEW w \in Workers, Lookup(w)
      PROVE  \/ v # w /\ pc'[v] = pc[v]
             \/ v = w /\ pc'[v] \in {"replay", "close"}
  BY <1>3 DEF Lookup
<1>4. ASSUME NEW w \in Workers, ReplayLedger(w)
      PROVE  \/ v # w /\ pc'[v] = pc[v]
             \/ v = w /\ pc[v] = "replay" /\ pc'[v] \in {"asset", "close"}
  BY <1>4 DEF ReplayLedger
<1>5. ASSUME NEW w \in Workers, (\E p \in Payloads : Submit(w, p)) \/ EndSession(w)
      PROVE  pc'[v] = pc[v] \/ pc'[v] \in {"lock", "idle"}
  BY <1>5 DEF Submit, EndSession
<1>6. CASE Tick \/ UNCHANGED vars
  BY <1>6 DEF Tick, vars
<1> QED
  BY <1>1, <1>2, <1>3, <1>4, <1>5, <1>6 DEF Next, Serve, Close, Abort

(* Lookup establishes FreshInv.                                            *)
LEMMA FreshStep == IInv /\ [Next]_vars => FreshInv'
<1> SUFFICES ASSUME IInv, [Next]_vars, NEW v \in Workers, pc'[v] \in Looked
             PROVE  ByExternalId(ledger'[tx'[v].pf], tx'[v].ext) = {}
  BY DEF FreshInv
<1>1. CASE pc[v] \in Looked
  BY <1>1, Undisturbed DEF Looked, IInv, FreshInv
<1>2. CASE pc[v] \notin Looked
  <2>1. Lookup(v) /\ pc'[v] = "replay"
    BY <1>2, Phases DEF IInv
  <2>2. /\ ByExternalId(ledger[tx[v].pf], tx[v].ext) = {}
        /\ UNCHANGED <<tx, ledger>>
    BY <2>1 DEF Lookup, Decide, Goto, IInv, TypeOK
  <2> QED
    BY <2>2
<1> QED
  BY <1>1, <1>2

(* ReplayLedger establishes ReplayInv.                                     *)
LEMMA ReplayStep == IInv /\ [Next]_vars => ReplayInv'
<1> SUFFICES ASSUME IInv, [Next]_vars, NEW v \in Workers, pc'[v] \in Passed
             PROVE  Replays(Rows(ledger'[tx'[v].pf]) \cup {tx'[v]})
  BY DEF ReplayInv
<1>1. CASE pc[v] \in Passed
  BY <1>1, Undisturbed DEF Passed, Looked, IInv, ReplayInv
<1>2. CASE pc[v] \notin Passed
  <2>1. ReplayLedger(v) /\ pc'[v] = "asset"
    BY <1>2, Phases DEF IInv
  <2>2. /\ Replays(Rows(ledger[tx[v].pf]) \cup {tx[v]})
        /\ UNCHANGED <<tx, ledger>>
    BY <2>1 DEF ReplayLedger, Decide, Goto, IInv, TypeOK
  <2> QED
    BY <2>2
<1> QED
  BY <1>1, <1>2

(* Only Commit writes the ledger and the assets.                           *)
LEMMA OnlyCommitWrites ==
  ASSUME [Next]_vars
  PROVE  (\E w \in Workers : Commit(w)) \/ UNCHANGED <<ledger, assets>>
  BY DEF Next, vars, Serve, Close, Abort, EndSession, Submit, GetForUpdate, Build,
    Lookup, ReplayLedger, InsertAsset, SelectAsset, Insert, Tick

(* A commit keeps every ledger replayable and its external ids distinct.   *)
LEMMA LedgerStep ==
  IInv /\ [Next]_vars => LedgerReplays' /\ ExternalIdUnique' /\ AssetsComplete'
<1> SUFFICES ASSUME IInv, [Next]_vars
             PROVE  LedgerReplays' /\ ExternalIdUnique' /\ AssetsComplete'
  OBVIOUS
<1>1. ASSUME NEW w \in Workers, Commit(w)
      PROVE  LedgerReplays' /\ ExternalIdUnique' /\ AssetsComplete'
  <2> DEFINE p == tx[w].pf
  <2>1. p \in Portfolios /\ ledger[p] \in Seq(RowType)
    BY <1>1, CommitEffect DEF IInv, TypeOK
  <2>2. /\ ledger'[p] = Append(ledger[p], tx[w])
        /\ Rows(ledger'[p]) = Rows(ledger[p]) \cup {tx[w]}
        /\ \A q \in Portfolios \ {p} : ledger'[q] = ledger[q]
    BY <1>1, CommitEffect
  <2>3. Replays(Rows(ledger[p]) \cup {tx[w]})
    BY <1>1 DEF Commit, IInv, ReplayInv, Passed, Looked, Built, Locked
  <2>4. ByExternalId(ledger[p], tx[w].ext) = {}
    BY <1>1 DEF Commit, IInv, FreshInv, Looked, Built, Locked
  <2>5. LedgerReplays'
    BY <2>2, <2>3 DEF IInv, LedgerReplays
  <2>6. \A i \in DOMAIN ledger[p] : ledger[p][i].ext # tx[w].ext
    BY <2>4 DEF ByExternalId, Rows
  <2>7. ExternalIdUnique'
    <3>1. \A i, j \in DOMAIN ledger'[p] :
            ledger'[p][i].ext = ledger'[p][j].ext => i = j
      <4>1. DOMAIN ledger'[p] = DOMAIN ledger[p] \cup {Len(ledger[p]) + 1}
        BY <2>1, <2>2
      <4>2. \A i \in DOMAIN ledger[p] : ledger'[p][i] = ledger[p][i]
        BY <2>1, <2>2
      <4>3. ledger'[p][Len(ledger[p]) + 1] = tx[w]
        BY <2>1, <2>2
      <4> QED
        BY <2>1, <2>6, <4>1, <4>2, <4>3, SMTT(30) DEF IInv, ExternalIdUnique
    <3> QED
      BY <2>2, <3>1 DEF IInv, ExternalIdUnique
  <2>8. AssetsComplete'
    <3>1. /\ tx[w].sym # NoName => tx[w].sym \in assets'
          /\ assets \subseteq assets'
      BY <1>1 DEF Commit, IInv, AssetInv
    <3>2. \A q \in Portfolios : \A t \in Rows(ledger'[q]) :
            t = tx[w] \/ t \in Rows(ledger[q])
      BY <2>2
    <3> QED
      BY <3>1, <3>2 DEF IInv, AssetsComplete
  <2> QED
    BY <2>5, <2>7, <2>8
<1>2. CASE UNCHANGED <<ledger, assets>>
  BY <1>2 DEF IInv, LedgerReplays, ExternalIdUnique, AssetsComplete
<1> QED
  BY <1>1, <1>2, OnlyCommitWrites

(* The two database failures: Insert finds the id free, SelectAsset the    *)
(* symbol committed.                                                       *)
LEMMA ErrorStep == IInv /\ [Next]_vars => NoServerError'
<1> SUFFICES ASSUME IInv, [Next]_vars PROVE NoServerError'
  OBVIOUS
<1> USE DEF IInv, TypeOK, NoServerError, Goto, Decide
<1>1. ASSUME NEW w \in Workers, Insert(w) PROVE answer' = answer
  BY <1>1 DEF Insert, FreshInv, Looked, Built, Locked
<1>2. ASSUME NEW w \in Workers, SelectAsset(w) PROVE answer' = answer
  BY <1>2 DEF SelectAsset, AssetInv
<1>3. ASSUME NEW w \in Workers,
             \/ GetForUpdate(w) \/ Build(w) \/ Lookup(w) \/ ReplayLedger(w) \/ Commit(w)
             \/ EndSession(w)
      PROVE  NoServerError'
  BY <1>3 DEF GetForUpdate, Build, Lookup, ReplayLedger, Commit, EndSession
<1>4. ASSUME NEW w \in Workers, InsertAsset(w) \/ \E p \in Payloads : Submit(w, p)
      PROVE  answer' = answer
  BY <1>4 DEF InsertAsset, Submit
<1>5. CASE Tick \/ UNCHANGED vars
  BY <1>5 DEF Tick, vars
<1> QED
  BY <1>1, <1>2, <1>3, <1>4, <1>5 DEF Next, Serve, Close, Abort

(* The inductive invariant holds of the empty database and idle workers.   *)
LEMMA InitIInv == Init => IInv
<1> SUFFICES ASSUME Init PROVE IInv
  OBVIOUS
<1>1. TypeOK
  BY TypeInit
<1>2. BusyInv /\ LockInv /\ BuiltInv /\ FreshInv /\ ReplayInv /\ AssetInv
  BY DEF Init, BusyInv, LockInv, BuiltInv, FreshInv, ReplayInv, AssetInv,
    Passed, Looked, Built, Locked
<1>3. \A p \in Portfolios : DOMAIN ledger[p] = {} /\ Rows(ledger[p]) = {}
  BY DEF Init, Rows
<1>4. LedgerReplays /\ ExternalIdUnique /\ AssetsComplete
  BY <1>3 DEF LedgerReplays, ExternalIdUnique, AssetsComplete, Replays
<1>5. NoServerError
  BY DEF Init, NoServerError
<1> QED
  BY <1>1, <1>2, <1>4, <1>5 DEF IInv

-----------------------------------------------------------------------------
(* The inductive invariant holds of every behaviour of the write path.     *)
THEOREM Invariance == Spec => []IInv
<1>1. Init => IInv
  BY InitIInv
<1>2. IInv /\ [Next]_vars => IInv'
  <2> SUFFICES ASSUME IInv, [Next]_vars PROVE IInv'
    OBVIOUS
  <2>1. TypeOK'
    BY TypeStep DEF IInv
  <2> QED
    BY <2>1, BusyStep, LockStep, BuiltStep, FreshStep, ReplayStep, AssetStep,
       LedgerStep, ErrorStep DEF IInv
<1> QED
  BY <1>1, <1>2, PTL DEF Spec

(* Every variable of the write path stays in its type.                     *)
THEOREM TypeCorrect == Spec => []TypeOK
<1>1. IInv => TypeOK
  BY DEF IInv
<1> QED
  BY <1>1, Invariance, PTL

(* However many clients write, retry and fail, whatever they post: no      *)
(* committed ledger ever sells more than it holds.                         *)
THEOREM LedgersReplay == Spec => []LedgerReplays
<1>1. IInv => LedgerReplays
  BY DEF IInv
<1> QED
  BY <1>1, Invariance, PTL

(* No external id is ever committed twice in a portfolio.                  *)
THEOREM ExternalIdsUnique == Spec => []ExternalIdUnique
<1>1. IInv => ExternalIdUnique
  BY DEF IInv
<1> QED
  BY <1>1, Invariance, PTL

(* Neither the unique index nor the asset upsert ever fails a call.        *)
THEOREM NoServerErrors == Spec => []NoServerError
<1>1. IInv => NoServerError
  BY DEF IInv
<1> QED
  BY <1>1, Invariance, PTL

(* Every committed trade refers to a committed asset.                      *)
THEOREM AssetsAreComplete == Spec => []AssetsComplete
<1>1. IInv => AssetsComplete
  BY DEF IInv
<1> QED
  BY <1>1, Invariance, PTL

-----------------------------------------------------------------------------
(* The refinement: Commit is the linearisation point of a created row, the *)
(* step that decides is that of every other answer, and the rest stutters. *)

Result == [w \in Workers |->
             IF answer[w] \in {"created", "replayed"} THEN tx[w] ELSE NoRow]

(* The instance has its own copies of the operators of LedgerData.         *)
LEMMA SameOperators ==
  /\ \A p : Abstract!Owned(p) = Owned(p)
  /\ \A p : Abstract!IsValid(p) = IsValid(p)
  /\ \A p, id, created :
       Abstract!BuildTransaction(p, id, created) = BuildTransaction(p, id, created)
  /\ \A t, u : Abstract!SamePayload(t, u) = SamePayload(t, u)
  /\ \A log : Abstract!Rows(log) = Rows(log)
  /\ \A log, ext : Abstract!ByExternalId(log, ext) = ByExternalId(log, ext)
  /\ \A txs : Abstract!Replays(txs) = Replays(txs)
<1>1. \A p : Abstract!Owned(p) = Owned(p)
  BY DEF Abstract!Owned, Owned
<1>2. \A p : Abstract!IsValid(p) = IsValid(p)
  BY DEF Abstract!IsValid, IsValid
<1>3. \A p, id, created :
       Abstract!BuildTransaction(p, id, created) = BuildTransaction(p, id, created)
  BY DEF Abstract!BuildTransaction, BuildTransaction
<1>4. \A t, u : Abstract!SamePayload(t, u) = SamePayload(t, u)
  BY DEF Abstract!SamePayload, SamePayload
<1>5. \A log : Abstract!Rows(log) = Rows(log)
  BY DEF Abstract!Rows, Rows
<1>6. \A log, ext : Abstract!ByExternalId(log, ext) = ByExternalId(log, ext)
  BY <1>5 DEF Abstract!ByExternalId, ByExternalId
<1>7. \A t : Abstract!SignedQuantity(t) = SignedQuantity(t)
  BY DEF Abstract!SignedQuantity, SignedQuantity
<1>8. \A txs, sym : Abstract!Quantity(txs, sym) = Quantity(txs, sym)
  <2>1. \A fun : Abstract!SumFunction(fun) = SumFunction(fun)
    BY Zenon DEF Abstract!SumFunction, SumFunction, Abstract!SumFunctionOnSet, SumFunctionOnSet,
       Abstract!FoldFunctionOnSet, FoldFunctionOnSet, Abstract!MapThenFoldSet, MapThenFoldSet
  <2> QED
    BY Zenon, <1>7, <2>1 DEF Abstract!Quantity, Quantity
<1>9. \A txs, t : Abstract!UpTo(txs, t) = UpTo(txs, t)
  BY DEF Abstract!UpTo, UpTo, Abstract!LedgerOrder, LedgerOrder
<1>10. \A txs : Abstract!Replays(txs) = Replays(txs)
  BY <1>8, <1>9 DEF Abstract!Replays, Replays
<1> QED
  BY <1>1, <1>2, <1>3, <1>4, <1>5, <1>6, <1>10

(* The empty database is the empty abstract ledger.                        *)
LEMMA InitSimulation == Init => Abstract!Init
  BY DEF Init, Abstract!Init

(* A decision of w is a Reply of the abstract worker w.                    *)
LEMMA DecideReplies ==
  ASSUME IInv, NEW w \in Workers, pc[w] \in {"lock", "build", "lookup", "replay", "commit"},
         NEW verdict \in Answers, Decide(w, verdict), req' = req,
         NEW STATE row, tx' = [tx EXCEPT ![w] = row]
  PROVE  /\ verdict \in {"created", "replayed"} => Abstract!Reply(w, verdict, row)
         /\ verdict \notin {"created", "replayed"} => Abstract!Reply(w, verdict, NoRow)
<1>1. req[w] # NoPayload /\ answer[w] = "none"
  BY DEF IInv, BusyInv
<1>2. answer' = [answer EXCEPT ![w] = verdict]
  BY DEF Decide
<1>3. Result' = [Result EXCEPT ![w] = IF verdict \in {"created", "replayed"}
                                      THEN row ELSE NoRow]
  BY <1>2 DEF IInv, TypeOK, Result
<1> QED
  BY <1>1, <1>2, <1>3 DEF Abstract!Reply, Result

(* The abstract ledger serves a well-formed call on the row it builds.     *)
LEMMA AbstractServe ==
  ASSUME IInv, NEW w \in Workers, pc[w] \in Built,
         \/ Abstract!Known(w, tx[w]) \/ Abstract!Refuse(w, tx[w])
         \/ Abstract!Create(w, tx[w])
  PROVE  Abstract!Next
<1>1. tx[w] = BuildTransaction(req[w], tx[w].id, tx[w].created) /\ IsValid(req[w])
  BY DEF IInv, BuiltInv
<1>2. tx[w].id \in Ids /\ tx[w].created \in Times
  BY BuiltPortfolio DEF RowType
<1>3. req[w] # NoPayload /\ Owned(req[w])
  BY DEF IInv, BusyInv, LockInv, Built, Locked
<1>4. PICK id \in Ids, created \in Times : tx[w] = BuildTransaction(req[w], id, created)
  BY <1>1, <1>2
<1> DEFINE t == Abstract!BuildTransaction(req[w], id, created)
<1>5. tx[w] = t
  BY <1>4, SameOperators
<1>6. Abstract!Known(w, t) \/ Abstract!Refuse(w, t) \/ Abstract!Create(w, t)
  <2>1. CASE Abstract!Known(w, tx[w])
    BY <1>5, <2>1 DEF Abstract!Known, Abstract!Reply
  <2>2. CASE Abstract!Refuse(w, tx[w])
    BY <1>5, <2>2 DEF Abstract!Refuse, Abstract!Reply
  <2>3. CASE Abstract!Create(w, tx[w])
    BY <1>5, <2>3 DEF Abstract!Create, Abstract!Reply
  <2> QED
    BY <2>1, <2>2, <2>3
<1>7. Abstract!Serve(w, t)
  BY <1>1, <1>3, <1>6, SameOperators DEF Abstract!Serve
<1> QED
  BY <1>3, <1>7 DEF Abstract!Next

(* Every statement is a step of the abstract ledger or invisible to it.    *)
LEMMA StepSimulation == IInv /\ [Next]_vars => [Abstract!Next]_(Abstract!vars)
<1> SUFFICES ASSUME IInv, [Next]_vars
             PROVE  Abstract!Next \/ UNCHANGED <<ledger, req, answer, Result>>
  BY DEF Abstract!vars, Result
<1> DEFINE Stutter == UNCHANGED <<ledger, req, answer, Result>>
<1>a. ASSUME NEW w \in Workers,
             \/ Abstract!NotFound(w) \/ Abstract!Malformed(w) \/ Abstract!End(w)
             \/ \E p \in Payloads : Abstract!Call(w, p)
      PROVE  Abstract!Next
  BY <1>a DEF Abstract!Next
<1>b. ASSUME UNCHANGED <<ledger, req, answer, tx>> PROVE Stutter
  BY <1>b DEF Result
<1>1. ASSUME NEW w \in Workers, NEW p \in Payloads, Submit(w, p) PROVE Abstract!Call(w, p)
  BY <1>1 DEF Submit, IInv, BusyInv, Result, Abstract!Call
<1>2. ASSUME NEW w \in Workers, GetForUpdate(w) PROVE Abstract!NotFound(w) \/ Stutter
  <2>1. CASE answer' = answer
    BY <1>2, <2>1, <1>b DEF GetForUpdate
  <2>2. CASE answer' # answer
    <3>1. Decide(w, "not_found") /\ ~Owned(req[w])
      BY <1>2, <2>2 DEF GetForUpdate, Owned
    <3>2. tx' = [tx EXCEPT ![w] = tx[w]] /\ req' = req /\ pc[w] = "lock"
      BY <1>2 DEF GetForUpdate, IInv, TypeOK
    <3>3. Abstract!Reply(w, "not_found", NoRow)
      BY <3>1, <3>2, DecideReplies DEF Answers
    <3> QED
      BY <1>2, <3>1, <3>3, SameOperators DEF GetForUpdate, Abstract!NotFound
  <2> QED
    BY <2>1, <2>2
<1>3. ASSUME NEW w \in Workers, Build(w) PROVE Abstract!Malformed(w) \/ Stutter
  <2>1. CASE IsValid(req[w])
    <3>1. answer[w] = "none" /\ UNCHANGED <<ledger, req, answer>>
      BY <1>3, <2>1 DEF Build, IInv, BusyInv
    <3>2. \A v \in Workers \ {w} : tx'[v] = tx[v]
      BY <1>3, <2>1 DEF Build, IInv, TypeOK
    <3> QED
      BY <3>1, <3>2 DEF Result
  <2>2. CASE ~IsValid(req[w])
    <3>1. Decide(w, "invalid") /\ Owned(req[w])
      BY <1>3, <2>2 DEF Build, IInv, LockInv, Locked
    <3>2. tx' = [tx EXCEPT ![w] = tx[w]] /\ req' = req /\ pc[w] = "build"
      BY <1>3, <2>2 DEF Build, IInv, TypeOK
    <3>3. Abstract!Reply(w, "invalid", NoRow)
      BY <3>1, <3>2, DecideReplies DEF Answers
    <3> QED
      BY <1>3, <2>2, <3>1, <3>3, SameOperators DEF Build, Abstract!Malformed
  <2> QED
    BY <2>1, <2>2
<1>4. ASSUME NEW w \in Workers, Lookup(w)
      PROVE  Abstract!Next \/ Stutter
  <2>0. pc[w] \in Built /\ pc[w] = "lookup" /\ req' = req /\ ledger' = ledger
    BY <1>4 DEF Lookup, Built, Locked
  <2>1. CASE UNCHANGED <<tx, answer>>
    BY <2>0, <2>1, <1>b
  <2>2. ASSUME NEW e \in ByExternalId(ledger[tx[w].pf], tx[w].ext),
               SamePayload(e, tx[w]), Decide(w, "replayed"), tx' = [tx EXCEPT ![w] = e]
        PROVE  Abstract!Next
    <3>1. Abstract!Reply(w, "replayed", e)
      <4>1. /\ pc[w] \in {"lock", "build", "lookup", "replay", "commit"}
            /\ "replayed" \in Answers /\ Decide(w, "replayed") /\ req' = req
        BY <2>0, <2>2 DEF Answers
      <4>2. Result' = [Result EXCEPT ![w] = e]
        BY <2>0, <2>2 DEF Decide, IInv, TypeOK, Result
      <4> QED
        BY <2>0, <4>1, <4>2 DEF Decide, IInv, BusyInv, Abstract!Reply, Result
    <3> QED
      BY <2>0, <2>2, <3>1, AbstractServe, SameOperators DEF Abstract!Known
  <2>3. ASSUME NEW e \in ByExternalId(ledger[tx[w].pf], tx[w].ext),
               ~SamePayload(e, tx[w]), Decide(w, "conflict"), tx' = tx
        PROVE  Abstract!Next
    <3>1. tx' = [tx EXCEPT ![w] = tx[w]]
      BY <2>3 DEF IInv, TypeOK
    <3>2. Abstract!Reply(w, "conflict", NoRow)
      BY <2>0, <2>3, <3>1, DecideReplies DEF Answers
    <3> QED
      BY <2>0, <2>3, <3>2, AbstractServe, SameOperators DEF Abstract!Known
  <2> QED
    BY <1>4, <2>1, <2>2, <2>3 DEF Lookup
<1>5. ASSUME NEW w \in Workers, ReplayLedger(w)
      PROVE  Abstract!Next \/ Stutter
  <2>0. /\ pc[w] \in Built /\ pc[w] \in Looked /\ pc[w] = "replay"
        /\ UNCHANGED <<ledger, req, tx>>
    BY <1>5 DEF ReplayLedger, Built, Looked, Locked
  <2>1. CASE answer' = answer
    BY <2>0, <2>1, <1>b
  <2>2. CASE answer' # answer
    <3>1. Decide(w, "invalid") /\ ~Replays(Rows(ledger[tx[w].pf]) \cup {tx[w]})
      BY <1>5, <2>2 DEF ReplayLedger
    <3>2. tx' = [tx EXCEPT ![w] = tx[w]]
      BY <2>0 DEF IInv, TypeOK
    <3>3. Abstract!Reply(w, "invalid", NoRow)
      BY <2>0, <3>1, <3>2, DecideReplies DEF Answers
    <3>4. ByExternalId(ledger[tx[w].pf], tx[w].ext) = {}
      BY <2>0 DEF IInv, FreshInv
    <3> QED
      BY <2>0, <3>1, <3>3, <3>4, AbstractServe, SameOperators DEF Abstract!Refuse
  <2> QED
    BY <2>1, <2>2
<1>6. ASSUME NEW w \in Workers, InsertAsset(w) \/ SelectAsset(w) \/ Insert(w) PROVE Stutter
  <2>1. CASE InsertAsset(w)
    BY <2>1, <1>b DEF InsertAsset
  <2>2. CASE SelectAsset(w)
    BY <2>2, <1>b DEF SelectAsset, IInv, AssetInv
  <2>3. CASE Insert(w)
    BY <2>3, <1>b DEF Insert, IInv, FreshInv, Looked, Built, Locked
  <2> QED
    BY <1>6, <2>1, <2>2, <2>3
<1>7. ASSUME NEW w \in Workers, Commit(w)
      PROVE  Abstract!Next
  <2>0. /\ pc[w] \in Built /\ pc[w] \in Looked /\ pc[w] \in Passed /\ pc[w] = "commit"
        /\ Decide(w, "created") /\ UNCHANGED <<req, tx>>
        /\ ledger' = [ledger EXCEPT ![tx[w].pf] = Append(ledger[tx[w].pf], tx[w])]
    BY <1>7 DEF Commit, Built, Looked, Passed, Locked
  <2>1. tx' = [tx EXCEPT ![w] = tx[w]]
    BY <2>0 DEF IInv, TypeOK
  <2>2. Abstract!Reply(w, "created", tx[w])
    <3>1. /\ pc[w] \in {"lock", "build", "lookup", "replay", "commit"}
          /\ Decide(w, "created") /\ req' = req /\ "created" \in Answers
      BY <2>0 DEF Answers
    <3>2. Result' = [Result EXCEPT ![w] = tx[w]]
      BY <2>0, <2>1 DEF Decide, IInv, TypeOK, Result
    <3> QED
      BY <2>0, <3>1, <3>2 DEF Decide, IInv, BusyInv, Abstract!Reply, Result
  <2>3. /\ ByExternalId(ledger[tx[w].pf], tx[w].ext) = {}
        /\ Replays(Rows(ledger[tx[w].pf]) \cup {tx[w]})
    BY <2>0 DEF IInv, FreshInv, ReplayInv
  <2> QED
    BY <2>0, <2>2, <2>3, AbstractServe, SameOperators DEF Abstract!Create
<1>8. ASSUME NEW w \in Workers, pc[w] # "idle", EndSession(w) PROVE Abstract!End(w)
  <2>1. req[w] # NoPayload
    BY <1>8 DEF IInv, BusyInv
  <2>2. Result' = [Result EXCEPT ![w] = NoRow]
    BY <1>8 DEF EndSession, IInv, TypeOK, Result
  <2> QED
    BY <1>8, <2>1, <2>2 DEF EndSession, Abstract!End, Result
<1>9. CASE Tick \/ UNCHANGED vars
  BY <1>9, <1>b DEF Tick, vars
<1>10. ASSUME NEW w \in Workers, Serve(w) PROVE Abstract!Next \/ Stutter
  BY <1>10, <1>a, <1>2, <1>3, <1>4, <1>5, <1>6, <1>7, <1>8
     DEF Serve, Close
<1> QED
  BY <1>a, <1>1, <1>8, <1>9, <1>10 DEF Next, Abort

(* The write path, with its sessions, locks, crashes and lost responses,   *)
(* implements the ledger that serves every call in one atomic step.        *)
THEOREM Refinement == Spec => ImplementsLedger
<1>1. Init => Abstract!Init
  BY InitSimulation
<1>2. IInv /\ [Next]_vars => [Abstract!Next]_(Abstract!vars)
  BY StepSimulation
<1> QED
  BY <1>1, <1>2, Invariance, PTL DEF Spec, ImplementsLedger, Abstract!Spec

-----------------------------------------------------------------------------
(* What callers are told, and the order the rows are in.  Both rest on the *)
(* lock being held longer than it seems: until the session ends, by a call *)
(* that decided not to write too.                                          *)

(* No row is younger than the clock, and a row that is built is no older   *)
(* than those of its ledger.                                               *)
DatedInv ==
  /\ \A p \in Portfolios : \A i \in DOMAIN ledger[p] : ledger[p][i].created <= clock
  /\ \A w \in Workers : pc[w] \in Built =>
       /\ tx[w].created <= clock
       /\ \A i \in DOMAIN ledger[tx[w].pf] : ledger[tx[w].pf][i].created <= tx[w].created

(* A call that was refused holds the lock until its session ends, so that  *)
(* what refused it is still so when the answer leaves.                     *)
RefusedInv == \A w \in Workers : answer[w] \in {"conflict", "invalid"} =>
  Owned(req[w]) /\ lockOf[req[w].pf] = w

AnswersInv == IInv /\ DatedInv /\ CreatedInCommitOrder /\ RefusedInv /\ AnswersTruthful

-----------------------------------------------------------------------------
(* The clock does not run backwards.                                       *)
LEMMA ClockStep == IInv /\ [Next]_vars => clock' \in Nat /\ clock \in Nat /\ clock <= clock'
<1> SUFFICES ASSUME IInv, [Next]_vars
             PROVE  clock' \in Nat /\ clock \in Nat /\ clock <= clock'
  OBVIOUS
<1>1. clock \in Nat
  BY ClockAssumption DEF IInv, TypeOK
<1>2. clock' = clock \/ Tick
  BY DEF Next, vars, Serve, Close, Abort, EndSession, Submit, GetForUpdate, Build,
    Lookup, ReplayLedger, InsertAsset, SelectAsset, Insert, Commit
<1>3. CASE Tick
  BY <1>1, <1>3, ClockAssumption DEF Tick
<1> QED
  BY <1>1, <1>2, <1>3

(* A row is new when its worker has read the clock, or it was there before.*)
LEMMA BuiltPhase ==
  ASSUME IInv, [Next]_vars, NEW v \in Workers, pc'[v] \in Built, pc[v] \notin Built
  PROVE  /\ tx'[v].created = clock /\ tx'[v].pf = req[v].pf
         /\ Owned(req[v]) /\ UNCHANGED <<ledger, clock>>
<1> USE DEF IInv, TypeOK, Built, Locked, Goto, Decide
<1>1. ASSUME NEW w \in Workers, w # v, Serve(w) \/ Abort(w)
      PROVE  pc'[v] = pc[v]
  BY <1>1 DEF Serve, Abort, Close, EndSession, GetForUpdate, Build, Lookup,
    ReplayLedger, InsertAsset, SelectAsset, Insert, Commit
<1>2. CASE Build(v)
  <2>1. PICK id \in Ids : tx' = [tx EXCEPT ![v] = BuildTransaction(req[v], id, clock)]
    BY <1>2 DEF Build
  <2>2. tx'[v] = BuildTransaction(req[v], id, clock)
    BY <2>1
  <2>3. Owned(req[v])
    BY <1>2 DEF Build, LockInv
  <2> QED
    BY <1>2, <2>2, <2>3 DEF Build, BuildTransaction
<1>3. ~GetForUpdate(v) /\ ~Close(v) /\ ~Abort(v)
  BY DEF GetForUpdate, Close, Abort, EndSession
<1>4. ASSUME Lookup(v) \/ ReplayLedger(v) \/ InsertAsset(v) \/ SelectAsset(v) \/ Insert(v)
               \/ Commit(v)
      PROVE  pc[v] \in Built
  BY <1>4 DEF Lookup, ReplayLedger, InsertAsset, SelectAsset, Insert, Commit
<1>5. ASSUME NEW w \in Workers, NEW p \in Payloads, Submit(w, p) PROVE pc'[v] \notin Built
  BY <1>5 DEF Submit
<1>6. CASE Tick \/ UNCHANGED vars
  BY <1>6 DEF Tick, vars
<1> QED
  BY <1>1, <1>2, <1>3, <1>4, <1>5, <1>6 DEF Next, Serve

(* The rows a commit leaves in a ledger, by their places.                  *)
LEMMA CommitPlaces ==
  ASSUME IInv, NEW w \in Workers, Commit(w)
  PROVE  LET p == tx[w].pf IN
         /\ p \in Portfolios /\ Len(ledger[p]) \in Nat
         /\ DOMAIN ledger[p] = 1 .. Len(ledger[p])
         /\ DOMAIN ledger'[p] = DOMAIN ledger[p] \cup {Len(ledger[p]) + 1}
         /\ \A i \in DOMAIN ledger[p] : ledger'[p][i] = ledger[p][i]
         /\ ledger'[p][Len(ledger[p]) + 1] = tx[w]
         /\ \A q \in Portfolios \ {p} : ledger'[q] = ledger[q]
<1>1. tx[w] \in RowType /\ tx[w].pf \in Portfolios
  BY CommitEffect
<1>2. ledger[tx[w].pf] \in Seq(RowType)
  BY <1>1 DEF IInv, TypeOK
<1>3. ledger'[tx[w].pf] = Append(ledger[tx[w].pf], tx[w])
  BY CommitEffect
<1>4. \A q \in Portfolios \ {tx[w].pf} : ledger'[q] = ledger[q]
  BY CommitEffect
<1> QED
  BY <1>1, <1>2, <1>3, <1>4

(* The clock is read under the lock, so nothing is committed between it    *)
(* and the row's own commit.                                               *)
LEMMA OrderStep ==
  IInv /\ IInv' /\ DatedInv /\ CreatedInCommitOrder /\ [Next]_vars
    => DatedInv' /\ CreatedInCommitOrder'
<1> SUFFICES ASSUME IInv, IInv', DatedInv, CreatedInCommitOrder, [Next]_vars
             PROVE  DatedInv' /\ CreatedInCommitOrder'
  OBVIOUS
<1>1. clock' \in Nat /\ clock \in Nat /\ clock <= clock'
  BY ClockStep
<1>2. \A p \in Portfolios : \A i \in DOMAIN ledger[p] : ledger[p][i].created \in Nat
  <2> SUFFICES ASSUME NEW p \in Portfolios, NEW i \in DOMAIN ledger[p]
               PROVE  ledger[p][i].created \in Nat
    OBVIOUS
  <2>1. ledger[p] \in Seq(RowType)
    BY DEF IInv, TypeOK
  <2>2. ledger[p][i] \in RowType
    BY <2>1
  <2> QED
    BY <2>2, ClockAssumption DEF RowType
<1>3. \A w \in Workers : pc[w] \in Built => tx[w].created \in Nat
  BY BuiltPortfolio, ClockAssumption DEF RowType
<1>4. ASSUME NEW v \in Workers, pc'[v] \in Built
      PROVE  /\ tx'[v].created <= clock'
             /\ \A i \in DOMAIN ledger'[tx'[v].pf] :
                  ledger'[tx'[v].pf][i].created <= tx'[v].created
  <2>1. CASE pc[v] \in Built
    <3>1. tx'[v] = tx[v] /\ ledger'[tx[v].pf] = ledger[tx[v].pf]
      BY <1>4, <2>1, Undisturbed
    <3>2. tx[v].created <= clock
      BY <2>1 DEF DatedInv
    <3>3. tx'[v].created <= clock'
      BY <1>1, <1>3, <2>1, <3>1, <3>2
    <3> QED
      BY <2>1, <3>1, <3>3 DEF DatedInv
  <2>2. CASE pc[v] \notin Built
    <3>1. /\ tx'[v].created = clock /\ tx'[v].pf \in Portfolios
          /\ ledger' = ledger /\ clock' = clock
      BY <1>4, <2>2, BuiltPhase DEF Owned
    <3> QED
      BY <1>1, <3>1 DEF DatedInv
  <2> QED
    BY <2>1, <2>2
<1>5. ASSUME NEW w \in Workers, Commit(w)
      PROVE  /\ \A p \in Portfolios : \A i \in DOMAIN ledger'[p] :
                  ledger'[p][i].created <= clock'
             /\ CreatedInCommitOrder'
  <2> DEFINE p == tx[w].pf
             n == Len(ledger[p])
  <2>1. /\ p \in Portfolios /\ n \in Nat /\ DOMAIN ledger[p] = 1 .. n
        /\ DOMAIN ledger'[p] = DOMAIN ledger[p] \cup {n + 1}
        /\ \A i \in DOMAIN ledger[p] : ledger'[p][i] = ledger[p][i]
        /\ ledger'[p][n + 1] = tx[w]
        /\ \A q \in Portfolios \ {p} : ledger'[q] = ledger[q]
    BY <1>5, CommitPlaces
  <2>2. /\ tx[w].created <= clock /\ tx[w].created \in Nat /\ clock' = clock
        /\ \A i \in DOMAIN ledger[p] : ledger[p][i].created <= tx[w].created
    BY <1>3, <1>5 DEF Commit, DatedInv, Built, Locked
  <2>3. \A i \in DOMAIN ledger'[p] : ledger'[p][i].created <= clock'
    BY <2>1, <2>2 DEF DatedInv
  <2>4. \A i, j \in DOMAIN ledger'[p] :
          i < j => ledger'[p][i].created <= ledger'[p][j].created
    <3> SUFFICES ASSUME NEW i \in DOMAIN ledger'[p], NEW j \in DOMAIN ledger'[p], i < j
                 PROVE  ledger'[p][i].created <= ledger'[p][j].created
      OBVIOUS
    <3>1. i \in DOMAIN ledger[p]
      BY <2>1
    <3>2. CASE j \in DOMAIN ledger[p]
      BY <2>1, <3>1, <3>2 DEF CreatedInCommitOrder
    <3>3. CASE j = n + 1
      BY <2>1, <2>2, <3>1, <3>3
    <3> QED
      BY <2>1, <3>2, <3>3
  <2>5. \A q \in Portfolios : \A i \in DOMAIN ledger'[q] : ledger'[q][i].created <= clock'
    BY <2>1, <2>2, <2>3 DEF DatedInv
  <2>6. CreatedInCommitOrder'
    BY <2>1, <2>4 DEF CreatedInCommitOrder
  <2> QED
    BY <2>5, <2>6
<1>6. CASE UNCHANGED ledger
  <2>1. \A p \in Portfolios : \A i \in DOMAIN ledger'[p] : ledger'[p][i].created <= clock'
    BY <1>1, <1>2, <1>6 DEF DatedInv
  <2> QED
    BY <1>4, <1>6, <2>1 DEF DatedInv, CreatedInCommitOrder
<1> QED
  BY <1>4, <1>5, <1>6, OnlyCommitWrites DEF DatedInv

-----------------------------------------------------------------------------
(* Ledgers only grow, and not under a call that was refused.               *)
LEMMA LedgerGrows ==
  ASSUME IInv, [Next]_vars
  PROVE  \A p \in Portfolios :
           /\ Rows(ledger[p]) \subseteq Rows(ledger'[p])
           /\ \A v \in Workers : lockOf[p] = v /\ pc[v] = "close" => ledger'[p] = ledger[p]
<1>1. ASSUME NEW w \in Workers, Commit(w), NEW p \in Portfolios
      PROVE  /\ Rows(ledger[p]) \subseteq Rows(ledger'[p])
             /\ \A v \in Workers : lockOf[p] = v /\ pc[v] = "close" => ledger'[p] = ledger[p]
  <2>1. lockOf[tx[w].pf] = w /\ pc[w] = "commit"
    BY <1>1, BuiltPortfolio DEF Commit, Built, Locked
  <2> QED
    BY <1>1, <2>1, CommitEffect
<1> QED
  BY <1>1, OnlyCommitWrites

(* What a worker's answer says, of any state of its locals.                *)
Truthful(verdict, p, row, log) ==
  LET mine == BuildTransaction(p, row.id, row.created)
  IN /\ verdict \in {"created", "replayed"} =>
          Owned(p) /\ row \in Rows(log) /\ SamePayload(row, mine)
     /\ verdict = "conflict" =>
          \E e \in ByExternalId(log, mine.ext) : ~SamePayload(e, mine)
     /\ verdict = "invalid" /\ IsValid(p) =>
          ByExternalId(log, Normal[p.ext]) = {}

TruthOf(w) == Truthful(answer[w], req[w], tx[w], ledger[req[w].pf])

(* An answer that was given stays, with what it was given for, until the   *)
(* session ends.                                                           *)
LEMMA Settled ==
  ASSUME IInv, [Next]_vars, NEW v \in Workers, answer[v] # "none", answer'[v] # "none"
  PROVE  /\ answer'[v] = answer[v] /\ req'[v] = req[v] /\ tx'[v] = tx[v]
         /\ pc[v] = "close"
         /\ \A p \in Portfolios : lockOf[p] = v => lockOf'[p] = v
<1> USE DEF IInv, TypeOK, Decide, Goto
<1>1. pc[v] = "close"
  BY DEF BusyInv
<1>2. ASSUME NEW w \in Workers, EndSession(w)
      PROVE  v # w
  BY <1>2 DEF EndSession
<1>3. ASSUME NEW w \in Workers, \/ Close(w) \/ Abort(w)
      PROVE  /\ answer'[v] = answer[v] /\ req'[v] = req[v] /\ tx'[v] = tx[v]
             /\ \A p \in Portfolios : lockOf[p] = v => lockOf'[p] = v
  BY <1>2, <1>3 DEF Close, Abort, EndSession, Unlocked
<1>4. ASSUME NEW w \in Workers, Commit(w)
      PROVE  /\ answer'[v] = answer[v] /\ req'[v] = req[v] /\ tx'[v] = tx[v]
             /\ \A p \in Portfolios : lockOf[p] = v => lockOf'[p] = v
  BY <1>1, <1>4 DEF Commit, Unlocked
<1>5. ASSUME NEW w \in Workers, GetForUpdate(w)
      PROVE  /\ answer'[v] = answer[v] /\ req'[v] = req[v] /\ tx'[v] = tx[v]
             /\ \A p \in Portfolios : lockOf[p] = v => lockOf'[p] = v
  BY <1>1, <1>5, SentinelAssumption DEF GetForUpdate
<1>6. ASSUME NEW w \in Workers,
             \/ Build(w) \/ Lookup(w) \/ ReplayLedger(w) \/ InsertAsset(w)
             \/ SelectAsset(w) \/ Insert(w) \/ \E p \in Payloads : Submit(w, p)
      PROVE  /\ answer'[v] = answer[v] /\ req'[v] = req[v] /\ tx'[v] = tx[v]
             /\ lockOf' = lockOf
  BY <1>1, <1>6 DEF Build, Lookup, ReplayLedger, InsertAsset, SelectAsset, Insert, Submit
<1>7. CASE Tick \/ UNCHANGED vars
  <2>1. UNCHANGED <<answer, req, tx, lockOf>>
    BY <1>7 DEF Tick, vars
  <2> QED
    BY <1>1, <2>1
<1> QED
  BY <1>1, <1>3, <1>4, <1>5, <1>6, <1>7 DEF Next, Serve

(* Only the worker itself decides its answer.                              *)
LEMMA Decision ==
  ASSUME IInv, IInv', [Next]_vars, NEW v \in Workers, answer[v] = "none", answer'[v] # "none"
  PROVE  GetForUpdate(v) \/ Build(v) \/ Lookup(v) \/ ReplayLedger(v) \/ Commit(v)
<1> USE DEF IInv, TypeOK, Decide, Goto
<1>1. ASSUME NEW w \in Workers, Serve(w) \/ Abort(w)
      PROVE  v = w
  BY <1>1 DEF Serve, Abort, Close, EndSession, GetForUpdate, Build, Lookup,
    ReplayLedger, InsertAsset, SelectAsset, Insert, Commit
<1>2. ~Close(v) /\ ~Abort(v)
  BY DEF Close, Abort, EndSession
<1>3. ~InsertAsset(v) /\ ~SelectAsset(v) /\ ~Insert(v)
  BY DEF InsertAsset, SelectAsset, Insert, NoServerError
<1>4. ASSUME (\E w \in Workers, p \in Payloads : Submit(w, p)) \/ Tick \/ UNCHANGED vars
      PROVE  FALSE
  BY <1>4 DEF Submit, Tick, vars
<1> QED
  BY <1>1, <1>2, <1>3, <1>4 DEF Next, Serve

(* Two rows are the same payload by what BuildTransaction takes from one.  *)
LEMMA SameAsBuilt ==
  ASSUME NEW t, NEW p, NEW id, NEW created, NEW u,
         t = BuildTransaction(p, id, created)
  PROVE  LET mine == BuildTransaction(p, u.id, u.created)
         IN  /\ SamePayload(u, mine) <=> SamePayload(u, t)
             /\ \A e : SamePayload(e, mine) <=> SamePayload(e, t)
             /\ mine.ext = t.ext /\ t.ext = Normal[p.ext] /\ t.pf = p.pf
  BY DEF BuildTransaction, SamePayload

(* A decision is true of the ledger it was made on.                        *)
LEMMA DecisionTrue ==
  ASSUME IInv, IInv', [Next]_vars, NEW v \in Workers, answer[v] = "none", answer'[v] # "none"
  PROVE  /\ TruthOf(v)'
         /\ answer'[v] \in {"conflict", "invalid"} =>
              Owned(req'[v]) /\ lockOf'[req'[v].pf] = v
<1> USE DEF IInv, TypeOK, Decide, Goto
<1>1. CASE GetForUpdate(v)
  <2>1. answer'[v] = "not_found"
    BY <1>1 DEF GetForUpdate
  <2> QED
    BY <2>1 DEF TruthOf, Truthful
<1>2. CASE Build(v)
  <2>1. /\ answer'[v] = "invalid" /\ ~IsValid(req[v])
        /\ req' = req /\ lockOf' = lockOf
    BY <1>2 DEF Build
  <2>2. Owned(req[v]) /\ lockOf[req[v].pf] = v
    BY <1>2 DEF Build, LockInv, Locked
  <2> QED
    BY <2>1, <2>2 DEF TruthOf, Truthful
<1>3. ASSUME pc[v] \in Built
      PROVE  /\ Owned(req[v]) /\ lockOf[req[v].pf] = v
             /\ tx[v] = BuildTransaction(req[v], tx[v].id, tx[v].created)
             /\ tx[v].pf = req[v].pf /\ tx[v].ext = Normal[req[v].ext]
  <2>1. tx[v] = BuildTransaction(req[v], tx[v].id, tx[v].created)
    BY <1>3 DEF BuiltInv
  <2>2. tx[v].pf = req[v].pf /\ tx[v].ext = Normal[req[v].ext]
    <3>1. \A q, id, created : LET t == BuildTransaction(q, id, created)
                              IN  t.pf = q.pf /\ t.ext = Normal[q.ext]
      BY DEF BuildTransaction
    <3> QED
      BY <2>1, <3>1
  <2> QED
    BY <1>3, <2>1, <2>2 DEF LockInv, Built
<1>4. CASE Lookup(v)
  <2>1. pc[v] \in Built /\ UNCHANGED <<ledger, req, lockOf>>
    BY <1>4 DEF Lookup, Built, Locked
  <2>2. PICK e \in ByExternalId(ledger[tx[v].pf], tx[v].ext) :
          IF SamePayload(e, tx[v])
          THEN answer'[v] = "replayed" /\ tx'[v] = e
          ELSE answer'[v] = "conflict" /\ tx'[v] = tx[v]
    BY <1>4 DEF Lookup
  <2>3. e \in Rows(ledger[req[v].pf])
    BY <1>3, <2>1, <2>2 DEF ByExternalId
  <2>4. CASE SamePayload(e, tx[v])
    <3>1. SamePayload(e, BuildTransaction(req[v], e.id, e.created))
      BY <1>3, <2>1, <2>4, SameAsBuilt
    <3> QED
      BY <1>3, <2>1, <2>2, <2>3, <2>4, <3>1 DEF TruthOf, Truthful
  <2>5. CASE ~SamePayload(e, tx[v])
    BY <1>3, <2>1, <2>2, <2>5 DEF TruthOf, Truthful
  <2> QED
    BY <2>4, <2>5
<1>5. CASE ReplayLedger(v)
  <2>1. /\ pc[v] \in Built /\ pc[v] \in Looked /\ UNCHANGED <<ledger, req, lockOf>>
        /\ answer'[v] = "invalid"
    BY <1>5 DEF ReplayLedger, Built, Looked, Locked
  <2>2. ByExternalId(ledger[req[v].pf], Normal[req[v].ext]) = {}
    BY <1>3, <2>1 DEF FreshInv
  <2> QED
    BY <1>3, <2>1, <2>2 DEF TruthOf, Truthful
<1>6. CASE Commit(v)
  <2>1. /\ pc[v] \in Built /\ UNCHANGED <<req, tx>>
        /\ answer'[v] = "created"
    BY <1>6 DEF Commit, Built, Locked
  <2>2. tx[v] \in Rows(ledger'[req[v].pf])
    BY <1>3, <1>6, <2>1, CommitEffect
  <2>3. SamePayload(tx[v], tx[v])
    BY DEF SamePayload
  <2> QED
    BY <1>3, <2>1, <2>2, <2>3 DEF TruthOf, Truthful
<1> QED
  BY <1>1, <1>2, <1>4, <1>5, <1>6, Decision

(* Answers stay true until they leave.                                     *)
LEMMA TruthStep ==
  IInv /\ IInv' /\ RefusedInv /\ AnswersTruthful /\ [Next]_vars
    => RefusedInv' /\ AnswersTruthful'
<1> SUFFICES ASSUME IInv, IInv', RefusedInv, AnswersTruthful, [Next]_vars, NEW v \in Workers
             PROVE  /\ TruthOf(v)'
                    /\ answer'[v] \in {"conflict", "invalid"} =>
                         Owned(req'[v]) /\ lockOf'[req'[v].pf] = v
  BY DEF RefusedInv, AnswersTruthful, TruthOf, Truthful
<1>1. CASE answer'[v] = "none"
  BY <1>1 DEF TruthOf, Truthful
<1>2. CASE answer[v] = "none" /\ answer'[v] # "none"
  BY <1>2, DecisionTrue
<1>3. CASE answer[v] # "none" /\ answer'[v] # "none"
  <2>1. /\ answer'[v] = answer[v] /\ req'[v] = req[v] /\ tx'[v] = tx[v]
        /\ pc[v] = "close"
        /\ \A p \in Portfolios : lockOf[p] = v => lockOf'[p] = v
    BY <1>3, Settled
  <2>2. TruthOf(v)
    BY DEF AnswersTruthful, TruthOf, Truthful
  <2>3. CASE answer[v] \in {"created", "replayed"}
    <3>1. Owned(req[v])
      BY <2>2, <2>3 DEF TruthOf, Truthful
    <3>2. Rows(ledger[req[v].pf]) \subseteq Rows(ledger'[req[v].pf])
      BY <3>1, LedgerGrows DEF Owned
    <3> QED
      BY <2>1, <2>2, <2>3, <3>2 DEF TruthOf, Truthful
  <2>4. CASE answer[v] \in {"conflict", "invalid"}
    <3>1. Owned(req[v]) /\ lockOf[req[v].pf] = v
      BY <2>4 DEF RefusedInv
    <3>2. ledger'[req[v].pf] = ledger[req[v].pf]
      BY <2>1, <3>1, LedgerGrows DEF Owned
    <3> QED
      BY <2>1, <2>2, <3>1, <3>2 DEF TruthOf, Truthful, Owned
  <2>5. CASE answer[v] \notin {"created", "replayed", "conflict", "invalid"}
    BY <2>1, <2>5 DEF TruthOf, Truthful
  <2> QED
    BY <2>3, <2>4, <2>5
<1> QED
  BY <1>1, <1>2, <1>3

-----------------------------------------------------------------------------
(* The inductive invariant of the answers and of the order of the rows.    *)
THEOREM AnswersInvariance == Spec => []AnswersInv
<1>1. Init => AnswersInv
  <2> SUFFICES ASSUME Init PROVE AnswersInv
    OBVIOUS
  <2>1. IInv
    BY InitIInv
  <2>2. \A p \in Portfolios : DOMAIN ledger[p] = {}
    BY DEF Init
  <2>3. DatedInv /\ CreatedInCommitOrder
    BY <2>2 DEF Init, DatedInv, CreatedInCommitOrder, Built, Locked
  <2>4. RefusedInv /\ AnswersTruthful
    BY DEF Init, RefusedInv, AnswersTruthful
  <2> QED
    BY <2>1, <2>3, <2>4 DEF AnswersInv
<1>2. AnswersInv /\ IInv' /\ [Next]_vars => AnswersInv'
  BY OrderStep, TruthStep DEF AnswersInv
<1> QED
  BY <1>1, <1>2, Invariance, PTL DEF Spec

(* Whoever races, retries or dies: what a caller is told of its payload is *)
(* true when it is told.                                                   *)
THEOREM AnswersAreTruthful == Spec => []AnswersTruthful
<1>1. AnswersInv => AnswersTruthful
  BY DEF AnswersInv
<1> QED
  BY <1>1, AnswersInvariance, PTL

(* created_at, which breaks the ties of the replay, follows the commits.   *)
THEOREM CreatedFollowsCommits == Spec => []CreatedInCommitOrder
<1>1. AnswersInv => CreatedInCommitOrder
  BY DEF AnswersInv
<1> QED
  BY <1>1, AnswersInvariance, PTL
=============================================================================
