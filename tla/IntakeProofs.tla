----------------------------- MODULE IntakeProofs -----------------------------
(***************************************************************************)
(* Proofs about the data that comes in: rows from CSV documents, and bars  *)
(* from the providers.                                                     *)
(*                                                                         *)
(* TransactionImport, for any documents, ledgers, other writers and any    *)
(* number of cut, broken and repeated commits: reported rows stay, what    *)
(* preview says of an id the ledger had is final, reposts converge, and    *)
(* the preview says what the commit will do.  The argument for the last two*)
(* is a walk along the simulated ledger: preview leaves the length it had  *)
(* before each row, and the commit of that row finds the ledger at a       *)
(* prefix of that length, or at a longer one in which the row is known.    *)
(*                                                                         *)
(* MarketDataCache, for any TTLs, timeouts, backoff and number of          *)
(* requests.  An answer is given within an instant, so what matters is how *)
(* old a copy can be while Redis keeps it: its TTL, and the Redis timeouts *)
(* that pass between its arrival and the SET that stores it.  The two      *)
(* specifications share no state.                                          *)
(***************************************************************************)
EXTENDS TransactionImport, MarketDataCache, SequenceTheorems, FiniteSetTheorems, TLAPS

-----------------------------------------------------------------------------
(* The CSV import.                                                         *)

Log == ledger[file.pf]
Row(i) == Candidates[file][i]
Total == Len(Candidates[file])

(* What can be posted, alone or in a document, and the rows made of it.    *)
Posted == Payloads \cup UNION {Range(Candidates[d]) : d \in Documents}
LedgerRows == {BuildTransaction(p, n, n) : p \in Posted, n \in Nat}

(* The documents that reach their rows.                                    *)
Fine(d) == d.size <= MaxBytes /\ Owned(d) /\ ~Escapes(d) /\ ~Refused(d)

(* A row that the ledger has, and that a commit would replay.              *)
Kept(c, log) ==
  /\ c # NoTransaction /\ IsValid(c)
  /\ \E e \in Rows(log) : SamePayload(e, BuildTransaction(c, e.id, e.created))

Unique(log) == \A e, g \in Rows(log) : e.ext = g.ext => e = g

TypeOK ==
  /\ ledger \in [Portfolios -> Seq(LedgerRows)] /\ simulated \in Seq(LedgerRows)
  /\ phase \in {"idle", "preview", "waiting", "commit", "done", "not_found", "refused", "error"}
  /\ file \in Documents \cup {NoFile}
  /\ previewed \in Seq({"ready", "replay", "invalid"})
  /\ reported \in Seq({"created", "replayed", "failed"})
  /\ earlier \in Seq({"created", "replayed", "failed"})
  /\ touched \in BOOLEAN /\ disturbed \in BOOLEAN

(* What the phase says of the file and of the reports.                     *)
PhaseInv ==
  /\ phase = "idle" => file = NoFile /\ previewed = <<>> /\ earlier = <<>> /\ simulated = <<>>
  /\ phase # "idle" => file \in Documents
  /\ phase \in {"preview", "waiting", "commit", "done"} => Fine(file)
  /\ previewed # <<>> \/ earlier # <<>> => Fine(file)
  /\ phase = "refused" => Refused(file)
  /\ phase \notin {"commit", "done"} => reported = <<>>
  /\ phase = "preview" => earlier = <<>> /\ Len(previewed) <= Total
  /\ phase = "commit" => Len(reported) <= Total
  /\ phase = "done" => Len(reported) = Total
  /\ earlier # <<>> => Len(earlier) = Total
  /\ disturbed => touched

UniqueInv == \A p \in Portfolios : Unique(ledger[p])

(* Rows reported, now or before, are kept, and a row reported before is    *)
(* replayed now.                                                           *)
KeptInv ==
  /\ \A i \in DOMAIN reported : reported[i] \in {"created", "replayed"} => Kept(Row(i), Log)
  /\ \A i \in DOMAIN earlier : earlier[i] \in {"created", "replayed"} => Kept(Row(i), Log)
  /\ earlier # <<>> => \A i \in DOMAIN reported :
       earlier[i] \in {"created", "replayed"} => reported[i] = "replayed"

(* m[i]: how long the simulated ledger was once preview had seen row i.    *)
Walks == [0 .. Len(previewed) -> 0 .. Len(simulated)]
Walk(m) ==
  /\ m[Len(previewed)] = Len(simulated)
  /\ \A i, k \in DOMAIN m : i <= k => m[i] <= m[k]
  /\ \A i \in DOMAIN previewed :
       /\ previewed[i] = PreviewStatus(SubSeq(simulated, 1, m[i - 1]), Row(i))
       /\ m[i] = IF previewed[i] = "ready" THEN m[i - 1] + 1 ELSE m[i - 1]
       /\ previewed[i] = "ready" =>
            simulated[m[i]] = NextRow(SubSeq(simulated, 1, m[i - 1]), Row(i))

(* The first commit after the preview is where preview was after that row. *)
Follows(m) == ~touched /\ earlier = <<>> =>
  /\ Log = SubSeq(simulated, 1, m[Len(reported)])
  /\ \A i \in DOMAIN reported : reported[i] = Predicted(previewed[i])
  /\ "created" \notin Range(reported) => m[Len(reported)] = m[0]

(* Without invalid rows, commits stay on the way of the preview, and are   *)
(* never behind it.                                                        *)
Converges(m) == "invalid" \notin Range(previewed) =>
  /\ \E n \in m[Len(reported)] .. Len(simulated) : Log = SubSeq(simulated, 1, n)
  /\ "failed" \notin Range(reported)

(* A commit meets a row that breaks where preview met it.                  *)
SimInv == ~disturbed /\ file # NoFile /\ Fine(file) =>
  /\ Len(reported) <= Len(previewed) /\ Len(previewed) <= Total
  /\ phase # "preview" => Len(previewed) = Total \/ Breaks(Row(Len(previewed) + 1))
  /\ \E m \in Walks : Walk(m) /\ Follows(m) /\ Converges(m)

(* A row whose external id the ledger had when preview read it.            *)
HadId(i) == Row(i) # NoTransaction
  /\ \E e \in Rows(LedgerRead) : e.ext = Normal[Row(i).ext]

(* What preview read is in the ledger still, and decides those rows.       *)
Ready == {i \in DOMAIN previewed : previewed[i] = "ready"}
ReadInv == file # NoFile /\ Fine(file) =>
  /\ Cardinality(Ready) \in 0 .. Len(simulated)
  /\ Unique(simulated)
  /\ Rows(LedgerRead) \subseteq Rows(Log)
  /\ \A i \in DOMAIN previewed : HadId(i) =>
       previewed[i] = IF Kept(Row(i), LedgerRead) THEN "replay" ELSE "invalid"
  /\ \A i \in DOMAIN reported : HadId(i) =>
       reported[i] = IF Kept(Row(i), LedgerRead) THEN "replayed" ELSE "failed"

IInv == TypeOK /\ PhaseInv /\ UniqueInv /\ KeptInv /\ ReadInv /\ SimInv

-----------------------------------------------------------------------------
(* Induction, as the existence of a least counterexample.                  *)
LEMMA Least ==
  ASSUME NEW T \in SUBSET Nat, T # {}
  PROVE  \E x \in T : \A y \in T : x <= y
<1>1. PICK x \in T : \A y \in T : <<y, x>> \notin OpToRel(<, Nat)
  BY WFMin, NatLessThanWellFounded
<1>2. \A y \in T : ~(y < x)
  BY <1>1 DEF OpToRel
<1> QED
  BY <1>2

Ascending(f, S) ==
  /\ f \in [1 .. Cardinality(S) -> S]
  /\ Range(f) = S /\ \A i, k \in DOMAIN f : i < k => f[i] < f[k]

(* The least number in front of an ascending sequence of the others.       *)
LEMMA AscendingCons ==
  ASSUME NEW S \in SUBSET Nat, IsFiniteSet(S), NEW x \in S, \A y \in S : x <= y,
         NEW g, Ascending(g, S \ {x})
  PROVE  \E f : Ascending(f, S)
<1> DEFINE n == Cardinality(S)
           f == [k \in 1 .. n |-> IF k = 1 THEN x ELSE g[k - 1]]
<1>1. n \in Nat \ {0} /\ Cardinality(S \ {x}) = n - 1
  BY FS_RemoveElement, FS_CardinalityType, FS_EmptySet
<1>2. g \in [1 .. n - 1 -> S \ {x}] /\ Range(g) = S \ {x}
      /\ \A i, k \in 1 .. n - 1 : i < k => g[i] < g[k]
  BY <1>1 DEF Ascending
<1> HIDE DEF n
<1>3. f \in [1 .. n -> S] /\ f[1] = x /\ \A k \in 1 .. n - 1 : f[k + 1] = g[k]
  BY <1>1, <1>2
<1>4. \A s \in S : \E k \in 1 .. n : f[k] = s
  <2> SUFFICES ASSUME NEW s \in S PROVE \E k \in 1 .. n : f[k] = s
    OBVIOUS
  <2>1. CASE s = x
    BY <2>1, <1>1, <1>3
  <2>2. CASE s # x
    <3>1. PICK k \in 1 .. n - 1 : g[k] = s
      BY <2>2, <1>2 DEF Range
    <3>2. k + 1 \in 1 .. n /\ f[k + 1] = s
      BY <3>1, <1>1, <1>3
    <3> QED
      BY <3>2
  <2> QED
    BY <2>1, <2>2
<1>5. \A i, k \in 1 .. n : i < k => f[i] < f[k]
  <2> SUFFICES ASSUME NEW i \in 1 .. n, NEW k \in 1 .. n, i < k
               PROVE  f[i] < f[k]
    OBVIOUS
  <2>1. k - 1 \in 1 .. n - 1 /\ f[k] = g[k - 1] /\ g[k - 1] \in S \ {x}
    BY <1>1, <1>2
  <2>2. CASE i = 1
    <3>1. x <= f[k] /\ x # f[k] /\ x \in Nat /\ f[k] \in Nat
      BY <2>1
    <3> QED
      BY <2>2, <3>1, <1>3
  <2>3. CASE i # 1
    <3>1. i - 1 \in 1 .. n - 1 /\ f[i] = g[i - 1] /\ i - 1 < k - 1
      BY <2>3, <1>1
    <3> QED
      BY <2>1, <3>1, <1>2
  <2> QED
    BY <2>2, <2>3
<1> HIDE DEF f
<1>6. DOMAIN f = 1 .. n /\ Range(f) = S
  <2>1. DOMAIN f = 1 .. n /\ \A k \in 1 .. n : f[k] \in S
    BY <1>3
  <2>2. Range(f) \subseteq S /\ S \subseteq Range(f)
    BY <2>1, <1>4 DEF Range
  <2> QED
    BY <2>1, <2>2
<1> QED
  BY <1>3, <1>5, <1>6 DEF Ascending, n

(* The numbers of finitely many lines can be put in order.                 *)
LEMMA AscendingExists ==
  ASSUME NEW S \in SUBSET Nat, IsFiniteSet(S)
  PROVE  \E f : Ascending(f, S)
<1> DEFINE Bad == {n \in Nat : \E T \in SUBSET Nat :
                     IsFiniteSet(T) /\ Cardinality(T) = n /\ ~\E f : Ascending(f, T)}
<1>1. SUFFICES ASSUME Bad # {} PROVE FALSE
  BY FS_CardinalityType
<1>2. PICK n \in Bad : \A k \in Bad : n <= k
  BY <1>1, Least
<1>3. PICK T \in SUBSET Nat :
        IsFiniteSet(T) /\ Cardinality(T) = n /\ ~\E f : Ascending(f, T)
  BY <1>2
<1>4. CASE T = {}
  <2>1. n = 0 /\ <<>> \in [1 .. n -> T] /\ Range(<<>>) = T /\ DOMAIN <<>> = {}
    BY <1>3, <1>4, FS_EmptySet DEF Range
  <2>2. Ascending(<<>>, T)
    BY <2>1, <1>3 DEF Ascending
  <2> QED
    BY <2>2, <1>3
<1>5. CASE T # {}
  <2>1. PICK x \in T : \A y \in T : x <= y
    BY <1>5, Least
  <2>2. IsFiniteSet(T \ {x}) /\ Cardinality(T \ {x}) = n - 1 /\ n \in Nat /\ n # 0
    BY <1>3, <2>1, <1>5, FS_RemoveElement, FS_EmptySet, FS_CardinalityType
  <2>3. n - 1 \notin Bad
    <3> HIDE DEF Bad
    <3> QED
      BY <1>2, <2>2
  <2>4. \E g : Ascending(g, T \ {x})
    BY <2>2, <2>3
  <2> QED
    BY <2>1, <2>4, <1>3, AscendingCons
<1> QED
  BY <1>4, <1>5

(* The rows of a report are the lines that hold something, in order.       *)
LEMMA CandidateFacts ==
  ASSUME NEW d \in Documents
  PROVE  /\ Range(RowNumbers[d]) = Filled(d)
         /\ DOMAIN Candidates[d] = DOMAIN RowNumbers[d]
         /\ Candidates[d] \in Seq(Range(Candidates[d]))
         /\ Range(Candidates[d]) \subseteq Posted
<1>1. Filled(d) \in SUBSET Nat /\ IsFiniteSet(Filled(d))
  <2>1. d.lines \in Seq(Seq(DOMAIN Strip))
    BY DocumentsAssumption
  <2>2. DOMAIN d.lines = 1 .. Len(d.lines) /\ Len(d.lines) \in Nat
    BY <2>1, LenProperties
  <2>3. IsFiniteSet(1 .. Len(d.lines)) /\ Filled(d) \in SUBSET (1 .. Len(d.lines))
    BY <2>2, FS_Interval DEF Filled
  <2> QED
    BY <2>2, <2>3, FS_Subset
<1>2. Ascending(RowNumbers[d], Filled(d))
  BY <1>1, AscendingExists DEF RowNumbers, Ascending
<1>3. DOMAIN RowNumbers[d] = 1 .. Cardinality(Filled(d)) /\ Cardinality(Filled(d)) \in Nat
  BY <1>1, <1>2, FS_CardinalityType DEF Ascending
<1>4. Candidates[d] = [k \in 1 .. Cardinality(Filled(d)) |->
                         NewTransaction(d, d.lines[RowNumbers[d][k]])]
  BY <1>3 DEF Candidates
<1>5. DOMAIN Candidates[d] = 1 .. Cardinality(Filled(d))
      /\ Candidates[d] \in [1 .. Cardinality(Filled(d)) -> Range(Candidates[d])]
  <2> HIDE DEF Candidates
  <2> QED
    BY <1>4 DEF Range
<1>6. Candidates[d] \in Seq(Range(Candidates[d]))
  BY <1>3, <1>5
<1> QED
  BY <1>2, <1>3, <1>5, <1>6 DEF Ascending, Posted

-----------------------------------------------------------------------------
(* A row at the end of a log.                                              *)
LEMMA RowsAppend ==
  ASSUME NEW S, NEW log \in Seq(S), NEW t \in S
  PROVE  /\ Append(log, t) \in Seq(S) /\ Len(Append(log, t)) = Len(log) + 1
         /\ Rows(Append(log, t)) = Rows(log) \cup {t}
<1>1. /\ Len(log) \in Nat /\ DOMAIN log = 1 .. Len(log)
      /\ Append(log, t) \in Seq(S) /\ Len(Append(log, t)) = Len(log) + 1
      /\ DOMAIN Append(log, t) = 1 .. Len(log) + 1
      /\ \A i \in 1 .. Len(log) : Append(log, t)[i] = log[i]
      /\ Append(log, t)[Len(log) + 1] = t
  BY AppendProperties, LenProperties
<1>2. Rows(Append(log, t)) \subseteq Rows(log) \cup {t}
  BY <1>1 DEF Rows
<1>3. Rows(log) \cup {t} \subseteq Rows(Append(log, t))
  BY <1>1 DEF Rows
<1> QED
  BY <1>1, <1>2, <1>3

(* The first a rows of a log.                                              *)
LEMMA Prefix ==
  ASSUME NEW S, NEW s \in Seq(S), NEW a \in 0 .. Len(s)
  PROVE  /\ SubSeq(s, 1, a) \in Seq(S) /\ Len(SubSeq(s, 1, a)) = a
         /\ Rows(SubSeq(s, 1, a)) = {s[i] : i \in 1 .. a}
<1>1. Len(s) \in Nat /\ a \in Nat /\ \A i \in 1 .. a : s[i] \in S
  BY LenProperties, ElementOfSeq
<1>2. /\ SubSeq(s, 1, a) \in Seq(S) /\ Len(SubSeq(s, 1, a)) = a
      /\ \A i \in 1 .. a : SubSeq(s, 1, a)[i] = s[i]
  BY <1>1, SubSeqProperties
<1>3. DOMAIN SubSeq(s, 1, a) = 1 .. a
  BY <1>2, LenProperties
<1> QED
  BY <1>2, <1>3 DEF Rows

(* A prefix of a list and the next element make the next prefix.           *)
LEMMA PrefixNext ==
  ASSUME NEW S, NEW s \in Seq(S), NEW a \in 0 .. Len(s), a < Len(s)
  PROVE  Append(SubSeq(s, 1, a), s[a + 1]) = SubSeq(s, 1, a + 1)
<1>1. Len(s) \in Nat /\ a \in Nat /\ a + 1 \in 0 .. Len(s) /\ s[a + 1] \in S
  BY LenProperties, ElementOfSeq
<1>2. \A k \in 0 .. Len(s) : \A i \in 1 .. k : s[i] \in S
  BY ElementOfSeq, LenProperties
<1>3. /\ SubSeq(s, 1, a) \in Seq(S) /\ Len(SubSeq(s, 1, a)) = a
      /\ \A i \in 1 .. a : SubSeq(s, 1, a)[i] = s[i]
  BY <1>1, <1>2, SubSeqProperties
<1>4. /\ SubSeq(s, 1, a + 1) \in Seq(S) /\ Len(SubSeq(s, 1, a + 1)) = a + 1
      /\ \A i \in 1 .. a + 1 : SubSeq(s, 1, a + 1)[i] = s[i]
  BY <1>1, <1>2, SubSeqProperties
<1> DEFINE u == SubSeq(s, 1, a)
           v == SubSeq(s, 1, a + 1)
<1>5. /\ Append(u, s[a + 1]) \in Seq(S) /\ Len(Append(u, s[a + 1])) = a + 1
      /\ \A i \in 1 .. a : Append(u, s[a + 1])[i] = s[i]
      /\ Append(u, s[a + 1])[a + 1] = s[a + 1]
  BY <1>1, <1>3, AppendProperties
<1> HIDE DEF u, v
<1>6. \A i \in 1 .. a + 1 : Append(u, s[a + 1])[i] = v[i]
  BY <1>1, <1>4, <1>5 DEF v
<1>7. Append(u, s[a + 1]) = v
  BY <1>4, <1>5, <1>6, SeqEqual DEF v
<1> QED
  BY <1>7 DEF u, v

(* An appended element is in no earlier prefix.                            *)
LEMMA PrefixAppend ==
  ASSUME NEW S, NEW s \in Seq(S), NEW t \in S, NEW a \in 0 .. Len(s)
  PROVE  SubSeq(Append(s, t), 1, a) = SubSeq(s, 1, a)
<1>1. Len(s) \in Nat /\ a \in Nat /\ \A i \in 1 .. a : s[i] \in S
  BY LenProperties, ElementOfSeq
<1>2. \A i \in 1 .. a : Append(s, t)[i] = s[i]
  BY <1>1, AppendProperties
<1>3. /\ SubSeq(s, 1, a) \in Seq(S) /\ Len(SubSeq(s, 1, a)) = a
      /\ \A i \in 1 .. a : SubSeq(s, 1, a)[i] = s[i]
  BY <1>1, SubSeqProperties
<1>4. /\ SubSeq(Append(s, t), 1, a) \in Seq(S) /\ Len(SubSeq(Append(s, t), 1, a)) = a
      /\ \A i \in 1 .. a : SubSeq(Append(s, t), 1, a)[i] = s[i]
  BY <1>1, <1>2, SubSeqProperties
<1> DEFINE u == SubSeq(s, 1, a)
           v == SubSeq(Append(s, t), 1, a)
<1> HIDE DEF u, v
<1>5. v = u
  BY <1>3, <1>4, SeqEqual DEF u, v
<1> QED
  BY <1>5 DEF u, v

-----------------------------------------------------------------------------
(* What a verdict says, and that a row the ledger has gets the verdict     *)
(* known, since its external id is nobody else's.                          *)
LEMMA VerdictFacts ==
  ASSUME NEW log, NEW c
  PROVE  /\ Verdict(log, c) \in {"new", "known", "refused"}
         /\ Verdict(log, c) = "new" =>
              /\ IsValid(c) /\ ByExternalId(log, Normal[c.ext]) = {}
              /\ Replays(Rows(log) \cup {NextRow(log, c)})
         /\ Verdict(log, c) = "known" /\ c # NoTransaction => Kept(c, log)
         /\ Kept(c, log) /\ Unique(log) => Verdict(log, c) = "known"
<1> DEFINE t == NextRow(log, c)
           known == ByExternalId(log, t.ext)
<1>1. t.ext = Normal[c.ext]
  BY DEF NextRow, BuildTransaction
<1>2. \A e : SamePayload(e, t) <=> SamePayload(e, BuildTransaction(c, e.id, e.created))
  BY DEF SamePayload, NextRow, BuildTransaction
<1>3. Verdict(log, c) = "known" /\ c # NoTransaction => Kept(c, log)
  BY <1>2 DEF Verdict, Kept, ByExternalId
<1>4. Kept(c, log) /\ Unique(log) => Verdict(log, c) = "known"
  <2> SUFFICES ASSUME Kept(c, log), Unique(log) PROVE Verdict(log, c) = "known"
    OBVIOUS
  <2>1. PICK e \in Rows(log) : SamePayload(e, t)
    BY <1>2 DEF Kept
  <2>2. e \in known /\ \A g \in known : g = e
    BY <2>1 DEF SamePayload, ByExternalId, Unique
  <2> QED
    BY <2>1, <2>2 DEF Kept, Verdict
<1>5. /\ Verdict(log, c) \in {"new", "known", "refused"}
      /\ Verdict(log, c) = "new" => IsValid(c) /\ known = {} /\ Replays(Rows(log) \cup {t})
  BY DEF Verdict
<1> QED
  BY <1>1, <1>3, <1>4, <1>5

(* A commit's status and a preview's are the same verdict.                 *)
LEMMA StatusFacts ==
  ASSUME NEW log, NEW c
  PROVE  /\ PreviewStatus(log, c) \in {"ready", "replay", "invalid"}
         /\ CommitStatus(log, c) = Predicted(PreviewStatus(log, c))
         /\ PreviewStatus(log, c) = "ready" <=> c # NoTransaction /\ Verdict(log, c) = "new"
         /\ PreviewStatus(log, c) = "replay" <=> c # NoTransaction /\ Verdict(log, c) = "known"
         /\ CommitStatus(log, c) = "created" <=> c # NoTransaction /\ Verdict(log, c) = "new"
         /\ CommitStatus(log, c) = "replayed" <=> c # NoTransaction /\ Verdict(log, c) = "known"
         /\ CommitStatus(log, c) \in {"created", "replayed", "failed"}
<1>1. CASE c = NoTransaction
  <2>1. PreviewStatus(log, c) = "invalid" /\ CommitStatus(log, c) = "failed"
    BY <1>1 DEF PreviewStatus, CommitStatus
  <2> QED
    BY <1>1, <2>1 DEF Predicted
<1>2. CASE c # NoTransaction /\ Verdict(log, c) = "new"
  <2>1. PreviewStatus(log, c) = "ready" /\ CommitStatus(log, c) = "created"
    BY <1>2 DEF PreviewStatus, CommitStatus
  <2> QED
    BY <1>2, <2>1 DEF Predicted
<1>3. CASE c # NoTransaction /\ Verdict(log, c) = "known"
  <2>1. PreviewStatus(log, c) = "replay" /\ CommitStatus(log, c) = "replayed"
    BY <1>3 DEF PreviewStatus, CommitStatus
  <2> QED
    BY <1>3, <2>1 DEF Predicted
<1>4. CASE c # NoTransaction /\ Verdict(log, c) = "refused"
  <2>1. PreviewStatus(log, c) = "invalid" /\ CommitStatus(log, c) = "failed"
    BY <1>4 DEF PreviewStatus, CommitStatus
  <2> QED
    BY <1>4, <2>1 DEF Predicted
<1> QED
  BY <1>1, <1>2, <1>3, <1>4, VerdictFacts

(* What becomes of a row that is written: it is kept, for good, and its    *)
(* external id stays unique.                                               *)
LEMMA NewRow ==
  ASSUME NEW log \in Seq(LedgerRows), NEW c \in Posted, Verdict(log, c) = "new", Unique(log)
  PROVE  /\ NextRow(log, c) \in LedgerRows
         /\ Append(log, NextRow(log, c)) \in Seq(LedgerRows)
         /\ Unique(Append(log, NextRow(log, c)))
         /\ c # NoTransaction => Kept(c, Append(log, NextRow(log, c)))
         /\ \A b : Kept(b, log) => Kept(b, Append(log, NextRow(log, c)))
<1> DEFINE t == NextRow(log, c)
<1>1. Len(log) + 1 \in Nat
  BY LenProperties
<1>2. t \in LedgerRows
  BY <1>1 DEF NextRow, LedgerRows
<1>3. t.ext = Normal[c.ext] /\ SamePayload(t, BuildTransaction(c, t.id, t.created))
  BY DEF NextRow, BuildTransaction, SamePayload
<1> HIDE DEF t
<1>4. Append(log, t) \in Seq(LedgerRows) /\ Rows(Append(log, t)) = Rows(log) \cup {t}
  BY <1>2, RowsAppend
<1>5. \A e \in Rows(log) : e.ext # t.ext
  BY <1>3, VerdictFacts DEF ByExternalId
<1>6. Unique(Append(log, t))
  BY <1>4, <1>5 DEF Unique
<1>7. c # NoTransaction => Kept(c, Append(log, t))
  BY <1>3, <1>4, VerdictFacts DEF Kept
<1>8. \A b : Kept(b, log) => Kept(b, Append(log, t))
  BY <1>4 DEF Kept
<1> QED
  BY <1>2, <1>4, <1>6, <1>7, <1>8 DEF t

-----------------------------------------------------------------------------
(* Which documents reach their rows, and which are refused.                *)
LEMMA AdmittedFacts ==
  ASSUME NEW d \in Documents, NEW next \in {"preview", "commit"}
  PROVE  /\ Admitted(d, next) \in {"refused", "not_found", "error", next}
         /\ Admitted(d, next) = next <=> Fine(d)
         /\ Admitted(d, next) = "refused" => Refused(d)
<1>1. d.size \in Nat /\ MaxBytes \in Nat
  BY DocumentsAssumption, LimitsAssumption
<1>2. CASE d.size > MaxBytes
  <2>1. Admitted(d, next) = "refused" /\ Refused(d) /\ ~Fine(d)
    BY <1>1, <1>2 DEF Admitted, Refused, Fine
  <2> QED
    BY <2>1
<1>3. CASE d.size <= MaxBytes /\ ~Fine(d)
  <2>1. Admitted(d, next) \in {"refused", "not_found", "error"}
        /\ (Admitted(d, next) = "refused" => Refused(d))
    BY <1>1, <1>3 DEF Admitted, Fine
  <2> QED
    BY <2>1, <1>3
<1>4. CASE Fine(d)
  BY <1>1, <1>4 DEF Admitted, Fine
<1> QED
  BY <1>1, <1>2, <1>3, <1>4

(* A file that reached its rows: its portfolio, its rows and their number. *)
LEMMA FileFacts ==
  ASSUME NEW d \in Documents, Fine(d)
  PROVE  /\ d.pf \in Portfolios
         /\ Candidates[d] \in Seq(Posted)
         /\ Len(Candidates[d]) \in Nat
         /\ DOMAIN Candidates[d] = 1 .. Len(Candidates[d])
         /\ \A i \in 1 .. Len(Candidates[d]) : Candidates[d][i] \in Posted
<1>1. Candidates[d] \in Seq(Posted)
  BY CandidateFacts, SeqMonotonic
<1>2. d.pf \in Portfolios
  BY DEF Fine, Owned
<1> QED
  BY <1>1, <1>2, LenProperties, ElementOfSeq

(* A log that has the rows of another decides a row whose id they have.    *)
LEMMA KnownVerdict ==
  ASSUME NEW log, NEW base, NEW c, c # NoTransaction, Unique(log),
         Rows(base) \subseteq Rows(log), \E e \in Rows(base) : e.ext = Normal[c.ext]
  PROVE  Verdict(log, c) = IF Kept(c, base) THEN "known" ELSE "refused"
<1>1. CASE Kept(c, base)
  <2>1. Kept(c, log)
    BY <1>1 DEF Kept
  <2> QED
    BY <1>1, <2>1, VerdictFacts
<1>2. CASE ~Kept(c, base)
  <2>1. PICK e \in Rows(base) : e.ext = Normal[c.ext]
    OBVIOUS
  <2>2. Verdict(log, c) # "new"
    BY <2>1, VerdictFacts DEF ByExternalId
  <2>3. ~Kept(c, log)
    <3> SUFFICES ASSUME Kept(c, log) PROVE FALSE
      OBVIOUS
    <3>1. PICK g \in Rows(log) : SamePayload(g, BuildTransaction(c, g.id, g.created))
      BY DEF Kept
    <3>2. g.ext = Normal[c.ext]
      BY <3>1 DEF SamePayload, BuildTransaction
    <3>3. g = e
      BY <2>1, <3>2 DEF Unique
    <3> QED
      BY <1>2, <2>1, <3>1, <3>3 DEF Kept
  <2> QED
    BY <1>2, <2>2, <2>3, VerdictFacts
<1> QED
  BY <1>1, <1>2

(* What was read stays read as long as the copy, the preview and the file  *)
(* stay, and the ledger only grows.                                        *)
LEMMA ReadStays ==
  ASSUME ReadInv, UNCHANGED <<file, simulated, previewed>>,
         Fine(file) /\ file # NoFile => Rows(Log) \subseteq Rows(Log'),
         reported' = reported \/ reported' = <<>>
  PROVE  ReadInv'
<1>1. /\ Ready' = Ready /\ LedgerRead' = LedgerRead
      /\ \A i : Row(i)' = Row(i) /\ (HadId(i)' <=> HadId(i))
  BY DEF Ready, LedgerRead, HadId, Row
<1> QED
  BY <1>1 DEF ReadInv

(* The invariant holds before the first request.                           *)
LEMMA InitIInv == Init => IInv
<1> SUFFICES ASSUME Init PROVE IInv
  OBVIOUS
<1>1. TypeOK
  BY EmptySeq DEF Init, TypeOK
<1>2. PhaseInv
  BY DEF Init, PhaseInv
<1>3. UniqueInv
  BY DEF Init, UniqueInv, Unique, Rows
<1>4. KeptInv /\ ReadInv /\ SimInv
  BY DEF Init, KeptInv, ReadInv, SimInv
<1> QED
  BY <1>1, <1>2, <1>3, <1>4 DEF IInv

(* A file is posted for the first time: preview starts where the ledger is.*)
LEMMA StartStep ==
  ASSUME IInv, NEW d \in Documents, Preview(d) \/ CommitUnseen(d)
  PROVE  IInv'
<1>1. /\ phase = "idle" /\ previewed = <<>> /\ reported = <<>> /\ earlier = <<>>
      /\ simulated = <<>>
  BY DEF IInv, PhaseInv, Preview, CommitUnseen
<1>2. /\ file' = d /\ ledger' = ledger
      /\ previewed' = <<>> /\ reported' = <<>> /\ earlier' = <<>>
      /\ phase' \in {"refused", "not_found", "error", "preview", "commit"}
      /\ phase' \in {"preview", "commit"} <=> Fine(d)
      /\ phase' = "refused" => Refused(d)
  BY <1>1, AdmittedFacts DEF Preview, CommitUnseen
<1>3. simulated' = IF phase' = "preview" THEN ledger[d.pf] ELSE <<>>
  BY <1>1, <1>2, AdmittedFacts DEF Preview, CommitUnseen
<1>4. phase' = "preview" => ledger[d.pf] \in Seq(LedgerRows)
  BY <1>2, FileFacts DEF IInv, TypeOK
<1>5. TypeOK'
  BY <1>2, <1>3, <1>4, EmptySeq DEF IInv, TypeOK, Preview, CommitUnseen
<1>6. PhaseInv'
  <2>1. Fine(d) => Total' \in Nat
    BY <1>2, FileFacts DEF Total
  <2>2. disturbed' => touched'
    BY DEF Preview, CommitUnseen
  <2> QED
    BY <1>2, <2>1, <2>2, EmptySeq DEF PhaseInv
<1>7. UniqueInv' /\ KeptInv'
  BY <1>2 DEF IInv, UniqueInv, KeptInv
<1>8. ReadInv'
  <2> SUFFICES ASSUME Fine(d) PROVE ReadInv'
    BY <1>2 DEF ReadInv
  <2>1. simulated' \in Seq(LedgerRows) /\ Len(simulated') \in Nat
    BY <1>3, <1>4, EmptySeq, LenProperties
  <2>2. Ready' = {} /\ Cardinality(Ready') = 0 /\ DOMAIN previewed' = {} /\ DOMAIN reported' = {}
    BY <1>2, FS_EmptySet DEF Ready
  <2>3. LedgerRead' = SubSeq(simulated', 1, Len(simulated'))
    BY <2>1, <2>2 DEF LedgerRead, Ready
  <2>4. LedgerRead' = simulated'
    BY <2>1, <2>3, SubSeqFull
  <2>5. Unique(simulated') /\ Rows(simulated') \subseteq Rows(Log')
    <3>1. CASE phase' = "preview"
      BY <3>1, <1>2, <1>3, FileFacts DEF IInv, UniqueInv, Log
    <3>2. CASE phase' # "preview"
      BY <3>2, <1>3 DEF Unique, Rows
    <3> QED
      BY <3>1, <3>2
  <2> QED
    BY <2>1, <2>2, <2>4, <2>5 DEF ReadInv
<1>9. SimInv'
  <2> SUFFICES ASSUME ~disturbed', Fine(d) PROVE SimInv'
    BY <1>2 DEF SimInv
  <2>1. phase' = "preview"
    BY <1>1, <1>2, AdmittedFacts DEF Preview, CommitUnseen
  <2>2. simulated' = Log' /\ simulated' \in Seq(LedgerRows) /\ Len(simulated') \in Nat
    BY <2>1, <1>2, <1>3, <1>4, LenProperties DEF Log
  <2>3. Len(previewed') = 0 /\ Len(reported') = 0 /\ DOMAIN previewed' = {} /\ DOMAIN reported' = {}
    BY <1>2
  <2>0. PICK n : n = Len(simulated')
    OBVIOUS
  <2> DEFINE m == [i \in 0 .. 0 |-> n]
  <2>4. m \in Walks' /\ m[0] = Len(simulated') /\ DOMAIN m = 0 .. 0
    BY <2>0, <2>2, <2>3 DEF Walks
  <2> HIDE DEF m
  <2>5. Walk(m)'
    BY <2>2, <2>3, <2>4 DEF Walk
  <2>6. SubSeq(simulated', 1, Len(simulated')) = simulated'
    BY <2>2, SubSeqFull
  <2>7. Follows(m)' /\ Converges(m)'
    BY <2>2, <2>3, <2>4, <2>6 DEF Follows, Converges, Range
  <2>8. Total' \in Nat
    BY <1>2, FileFacts DEF Total
  <2> QED
    BY <2>1, <2>3, <2>4, <2>5, <2>7, <2>8 DEF SimInv
<1> QED
  BY <1>5, <1>6, <1>7, <1>9, <1>8 DEF IInv

(* A commit that has not begun is where the preview began, unless rows of  *)
(* an earlier one are in the ledger.                                       *)
LEMMA RewindSim ==
  ASSUME TypeOK, PhaseInv, SimInv,
         UNCHANGED <<ledger, file, simulated, previewed, disturbed>>, reported' = <<>>,
         ~touched' => ~touched /\ (reported = <<>> \/ earlier' # <<>>
                                     \/ "created" \notin Range(reported)),
         earlier' = <<>> => earlier = <<>>,
         Fine(file) /\ ~disturbed =>
           Len(previewed) = Total \/ Breaks(Row(Len(previewed) + 1))
  PROVE  SimInv'
<1> SUFFICES ASSUME ~disturbed, file # NoFile, Fine(file) PROVE SimInv'
  BY DEF SimInv
<1>1. PICK m \in Walks : Walk(m) /\ Follows(m) /\ Converges(m)
  BY DEF SimInv
<1>2. Len(previewed) \in Nat /\ Len(reported) \in Nat /\ Len(simulated) \in Nat
      /\ DOMAIN previewed = 1 .. Len(previewed)
  BY LenProperties DEF TypeOK
<1>3. Len(reported) \in 0 .. Len(previewed) /\ Len(previewed) <= Total
  BY <1>2 DEF SimInv
<1>4. /\ m \in [0 .. Len(previewed) -> 0 .. Len(simulated)] /\ DOMAIN m = 0 .. Len(previewed)
      /\ m[0] <= m[Len(reported)]
  BY <1>1, <1>2, <1>3 DEF Walks, Walk
<1>5. m \in Walks'
  BY <1>1 DEF Walks
<1>6. Walk(m)'
  BY <1>1 DEF Walk, Row
<1>7. reported' = <<>> /\ Len(reported') = 0 /\ DOMAIN reported' = {} /\ Range(reported') = {}
  BY DEF Range
<1>8. Follows(m)'
  <2> SUFFICES ASSUME ~touched', earlier' = <<>>
               PROVE  Log = SubSeq(simulated, 1, m[0])
    BY <1>7 DEF Follows, Log
  <2>1. reported = <<>> \/ "created" \notin Range(reported)
    OBVIOUS
  <2>2. Log = SubSeq(simulated, 1, m[Len(reported)])
        /\ ("created" \notin Range(reported) => m[Len(reported)] = m[0])
    BY <1>1 DEF Follows
  <2>3. reported = <<>> => Len(reported) = 0
    OBVIOUS
  <2> QED
    BY <2>1, <2>2, <2>3
<1>9. Converges(m)'
  <2> SUFFICES ASSUME "invalid" \notin Range(previewed)
               PROVE  \E n \in m[0] .. Len(simulated) : Log = SubSeq(simulated, 1, n)
    BY <1>7 DEF Converges, Log
  <2>1. PICK n \in m[Len(reported)] .. Len(simulated) : Log = SubSeq(simulated, 1, n)
    BY <1>1 DEF Converges
  <2>2. n \in m[0] .. Len(simulated)
    BY <1>2, <1>3, <1>4, <2>1
  <2> QED
    BY <2>1, <2>2
<1>10. Total' = Total /\ \A i : Row(i)' = Row(i)
  BY DEF Total, Row
<1> QED
  BY <1>2, <1>3, <1>5, <1>6, <1>7, <1>8, <1>9, <1>10 DEF SimInv

(* A commit begins or ends early: its report is gone.                      *)
LEMMA RestartStep ==
  ASSUME IInv, Break \/ Cut \/ Commit
  PROVE  IInv'
<1>1. /\ file \in Documents /\ file # NoFile
      /\ UNCHANGED <<ledger, file, simulated, previewed, disturbed>> /\ reported' = <<>>
  BY DocumentsAssumption DEF IInv, PhaseInv, Break, Cut, Commit
<1>2. /\ \/ phase' \in {"waiting", "error"} /\ Fine(file)
         \/ phase' = Admitted(file, "commit")
      /\ phase' \notin {"idle", "preview", "done"}
  BY <1>1, AdmittedFacts DEF IInv, PhaseInv, Break, Cut, Commit
<1>3. TypeOK'
  BY <1>1, <1>2, AdmittedFacts, EmptySeq DEF IInv, TypeOK, Break, Cut, Commit
<1>4. earlier' = earlier \/ (earlier' = reported /\ phase = "done")
  BY DEF Break, Cut, Commit
<1>5. Fine(file) => Total \in Nat /\ Total' = Total
  BY <1>1, FileFacts DEF Total
<1>6. PhaseInv'
  <2>1. phase' \in {"waiting", "commit"} => Fine(file)
    BY <1>1, <1>2, AdmittedFacts
  <2>2. phase' = "refused" => Refused(file)
    BY <1>1, <1>2, AdmittedFacts
  <2>3. earlier' # <<>> => Fine(file) /\ Len(earlier') = Total
    BY <1>4 DEF IInv, PhaseInv
  <2>4. disturbed' => touched'
    BY DEF IInv, PhaseInv, Break, Cut, Commit
  <2> QED
    BY <1>1, <1>2, <1>5, <2>1, <2>2, <2>3, <2>4 DEF IInv, PhaseInv
<1>7. UniqueInv'
  BY <1>1 DEF IInv, UniqueInv
<1>8. KeptInv'
  BY <1>1, <1>4 DEF IInv, KeptInv, Log, Row
<1>9. ReadInv'
  BY <1>1, ReadStays DEF IInv, Log
<1>10. SimInv'
  <2>1. ~touched' => ~touched /\ (reported = <<>> \/ earlier' # <<>>
                                    \/ "created" \notin Range(reported))
    <3>1. CASE Break \/ Cut
      BY <3>1 DEF Break, Cut, Range
    <3>2. CASE Commit
      BY <3>2 DEF Commit, IInv, PhaseInv
    <3> QED
      BY <3>1, <3>2
  <2>2. earlier' = <<>> => earlier = <<>>
    <3>1. CASE Commit /\ phase = "done" /\ reported = <<>>
      <4>1. Len(reported) = 0 /\ Total = 0
        BY <3>1 DEF IInv, PhaseInv
      <4>2. earlier # <<>> => Len(earlier) = 0
        BY <4>1 DEF IInv, PhaseInv
      <4> QED
        BY <4>2, EmptySeq DEF IInv, TypeOK
    <3>2. CASE ~(Commit /\ phase = "done" /\ reported = <<>>)
      BY <3>2 DEF Break, Cut, Commit
    <3> QED
      BY <3>1, <3>2
  <2>3. ASSUME Fine(file), ~disturbed
        PROVE  Len(previewed) = Total \/ Breaks(Row(Len(previewed) + 1))
    <3>1. CASE phase = "preview"
      <4>1. Break
        BY <3>1 DEF Cut, Commit
      <4> QED
        BY <3>1, <4>1 DEF Break, Row
    <3>2. CASE phase # "preview"
      BY <3>2, <2>3, <1>1 DEF IInv, SimInv
    <3> QED
      BY <3>1, <3>2
  <2> QED
    BY <1>1, <2>1, <2>2, <2>3, RewindSim DEF IInv
<1> QED
  BY <1>3, <1>6, <1>7, <1>8, <1>10, <1>9 DEF IInv

(* A complete report, and the end of the client's interest in the file.    *)
LEMMA DoneStep ==
  ASSUME IInv, PreviewDone \/ CommitDone \/ Leave
  PROVE  IInv'
<1>1. CASE PreviewDone \/ CommitDone
  <2>1. UNCHANGED <<ledger, file, simulated, previewed, reported, earlier, touched, disturbed>>
    BY <1>1 DEF PreviewDone, CommitDone
  <2>2. \/ phase = "preview" /\ phase' = "waiting" /\ Len(previewed) = Total
        \/ phase = "commit" /\ phase' = "done" /\ Len(reported) = Total
    BY <1>1 DEF PreviewDone, CommitDone, Total
  <2>3. TypeOK' /\ UniqueInv'
    BY <2>1, <2>2 DEF IInv, TypeOK, UniqueInv
  <2>4. PhaseInv'
    BY <2>1, <2>2 DEF IInv, PhaseInv, Total
  <2>5. KeptInv'
    BY <2>1 DEF IInv, KeptInv, Log, Row
  <2>6. ReadInv'
    BY <2>1, ReadStays DEF IInv, Log
  <2>7. SimInv'
    <3>1. \A m : /\ Walk(m)' <=> Walk(m)
                 /\ Follows(m)' <=> Follows(m)
                 /\ Converges(m)' <=> Converges(m)
      BY <2>1 DEF Walk, Follows, Converges, Log, Row
    <3>2. Walks' = Walks /\ Total' = Total /\ \A i : Row(i)' = Row(i)
      BY <2>1 DEF Walks, Total, Row
    <3> QED
      BY <2>1, <2>2, <3>1, <3>2 DEF IInv, SimInv
  <2> QED
    BY <2>3, <2>4, <2>5, <2>6, <2>7 DEF IInv
<1>2. CASE Leave
  <2>1. /\ phase' = "idle" /\ file' = NoFile /\ ledger' = ledger
        /\ simulated' = <<>> /\ previewed' = <<>> /\ reported' = <<>> /\ earlier' = <<>>
        /\ touched' = FALSE /\ disturbed' = FALSE
    BY <1>2 DEF Leave
  <2>2. TypeOK' /\ UniqueInv'
    BY <2>1, EmptySeq DEF IInv, TypeOK, UniqueInv
  <2>3. PhaseInv' /\ KeptInv' /\ ReadInv' /\ SimInv'
    BY <2>1 DEF PhaseInv, KeptInv, ReadInv, SimInv
  <2> QED
    BY <2>2, <2>3 DEF IInv
<1> QED
  BY <1>1, <1>2

-----------------------------------------------------------------------------
(* Another client's row: what was kept is kept.                            *)
LEMMA WriteStep ==
  ASSUME IInv, NEW p \in Payloads, Write(p)
  PROVE  IInv'
<1> DEFINE log == ledger[p.pf]
           log2 == Append(log, NextRow(log, p))
<1>1. /\ p.pf \in Portfolios /\ p \in Posted /\ Verdict(log, p) = "new"
      /\ ledger' = [ledger EXCEPT ![p.pf] = log2] /\ disturbed' = TRUE /\ touched' = TRUE
      /\ UNCHANGED <<phase, file, simulated, previewed, reported, earlier>>
  BY DEF Write, Owned, Posted
<1>2. log \in Seq(LedgerRows) /\ Unique(log)
  BY <1>1 DEF IInv, TypeOK, UniqueInv
<1>3. /\ log2 \in Seq(LedgerRows) /\ Unique(log2) /\ \A b : Kept(b, log) => Kept(b, log2)
      /\ Rows(log) \subseteq Rows(log2)
  BY <1>1, <1>2, NewRow, RowsAppend
<1> HIDE DEF log2
<1>4. TypeOK' /\ UniqueInv'
  BY <1>1, <1>3 DEF IInv, TypeOK, UniqueInv
<1>5. PhaseInv'
  BY <1>1 DEF IInv, PhaseInv, Total
<1>6. ASSUME file \in Documents, Fine(file)
      PROVE  Rows(Log) \subseteq Rows(Log') /\ \A b : Kept(b, Log) => Kept(b, Log')
  <2>1. file.pf \in Portfolios
    BY <1>6, FileFacts
  <2>2. CASE file.pf = p.pf
    BY <2>1, <2>2, <1>1, <1>3 DEF Log, IInv, TypeOK
  <2>3. CASE file.pf # p.pf
    BY <2>1, <2>3, <1>1 DEF Log, IInv, TypeOK
  <2> QED
    BY <2>2, <2>3
<1>7. ReadInv'
  BY <1>1, <1>6, ReadStays DEF IInv, TypeOK
<1>8. KeptInv'
  <2>1. reported # <<>> \/ earlier # <<>> => file \in Documents /\ Fine(file)
    BY DEF IInv, PhaseInv
  <2>2. (reported # <<>> \/ earlier # <<>>) => \A b : Kept(b, Log) => Kept(b, Log')
    BY <1>6, <2>1
  <2>3. \A i : Row(i)' = Row(i)
    BY <1>1 DEF Row
  <2> QED
    BY <1>1, <2>2, <2>3 DEF IInv, KeptInv
<1>9. SimInv'
  BY <1>1 DEF SimInv
<1> QED
  BY <1>4, <1>5, <1>7, <1>8, <1>9 DEF IInv

(* Preview's next row: the walk gets one place longer.                     *)
LEMMA PreviewRowStep ==
  ASSUME IInv, PreviewRow
  PROVE  IInv'
<1> DEFINE k == Len(previewed) + 1
           row == Row(k)
           status == PreviewStatus(simulated, row)
           t == NextRow(simulated, row)
<1>1. /\ phase = "preview" /\ file \in Documents /\ Fine(file) /\ file # NoFile
      /\ reported = <<>> /\ earlier = <<>>
  BY DocumentsAssumption DEF IInv, PhaseInv, PreviewRow
<1>2. /\ Len(previewed) < Total /\ previewed' = Append(previewed, status)
      /\ simulated' = IF status = "ready" THEN Append(simulated, t) ELSE simulated
      /\ UNCHANGED <<ledger, phase, file, reported, earlier, touched, disturbed>>
  BY DEF PreviewRow, Total, Row
<1>3. /\ Total \in Nat /\ Len(previewed) \in Nat /\ Len(simulated) \in Nat
      /\ DOMAIN previewed = 1 .. Len(previewed) /\ k \in 1 .. Total /\ row \in Posted
  BY <1>1, <1>2, FileFacts, LenProperties DEF IInv, TypeOK, Total, Row
<1>4. status \in {"ready", "replay", "invalid"} /\ t \in LedgerRows
  BY <1>3, StatusFacts DEF NextRow, LedgerRows
<1>5. /\ previewed' \in Seq({"ready", "replay", "invalid"}) /\ Len(previewed') = k
      /\ DOMAIN previewed' = 1 .. k /\ previewed'[k] = status
      /\ \A i \in 1 .. Len(previewed) : previewed'[i] = previewed[i]
  BY <1>2, <1>4, AppendProperties, LenProperties DEF IInv, TypeOK
<1>6. /\ simulated' \in Seq(LedgerRows)
      /\ status = "ready" => Len(simulated') = Len(simulated) + 1
                             /\ simulated'[Len(simulated) + 1] = t
      /\ \A i \in 1 .. Len(simulated) : simulated'[i] = simulated[i]
      /\ \A a \in 0 .. Len(simulated) : SubSeq(simulated', 1, a) = SubSeq(simulated, 1, a)
  BY <1>2, <1>4, AppendProperties, PrefixAppend DEF IInv, TypeOK
<1>7. TypeOK'
  BY <1>2, <1>5, <1>6 DEF IInv, TypeOK
<1>8. PhaseInv'
  BY <1>1, <1>2, <1>3, <1>5 DEF IInv, PhaseInv, Total
<1>9. UniqueInv' /\ KeptInv'
  BY <1>1, <1>2 DEF IInv, UniqueInv, KeptInv, Log, Row
<1>10. ReadInv'
  <2> DEFINE a == Len(simulated) - Cardinality(Ready)
  <2>1. /\ Cardinality(Ready) \in 0 .. Len(simulated) /\ a \in 0 .. Len(simulated)
        /\ Unique(simulated) /\ LedgerRead = SubSeq(simulated, 1, a)
        /\ Rows(LedgerRead) \subseteq Rows(Log)
    BY <1>1, <1>3 DEF IInv, ReadInv, LedgerRead, Ready
  <2>2. Ready \in SUBSET (1 .. Len(previewed)) /\ IsFiniteSet(Ready) /\ k \notin Ready
    <3>1. Ready \subseteq 1 .. Len(previewed)
      BY <1>3 DEF Ready
    <3>2. IsFiniteSet(1 .. Len(previewed))
      BY <1>3, FS_Interval
    <3>3. IsFiniteSet(Ready)
      BY <3>1, <3>2, FS_Subset
    <3> QED
      BY <3>1, <3>3, <1>3
  <2>3. /\ Ready' = IF status = "ready" THEN Ready \cup {k} ELSE Ready
        /\ Cardinality(Ready') = Cardinality(Ready) + IF status = "ready" THEN 1 ELSE 0
    <3>1. Ready' = IF status = "ready" THEN Ready \cup {k} ELSE Ready
      BY <1>3, <1>5 DEF Ready
    <3>2. Cardinality(Ready \cup {k}) = Cardinality(Ready) + 1
      BY <2>2, FS_AddElement
    <3> HIDE DEF k, status
    <3>3. CASE status = "ready"
      BY <3>1, <3>2, <3>3
    <3>4. CASE status # "ready"
      BY <2>1, <3>1, <3>4, <1>3
    <3> QED
      BY <3>3, <3>4
  <2>4. Len(simulated') - Cardinality(Ready') = a
    BY <2>1, <2>3, <1>2, <1>3, <1>6
  <2>5. LedgerRead' = LedgerRead
    BY <2>1, <2>4, <1>6 DEF LedgerRead, Ready
  <2>6. \A i : Row(i)' = Row(i) /\ (HadId(i)' <=> HadId(i))
    BY <2>5, <1>2 DEF HadId, Row
  <2>7. Rows(LedgerRead) \subseteq Rows(simulated)
    <3>1. Rows(LedgerRead) = {simulated[i] : i \in 1 .. a}
      BY <2>1, Prefix DEF IInv, TypeOK
    <3>2. DOMAIN simulated = 1 .. Len(simulated)
      BY LenProperties DEF IInv, TypeOK
    <3> QED
      BY <2>1, <3>1, <3>2, <1>3 DEF Rows
  <2>8. HadId(k) => status = IF Kept(row, LedgerRead) THEN "replay" ELSE "invalid"
    <3> SUFFICES ASSUME HadId(k)
                 PROVE  status = IF Kept(row, LedgerRead) THEN "replay" ELSE "invalid"
      OBVIOUS
    <3>1. Verdict(simulated, row) = IF Kept(row, LedgerRead) THEN "known" ELSE "refused"
      BY <2>1, <2>7, KnownVerdict DEF HadId
    <3>2. row # NoTransaction
      BY DEF HadId
    <3> QED
      BY <3>1, <3>2 DEF PreviewStatus
  <2>9. Unique(simulated')
    BY <2>1, <1>2, <1>3, NewRow, StatusFacts DEF IInv, TypeOK
  <2>10. Cardinality(Ready') \in 0 .. Len(simulated')
    BY <2>1, <2>3, <1>2, <1>3, <1>6
  <2>11. Log' = Log
    BY <1>2 DEF Log
  <2>12. \A i \in DOMAIN previewed : HadId(i) =>
           previewed[i] = IF Kept(Row(i), LedgerRead) THEN "replay" ELSE "invalid"
    BY <1>1 DEF IInv, ReadInv
  <2>13. \A i \in DOMAIN previewed' : HadId(i) =>
           previewed'[i] = IF Kept(Row(i), LedgerRead) THEN "replay" ELSE "invalid"
    <3> SUFFICES ASSUME NEW i \in 1 .. k, HadId(i)
                 PROVE  previewed'[i] = IF Kept(Row(i), LedgerRead) THEN "replay" ELSE "invalid"
      BY <1>5
    <3>1. CASE i = k
      BY <3>1, <2>8, <1>5
    <3>2. CASE i # k
      <4>1. i \in 1 .. Len(previewed)
        BY <3>2, <1>3
      <4> QED
        BY <4>1, <2>12, <1>3, <1>5
    <3> QED
      BY <3>1, <3>2
  <2>14. DOMAIN reported' = {}
    BY <1>1, <1>2
  <2> QED
    BY <2>1, <2>5, <2>6, <2>9, <2>10, <2>11, <2>13, <2>14 DEF ReadInv
<1>11. SimInv'
  <2> SUFFICES ASSUME ~disturbed PROVE SimInv'
    BY <1>2 DEF SimInv
  <2>1. PICK m \in Walks : Walk(m) /\ Follows(m) /\ Converges(m)
    BY <1>1 DEF IInv, SimInv
  <2>2. PICK n : n = Len(simulated')
    OBVIOUS
  <2>3. PICK j : j = k
    OBVIOUS
  <2> DEFINE w == [i \in 0 .. j |-> IF i = j THEN n ELSE m[i]]
  <2>4. n \in {Len(simulated), Len(simulated) + 1} /\ j = Len(previewed) + 1
        /\ (status = "ready" <=> n = Len(simulated) + 1)
    BY <2>2, <2>3, <1>2, <1>3, <1>6
  <2>5. m \in [0 .. j - 1 -> 0 .. Len(simulated)] /\ m[j - 1] = Len(simulated)
        /\ \A a, b \in 0 .. j - 1 : a <= b => m[a] <= m[b]
    BY <2>1, <2>4, <1>3 DEF Walks, Walk
  <2>6. w \in Walks' /\ DOMAIN w = 0 .. j /\ w[j] = n /\ \A i \in 0 .. j - 1 : w[i] = m[i]
    BY <2>2, <2>3, <2>4, <2>5, <1>3, <1>5 DEF Walks
  <2> HIDE DEF w, k, row, status, t
  <2>7. \A a, b \in 0 .. j : a <= b => w[a] <= w[b]
    BY <2>4, <2>5, <2>6, <1>3
  <2>8. \A i \in 1 .. j :
          /\ previewed'[i] = PreviewStatus(SubSeq(simulated', 1, w[i - 1]), Row(i))
          /\ w[i] = IF previewed'[i] = "ready" THEN w[i - 1] + 1 ELSE w[i - 1]
          /\ previewed'[i] = "ready" =>
               simulated'[w[i]] = NextRow(SubSeq(simulated', 1, w[i - 1]), Row(i))
    <3> SUFFICES ASSUME NEW i \in 1 .. j PROVE <2>8!(i)
      OBVIOUS
    <3>1. CASE i = j
      <4>1. w[i - 1] = Len(simulated) /\ w[i] = n
        BY <3>1, <2>4, <2>5, <2>6, <1>3
      <4>2. SubSeq(simulated', 1, w[i - 1]) = simulated
        BY <4>1, <1>3, <1>6, SubSeqFull DEF IInv, TypeOK
      <4>3. previewed'[i] = status /\ Row(i) = row
        BY <3>1, <2>3, <1>5 DEF row
      <4> QED
        BY <4>1, <4>2, <4>3, <2>4, <1>6 DEF status, t
    <3>2. CASE i # j
      <4>1. i \in 1 .. Len(previewed) /\ i - 1 \in 0 .. j - 1 /\ i \in 0 .. j - 1
        BY <3>2, <2>4, <1>3
      <4>2. w[i - 1] = m[i - 1] /\ w[i] = m[i] /\ m[i - 1] \in 0 .. Len(simulated)
        BY <4>1, <2>5, <2>6
      <4>3. previewed'[i] = previewed[i] /\ SubSeq(simulated', 1, m[i - 1])
              = SubSeq(simulated, 1, m[i - 1])
        BY <4>1, <4>2, <1>5, <1>6
      <4>4. /\ previewed[i] = PreviewStatus(SubSeq(simulated, 1, m[i - 1]), Row(i))
            /\ m[i] = IF previewed[i] = "ready" THEN m[i - 1] + 1 ELSE m[i - 1]
            /\ previewed[i] = "ready" =>
                 simulated[m[i]] = NextRow(SubSeq(simulated, 1, m[i - 1]), Row(i))
        BY <4>1, <1>3, <2>1 DEF Walk
      <4>5. previewed[i] = "ready" => simulated'[m[i]] = simulated[m[i]]
        BY <4>1, <4>2, <4>4, <2>5, <1>3, <1>6
      <4> QED
        BY <4>2, <4>3, <4>4, <4>5
    <3> QED
      BY <3>1, <3>2
  <2>9. \A i : Row(i)' = Row(i)
    BY <1>2 DEF Row
  <2>10. Walk(w)'
    BY <2>2, <2>3, <2>6, <2>7, <2>8, <2>9, <1>5 DEF Walk
  <2>11. Len(reported) = 0 /\ w[0] = m[0] /\ m[0] \in 0 .. Len(simulated)
    BY <2>4, <2>5, <2>6, <1>1, <1>3
  <2>12. Follows(w)'
    BY <2>1, <2>11, <1>1, <1>2, <1>6 DEF Follows, Log
  <2>13. Converges(w)'
    <3> SUFFICES ASSUME "invalid" \notin Range(previewed')
                 PROVE  \E a \in w[0] .. Len(simulated') : Log = SubSeq(simulated', 1, a)
      BY <2>11, <1>1, <1>2 DEF Converges, Log, Range
    <3>1. "invalid" \notin Range(previewed)
      BY <1>3, <1>5 DEF Range, k
    <3>2. PICK a \in m[0] .. Len(simulated) : Log = SubSeq(simulated, 1, a)
      BY <3>1, <2>1, <2>11 DEF Converges
    <3>3. a \in w[0] .. Len(simulated') /\ a \in 0 .. Len(simulated)
      BY <3>2, <2>2, <2>4, <2>11, <1>3
    <3> QED
      BY <3>2, <3>3, <1>6
  <2> QED
    BY <2>6, <2>10, <2>12, <2>13, <1>1, <1>2, <1>3, <1>5 DEF SimInv, Total, k
<1> QED
  BY <1>7, <1>8, <1>9, <1>11, <1>10 DEF IInv

-----------------------------------------------------------------------------
(* What a row of a commit does, to the ledger and to what is kept.         *)
LEMMA CommitRowEffect ==
  ASSUME IInv, CommitRow,
         NEW k, k = Len(reported) + 1, NEW status, status = CommitStatus(Log, Row(k))
  PROVE  /\ phase = "commit" /\ file \in Documents /\ Fine(file) /\ file # NoFile
         /\ Total \in Nat /\ k \in 1 .. Total /\ Row(k) \in Posted /\ ~Breaks(Row(k))
         /\ DOMAIN reported = 1 .. k - 1
         /\ UNCHANGED <<phase, file, simulated, previewed, earlier, touched, disturbed>>
         /\ Log \in Seq(LedgerRows) /\ Unique(Log)
         /\ status \in {"created", "replayed", "failed"}
         /\ reported' \in Seq({"created", "replayed", "failed"})
         /\ Len(reported') = k /\ DOMAIN reported' = 1 .. k /\ reported'[k] = status
         /\ \A i \in 1 .. k - 1 : reported'[i] = reported[i]
         /\ Log' = IF status = "created" THEN Append(Log, NextRow(Log, Row(k))) ELSE Log
         /\ ledger' \in [Portfolios -> Seq(LedgerRows)] /\ UniqueInv'
         /\ \A b : Kept(b, Log) => Kept(b, Log')
         /\ status \in {"created", "replayed"} => Kept(Row(k), Log')
<1>1. /\ phase = "commit" /\ file \in Documents /\ Fine(file) /\ file # NoFile
      /\ Len(reported) < Total /\ ~Breaks(Row(k)) /\ reported' = Append(reported, status)
      /\ ledger' = IF status = "created"
                   THEN [ledger EXCEPT ![file.pf] = Append(Log, NextRow(Log, Row(k)))]
                   ELSE ledger
      /\ UNCHANGED <<phase, file, simulated, previewed, earlier, touched, disturbed>>
  BY DocumentsAssumption DEF IInv, PhaseInv, CommitRow, Total, Row, Log
<1>2. /\ Total \in Nat /\ Len(reported) \in Nat /\ k \in 1 .. Total /\ Row(k) \in Posted
      /\ DOMAIN reported = 1 .. k - 1 /\ file.pf \in Portfolios
  BY <1>1, FileFacts, LenProperties DEF IInv, TypeOK, Total, Row
<1>3. Log \in Seq(LedgerRows) /\ Unique(Log)
  BY <1>2 DEF IInv, TypeOK, UniqueInv, Log
<1>4. status \in {"created", "replayed", "failed"}
  BY StatusFacts
<1>5. /\ reported' \in Seq({"created", "replayed", "failed"})
      /\ Len(reported') = k /\ DOMAIN reported' = 1 .. k /\ reported'[k] = status
      /\ \A i \in 1 .. k - 1 : reported'[i] = reported[i]
  BY <1>1, <1>2, <1>4, AppendProperties, LenProperties DEF IInv, TypeOK
<1> DEFINE log2 == Append(Log, NextRow(Log, Row(k)))
<1>6. status = "created" =>
        /\ log2 \in Seq(LedgerRows) /\ Unique(log2) /\ Kept(Row(k), log2)
        /\ \A b : Kept(b, Log) => Kept(b, log2)
  BY <1>2, <1>3, NewRow, StatusFacts
<1>7. status = "replayed" => Kept(Row(k), Log)
  BY StatusFacts, VerdictFacts
<1> HIDE DEF log2
<1>8. /\ Log' = IF status = "created" THEN log2 ELSE Log
      /\ ledger' \in [Portfolios -> Seq(LedgerRows)]
      /\ \A p \in Portfolios : Unique(ledger'[p])
  <2>1. CASE status = "created"
    <3>1. ledger' = [ledger EXCEPT ![file.pf] = log2]
      BY <2>1, <1>1 DEF log2
    <3>2. ledger \in [Portfolios -> Seq(LedgerRows)] /\ \A p \in Portfolios : Unique(ledger[p])
      BY DEF IInv, TypeOK, UniqueInv
    <3>3. ledger'[file.pf] = log2 /\ \A p \in Portfolios \ {file.pf} : ledger'[p] = ledger[p]
      BY <3>1, <3>2, <1>2
    <3> QED
      BY <2>1, <3>1, <3>2, <3>3, <1>1, <1>2, <1>6 DEF Log
  <2>2. CASE status # "created"
    BY <2>2, <1>1 DEF Log, IInv, TypeOK, UniqueInv
  <2> QED
    BY <2>1, <2>2
<1>9. UniqueInv'
  BY <1>8 DEF UniqueInv
<1>10. (\A b : Kept(b, Log) => Kept(b, Log')) /\ (status \in {"created", "replayed"} => Kept(Row(k), Log'))
  BY <1>6, <1>7, <1>8
<1> QED
  BY <1>1, <1>2, <1>3, <1>4, <1>5, <1>8, <1>9, <1>10 DEF log2

(* A row of a commit, met where the preview met it or where it is known.   *)
LEMMA CommitRowStep ==
  ASSUME IInv, CommitRow
  PROVE  IInv'
<1>0. PICK k, status : k = Len(reported) + 1 /\ status = CommitStatus(Log, Row(k))
  OBVIOUS
<1>1. /\ phase = "commit" /\ file \in Documents /\ Fine(file) /\ file # NoFile
      /\ Total \in Nat /\ k \in 1 .. Total /\ Row(k) \in Posted /\ ~Breaks(Row(k))
      /\ DOMAIN reported = 1 .. k - 1
      /\ UNCHANGED <<phase, file, simulated, previewed, earlier, touched, disturbed>>
      /\ Log \in Seq(LedgerRows) /\ Unique(Log)
      /\ status \in {"created", "replayed", "failed"}
  BY <1>0, CommitRowEffect
<1>2. /\ reported' \in Seq({"created", "replayed", "failed"})
      /\ Len(reported') = k /\ DOMAIN reported' = 1 .. k /\ reported'[k] = status
      /\ \A i \in 1 .. k - 1 : reported'[i] = reported[i]
  BY <1>0, CommitRowEffect
<1>3. Log' = IF status = "created" THEN Append(Log, NextRow(Log, Row(k))) ELSE Log
  BY <1>0, CommitRowEffect
<1>4. /\ ledger' \in [Portfolios -> Seq(LedgerRows)] /\ UniqueInv'
      /\ \A b : Kept(b, Log) => Kept(b, Log')
      /\ status \in {"created", "replayed"} => Kept(Row(k), Log')
  BY <1>0, CommitRowEffect
<1>5. Total' = Total /\ \A i : Row(i)' = Row(i)
  BY <1>1 DEF Total, Row
<1>6. TypeOK'
  BY <1>1, <1>2, <1>4 DEF IInv, TypeOK
<1>7. PhaseInv'
  BY <1>1, <1>2, <1>5 DEF IInv, PhaseInv
<1>8. KeptInv'
  <2>1. \A i \in 1 .. k : reported'[i] \in {"created", "replayed"} => Kept(Row(i), Log')
    BY <1>1, <1>2, <1>4 DEF IInv, KeptInv
  <2>2. \A i \in DOMAIN earlier : earlier[i] \in {"created", "replayed"} => Kept(Row(i), Log')
    BY <1>4 DEF IInv, KeptInv
  <2>3. ASSUME earlier # <<>>, earlier[k] \in {"created", "replayed"}
        PROVE  status = "replayed"
    <3>1. k \in DOMAIN earlier
      BY <2>3, <1>1, LenProperties DEF IInv, PhaseInv, TypeOK
    <3>2. Kept(Row(k), Log)
      BY <2>3, <3>1 DEF IInv, KeptInv
    <3> QED
      BY <3>2, <1>0, <1>1, VerdictFacts, StatusFacts DEF Kept
  <2>4. earlier # <<>> => \A i \in 1 .. k - 1 :
          earlier[i] \in {"created", "replayed"} => reported'[i] = "replayed"
    BY <1>1, <1>2 DEF IInv, KeptInv
  <2>5. \A i \in 1 .. k : i \in 1 .. k - 1 \/ i = k
    BY <1>1
  <2> QED
    BY <1>1, <1>2, <1>5, <2>1, <2>2, <2>3, <2>4, <2>5 DEF KeptInv
<1>9. ReadInv'
  <2>1. /\ LedgerRead' = LedgerRead /\ Ready' = Ready
        /\ \A i : HadId(i)' <=> HadId(i)
    BY <1>1, <1>5 DEF LedgerRead, Ready, HadId
  <2>2. /\ Cardinality(Ready) \in 0 .. Len(simulated) /\ Unique(simulated)
        /\ Rows(LedgerRead) \subseteq Rows(Log)
        /\ \A i \in DOMAIN previewed : HadId(i) =>
             previewed[i] = IF Kept(Row(i), LedgerRead) THEN "replay" ELSE "invalid"
        /\ \A i \in DOMAIN reported : HadId(i) =>
             reported[i] = IF Kept(Row(i), LedgerRead) THEN "replayed" ELSE "failed"
    BY <1>1 DEF IInv, ReadInv
  <2>3. Rows(Log) \subseteq Rows(Log')
    <3>1. status = "created" => NextRow(Log, Row(k)) \in LedgerRows
      BY <1>0, <1>1, NewRow, StatusFacts
    <3> QED
      BY <3>1, <1>1, <1>3, RowsAppend
  <2>4. HadId(k) => status = IF Kept(Row(k), LedgerRead) THEN "replayed" ELSE "failed"
    <3> SUFFICES ASSUME HadId(k)
                 PROVE  status = IF Kept(Row(k), LedgerRead) THEN "replayed" ELSE "failed"
      OBVIOUS
    <3>1. Verdict(Log, Row(k)) = IF Kept(Row(k), LedgerRead) THEN "known" ELSE "refused"
      BY <2>2, <1>1, KnownVerdict DEF HadId
    <3>2. Row(k) # NoTransaction
      BY DEF HadId
    <3> QED
      BY <3>1, <3>2, <1>0 DEF CommitStatus
  <2>5. \A i \in DOMAIN reported' : HadId(i) =>
          reported'[i] = IF Kept(Row(i), LedgerRead) THEN "replayed" ELSE "failed"
    BY <2>2, <2>4, <1>1, <1>2
  <2> QED
    BY <2>1, <2>2, <2>3, <2>5, <1>1, <1>5 DEF ReadInv
<1>10. SimInv'
  <2> SUFFICES ASSUME ~disturbed PROVE SimInv'
    BY <1>1 DEF SimInv
  <2>1. PICK m \in Walks : Walk(m) /\ Follows(m) /\ Converges(m)
    BY <1>1 DEF IInv, SimInv
  <2>2. /\ Len(previewed) \in Nat /\ Len(simulated) \in Nat /\ Len(reported) = k - 1
        /\ DOMAIN previewed = 1 .. Len(previewed) /\ simulated \in Seq(LedgerRows)
    BY <1>0, <1>1, LenProperties DEF IInv, TypeOK
  <2>3. k \in 1 .. Len(previewed) /\ Len(previewed) <= Total
        /\ (Len(previewed) = Total \/ Breaks(Row(Len(previewed) + 1)))
    <3>1. /\ Len(reported) <= Len(previewed) /\ Len(previewed) <= Total
          /\ Len(previewed) = Total \/ Breaks(Row(Len(previewed) + 1))
      BY <1>1 DEF IInv, SimInv
    <3>2. ASSUME Len(previewed) = k - 1 PROVE FALSE
      <4>1. Len(previewed) + 1 = k /\ Len(previewed) # Total
        BY <3>2, <1>1
      <4> QED
        BY <3>1, <4>1, <1>1
    <3>3. Len(previewed) # k - 1
      BY <3>2
    <3>4. k - 1 <= Len(previewed)
      BY <3>1, <2>2
    <3>5. k \in 1 .. Len(previewed)
      BY <3>3, <3>4, <2>2, <1>1
    <3> QED
      BY <3>1, <3>5
  <2>4. /\ DOMAIN m = 0 .. Len(previewed) /\ m[0] \in 0 .. Len(simulated)
        /\ m[k - 1] \in 0 .. Len(simulated) /\ m[k] \in 0 .. Len(simulated) /\ m[k - 1] <= m[k]
    BY <2>1, <2>2, <2>3 DEF Walks, Walk
  <2> DEFINE log0 == SubSeq(simulated, 1, m[k - 1])
  <2>5. /\ previewed[k] = PreviewStatus(log0, Row(k))
        /\ m[k] = IF previewed[k] = "ready" THEN m[k - 1] + 1 ELSE m[k - 1]
        /\ previewed[k] = "ready" => simulated[m[k]] = NextRow(log0, Row(k))
    BY <2>1, <2>2, <2>3 DEF Walk
  <2>6. ASSUME Log = log0
        PROVE  /\ status = Predicted(previewed[k])
               /\ status = "created" <=> previewed[k] = "ready"
               /\ Log' = SubSeq(simulated, 1, m[k])
    <3>1. status = Predicted(previewed[k]) /\ (status = "created" <=> previewed[k] = "ready")
      BY <2>5, <2>6, <1>0, StatusFacts
    <3>2. CASE previewed[k] = "ready"
      <4>1. Log' = Append(log0, simulated[m[k - 1] + 1]) /\ m[k] = m[k - 1] + 1
        BY <3>1, <3>2, <2>5, <2>6, <1>3
      <4> QED
        BY <3>1, <4>1, <2>2, <2>4, PrefixNext
    <3>3. CASE previewed[k] # "ready"
      BY <3>1, <3>3, <2>5, <2>6, <1>3
    <3> QED
      BY <3>1, <3>2, <3>3
  <2>7. m \in Walks' /\ Walk(m)'
    BY <2>1, <1>1, <1>5 DEF Walks, Walk
  <2>8. Follows(m)'
    <3> SUFFICES ASSUME ~touched, earlier = <<>>
                 PROVE  /\ Log' = SubSeq(simulated, 1, m[k])
                        /\ \A i \in 1 .. k : reported'[i] = Predicted(previewed[i])
                        /\ "created" \notin Range(reported') => m[k] = m[0]
      BY <1>1, <1>2 DEF Follows
    <3>1. /\ Log = log0
          /\ \A i \in 1 .. k - 1 : reported[i] = Predicted(previewed[i])
          /\ "created" \notin Range(reported) => m[k - 1] = m[0]
      BY <2>1, <2>2, <1>1 DEF Follows
    <3>2. \A i \in 1 .. k : reported'[i] = Predicted(previewed[i])
      BY <3>1, <2>6, <1>1, <1>2
    <3>3. ASSUME "created" \notin Range(reported') PROVE m[k] = m[0]
      <4>1. "created" \notin Range(reported) /\ status # "created"
        BY <3>3, <1>1, <1>2 DEF Range
      <4> QED
        BY <4>1, <3>1, <2>5, <2>6
    <3> QED
      BY <3>1, <3>2, <3>3, <2>6
  <2>9. Converges(m)'
    <3> SUFFICES ASSUME "invalid" \notin Range(previewed)
                 PROVE  /\ \E n \in m[k] .. Len(simulated) : Log' = SubSeq(simulated, 1, n)
                        /\ "failed" \notin Range(reported')
      BY <1>1, <1>2 DEF Converges
    <3>1. "failed" \notin Range(reported)
      BY <2>1 DEF Converges
    <3>2. PICK n \in m[k - 1] .. Len(simulated) : Log = SubSeq(simulated, 1, n)
      BY <2>1, <2>2 DEF Converges
    <3>3. previewed[k] # "invalid"
      BY <2>2, <2>3 DEF Range
    <3>4. status # "failed" => "failed" \notin Range(reported')
      BY <3>1, <1>1, <1>2 DEF Range
    <3>5. CASE n = m[k - 1]
      <4>1. status # "failed"
        BY <3>2, <3>3, <3>5, <2>5, <2>6, StatusFacts DEF Predicted
      <4>2. m[k] \in m[k] .. Len(simulated)
        BY <2>4, <2>2
      <4> QED
        BY <3>2, <3>4, <3>5, <4>1, <4>2, <2>6
    <3>6. CASE n # m[k - 1]
      <4>1. n \in m[k] .. Len(simulated) /\ n \in 0 .. Len(simulated) /\ m[k - 1] < n
        BY <3>2, <3>6, <2>2, <2>4, <2>5
      <4>2. Rows(Log) = {simulated[i] : i \in 1 .. n}
            /\ Rows(log0) = {simulated[i] : i \in 1 .. m[k - 1]}
        BY <3>2, <4>1, <2>2, <2>4, Prefix
      <4>3. Rows(log0) \subseteq Rows(Log)
        BY <4>1, <4>2, <2>2, <2>4
      <4>4. Kept(Row(k), Log)
        <5>1. CASE previewed[k] = "ready"
          <6>1. Row(k) # NoTransaction /\ IsValid(Row(k))
            BY <5>1, <2>5, StatusFacts, VerdictFacts
          <6>2. m[k] \in 1 .. n /\ simulated[m[k]] = NextRow(log0, Row(k))
            BY <5>1, <4>1, <2>2, <2>4, <2>5
          <6>3. NextRow(log0, Row(k)) \in Rows(Log)
            BY <4>2, <6>2
          <6> QED
            BY <6>1, <6>3 DEF Kept, NextRow, BuildTransaction, SamePayload
        <5>2. CASE previewed[k] = "replay"
          <6>1. Kept(Row(k), log0)
            BY <5>2, <2>5, StatusFacts, VerdictFacts
          <6> QED
            BY <6>1, <4>3 DEF Kept
        <5> QED
          BY <5>1, <5>2, <3>3, <2>5, StatusFacts
      <4>5. status = "replayed"
        BY <4>4, <1>0, <1>1, VerdictFacts, StatusFacts DEF Kept
      <4> QED
        BY <3>2, <3>4, <4>1, <4>5, <1>3
    <3> QED
      BY <3>5, <3>6
  <2>10. /\ Len(reported') <= Len(previewed') /\ Len(previewed') <= Total'
         /\ (Len(previewed) = Total \/ Breaks(Row(Len(previewed) + 1)))'
    <3>1. k <= Len(previewed) /\ previewed' = previewed
      <4>1. k \in 1 .. Len(previewed)
        BY <2>3
      <4>2. k <= Len(previewed)
        BY <4>1, <2>2
      <4> QED
        BY <4>2, <1>1
    <3>2. (Len(previewed) = Total \/ Breaks(Row(Len(previewed) + 1)))'
      BY <2>3, <1>1, <1>5
    <3> QED
      BY <3>1, <3>2, <2>3, <1>2, <1>5
  <2>11. \E x \in Walks' : Walk(x)' /\ Follows(x)' /\ Converges(x)'
    BY <2>7, <2>8, <2>9
  <2> QED
    BY <2>10, <2>11 DEF SimInv
<1> QED
  BY <1>4, <1>6, <1>7, <1>8, <1>10, <1>9 DEF IInv

-----------------------------------------------------------------------------
(* The inductive invariant of previews, commits and their repetitions.     *)
THEOREM ImportInvariance == Spec => []IInv
<1>1. IInv /\ [Next]_vars => IInv'
  <2> SUFFICES ASSUME IInv, [Next]_vars PROVE IInv'
    OBVIOUS
  <2>1. CASE UNCHANGED vars
    <3>1. /\ UNCHANGED <<ledger, phase, file, simulated, previewed, reported, earlier, touched>>
          /\ UNCHANGED disturbed
      BY <2>1 DEF vars
    <3>2. Walks' = Walks /\ \A m : /\ Walk(m)' <=> Walk(m)
                                   /\ Follows(m)' <=> Follows(m)
                                   /\ Converges(m)' <=> Converges(m)
      BY <3>1 DEF Walks, Walk, Follows, Converges, Log, Row
    <3>3. SimInv'
      BY <3>1, <3>2 DEF IInv, SimInv, Total, Row
    <3>4. ReadInv'
      BY <3>1, ReadStays DEF IInv, Log
    <3> QED
      BY <3>1, <3>3, <3>4 DEF IInv, TypeOK, PhaseInv, UniqueInv, KeptInv, Log, Row, Total
  <2> QED
    BY <2>1, StartStep, RestartStep, DoneStep, WriteStep, PreviewRowStep, CommitRowStep DEF Next
<1> QED
  BY <1>1, InitIInv, PTL DEF Spec

-----------------------------------------------------------------------------
(* What a report says when it is complete: one status a row.               *)
LEMMA DoneFacts ==
  ASSUME IInv, phase = "done"
  PROVE  /\ file \in Documents /\ file # NoFile /\ Fine(file)
         /\ Total \in Nat /\ Len(reported) = Total /\ DOMAIN reported = 1 .. Total
<1>1. file \in Documents /\ file # NoFile /\ Fine(file) /\ Len(reported) = Total
  BY DocumentsAssumption DEF IInv, PhaseInv
<1>2. Total \in Nat /\ DOMAIN reported = 1 .. Len(reported)
  BY <1>1, FileFacts, LenProperties DEF IInv, TypeOK, Total
<1> QED
  BY <1>1, <1>2

(* The preview is what the first complete commit reports, if nothing was   *)
(* written in between: PreviewPredicts, from Follows at the last row.      *)
THEOREM PreviewsPredict == Spec => []PreviewPredicts
<1>1. IInv => PreviewPredicts
  <2> SUFFICES ASSUME IInv, phase = "done", earlier = <<>>, ~touched
               PROVE  reported = [i \in DOMAIN previewed |-> Predicted(previewed[i])]
    BY DEF PreviewPredicts
  <2>1. ~disturbed
    BY DEF IInv, PhaseInv
  <2>2. PICK m \in Walks : Walk(m) /\ Follows(m) /\ Converges(m)
    BY <2>1, DoneFacts DEF IInv, SimInv
  <2>3. Len(reported) <= Len(previewed) /\ Len(previewed) <= Total /\ Len(previewed) \in Nat
        /\ DOMAIN previewed = 1 .. Len(previewed)
    BY <2>1, DoneFacts, LenProperties DEF IInv, SimInv, TypeOK
  <2>4. Len(previewed) = Total
    BY <2>3, DoneFacts
  <2>5. DOMAIN reported = DOMAIN previewed
    BY <2>3, <2>4, DoneFacts
  <2>6. \A i \in DOMAIN reported : reported[i] = Predicted(previewed[i])
    BY <2>2 DEF Follows
  <2>7. reported = [i \in DOMAIN reported |-> reported[i]]
    BY DoneFacts DEF IInv, TypeOK
  <2> QED
    BY <2>5, <2>6, <2>7
<1> QED
  BY <1>1, ImportInvariance, PTL

(* Posting a file again is safe: RepostsConverge, from what is kept and    *)
(* from Converges at the last row.                                         *)
THEOREM RepostsAreSafe == Spec => []RepostsConverge
<1>1. IInv => RepostsConverge
  <2> SUFFICES ASSUME IInv PROVE RepostsConverge
    OBVIOUS
  <2>1. phase \in {"commit", "done"} /\ earlier # <<>> =>
          \A i \in DOMAIN reported :
            earlier[i] \in {"created", "replayed"} => reported[i] = "replayed"
    BY DEF IInv, KeptInv
  <2>2. ASSUME phase = "done", ~disturbed, "invalid" \notin Range(previewed)
        PROVE  "failed" \notin Range(reported) /\ Log = simulated
    <3>1. PICK m \in Walks : Walk(m) /\ Follows(m) /\ Converges(m)
      BY <2>2, DoneFacts DEF IInv, SimInv
    <3>2. Len(reported) <= Len(previewed) /\ Len(previewed) <= Total /\ Len(previewed) \in Nat
      BY <2>2, DoneFacts, LenProperties DEF IInv, SimInv, TypeOK
    <3>3. Len(reported) = Len(previewed)
      BY <2>2, <3>2, DoneFacts
    <3>4. m[Len(reported)] = Len(simulated) /\ Len(simulated) \in Nat
      BY <3>1, <3>3, LenProperties DEF Walk, IInv, TypeOK
    <3>5. PICK n \in m[Len(reported)] .. Len(simulated) : Log = SubSeq(simulated, 1, n)
      BY <2>2, <3>1 DEF Converges
    <3>6. n = Len(simulated)
      BY <3>4, <3>5
    <3>7. SubSeq(simulated, 1, Len(simulated)) = simulated
      BY SubSeqFull DEF IInv, TypeOK
    <3> QED
      BY <2>2, <3>1, <3>5, <3>6, <3>7 DEF Converges
  <2> QED
    BY <2>1, <2>2 DEF RepostsConverge, Log
<1> QED
  BY <1>1, ImportInvariance, PTL

(* What was reported created or replayed is in the ledger for good:        *)
(* ReportedRowsStay, from KeptInv.                                         *)
THEOREM ReportedRowsAreKept == Spec => []ReportedRowsStay
<1>1. IInv => ReportedRowsStay
  BY DEF IInv, KeptInv, Kept, ReportedRowsStay, Log, Row
<1> QED
  BY <1>1, ImportInvariance, PTL

(* What preview says of a row whose id the ledger had is final:            *)
(* KnownIdsAreSettled, from ReadInv.                                       *)
THEOREM KnownIdsStaySettled == Spec => []KnownIdsAreSettled
<1>1. IInv => KnownIdsAreSettled
  <2> SUFFICES ASSUME IInv, phase \in {"commit", "done"}, NEW i \in DOMAIN reported \cap DOMAIN previewed,
                      HadId(i)
               PROVE  reported[i] = Predicted(previewed[i])
    BY DEF KnownIdsAreSettled, HadId, Row
  <2>1. file # NoFile /\ Fine(file)
    BY DocumentsAssumption DEF IInv, PhaseInv
  <2>2. /\ previewed[i] = IF Kept(Row(i), LedgerRead) THEN "replay" ELSE "invalid"
        /\ reported[i] = IF Kept(Row(i), LedgerRead) THEN "replayed" ELSE "failed"
    BY <2>1 DEF IInv, ReadInv
  <2> QED
    BY <2>2 DEF Predicted
<1> QED
  BY <1>1, ImportInvariance, PTL

-----------------------------------------------------------------------------
(* The market-data cache.                                                  *)

Steps == {"get", "call", "sleep", "getStale", "set", "setStale"}

(* A request's locals, but for those only the backoff computes with.       *)
LocalOK(r) == r \in
  [at : Steps \cup {"idle", "answered"}, started : Nat, due : {r.due}, available : BOOLEAN,
   attempt : {r.attempt}, deadline : Nat, ttl : Nat, bars : {r.bars},
   outcome : {"none", "fetched", "hit", "stale", "error"},
   failure : {"none", "invalid", "transient"}]

(* When the await a request is in at time t ends at the latest.            *)
DueOK(r, t) ==
  /\ r.started <= t
  /\ r.at \in Steps \ {"sleep"} => r.due \in Nat /\ t <= r.due
  /\ r.at = "get" => r.due <= r.started + RedisTimeout
  /\ r.at \in {"call", "sleep"} =>
       t <= r.deadline /\ r.deadline <= r.started + RedisTimeout + OperationTimeout
  /\ r.at = "call" => r.due <= r.deadline
  /\ r.at \in {"getStale", "set"} =>
       r.due <= r.started + OperationTimeout + 2 * RedisTimeout
  /\ r.at = "setStale" => r.due <= r.started + OperationTimeout + 3 * RedisTimeout

(* Bars on their way to Redis: not older than the timeouts they waited.    *)
BarsOK(r, t) == r.at \in {"set", "setStale"} =>
  /\ r.bars \in [got : Nat, expires : Nat]
  /\ r.started <= r.bars.got /\ r.bars.got <= t
  /\ r.ttl = FreshTTL(r.bars.got)
  /\ r.at = "set" => r.due <= r.bars.got + RedisTimeout
  /\ r.at = "setStale" => r.due <= r.bars.got + 2 * RedisTimeout

(* A request has an outcome when it is answered and a failure only then or *)
(* while it looks for the retained copy; its answer is what it says.       *)
AnswerOK(r, t) ==
  /\ r.outcome # "none" <=> r.at = "answered"
  /\ r.failure # "none" => r.at \in {"getStale", "answered"}
  /\ r.at = "getStale" => r.failure = "transient"
  /\ r.outcome = "stale" =>
       /\ r.failure = "transient" /\ Usable(r.bars)
       /\ t - r.bars.got < StaleTTL + 2 * RedisTimeout
  /\ r.outcome = "error" => r.failure # "none"
  /\ r.outcome = "fetched" => r.failure = "none" /\ r.bars.got >= r.started
  /\ r.outcome = "hit" =>
       Usable(r.bars) /\ t - r.bars.got < FreshTTL(r.bars.got) + RedisTimeout

RequestOK(r, t) == LocalOK(r) /\ DueOK(r, t) /\ BarsOK(r, t) /\ AnswerOK(r, t)

(* A copy in Redis: alive, and not for longer than its TTL allows.         *)
KeptOK(copy, t, ttl, late) == Usable(copy) =>
  /\ copy \in [got : Nat, expires : Nat] /\ t < copy.expires
  /\ copy.expires <= copy.got + ttl + late

CopiesInv ==
  /\ KeptOK(fresh, now, FreshTTL(fresh.got), RedisTimeout)
  /\ KeptOK(shadow, now, StaleTTL, 2 * RedisTimeout)

RequestsInv ==
  /\ req = [w \in Workers |-> req[w]]
  /\ \A w \in Workers : RequestOK(req[w], now)

CacheInv == now \in Nat /\ RequestsInv /\ CopiesInv

-----------------------------------------------------------------------------
(* Every duration is a natural number.                                     *)
LEMMA Durations ==
  /\ MutableTTL \in Nat /\ HistoricalTTL \in Nat /\ StaleTTL \in Nat
  /\ OperationTimeout \in Nat /\ RedisTimeout \in Nat /\ 0 < RedisTimeout
  /\ \A t : FreshTTL(t) \in Nat
  BY ParametersAssumption DEF FreshTTL

(* What a step does to one request is all it does to the requests.         *)
LEMMA OneRequest ==
  ASSUME CacheInv, NEW w \in Workers, NEW STATE r, Become(w, r), now' = now,
         RequestOK(r, now), CopiesInv'
  PROVE  CacheInv'
<1>1. req' = [v \in Workers |-> IF v = w THEN r ELSE req[v]]
  BY DEF CacheInv, RequestsInv, Become
<1>2. \A v \in Workers : req'[v] = r \/ req'[v] = req[v]
  BY <1>1
<1>3. \A v \in Workers : RequestOK(req'[v], now')
  BY <1>2 DEF CacheInv, RequestsInv
<1> QED
  BY <1>1, <1>3 DEF CacheInv, RequestsInv

(* Redis as it was.                                                        *)
LEMMA CopiesStay ==
  ASSUME CopiesInv, UNCHANGED <<now, fresh, shadow>>
  PROVE  CopiesInv'
  BY DEF CopiesInv

-----------------------------------------------------------------------------
(* What the code's helpers make of a request's locals, field by field.     *)
LEMMA IdleIs ==
  /\ LocalOK(Idle) /\ Idle.at = "idle" /\ Idle.started = 0 /\ Idle.available = TRUE
  /\ Idle.deadline = 0 /\ Idle.ttl = 0 /\ Idle.bars = NoCopy /\ Idle.outcome = "none"
  /\ Idle.failure = "none"
  BY DEF LocalOK, Idle, Steps

(* The next await of a request.                                            *)
LEMMA AwaitIs ==
  ASSUME NEW r, LocalOK(r), NEW step \in Steps, NEW limit
  PROVE  LET a == Await(r, step, limit) IN
         /\ LocalOK(a) /\ a.at = step /\ a.due = limit
         /\ a.started = r.started /\ a.available = r.available /\ a.deadline = r.deadline
         /\ a.ttl = r.ttl /\ a.bars = r.bars /\ a.outcome = r.outcome
         /\ a.failure = r.failure
<1> DEFINE a == Await(r, step, limit)
<1>1. /\ a.at = step /\ a.due = limit
      /\ a.started = r.started /\ a.available = r.available /\ a.deadline = r.deadline
      /\ a.ttl = r.ttl /\ a.bars = r.bars /\ a.outcome = r.outcome
      /\ a.failure = r.failure /\ a.attempt = r.attempt
  BY DEF Await, LocalOK
<1>2. a \in
  [at : Steps \cup {"idle", "answered"}, started : Nat, due : {limit}, available : BOOLEAN,
   attempt : {r.attempt}, deadline : Nat, ttl : Nat, bars : {r.bars},
   outcome : {"none", "fetched", "hit", "stale", "error"},
   failure : {"none", "invalid", "transient"}]
  BY DEF Await, LocalOK
<1>3. LocalOK(a)
  BY <1>1, <1>2 DEF LocalOK
<1> QED
  BY <1>1, <1>3

(* An answer leaves nothing of the locals but what it reports.             *)
LEMMA AnswerIs ==
  ASSUME NEW r, LocalOK(r), NEW kind \in {"fetched", "hit", "stale", "error"}
  PROVE  LET a == Answer(r, kind) IN
         /\ LocalOK(a) /\ a.at = "answered" /\ a.started = r.started
         /\ a.bars = r.bars /\ a.outcome = kind /\ a.failure = r.failure
<1> DEFINE a == Answer(r, kind)
<1>1. a.at = "answered" /\ a.started = r.started /\ a.due = Idle.due
      /\ a.bars = r.bars /\ a.outcome = kind /\ a.failure = r.failure
      /\ a.attempt = Idle.attempt
  BY IdleIs DEF Answer, LocalOK
<1>2. a \in
  [at : Steps \cup {"idle", "answered"}, started : Nat, due : {Idle.due}, available : BOOLEAN,
   attempt : {Idle.attempt}, deadline : Nat, ttl : Nat, bars : {r.bars},
   outcome : {"none", "fetched", "hit", "stale", "error"},
   failure : {"none", "invalid", "transient"}]
  BY IdleIs DEF Answer, LocalOK
<1>3. LocalOK(a)
  BY <1>1, <1>2 DEF LocalOK
<1> QED
  BY <1>1, <1>3

-----------------------------------------------------------------------------
(* One lemma for each step of a request, and for time and Redis.           *)
LEMMA StartOK ==
  ASSUME CacheInv, NEW w \in Workers, Start(w) PROVE CacheInv'
<1> DEFINE i == [Idle EXCEPT !.started = now]
           r == Await(i, "get", now + RedisTimeout)
<1>1. LocalOK(i) /\ i.started = now /\ i.outcome = "none" /\ i.failure = "none"
  BY IdleIs DEF LocalOK, CacheInv
<1> HIDE DEF i
<1>2. /\ LocalOK(r) /\ r.at = "get" /\ r.due = now + RedisTimeout
      /\ r.started = now /\ r.outcome = "none" /\ r.failure = "none"
  BY <1>1, AwaitIs DEF Steps
<1> HIDE DEF r
<1>3. RequestOK(r, now)
  BY <1>2, Durations DEF CacheInv, RequestOK, DueOK, BarsOK, AnswerOK, Steps
<1>4. CopiesInv'
  BY CopiesStay DEF Start, CacheInv
<1> QED
  BY <1>3, <1>4, OneRequest DEF Start, r, i

(* A hit is as old as Redis keeps it.                                      *)
LEMMA GetHitOK ==
  ASSUME CacheInv, NEW w \in Workers, GetHit(w) PROVE CacheInv'
<1> DEFINE i == [req[w] EXCEPT !.bars = fresh]
           r == Answer(i, "hit")
<1>1. RequestOK(req[w], now) /\ req[w].at = "get" /\ Usable(fresh)
  BY DEF CacheInv, RequestsInv, GetHit, At
<1>2. LocalOK(i) /\ i.started = req[w].started /\ i.bars = fresh /\ i.failure = "none"
  BY <1>1 DEF RequestOK, LocalOK, AnswerOK
<1> HIDE DEF i
<1>3. /\ LocalOK(r) /\ r.at = "answered" /\ r.started = req[w].started
      /\ r.bars = fresh /\ r.outcome = "hit" /\ r.failure = "none"
  BY <1>2, AnswerIs
<1> HIDE DEF r
<1>4. now - fresh.got < FreshTTL(fresh.got) + RedisTimeout
  BY <1>1, Durations DEF CacheInv, CopiesInv, KeptOK
<1>5. RequestOK(r, now)
  BY <1>1, <1>3, <1>4 DEF RequestOK, DueOK, BarsOK, AnswerOK, Steps
<1>6. CopiesInv'
  BY CopiesStay DEF GetHit, CacheInv
<1> QED
  BY <1>5, <1>6, OneRequest DEF GetHit, r, i

(* The deadline begins when the retrying provider is entered.              *)
LEMMA EnterOK ==
  ASSUME now \in Nat, NEW r, LocalOK(r), r.started <= now, now <= r.started + RedisTimeout,
         r.outcome = "none", r.failure = "none"
  PROVE  RequestOK(EnterUpstream(r), now)
<1> DEFINE i == [r EXCEPT !.deadline = now + OperationTimeout, !.attempt = 1]
           e == Await(i, "call", now + OperationTimeout)
<1>1. /\ i.started = r.started /\ i.deadline = now + OperationTimeout
      /\ i.outcome = "none" /\ i.failure = "none" /\ i.due = r.due /\ i.bars = r.bars
      /\ i.attempt = 1
  BY DEF LocalOK
<1>2. i \in
  [at : Steps \cup {"idle", "answered"}, started : Nat, due : {r.due}, available : BOOLEAN,
   attempt : {1}, deadline : Nat, ttl : Nat, bars : {r.bars},
   outcome : {"none", "fetched", "hit", "stale", "error"},
   failure : {"none", "invalid", "transient"}]
  <2>1. now + OperationTimeout \in Nat
    BY Durations
  <2> QED
    BY <2>1 DEF LocalOK
<1>3. LocalOK(i)
  BY <1>1, <1>2 DEF LocalOK
<1> HIDE DEF i
<1>4. /\ LocalOK(e) /\ e.at = "call" /\ e.due = now + OperationTimeout
      /\ e.started = r.started /\ e.deadline = now + OperationTimeout
      /\ e.outcome = "none" /\ e.failure = "none"
  BY <1>1, <1>3, AwaitIs DEF Steps
<1> HIDE DEF e
<1>5. RequestOK(e, now)
  <2>1. r.started \in Nat
    BY DEF LocalOK
  <2> QED
    BY <1>4, <2>1, Durations DEF RequestOK, DueOK, BarsOK, AnswerOK, Steps
<1> QED
  BY <1>5 DEF EnterUpstream, e, i

(* A miss or a Redis error enters the retrying provider.                   *)
LEMMA GetMissOK ==
  ASSUME CacheInv, NEW w \in Workers, GetMiss(w) \/ GetFails(w) PROVE CacheInv'
<1> DEFINE i == [req[w] EXCEPT !.available = FALSE]
<1>1. /\ RequestOK(req[w], now) /\ req[w].at = "get" /\ now \in Nat
      /\ UNCHANGED <<now, fresh, shadow>>
  BY DEF CacheInv, RequestsInv, GetMiss, GetFails, At
<1>2. /\ LocalOK(req[w]) /\ req[w].started <= now
      /\ now <= req[w].started + RedisTimeout
      /\ req[w].outcome = "none" /\ req[w].failure = "none"
  <2>1. req[w].started \in Nat
    BY <1>1 DEF RequestOK, LocalOK
  <2> QED
    BY <1>1, <2>1, Durations DEF RequestOK, DueOK, AnswerOK, Steps
<1>3. LocalOK(i) /\ i.started = req[w].started /\ i.outcome = "none" /\ i.failure = "none"
  BY <1>2 DEF LocalOK
<1> HIDE DEF i
<1>4. RequestOK(EnterUpstream(req[w]), now) /\ RequestOK(EnterUpstream(i), now)
  BY <1>1, <1>2, <1>3, EnterOK
<1>5. Become(w, EnterUpstream(req[w])) \/ Become(w, EnterUpstream(i))
  BY DEF GetMiss, GetFails, i
<1>6. CopiesInv'
  BY <1>1, CopiesStay DEF CacheInv
<1> QED
  BY <1>1, <1>4, <1>5, <1>6, OneRequest

(* An operation that leaves the retrying provider with nothing.            *)
LEMMA ExhaustedOK ==
  ASSUME now \in Nat, NEW r, RequestOK(r, now), r.at \in {"call", "sleep"}
  PROVE  RequestOK(Exhausted(r), now)
<1> DEFINE l == LeaveUpstream(r)
           i == [l EXCEPT !.failure = "transient"]
           j == [r EXCEPT !.failure = "transient"]
           e == Await(i, "getStale", now + RedisTimeout)
           a == Answer(j, "error")
<1>1. /\ LocalOK(r) /\ r.started \in Nat /\ r.started <= now
      /\ now <= r.started + OperationTimeout + RedisTimeout
      /\ r.outcome = "none"
  <2>1. LocalOK(r) /\ r.started \in Nat /\ r.deadline \in Nat
    BY DEF RequestOK, LocalOK
  <2> QED
    BY <2>1, Durations DEF RequestOK, DueOK, AnswerOK
<1>2. CASE r.available
  <2>1. LocalOK(l) /\ l.started = r.started /\ l.outcome = "none"
    BY <1>1 DEF LeaveUpstream, LocalOK
  <2> HIDE DEF l
  <2>2. LocalOK(i) /\ i.started = r.started /\ i.outcome = "none" /\ i.failure = "transient"
    BY <2>1 DEF LocalOK
  <2> HIDE DEF i
  <2>3. /\ LocalOK(e) /\ e.at = "getStale" /\ e.due = now + RedisTimeout
        /\ e.started = r.started /\ e.outcome = "none" /\ e.failure = "transient"
    BY <2>2, AwaitIs DEF Steps
  <2> HIDE DEF e
  <2>4. RequestOK(e, now)
    BY <1>1, <2>3, Durations DEF RequestOK, DueOK, BarsOK, AnswerOK, Steps
  <2> QED
    BY <1>2, <2>4 DEF Exhausted, e, i, l
<1>3. CASE ~r.available
  <2>1. LocalOK(j) /\ j.started = r.started /\ j.failure = "transient"
    BY <1>1 DEF LocalOK
  <2> HIDE DEF j
  <2>2. /\ LocalOK(a) /\ a.at = "answered" /\ a.started = r.started
        /\ a.outcome = "error" /\ a.failure = "transient"
    BY <2>1, AnswerIs
  <2> HIDE DEF a
  <2>3. RequestOK(a, now)
    BY <1>1, <2>2 DEF RequestOK, DueOK, BarsOK, AnswerOK, Steps
  <2> QED
    BY <1>3, <2>3 DEF Exhausted, a, j
<1> QED
  BY <1>2, <1>3

(* An attempt that fails, and the deadline of them all.                    *)
LEMMA CallFailsOK ==
  ASSUME CacheInv, NEW w \in Workers,
         CallFailsTransiently(w) \/ CallFailsForGood(w) \/ Timeout(w)
  PROVE  CacheInv'
<1> DEFINE r == req[w]
           i == [r EXCEPT !.failure = "invalid"]
           a == Answer(i, "error")
           d == now + Backoff * 2 ^ (r.attempt - 1)
           z == Await(r, "sleep", d)
<1>1. /\ RequestOK(r, now) /\ r.at \in {"call", "sleep"} /\ now \in Nat
      /\ UNCHANGED <<now, fresh, shadow>>
  BY DEF CacheInv, RequestsInv, CallFailsTransiently, CallFailsForGood, Timeout, At
<1>2. LocalOK(r) /\ r.started <= now /\ r.outcome = "none" /\ r.failure = "none"
  BY <1>1 DEF RequestOK, DueOK, AnswerOK
<1>3. RequestOK(Exhausted(r), now)
  BY <1>1, ExhaustedOK
<1>4. RequestOK(a, now)
  <2>1. LocalOK(i) /\ i.started = r.started /\ i.failure = "invalid"
    BY <1>2 DEF LocalOK
  <2> HIDE DEF i
  <2>2. /\ LocalOK(a) /\ a.at = "answered" /\ a.started = r.started
        /\ a.outcome = "error" /\ a.failure = "invalid"
    BY <2>1, AnswerIs
  <2> HIDE DEF a
  <2> QED
    BY <1>2, <2>2 DEF RequestOK, DueOK, BarsOK, AnswerOK, Steps
<1>5. RequestOK(z, now)
  <2> HIDE DEF d
  <2>1. /\ LocalOK(z) /\ z.at = "sleep" /\ z.started = r.started
        /\ z.deadline = r.deadline /\ z.outcome = "none" /\ z.failure = "none"
    BY <1>2, AwaitIs DEF Steps
  <2> HIDE DEF z
  <2> QED
    BY <1>1, <2>1 DEF RequestOK, DueOK, BarsOK, AnswerOK, Steps
<1>6. Become(w, Exhausted(r)) \/ Become(w, a) \/ Become(w, z)
  BY DEF CallFailsTransiently, CallFailsForGood, Timeout
<1>7. CopiesInv'
  BY <1>1, CopiesStay DEF CacheInv
<1> HIDE DEF a, z
<1> QED
  BY <1>1, <1>3, <1>4, <1>5, <1>6, <1>7, OneRequest

(* Wake keeps the deadline of the operation.                               *)
LEMMA WakeOK ==
  ASSUME CacheInv, NEW w \in Workers, Wake(w) PROVE CacheInv'
<1> DEFINE r == req[w]
           i == [r EXCEPT !.attempt = @ + 1]
           z == Await(i, "call", r.deadline)
<1>1. RequestOK(r, now) /\ r.at = "sleep" /\ now \in Nat
  BY DEF CacheInv, RequestsInv, Wake, At
<1>2. /\ LocalOK(i) /\ i.started = r.started /\ i.deadline = r.deadline
      /\ i.outcome = "none" /\ i.failure = "none"
  BY <1>1 DEF RequestOK, LocalOK, AnswerOK
<1> HIDE DEF i
<1>3. /\ LocalOK(z) /\ z.at = "call" /\ z.due = r.deadline /\ z.started = r.started
      /\ z.deadline = r.deadline /\ z.outcome = "none" /\ z.failure = "none"
  BY <1>2, AwaitIs DEF Steps
<1> HIDE DEF z
<1>4. RequestOK(z, now)
  <2>1. r.deadline \in Nat
    BY <1>1 DEF RequestOK, LocalOK
  <2> QED
    BY <1>1, <1>3, <2>1 DEF RequestOK, DueOK, BarsOK, AnswerOK, Steps
<1>5. CopiesInv'
  BY CopiesStay DEF Wake, CacheInv
<1> QED
  BY <1>4, <1>5, OneRequest DEF Wake, z, i

(* The bars are as young as this instant; what is stored later is not.     *)
LEMMA CallSucceedsOK ==
  ASSUME CacheInv, NEW w \in Workers, CallSucceeds(w) PROVE CacheInv'
<1> DEFINE r == req[w]
           b == [got |-> now, expires |-> 0]
           l == LeaveUpstream(r)
           i == [l EXCEPT !.bars = b, !.ttl = FreshTTL(now)]
           z == Await(i, "set", now + RedisTimeout)
           j == [r EXCEPT !.bars = b]
           a == Answer(j, "fetched")
<1>1. RequestOK(r, now) /\ r.at = "call" /\ now \in Nat
  BY DEF CacheInv, RequestsInv, CallSucceeds, At
<1>2. /\ LocalOK(r) /\ r.started \in Nat /\ r.started <= now
      /\ now <= r.started + OperationTimeout + RedisTimeout
      /\ r.outcome = "none" /\ r.failure = "none"
  <2>1. LocalOK(r) /\ r.started \in Nat /\ r.deadline \in Nat
    BY <1>1 DEF RequestOK, LocalOK
  <2> QED
    BY <1>1, <2>1, Durations DEF RequestOK, DueOK, AnswerOK
<1>3. b \in [got : Nat, expires : Nat] /\ b.got = now
  BY <1>1
<1> HIDE DEF b
<1>4. CASE r.available
  <2>1. LocalOK(l) /\ l.started = r.started /\ l.outcome = "none" /\ l.failure = "none"
    BY <1>2 DEF LeaveUpstream, LocalOK
  <2> HIDE DEF l
  <2>2. /\ LocalOK(i) /\ i.started = r.started /\ i.outcome = "none" /\ i.failure = "none"
        /\ i.bars = b /\ i.ttl = FreshTTL(now)
    <3>1. FreshTTL(now) \in Nat
      BY Durations
    <3> QED
      BY <2>1, <3>1 DEF LocalOK
  <2> HIDE DEF i
  <2>3. /\ LocalOK(z) /\ z.at = "set" /\ z.due = now + RedisTimeout
        /\ z.started = r.started /\ z.outcome = "none" /\ z.failure = "none"
        /\ z.bars = b /\ z.ttl = FreshTTL(now)
    BY <2>2, AwaitIs DEF Steps
  <2> HIDE DEF z
  <2>4. RequestOK(z, now)
    BY <1>1, <1>2, <1>3, <2>3, Durations DEF RequestOK, DueOK, BarsOK, AnswerOK, Steps
  <2>5. CopiesInv'
    BY CopiesStay DEF CallSucceeds, CacheInv
  <2> QED
    BY <1>4, <2>4, <2>5, OneRequest DEF CallSucceeds, Fetched, z, i, l, b
<1>5. CASE ~r.available
  <2>1. LocalOK(j) /\ j.started = r.started /\ j.failure = "none" /\ j.bars = b
    BY <1>2 DEF LocalOK
  <2> HIDE DEF j
  <2>2. /\ LocalOK(a) /\ a.at = "answered" /\ a.started = r.started /\ a.bars = b
        /\ a.outcome = "fetched" /\ a.failure = "none"
    BY <2>1, AnswerIs
  <2> HIDE DEF a
  <2>3. RequestOK(a, now)
    BY <1>1, <1>2, <1>3, <2>2 DEF RequestOK, DueOK, BarsOK, AnswerOK, Steps
  <2>4. CopiesInv'
    BY CopiesStay DEF CallSucceeds, CacheInv
  <2> QED
    BY <1>5, <2>3, <2>4, OneRequest DEF CallSucceeds, Fetched, a, j, b
<1> QED
  BY <1>4, <1>5

(* The retained copy, or the failure there was.                            *)
LEMMA GetStaleOK ==
  ASSUME CacheInv, NEW w \in Workers, GetStaleHit(w) \/ GetStaleFails(w) PROVE CacheInv'
<1> DEFINE r == req[w]
           i == [r EXCEPT !.bars = shadow]
           a == Answer(i, "stale")
           f == Answer(r, "error")
<1>1. /\ RequestOK(r, now) /\ r.at = "getStale" /\ now \in Nat
      /\ UNCHANGED <<now, fresh, shadow>>
  BY DEF CacheInv, RequestsInv, GetStaleHit, GetStaleFails, At
<1>2. LocalOK(r) /\ r.started <= now /\ r.failure = "transient"
  BY <1>1 DEF RequestOK, DueOK, AnswerOK
<1>3. CopiesInv'
  BY <1>1, CopiesStay DEF CacheInv
<1>4. CASE GetStaleHit(w)
  <2>1. LocalOK(i) /\ i.started = r.started /\ i.failure = "transient" /\ i.bars = shadow
    BY <1>2 DEF LocalOK
  <2> HIDE DEF i
  <2>2. /\ LocalOK(a) /\ a.at = "answered" /\ a.started = r.started /\ a.bars = shadow
        /\ a.outcome = "stale" /\ a.failure = "transient"
    BY <2>1, AnswerIs
  <2> HIDE DEF a
  <2>3. Usable(shadow) /\ now - shadow.got < StaleTTL + 2 * RedisTimeout
    BY <1>1, <1>4, Durations DEF GetStaleHit, CacheInv, CopiesInv, KeptOK
  <2>4. RequestOK(a, now)
    BY <1>2, <2>2, <2>3 DEF RequestOK, DueOK, BarsOK, AnswerOK, Steps
  <2> QED
    BY <1>1, <1>3, <1>4, <2>4, OneRequest DEF GetStaleHit, a, i
<1>5. CASE GetStaleFails(w)
  <2>1. /\ LocalOK(f) /\ f.at = "answered" /\ f.started = r.started
        /\ f.outcome = "error" /\ f.failure = "transient"
    BY <1>2, AnswerIs
  <2> HIDE DEF f
  <2>2. RequestOK(f, now)
    BY <1>2, <2>1 DEF RequestOK, DueOK, BarsOK, AnswerOK, Steps
  <2> QED
    BY <1>1, <1>3, <1>5, <2>2, OneRequest DEF GetStaleFails, f
<1> QED
  BY <1>4, <1>5

(* What a SET stores is as old as the timeouts it waited for Redis.        *)
LEMMA StoredOK ==
  ASSUME now \in Nat, NEW r, RequestOK(r, now), r.at \in {"set", "setStale"}, NEW ttl \in Nat,
         NEW late \in Nat, 0 < ttl, r.due <= r.bars.got + late
  PROVE  LET copy == [r.bars EXCEPT !.expires = now + ttl]
         IN  copy.got = r.bars.got /\ KeptOK(copy, now, ttl, late)
<1> DEFINE copy == [r.bars EXCEPT !.expires = now + ttl]
<1>1. /\ r.bars \in [got : Nat, expires : Nat] /\ r.due \in Nat /\ now <= r.due
  BY DEF RequestOK, BarsOK, DueOK, Steps
<1>2. /\ copy \in [got : Nat, expires : Nat] /\ copy.got = r.bars.got
      /\ copy.expires = now + ttl
  BY <1>1
<1> HIDE DEF copy
<1>3. r.bars.got \in Nat
  BY <1>1
<1>4. KeptOK(copy, now, ttl, late)
  BY <1>1, <1>2, <1>3 DEF KeptOK
<1> QED
  BY <1>2, <1>4 DEF copy

(* The two SETs, the second after the first has taken its time.            *)
LEMMA SetOK ==
  ASSUME CacheInv, NEW w \in Workers, SetFresh(w) \/ SetStale(w) \/ SetFails(w)
  PROVE  CacheInv'
<1> DEFINE r == req[w]
           a == Answer(r, "fetched")
           z == Await(r, "setStale", now + RedisTimeout)
           short == [r.bars EXCEPT !.expires = now + r.ttl]
           long == [r.bars EXCEPT !.expires = now + StaleTTL]
<1>1. /\ RequestOK(r, now) /\ r.at \in {"set", "setStale"} /\ now \in Nat /\ now' = now
  BY DEF CacheInv, RequestsInv, SetFresh, SetStale, SetFails, At
<1>2. /\ LocalOK(r) /\ r.started \in Nat /\ r.started <= now /\ r.outcome = "none"
      /\ r.failure = "none" /\ r.ttl = FreshTTL(r.bars.got) /\ r.started <= r.bars.got
      /\ r.bars \in [got : Nat, expires : Nat] /\ r.bars.got <= now
      /\ r.due \in Nat /\ now <= r.due
  BY <1>1 DEF RequestOK, LocalOK, DueOK, BarsOK, AnswerOK, Steps
<1>3. RequestOK(a, now)
  <2>1. /\ LocalOK(a) /\ a.at = "answered" /\ a.started = r.started /\ a.bars = r.bars
        /\ a.outcome = "fetched" /\ a.failure = "none"
    BY <1>2, AnswerIs
  <2> HIDE DEF a
  <2>2. r.bars.got >= r.started
    BY <1>2
  <2> QED
    BY <1>2, <2>1, <2>2 DEF RequestOK, DueOK, BarsOK, AnswerOK, Steps
<1>4. ASSUME r.at = "set" PROVE RequestOK(z, now)
  <2>1. /\ LocalOK(z) /\ z.at = "setStale" /\ z.due = now + RedisTimeout
        /\ z.started = r.started /\ z.bars = r.bars /\ z.ttl = r.ttl
        /\ z.outcome = "none" /\ z.failure = "none"
    BY <1>2, AwaitIs DEF Steps
  <2> HIDE DEF z
  <2>2. /\ r.due <= r.started + OperationTimeout + 2 * RedisTimeout
        /\ r.due <= r.bars.got + RedisTimeout /\ r.bars.got \in Nat
    BY <1>1, <1>2, <1>4 DEF RequestOK, DueOK, BarsOK
  <2>3. /\ z.due \in Nat /\ now <= z.due
        /\ z.due <= z.started + OperationTimeout + 3 * RedisTimeout
        /\ z.due <= z.bars.got + 2 * RedisTimeout
    BY <1>1, <1>2, <2>1, <2>2, Durations
  <2> QED
    BY <1>2, <2>1, <2>3 DEF RequestOK, DueOK, BarsOK, AnswerOK, Steps
<1>5. ASSUME r.at = "set" PROVE KeptOK(short, now, FreshTTL(short.got), RedisTimeout)
  <2>1. 0 < r.ttl /\ r.ttl \in Nat /\ r.due <= r.bars.got + RedisTimeout
    BY <1>1, <1>2, <1>5, ParametersAssumption DEF FreshTTL, RequestOK, BarsOK
  <2> QED
    BY <1>1, <1>2, <2>1, Durations, StoredOK
<1>6. ASSUME r.at = "setStale" PROVE KeptOK(long, now, StaleTTL, 2 * RedisTimeout)
  <2>1. r.due <= r.bars.got + 2 * RedisTimeout /\ 2 * RedisTimeout \in Nat
    BY <1>1, <1>6, Durations DEF RequestOK, BarsOK
  <2>2. StaleTTL \in Nat /\ 0 < StaleTTL
    BY ParametersAssumption
  <2> QED
    BY <1>1, <2>1, <2>2, StoredOK
<1>7. /\ KeptOK(fresh, now, FreshTTL(fresh.got), RedisTimeout)
      /\ KeptOK(shadow, now, StaleTTL, 2 * RedisTimeout)
  BY DEF CacheInv, CopiesInv
<1> HIDE DEF a, z, short, long
<1>8. CopiesInv'
  BY <1>1, <1>5, <1>6, <1>7
     DEF CopiesInv, SetFresh, SetStale, SetFails, At, short, long
<1>9. Become(w, a) \/ (r.at = "set" /\ Become(w, z))
  BY DEF SetFresh, SetStale, SetFails, At, a, z
<1> QED
  BY <1>1, <1>3, <1>4, <1>8, <1>9, OneRequest

(* The caller takes its answer.                                            *)
LEMMA ReturnOK ==
  ASSUME CacheInv, NEW w \in Workers, Return(w) PROVE CacheInv'
<1>1. RequestOK(Idle, now)
  BY IdleIs DEF CacheInv, RequestOK, DueOK, BarsOK, AnswerOK, Steps
<1>2. CopiesInv'
  BY CopiesStay DEF Return, CacheInv
<1> QED
  BY <1>1, <1>2, OneRequest DEF Return

(* Time passes: no await is over, no answer waits to be taken.             *)
LEMMA TickOK ==
  ASSUME CacheInv, Tick PROVE CacheInv'
<1>1. now \in Nat /\ now' = now + 1 /\ now' \in Nat /\ req' = req
  BY DEF CacheInv, Tick
<1>2. ASSUME NEW w \in Workers PROVE RequestOK(req[w], now')
  <2> DEFINE r == req[w]
  <2>1. RequestOK(r, now) /\ r.at # "answered"
    BY DEF CacheInv, RequestsInv, Tick, At
  <2>2. LocalOK(r) /\ r.started \in Nat /\ r.deadline \in Nat
    BY <2>1 DEF RequestOK, LocalOK
  <2>3. /\ r.at \in Steps => now < r.due
        /\ r.at = "sleep" => now < r.deadline
    BY DEF Tick, Awaiting, At, Steps
  <2>4. DueOK(r, now')
    BY <1>1, <2>1, <2>2, <2>3 DEF RequestOK, DueOK, Steps
  <2>5. BarsOK(r, now')
    BY <1>1, <2>1 DEF RequestOK, BarsOK
  <2>6. AnswerOK(r, now')
    BY <2>1 DEF RequestOK, AnswerOK
  <2> QED
    BY <2>2, <2>4, <2>5, <2>6 DEF RequestOK
<1>3. ASSUME NEW copy, NEW ttl, NEW late, KeptOK(copy, now, ttl, late),
             ~(Usable(copy) /\ copy.expires <= now')
      PROVE  KeptOK(copy, now', ttl, late)
  BY <1>1, <1>3 DEF KeptOK
<1>4. ~Usable(NoCopy)
  BY DEF Usable
<1>5. \A ttl, late : KeptOK(NoCopy, now', ttl, late)
  BY <1>4 DEF KeptOK
<1>6. /\ \/ fresh' = NoCopy
         \/ fresh' = fresh /\ ~(Usable(fresh) /\ fresh.expires <= now')
      /\ \/ shadow' = NoCopy
         \/ shadow' = shadow /\ ~(Usable(shadow) /\ shadow.expires <= now')
  BY DEF Tick
<1>7. /\ KeptOK(fresh, now, FreshTTL(fresh.got), RedisTimeout)
      /\ KeptOK(shadow, now, StaleTTL, 2 * RedisTimeout)
  BY DEF CacheInv, CopiesInv
<1>8. CopiesInv'
  BY <1>3, <1>5, <1>6, <1>7 DEF CopiesInv
<1> QED
  BY <1>1, <1>2, <1>8 DEF CacheInv, RequestsInv

(* A copy that is lost or spoilt is not used.                              *)
LEMMA DamageOK ==
  ASSUME CacheInv, Damage PROVE CacheInv'
<1>1. ~Usable(NoCopy) /\ ~Usable(Garbage)
  BY DEF Usable
<1>2. \A ttl, late : KeptOK(NoCopy, now, ttl, late) /\ KeptOK(Garbage, now, ttl, late)
  BY <1>1 DEF KeptOK
<1>3. CopiesInv'
  BY <1>2 DEF Damage, CacheInv, CopiesInv
<1> QED
  BY <1>3 DEF CacheInv, RequestsInv, Damage

-----------------------------------------------------------------------------
(* The inductive invariant of the cache, its copies and its requests.      *)
THEOREM CacheInvariance == CacheSpec => []CacheInv
<1>1. CacheInit => CacheInv
  <2> SUFFICES ASSUME CacheInit PROVE CacheInv
    OBVIOUS
  <2>1. now = 0 /\ now \in Nat /\ ~Usable(fresh) /\ ~Usable(shadow)
    BY DEF CacheInit, Usable
  <2>2. RequestOK(Idle, now)
    BY <2>1, IdleIs DEF RequestOK, DueOK, BarsOK, AnswerOK, Steps
  <2>3. RequestsInv
    BY <2>2 DEF CacheInit, RequestsInv
  <2> QED
    BY <2>1, <2>3 DEF CacheInv, CopiesInv, KeptOK
<1>2. CacheInv /\ [CacheNext]_cacheVars => CacheInv'
  <2> SUFFICES ASSUME CacheInv, [CacheNext]_cacheVars PROVE CacheInv'
    OBVIOUS
  <2>1. CASE UNCHANGED cacheVars
    <3>1. UNCHANGED <<now, fresh, shadow, req>>
      BY <2>1 DEF cacheVars
    <3> QED
      BY <3>1 DEF CacheInv, RequestsInv, CopiesInv
  <2>2. CASE CacheNext
    BY <2>2, StartOK, GetHitOK, GetMissOK, CallSucceedsOK, CallFailsOK, WakeOK, GetStaleOK,
       SetOK, ReturnOK, TickOK, DamageOK DEF CacheNext, Get, Call, GetStale, Set
  <2> QED
    BY <2>1, <2>2
<1> QED
  BY <1>1, <1>2, PTL DEF CacheSpec

(* Whatever Redis, upstream and the other requests do: an answer says what *)
(* happened, and stale bars are within their retention.                    *)
THEOREM AnswersAreHonest == CacheSpec => []AnswersHonest
<1>1. CacheInv => AnswersHonest
  BY DEF CacheInv, RequestsInv, RequestOK, AnswerOK, AnswersHonest
<1> QED
  BY <1>1, CacheInvariance, PTL

(* A hit is within the TTL of its bars and one Redis timeout.              *)
THEOREM HitsAreYoung == CacheSpec => []HitAge
<1>1. CacheInv => HitAge
  BY DEF CacheInv, RequestsInv, RequestOK, AnswerOK, HitAge
<1> QED
  BY <1>1, CacheInvariance, PTL

(* No request waits longer than the operation and three Redis timeouts,    *)
(* however many attempts and whatever backoff it is configured with.       *)
THEOREM RequestsAreBounded == CacheSpec => []RequestBounded
<1>1. CacheInv => RequestBounded
  <2> SUFFICES ASSUME CacheInv, NEW w \in Workers, Awaiting(w)
               PROVE  now - req[w].started <= OperationTimeout + 3 * RedisTimeout
    BY DEF RequestBounded
  <2> DEFINE r == req[w]
  <2>1. RequestOK(r, now) /\ now \in Nat
    BY DEF CacheInv, RequestsInv
  <2>2. r.started \in Nat /\ r.deadline \in Nat /\ r.at \in Steps
    BY <2>1 DEF RequestOK, LocalOK, Awaiting
  <2>3. r.at \in Steps \ {"sleep"} => r.due \in Nat
    BY <2>1 DEF RequestOK, DueOK
  <2> QED
    BY <2>1, <2>2, <2>3, Durations DEF RequestOK, DueOK, Steps
<1> QED
  BY <1>1, CacheInvariance, PTL
=============================================================================
