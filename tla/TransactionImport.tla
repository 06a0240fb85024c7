------------------------- MODULE TransactionImport -------------------------
(***************************************************************************)
(* TransactionImportService: the write-free preview of a CSV file and the  *)
(* row-by-row commit of the same file, while other clients write to the    *)
(* portfolio and any commit may be cut short and posted again.             *)
(* Each row of a commit is one TransactionService.create, taken here as the*)
(* atomic step of LedgerSpec it implements.  created_at and id are the     *)
(* position of the row in its ledger: the readings of the clock increase   *)
(* from row to row (a row takes well over a microsecond), and only their   *)
(* order counts.                                                           *)
(***************************************************************************)
EXTENDS CsvImport, SequencesExt

CONSTANTS
  Documents, \* [owner, pf, size, utf8, nul, header, lines]: the caller, the URL, the body
  Instants,  \* what a datetime in UTC can hold
  NoFile

ASSUME DocumentsAssumption ==
  /\ NoFile \notin Documents
  /\ \A d \in Documents : d.size \in Nat /\ d.lines \in Seq(Seq(DOMAIN Strip))

VARIABLES
  ledger,    \* [Portfolios -> Seq(RowType)], committed, in commit order
  phase,     \* what the service runs for the client, "waiting" between two posts
  file,      \* the file being imported
  simulated, \* preview's local copy of the ledger
  previewed, \* the statuses preview has given so far
  reported,  \* the statuses commit has given so far
  earlier,   \* the report of an earlier complete commit of the file, or <<>>
  touched,   \* a cut commit or another client has written since the preview read
  disturbed  \* another client has written since then, or there was no preview

vars == <<ledger, phase, file, simulated, previewed, reported, earlier, touched, disturbed>>

(* The numbers of the rows of a report, and the candidates of the parser.  *)
RowNumbers == [d \in Documents |->
  CHOOSE f \in [1 .. Cardinality(Filled(d)) -> Filled(d)] :
    Range(f) = Filled(d) /\ \A i, k \in DOMAIN f : i < k => f[i] < f[k]]
Candidates == [d \in Documents |->
  [k \in DOMAIN RowNumbers[d] |-> NewTransaction(d, d.lines[RowNumbers[d][k]])]]

(* occurred_at.astimezone(UTC) raises OverflowError: a 500, in create as in*)
(* preview, since only InvalidTransactionError and conflicts are caught.   *)
Breaks(row) == row # NoTransaction /\ row.at \notin Instants

(* What becomes of a posted document: the route's Body(max_length), then   *)
(* ownership, then the parser, which reads the whole document.             *)
Admitted(d, next) ==
  CASE d.size > MaxBytes                                             -> "refused"
    [] d.size <= MaxBytes /\ ~Owned(d)                               -> "not_found"
    [] d.size <= MaxBytes /\ Owned(d) /\ Escapes(d)                  -> "error"
    [] d.size <= MaxBytes /\ Owned(d) /\ ~Escapes(d) /\ Refused(d)   -> "refused"
    [] d.size <= MaxBytes /\ Owned(d) /\ ~Escapes(d) /\ ~Refused(d)  -> next

Init ==
  /\ ledger = [p \in Portfolios |-> <<>>]
  /\ phase = "idle" /\ file = NoFile /\ simulated = <<>>
  /\ previewed = <<>> /\ reported = <<>> /\ earlier = <<>>
  /\ touched = FALSE /\ disturbed = FALSE

(* The row built from a payload as the next one of a log.                  *)
NextRow(log, p) == BuildTransaction(p, Len(log) + 1, Len(log) + 1)

(* Mutant: the ledger is replayed with the row before its id is looked up. *)
VerdictByReplay(log, p) ==
  LET t     == NextRow(log, p)
      known == ByExternalId(log, t.ext)
      fits  == IsValid(p) /\ Replays(Rows(log) \cup {t})
  IN  CASE ~fits                                        -> "refused"
        [] fits /\ \E e \in known : SamePayload(e, t)   -> "known"
        [] fits /\ \E e \in known : ~SamePayload(e, t)  -> "refused"
        [] fits /\ known = {}                           -> "new"

(* create's decision on a committed log, and preview's on its copy: both   *)
(* validate, look the external id up, and replay the ledger with the row.  *)
Verdict(log, p) ==
  LET t     == NextRow(log, p)
      known == ByExternalId(log, t.ext)
  IN  CASE ~IsValid(p)                                        -> "refused"
        [] IsValid(p) /\ \E e \in known : SamePayload(e, t)   -> "known"
        [] IsValid(p) /\ \E e \in known : ~SamePayload(e, t)  -> "refused"
        [] IsValid(p) /\ known = {} /\ Replays(Rows(log) \cup {t})  -> "new"
        [] IsValid(p) /\ known = {} /\ ~Replays(Rows(log) \cup {t}) -> "refused"

PreviewStatus(log, row) ==
  IF row = NoTransaction THEN "invalid"
  ELSE [new |-> "ready", known |-> "replay", refused |-> "invalid"][Verdict(log, row)]

CommitStatus(log, row) ==
  IF row = NoTransaction THEN "failed"
  ELSE [new |-> "created", known |-> "replayed", refused |-> "failed"][Verdict(log, row)]

(* preview: _load_owned_ledger in one unit of work, before parsing.        *)
Preview(d) ==
  /\ phase = "idle"
  /\ file' = d
  /\ phase' = Admitted(d, "preview")
  /\ simulated' = IF phase' = "preview" THEN ledger[d.pf] ELSE simulated
  /\ previewed' = <<>> /\ reported' = <<>> /\ earlier' = <<>>
  /\ touched' = FALSE /\ disturbed' = FALSE
  /\ ledger' = ledger

(* Mutant: every row is simulated on the ledger as it was read.            *)
PreviewRowAlone ==
  /\ phase = "preview" /\ Len(previewed) < Len(Candidates[file])
  /\ previewed' = Append(previewed, PreviewStatus(simulated, Candidates[file][Len(previewed) + 1]))
  /\ UNCHANGED <<ledger, phase, file, simulated, reported, earlier, touched, disturbed>>

(* preview: one turn of its loop, which only READY rows extend.            *)
PreviewRow ==
  LET row    == Candidates[file][Len(previewed) + 1]
      status == PreviewStatus(simulated, row)
  IN /\ phase = "preview" /\ Len(previewed) < Len(Candidates[file])
     /\ ~Breaks(row)
     /\ previewed' = Append(previewed, status)
     /\ simulated' = IF status = "ready"
                     THEN Append(simulated, NextRow(simulated, row)) ELSE simulated
     /\ UNCHANGED <<ledger, phase, file, reported, earlier, touched, disturbed>>

(* A row that breaks ends the request with a 500, in preview with nothing  *)
(* lost; in commit the rows before it stay, and their report is lost.      *)
Break ==
  LET done == IF phase = "preview" THEN previewed ELSE reported
  IN /\ phase \in {"preview", "commit"} /\ Len(done) < Len(Candidates[file])
     /\ Breaks(Candidates[file][Len(done) + 1])
     /\ phase' = "error"
     /\ reported' = <<>>
     /\ touched' = (touched \/ \E i \in DOMAIN reported : reported[i] = "created")
     /\ UNCHANGED <<ledger, file, simulated, previewed, earlier, disturbed>>

PreviewDone ==
  /\ phase = "preview" /\ Len(previewed) = Len(Candidates[file])
  /\ phase' = "waiting"
  /\ UNCHANGED <<ledger, file, simulated, previewed, reported, earlier, touched, disturbed>>

(* commit of a file nobody previewed: _assert_owned, then the rows.        *)
CommitUnseen(d) ==
  /\ phase = "idle"
  /\ file' = d
  /\ phase' = Admitted(d, "commit")
  /\ touched' = TRUE /\ disturbed' = TRUE
  /\ UNCHANGED <<ledger, simulated, previewed, reported, earlier>>

(* commit: posted after the preview, or again after a complete, cut or     *)
(* failed one.                                                             *)
Commit ==
  /\ phase \in {"waiting", "done", "error"}
  /\ phase' = Admitted(file, "commit")
  /\ earlier' = IF phase = "done" THEN reported ELSE earlier
  /\ reported' = <<>>
  /\ UNCHANGED <<ledger, file, simulated, previewed, touched, disturbed>>

(* Mutant: one transaction for the file: a failed row rolls back the rows  *)
(* created before it.                                                      *)
CommitRowTogether ==
  LET row    == Candidates[file][Len(reported) + 1]
      log    == ledger[file.pf]
      status == CommitStatus(log, row)
      new    == {i \in DOMAIN reported : reported[i] = "created"}
  IN /\ phase = "commit" /\ Len(reported) < Len(Candidates[file])
     /\ ~Breaks(row)
     /\ reported' = Append(reported, status)
     /\ ledger' = [ledger EXCEPT ![file.pf] =
          CASE status = "created"  -> Append(log, NextRow(log, row))
            [] status = "replayed" -> log
            [] status = "failed"   -> SubSeq(log, 1, Len(log) - Cardinality(new))]
     /\ UNCHANGED <<phase, file, simulated, previewed, earlier, touched, disturbed>>

(* commit: one TransactionService.create in a transaction of its own;      *)
(* InvalidTransactionError and conflicts only fail their row.              *)
CommitRow ==
  LET row    == Candidates[file][Len(reported) + 1]
      log    == ledger[file.pf]
      status == CommitStatus(log, row)
  IN /\ phase = "commit" /\ Len(reported) < Len(Candidates[file])
     /\ ~Breaks(row)
     /\ reported' = Append(reported, status)
     /\ ledger' = IF status = "created"
                  THEN [ledger EXCEPT ![file.pf] = Append(log, NextRow(log, row))]
                  ELSE ledger
     /\ UNCHANGED <<phase, file, simulated, previewed, earlier, touched, disturbed>>

CommitDone ==
  /\ phase = "commit" /\ Len(reported) = Len(Candidates[file])
  /\ phase' = "done"
  /\ UNCHANGED <<ledger, file, simulated, previewed, reported, earlier, touched, disturbed>>

(* The process dies or the connection drops between two rows: what is      *)
(* committed stays, the report is lost, and the client posts again.        *)
Cut ==
  /\ phase = "commit"
  /\ phase' = "waiting"
  /\ reported' = <<>>
  /\ touched' = (touched \/ \E i \in DOMAIN reported : reported[i] = "created")
  /\ UNCHANGED <<ledger, file, simulated, previewed, earlier, disturbed>>

(* Another client's create on the portfolio.                               *)
Write(p) ==
  /\ Owned(p) /\ Verdict(ledger[p.pf], p) = "new"
  /\ ledger' = [ledger EXCEPT ![p.pf] = Append(@, NextRow(@, p))]
  /\ touched' = TRUE /\ disturbed' = TRUE
  /\ UNCHANGED <<phase, file, simulated, previewed, reported, earlier>>

(* The client is done with this file.                                      *)
Leave ==
  /\ phase \in {"waiting", "done", "not_found", "refused", "error"}
  /\ phase' = "idle" /\ file' = NoFile
  /\ simulated' = <<>> /\ previewed' = <<>> /\ reported' = <<>> /\ earlier' = <<>>
  /\ touched' = FALSE /\ disturbed' = FALSE
  /\ ledger' = ledger

Next ==
  \/ \E d \in Documents : Preview(d) \/ CommitUnseen(d)
  \/ Break
  \/ PreviewRow \/ PreviewDone \/ Commit \/ CommitRow \/ CommitDone \/ Cut \/ Leave
  \/ \E p \in Payloads : Write(p)

Spec == Init /\ [][Next]_vars

-----------------------------------------------------------------------------
Predicted(status) ==
  [ready |-> "created", replay |-> "replayed", invalid |-> "failed"][status]

(* The preview is what the first complete commit reports, row by row, if   *)
(* nothing was written in between: its simulation of the ledger, of the ids*)
(* used within the file and of the order of rows is the one create applies.*)
PreviewPredicts ==
  phase = "done" /\ earlier = <<>> /\ ~touched =>
    reported = [i \in DOMAIN previewed |-> Predicted(previewed[i])]

(* Posting a file again is safe, whoever else writes: a row that was       *)
(* created or replayed is replayed, never created twice or refused. And a  *)
(* commit cut at any row leaves nothing behind that a repost trips over: a *)
(* file previewed without invalid rows ends with every row in the ledger,  *)
(* and in the order the preview simulated.                                 *)
RepostsConverge ==
  /\ phase \in {"commit", "done"} /\ earlier # <<>> =>
       \A i \in DOMAIN reported :
         earlier[i] \in {"created", "replayed"} => reported[i] = "replayed"
  /\ phase = "done" /\ ~disturbed /\ "invalid" \notin Range(previewed) =>
       /\ "failed" \notin Range(reported)
       /\ ledger[file.pf] = simulated

(* A row that failed in a commit does not take its neighbours with it: what*)
(* was reported created or replayed is in the ledger for good.             *)
ReportedRowsStay == phase \in {"commit", "done"} =>
  \A i \in DOMAIN reported : reported[i] \in {"created", "replayed"} =>
    \E e \in Rows(ledger[file.pf]) :
      SamePayload(e, BuildTransaction(Candidates[file][i], e.id, e.created))

(* The ledger as preview read it: its copy without the rows it found READY.*)
LedgerRead == SubSeq(simulated, 1,
  Len(simulated) - Cardinality({i \in DOMAIN previewed : previewed[i] = "ready"}))

(* What preview says of a row whose external id the ledger had is final,   *)
(* stale as the copy it looked at may be: every commit of the file, cut or *)
(* repeated, replays the row or refuses it as predicted, whatever others   *)
(* have bought, sold or posted under other ids since.                      *)
KnownIdsAreSettled == phase \in {"commit", "done"} =>
  \A i \in DOMAIN reported \cap DOMAIN previewed :
    LET row == Candidates[file][i]
    IN  row # NoTransaction /\ (\E e \in Rows(LedgerRead) : e.ext = Normal[row.ext]) =>
          reported[i] = Predicted(previewed[i])
=============================================================================
