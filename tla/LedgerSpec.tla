----------------------------- MODULE LedgerSpec -----------------------------
(***************************************************************************)
(* What POST /portfolios/{id}/transactions promises, with no database in   *)
(* sight: a call is served in one atomic step against the whole committed  *)
(* ledger, or is lost without a trace.  TransactionService implements it.  *)
(***************************************************************************)
EXTENDS LedgerData

CONSTANTS Workers, NoPayload, NoRow

VARIABLES
  ledger,   \* [Portfolios -> Seq(RowType)], in commit order
  req,      \* the payload a worker is serving, or NoPayload
  answer,   \* the verdict it has reached, or "none"
  result    \* the row it answers with, or NoRow

vars == <<ledger, req, answer, result>>

Init ==
  /\ ledger = [p \in Portfolios |-> <<>>]
  /\ req = [w \in Workers |-> NoPayload]
  /\ answer = [w \in Workers |-> "none"]
  /\ result = [w \in Workers |-> NoRow]

Call(w, p) ==
  /\ req[w] = NoPayload
  /\ req' = [req EXCEPT ![w] = p]
  /\ UNCHANGED <<ledger, answer, result>>

Reply(w, verdict, row) ==
  /\ req[w] # NoPayload /\ answer[w] = "none"
  /\ answer' = [answer EXCEPT ![w] = verdict]
  /\ result' = [result EXCEPT ![w] = row]
  /\ req' = req

NotFound(w) ==
  /\ Reply(w, "not_found", NoRow)
  /\ ~Owned(req[w])
  /\ ledger' = ledger

Malformed(w) ==
  /\ Reply(w, "invalid", NoRow)
  /\ Owned(req[w]) /\ ~IsValid(req[w])
  /\ ledger' = ledger

(* The id is taken: a retry gets the existing row, another payload none.   *)
Known(w, t) == \E e \in ByExternalId(ledger[t.pf], t.ext) :
  /\ \/ SamePayload(e, t) /\ Reply(w, "replayed", e)
     \/ ~SamePayload(e, t) /\ Reply(w, "conflict", NoRow)
  /\ ledger' = ledger

Refuse(w, t) ==
  /\ ByExternalId(ledger[t.pf], t.ext) = {}
  /\ ~Replays(Rows(ledger[t.pf]) \cup {t})
  /\ Reply(w, "invalid", NoRow)
  /\ ledger' = ledger

Create(w, t) ==
  /\ ByExternalId(ledger[t.pf], t.ext) = {}
  /\ Replays(Rows(ledger[t.pf]) \cup {t})
  /\ Reply(w, "created", t)
  /\ ledger' = [ledger EXCEPT ![t.pf] = Append(@, t)]

(* A well-formed call, decided at once on the whole committed ledger.      *)
Serve(w, t) ==
  /\ req[w] # NoPayload /\ Owned(req[w]) /\ IsValid(req[w])
  /\ Known(w, t) \/ Refuse(w, t) \/ Create(w, t)

(* The response is delivered, or the call is lost before or after its     *)
(* effect: the client cannot tell which, and retries.                      *)
End(w) ==
  /\ req[w] # NoPayload
  /\ req' = [req EXCEPT ![w] = NoPayload]
  /\ answer' = [answer EXCEPT ![w] = "none"]
  /\ result' = [result EXCEPT ![w] = NoRow]
  /\ ledger' = ledger

Next == \E w \in Workers :
  \/ \E p \in Payloads : Call(w, p)
  \/ NotFound(w)
  \/ Malformed(w)
  \/ \E id \in Ids, created \in Times :
       req[w] # NoPayload /\ Serve(w, BuildTransaction(req[w], id, created))
  \/ End(w)

Spec == Init /\ [][Next]_vars
=============================================================================
