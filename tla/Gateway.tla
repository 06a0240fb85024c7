------------------------------ MODULE Gateway ------------------------------
(***************************************************************************)
(* The HTTP surface in front of the services: bearer tokens, the order in  *)
(* which a route refuses a request, the table from errors to statuses, and *)
(* the release demo, a client that runs a script of requests against the   *)
(* API while other clients use it. Registrations and logins take the steps *)
(* of Accounts; a portfolio request is one step here, its service being a  *)
(* module of its own.                                                      *)
(***************************************************************************)
EXTENDS Accounts, Sequences, FiniteSets

CONSTANTS
  Instances,   \* processes of the API, each with its own clock
  Skew,        \* [Instances -> Nat]: what an instance's clock is ahead by
  Lifetime,    \* of a token
  MaxTime,     \* bound: the clock of the model stops there
  Portfolios,  \* ids of the portfolios that may be created
  Nowhere,     \* an id of no portfolio
  Cast,        \* the two accounts of the demo, [email, password]
  Driver,      \* the worker that serves the demo's calls of /auth
  Model,       \* whether an insight generator is configured
  Troubles     \* bound: the troubles of the market that are tried

ASSUME GatewayAssumption ==
  /\ Skew \in [Instances -> Nat] /\ Lifetime \in Nat /\ MaxTime \in Nat
  /\ Nowhere \notin Portfolios /\ Driver \in Workers /\ Model \in BOOLEAN
  /\ Troubles \subseteq {"market_data_not_found", "market_data_invalid_response",
       "market_data_rate_limited", "market_data_unavailable", "market_data_timeout",
       "invalid_price_series"}
  /\ Cast \in [1 .. 2 -> [email : Emails, password : Passwords]]
  /\ Normal[Cast[1].email] # Normal[Cast[2].email]
  /\ IsFiniteSet(Instances)

VARIABLES
  now,     \* what a clock without skew reads
  tokens,  \* account -> the last token issued to it
  shelf,   \* portfolio -> its owner, its transactions, its snapshots
  demo     \* the demo: its step, phase, portfolio, and what excuses a failure

doors == <<now, tokens, shelf, demo>>

Holders == {Normal[e] : e \in Emails}
(* A portfolio's rows, by external id: cash, a purchase, and a sale of a    *)
(* part of it; and whose payload each carries.                             *)
RowIds == {"deposit", "buy", "sell"}
Authors == {"demo", "guest"}
NoToken == [iat |-> -1, born |-> -1]
Vacant == [owner |-> Blank, rows |-> [x \in RowIds |-> "absent"], snapshots |-> {}]

(* Who answers what, in app.py's table; "outage" is the middleware's       *)
(* internal_error, a crash or a lost response.                             *)
Status ==
  [ok |-> 200, replayed |-> 200, created |-> 201, authentication_failed |-> 401,
   portfolio_not_found |-> 404, email_already_registered |-> 409,
   transaction_idempotency_conflict |-> 409, market_data_not_found |-> 422,
   analytics_unavailable |-> 422, csv_import_invalid |-> 422,
   invalid_transaction |-> 422, invalid_price_series |-> 422, validation_error |-> 422,
   rate_limited |-> 429, outage |-> 500, market_data_invalid_response |-> 502,
   market_data_rate_limited |-> 503, market_data_unavailable |-> 503,
   market_data_timeout |-> 504]

Weathers == {"clear", "rate_limited", "outage"} \cup Troubles

-----------------------------------------------------------------------------
(* Tokens: issue stamps the clock of the instance; verify refuses one that *)
(* is not yet valid or no longer.                                          *)
Clock(i) == now + Skew[i]
Issue(i) == [iat |-> Clock(i), born |-> now]
Verified(sub, i) ==
  LET t == tokens[sub]
  IN  t # NoToken /\ t.iat <= Clock(i) /\ Clock(i) < t.iat + Lifetime

(* authenticate: the account must exist too.                               *)
Honoured(sub, i) == Verified(sub, i) /\ Named(sub) # {}

(* Mutant: whoever asks owns every portfolio there is.                     *)
OwnedByAnyone(sub, p) == p # Nowhere /\ shelf[p].owner # Blank

Owned(sub, p) == p # Nowhere /\ shelf[p].owner = sub

(* A request for a portfolio: content is what the route's declaration      *)
(* refuses ("malformed"), what the service refuses ("unfit": a CSV it      *)
(* cannot read, dates that are backwards), or neither.  A body that is no  *)
(* JSON at all is refused before the token is read, and left out.          *)
Ask(op, p, content, row, author) ==
  [op |-> op, p |-> p, content |-> content, row |-> row, author |-> author]

PortfolioOps ==
  {"get", "create_transaction", "list_transactions", "preview", "commit", "analytics",
   "insight", "list_snapshots"}
Asks(p) == {Ask(op, p, content, "buy", "demo") :
              op \in PortfolioOps, content \in {"fit", "unfit", "malformed"}}
  \cup {Ask(op, p, "fit", row, author) :
          op \in {"create_transaction"}, row \in RowIds, author \in Authors}

(* Every service looks for the owner itself, before anything else it does. *)
(* TransactionService.create: then the row is validated, looked up under   *)
(* its external id, and the ledger replayed with it, which refuses a sale  *)
(* of what is not held; no step asks for the cash of a purchase.           *)
Posted(q) ==
  LET rows == shelf[q.p].rows
  IN  IF q.content = "unfit" THEN "invalid_transaction"
      ELSE IF rows[q.row] = q.author THEN "replayed"
      ELSE IF rows[q.row] # "absent" THEN "transaction_idempotency_conflict"
      ELSE IF q.row = "sell" /\ rows["buy"] = "absent" THEN "invalid_transaction"
      ELSE "created"

(* Mutant: an idempotent replay is answered before the owner is looked at. *)
CreatedEager(sub, q) ==
  IF q.p # Nowhere /\ shelf[q.p].rows[q.row] = q.author THEN "replayed"
  ELSE IF ~Owned(sub, q.p) THEN "portfolio_not_found" ELSE Posted(q)

Created(sub, q) ==
  IF ~Owned(sub, q.p) THEN "portfolio_not_found" ELSE Posted(q)

(* preview and commit: the owner, then the parser.                         *)
Imported(sub, q) ==
  IF ~Owned(sub, q.p) THEN "portfolio_not_found"
  ELSE IF q.content = "unfit" THEN "csv_import_invalid" ELSE "ok"

(* analyze, for analytics and insight: the owner, the dates, the holdings, *)
(* the market.                                                             *)
Analysed(sub, q, weather) ==
  IF ~Owned(sub, q.p) THEN "portfolio_not_found"
  ELSE IF q.content = "unfit" \/ shelf[q.p].rows["buy"] = "absent" THEN "analytics_unavailable"
  ELSE IF weather \in Troubles THEN weather ELSE "ok"

(* get and the two lists.                                                  *)
Shown(sub, q) == IF ~Owned(sub, q.p) THEN "portfolio_not_found" ELSE "ok"

Served(sub, q, weather) ==
  CASE q.op = "create_transaction"        -> Created(sub, q)
    [] q.op \in {"preview", "commit"}     -> Imported(sub, q)
    [] q.op \in {"analytics", "insight"}  -> Analysed(sub, q, weather)
    [] q.op \in {"get", "list_transactions", "list_snapshots"} -> Shown(sub, q)

(* Once the token is accepted: the limiter, the declaration of the route,  *)
(* the service.                                                            *)
Admitted(sub, q, weather) ==
  IF weather = "rate_limited" THEN "rate_limited"
  ELSE IF q.content = "malformed" THEN "validation_error"
  ELSE Served(sub, q, weather)

Answer(sub, i, q, weather) ==
  IF weather = "outage" THEN "outage"
  ELSE IF ~Honoured(sub, i) THEN "authentication_failed"
  ELSE Admitted(sub, q, weather)

(* The row a request stores: the import commits the row it is given as     *)
(* create does, whatever becomes of it.                                    *)
Written(entry, q) == [entry EXCEPT !.rows = [@ EXCEPT ![q.row] = q.author]]
Stored(q, answer) ==
  IF \/ q.op = "create_transaction" /\ answer = "created"
     \/ q.op = "commit" /\ answer = "ok" /\ Posted(q) = "created"
  THEN [shelf EXCEPT ![q.p] = Written(@, q)] ELSE shelf

Narrators == {"deterministic_rules"} \cup (IF Model THEN {"model"} ELSE {})
Recorded(entry, narrator) == [entry EXCEPT !.snapshots = @ \cup {narrator}]
Snapped(q, answer, narrator) ==
  IF q.op = "insight" /\ answer = "ok"
  THEN [shelf EXCEPT ![q.p] = Recorded(@, narrator)] ELSE shelf

Effect(q, answer, narrator) ==
  IF q.op = "insight" THEN Snapped(q, answer, narrator) ELSE Stored(q, answer)
-----------------------------------------------------------------------------
(* run_demo: what it asks, as which of its accounts, and the status it     *)
(* expects; any other status ends it.                                      *)
Cue(op, as, expect) == [op |-> op, as |-> as, expect |-> expect]
Script ==
  <<Cue("health", 0, 200),
    Cue("register", 1, 201), Cue("login", 1, 200),
    Cue("create_portfolio", 1, 201), Cue("get", 1, 200),
    Cue("list_portfolios", 1, 200),
    Cue("deposit", 1, 201), Cue("buy", 1, 201), Cue("buy", 1, 200),
    Cue("list_transactions", 1, 200), Cue("analytics", 1, 200),
    Cue("insight", 1, 200), Cue("list_snapshots", 1, 200),
    Cue("register", 2, 201), Cue("login", 2, 200),
    Cue("get", 2, 404), Cue("get_missing", 2, 404)>>

Line == Script[demo.step]
Player(k) == Normal[Cast[k].email]
Playing == demo.phase = "ready" /\ demo.step \in DOMAIN Script

(* The request of a line of the script that names a portfolio.             *)
Scripted(line) ==
  CASE line.op \in RowIds -> Ask("create_transaction", demo.portfolio, "fit", line.op, "demo")
    [] line.op = "get_missing" -> Ask("get", Nowhere, "fit", "buy", "demo")
    [] OTHER -> Ask(line.op, demo.portfolio, "fit", "buy", "demo")

(* Requests the scripted ones stand apart from: nothing to own.            *)
Unowned(op, sub, i, weather) ==
  IF weather = "outage" THEN "outage"
  ELSE IF op = "health" THEN "ok"
  ELSE IF ~Honoured(sub, i) THEN "authentication_failed"
  ELSE IF weather = "rate_limited" THEN "rate_limited"
  ELSE IF op = "create_portfolio" THEN "created" ELSE "ok"

(* What the world did to a call, apart from what the API made of it: the   *)
(* network, the limiter, the market, a model that answered in the rules'   *)
(* place, a token that has aged or that a slower clock has not reached.    *)
Spread == CHOOSE d \in {Skew[i] - Skew[j] : i, j \in Instances} :
            \A i, j \in Instances : Skew[i] - Skew[j] <= d
Aged(k) == LET t == tokens[Player(k)]
           IN  now - t.born < Spread \/ now - t.born >= Lifetime - Spread
Excuses(k, weather, narrator) ==
  ({weather} \ {"clear"}) \cup (IF narrator = "model" THEN {"model"} ELSE {})
    \cup (IF k > 0 /\ Aged(k) THEN {"clock"} ELSE {})

Advance == demo' = [demo EXCEPT !.step = @ + 1, !.phase = "ready"]
Stop(excuses) ==
  demo' = [step |-> 0, phase |-> "failed", portfolio |-> Nowhere, excuses |-> excuses]
Proceed(passed, excuses) == IF passed THEN Advance ELSE Stop(excuses)

(* The status, and the checks the script makes of the answer.              *)
Passes(line, sub, answer, narrator) ==
  /\ Status[answer] = line.expect
  /\ line.op = "list_portfolios" => shelf[demo.portfolio].owner = sub
  /\ line.op = "insight" => narrator = "deterministic_rules"
  /\ line.op = "list_snapshots" =>
       "deterministic_rules" \in shelf[demo.portfolio].snapshots
  /\ line.expect = 404 => answer = "portfolio_not_found"

(* A line that does not register or log in: one request to any instance,   *)
(* and what becomes of it.  What an outage leaves behind is of no account: *)
(* the script ends.                                                        *)
Play(i, weather, narrator) ==
  LET line == Line
      sub == IF line.as = 0 THEN Blank ELSE Player(line.as)
      q == Scripted(line)
      answer == IF line.op \in {"health", "list_portfolios"}
                THEN Unowned(line.op, sub, i, weather) ELSE Answer(sub, i, q, weather)
  IN  /\ Playing /\ line.op \notin {"register", "login", "create_portfolio"}
      /\ narrator # "deterministic_rules" => line.op = "insight"
      /\ shelf' = IF line.op \in {"health", "list_portfolios"} THEN shelf
                  ELSE Effect(q, answer, narrator)
      /\ Proceed(Passes(line, sub, answer, narrator), Excuses(line.as, weather, narrator))
      /\ UNCHANGED <<vars, now, tokens>>

(* PortfolioService.create, for the demo or for another client: a fresh id.*)
PlayCreate(i, weather, p) ==
  /\ Playing /\ Line.op = "create_portfolio"
  /\ shelf[p].owner = Blank
  /\ LET answer == Unowned("create_portfolio", Player(1), i, weather)
     IN  IF answer = "created"
         THEN /\ shelf' = [shelf EXCEPT ![p].owner = Player(1)]
              /\ demo' = [demo EXCEPT !.step = @ + 1, !.portfolio = p]
         ELSE Stop(Excuses(1, weather, "deterministic_rules")) /\ shelf' = shelf
  /\ UNCHANGED <<vars, now, tokens>>

(* The demo posts to /auth: its request is turned away by the limiter or   *)
(* enters Accounts on the Driver.                                          *)
PlayAuth(weather) ==
  /\ Playing /\ Line.op \in {"register", "login"}
  /\ \/ /\ weather = "clear"
        /\ Call(Driver, Line.op, Cast[Line.as].email, Cast[Line.as].password)
        /\ demo' = [demo EXCEPT !.phase = "waiting"]
     \/ /\ weather = "rate_limited"
        /\ Stop({weather}) /\ UNCHANGED vars
  /\ UNCHANGED <<now, tokens, shelf>>

(* Its answer. An account the demo did not make excuses a refusal.         *)
AuthStatus == [registered |-> 201, taken |-> 409, token |-> 200, denied |-> 401]
Curtain(w) ==
  /\ Close(w)
  /\ IF w = Driver
     THEN LET mine == [email |-> Player(Line.as), password |-> Cast[Line.as].password]
          IN  Proceed(AuthStatus[req[w].answer] = Line.expect,
                      IF \E u \in Named(mine.email) : u # mine THEN {"taken"} ELSE {})
     ELSE demo' = demo
  /\ UNCHANGED <<now, tokens, shelf>>

Drop(w) ==
  /\ Abort(w)
  /\ IF w = Driver THEN Stop({"outage"}) ELSE demo' = demo
  /\ UNCHANGED <<now, tokens, shelf>>

-----------------------------------------------------------------------------
(* The other clients, who cannot guess the demo's random passwords, and    *)
(* time.                                                                   *)
Secret(password) == \A k \in 1 .. 2 : password # Cast[k].password

Enter(w, op, email, password) ==
  /\ w # Driver /\ Secret(password)
  /\ Call(w, op, email, password)
  /\ UNCHANGED doors

Work(w) == (Register(w) \/ Find(w)) /\ UNCHANGED doors

Enough(w, i) ==
  /\ Verify(w)
  /\ tokens' = IF req'[w].answer = "token"
               THEN [tokens EXCEPT ![req[w].email] = Issue(i)] ELSE tokens
  /\ UNCHANGED <<now, shelf, demo>>

(* A client that logged in posts a row to a portfolio, its own or one it   *)
(* has only heard of; the demo's accounts are driven by its script alone.  *)
Visitor(sub) == \E u \in Named(sub) : Secret(u.password)
Visit(sub, i, p, op, row, author) ==
  LET q == Ask(op, p, "fit", row, author) IN
  /\ Visitor(sub)
  /\ shelf' = Effect(q, Answer(sub, i, q, "clear"), "deterministic_rules")
  /\ shelf' # shelf
  /\ UNCHANGED <<vars, now, tokens, demo>>

VisitCreate(sub, i, p) ==
  /\ Visitor(sub) /\ shelf[p].owner = Blank
  /\ \A r \in Portfolios : shelf[r].owner # sub      \* bound: one each
  /\ Unowned("create_portfolio", sub, i, "clear") = "created"
  /\ shelf' = [shelf EXCEPT ![p].owner = sub]
  /\ UNCHANGED <<vars, now, tokens, demo>>

Tick ==
  /\ now < MaxTime
  /\ demo.step > 3                     \* bound: time passes while a token may age
  /\ now' = now + 1
  /\ UNCHANGED <<vars, tokens, shelf, demo>>

GatewayInit ==
  /\ Init
  /\ now = 0
  /\ tokens = [sub \in Holders |-> NoToken]
  /\ shelf = [p \in Portfolios |-> Vacant]
  /\ demo = [step |-> 1, phase |-> "ready", portfolio |-> Nowhere, excuses |-> {}]

GatewayNext ==
  \/ \E i \in Instances, weather \in Weathers, narrator \in Narrators :
       Play(i, weather, narrator)
  \/ \E i \in Instances, weather \in Weathers, p \in Portfolios : PlayCreate(i, weather, p)
  \/ \E weather \in Weathers : PlayAuth(weather)
  \/ \E w \in Workers :
       \/ \E op \in {"register", "login"}, e \in Emails, p \in Passwords : Enter(w, op, e, p)
       \/ Work(w) \/ Curtain(w) \/ Drop(w) \/ \E i \in Instances : Enough(w, i)
  \/ \E sub \in Holders, i \in Instances :
       \E p \in Portfolios :
         \/ \E op \in {"create_transaction", "commit"}, author \in Authors,
               row \in {"buy", "sell"} :        \* bound: deposits are decided as purchases are
              Visit(sub, i, p, op, row, author)
         \/ VisitCreate(sub, i, p)
  \/ Tick

GatewaySpec == GatewayInit /\ [][GatewayNext]_<<vars, doors>>

-----------------------------------------------------------------------------
(* No account can tell a portfolio of another from one that does not       *)
(* exist: whatever it asks, in whatever state, the answers are the same.   *)
ForeignIsMissing ==
  \A p \in Portfolios, sub \in Holders :
    shelf[p].owner \notin {Blank, sub} =>
      \A q \in Asks(p), weather \in {"clear"} \cup Troubles :
        Admitted(sub, q, weather) = Admitted(sub, [q EXCEPT !.p = Nowhere], weather)

(* The release demo fails only for what the world did to it, never for     *)
(* what other clients ask of the API at the same time.                     *)
DemoExplained == demo.phase = "failed" => demo.excuses # {}
=============================================================================
