---------------------------- MODULE PriceAdapters ----------------------------
(***************************************************************************)
(* The adapters of the two market-data providers: a response, or the       *)
(* exception of its request, becomes the bars of a symbol or one of the    *)
(* errors the retries and the HTTP layer tell apart.  The bars, sorted and *)
(* of distinct dates, are a function from dates to prices.  Rows keep what *)
(* the adapters look at: a session date, or Undated when it cannot be read,*)
(* and an adjusted close, 0 when it is missing, no number or not positive. *)
(***************************************************************************)
EXTENDS Integers, SequencesExt

CONSTANT MaxPoints   \* MAX_OUTPUT_SIZE, the most rows Twelve Data returns

ASSUME MaxPointsAssumption == MaxPoints \in Nat \ {0}

Undated == -1

Bars(bars) == [error |-> "none", bars |-> bars]
Raise(error) == [error |-> error, bars |-> << >>]

(* The loop over the rows, the same in both adapters: rows out of the      *)
(* interval are skipped, and any other unusable row refuses the response.  *)
Normalize(rows, start, end) ==
  LET kept  == {i \in DOMAIN rows : rows[i].date \in start..end}
      found == {rows[i].date : i \in kept}
      close(d) == rows[CHOOSE i \in kept : rows[i].date = d].close
  IN IF \/ \E i \in DOMAIN rows : rows[i].date = Undated
        \/ \E i, j \in kept : i # j /\ rows[i].date = rows[j].date
        \/ \E i \in kept : rows[i].close <= 0
     THEN Raise("invalid")
     ELSE IF found = {} THEN Raise("not_found") ELSE Bars([d \in found |-> close(d)])

(* HTTP statuses below 400 say nothing of the body.                        *)
StatusError(status) ==
  CASE status = 429                           -> "rate_limited"
    [] status = 404                           -> "not_found"
    [] status >= 500                          -> "unavailable"
    [] status \in (400..499) \ {404, 429}     -> "invalid"
    [] status < 400                           -> "none"

(* The error code in the body of a response of status "error".             *)
CodeError(code) ==
  CASE code = 429        -> "rate_limited"
    [] code \in {400, 404} -> "not_found"
    [] code >= 500       -> "unavailable"
    [] OTHER             -> "invalid"

(* Mutant: a full response is taken for a complete one.                    *)
TwelveDataUncounted(a, start, end) ==
  CASE a.sent = "timeout"                   -> Raise("timeout")
    [] a.sent = "network"                   -> Raise("unavailable")
    [] a.sent = "response" /\ StatusError(a.http) # "none" -> Raise(StatusError(a.http))
    [] a.sent = "response" /\ StatusError(a.http) = "none" ->
         CASE a.body = "error" -> Raise(CodeError(a.code))
           [] a.body = "ok"    -> Normalize(a.values, start, end)
           [] OTHER            -> Raise("invalid")

(* TwelveDataMarketDataProvider: body is what the JSON says of itself: "ok"*)
(* with a timezone and a list of values, "error" with a code, or anything  *)
(* else.  A list as long as the limit may lack the oldest sessions.        *)
TwelveData(a, start, end) ==
  CASE a.sent = "timeout"                   -> Raise("timeout")
    [] a.sent = "network"                   -> Raise("unavailable")
    [] a.sent = "response" /\ StatusError(a.http) # "none" -> Raise(StatusError(a.http))
    [] a.sent = "response" /\ StatusError(a.http) = "none" ->
         CASE a.body = "error" -> Raise(CodeError(a.code))
           [] a.body = "ok"    -> IF Len(a.values) >= MaxPoints THEN Raise("invalid")
                                  ELSE Normalize(a.values, start, end)
           [] OTHER            -> Raise("invalid")

(* YFinanceMarketDataProvider: raised is the class of the SDK's exception, *)
(* or "none" with a frame; shaped says that the frame has its adjusted     *)
(* close column and an index of timestamps in the exchange's timezone.     *)
YFinance(a, start, end) ==
  CASE a.raised = "missing"  -> Raise("not_found")
    [] a.raised = "limited"  -> Raise("rate_limited")
    [] a.raised = "timeout"  -> Raise("timeout")
    [] a.raised = "http"     -> Raise(IF StatusError(a.http) = "none" THEN "invalid"
                                      ELSE StatusError(a.http))
    [] a.raised = "request"  -> Raise("unavailable")
    [] a.raised = "data"     -> Raise("invalid")
    [] a.raised = "none"     -> CASE a.rows = << >> -> Raise("not_found")
                                  [] a.rows # << >> /\ ~a.shaped -> Raise("invalid")
                                  [] a.rows # << >> /\ a.shaped  -> Normalize(a.rows, start, end)

-----------------------------------------------------------------------------
(* What the providers answer when a symbol's sessions are history, a       *)
(* function from dates to prices, and the provider is in some condition.   *)
Conditions == {"healthy", "unknown", "limited", "down", "slow", "broken"}
Transient == {"limited", "down", "slow"}

(* The rows of some sessions, in whatever order a provider lists them.     *)
Listed(history, order) ==
  [i \in DOMAIN order |-> [date |-> order[i], close |-> history[order[i]]]]
Lists(history, sessions) == {Listed(history, order) : order \in SetToSeqs(sessions)}

(* The sessions asked for, or more than those: bounds are only requested.  *)
Windows(history, start, end) == {DOMAIN history \cap (start..end), DOMAIN history}

(* Rows with one defect: undated, without a close, or listed twice.        *)
Defects(rows) ==
  UNION {{ReplaceAt(rows, i, [rows[i] EXCEPT !.date = Undated]),
          ReplaceAt(rows, i, [rows[i] EXCEPT !.close = 0]),
          Append(rows, rows[i])} : i \in DOMAIN rows}

Newest(sessions) == {d \in sessions : Cardinality({e \in sessions : e > d}) < MaxPoints}

Response(http, body, code, values) ==
  [sent |-> "response", http |-> http, body |-> body, code |-> code, values |-> values]
Status(http) == Response(http, "other", 0, << >>)
ErrorBody(code) == Response(200, "error", code, << >>)
NoResponse(sent) == [Status(0) EXCEPT !.sent = sent]

TwelveDataAnswers(condition, history, start, end) ==
  LET lists == UNION {Lists(history, Newest(w)) : w \in Windows(history, start, end)}
  IN CASE condition = "healthy" -> {Response(200, "ok", 0, l) : l \in lists}
       [] condition = "unknown" -> {Status(404), ErrorBody(404), ErrorBody(400)}
       [] condition = "limited" -> {Status(429), ErrorBody(429)}
       [] condition = "down"    -> {Status(503), ErrorBody(500), NoResponse("network")}
       [] condition = "slow"    -> {NoResponse("timeout")}
       [] condition = "broken"  -> {Status(200), Status(403), ErrorBody(401)} \cup
            {Response(200, "ok", 0, l) : l \in UNION {Defects(m) : m \in lists}}

Frame(shaped, rows) == [raised |-> "none", http |-> 0, shaped |-> shaped, rows |-> rows]
Raised(error, http) == [raised |-> error, http |-> http, shaped |-> FALSE, rows |-> << >>]

YFinanceAnswers(condition, history, start, end) ==
  LET lists == UNION {Lists(history, w) : w \in Windows(history, start, end)}
  IN CASE condition = "healthy" -> {Frame(TRUE, l) : l \in lists}
       [] condition = "unknown" -> {Raised("missing", 0), Raised("http", 404), Frame(TRUE, << >>)}
       [] condition = "limited" -> {Raised("limited", 0), Raised("http", 429)}
       [] condition = "down"    -> {Raised("request", 0), Raised("http", 503)}
       [] condition = "slow"    -> {Raised("timeout", 0)}
       [] condition = "broken"  -> {Raised("data", 0), Raised("http", 403)} \cup
            {Frame(FALSE, l) : l \in lists \ {<< >>}} \cup
            {Frame(TRUE, l) : l \in UNION {Defects(m) : m \in lists}}

(* create_market_data_adapter: one provider for the whole deployment.      *)
Adapters == {"yfinance", "twelve_data"}
Fetched(adapter, condition, history, start, end) ==
  IF adapter = "yfinance"
  THEN {YFinance(a, start, end) : a \in YFinanceAnswers(condition, history, start, end)}
  ELSE {TwelveData(a, start, end) : a \in TwelveDataAnswers(condition, history, start, end)}
=============================================================================
