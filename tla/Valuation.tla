------------------------------ MODULE Valuation ------------------------------
(***************************************************************************)
(* PortfolioAnalyticsService.analyze on an accepted ledger: the series of  *)
(* the required symbols are fetched, build_portfolio_valuation replays the *)
(* ledger over the observed market dates of Start..End, and metrics and    *)
(* the deterministic insight are computed from its points.  Amounts are    *)
(* exact, as Decimals are here; at is the UTC date of occurred_at.         *)
(***************************************************************************)
EXTENDS HoldingsReplay, PriceAdapters, Metrics

CONSTANTS
  Symbols,
  Start, End,     \* the requested interval
  Ledgers,        \* sets of rows [id, kind, sym, qty, price, cash, fees, at, created]
  Markets         \* [Symbols -> [dates -> prices]]: all sessions there are

ASSUME IntervalAssumption == Start \in Nat /\ End \in Nat /\ Start <= End
ASSUME SymbolsAssumption == IsFiniteSet(Symbols)
ASSUME LedgersAssumption == \A ledger \in Ledgers :
  /\ IsFiniteSet(ledger) /\ Replays(ledger)
  /\ \A t, u \in ledger : t.id = u.id => t = u
  /\ \A t \in ledger :
       /\ t.kind \in {"BUY", "SELL", "DEPOSIT", "WITHDRAWAL"}
       /\ t.sym \in Symbols <=> t.kind \in {"BUY", "SELL"}
       /\ {t.id, t.at, t.created, t.qty, t.price, t.cash, t.fees} \subseteq Nat
ASSUME MarketsAssumption == \A m \in Markets : \A s \in Symbols :
  IsFiniteSet(DOMAIN m[s]) /\ \A d \in DOMAIN m[s] : d \in Nat /\ m[s][d] \in Nat \ {0}

VARIABLES
  txs,          \* the ledger that was read
  market,       \* the sessions and prices there are
  weather,      \* what befell the providers' answers: [symbols -> Conditions]
  prices,       \* price_bars_by_symbol, [Symbols -> [dates -> prices]]
  stale,        \* any(result.stale)
  todo,         \* ordered_transactions[transaction_index:]
  dates,        \* the valuation dates not reached
  day,          \* valuation_date
  phase,        \* "fetch", "open", "day" between two dates, "apply" within one,
                \* "done", and "told" with a report
  positions, cash, latest, pending, points,
  outcome,      \* "running", "valued" or the reason of the error raised
  report        \* metrics and insight of a valued portfolio

inputs == <<txs, market, weather, prices, stale>>
valuation == <<inputs, todo, dates, day, phase, positions, cash, latest, pending, points,
          outcome, report>>

NoReport == [return |-> One, drawdown |-> One, unavailable |-> {}]

(* Mutant: the replay begins with the requested interval.                  *)
InitFromStart ==
  /\ txs \in Ledgers /\ market \in Markets
  /\ weather = << >> /\ prices = [s \in Symbols |-> << >>] /\ stale = FALSE
  /\ todo = {t \in txs : t.at \in Start..End}
  /\ dates = {} /\ day = Start /\ phase = "fetch" /\ report = NoReport
  /\ positions = [s \in Symbols |-> 0] /\ cash = 0
  /\ latest = << >> /\ pending = 0 /\ points = << >> /\ outcome = "running"

ValuationInit ==
  /\ txs \in Ledgers /\ market \in Markets
  /\ weather = << >> /\ prices = [s \in Symbols |-> << >>] /\ stale = FALSE
  /\ todo = {t \in txs : t.at <= End}
  /\ dates = {} /\ day = Start /\ phase = "fetch" /\ report = NoReport
  /\ positions = [s \in Symbols |-> 0] /\ cash = 0
  /\ latest = << >> /\ pending = 0 /\ points = << >> /\ outcome = "running"

(* required_price_symbols: held when the interval starts or traded in it.  *)
Required ==
  {s \in Symbols : \/ Quantity({t \in txs : t.at < Start}, s) # 0
                   \/ \E t \in txs : t.sym = s /\ t.at \in Start..End}

Stop(reason) == phase' = "done" /\ outcome' = reason

(* What get_price_bars may return or raise for a symbol with some history: *)
(* the adapter's result, or after transient failures the retained copy of  *)
(* an earlier one.  A defect that leaves the response usable is none.      *)
Answers(adapter, history) ==
  LET live == UNION {{[at |-> IF r.error = "none" THEN "healthy" ELSE c, stale |-> FALSE,
                       error |-> r.error, bars |-> r.bars] :
                        r \in Fetched(adapter, c, history, Start, End)} : c \in Conditions}
      kept == {[at |-> c, stale |-> TRUE, error |-> "none", bars |-> b] : c \in Transient,
                 b \in {r.bars : r \in {x \in live : x.error = "none"}}}
  IN  live \cup kept

(* All of them, which TLC evaluates once, and those for a symbol.          *)
Results == {[adapter |-> adapter, history |-> m[s], answers |-> Answers(adapter, m[s])] :
              adapter \in Adapters, m \in Markets, s \in Symbols}
Got(adapter, s) ==
  UNION {r.answers : r \in {x \in Results : x.adapter = adapter /\ x.history = market[s]}}

(* required_price_symbols and the gather over the symbols: the first error *)
(* in time, which may be any, is the error of the request.                 *)
Fetch ==
  /\ phase = "fetch" /\ Required # {}
  /\ \E adapter \in Adapters :
       \E got \in [Required -> UNION {Got(adapter, s) : s \in Required}] :
         /\ \A s \in Required : got[s] \in Got(adapter, s)
         /\ weather' = [s \in Required |-> got[s].at]
         /\ \/ /\ \A s \in Required : got[s].error = "none"
               /\ prices' = [s \in Symbols |-> IF s \in Required THEN got[s].bars ELSE << >>]
               /\ stale' = \E s \in Required : got[s].stale
               /\ phase' = "open" /\ outcome' = outcome
            \/ /\ \E s \in Required : got[s].error # "none" /\ Stop(got[s].error)
               /\ UNCHANGED <<prices, stale>>
  /\ UNCHANGED <<txs, market, todo, dates, day, positions, cash, latest, pending, points, report>>

NothingHeld ==
  /\ phase = "fetch" /\ Required = {}
  /\ Stop("no holdings")
  /\ UNCHANGED <<inputs, todo, dates, day, positions, cash, latest, pending, points, report>>

(* _validated_prices, and the union of the observed dates.                 *)
Open ==
  /\ phase = "open"
  /\ IF \E s \in Required : DOMAIN prices[s] = {}
     THEN Stop("no prices") /\ dates' = dates
     ELSE /\ phase' = "day" /\ outcome' = outcome
          /\ dates' = UNION {DOMAIN prices[s] : s \in Required}
  /\ UNCHANGED <<inputs, todo, day, positions, cash, latest, pending, points, report>>

Observed(d) == {s \in Required : d \in DOMAIN prices[s]}

(* Mutant: a series that starts late is filled backwards.                  *)
NextDayBackfilled ==
  /\ phase = "day" /\ dates # {}
  /\ day' = Min(dates) /\ dates' = dates \ {day'}
  /\ latest' = [s \in Required |->
                  IF s \in Observed(day') THEN prices[s][day']
                  ELSE IF s \in DOMAIN latest THEN latest[s] ELSE prices[s][Min(DOMAIN prices[s])]]
  /\ phase' = "apply"
  /\ UNCHANGED <<inputs, todo, positions, cash, pending, points, outcome, report>>

(* The next valuation date and the prices observed on it.                  *)
NextDay ==
  /\ phase = "day" /\ dates # {}
  /\ day' = Min(dates) /\ dates' = dates \ {day'}
  /\ latest' = [s \in DOMAIN latest \cup Observed(day') |->
                  IF s \in Observed(day') THEN prices[s][day'] ELSE latest[s]]
  /\ phase' = "apply"
  /\ UNCHANGED <<inputs, todo, positions, cash, pending, points, outcome, report>>

IsNext(t) == t \in todo /\ t.at <= day /\ \A u \in todo \ {t} : LedgerOrder(t, u)

(* _apply_transaction returns: a flow in or out, the row's change to cash. *)
Book(t, flow, change) ==
  /\ cash' = cash + change
  /\ pending' = pending + flow
  /\ positions' = [s \in Symbols |-> positions[s] + (IF s = t.sym THEN SignedQuantity(t) ELSE 0)]
  /\ todo' = todo \ {t}
  /\ UNCHANGED <<inputs, dates, day, phase, latest, points, outcome, report>>

Refuse(reason) ==
  /\ Stop(reason)
  /\ UNCHANGED <<inputs, todo, dates, day, positions, cash, latest, pending, points, report>>

Deposit(t) ==
  /\ t.kind = "DEPOSIT"
  /\ IF cash + t.cash < t.fees
     THEN Refuse("overdrawn")
     ELSE Book(t, t.cash, t.cash - t.fees)

(* Mutant: a withdrawal may overdraw the account.                          *)
WithdrawOnMargin(t) ==
  t.kind = "WITHDRAWAL" /\ Book(t, -t.cash, -(t.cash + t.fees))

Withdraw(t) ==
  /\ t.kind = "WITHDRAWAL"
  /\ IF t.cash + t.fees > cash
     THEN Refuse("overdrawn")
     ELSE Book(t, -t.cash, -(t.cash + t.fees))

(* The unfunded part of a BUY is an implicit contribution.                 *)
Contribution(cost) == IF cost > cash THEN cost - cash ELSE 0

(* Mutant: the implicit contribution is not counted as an external flow.   *)
BuyAsPerformance(t) ==
  LET cost == t.qty * t.price + t.fees IN
  t.kind = "BUY" /\ Book(t, 0, Contribution(cost) - cost)

Buy(t) ==
  LET cost == t.qty * t.price + t.fees IN
  /\ t.kind = "BUY"
  /\ Book(t, Contribution(cost), Contribution(cost) - cost)

Sell(t) ==
  /\ t.kind = "SELL"
  /\ \/ positions[t.sym] < t.qty /\ Refuse("oversold")
     \/ /\ positions[t.sym] >= t.qty
        /\ IF cash + t.qty * t.price < t.fees
           THEN Refuse("overdrawn")
           ELSE Book(t, 0, t.qty * t.price - t.fees)

Apply == phase = "apply" /\ \E t \in todo :
  IsNext(t) /\ (Deposit(t) \/ Withdraw(t) \/ Buy(t) \/ Sell(t))

Active == {s \in Symbols : positions[s] # 0}
MarketValue(s) == positions[s] * latest[s]
Total == cash + SumFunction([s \in Active |-> MarketValue(s)])
Valuatable == Active \subseteq DOMAIN latest /\ Total > 0

(* Mutant: a date without a point drops its flows.                         *)
ValueOrForget ==
  /\ phase = "apply" /\ \A t \in todo : t.at > day
  /\ pending' = 0
  /\ points' = IF Valuatable
               THEN Append(points, [day |-> day, total |-> Total, cash |-> cash,
                                    flow |-> pending])
               ELSE points
  /\ phase' = "day"
  /\ UNCHANGED <<inputs, todo, dates, day, positions, cash, latest, outcome, report>>

(* The end of a date: a point, or none, and then its flows are carried on. *)
Value ==
  /\ phase = "apply" /\ \A t \in todo : t.at > day
  /\ IF Valuatable
     THEN /\ points' = Append(points, [day |-> day, total |-> Total, cash |-> cash,
                                       flow |-> pending])
          /\ pending' = 0
     ELSE UNCHANGED <<points, pending>>
  /\ phase' = "day"
  /\ UNCHANGED <<inputs, todo, dates, day, positions, cash, latest, outcome, report>>

(* _cash_flow_adjusted_returns: the value without the flows of its period. *)
Adjusted(i) == points[i].total - points[i].flow

(* The last checks; on "valued" the result is the last point, with the     *)
(* weights of what is held when the loop has ended.                        *)
Finish ==
  /\ phase = "day" /\ dates = {}
  /\ CASE points = << >> -> Stop("no balance")
       [] points # << >> /\ ~(Active \subseteq DOMAIN latest) -> Stop("missing price")
       [] OTHER -> Stop(IF \A i \in 2..Len(points) : Adjusted(i) > 0
                        THEN "valued" ELSE "no return")
  /\ UNCHANGED <<inputs, todo, dates, day, positions, cash, latest, pending, points, report>>

(* The growth of each period, from the points.                             *)
Growth == [i \in 1..(Len(points) - 1) |-> Fraction(Adjusted(i + 1), points[i].total)]

(* The rest of analyze, and generate_deterministic_insight of its result.  *)
Report ==
  /\ phase = "done" /\ outcome = "valued"
  /\ report' = [return      |-> Compounded(Growth),
                drawdown    |-> Drawdown(Growth),
                unavailable |-> Limitations(Missing(Growth), stale)]
  /\ phase' = "told"
  /\ UNCHANGED <<inputs, todo, dates, day, positions, cash, latest, pending, points, outcome>>

ValuationNext == Fetch \/ NothingHeld \/ Open \/ NextDay \/ Apply \/ Value \/ Finish \/ Report

ValuationSpec == ValuationInit /\ [][ValuationNext]_valuation

-----------------------------------------------------------------------------
(* The rows the loop has applied.                                          *)
Applied == {t \in txs : t.at <= End} \ todo

(* Type invariant of the loop's locals: no position or cash balance is ever*)
(* negative, and a point has a positive value.                             *)
ValuationTypeOK ==
  /\ txs \in Ledgers /\ market \in Markets /\ todo \subseteq txs
  /\ DOMAIN weather \subseteq Symbols /\ weather \in [DOMAIN weather -> Conditions]
  /\ \A s \in Symbols : DOMAIN prices[s] \subseteq Start..End
  /\ dates \subseteq Start..End /\ day \in Start..End /\ stale \in BOOLEAN
  /\ phase \in {"fetch", "open", "day", "apply", "done", "told"}
  /\ positions \in [Symbols -> Nat] /\ cash \in Nat /\ pending \in Int
  /\ latest \in [DOMAIN latest -> Nat \ {0}] /\ DOMAIN latest \subseteq Symbols
  /\ points \in Seq([day : Start..End, total : Nat \ {0}, cash : Nat, flow : Int])
  /\ outcome \in {"running", "valued", "no holdings", "no prices", "overdrawn",
                  "oversold", "no balance", "missing price", "no return",
                  "rate_limited", "not_found", "unavailable", "timeout", "invalid"}
  /\ report.unavailable \subseteq {"metric unavailable", "stale data"}

(* The loop of derive_positions raises exactly on the ledgers Replays      *)
(* refuses and returns exactly DerivePositions, for the ledger and for     *)
(* every part of it: the write path and the import may use the operators.  *)
LoopAgrees == phase = "fetch" => \A part \in SUBSET txs :
  /\ Raises(part) <=> ~Replays(part)
  /\ ~Raises(part) => Returned(part) = DerivePositions(part)

(* The errors that would make analytics contradict the ledger it accepted  *)
(* or the prices the adapters returned are unreachable: no SELL is refused *)
(* here that create accepted, and no symbol held is left without a price.  *)
AgreesWithLedger == outcome \notin {"oversold", "missing price", "no prices"}

(* No analysis runs on part of a history: whatever a provider returned, a  *)
(* truncated list, rows out of the interval, a row it spoilt, a failure    *)
(* met by a retained copy, the series that is valued is the market's in    *)
(* the whole interval; and an error names what befell one of the symbols.  *)
MarketDataHonest ==
  /\ phase \in {"open", "day", "apply"} => \A s \in Required :
       prices[s] = [d \in DOMAIN market[s] \cap (Start..End) |-> market[s][d]]
  /\ outcome = "not_found" => \E s \in Required :
       weather[s] = "unknown" \/ DOMAIN market[s] \cap (Start..End) = {}
  /\ outcome = "invalid" => \E s \in Required :
       weather[s] = "broken" \/ Cardinality(DOMAIN market[s]) >= MaxPoints
  /\ outcome = "rate_limited" => \E s \in Required : weather[s] = "limited"
  /\ outcome = "unavailable" => \E s \in Required : weather[s] = "down"
  /\ outcome = "timeout" => \E s \in Required : weather[s] = "slow"

(* Every point is the value of what the ledger holds at the end of its     *)
(* day, at the last prices observed by then: nothing in it comes from a    *)
(* later trade or a later price, and no gap in a series loses a holding.   *)
NoLookAhead == \A i \in DOMAIN points :
  LET d        == points[i].day
      held(s)  == Quantity({t \in txs : t.at <= d}, s)
      seen(s)  == {e \in DOMAIN prices[s] : e <= d}
      worth(s) == IF held(s) = 0 THEN 0 ELSE held(s) * prices[s][Max(seen(s))]
  IN /\ \A s \in Symbols : held(s) # 0 => seen(s) # {}
     /\ points[i].total = points[i].cash + SumFunction([s \in Symbols |-> worth(s)])

(* Cash appears and disappears only by trades, fees and the external flows *)
(* the points report, so a date that is skipped loses none of them.        *)
FlowsBalance ==
  LET trade(t) == CASE t.kind = "BUY"  -> -(t.qty * t.price)
                    [] t.kind = "SELL" -> t.qty * t.price
                    [] OTHER           -> 0
  IN cash = SumFunction([i \in DOMAIN points |-> points[i].flow]) + pending
              + SumFunction([t \in Applied |-> trade(t)])
              - SumFunction([t \in Applied |-> t.fees])

(* Cash flows are no performance: if no price moves, trades are made at    *)
(* that price and nothing is charged, then every period return is zero,    *)
(* through implicit contributions, withdrawals and dates without a point.  *)
FlatMarket ==
  /\ \A s \in Symbols : \A d, e \in DOMAIN prices[s] : prices[s][d] = prices[s][e]
  /\ \A t \in txs : t.fees = 0 /\
       (t.kind \in {"BUY", "SELL"} => \A d \in DOMAIN prices[t.sym] : prices[t.sym][d] = t.price)
FlowsAreNotPerformance ==
  FlatMarket => \A i \in 2..Len(points) : Adjusted(i) = points[i - 1].total

(* The drawdown that is reported is the worst decline between any two      *)
(* moments, the beginning included, and without external flows the return  *)
(* is the change of the portfolio's value over the range.                  *)
MetricsAgree == phase = "told" =>
  LET w == Wealth(Growth)
  IN /\ \E i, j \in DOMAIN w : i <= j /\ Same(report.drawdown, Over(w[j], w[i]))
     /\ \A i, j \in DOMAIN w : i <= j => ~Less(Over(w[j], w[i]), report.drawdown)
     /\ (\A i \in 2..Len(points) : points[i].flow = 0) =>
          Same(report.return, Fraction(points[Len(points)].total, points[1].total))

(* The insight says what it could not know: a limitation for a history of  *)
(* fewer than two returns or of equal ones, and for prices that come from a*)
(* retained copy.                                                          *)
InsightDiscloses == phase = "told" =>
  /\ "metric unavailable" \in report.unavailable <=>
       Len(Growth) < 2 \/ \A i, j \in DOMAIN Growth : Same(Growth[i], Growth[j])
  /\ "stale data" \in report.unavailable <=> \E s \in Required : weather[s] \in Transient

(* decisions.md: "ignore transactions after the result `as_of` date": what *)
(* is reported with the last point, asset values and cash, adds up to its  *)
(* value.                                                                  *)
ResultIsAsOf == outcome = "valued" =>
  points[Len(points)].total =
    points[Len(points)].cash + SumFunction([s \in Active |-> MarketValue(s)])
=============================================================================
