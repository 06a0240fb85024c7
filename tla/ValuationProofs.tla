--------------------------- MODULE ValuationProofs ---------------------------
(***************************************************************************)
(* Proofs about an analysis and about the insight told of it.              *)
(*                                                                         *)
(* Valuation, for any ledgers and histories, either provider and any       *)
(* interval: from the providers' answers through the loop over dates and   *)
(* rows to the points, one invariant says that the loop has replayed       *)
(* exactly the rows up to its day and knows exactly the prices up to it; a *)
(* second one says what the report is made of.                             *)
(*                                                                         *)
(* InsightService, for any requests and inputs: what a model wrote only    *)
(* leaves the service validated, and nothing leaves it that is not on      *)
(* record.  The second is a matter of counting: between the commit of a    *)
(* snapshot and the response a request owns one snapshot nobody has        *)
(* received.  The two specifications share no state.                       *)
(***************************************************************************)
EXTENDS OperatorProofs, InsightService

-----------------------------------------------------------------------------
(* The inductive invariant of the valuation loop.                          *)

(* The series that was asked for, of every required symbol.                *)
Series == [s \in Symbols |-> IF s \in Required THEN Within(market[s], Start, End) ELSE << >>]
Supplied == /\ prices = Series
           /\ \A s \in Required : DOMAIN market[s] \cap (Start..End) # {}
Unsupplied == prices = [s \in Symbols |-> << >>] /\ points = << >>

(* The locals before the loop.                                             *)
InRange == {t \in txs : t.at <= End}
Fresh ==
  /\ day = Start /\ dates = {} /\ todo = InRange
  /\ positions = [s \in Symbols |-> 0] /\ cash = 0
  /\ latest = << >> /\ pending = 0 /\ points = << >>

PhaseInv ==
  /\ phase = "fetch" => Fresh /\ Unsupplied /\ outcome = "running"
  /\ phase = "open" => Fresh /\ Supplied
  /\ phase \in {"day", "apply"} => Supplied
  /\ Supplied \/ Unsupplied

(* The sessions that were observed are those until the day.                *)
Sessions == UNION {DOMAIN prices[s] : s \in Required}
Seen(s) == DOMAIN prices[s] \ dates
InLoop == phase \in {"day", "apply"}

CalendarInv == InLoop =>
  /\ dates \subseteq Sessions
  /\ \A d \in Sessions \ dates : d <= day
  /\ \A d \in dates : day <= d
  /\ (phase = "apply" \/ dates # Sessions) => \A d \in dates : day < d
  /\ phase = "apply" => day \in Sessions

LatestInv == InLoop =>
  /\ DOMAIN latest = {s \in Required : Seen(s) # {}}
  /\ \A s \in DOMAIN latest : latest[s] = prices[s][Max(Seen(s))]

(* The rows that were applied are the first in the order of the ledger.    *)
TodoInv ==
  /\ todo \subseteq InRange
  /\ \A t \in Applied : t.at <= day
  /\ \A t \in Applied : \A u \in todo : LedgerOrder(t, u)
  /\ (phase = "day" /\ dates # Sessions) => \A t \in todo : t.at > day
  /\ points # << >> => \A t \in todo : t.at > points[Len(points)].day

PositionsInv == \A s \in Symbols : positions[s] = Quantity(Applied, s)

(* In a flat market, what is held at the one price there is.               *)
Flat(s) == IF s \in Required /\ DOMAIN prices[s] # {}
           THEN prices[s][Max(DOMAIN prices[s])] ELSE 0
FlatInv == FlatMarket /\ points # << >> =>
  cash + SumFunction([s \in Symbols |-> positions[s] * Flat(s)]) =
    points[Len(points)].total + pending

ValuationInv ==
  /\ ValuationTypeOK /\ AgreesWithLedger /\ MarketDataHonest
  /\ NoLookAhead /\ FlowsBalance /\ FlowsAreNotPerformance
  /\ PhaseInv /\ CalendarInv /\ LatestInv /\ TodoInv /\ PositionsInv /\ FlatInv

(* The sum of nothing.                                                     *)
LEMMA EmptySum == \A fun : DOMAIN fun = {} => SumFunction(fun) = 0
BY FS_EmptySet, SumFirst DEF SumFunction

(* What a step that leaves the loop's locals alone preserves.              *)
locals == <<txs, market, prices, todo, positions, cash, pending, points>>

(* None of the invariant's statements about the loop changes with them.    *)
LEMMA LocalsUnchanged ==
  ASSUME UNCHANGED locals
  PROVE  /\ NoLookAhead' = NoLookAhead /\ FlowsBalance' = FlowsBalance
         /\ FlowsAreNotPerformance' = FlowsAreNotPerformance
         /\ PositionsInv' = PositionsInv /\ FlatInv' = FlatInv
         /\ Required' = Required /\ Supplied' = Supplied /\ Unsupplied' = Unsupplied
         /\ Sessions' = Sessions /\ InRange' = InRange /\ Applied' = Applied
<1>1. Required' = Required
  BY DEF locals, Required
<1>2. Supplied' = Supplied /\ Unsupplied' = Unsupplied
  BY <1>1 DEF locals, Supplied, Unsupplied, Series
<1>3. Sessions' = Sessions /\ InRange' = InRange /\ Applied' = Applied
  BY <1>1 DEF locals, Sessions, InRange, Applied
<1>4. NoLookAhead' = NoLookAhead
  BY DEF locals, NoLookAhead
<1>5. FlowsBalance' = FlowsBalance
  BY <1>3 DEF locals, FlowsBalance
<1>6. FlowsAreNotPerformance' = FlowsAreNotPerformance
  BY DEF locals, FlowsAreNotPerformance, FlatMarket, Adjusted
<1>7. PositionsInv' = PositionsInv
  BY <1>3 DEF locals, PositionsInv
<1>8. FlatInv' = FlatInv
  BY <1>1 DEF locals, FlatInv, FlatMarket, Flat
<1> QED
  BY <1>1, <1>2, <1>3, <1>4, <1>5, <1>6, <1>7, <1>8

(* The series of a required symbol.                                        *)
LEMMA SeriesFacts ==
  ASSUME market \in Markets, Supplied, NEW s \in Symbols
  PROVE  /\ s \in Required => /\ prices[s] = Within(market[s], Start, End)
                              /\ DOMAIN prices[s] = DOMAIN market[s] \cap (Start..End)
                              /\ DOMAIN prices[s] # {}
         /\ DOMAIN prices[s] # {} => s \in Required
         /\ DOMAIN prices[s] \in SUBSET (Start..End)
         /\ \A d \in DOMAIN prices[s] : d \in Nat /\ prices[s][d] \in Nat \ {0}
<1>1. \A d \in DOMAIN market[s] : d \in Nat /\ market[s][d] \in Nat \ {0}
  BY MarketsAssumption
<1>2. CASE s \in Required
  <2>1. prices[s] = Within(market[s], Start, End) /\ DOMAIN market[s] \cap (Start..End) # {}
    BY <1>2 DEF Supplied, Series
  <2> QED
    BY <1>1, <1>2, <2>1 DEF Within
<1>3. CASE s \notin Required
  <2>1. prices[s] = << >>
    BY <1>3 DEF Supplied, Series
  <2> QED
    BY <1>3, <2>1
<1> QED
  BY <1>2, <1>3

(* The sessions lie in the interval.                                       *)
LEMMA SessionsFacts ==
  ASSUME market \in Markets, Supplied
  PROVE  /\ Sessions \in SUBSET (Start..End) /\ Sessions \in SUBSET Nat
         /\ \A s \in Required : s \in Symbols /\ DOMAIN prices[s] \subseteq Sessions
<1>1. \A s \in Required : s \in Symbols
  BY DEF Required
<1>2. \A s \in Required : DOMAIN prices[s] \in SUBSET (Start..End)
  BY <1>1, SeriesFacts
<1> QED
  BY <1>1, <1>2, IntervalAssumption DEF Sessions

(* The invariant holds when the ledger has been read.                      *)
THEOREM ValuationInitInv == ValuationInit => ValuationInv
<1> SUFFICES ASSUME ValuationInit PROVE ValuationInv
  OBVIOUS
<1> USE DEF ValuationInit
<1>1. Applied = {} /\ Fresh /\ Unsupplied
  BY DEF Applied, Fresh, Unsupplied, InRange
<1>2. ValuationTypeOK
  <2>1. points \in Seq([day : Start..End, total : Nat \ {0}, cash : Nat, flow : Int])
    BY EmptySeq
  <2>2. Start \in Start..End /\ \A s \in Symbols : DOMAIN prices[s] = {}
    BY IntervalAssumption
  <2>3. /\ weather \in [DOMAIN weather -> Conditions] /\ DOMAIN weather \subseteq Symbols
        /\ latest \in [DOMAIN latest -> Nat \ {0}] /\ DOMAIN latest \subseteq Symbols
    OBVIOUS
  <2>4. positions \in [Symbols -> Nat] /\ cash \in Nat /\ pending \in Int
    OBVIOUS
  <2>5. report.unavailable = {}
    BY DEF NoReport
  <2> QED
    BY <2>1, <2>2, <2>3, <2>4, <2>5 DEF ValuationTypeOK
<1>3. AgreesWithLedger /\ MarketDataHonest
  BY DEF AgreesWithLedger, MarketDataHonest
<1>4. NoLookAhead /\ FlowsAreNotPerformance /\ FlatInv
  BY DEF NoLookAhead, FlowsAreNotPerformance, FlatInv
<1>5. FlowsBalance
  <2>1. \A fun : DOMAIN fun = {} => SumFunction(fun) = 0
    BY EmptySum
  <2>2. DOMAIN points = {}
    OBVIOUS
  <2> QED
    BY <1>1, <2>1, <2>2 DEF FlowsBalance
<1>6. PhaseInv /\ CalendarInv /\ LatestInv /\ TodoInv
  BY <1>1 DEF PhaseInv, CalendarInv, LatestInv, TodoInv, InLoop, InRange, Fresh
<1>7. PositionsInv
  <2>1. \A s \in Symbols : Quantity({}, s) = 0
    BY QuantityFacts
  <2> QED
    BY <1>1, <2>1 DEF PositionsInv
<1> QED
  BY <1>2, <1>3, <1>4, <1>5, <1>6, <1>7 DEF ValuationInv

-----------------------------------------------------------------------------
(* Every step preserves it.                                                *)

(* An answer for a symbol is one for its history.                          *)
LEMMA GotFacts ==
  ASSUME market \in Markets, NEW adapter \in Adapters, NEW s \in Symbols,
         NEW r \in Got(adapter, s)
  PROVE  /\ Explained(r, r.at, market[s], Start, End) /\ r.at \in Conditions
         /\ r.stale \in BOOLEAN
         /\ r.error = "none" => (r.stale <=> r.at \in Transient)
<1>1. r \in Answers(adapter, market[s])
  BY DEF Got, Results
<1>2. IsHistory(market[s])
  BY MarketsAssumption DEF IsHistory
<1> QED
  BY <1>1, <1>2, AnswerFacts

(* The series lie in the interval.                                         *)
LEMMA SuppliedRange ==
  market \in Markets /\ Supplied =>
    \A s \in Symbols : DOMAIN prices[s] \in SUBSET (Start..End)
BY SeriesFacts

(* Before the loop nothing has happened yet.                               *)
LEMMA FreshHolds ==
  Fresh /\ ~InLoop /\ txs \in Ledgers =>
    /\ Applied = {} /\ NoLookAhead /\ FlowsBalance /\ FlowsAreNotPerformance
    /\ CalendarInv /\ LatestInv /\ TodoInv /\ PositionsInv /\ FlatInv
<1> SUFFICES ASSUME Fresh, ~InLoop, txs \in Ledgers
             PROVE  /\ Applied = {} /\ NoLookAhead /\ FlowsBalance /\ FlowsAreNotPerformance
                    /\ CalendarInv /\ LatestInv /\ TodoInv /\ PositionsInv /\ FlatInv
  OBVIOUS
<1>1. Applied = {} /\ points = << >> /\ DOMAIN points = {}
  BY DEF Applied, Fresh, InRange
<1>2. NoLookAhead /\ FlowsAreNotPerformance /\ FlatInv
  BY <1>1 DEF NoLookAhead, FlowsAreNotPerformance, FlatInv
<1>3. FlowsBalance
  <2>1. \A fun : DOMAIN fun = {} => SumFunction(fun) = 0
    BY EmptySum
  <2>2. cash = 0 /\ pending = 0
    BY DEF Fresh
  <2> QED
    BY <1>1, <2>1, <2>2 DEF FlowsBalance
<1>4. CalendarInv /\ LatestInv /\ TodoInv
  BY <1>1 DEF CalendarInv, LatestInv, TodoInv, InLoop, InRange, Fresh
<1>5. PositionsInv
  <2>1. \A s \in Symbols : Quantity({}, s) = 0
    BY QuantityFacts
  <2> QED
    BY <1>1, <2>1 DEF PositionsInv, Fresh
<1> QED
  BY <1>1, <1>2, <1>3, <1>4, <1>5

(* The gather over the symbols: all series, or one symbol's error.         *)
LEMMA FetchStep == ASSUME ValuationInv, Fetch PROVE ValuationInv'
<1>1. Fresh /\ Unsupplied /\ outcome = "running" /\ market \in Markets
  BY DEF ValuationInv, PhaseInv, Fetch, ValuationTypeOK
<1>2. /\ Required' = Required /\ Applied' = Applied /\ InRange' = InRange
      /\ \A s \in Required : s \in Symbols
  BY DEF Fetch, Required, Applied, InRange
<1>3. PICK adapter \in Adapters : \E got \in [Required -> UNION {Got(adapter, s) : s \in Required}] :
         /\ \A s \in Required : got[s] \in Got(adapter, s)
         /\ weather' = [s \in Required |-> got[s].at]
         /\ \/ /\ \A s \in Required : got[s].error = "none"
               /\ prices' = [s \in Symbols |-> IF s \in Required THEN got[s].bars ELSE << >>]
               /\ stale' = \E s \in Required : got[s].stale
               /\ phase' = "open" /\ outcome' = outcome
            \/ /\ \E s \in Required : got[s].error # "none" /\ Stop(got[s].error)
               /\ UNCHANGED <<prices, stale>>
  BY DEF Fetch
<1>4. PICK got \in [Required -> UNION {Got(adapter, s) : s \in Required}] :
         /\ \A s \in Required : got[s] \in Got(adapter, s)
         /\ weather' = [s \in Required |-> got[s].at]
         /\ \/ /\ \A s \in Required : got[s].error = "none"
               /\ prices' = [s \in Symbols |-> IF s \in Required THEN got[s].bars ELSE << >>]
               /\ stale' = \E s \in Required : got[s].stale
               /\ phase' = "open" /\ outcome' = outcome
            \/ /\ \E s \in Required : got[s].error # "none" /\ Stop(got[s].error)
               /\ UNCHANGED <<prices, stale>>
  BY <1>3
<1>5. \A s \in Required :
        /\ Explained(got[s], got[s].at, market[s], Start, End) /\ got[s].at \in Conditions
        /\ got[s].stale \in BOOLEAN
  BY <1>1, <1>2, <1>4, GotFacts
<1>6. weather' = [s \in Required |-> got[s].at]
  BY <1>4
<1>7. UNCHANGED <<txs, market, todo, dates, day, positions, cash, latest, pending, points, report>>
  BY DEF Fetch
<1>10. Fresh' /\ txs' \in Ledgers
  BY <1>1, <1>2, <1>7 DEF Fresh, ValuationInv, ValuationTypeOK
<1>11. (market \in Markets /\ Supplied =>
          \A s \in Symbols : DOMAIN prices[s] \in SUBSET (Start..End))'
  BY SuppliedRange, PTL
<1>12. /\ weather' \in [DOMAIN weather' -> Conditions] /\ DOMAIN weather' \subseteq Symbols
       /\ ValuationTypeOK
  BY <1>2, <1>5, <1>6 DEF ValuationInv
<1>13. (Fresh /\ ~InLoop /\ txs \in Ledgers =>
    /\ Applied = {} /\ NoLookAhead /\ FlowsBalance /\ FlowsAreNotPerformance
    /\ CalendarInv /\ LatestInv /\ TodoInv /\ PositionsInv /\ FlatInv)'
  BY FreshHolds, PTL
<1>8. CASE /\ \A s \in Required : got[s].error = "none"
           /\ prices' = [s \in Symbols |-> IF s \in Required THEN got[s].bars ELSE << >>]
           /\ stale' = \E s \in Required : got[s].stale
           /\ phase' = "open" /\ outcome' = outcome
  <2>1. \A s \in Required : /\ got[s].bars = Within(market[s], Start, End)
                            /\ DOMAIN market[s] \cap (Start..End) # {}
    BY <1>5, <1>8 DEF Explained
  <2>2. prices' = Series /\ Series' = Series
    BY <1>2, <1>7, <1>8, <2>1 DEF Series
  <2>3. Supplied'
    BY <1>2, <1>7, <2>1, <2>2 DEF Supplied
  <2>4. PhaseInv' /\ ~InLoop'
    BY <1>1, <1>7, <1>8, <2>3, <1>10 DEF PhaseInv, InLoop
  <2>5. MarketDataHonest'
    <3>1. \A s \in Required : prices'[s] = Within(market[s], Start, End)
      BY <1>2, <1>8, <2>1
    <3> QED
      BY <1>1, <1>2, <1>7, <1>8, <3>1 DEF MarketDataHonest, Within
  <2>6. ValuationTypeOK'
    <3>1. stale' \in BOOLEAN
      BY <1>8
    <3>2. \A s \in Symbols : DOMAIN prices'[s] \subseteq Start..End
      BY <1>1, <1>7, <2>3, <1>11
    <3> QED
      BY <1>1, <1>7, <1>8, <1>12, <3>1, <3>2 DEF ValuationTypeOK
  <2>7. AgreesWithLedger'
    BY <1>1, <1>8 DEF AgreesWithLedger
  <2> QED
    BY <2>4, <2>5, <2>6, <2>7, <1>10, <1>13 DEF ValuationInv
<1>9. CASE /\ \E s \in Required : got[s].error # "none" /\ Stop(got[s].error)
           /\ UNCHANGED <<prices, stale>>
  <2>1. PICK s \in Required : got[s].error # "none" /\ Stop(got[s].error)
    BY <1>9
  <2>2. phase' = "done" /\ outcome' = got[s].error /\ UNCHANGED <<prices, stale>>
    BY <1>9, <2>1 DEF Stop
  <2>3. /\ Explained(got[s], got[s].at, market[s], Start, End) /\ weather'[s] = got[s].at
        /\ s \in Required'
    BY <1>2, <1>5, <1>6
  <2>4. outcome' \in Errors
    BY <2>1, <2>2, <2>3 DEF Explained
  <2>5. PhaseInv' /\ ~InLoop'
    <3>1. Unsupplied'
      BY <1>1, <1>7, <2>2 DEF Unsupplied
    <3> QED
      BY <2>2, <3>1 DEF PhaseInv, InLoop
  <2>6. MarketDataHonest'
    BY <1>7, <2>1, <2>2, <2>3 DEF MarketDataHonest, Explained
  <2>7. ValuationTypeOK'
    BY <1>1, <1>7, <1>12, <2>2, <2>4 DEF ValuationTypeOK, Errors
  <2>8. AgreesWithLedger'
    BY <2>4 DEF AgreesWithLedger, Errors
  <2> QED
    BY <2>5, <2>6, <2>7, <2>8, <1>10, <1>13 DEF ValuationInv
<1> QED
  BY <1>4, <1>8, <1>9

(* What ends a valuation, the providers aside, and what an insight lacks.  *)
Lacking == {"metric unavailable", "stale data"}
Reasons == {"valued", "no holdings", "overdrawn", "no balance", "no return"}

(* A step that ends the valuation for a reason other than the providers'.  *)
LEMMA StopStep ==
  ASSUME ValuationInv,
         UNCHANGED <<inputs, todo, dates, day, positions, cash, latest, pending, points>>,
         phase' \in {"done", "told"}, report'.unavailable \subseteq Lacking,
         outcome' = outcome \/ outcome' \in Reasons
  PROVE  ValuationInv'
<1>1. UNCHANGED locals /\ UNCHANGED <<weather, stale, dates, day, latest>>
  BY DEF locals, inputs
<1>2. /\ NoLookAhead' = NoLookAhead /\ FlowsBalance' = FlowsBalance
      /\ FlowsAreNotPerformance' = FlowsAreNotPerformance
      /\ PositionsInv' = PositionsInv /\ FlatInv' = FlatInv
      /\ Required' = Required /\ Supplied' = Supplied /\ Unsupplied' = Unsupplied
      /\ InRange' = InRange /\ Applied' = Applied
  BY <1>1, LocalsUnchanged
<1>3. ~InLoop' /\ CalendarInv' /\ LatestInv'
  BY DEF InLoop, CalendarInv, LatestInv
<1>4. PhaseInv'
  BY <1>2 DEF ValuationInv, PhaseInv
<1>5. TodoInv'
  BY <1>1, <1>2 DEF ValuationInv, TodoInv, locals
<1>6. ValuationTypeOK'
  BY <1>1 DEF ValuationInv, ValuationTypeOK, locals, Lacking, Reasons
<1>7. AgreesWithLedger'
  BY DEF ValuationInv, AgreesWithLedger, Reasons
<1>8. MarketDataHonest'
  <2>1. phase' \notin {"open", "day", "apply"}
    OBVIOUS
  <2>2. UNCHANGED <<weather, market>>
    BY <1>1 DEF locals
  <2> QED
    BY <1>2, <2>1, <2>2 DEF ValuationInv, MarketDataHonest, Reasons
<1> QED
  BY <1>2, <1>3, <1>4, <1>5, <1>6, <1>7, <1>8 DEF ValuationInv

(* A ledger that needs no prices.                                          *)
LEMMA NothingHeldStep == ASSUME ValuationInv, NothingHeld PROVE ValuationInv'
<1>1. report.unavailable \subseteq Lacking
  BY DEF ValuationInv, ValuationTypeOK, Lacking
<1> QED
  BY <1>1, StopStep DEF NothingHeld, Stop, Reasons

(* The last point, and its day.                                            *)
PointType == [day : Start..End, total : Nat \ {0}, cash : Nat, flow : Int]

(* The list of points as a sequence of points.                             *)
LEMMA PointFacts ==
  ASSUME ValuationTypeOK
  PROVE  /\ points \in Seq(PointType) /\ Len(points) \in Nat /\ DOMAIN points = 1..Len(points)
         /\ \A i \in 1..Len(points) : points[i] \in PointType
         /\ points = << >> <=> Len(points) = 0
<1>1. points \in Seq(PointType)
  BY DEF ValuationTypeOK, PointType
<1> QED
  BY <1>1, LenProperties, ElementOfSeq, EmptySeq

(* The rows before a point were applied, so once a point was made what is  *)
(* held was held when the interval began or traded in it.                  *)
LEMMA HeldIsPriced ==
  ASSUME ValuationInv, phase = "day", dates = {}, points # << >>, NEW s \in Active
  PROVE  s \in DOMAIN latest
<1>1. /\ s \in Symbols /\ positions[s] # 0 /\ txs \in Ledgers /\ market \in Markets
      /\ DOMAIN latest = {r \in Required : Seen(r) # {}} /\ Supplied
  BY DEF Active, ValuationInv, ValuationTypeOK, LatestInv, PhaseInv, InLoop
<1>2. Quantity(Applied, s) # 0
  BY <1>1 DEF ValuationInv, PositionsInv
<1>3. \A t \in todo : t.at > points[Len(points)].day
  BY DEF ValuationInv, TodoInv
<1>4. points[Len(points)].day \in Start..End
  <2>1. Len(points) \in 1..Len(points)
    BY PointFacts DEF ValuationInv
  <2> QED
    BY <2>1, PointFacts DEF ValuationInv, PointType
<1>5. \A t \in txs : t.at \in Nat
  BY <1>1, LedgerFacts
<1>6. /\ Applied \subseteq {t \in txs : t.at <= End}
      /\ {t \in txs : t.at < Start} \subseteq Applied
  BY <1>3, <1>4, <1>5, IntervalAssumption DEF Applied
<1>7. s \in Required
  BY <1>1, <1>2, <1>6, HeldIsRequired
<1>8. DOMAIN prices[s] # {}
  BY <1>1, <1>7, SeriesFacts
<1> QED
  BY <1>1, <1>7, <1>8 DEF Seen

(* The last checks never find a symbol held without a price.               *)
LEMMA FinishStep == ASSUME ValuationInv, Finish PROVE ValuationInv'
<1>1. report.unavailable \subseteq Lacking /\ report' = report
  BY DEF ValuationInv, ValuationTypeOK, Lacking, Finish
<1>2. phase = "day" /\ dates = {}
  BY DEF Finish
<1>3. points # << >> => Active \subseteq DOMAIN latest
  BY <1>2, HeldIsPriced
<1>4. phase' = "done" /\ outcome' \in Reasons
  BY <1>3 DEF Finish, Stop, Reasons
<1>5. UNCHANGED <<inputs, todo, dates, day, positions, cash, latest, pending, points>>
  BY DEF Finish
<1> QED
  BY <1>1, <1>4, <1>5, StopStep

(* Metrics and insight leave what was valued alone.                        *)
LEMMA ReportStep == ASSUME ValuationInv, Report PROVE ValuationInv'
<1>1. phase' = "told" /\ outcome' = outcome
  BY DEF Report
<1>2. report'.unavailable \subseteq Lacking
  BY DEF Report, Limitations, Lacking
<1>3. UNCHANGED <<inputs, todo, dates, day, positions, cash, latest, pending, points>>
  BY DEF Report, inputs
<1> QED
  BY <1>1, <1>2, <1>3, StopStep

(* The prices that were validated are the series.                          *)
LEMMA OpenStep == ASSUME ValuationInv, Open PROVE ValuationInv'
<1>1. Fresh /\ Supplied /\ market \in Markets /\ txs \in Ledgers
  BY DEF ValuationInv, PhaseInv, ValuationTypeOK, Open
<1>2. \A s \in Required : s \in Symbols /\ DOMAIN prices[s] # {}
  BY <1>1, SeriesFacts DEF Required
<1>3. phase' = "day" /\ outcome' = outcome /\ dates' = Sessions
  BY <1>2 DEF Open, Sessions
<1>4. UNCHANGED locals /\ UNCHANGED <<weather, stale, day, latest, report>>
  BY DEF locals, inputs, Open
<1>5. /\ NoLookAhead' = NoLookAhead /\ FlowsBalance' = FlowsBalance
      /\ FlowsAreNotPerformance' = FlowsAreNotPerformance
      /\ PositionsInv' = PositionsInv /\ FlatInv' = FlatInv
      /\ Required' = Required /\ Supplied' = Supplied /\ Unsupplied' = Unsupplied
      /\ Sessions' = Sessions /\ InRange' = InRange /\ Applied' = Applied
  BY <1>4, LocalsUnchanged
<1>6. Sessions \in SUBSET (Start..End) /\ \A s \in Required : DOMAIN prices[s] \subseteq Sessions
  BY <1>1, SessionsFacts
<1>7. day = Start /\ latest = << >> /\ todo = InRange /\ Applied = {} /\ points = << >>
  BY <1>1 DEF Fresh, Applied, InRange
<1>8. CalendarInv'
  BY <1>3, <1>4, <1>5, <1>6, <1>7, IntervalAssumption DEF CalendarInv, InLoop
<1>9. LatestInv'
  BY <1>3, <1>4, <1>5, <1>6, <1>7 DEF LatestInv, Seen, locals
<1>10. TodoInv'
  BY <1>3, <1>4, <1>5, <1>7 DEF TodoInv, locals
<1>11. PhaseInv'
  BY <1>1, <1>3, <1>5 DEF PhaseInv
<1>12. ValuationTypeOK'
  BY <1>3, <1>4, <1>6 DEF ValuationInv, ValuationTypeOK, locals
<1>13. MarketDataHonest' /\ AgreesWithLedger'
  <2>1. phase = "open" /\ MarketDataHonest /\ AgreesWithLedger
    BY DEF Open, ValuationInv
  <2>2. AgreesWithLedger'
    BY <1>3, <2>1 DEF AgreesWithLedger
  <2>3. UNCHANGED <<market, prices, weather, outcome>>
    BY <1>3, <1>4 DEF locals
  <2> QED
    BY <1>5, <2>1, <2>2, <2>3 DEF MarketDataHonest
<1> QED
  BY <1>5, <1>8, <1>9, <1>10, <1>11, <1>12, <1>13 DEF ValuationInv

(* The largest of some dates is the one no other exceeds.                  *)
LEMMA MaxIs ==
  ASSUME NEW T \in SUBSET Nat, NEW n \in T, \A x \in T : x <= n
  PROVE  Max(T) = n
<1>1. T # {} /\ n \in Nat
  OBVIOUS
<1>2. Max(T) \in T /\ \A y \in T : y <= Max(T)
  BY <1>1, Largest
<1>3. Max(T) \in Nat /\ n <= Max(T) /\ Max(T) <= n
  BY <1>1, <1>2
<1> QED
  BY <1>1, <1>3

(* The next date: what is consumed of every series is what lies before it, *)
(* or on it.                                                               *)
LEMMA NextDayStep == ASSUME ValuationInv, NextDay PROVE ValuationInv'
<1> DEFINE d == Min(dates)
<1>1. /\ phase = "day" /\ Supplied /\ market \in Markets /\ txs \in Ledgers /\ dates # {}
      /\ CalendarInv /\ LatestInv /\ TodoInv /\ ValuationTypeOK
  BY DEF ValuationInv, PhaseInv, ValuationTypeOK, NextDay
<1>2. /\ Sessions \in SUBSET (Start..End) /\ Sessions \in SUBSET Nat
      /\ \A s \in Required : s \in Symbols /\ DOMAIN prices[s] \subseteq Sessions
  BY <1>1, SessionsFacts
<1>3. dates \in SUBSET Sessions /\ dates \in SUBSET Nat
  BY <1>1, <1>2 DEF CalendarInv, InLoop
<1>4. d \in dates /\ d \in Nat /\ \A e \in dates : d <= e
  BY <1>1, <1>3, MinFacts
<1>5. /\ day' = d /\ dates' = dates \ {d} /\ phase' = "apply" /\ outcome' = outcome
      /\ latest' = [s \in DOMAIN latest \cup Observed(d) |->
                      IF s \in Observed(d) THEN prices[s][d] ELSE latest[s]]
  BY DEF NextDay
<1> HIDE DEF d
<1>6. UNCHANGED locals /\ UNCHANGED <<weather, stale, report>>
  BY DEF locals, inputs, NextDay
<1>7. /\ NoLookAhead' = NoLookAhead /\ FlowsBalance' = FlowsBalance
      /\ FlowsAreNotPerformance' = FlowsAreNotPerformance
      /\ PositionsInv' = PositionsInv /\ FlatInv' = FlatInv
      /\ Required' = Required /\ Supplied' = Supplied /\ Unsupplied' = Unsupplied
      /\ Sessions' = Sessions /\ InRange' = InRange /\ Applied' = Applied
  BY <1>6, LocalsUnchanged
<1>8. day <= d /\ day \in Nat /\ \A e \in Sessions \ dates : e <= day
  <2>1. day <= d /\ \A e \in Sessions \ dates : e <= day
    BY <1>1, <1>4 DEF CalendarInv, InLoop
  <2>2. day \in Start..End
    BY <1>1 DEF ValuationTypeOK
  <2> QED
    BY <2>1, <2>2, IntervalAssumption
<1>9. CalendarInv'
  <2>1. \A e \in Sessions \ dates' : e <= d
    BY <1>2, <1>4, <1>5, <1>8
  <2>2. \A e \in dates' : d <= e /\ d < e
    BY <1>3, <1>4, <1>5
  <2> QED
    BY <1>3, <1>4, <1>5, <1>7, <2>1, <2>2 DEF CalendarInv
<1>10. LatestInv'
  <2>1. \A s \in Required : /\ DOMAIN prices[s] \ dates' \in SUBSET Nat
                            /\ \A e \in DOMAIN prices[s] \ dates' : e <= d
    <3>1. \A e \in Sessions \ dates' : e <= d
      <4>1. \A e \in Sessions \ dates' : e \in Nat /\ (e = d \/ e \in Sessions \ dates)
        BY <1>2, <1>5
      <4> QED
        BY <1>4, <1>8, <4>1
    <3> QED
      BY <1>2, <3>1
  <2>2. \A s \in Observed(d) :
          /\ s \in Required /\ d \in DOMAIN prices[s] \ dates'
          /\ Max(DOMAIN prices[s] \ dates') = d
    <3> TAKE s \in Observed(d)
    <3>1. s \in Required /\ d \in DOMAIN prices[s] \ dates'
      BY <1>5 DEF Observed
    <3> QED
      BY <2>1, <3>1, MaxIs
  <2>3. \A s \in Required \ Observed(d) : DOMAIN prices[s] \ dates' = Seen(s)
    BY <1>5 DEF Observed, Seen
  <2>4. /\ DOMAIN latest = {s \in Required : Seen(s) # {}}
        /\ \A s \in DOMAIN latest : latest[s] = prices[s][Max(Seen(s))]
    BY <1>1 DEF LatestInv, InLoop
  <2>5. DOMAIN latest' = {s \in Required : DOMAIN prices[s] \ dates' # {}}
    <3>1. DOMAIN latest' = DOMAIN latest \cup Observed(d)
      BY <1>5
    <3>2. \A s \in DOMAIN latest : s \in Required /\ DOMAIN prices[s] \ dates' # {}
      BY <2>2, <2>3, <2>4
    <3> QED
      BY <2>2, <2>3, <2>4, <3>1, <3>2
  <2>6. \A s \in DOMAIN latest' : latest'[s] = prices[s][Max(DOMAIN prices[s] \ dates')]
    <3> TAKE s \in DOMAIN latest'
    <3>1. CASE s \in Observed(d)
      BY <1>5, <2>2, <3>1
    <3>2. CASE s \notin Observed(d)
      <4>1. s \in DOMAIN latest /\ latest'[s] = latest[s] /\ s \in Required
        BY <1>5, <2>4, <3>2
      <4> QED
        BY <2>3, <2>4, <3>2, <4>1
    <3> QED
      BY <3>1, <3>2
  <2>7. prices' = prices
    BY <1>6 DEF locals
  <2> QED
    BY <1>7, <2>5, <2>6, <2>7 DEF LatestInv, Seen
<1>11. TodoInv'
  <2>1. \A t \in Applied : t.at <= day /\ t.at \in Nat
    BY <1>1, LedgerFacts DEF TodoInv, Applied
  <2>2. \A t \in Applied : t.at <= d
    BY <1>4, <1>8, <2>1
  <2>3. UNCHANGED <<todo, points>>
    BY <1>6 DEF locals
  <2> QED
    BY <1>1, <1>5, <1>7, <2>2, <2>3 DEF TodoInv
<1>12. PhaseInv'
  BY <1>1, <1>5, <1>7 DEF PhaseInv
<1>13. ValuationTypeOK'
  <2>1. day' \in Start..End /\ dates' \subseteq Start..End
    BY <1>2, <1>3, <1>4, <1>5
  <2>2. DOMAIN latest' \subseteq Symbols
    BY <1>2, <1>5, <1>7, <1>10, <1>6 DEF LatestInv, InLoop
  <2>3. \A s \in DOMAIN latest' : latest'[s] \in Nat \ {0}
    <3> TAKE s \in DOMAIN latest'
    <3>1. CASE s \in Observed(d)
      BY <1>1, <1>2, <1>5, <3>1, SeriesFacts DEF Observed
    <3>2. CASE s \notin Observed(d)
      BY <1>1, <1>5, <3>2 DEF ValuationTypeOK
    <3> QED
      BY <3>1, <3>2
  <2>4. latest' \in [DOMAIN latest' -> Nat \ {0}]
    BY <1>5, <2>3
  <2> QED
    BY <1>1, <1>5, <1>6, <2>1, <2>2, <2>4 DEF ValuationTypeOK, locals
<1>14. MarketDataHonest' /\ AgreesWithLedger'
  <2>1. MarketDataHonest /\ AgreesWithLedger
    BY DEF ValuationInv
  <2>2. AgreesWithLedger'
    BY <1>5, <2>1 DEF AgreesWithLedger
  <2>3. UNCHANGED <<market, prices, weather, outcome>>
    BY <1>5, <1>6 DEF locals
  <2> QED
    BY <1>1, <1>7, <2>1, <2>2, <2>3 DEF MarketDataHonest
<1> QED
  BY <1>7, <1>9, <1>10, <1>11, <1>12, <1>13, <1>14 DEF ValuationInv

(* What NoLookAhead says of one point.                                     *)
HeldAt(ledger, d, s) == Quantity({t \in ledger : t.at <= d}, s)
SeenBy(series, d, s) == {e \in DOMAIN series[s] : e <= d}
WorthAt(ledger, series, d, s) ==
  IF HeldAt(ledger, d, s) = 0 THEN 0
  ELSE HeldAt(ledger, d, s) * series[s][Max(SeenBy(series, d, s))]
ValuedAt(ledger, series, d, total, balance) ==
  /\ \A s \in Symbols : HeldAt(ledger, d, s) # 0 => SeenBy(series, d, s) # {}
  /\ total = balance + SumFunction([s \in Symbols |-> WorthAt(ledger, series, d, s)])

(* NoLookAhead says that of every point.                                   *)
LEMMA NoLookAheadMeans ==
  NoLookAhead <=> \A i \in DOMAIN points :
    ValuedAt(txs, prices, points[i].day, points[i].total, points[i].cash)
BY DEF NoLookAhead, ValuedAt, WorthAt, SeenBy, HeldAt

(* The market value of what is held, summed over all symbols.              *)
LEMMA TotalFacts ==
  ASSUME ValuationInv, InLoop, Active \subseteq DOMAIN latest,
         NEW STATE price, \A s \in Active : price[s] = latest[s],
         NEW STATE fun, fun = [s \in Symbols |-> IF positions[s] = 0 THEN 0 ELSE positions[s] * price[s]]
  PROVE  Total \in Int /\ Total = cash + SumFunction(fun)
<1>1. /\ IsFiniteSet(Symbols) /\ Active \in SUBSET Symbols /\ cash \in Int
      /\ positions \in [Symbols -> Nat] /\ \A s \in Active : latest[s] \in Int
  <2>1. ValuationTypeOK /\ Active \in SUBSET Symbols
    BY DEF Active, ValuationInv
  <2>2. cash \in Nat /\ positions \in [Symbols -> Nat] /\ latest \in [DOMAIN latest -> Nat \ {0}]
    BY <2>1 DEF ValuationTypeOK
  <2> QED
    BY <2>1, <2>2, SymbolsAssumption
<1>2. \A s \in Symbols : fun[s] \in Int
  <2> TAKE s \in Symbols
  <2>1. CASE positions[s] = 0
    BY <2>1
  <2>2. CASE positions[s] # 0
    <3>1. s \in Active /\ fun[s] = positions[s] * latest[s] /\ positions[s] \in Int
      BY <1>1, <2>2 DEF Active
    <3> QED
      BY <1>1, <3>1
  <2> QED
    BY <2>1, <2>2
<1>3. \A s \in Symbols \ Active : fun[s] = 0
  BY DEF Active
<1>4. Part(fun, Active) = Part(fun, Symbols)
  BY <1>1, <1>2, <1>3, SumZero
<1>5. [s \in Active |-> MarketValue(s)] = [s \in Active |-> fun[s]]
  BY <1>1 DEF MarketValue, Active
<1>6. fun = [s \in Symbols |-> fun[s]]
  OBVIOUS
<1>7. Total = cash + Part(fun, Symbols)
  BY <1>4, <1>5 DEF Total, Part
<1>8. PartsSplit(fun, Symbols)
  BY <1>1, <1>2, SumFacts
<1>9. Part(fun, Symbols) \in Int
  BY <1>8 DEF PartsSplit
<1>10. Part(fun, Symbols) = SumFunction(fun)
  BY <1>6 DEF Part
<1> QED
  BY <1>1, <1>7, <1>9, <1>10

(* The point of the day is the value of what the ledger holds at its end.  *)
LEMMA PointIsValued ==
  ASSUME ValuationInv, phase = "apply", \A t \in todo : t.at > day, Active \subseteq DOMAIN latest
  PROVE  ValuedAt(txs, prices, day, Total, cash)
<1>1. /\ Supplied /\ market \in Markets /\ txs \in Ledgers /\ CalendarInv /\ LatestInv /\ TodoInv
      /\ InLoop /\ ValuationTypeOK /\ PositionsInv
  BY DEF ValuationInv, PhaseInv, ValuationTypeOK, InLoop
<1>2. {t \in txs : t.at <= day} = Applied
  <2>1. day \in Start..End /\ \A t \in txs : t.at \in Nat
    BY <1>1, LedgerFacts DEF ValuationTypeOK
  <2>2. \A t \in Applied : t.at <= day
    BY <1>1 DEF TodoInv
  <2> QED
    BY <2>1, <2>2, IntervalAssumption DEF Applied
<1>3. \A s \in Symbols : HeldAt(txs, day, s) = positions[s]
  BY <1>1, <1>2 DEF HeldAt, PositionsInv
<1>4. \A s \in Required : SeenBy(prices, day, s) = Seen(s)
  <2>1. /\ \A e \in Sessions \ dates : e <= day
        /\ \A e \in dates : day < e /\ e \in Nat
    BY <1>1, SessionsFacts DEF CalendarInv, InLoop
  <2>2. day \in Nat /\ \A s \in Required : DOMAIN prices[s] \subseteq Sessions
    <3>1. day \in Start..End
      BY <1>1 DEF ValuationTypeOK
    <3> QED
      BY <1>1, <3>1, SessionsFacts, IntervalAssumption
  <2> QED
    BY <2>1, <2>2 DEF SeenBy, Seen
<1>5. \A s \in Active : /\ s \in Symbols /\ s \in Required /\ SeenBy(prices, day, s) # {}
                        /\ latest[s] = prices[s][Max(SeenBy(prices, day, s))]
  BY <1>1, <1>4 DEF LatestInv, Active
<1> DEFINE price == [s \in Symbols |-> prices[s][Max(SeenBy(prices, day, s))]]
           fun == [s \in Symbols |-> IF positions[s] = 0 THEN 0 ELSE positions[s] * price[s]]
<1>6. \A s \in Active : price[s] = latest[s]
  BY <1>5
<1>7. fun = [s \in Symbols |-> WorthAt(txs, prices, day, s)]
  BY <1>3 DEF WorthAt
<1>8. Total = cash + SumFunction(fun)
  <2> HIDE DEF price
  <2> QED
    BY <1>1, <1>6, TotalFacts
<1>9. \A s \in Symbols : HeldAt(txs, day, s) # 0 => SeenBy(prices, day, s) # {}
  BY <1>3, <1>5 DEF Active
<1> QED
  BY <1>7, <1>8, <1>9 DEF ValuedAt

(* The price there is of a symbol.                                         *)
LEMMA FlatFacts ==
  ASSUME Supplied, market \in Markets, NEW s \in Symbols
  PROVE  /\ Flat(s) \in Nat
         /\ s \in Required => \E d \in DOMAIN prices[s] : Flat(s) = prices[s][d]
<1>1. CASE s \in Required
  <2>1. /\ DOMAIN prices[s] # {} /\ DOMAIN prices[s] \in SUBSET (Start..End)
        /\ \A d \in DOMAIN prices[s] : d \in Nat /\ prices[s][d] \in Nat
    BY <1>1, SeriesFacts
  <2>2. DOMAIN prices[s] \in SUBSET Nat /\ End \in Nat /\ \A d \in DOMAIN prices[s] : d <= End
    BY <2>1, IntervalAssumption
  <2>3. Max(DOMAIN prices[s]) \in DOMAIN prices[s]
    BY <2>1, <2>2, Largest
  <2> QED
    BY <1>1, <2>1, <2>3 DEF Flat
<1>2. CASE s \notin Required
  BY <1>2 DEF Flat
<1> QED
  BY <1>1, <1>2

(* In a flat market that value is the one at the prices there are.         *)
LEMMA FlatTotal ==
  ASSUME ValuationInv, InLoop, FlatMarket, Active \subseteq DOMAIN latest
  PROVE  Total = cash + SumFunction([s \in Symbols |-> positions[s] * Flat(s)])
<1>1. Supplied /\ market \in Markets /\ LatestInv /\ positions \in [Symbols -> Nat]
  BY DEF ValuationInv, PhaseInv, ValuationTypeOK, InLoop
<1> DEFINE price == [s \in Symbols |-> Flat(s)]
           fun == [s \in Symbols |-> IF positions[s] = 0 THEN 0 ELSE positions[s] * price[s]]
<1>2. \A s \in Active : price[s] = latest[s]
  <2> TAKE s \in Active
  <2>1. /\ s \in Symbols /\ s \in Required /\ Seen(s) # {} /\ latest[s] = prices[s][Max(Seen(s))]
    BY <1>1 DEF LatestInv, Active
  <2>2. Seen(s) \in SUBSET DOMAIN prices[s]
    BY DEF Seen
  <2>3. DOMAIN prices[s] \in SUBSET Nat /\ DOMAIN prices[s] \in SUBSET (Start..End)
    BY <1>1, <2>1, SeriesFacts
  <2>4. Max(Seen(s)) \in Seen(s) /\ Max(DOMAIN prices[s]) \in DOMAIN prices[s]
    <3>1. End \in Nat /\ \A e \in DOMAIN prices[s] : e <= End
      BY <2>3, IntervalAssumption
    <3> QED
      BY <2>1, <2>2, <2>3, <3>1, Largest
  <2>5. Flat(s) = prices[s][Max(DOMAIN prices[s])]
    BY <2>1, <2>2 DEF Flat
  <2>6. \A d, e \in DOMAIN prices[s] : prices[s][d] = prices[s][e]
    BY <2>1 DEF FlatMarket
  <2> QED
    BY <2>1, <2>2, <2>4, <2>5, <2>6
<1>3. Total = cash + SumFunction(fun)
  <2> HIDE DEF price
  <2> QED
    BY <1>2, TotalFacts
<1>4. fun = [s \in Symbols |-> positions[s] * Flat(s)]
  <2>1. \A s \in Symbols : Flat(s) \in Nat
    BY <1>1, FlatFacts
  <2> QED
    BY <1>1, <2>1
<1> QED
  BY <1>3, <1>4

(* What the trades and the fees of the applied rows come to.               *)
Trade(t) == CASE t.kind = "BUY"  -> -(t.qty * t.price)
              [] t.kind = "SELL" -> t.qty * t.price
              [] OTHER           -> 0
Traded(rows) == SumFunction([t \in rows |-> Trade(t)])
Charged(rows) == SumFunction([t \in rows |-> t.fees])
Flowed == SumFunction([i \in DOMAIN points |-> points[i].flow])

(* FlowsBalance in these words.                                            *)
LEMMA FlowsBalanceMeans ==
  FlowsBalance <=> cash = Flowed + pending + Traded(Applied) - Charged(Applied)
BY DEF FlowsBalance, Trade, Traded, Charged, Flowed

(* A row adds its trade and its fees to the sums.                          *)
LEMMA LedgerSums ==
  ASSUME NEW ledger \in Ledgers, NEW rows \in SUBSET ledger
  PROVE  /\ Traded(rows) \in Int /\ Charged(rows) \in Int
         /\ \A t \in ledger \ rows : /\ Traded(rows \cup {t}) = Traded(rows) + Trade(t)
                                     /\ Charged(rows \cup {t}) = Charged(rows) + t.fees
         /\ \A t \in ledger : Trade(t) \in Int
<1> DEFINE trades == [t \in ledger |-> Trade(t)]
           fees == [t \in ledger |-> t.fees]
<1>1. IsFiniteSet(ledger) /\ \A t \in ledger : fees[t] \in Int
  BY LedgerFacts
<1>2. \A t \in ledger : Trade(t) \in Int
  <2> TAKE t \in ledger
  <2>1. t.qty \in Nat /\ t.price \in Nat
    BY LedgerFacts
  <2>2. t.qty * t.price \in Int /\ -(t.qty * t.price) \in Int
    BY <2>1
  <2> QED
    BY <2>2 DEF Trade
<1>3. \A t \in ledger : trades[t] \in Int
  BY <1>2
<1>4. \A S \in SUBSET ledger : Traded(S) = Part(trades, S) /\ Charged(S) = Part(fees, S)
  <2> TAKE S \in SUBSET ledger
  <2>1. [t \in S |-> Trade(t)] = [t \in S |-> trades[t]] /\ [t \in S |-> t.fees] = [t \in S |-> fees[t]]
    OBVIOUS
  <2> QED
    BY <2>1 DEF Traded, Charged, Part
<1>5. \A t \in ledger : trades[t] = Trade(t) /\ fees[t] = t.fees
  OBVIOUS
<1> HIDE DEF trades, fees
<1>6. PartsSplit(trades, ledger) /\ PartsSplit(fees, ledger)
  BY <1>1, <1>3, SumFacts
<1>7. Traded(rows) \in Int /\ Charged(rows) \in Int
  BY <1>4, <1>6 DEF PartsSplit
<1>8. ASSUME NEW t \in ledger \ rows
      PROVE  /\ Traded(rows \cup {t}) = Traded(rows) + Trade(t)
             /\ Charged(rows \cup {t}) = Charged(rows) + t.fees
  <2>1. rows \cup {t} \in SUBSET ledger /\ t \in ledger
    OBVIOUS
  <2>2. Part(trades, rows \cup {t}) = Part(trades, rows) + trades[t]
    BY <1>1, <1>3, SumAdd
  <2>3. Part(fees, rows \cup {t}) = Part(fees, rows) + fees[t]
    BY <1>1, SumAdd
  <2> QED
    BY <1>4, <1>5, <2>1, <2>2, <2>3
<1> QED
  BY <1>2, <1>7, <1>8

(* The flows of a list of points, and of one more.                         *)
LEMMA FlowedFacts ==
  ASSUME ValuationTypeOK
  PROVE  Flowed \in Int
<1> DEFINE flow == [i \in 1..Len(points) |-> points[i].flow]
<1>1. DOMAIN points = 1..Len(points) /\ \A i \in 1..Len(points) : flow[i] \in Int
  BY PointFacts DEF PointType
<1>2. IsFiniteSet(1..Len(points))
  BY PointFacts, FS_Interval
<1>3. Flowed = Part(flow, 1..Len(points))
  BY <1>1 DEF Flowed, Part
<1> HIDE DEF flow
<1>4. PartsSplit(flow, 1..Len(points))
  BY <1>1, <1>2, SumFacts
<1> QED
  BY <1>3, <1>4 DEF PartsSplit

(* A new point adds its flow.                                              *)
LEMMA FlowedOnce ==
  ASSUME ValuationTypeOK, NEW p \in PointType, points' = Append(points, p)
  PROVE  Flowed' = Flowed + p.flow
<1> DEFINE n == Len(points)
           flow == [i \in 1..(n + 1) |-> points'[i].flow]
<1>1. /\ points \in Seq(PointType) /\ n \in Nat /\ DOMAIN points = 1..n
      /\ \A i \in 1..n : points[i] \in PointType
  BY PointFacts
<1>2. /\ DOMAIN points' = 1..(n + 1) /\ points'[n + 1] = p
      /\ \A i \in 1..n : points'[i] = points[i]
  BY <1>1, AppendProperties
<1> HIDE DEF n
<1>3. \A i \in 1..(n + 1) : flow[i] \in Int
  <2> TAKE i \in 1..(n + 1)
  <2>1. i \in 1..n \/ i = n + 1
    BY <1>1
  <2>2. points'[i] \in PointType
    BY <1>1, <1>2, <2>1
  <2> QED
    BY <2>2 DEF PointType
<1>4. Flowed' = Part(flow, 1..(n + 1))
  BY <1>2 DEF Flowed, Part
<1>5. 1..n \in SUBSET (1..(n + 1)) /\ n + 1 \in (1..(n + 1)) \ (1..n) /\ 1..(n + 1) = 1..n \cup {n + 1}
  BY <1>1
<1>6. Flowed = Part(flow, 1..n)
  <2>1. [i \in DOMAIN points |-> points[i].flow] = [i \in 1..n |-> flow[i]]
    BY <1>1, <1>2, <1>5
  <2> QED
    BY <2>1 DEF Flowed, Part
<1>7. flow[n + 1] = p.flow
  BY <1>2, <1>5
<1> HIDE DEF flow
<1>8. IsFiniteSet(1..(n + 1))
  BY <1>1, FS_Interval
<1>9. Part(flow, 1..n \cup {n + 1}) = Part(flow, 1..n) + flow[n + 1]
  <2> DEFINE all == 1..(n + 1)
             some == 1..n
             last == n + 1
  <2>1. /\ IsFiniteSet(all) /\ some \in SUBSET all /\ last \in all \ some
        /\ \A i \in all : flow[i] \in Int
    BY <1>3, <1>5, <1>8
  <2> HIDE DEF all, some, last
  <2>2. Part(flow, some \cup {last}) = Part(flow, some) + flow[last]
    BY <2>1, SumAdd
  <2> QED
    BY <2>2 DEF some, last
<1> QED
  BY <1>4, <1>5, <1>6, <1>7, <1>9

(* Nothing happens at the end of a date that gets no point.                *)
LEMMA SkipStep ==
  ASSUME ValuationInv, phase = "apply", phase' = "day", \A t \in todo : t.at > day,
         UNCHANGED <<inputs, todo, dates, day, positions, cash, latest, outcome, report>>,
         UNCHANGED <<points, pending>>
  PROVE  ValuationInv'
<1>1. UNCHANGED locals /\ UNCHANGED <<weather, stale, dates, day, latest, report>>
  BY DEF locals, inputs
<1>2. /\ NoLookAhead' = NoLookAhead /\ FlowsBalance' = FlowsBalance
      /\ FlowsAreNotPerformance' = FlowsAreNotPerformance
      /\ PositionsInv' = PositionsInv /\ FlatInv' = FlatInv
      /\ Required' = Required /\ Supplied' = Supplied /\ Unsupplied' = Unsupplied
      /\ Sessions' = Sessions /\ InRange' = InRange /\ Applied' = Applied
  BY <1>1, LocalsUnchanged
<1>3. PhaseInv /\ CalendarInv /\ LatestInv /\ TodoInv /\ ValuationTypeOK
  BY DEF ValuationInv
<1>4. PhaseInv'
  BY <1>2, <1>3 DEF PhaseInv
<1>5. CalendarInv' /\ LatestInv'
  BY <1>1, <1>2, <1>3 DEF CalendarInv, LatestInv, InLoop, Seen, locals
<1>6. TodoInv'
  BY <1>1, <1>2, <1>3 DEF TodoInv, locals
<1>7. ValuationTypeOK'
  BY <1>1, <1>3 DEF ValuationTypeOK, locals
<1>8. MarketDataHonest' /\ AgreesWithLedger'
  <2>1. MarketDataHonest /\ AgreesWithLedger
    BY DEF ValuationInv
  <2>2. AgreesWithLedger'
    BY <2>1 DEF AgreesWithLedger
  <2>3. UNCHANGED <<market, prices, weather, outcome>>
    BY <1>1 DEF locals
  <2> QED
    BY <1>2, <2>1, <2>2, <2>3 DEF MarketDataHonest
<1> QED
  BY <1>2, <1>4, <1>5, <1>6, <1>7, <1>8 DEF ValuationInv

(* A point is made, and the flows since the last one are in it.            *)
LEMMA PointStep ==
  ASSUME ValuationInv, phase = "apply", phase' = "day", \A t \in todo : t.at > day,
         UNCHANGED <<inputs, todo, dates, day, positions, cash, latest, outcome, report>>,
         Valuatable, pending' = 0,
         points' = Append(points, [day |-> day, total |-> Total, cash |-> cash, flow |-> pending])
  PROVE  ValuationInv'
<1> DEFINE p == [day |-> day, total |-> Total, cash |-> cash, flow |-> pending]
           n == Len(points)
<1>1. UNCHANGED <<txs, market, weather, prices, stale, todo, dates, day, positions, cash,
                  latest, outcome, report>>
  BY DEF inputs
<1>2. /\ Required' = Required /\ Applied' = Applied /\ InRange' = InRange
      /\ FlatMarket' = FlatMarket
  BY <1>1 DEF Required, Applied, InRange, FlatMarket
<1>3. Sessions' = Sessions /\ Supplied' = Supplied /\ \A s \in Symbols : Flat(s)' = Flat(s)
  BY <1>1, <1>2 DEF Sessions, Supplied, Series, Flat
<1>4. /\ InLoop /\ PhaseInv /\ CalendarInv /\ LatestInv /\ TodoInv /\ ValuationTypeOK
      /\ Active \subseteq DOMAIN latest /\ Total > 0 /\ Supplied
  BY DEF ValuationInv, InLoop, Valuatable, PhaseInv
<1>22. cash \in Int /\ pending \in Int
  <2>1. cash \in Nat /\ pending \in Int
    BY <1>4 DEF ValuationTypeOK
  <2> QED
    BY <2>1
<1>5. Total \in Int
  <2> DEFINE price == [s \in Active |-> latest[s]]
             fun == [s \in Symbols |-> IF positions[s] = 0 THEN 0 ELSE positions[s] * price[s]]
  <2>1. \A s \in Active : price[s] = latest[s]
    OBVIOUS
  <2> HIDE DEF price
  <2> QED
    BY <1>4, <2>1, TotalFacts
<1>6. p \in PointType
  <2>1. day \in Start..End /\ cash \in Nat /\ pending \in Int
    BY <1>4 DEF ValuationTypeOK
  <2>2. Total \in Nat \ {0}
    BY <1>4, <1>5
  <2> QED
    BY <2>1, <2>2 DEF PointType
<1>7. p.day = day /\ p.total = Total /\ p.cash = cash /\ p.flow = pending
  OBVIOUS
<1>8. points' = Append(points, p)
  OBVIOUS
<1> HIDE DEF p
<1>9. /\ points \in Seq(PointType) /\ n \in Nat /\ DOMAIN points = 1..n
      /\ \A i \in 1..n : points[i] \in PointType /\ (points # << >> <=> n # 0)
  BY <1>4, PointFacts
<1>10. /\ points' \in Seq(PointType) /\ DOMAIN points' = 1..(n + 1) /\ Len(points') = n + 1
       /\ points'[n + 1] = p /\ points' # << >>
       /\ \A i \in 1..n : points'[i] = points[i]
  BY <1>6, <1>8, <1>9, AppendProperties
<1> HIDE DEF n
<1>11. NoLookAhead'
  <2>1. \A i \in 1..n : ValuedAt(txs, prices, points[i].day, points[i].total, points[i].cash)
    BY <1>9, NoLookAheadMeans DEF ValuationInv
  <2>2. ValuedAt(txs, prices, p.day, p.total, p.cash)
    BY <1>4, <1>7, PointIsValued
  <2>3. \A i \in 1..(n + 1) : i \in 1..n \/ i = n + 1
    BY <1>9
  <2>4. \A i \in 1..(n + 1) :
          ValuedAt(txs, prices, points'[i].day, points'[i].total, points'[i].cash)
    BY <1>10, <2>1, <2>2, <2>3
  <2>5. (NoLookAhead <=> \A i \in DOMAIN points :
           ValuedAt(txs, prices, points[i].day, points[i].total, points[i].cash))'
    BY NoLookAheadMeans, PTL
  <2> QED
    BY <1>1, <1>10, <2>4, <2>5
<1>12. FlowsBalance'
  <2>1. Flowed \in Int /\ cash \in Int /\ pending \in Int
    BY <1>4, <1>22, FlowedFacts
  <2>2. Traded(Applied) \in Int /\ Charged(Applied) \in Int
    BY <1>4, LedgerSums DEF ValuationTypeOK, Applied
  <2>3. Flowed' = Flowed + pending
    BY <1>4, <1>6, <1>7, <1>8, FlowedOnce
  <2>4. cash = Flowed + pending + Traded(Applied) - Charged(Applied)
    BY FlowsBalanceMeans DEF ValuationInv
  <2>5. cash = Flowed' + 0 + Traded(Applied) - Charged(Applied)
    BY <2>1, <2>2, <2>3, <2>4
  <2>6. (FlowsBalance <=> cash = Flowed + pending + Traded(Applied) - Charged(Applied))'
    BY FlowsBalanceMeans, PTL
  <2>7. Traded(Applied)' = Traded(Applied) /\ Charged(Applied)' = Charged(Applied)
    BY <1>2 DEF Traded, Charged
  <2> QED
    BY <1>1, <2>5, <2>6, <2>7
<1>13. ASSUME FlatMarket PROVE Total = cash + SumFunction([s \in Symbols |-> positions[s] * Flat(s)])
  BY <1>4, <1>13, FlatTotal
<1>14. FlatInv'
  <2>1. points'[Len(points')].total = Total
    BY <1>7, <1>10
  <2>2. ASSUME FlatMarket
        PROVE  cash + SumFunction([s \in Symbols |-> positions[s] * Flat(s)]) =
                 points'[Len(points')].total + 0
    BY <1>5, <1>13, <2>1, <2>2
  <2>3. [s \in Symbols |-> positions[s] * Flat(s)]' = [s \in Symbols |-> positions[s] * Flat(s)]
    BY <1>1, <1>3
  <2> QED
    BY <1>1, <1>2, <2>2, <2>3 DEF FlatInv
<1>15. FlowsAreNotPerformance'
  <2>1. ASSUME FlatMarket, NEW i \in 2..(n + 1)
        PROVE  points'[i].total - points'[i].flow = points'[i - 1].total
    <3>1. CASE i = n + 1
      <4>1. n \in 1..n /\ i - 1 = n /\ points # << >>
        BY <1>9, <3>1
      <4>2. cash + SumFunction([s \in Symbols |-> positions[s] * Flat(s)]) =
              points[n].total + pending
        BY <2>1, <4>1 DEF ValuationInv, FlatInv, n
      <4>3. Total = points[n].total + pending
        BY <1>13, <2>1, <4>2
      <4>4. points[n].total \in Int /\ pending \in Int
        BY <1>22, <1>9, <4>1 DEF PointType
      <4> QED
        BY <1>7, <1>10, <3>1, <4>1, <4>3, <4>4
    <3>2. CASE i # n + 1
      <4>1. i \in 2..n /\ i \in 1..n /\ i - 1 \in 1..n
        BY <1>9, <3>2
      <4>2. points[i].total - points[i].flow = points[i - 1].total
        BY <2>1, <4>1 DEF ValuationInv, FlowsAreNotPerformance, Adjusted, n
      <4> QED
        BY <1>10, <4>1, <4>2
    <3> QED
      BY <3>1, <3>2
  <2> QED
    BY <1>2, <1>10, <2>1 DEF FlowsAreNotPerformance, Adjusted
<1>16. PhaseInv'
  BY <1>3, <1>4 DEF PhaseInv
<1>17. CalendarInv' /\ LatestInv'
  BY <1>1, <1>2, <1>3, <1>4 DEF CalendarInv, LatestInv, InLoop, Seen
<1>18. TodoInv'
  <2>1. points'[Len(points')].day = day
    BY <1>7, <1>10
  <2> QED
    BY <1>1, <1>2, <1>4, <2>1 DEF TodoInv
<1>19. PositionsInv'
  BY <1>1, <1>2 DEF ValuationInv, PositionsInv
<1>20. ValuationTypeOK'
  <2>1. points' \in Seq([day : Start..End, total : Nat \ {0}, cash : Nat, flow : Int])
    BY <1>10 DEF PointType
  <2>2. pending' \in Int /\ phase' \in {"fetch", "open", "day", "apply", "done", "told"}
    OBVIOUS
  <2>3. /\ weather' \in [DOMAIN weather' -> Conditions] /\ DOMAIN weather' \subseteq Symbols
        /\ latest' \in [DOMAIN latest' -> Nat \ {0}] /\ DOMAIN latest' \subseteq Symbols
    BY <1>1, <1>4 DEF ValuationTypeOK
  <2>4. ValuationTypeOK
    BY <1>4
  <2> HIDE DEF PointType
  <2> QED
    BY <1>1, <2>1, <2>2, <2>3, <2>4 DEF ValuationTypeOK
<1>21. MarketDataHonest' /\ AgreesWithLedger'
  <2>1. MarketDataHonest /\ AgreesWithLedger
    BY DEF ValuationInv
  <2>2. AgreesWithLedger'
    BY <1>1, <2>1 DEF AgreesWithLedger
  <2> QED
    BY <1>1, <1>2, <2>1, <2>2 DEF MarketDataHonest
<1> QED
  BY <1>11, <1>12, <1>14, <1>15, <1>16, <1>17, <1>18, <1>19, <1>20, <1>21 DEF ValuationInv

(* The end of a date, with or without a point.                             *)
LEMMA ValueStep == ASSUME ValuationInv, Value PROVE ValuationInv'
<1>1. CASE Valuatable
  BY <1>1, PointStep DEF Value
<1>2. CASE ~Valuatable
  BY <1>2, SkipStep DEF Value
<1> QED
  BY <1>1, <1>2

(* The row that is applied next: all rows before it have been.             *)
LEMMA NextRow ==
  ASSUME ValuationInv, phase = "apply", NEW t \in todo, IsNext(t)
  PROVE  /\ t \in txs /\ t \in InRange /\ t \notin Applied /\ Applied \in SUBSET txs
         /\ Applied = {u \in txs : LedgerOrder(u, t)}
         /\ t.kind = "SELL" => positions[t.sym] >= t.qty
<1>1. TodoInv /\ PositionsInv /\ txs \in Ledgers /\ ValuationTypeOK
  BY DEF ValuationInv, ValuationTypeOK
<1>2. t \in txs /\ t \in InRange /\ t \notin Applied /\ Applied \in SUBSET txs
  BY <1>1 DEF TodoInv, Applied, InRange
<1>3. \A u \in Applied : LedgerOrder(u, t)
  BY <1>1 DEF TodoInv
<1>4. ASSUME NEW u \in txs, LedgerOrder(u, t) PROVE u \in Applied
  <2>1. u # t /\ ~LedgerOrder(t, u) /\ u.at <= t.at
    BY <1>1, <1>2, <1>4, OrderFacts
  <2>2. u \notin todo
    BY <2>1 DEF IsNext
  <2>3. u.at \in Nat /\ t.at \in Nat /\ t.at <= End
    BY <1>1, <1>2, LedgerFacts DEF InRange
  <2> QED
    BY <2>1, <2>2, <2>3, IntervalAssumption DEF Applied
<1>5. Applied = {u \in txs : LedgerOrder(u, t)}
  BY <1>2, <1>3, <1>4
<1>6. ASSUME t.kind = "SELL" PROVE positions[t.sym] >= t.qty
  <2>1. t.sym \in Symbols
    BY <1>1, <1>2, <1>6, LedgerFacts
  <2>2. positions[t.sym] = Quantity(Applied, t.sym)
    BY <1>1, <2>1 DEF PositionsInv
  <2> QED
    BY <1>1, <1>2, <1>5, <1>6, <2>2, SellsAreCovered
<1> QED
  BY <1>2, <1>5, <1>6

(* The change of the positions is that of the ledger's replay.             *)
LEMMA PositionsStep ==
  ASSUME ValuationInv, phase = "apply", NEW t \in todo, IsNext(t), todo' = todo \ {t},
         UNCHANGED txs,
         positions' = [s \in Symbols |-> positions[s] + (IF s = t.sym THEN SignedQuantity(t) ELSE 0)]
  PROVE  /\ Applied' = Applied \cup {t} /\ TodoInv /\ PositionsInv'
         /\ positions' \in [Symbols -> Nat] /\ SignedQuantity(t) \in Int
<1>1. /\ t \in txs /\ t \in InRange /\ t \notin Applied /\ Applied \in SUBSET txs
      /\ (t.kind = "SELL" => positions[t.sym] >= t.qty)
  BY NextRow
<1>2. TodoInv /\ PositionsInv /\ txs \in Ledgers /\ positions \in [Symbols -> Nat]
  BY DEF ValuationInv, ValuationTypeOK
<1>3. Applied' = Applied \cup {t}
  BY <1>1 DEF Applied, InRange
<1>4. SignedQuantity(t) \in Int /\ t.qty \in Nat
  BY <1>1, <1>2, LedgerFacts
<1>5. \A s \in Symbols : Quantity(Applied \cup {t}, s) =
        Quantity(Applied, s) + (IF t.sym = s THEN SignedQuantity(t) ELSE 0)
  <2>1. t \in txs \ Applied /\ Applied \in SUBSET txs
    BY <1>1
  <2> TAKE s \in Symbols
  <2>2. \A u \in txs \ Applied : Quantity(Applied \cup {u}, s) =
          Quantity(Applied, s) + (IF u.sym = s THEN SignedQuantity(u) ELSE 0)
    BY <1>2, <2>1, QuantityFacts
  <2> QED
    BY <2>1, <2>2
<1>6. \A s \in Symbols : positions'[s] = Quantity(Applied \cup {t}, s)
  BY <1>2, <1>5 DEF PositionsInv
<1>7. PositionsInv'
  BY <1>3, <1>6 DEF PositionsInv
<1>8. \A s \in Symbols : positions'[s] \in Nat
  <2> TAKE s \in Symbols
  <2>1. positions[s] \in Nat
    BY <1>2
  <2>2. CASE s = t.sym
    <3>1. SignedQuantity(t) >= 0 \/ (t.kind = "SELL" /\ SignedQuantity(t) = -t.qty)
      BY <1>4, <1>1, <1>2, LedgerFacts DEF SignedQuantity
    <3>2. positions'[s] = positions[s] + SignedQuantity(t)
      BY <2>2
    <3> QED
      BY <1>1, <1>4, <2>1, <2>2, <3>1, <3>2
  <2>3. CASE s # t.sym
    BY <2>1, <2>3
  <2> QED
    BY <2>2, <2>3
<1> QED
  BY <1>2, <1>3, <1>4, <1>7, <1>8

(* A trade at the one price there is changes no portfolio's value.         *)
LEMMA FlatStep ==
  ASSUME ValuationInv, phase = "apply", NEW t \in todo, IsNext(t),
         FlatMarket, points # << >>,
         positions' = [s \in Symbols |-> positions[s] + (IF s = t.sym THEN SignedQuantity(t) ELSE 0)],
         positions' \in [Symbols -> Nat], UNCHANGED <<txs, prices>>
  PROVE  /\ t.fees = 0
         /\ SumFunction([s \in Symbols |-> positions[s] * Flat(s)]) \in Int
         /\ SumFunction([s \in Symbols |-> positions[s] * Flat(s)])' =
              SumFunction([s \in Symbols |-> positions[s] * Flat(s)]) - Trade(t)
<1> DEFINE fun == [s \in Symbols |-> positions[s] * Flat(s)]
           gun == [s \in Symbols |-> positions'[s] * Flat(s)]
<1>1. /\ t \in txs /\ t \in InRange /\ Supplied /\ market \in Markets /\ txs \in Ledgers
      /\ positions \in [Symbols -> Nat] /\ ValuationTypeOK /\ TodoInv
  BY NextRow DEF ValuationInv, ValuationTypeOK, PhaseInv
<1>2. \A s \in Symbols : Flat(s) \in Nat /\ Flat(s)' = Flat(s)
  <2>1. Required' = Required
    BY DEF Required
  <2> QED
    BY <1>1, <2>1, FlatFacts DEF Flat
<1>3. IsFiniteSet(Symbols) /\ \A s \in Symbols : fun[s] \in Int /\ gun[s] \in Int
  <2>1. \A s \in Symbols : positions[s] \in Nat /\ positions'[s] \in Nat /\ Flat(s) \in Nat
    BY <1>1, <1>2
  <2> QED
    BY <2>1, SymbolsAssumption
<1>4. fun = [s \in Symbols |-> fun[s]] /\ gun = [s \in Symbols |-> gun[s]]
  OBVIOUS
<1>5. gun = [s \in Symbols |-> positions[s] * Flat(s)]'
  BY <1>2
<1>6. t.fees = 0 /\ Trade(t) \in Int
  BY <1>1, LedgerSums DEF FlatMarket
<1>7. CASE t.sym \in Symbols
  <2>1. t.kind \in {"BUY", "SELL"} /\ t.at \in Nat /\ t.qty \in Nat /\ t.price \in Nat
    BY <1>1, <1>7, LedgerFacts
  <2>2. t.at > points[Len(points)].day /\ t.at <= End
    BY <1>1 DEF TodoInv, InRange
  <2>3. points[Len(points)].day \in Start..End
    <3>1. Len(points) \in 1..Len(points)
      BY <1>1, PointFacts
    <3> QED
      BY <1>1, <3>1, PointFacts DEF PointType
  <2>4. t.sym \in Required
    BY <1>1, <1>7, <2>1, <2>2, <2>3, IntervalAssumption DEF Required
  <2>5. Flat(t.sym) = t.price
    <3>1. PICK d \in DOMAIN prices[t.sym] : Flat(t.sym) = prices[t.sym][d]
      BY <1>1, <1>7, <2>4, FlatFacts
    <3> QED
      BY <1>1, <2>1, <3>1 DEF FlatMarket
  <2>6. gun[t.sym] = fun[t.sym] + -Trade(t)
    <3>1. \/ SignedQuantity(t) = t.qty /\ Trade(t) = -(t.qty * t.price)
          \/ SignedQuantity(t) = -t.qty /\ Trade(t) = t.qty * t.price
      BY <2>1 DEF SignedQuantity, Trade
    <3>2. positions[t.sym] \in Nat /\ positions'[t.sym] = positions[t.sym] + SignedQuantity(t)
      BY <1>1, <1>7
    <3>3. fun[t.sym] = positions[t.sym] * t.price /\ gun[t.sym] = positions'[t.sym] * t.price
      BY <1>7, <2>5
    <3> HIDE DEF fun, gun
    <3> QED
      BY <2>1, <3>1, <3>2, <3>3
  <2>7. \A s \in Symbols \ {t.sym} : gun[s] = fun[s]
    <3> TAKE s \in Symbols \ {t.sym}
    <3>1. positions'[s] = positions[s] + 0 /\ positions[s] \in Nat
      BY <1>1
    <3> QED
      BY <3>1
  <2> HIDE DEF fun, gun
  <2>8. -Trade(t) \in Int /\ Trade(t) \in Int
    BY <1>6
  <2>9. Part(gun, Symbols) = Part(fun, Symbols) + -Trade(t)
    BY <1>3, <1>7, <2>6, <2>7, <2>8, SumChange
  <2>10. PartsSplit(fun, Symbols)
    BY <1>3, SumFacts
  <2>11. Part(fun, Symbols) \in Int
    BY <2>10 DEF PartsSplit
  <2>12. Part(gun, Symbols) = SumFunction(gun) /\ Part(fun, Symbols) = SumFunction(fun)
    BY <1>4 DEF Part
  <2>13. SumFunction(fun) \in Int /\ SumFunction(gun) = SumFunction(fun) - Trade(t)
    BY <2>8, <2>9, <2>11, <2>12
  <2> QED
    BY <1>5, <1>6, <2>13 DEF fun
<1>8. CASE t.sym \notin Symbols
  <2>1. t.kind \notin {"BUY", "SELL"} /\ Trade(t) = 0
    BY <1>1, <1>8, LedgerFacts DEF Trade
  <2>2. fun = gun
    <3>1. \A s \in Symbols : positions'[s] = positions[s] + 0 /\ positions[s] \in Nat
      BY <1>1, <1>8
    <3>2. \A s \in Symbols : positions'[s] = positions[s]
      BY <3>1
    <3> QED
      BY <3>2
  <2>3. SumFunction(fun) \in Int
    <3> HIDE DEF fun
    <3>1. PartsSplit(fun, Symbols)
      BY <1>3, SumFacts
    <3> QED
      BY <1>4, <3>1 DEF PartsSplit, Part
  <2>4. SumFunction(gun) = SumFunction(fun) - Trade(t)
    <3> HIDE DEF fun, gun
    <3> QED
      BY <2>1, <2>2, <2>3
  <2> HIDE DEF gun
  <2> QED
    BY <1>5, <1>6, <2>3, <2>4
<1> QED
  BY <1>7, <1>8

(* A row that _apply_transaction accepts.                                  *)
LEMMA BookStep ==
  ASSUME ValuationInv, phase = "apply", NEW t \in todo, IsNext(t),
         NEW flow \in Int, NEW change \in Int, Book(t, flow, change),
         change = flow + Trade(t) - t.fees, cash + change >= 0
  PROVE  ValuationInv'
<1>1. /\ cash' = cash + change /\ pending' = pending + flow /\ todo' = todo \ {t}
      /\ positions' =
           [s \in Symbols |-> positions[s] + (IF s = t.sym THEN SignedQuantity(t) ELSE 0)]
      /\ UNCHANGED <<txs, market, weather, prices, stale, dates, day, phase, latest, points,
                     outcome, report>>
  BY DEF Book, inputs
<1>2. /\ t \in txs /\ t \in InRange /\ t \notin Applied /\ Applied \in SUBSET txs
      /\ PhaseInv /\ CalendarInv /\ LatestInv /\ TodoInv /\ ValuationTypeOK
  BY NextRow DEF ValuationInv
<1>3. /\ Applied' = Applied \cup {t} /\ PositionsInv'
      /\ positions' \in [Symbols -> Nat]
  BY <1>1, PositionsStep
<1>4. Required' = Required /\ InRange' = InRange /\ FlatMarket' = FlatMarket
  BY <1>1 DEF Required, InRange, FlatMarket
<1>5. Sessions' = Sessions /\ Supplied' = Supplied
  BY <1>1, <1>4 DEF Sessions, Supplied, Series
<1>6. cash \in Int /\ pending \in Int /\ txs \in Ledgers
  <2>1. cash \in Nat /\ pending \in Int /\ txs \in Ledgers
    BY <1>2 DEF ValuationTypeOK
  <2> QED
    BY <2>1
<1>7. Trade(t) \in Int /\ t.fees \in Nat
  BY <1>2, <1>6, LedgerSums, LedgerFacts
<1>8. PhaseInv'
  BY <1>1, <1>2, <1>5 DEF PhaseInv
<1>9. CalendarInv' /\ LatestInv'
  BY <1>1, <1>2, <1>4, <1>5 DEF CalendarInv, LatestInv, InLoop, Seen
<1>10. TodoInv'
  <2>1. t.at <= day /\ \A u \in todo' : u \in todo /\ LedgerOrder(t, u)
    BY <1>1 DEF IsNext
  <2>2. \A u \in Applied' : u.at <= day' /\ \A v \in todo' : LedgerOrder(u, v)
    BY <1>1, <1>2, <1>3, <2>1 DEF TodoInv
  <2> QED
    BY <1>1, <1>2, <1>4, <2>1, <2>2 DEF TodoInv
<1>11. NoLookAhead'
  BY <1>1 DEF ValuationInv, NoLookAhead
<1>12. FlowsAreNotPerformance'
  BY <1>1, <1>4 DEF ValuationInv, FlowsAreNotPerformance, Adjusted
<1>13. FlowsBalance'
  <2>1. /\ Traded(Applied) \in Int /\ Charged(Applied) \in Int
        /\ Traded(Applied \cup {t}) = Traded(Applied) + Trade(t)
        /\ Charged(Applied \cup {t}) = Charged(Applied) + t.fees
    <3>1. t \in txs \ Applied
      BY <1>2
    <3> QED
      BY <1>2, <1>6, <3>1, LedgerSums
  <2>2. Flowed \in Int
    BY <1>2, FlowedFacts
  <2>3. cash = Flowed + pending + Traded(Applied) - Charged(Applied)
    BY FlowsBalanceMeans DEF ValuationInv
  <2>4. cash' = Flowed + pending' + Traded(Applied \cup {t}) - Charged(Applied \cup {t})
    BY <1>1, <1>6, <1>7, <2>1, <2>2, <2>3
  <2>5. (FlowsBalance <=> cash = Flowed + pending + Traded(Applied) - Charged(Applied))'
    BY FlowsBalanceMeans, PTL
  <2>6. Flowed' = Flowed
    BY <1>1 DEF Flowed
  <2>7. Traded(Applied)' = Traded(Applied \cup {t}) /\ Charged(Applied)' = Charged(Applied \cup {t})
    BY <1>3 DEF Traded, Charged
  <2> QED
    BY <2>4, <2>5, <2>6, <2>7
<1>14. FlatInv'
  <2>1. SUFFICES ASSUME FlatMarket, points # << >>
                 PROVE  cash' + SumFunction([s \in Symbols |-> positions[s] * Flat(s)])' =
                          points[Len(points)].total + pending'
    BY <1>1, <1>4 DEF FlatInv
  <2> DEFINE worth == SumFunction([s \in Symbols |-> positions[s] * Flat(s)])
             total == points[Len(points)].total
  <2>2. t.fees = 0 /\ worth \in Int /\ worth' = worth - Trade(t)
    BY <1>1, <1>3, <2>1, FlatStep
  <2>3. cash + worth = total + pending
    BY <2>1 DEF ValuationInv, FlatInv
  <2>4. total \in Int
    <3>1. Len(points) \in 1..Len(points) /\ PointType \subseteq [day : Start..End, total : Nat, cash : Nat, flow : Int]
      BY <1>2, <2>1, PointFacts DEF PointType
    <3> QED
      BY <1>2, <3>1, PointFacts DEF PointType
  <2> HIDE DEF worth, total
  <2>5. cash' + (worth - Trade(t)) = total + pending'
    BY <1>1, <1>6, <1>7, <2>2, <2>3, <2>4
  <2> QED
    BY <2>2, <2>5 DEF worth, total
<1>15. ValuationTypeOK'
  <2>1. cash' \in Nat /\ pending' \in Int /\ todo' \subseteq txs'
    <3>1. cash + change \in Nat /\ pending + flow \in Int
      BY <1>6
    <3> QED
      BY <1>1, <1>2, <3>1 DEF ValuationTypeOK
  <2>2. /\ weather' \in [DOMAIN weather' -> Conditions] /\ DOMAIN weather' \subseteq Symbols
        /\ latest' \in [DOMAIN latest' -> Nat \ {0}] /\ DOMAIN latest' \subseteq Symbols
    BY <1>1, <1>2 DEF ValuationTypeOK
  <2> QED
    BY <1>1, <1>2, <1>3, <2>1, <2>2 DEF ValuationTypeOK
<1>16. MarketDataHonest' /\ AgreesWithLedger'
  <2>1. MarketDataHonest /\ AgreesWithLedger
    BY DEF ValuationInv
  <2>2. AgreesWithLedger'
    BY <1>1, <2>1 DEF AgreesWithLedger
  <2> QED
    BY <1>1, <1>4, <2>1, <2>2 DEF MarketDataHonest
<1> QED
  BY <1>3, <1>8, <1>9, <1>10, <1>11, <1>12, <1>13, <1>14, <1>15, <1>16 DEF ValuationInv

(* A row it refuses for the cash there is.                                 *)
LEMMA RefuseStep == ASSUME ValuationInv, Refuse("overdrawn") PROVE ValuationInv'
<1>1. report.unavailable \subseteq Lacking /\ report' = report
  BY DEF ValuationInv, ValuationTypeOK, Lacking, Refuse
<1> QED
  BY <1>1, StopStep DEF Refuse, Stop, Reasons

(* Every row takes one of the two ways; a SELL that exceeds the position   *)
(* would be one that the write path refused.                               *)
LEMMA ApplyStep == ASSUME ValuationInv, Apply PROVE ValuationInv'
<1>1. PICK t \in todo : IsNext(t) /\ (Deposit(t) \/ Withdraw(t) \/ Buy(t) \/ Sell(t))
  BY DEF Apply
<1>2. phase = "apply"
  BY DEF Apply
<1>3. /\ t \in txs /\ txs \in Ledgers
      /\ (t.kind = "SELL" => positions[t.sym] >= t.qty)
  BY <1>1, <1>2, NextRow DEF ValuationInv, ValuationTypeOK
<1>4. t.qty \in Nat /\ t.price \in Nat /\ t.cash \in Nat /\ t.fees \in Nat
  BY <1>3, LedgerFacts
<1>5. cash \in Nat
  BY DEF ValuationInv, ValuationTypeOK
<1>6. PICK c \in Int : c = t.qty * t.price /\ c >= 0
  BY <1>4
<1>7. CASE Deposit(t)
  <2>1. CASE Refuse("overdrawn")
    BY <2>1, RefuseStep
  <2>2. CASE Book(t, t.cash, t.cash - t.fees) /\ ~(cash + t.cash < t.fees)
    <3>1. Trade(t) = 0
      BY <1>7 DEF Deposit, Trade
    <3>2. /\ t.cash \in Int /\ t.cash - t.fees \in Int /\ cash + (t.cash - t.fees) >= 0
          /\ t.cash - t.fees = t.cash + Trade(t) - t.fees
      BY <1>4, <1>5, <2>2, <3>1
    <3> QED
      BY <1>1, <1>2, <2>2, <3>2, BookStep
  <2> QED
    BY <1>7, <2>1, <2>2 DEF Deposit
<1>8. CASE Withdraw(t)
  <2>1. CASE Refuse("overdrawn")
    BY <2>1, RefuseStep
  <2>2. CASE Book(t, -t.cash, -(t.cash + t.fees)) /\ ~(t.cash + t.fees > cash)
    <3>1. Trade(t) = 0
      BY <1>8 DEF Withdraw, Trade
    <3>2. /\ -t.cash \in Int /\ -(t.cash + t.fees) \in Int /\ cash + -(t.cash + t.fees) >= 0
          /\ -(t.cash + t.fees) = -t.cash + Trade(t) - t.fees
      BY <1>4, <1>5, <2>2, <3>1
    <3> QED
      BY <1>1, <1>2, <2>2, <3>2, BookStep
  <2> QED
    BY <1>8, <2>1, <2>2 DEF Withdraw
<1>9. CASE Buy(t)
  <2>1. Trade(t) = -c
    BY <1>6, <1>9 DEF Buy, Trade
  <2>2. PICK added \in Int : added = Contribution(c + t.fees) /\ cash + (added - (c + t.fees)) >= 0
    BY <1>4, <1>5, <1>6 DEF Contribution
  <2>3. Book(t, added, added - (c + t.fees))
    BY <1>6, <1>9, <2>2 DEF Buy
  <2>4. added - (c + t.fees) \in Int /\ added - (c + t.fees) = added + Trade(t) - t.fees
    BY <1>4, <1>6, <2>1, <2>2
  <2> QED
    BY <1>1, <1>2, <2>2, <2>3, <2>4, BookStep
<1>10. CASE Sell(t)
  <2>1. CASE Refuse("overdrawn")
    BY <2>1, RefuseStep
  <2>2. CASE Book(t, 0, c - t.fees) /\ ~(cash + c < t.fees)
    <3>1. Trade(t) = c
      BY <1>6, <1>10 DEF Sell, Trade
    <3>2. /\ 0 \in Int /\ c - t.fees \in Int /\ cash + (c - t.fees) >= 0
          /\ c - t.fees = 0 + Trade(t) - t.fees
      BY <1>4, <1>5, <1>6, <2>2, <3>1
    <3> QED
      BY <1>1, <1>2, <2>2, <3>2, BookStep
  <2>3. ~(positions[t.sym] < t.qty)
    <3>1. t.kind = "SELL" /\ t.sym \in Symbols
      BY <1>3, <1>10, LedgerFacts DEF Sell
    <3>2. positions[t.sym] \in Nat
      BY <3>1 DEF ValuationInv, ValuationTypeOK
    <3> QED
      BY <1>3, <1>4, <3>1, <3>2
  <2> QED
    BY <1>6, <1>10, <2>1, <2>2, <2>3 DEF Sell
<1> QED
  BY <1>1, <1>7, <1>8, <1>9, <1>10

(* A step of nothing.                                                      *)
LEMMA StutterStep == ASSUME ValuationInv, UNCHANGED valuation PROVE ValuationInv'
<1>1. /\ UNCHANGED locals
      /\ UNCHANGED <<weather, stale, dates, day, phase, latest, outcome, report>>
  BY DEF valuation, inputs, locals
<1>2. /\ NoLookAhead' = NoLookAhead /\ FlowsBalance' = FlowsBalance
      /\ FlowsAreNotPerformance' = FlowsAreNotPerformance
      /\ PositionsInv' = PositionsInv /\ FlatInv' = FlatInv
      /\ Required' = Required /\ Supplied' = Supplied /\ Unsupplied' = Unsupplied
      /\ Sessions' = Sessions /\ InRange' = InRange /\ Applied' = Applied
  BY <1>1, LocalsUnchanged
<1>3. PhaseInv' = PhaseInv
  BY <1>1, <1>2 DEF PhaseInv, Fresh, locals
<1>4. CalendarInv' = CalendarInv /\ LatestInv' = LatestInv
  BY <1>1, <1>2 DEF CalendarInv, LatestInv, InLoop, Seen, locals
<1>5. TodoInv' = TodoInv
  BY <1>1, <1>2 DEF TodoInv, locals
<1>6. ValuationTypeOK' = ValuationTypeOK
  BY <1>1 DEF ValuationTypeOK, locals
<1>7. AgreesWithLedger' = AgreesWithLedger /\ MarketDataHonest' = MarketDataHonest
  BY <1>1, <1>2 DEF AgreesWithLedger, MarketDataHonest, locals
<1> QED
  BY <1>2, <1>3, <1>4, <1>5, <1>6, <1>7 DEF ValuationInv

(* The invariant is inductive.                                             *)
THEOREM ValuationInvariance == ValuationSpec => []ValuationInv
<1>1. ValuationInv /\ [ValuationNext]_valuation => ValuationInv'
  <2> SUFFICES ASSUME ValuationInv, [ValuationNext]_valuation PROVE ValuationInv'
    OBVIOUS
  <2>1. CASE Fetch
    BY <2>1, FetchStep
  <2>2. CASE NothingHeld
    BY <2>2, NothingHeldStep
  <2>3. CASE Open
    BY <2>3, OpenStep
  <2>4. CASE NextDay
    BY <2>4, NextDayStep
  <2>5. CASE Apply
    BY <2>5, ApplyStep
  <2>6. CASE Value
    BY <2>6, ValueStep
  <2>7. CASE Finish
    BY <2>7, FinishStep
  <2>8. CASE Report
    BY <2>8, ReportStep
  <2>9. CASE UNCHANGED valuation
    BY <2>9, StutterStep
  <2> QED
    BY <2>1, <2>2, <2>3, <2>4, <2>5, <2>6, <2>7, <2>8, <2>9 DEF ValuationNext
<1> QED
  BY <1>1, ValuationInitInv, PTL DEF ValuationSpec

(* The loop's locals have their types; no balance is ever negative.        *)
THEOREM ValuationTypes == ValuationSpec => []ValuationTypeOK
BY ValuationInvariance, PTL DEF ValuationInv

(* No analysis contradicts the ledger that was accepted, or lacks a price  *)
(* of what is held.                                                        *)
THEOREM AnalysisAgreesWithLedger == ValuationSpec => []AgreesWithLedger
BY ValuationInvariance, PTL DEF ValuationInv

(* The series that is valued is the market's, or the error names what      *)
(* befell a symbol.                                                        *)
THEOREM SeriesAreHonest == ValuationSpec => []MarketDataHonest
BY ValuationInvariance, PTL DEF ValuationInv

(* Every point is the value of what the ledger holds at the end of its day.*)
THEOREM PointsDoNotLookAhead == ValuationSpec => []NoLookAhead
BY ValuationInvariance, PTL DEF ValuationInv

(* Cash is what the flows, the trades and the fees make of it.             *)
THEOREM FlowsAlwaysBalance == ValuationSpec => []FlowsBalance
BY ValuationInvariance, PTL DEF ValuationInv

(* In a flat market no flow is taken for performance.                      *)
THEOREM FlowsAreNeverPerformance == ValuationSpec => []FlowsAreNotPerformance
BY ValuationInvariance, PTL DEF ValuationInv

-----------------------------------------------------------------------------
(* The report.                                                             *)

(* The loop of derive_positions raises exactly on the ledgers Replays      *)
(* refuses, and returns exactly DerivePositions.                           *)
THEOREM LoopSaysTheSame == ValuationSpec => []LoopAgrees
<1>1. ValuationTypeOK => LoopAgrees
  <2> SUFFICES ASSUME ValuationTypeOK, NEW part \in SUBSET txs
               PROVE  /\ Raises(part) <=> ~Replays(part)
                      /\ ~Raises(part) => Returned(part) = DerivePositions(part)
    BY DEF LoopAgrees
  <2>1. txs \in Ledgers
    BY DEF ValuationTypeOK
  <2> QED
    BY <2>1, LoopIsReplay
<1> QED
  BY <1>1, ValuationTypes, PTL

(* What is known once the series are there, and of what was valued.        *)
Disclosed == stale <=> \E s \in Required : weather[s] \in Transient
Grown == points # << >> /\ \A i \in 2..Len(points) : Adjusted(i) > 0

(* What the report says of the points.                                     *)
Told(r, g, old) ==
  /\ r.return = Compounded(g) /\ r.drawdown = Drawdown(g)
  /\ r.unavailable = Limitations(Missing(g), old)

ReportInv ==
  /\ phase \in {"open", "day", "apply"} => Disclosed /\ outcome = "running"
  /\ outcome = "valued" => phase \in {"done", "told"} /\ Disclosed /\ Grown
  /\ phase = "told" => outcome = "valued" /\ Told(report, Growth, stale)

(* The steps that neither fetch nor report.                                *)
LEMMA LoopStep ==
  ASSUME ReportInv, UNCHANGED <<txs, weather, stale>>, phase \in {"open", "day", "apply"},
         \/ phase' \in {"open", "day", "apply"} /\ outcome' = outcome
         \/ phase' = "done" /\ outcome' # "valued"
         \/ phase' = "done" /\ UNCHANGED points /\ Grown
  PROVE  ReportInv'
<1>1. Required' = Required
  BY DEF Required
<1>2. Disclosed' = Disclosed
  BY <1>1 DEF Disclosed
<1>3. UNCHANGED points => Grown' = Grown
  BY DEF Grown, Adjusted
<1>4. Disclosed /\ outcome = "running" /\ phase' # "told"
  BY DEF ReportInv
<1>5. Disclosed' /\ (outcome' = "valued" => phase' = "done" /\ Grown')
  BY <1>2, <1>3, <1>4
<1>6. phase' \in {"open", "day", "apply"} => outcome' = "running"
  BY <1>4
<1> QED
  BY <1>4, <1>5, <1>6 DEF ReportInv

(* The prices are stale if those of some symbol are a retained copy.       *)
LEMMA FetchDiscloses == ASSUME ValuationInv, ReportInv, Fetch PROVE ReportInv'
<1>1. market \in Markets /\ outcome = "running" /\ Required' = Required
  BY DEF ValuationInv, PhaseInv, Fetch, ValuationTypeOK, Required
<1>2. \A s \in Required : s \in Symbols
  BY DEF Required
<1>3. PICK adapter \in Adapters : \E got \in [Required -> UNION {Got(adapter, s) : s \in Required}] :
         /\ \A s \in Required : got[s] \in Got(adapter, s)
         /\ weather' = [s \in Required |-> got[s].at]
         /\ \/ /\ \A s \in Required : got[s].error = "none"
               /\ stale' = \E s \in Required : got[s].stale
               /\ phase' = "open" /\ outcome' = outcome
            \/ \E s \in Required : got[s].error # "none" /\ Stop(got[s].error)
  BY DEF Fetch
<1>4. PICK got \in [Required -> UNION {Got(adapter, s) : s \in Required}] :
         /\ \A s \in Required : got[s] \in Got(adapter, s)
         /\ weather' = [s \in Required |-> got[s].at]
         /\ \/ /\ \A s \in Required : got[s].error = "none"
               /\ stale' = \E s \in Required : got[s].stale
               /\ phase' = "open" /\ outcome' = outcome
            \/ \E s \in Required : got[s].error # "none" /\ Stop(got[s].error)
  BY <1>3
<1>5. \A s \in Required :
        /\ Explained(got[s], got[s].at, market[s], Start, End)
        /\ got[s].error = "none" => (got[s].stale <=> got[s].at \in Transient)
        /\ weather'[s] = got[s].at
  BY <1>1, <1>2, <1>4, GotFacts
<1>6. CASE /\ \A s \in Required : got[s].error = "none"
           /\ stale' = \E s \in Required : got[s].stale
           /\ phase' = "open" /\ outcome' = outcome
  <2>1. stale' <=> \E s \in Required : weather'[s] \in Transient
    BY <1>5, <1>6
  <2> QED
    BY <1>1, <1>6, <2>1 DEF ReportInv, Disclosed
<1>7. CASE \E s \in Required : got[s].error # "none" /\ Stop(got[s].error)
  <2>1. PICK s \in Required : got[s].error # "none" /\ Stop(got[s].error)
    BY <1>7
  <2>2. phase' = "done" /\ outcome' # "valued"
    BY <1>5, <2>1 DEF Stop, Explained, Errors
  <2> QED
    BY <2>2 DEF ReportInv
<1> QED
  BY <1>4, <1>6, <1>7

(* A row changes nothing the report rests on.                              *)
LEMMA ApplyDiscloses == ASSUME ReportInv, Apply PROVE ReportInv'
<1>1. UNCHANGED <<txs, weather, stale>> /\ phase = "apply"
  BY DEF Apply, Deposit, Withdraw, Buy, Sell, Book, Refuse, inputs
<1>2. \/ phase' = phase /\ outcome' = outcome
      \/ phase' = "done" /\ outcome' \in {"overdrawn", "oversold"}
  BY DEF Apply, Deposit, Withdraw, Buy, Sell, Book, Refuse, Stop
<1> QED
  BY <1>1, <1>2, LoopStep

(* A portfolio is valued only with points whose growths are positive.      *)
LEMMA FinishDiscloses == ASSUME ReportInv, Finish PROVE ReportInv'
<1>1. UNCHANGED <<txs, weather, stale>> /\ phase = "day" /\ phase' = "done" /\ UNCHANGED points
  BY DEF Finish, inputs, Stop
<1>2. outcome' = "valued" => Grown
  BY DEF Finish, Stop, Grown
<1> QED
  BY <1>1, <1>2, LoopStep

(* The report is that of the points.                                       *)
LEMMA ReportDiscloses == ASSUME ReportInv, Report PROVE ReportInv'
<1>1. /\ phase' = "told" /\ outcome' = "valued" /\ outcome = "valued"
      /\ UNCHANGED <<txs, weather, stale, points>>
  BY DEF Report, inputs
<1>2. Required' = Required /\ Growth' = Growth
  BY <1>1 DEF Required, Growth, Adjusted
<1>3. Disclosed' /\ Grown'
  BY <1>1, <1>2 DEF ReportInv, Disclosed, Grown, Adjusted
<1>4. Told(report', Growth, stale)
  BY DEF Report, Told
<1> QED
  BY <1>1, <1>2, <1>3, <1>4 DEF ReportInv

(* The report is that of the points, and stale prices are known as such.   *)
THEOREM ReportInvariance == ValuationSpec => []ReportInv
<1>1. ValuationInit => ReportInv
  BY DEF ValuationInit, ReportInv
<1>2. ValuationInv /\ ReportInv /\ [ValuationNext]_valuation => ReportInv'
  <2> SUFFICES ASSUME ValuationInv, ReportInv, [ValuationNext]_valuation PROVE ReportInv'
    OBVIOUS
  <2>1. CASE Fetch
    BY <2>1, FetchDiscloses
  <2>2. CASE NothingHeld
    BY <2>2 DEF NothingHeld, Stop, ReportInv
  <2>3. CASE Open
    <3>1. UNCHANGED <<txs, weather, stale>> /\ phase = "open"
      BY <2>3 DEF Open, inputs
    <3>2. \/ phase' = "day" /\ outcome' = outcome
          \/ phase' = "done" /\ outcome' # "valued"
      BY <2>3 DEF Open, Stop
    <3> QED
      BY <3>1, <3>2, LoopStep
  <2>4. CASE NextDay
    <3>1. UNCHANGED <<txs, weather, stale, outcome>> /\ phase = "day" /\ phase' = "apply"
      BY <2>4 DEF NextDay, inputs
    <3> QED
      BY <3>1, LoopStep
  <2>5. CASE Apply
    BY <2>5, ApplyDiscloses
  <2>6. CASE Value
    <3>1. UNCHANGED <<txs, weather, stale, outcome>> /\ phase = "apply" /\ phase' = "day"
      BY <2>6 DEF Value, inputs
    <3> QED
      BY <3>1, LoopStep
  <2>7. CASE Finish
    BY <2>7, FinishDiscloses
  <2>8. CASE Report
    BY <2>8, ReportDiscloses
  <2>9. CASE UNCHANGED valuation
    <3>1. /\ UNCHANGED <<txs, weather, stale, phase, points, outcome, report>>
      BY <2>9 DEF valuation, inputs
    <3>2. Required' = Required /\ Growth' = Growth /\ Grown' = Grown
      BY <3>1 DEF Required, Growth, Adjusted, Grown
    <3> QED
      BY <3>1, <3>2 DEF ReportInv, Disclosed
  <2> QED
    BY <2>1, <2>2, <2>3, <2>4, <2>5, <2>6, <2>7, <2>8, <2>9 DEF ValuationNext
<1> QED
  BY <1>1, <1>2, ValuationInvariance, PTL DEF ValuationSpec

(* The returns of a portfolio that was valued are growths.                 *)
LEMMA GrowthFacts ==
  ASSUME ValuationTypeOK, Grown
  PROVE  /\ IsGrowth(Growth) /\ Len(Growth) = Len(points) - 1 /\ Len(points) \in Nat \ {0}
         /\ \A i \in 1..Len(Growth) :
              /\ Growth[i].num = Adjusted(i + 1) /\ Growth[i].den = points[i].total
              /\ i \in 1..Len(points) /\ i + 1 \in 2..Len(points)
         /\ \A i \in 1..Len(points) : points[i].total \in Nat \ {0} /\ points[i].flow \in Int
<1>1. /\ Len(points) \in Nat \ {0}
      /\ \A i \in 1..Len(points) : points[i].total \in Nat \ {0} /\ points[i].flow \in Int
  BY PointFacts DEF PointType, Grown
<1>2. Len(Growth) = Len(points) - 1 /\ DOMAIN Growth = 1..(Len(points) - 1)
  <2> DEFINE n == Len(points) - 1
  <2>1. n \in Nat
    BY <1>1
  <2>2. DOMAIN Growth = 1..n
    BY DEF Growth
  <2> HIDE DEF n
  <2>3. Len(Growth) = n
    BY <2>1, <2>2
  <2> QED
    BY <2>2, <2>3 DEF n
<1>3. ASSUME NEW i \in 1..(Len(points) - 1)
      PROVE  /\ Growth[i].num = Adjusted(i + 1) /\ Growth[i].den = points[i].total
             /\ i \in 1..Len(points) /\ i + 1 \in 2..Len(points)
             /\ Growth[i] \in Ratio
  <2>1. i \in 1..Len(points) /\ i + 1 \in 2..Len(points) /\ i + 1 \in 1..Len(points)
    BY <1>1
  <2>2. Growth[i] = [num |-> Adjusted(i + 1), den |-> points[i].total]
    BY DEF Growth, Fraction
  <2>3. Adjusted(i + 1) \in Nat \ {0}
    <3>1. Adjusted(i + 1) > 0
      BY <2>1 DEF Grown
    <3>2. Adjusted(i + 1) \in Int
      BY <1>1, <2>1 DEF Adjusted
    <3> QED
      BY <3>1, <3>2
  <2> QED
    BY <1>1, <2>1, <2>2, <2>3 DEF Ratio
<1> QED
  BY <1>1, <1>2, <1>3 DEF IsGrowth

(* The returns of a portfolio without flows telescope.                     *)
LEMMA ReturnTelescopes ==
  ASSUME ValuationTypeOK, Grown, \A i \in 2..Len(points) : points[i].flow = 0
  PROVE  Same(Compounded(Growth), Fraction(points[Len(points)].total, points[1].total))
<1> DEFINE N == Len(Growth)
           w == Wealth(Growth)
           value == [i \in 1..Len(points) |-> points[i].total]
           Good == {i \in 0..N : w[i].num * value[1] = value[i + 1] * w[i].den}
<1>1. /\ IsGrowth(Growth) /\ N = Len(points) - 1 /\ Len(points) \in Nat \ {0}
      /\ \A i \in 1..Len(points) : value[i] \in Nat \ {0}
      /\ value[1] = points[1].total /\ value[Len(points)] = points[Len(points)].total
  BY GrowthFacts
<1>2. \A i \in 1..N : Growth[i] \in Ratio /\ Growth[i].num = value[i + 1] /\ Growth[i].den = value[i]
  <2> TAKE i \in 1..N
  <2>1. /\ Growth[i].num = Adjusted(i + 1) /\ Growth[i].den = points[i].total
        /\ i \in 1..Len(points) /\ i + 1 \in 2..Len(points)
    BY GrowthFacts
  <2>2. Adjusted(i + 1) = points[i + 1].total /\ i + 1 \in 1..Len(points)
    <3>1. points[i + 1].flow = 0 /\ i + 1 \in 1..Len(points)
      BY <1>1, <2>1
    <3>2. points[i + 1].total \in Nat
      BY <3>1, GrowthFacts
    <3> QED
      BY <3>1, <3>2 DEF Adjusted
  <2>3. Growth[i] \in Ratio
    BY <1>1 DEF IsGrowth
  <2> QED
    BY <2>1, <2>2, <2>3
<1>3. /\ w \in [0..N -> Ratio] /\ w[0] = One
      /\ \A i \in 1..N : w[i] = Product(w[i - 1], Growth[i])
  BY <1>1, WealthFacts
<1>4. N \in Nat
  BY <1>1
<1>5. \A i \in 0..N : i + 1 \in 1..Len(points)
  BY <1>1
<1> HIDE DEF N, w, value
<1>6. 0 \in Good
  <2>1. w[0].num = 1 /\ w[0].den = 1 /\ 0 \in 0..N /\ value[0 + 1] = value[1] /\ value[1] \in Nat
    BY <1>1, <1>3, <1>4 DEF One, Fraction
  <2> QED
    BY <2>1
<1>7. \A i \in 1..N : i - 1 \in Good => i \in Good
  <2> SUFFICES ASSUME NEW i \in 1..N, i - 1 \in Good PROVE i \in Good
    OBVIOUS
  <2>1. i - 1 \in 0..N /\ i \in 0..N /\ (i - 1) + 1 = i
    BY <1>4
  <2>2. w[i - 1] \in Ratio /\ Growth[i] \in Ratio /\ w[i] = Product(w[i - 1], Growth[i])
    BY <1>2, <1>3, <2>1
  <2>3. w[i].num = w[i - 1].num * value[i + 1] /\ w[i].den = w[i - 1].den * value[i]
    BY <1>2, <2>2, RatioFacts
  <2>4. w[i - 1].num * value[1] = value[i] * w[i - 1].den
    BY <2>1
  <2>5. PICK a, b, c, d, e \in Nat : /\ a = w[i - 1].num /\ b = w[i - 1].den
                                     /\ c = value[1] /\ d = value[i] /\ e = value[i + 1]
    <3>1. w[i - 1].num \in Nat /\ w[i - 1].den \in Nat
      BY <2>2, RatioFacts
    <3>2. value[1] \in Nat /\ value[i] \in Nat /\ value[i + 1] \in Nat
      <4>1. 1 \in 1..Len(points) /\ i \in 1..Len(points) /\ i + 1 \in 1..Len(points)
        BY <1>1, <1>5, <2>1
      <4> QED
        BY <1>1, <4>1
    <3> QED
      BY <3>1, <3>2
  <2>6. a * c = d * b
    BY <2>4, <2>5
  <2>7. (a * e) * c = e * (b * d)
    BY <2>6, Telescope
  <2> QED
    BY <2>1, <2>3, <2>5, <2>7
<1> HIDE DEF Good
<1>8. \A i \in 0..N : i \in Good
  BY <1>4, <1>6, <1>7, Induction
<1>9. N \in 0..N /\ N + 1 = Len(points)
  BY <1>1, <1>4
<1>10. w[N].num * value[1] = value[Len(points)] * w[N].den
  BY <1>8, <1>9 DEF Good
<1>11. Compounded(Growth) = w[N]
  BY DEF Compounded, w, N
<1> QED
  BY <1>1, <1>10, <1>11 DEF Same, Fraction

(* The metrics that are reported.                                          *)
THEOREM MetricsAreHonest == ValuationSpec => []MetricsAgree
<1>1. ValuationInv /\ ReportInv => MetricsAgree
  <2> SUFFICES ASSUME ValuationTypeOK, ReportInv, phase = "told"
               PROVE  LET w == Wealth(Growth)
                      IN /\ \E i, j \in DOMAIN w : i <= j /\ Same(report.drawdown, Over(w[j], w[i]))
                         /\ \A i, j \in DOMAIN w : i <= j => ~Less(Over(w[j], w[i]), report.drawdown)
                         /\ (\A i \in 2..Len(points) : points[i].flow = 0) =>
                              Same(report.return, Fraction(points[Len(points)].total, points[1].total))
    BY DEF ValuationInv, MetricsAgree
  <2> DEFINE w == Wealth(Growth)
             N == Len(Growth)
  <2>1. Grown /\ report.return = Compounded(Growth) /\ report.drawdown = Drawdown(Growth)
    BY DEF ReportInv, Told
  <2>2. IsGrowth(Growth)
    BY <2>1, GrowthFacts
  <2>3. w \in [0..N -> Ratio]
    BY <2>2, WealthFacts
  <2>4. DOMAIN w = 0..N
    BY <2>3
  <2>5. WorstOf(w, N, report.drawdown) /\ report.drawdown \in Ratio
    BY <2>1, <2>2, DrawdownFacts
  <2> HIDE DEF w, N
  <2>6. \A f \in Ratio : Same(f, f)
    BY DEF Same
  <2>7. \E i, j \in 0..N : i <= j /\ Same(report.drawdown, Over(w[j], w[i]))
    <3>1. PICK i, j \in 0..N : i <= j /\ report.drawdown = Over(w[j], w[i])
      BY <2>5 DEF WorstOf
    <3>2. Same(report.drawdown, Over(w[j], w[i]))
      BY <2>5, <2>6, <3>1
    <3> QED
      BY <3>1, <3>2
  <2>8. \A i, j \in 0..N : i <= j => ~Less(Over(w[j], w[i]), report.drawdown)
    BY <2>5 DEF WorstOf
  <2>9. (\A i \in 2..Len(points) : points[i].flow = 0) =>
          Same(report.return, Fraction(points[Len(points)].total, points[1].total))
    BY <2>1, ReturnTelescopes
  <2> QED
    BY <2>4, <2>7, <2>8, <2>9 DEF w
<1> QED
  BY <1>1, ValuationInvariance, ReportInvariance, PTL

(* The insight says what it could not know.                                *)
THEOREM InsightIsHonest == ValuationSpec => []InsightDiscloses
<1>1. ValuationInv /\ ReportInv => InsightDiscloses
  <2> SUFFICES ASSUME ValuationTypeOK, ReportInv, phase = "told"
               PROVE  /\ "metric unavailable" \in report.unavailable <=>
                           Len(Growth) < 2 \/ \A i, j \in DOMAIN Growth : Same(Growth[i], Growth[j])
                      /\ "stale data" \in report.unavailable <=>
                           \E s \in Required : weather[s] \in Transient
    BY DEF ValuationInv, InsightDiscloses
  <2>1. Grown /\ Disclosed /\ report.unavailable = Limitations(Missing(Growth), stale)
    BY DEF ReportInv, Told
  <2>2. Missing(Growth) # {} <=>
          Len(Growth) < 2 \/ \A i, j \in DOMAIN Growth : Same(Growth[i], Growth[j])
    BY <2>1, GrowthFacts, MissingFacts
  <2>3. /\ "metric unavailable" \in report.unavailable <=> Missing(Growth) # {}
        /\ "stale data" \in report.unavailable <=> stale
    BY <2>1 DEF Limitations
  <2> QED
    BY <2>1, <2>2, <2>3 DEF Disclosed
<1> QED
  BY <1>1, ValuationInvariance, ReportInvariance, PTL

-----------------------------------------------------------------------------
(* The insight service.                                                    *)

Generators == {"deepseek", "risk-rules-v1"}

(* The locals of generate, and what they say of each other.                *)
LocalOK(r) == r \in
  [at : {"idle", "get", "call", "set", "save", "answered", "failed"},
   input : Inputs \cup {NoInput}, available : BOOLEAN,
   generated : Narrative \cup {NoCopy}, answer : Generators \cup {"none"}]

RequestOK(r) ==
  /\ LocalOK(r)
  /\ r.at # "idle" => r.input \in Inputs
  /\ r.at \in {"get", "call", "set"} => r.answer = "none"
  /\ r.at = "set" => r.generated \in Narrative /\ r.generated.about = r.input
  /\ r.at \in {"save", "answered"} => r.answer \in Generators
  /\ r.answer = "deepseek" => Accepted(r.generated) /\ r.generated.about = r.input

RequestsInv ==
  /\ req = [w \in Workers |-> req[w]]
  /\ \A w \in Workers : RequestOK(req[w])

(* The cache is keyed by the digest of the input a narrative is about.     *)
KeyedInv ==
  /\ cache \in [Inputs -> Narrative \cup {NoCopy, Garbage}]
  /\ \A i \in Inputs : cache[i] \in Narrative => cache[i].about = i

(* Answered requests whose snapshot nobody has received yet.               *)
Pending(insight) == {w \in Workers : At(w, "answered") /\ Insight(req[w]) = insight}

ListsInv == snapshots \in Seq(InsightType) /\ delivered \in Seq(InsightType)

OwedInv == \A insight \in InsightType :
  Times(delivered, insight) + Cardinality(Pending(insight)) <= Times(snapshots, insight)

InsightInv == RequestsInv /\ KeyedInv /\ ListsInv /\ OwedInv

-----------------------------------------------------------------------------
(* A list counts one more of what is appended to it.                       *)
LEMMA TimesAppend ==
  ASSUME NEW S, NEW list \in Seq(S), NEW x \in S, NEW y
  PROVE  /\ Append(list, x) \in Seq(S) /\ Times(list, y) \in Nat
         /\ Times(Append(list, x), y) = Times(list, y) + (IF x = y THEN 1 ELSE 0)
<1> DEFINE n == Len(list)
           old == {k \in DOMAIN list : list[k] = y}
           new == {k \in DOMAIN Append(list, x) : Append(list, x)[k] = y}
<1>1. /\ n \in Nat /\ DOMAIN list = 1 .. n /\ DOMAIN Append(list, x) = 1 .. (n + 1)
      /\ \A k \in 1 .. n : Append(list, x)[k] = list[k]
      /\ Append(list, x)[n + 1] = x /\ Append(list, x) \in Seq(S)
  OBVIOUS
<1>2. Times(list, y) = Cardinality(old) /\ Times(Append(list, x), y) = Cardinality(new)
  BY DEF Times
<1>3. IsFiniteSet(old) /\ Cardinality(old) \in Nat
  <2>1. IsFiniteSet(1 .. n)
    BY <1>1, FS_Interval
  <2>2. old \in SUBSET (1 .. n)
    BY <1>1
  <2> HIDE DEF old
  <2>3. IsFiniteSet(old)
    BY <2>1, <2>2, FS_Subset
  <2> QED
    BY <2>3, FS_CardinalityType
<1>4. CASE x = y
  <2>1. new = old \cup {n + 1} /\ (n + 1) \notin old
    BY <1>1, <1>4
  <2> HIDE DEF old, new
  <2>2. Cardinality(new) = Cardinality(old) + 1
    BY <1>3, <2>1, FS_AddElement
  <2> QED
    BY <1>1, <1>2, <1>3, <1>4, <2>2
<1>5. CASE x # y
  <2>1. new = old
    BY <1>1, <1>5
  <2> HIDE DEF old, new
  <2> QED
    BY <1>1, <1>2, <1>3, <1>5, <2>1
<1> QED
  BY <1>4, <1>5

(* Any set of requests is finite.                                          *)
LEMMA PendingFinite ==
  \A insight : IsFiniteSet(Pending(insight)) /\ Cardinality(Pending(insight)) \in Nat
<1> TAKE insight
<1>1. Pending(insight) \subseteq Workers
  BY DEF Pending
<1> QED
  BY <1>1, InsightAssumption, FS_Subset, FS_CardinalityType

(* The requests after a step of one of them.                               *)
LEMMA OneRequest ==
  ASSUME InsightInv, NEW w \in Workers, NEW STATE r, Become(w, r), RequestOK(r)
  PROVE  /\ RequestsInv' /\ req'[w] = r
         /\ \A v \in Workers \ {w} : req'[v] = req[v]
<1>1. req' = [v \in Workers |-> IF v = w THEN r ELSE req[v]]
  BY DEF InsightInv, RequestsInv, Become
<1> QED
  BY <1>1 DEF InsightInv, RequestsInv

(* A step that neither commits nor delivers owes what was owed before.     *)
LEMMA NothingOwed ==
  ASSUME InsightInv, NEW w \in Workers, NEW STATE r, Become(w, r), RequestOK(r),
         r.at # "answered", UNCHANGED <<snapshots, delivered>>
  PROVE  RequestsInv' /\ ListsInv' /\ OwedInv'
<1>1. /\ RequestsInv' /\ req'[w] = r
      /\ \A v \in Workers \ {w} : req'[v] = req[v]
  BY OneRequest
<1>2. ASSUME NEW insight \in InsightType
      PROVE  Times(delivered, insight)' + Cardinality(Pending(insight))'
               <= Times(snapshots, insight)'
  <2>1. Pending(insight)' \subseteq Pending(insight)
    BY <1>1 DEF Pending, At
  <2>2. /\ Cardinality(Pending(insight)') <= Cardinality(Pending(insight))
        /\ Cardinality(Pending(insight)') \in Nat
    BY <2>1, PendingFinite, FS_Subset, FS_CardinalityType
  <2>3. Times(delivered, insight) \in Nat /\ Times(snapshots, insight) \in Nat
    BY TimesAppend DEF InsightInv, ListsInv
  <2>4. Times(delivered, insight) + Cardinality(Pending(insight)) <= Times(snapshots, insight)
    BY DEF InsightInv, OwedInv
  <2>5. /\ Times(delivered, insight)' = Times(delivered, insight)
        /\ Times(snapshots, insight)' = Times(snapshots, insight)
    BY DEF Times
  <2> QED
    BY <2>2, <2>3, <2>4, <2>5, PendingFinite
<1> QED
  BY <1>1, <1>2 DEF InsightInv, ListsInv, OwedInv

-----------------------------------------------------------------------------
(* What generate's helpers make of a request.                              *)
LEMMA GeneratedOK ==
  ASSUME NEW r, LocalOK(r), r.input \in Inputs, NEW n \in Narrative, n.about = r.input
  PROVE  RequestOK(Generated(r, n)) /\ Generated(r, n).at = "save"
<1> DEFINE g == Generated(r, n)
<1>1. /\ LocalOK(g) /\ g.at = "save" /\ g.input = r.input /\ g.generated = n
      /\ g.answer = IF Accepted(n) THEN "deepseek" ELSE "risk-rules-v1"
  BY DEF Generated, LocalOK, Generators
<1> HIDE DEF g
<1>2. RequestOK(g)
  BY <1>1 DEF RequestOK, Generators
<1> QED
  BY <1>1, <1>2 DEF g

(* And of one that has no text to use.                                     *)
LEMMA FallBackOK ==
  ASSUME NEW r, LocalOK(r), r.input \in Inputs
  PROVE  RequestOK(FallBack(r)) /\ FallBack(r).at = "save"
<1> DEFINE g == FallBack(r)
<1>1. /\ LocalOK(g) /\ g.at = "save" /\ g.input = r.input /\ g.answer = "risk-rules-v1"
  BY DEF FallBack, LocalOK, Generators
<1> HIDE DEF g
<1>2. RequestOK(g)
  BY <1>1 DEF RequestOK, Generators
<1> QED
  BY <1>1, <1>2 DEF g

(* A worker at rest.                                                       *)
LEMMA IdleOK == RequestOK(Idle) /\ Idle.at = "idle"
  BY DEF Idle, RequestOK, LocalOK, Generators

(* A step that only moves a request, and stores nothing but in the cache.  *)
LEMMA MoveOK ==
  ASSUME InsightInv, NEW w \in Workers,
         \/ \E i \in Inputs : Analyze(w, i)
         \/ \E text \in Texts : ModelAnswers(w, text)
         \/ CacheGet(w) \/ ModelFails(w) \/ CacheSet(w) \/ CacheSetFails(w) \/ Abandon(w)
  PROVE  InsightInv'
<1> DEFINE r == req[w]
<1>1. RequestOK(r) /\ LocalOK(r)
  BY DEF InsightInv, RequestsInv, RequestOK
<1>2. UNCHANGED <<snapshots, delivered>>
  BY DEF Analyze, ModelAnswers, CacheGet, ModelFails, CacheSet, CacheSetFails, Abandon
<1>3. ASSUME NEW STATE s, Become(w, s), RequestOK(s), s.at # "answered", KeyedInv'
      PROVE  InsightInv'
  BY <1>2, <1>3, NothingOwed DEF InsightInv
<1>4. cache' = cache => KeyedInv'
  BY DEF InsightInv, KeyedInv
<1>5. ASSUME NEW i \in Inputs, Analyze(w, i) PROVE InsightInv'
  <2> DEFINE s == [Idle EXCEPT !.at = "get", !.input = i]
  <2>1. /\ LocalOK(s) /\ s.at = "get" /\ s.input = i /\ s.answer = "none"
    BY IdleOK DEF RequestOK, LocalOK, Idle
  <2> HIDE DEF s
  <2>2. RequestOK(s)
    BY <2>1 DEF RequestOK
  <2> QED
    BY <1>3, <1>4, <1>5, <2>1, <2>2 DEF Analyze, s
<1>6. CASE CacheGet(w)
  <2> DEFINE s == [r EXCEPT !.at = "call"]
             u == [r EXCEPT !.at = "call", !.available = FALSE]
  <2>1. r.input \in Inputs /\ r.at = "get"
    BY <1>1, <1>6 DEF CacheGet, At, RequestOK
  <2>2. RequestOK(s) /\ s.at = "call" /\ RequestOK(u) /\ u.at = "call"
    <3>1. /\ LocalOK(s) /\ s.at = "call" /\ s.input = r.input /\ s.answer = r.answer
          /\ s.generated = r.generated
          /\ LocalOK(u) /\ u.at = "call" /\ u.input = r.input /\ u.answer = r.answer
          /\ u.generated = r.generated
      BY <1>1 DEF LocalOK
    <3> HIDE DEF s, u
    <3> QED
      BY <1>1, <2>1, <3>1 DEF RequestOK
  <2>3. ASSUME NEW n \in Cached(r.input) PROVE n \in Narrative /\ n.about = r.input
    BY <2>1, <2>3 DEF Cached, InsightInv, KeyedInv
  <2>4. \A n \in Cached(r.input) :
          RequestOK(Generated(r, n)) /\ Generated(r, n).at = "save"
    BY <1>1, <2>1, <2>3, GeneratedOK
  <2>5. \/ Become(w, s) \/ Become(w, u) \/ \E n \in Cached(r.input) : Become(w, Generated(r, n))
    BY <1>6 DEF CacheGet
  <2>6. cache' = cache
    BY <1>6 DEF CacheGet
  <2> HIDE DEF s, u
  <2> QED
    BY <1>3, <1>4, <2>2, <2>4, <2>5, <2>6
<1>7. CASE ModelFails(w)
  <2>1. r.input \in Inputs
    BY <1>1, <1>7 DEF ModelFails, At, RequestOK
  <2> QED
    BY <1>1, <1>3, <1>4, <1>7, <2>1, FallBackOK DEF ModelFails
<1>8. ASSUME NEW text \in Texts, ModelAnswers(w, text) PROVE InsightInv'
  <2> DEFINE n == [about |-> r.input, text |-> text]
             s == [r EXCEPT !.at = "set", !.generated = n]
  <2>1. r.input \in Inputs /\ text # "rejected" /\ r.at = "call"
    BY <1>1, <1>8 DEF ModelAnswers, At, RequestOK
  <2>2. n \in Narrative /\ n.about = r.input
    BY <2>1 DEF Narrative, Texts
  <2> HIDE DEF n
  <2>3. RequestOK(s) /\ s.at = "set"
    <3>1. /\ LocalOK(s) /\ s.at = "set" /\ s.input = r.input /\ s.generated = n
          /\ s.answer = r.answer
      BY <1>1, <2>2 DEF LocalOK
    <3>2. r.answer # "deepseek"
      BY <1>1, <2>1 DEF RequestOK
    <3> HIDE DEF s
    <3> QED
      BY <1>1, <2>1, <2>2, <3>1, <3>2 DEF RequestOK
  <2>4. /\ RequestOK(Generated(r, n)) /\ Generated(r, n).at = "save"
        /\ RequestOK(FallBack(r)) /\ FallBack(r).at = "save"
    BY <1>1, <2>1, <2>2, GeneratedOK, FallBackOK
  <2>5. \/ Become(w, s) \/ Become(w, Generated(r, n)) \/ Become(w, FallBack(r))
    BY <1>8 DEF ModelAnswers, n
  <2>6. cache' = cache
    BY <1>8 DEF ModelAnswers
  <2> HIDE DEF s
  <2> QED
    BY <1>3, <1>4, <2>3, <2>4, <2>5, <2>6
<1>9. CASE CacheSet(w) \/ CacheSetFails(w)
  <2>1. r.input \in Inputs /\ r.generated \in Narrative /\ r.generated.about = r.input
    BY <1>1, <1>9 DEF CacheSet, CacheSetFails, At, RequestOK
  <2>2. RequestOK(Generated(r, r.generated)) /\ Generated(r, r.generated).at = "save"
    BY <1>1, <2>1, GeneratedOK
  <2>3. KeyedInv'
    BY <1>9, <2>1 DEF CacheSet, CacheSetFails, InsightInv, KeyedInv
  <2> QED
    BY <1>3, <1>9, <2>2, <2>3 DEF CacheSet, CacheSetFails
<1>10. CASE Abandon(w)
  BY <1>3, <1>4, <1>10, IdleOK DEF Abandon
<1> QED
  BY <1>5, <1>6, <1>7, <1>8, <1>9, <1>10

(* The commit adds a snapshot, which the request owns from then on.        *)
LEMMA SaveOK ==
  ASSUME InsightInv, NEW w \in Workers, Save(w)
  PROVE  InsightInv'
<1> DEFINE r == req[w]
           s == [r EXCEPT !.at = "answered"]
           x == Insight(r)
<1>1. RequestOK(r) /\ LocalOK(r) /\ r.at = "save" /\ r.input \in Inputs /\ r.answer \in Generators
  BY DEF InsightInv, RequestsInv, RequestOK, Save, At
<1>2. /\ LocalOK(s) /\ s.at = "answered" /\ s.input = r.input /\ s.answer = r.answer
      /\ s.generated = r.generated
  BY <1>1 DEF LocalOK
<1> HIDE DEF s
<1>3. RequestOK(s) /\ Insight(s) = x
  BY <1>1, <1>2 DEF RequestOK, Insight
<1>4. x \in InsightType
  BY <1>1 DEF Insight, InsightType, Generators
<1>5. /\ snapshots' = Append(snapshots, x) /\ delivered' = delivered /\ cache' = cache
      /\ Become(w, s)
  BY DEF Save, s
<1>6. /\ RequestsInv' /\ req'[w] = s
      /\ \A v \in Workers \ {w} : req'[v] = req[v]
  BY <1>3, <1>5, OneRequest
<1>7. ListsInv' /\ KeyedInv'
  BY <1>4, <1>5, TimesAppend DEF InsightInv, ListsInv, KeyedInv
<1> HIDE DEF x
<1>8. ASSUME NEW insight \in InsightType
      PROVE  Times(delivered, insight)' + Cardinality(Pending(insight))'
               <= Times(snapshots, insight)'
  <2>1. Pending(insight)' = IF insight = x THEN Pending(insight) \cup {w} ELSE Pending(insight)
    BY <1>1, <1>2, <1>3, <1>6 DEF Pending, At
  <2>2. w \notin Pending(insight)
    BY <1>1 DEF Pending, At
  <2>3. Cardinality(Pending(insight)') =
          Cardinality(Pending(insight)) + (IF insight = x THEN 1 ELSE 0)
    <3>1. Cardinality(Pending(insight) \cup {w}) = Cardinality(Pending(insight)) + 1
      BY <2>2, PendingFinite, FS_AddElement
    <3> QED
      BY <2>1, <3>1, PendingFinite
  <2>4. /\ Times(snapshots', insight) = Times(snapshots, insight) + (IF x = insight THEN 1 ELSE 0)
        /\ Times(snapshots, insight) \in Nat
    BY <1>4, <1>5, TimesAppend DEF InsightInv, ListsInv
  <2>5. Times(delivered, insight) \in Nat /\ Times(delivered', insight) = Times(delivered, insight)
    BY <1>4, <1>5, TimesAppend DEF InsightInv, ListsInv
  <2>6. Times(delivered, insight) + Cardinality(Pending(insight)) <= Times(snapshots, insight)
    BY DEF InsightInv, OwedInv
  <2>7. Times(delivered', insight) + Cardinality(Pending(insight)') <= Times(snapshots', insight)
    BY <2>3, <2>4, <2>5, <2>6, PendingFinite
  <2> QED
    BY <2>7
<1> QED
  BY <1>6, <1>7, <1>8 DEF InsightInv, OwedInv

(* A commit that is not acknowledged leaves a snapshot too many, never one *)
(* too few.                                                                *)
LEMMA SaveFailsOK ==
  ASSUME InsightInv, NEW w \in Workers, SaveFails(w)
  PROVE  InsightInv'
<1> DEFINE r == req[w]
           s == [r EXCEPT !.at = "failed"]
           x == Insight(r)
<1>1. RequestOK(r) /\ LocalOK(r) /\ r.at = "save" /\ r.input \in Inputs /\ r.answer \in Generators
  BY DEF InsightInv, RequestsInv, RequestOK, SaveFails, At
<1>2. /\ LocalOK(s) /\ s.at = "failed" /\ s.input = r.input /\ s.answer = r.answer
      /\ s.generated = r.generated
  BY <1>1 DEF LocalOK
<1> HIDE DEF s
<1>3. RequestOK(s)
  BY <1>1, <1>2 DEF RequestOK
<1>4. x \in InsightType
  BY <1>1 DEF Insight, InsightType, Generators
<1>5. /\ snapshots' = snapshots \/ snapshots' = Append(snapshots, x)
      /\ delivered' = delivered /\ cache' = cache /\ Become(w, s)
  BY DEF SaveFails, s
<1>6. /\ RequestsInv' /\ req'[w] = s
      /\ \A v \in Workers \ {w} : req'[v] = req[v]
  BY <1>3, <1>5, OneRequest
<1>7. ListsInv' /\ KeyedInv'
  BY <1>4, <1>5, TimesAppend DEF InsightInv, ListsInv, KeyedInv
<1> HIDE DEF x
<1>8. ASSUME NEW insight \in InsightType
      PROVE  Times(delivered, insight)' + Cardinality(Pending(insight))'
               <= Times(snapshots, insight)'
  <2>1. Pending(insight)' = Pending(insight)
    BY <1>1, <1>2, <1>6 DEF Pending, At
  <2>2. /\ Times(snapshots', insight) >= Times(snapshots, insight)
        /\ Times(snapshots, insight) \in Nat /\ Times(snapshots', insight) \in Nat
    <3>1. snapshots \in Seq(InsightType) /\ Times(snapshots, insight) \in Nat
      BY <1>4, TimesAppend DEF InsightInv, ListsInv
    <3>2. Times(Append(snapshots, x), insight) =
            Times(snapshots, insight) + (IF x = insight THEN 1 ELSE 0)
      BY <1>4, <3>1, TimesAppend
    <3>3. CASE snapshots' = snapshots
      BY <3>1, <3>3
    <3>4. CASE snapshots' = Append(snapshots, x)
      BY <3>1, <3>2, <3>4
    <3> QED
      BY <1>5, <3>3, <3>4
  <2>3. Times(delivered, insight) \in Nat /\ Times(delivered', insight) = Times(delivered, insight)
    BY <1>4, <1>5, TimesAppend DEF InsightInv, ListsInv
  <2>4. Times(delivered, insight) + Cardinality(Pending(insight)) <= Times(snapshots, insight)
    BY DEF InsightInv, OwedInv
  <2>5. Times(delivered', insight) + Cardinality(Pending(insight)') <= Times(snapshots', insight)
    BY <2>1, <2>2, <2>3, <2>4, PendingFinite
  <2> QED
    BY <2>5
<1> QED
  BY <1>6, <1>7, <1>8 DEF InsightInv, OwedInv

(* The response takes the snapshot the request owned.                      *)
LEMMA DeliverOK ==
  ASSUME InsightInv, NEW w \in Workers, Deliver(w)
  PROVE  InsightInv'
<1> DEFINE r == req[w]
           x == Insight(r)
<1>1. RequestOK(r) /\ LocalOK(r) /\ r.at = "answered" /\ r.input \in Inputs /\ r.answer \in Generators
  BY DEF InsightInv, RequestsInv, RequestOK, Deliver, At
<1>2. x \in InsightType
  BY <1>1 DEF Insight, InsightType, Generators
<1>3. /\ snapshots' = snapshots /\ delivered' = Append(delivered, x) /\ cache' = cache
      /\ Become(w, Idle)
  BY DEF Deliver
<1>4. /\ RequestsInv' /\ req'[w] = Idle
      /\ \A v \in Workers \ {w} : req'[v] = req[v]
  BY <1>3, IdleOK, OneRequest
<1>5. ListsInv' /\ KeyedInv'
  BY <1>2, <1>3, TimesAppend DEF InsightInv, ListsInv, KeyedInv
<1>6. ASSUME NEW insight \in InsightType
      PROVE  Times(delivered, insight)' + Cardinality(Pending(insight))'
               <= Times(snapshots, insight)'
  <2>1. Pending(insight)' = Pending(insight) \ {w}
    BY <1>4, IdleOK DEF Pending, At
  <2>2. w \in Pending(insight) <=> insight = x
    BY <1>1 DEF Pending, At
  <2> HIDE DEF x
  <2>3. Cardinality(Pending(insight)') =
          Cardinality(Pending(insight)) - (IF insight = x THEN 1 ELSE 0)
    <3>1. Cardinality(Pending(insight) \ {w}) =
            IF w \in Pending(insight) THEN Cardinality(Pending(insight)) - 1
            ELSE Cardinality(Pending(insight))
      BY PendingFinite, FS_RemoveElement
    <3> QED
      BY <2>1, <2>2, <3>1, PendingFinite
  <2>4. /\ Times(delivered', insight) = Times(delivered, insight) + (IF x = insight THEN 1 ELSE 0)
        /\ Times(delivered, insight) \in Nat
    BY <1>2, <1>3, TimesAppend DEF InsightInv, ListsInv
  <2>5. Times(snapshots, insight) \in Nat /\ Times(snapshots', insight) = Times(snapshots, insight)
    BY <1>2, <1>3, TimesAppend DEF InsightInv, ListsInv
  <2>6. Times(delivered, insight) + Cardinality(Pending(insight)) <= Times(snapshots, insight)
    BY DEF InsightInv, OwedInv
  <2>7. Times(delivered', insight) + Cardinality(Pending(insight)') <= Times(snapshots', insight)
    BY <2>3, <2>4, <2>5, <2>6, PendingFinite
  <2> QED
    BY <2>7
<1> QED
  BY <1>4, <1>5, <1>6 DEF InsightInv, OwedInv

(* What Redis does to a copy, no request notices.                          *)
LEMMA DamageOK ==
  ASSUME InsightInv, NEW i \in Inputs, Damage(i)
  PROVE  InsightInv'
<1>1. UNCHANGED <<snapshots, delivered, req>>
  BY DEF Damage
<1>2. RequestsInv' /\ ListsInv' /\ OwedInv'
  BY <1>1 DEF InsightInv, RequestsInv, ListsInv, OwedInv, Pending, At, Insight, Times
<1>3. KeyedInv'
  <2>1. PICK value \in {NoCopy, Garbage} : cache' = [cache EXCEPT ![i] = value]
    BY DEF Damage
  <2>2. \A k \in Inputs : cache'[k] = cache[k] \/ cache'[k] \in {NoCopy, Garbage}
    BY <2>1 DEF InsightInv, KeyedInv
  <2>3. NoCopy \notin Narrative /\ Garbage \notin Narrative
    BY InsightAssumption
  <2> QED
    BY <2>1, <2>2, <2>3 DEF InsightInv, KeyedInv
<1> QED
  BY <1>2, <1>3 DEF InsightInv

-----------------------------------------------------------------------------
(* The inductive invariant of the requests, the cache and the history.     *)
THEOREM InsightInvariance == Spec => []InsightInv
<1>1. Init => InsightInv
  <2> SUFFICES ASSUME Init PROVE InsightInv
    OBVIOUS
  <2>1. RequestsInv
    BY IdleOK DEF Init, RequestsInv
  <2>2. KeyedInv
    BY InsightAssumption DEF Init, KeyedInv
  <2>3. ListsInv
    BY DEF Init, ListsInv
  <2>4. ASSUME NEW insight \in InsightType
        PROVE  Times(delivered, insight) + Cardinality(Pending(insight))
                 <= Times(snapshots, insight)
    <3>1. Pending(insight) = {}
      BY IdleOK DEF Init, Pending, At
    <3>2. {k \in DOMAIN << >> : << >>[k] = insight} = {}
      OBVIOUS
    <3>3. Times(delivered, insight) = 0 /\ Times(snapshots, insight) = 0
      BY <3>2, FS_EmptySet DEF Init, Times
    <3> QED
      BY <3>1, <3>3, FS_EmptySet
  <2> QED
    BY <2>1, <2>2, <2>3, <2>4 DEF InsightInv, OwedInv
<1>2. InsightInv /\ [Next]_vars => InsightInv'
  <2> SUFFICES ASSUME InsightInv, [Next]_vars PROVE InsightInv'
    OBVIOUS
  <2>1. CASE UNCHANGED vars
    <3>1. UNCHANGED <<cache, snapshots, delivered, req>>
      BY <2>1 DEF vars
    <3> QED
      BY <3>1 DEF InsightInv, RequestsInv, KeyedInv, ListsInv, OwedInv, Pending, At, Insight, Times
  <2>2. CASE Next
    BY <2>2, MoveOK, SaveOK, SaveFailsOK, DeliverOK, DamageOK DEF Next
  <2> QED
    BY <2>1, <2>2
<1> QED
  BY <1>1, <1>2, PTL DEF Spec

(* Type correctness, for any requests and inputs.                          *)
THEOREM TypeCorrect == Spec => []TypeOK
<1>1. InsightInv => TypeOK
  BY DEF InsightInv, RequestsInv, KeyedInv, ListsInv, RequestOK, LocalOK, Generators, TypeOK
<1> QED
  BY <1>1, InsightInvariance, PTL

(* However a model answers and whoever filled the cache: text that leaves  *)
(* the service validates and is about the request's own analytics.         *)
THEOREM OnlyValidatedText == Spec => []OnlyValidated
<1>1. InsightInv => OnlyValidated
  BY DEF InsightInv, RequestsInv, RequestOK, OnlyValidated
<1> QED
  BY <1>1, InsightInvariance, PTL

(* Every insight a client has received has a snapshot of its own.          *)
THEOREM InsightsArePersisted == Spec => []EveryInsightPersisted
<1>1. InsightInv => EveryInsightPersisted
  <2> SUFFICES ASSUME InsightInv, NEW insight \in InsightType
               PROVE  Times(delivered, insight) <= Times(snapshots, insight)
    BY DEF EveryInsightPersisted
  <2>1. Times(delivered, insight) \in Nat /\ Times(snapshots, insight) \in Nat
    BY TimesAppend DEF InsightInv, ListsInv
  <2>2. Times(delivered, insight) + Cardinality(Pending(insight)) <= Times(snapshots, insight)
    BY DEF InsightInv, OwedInv
  <2> QED
    BY <2>1, <2>2, PendingFinite
<1> QED
  BY <1>1, InsightInvariance, PTL
=============================================================================
