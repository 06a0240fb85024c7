SPECIFICATION ValuationSpec
CONSTANTS
  Symbols <- MCSymbols
  Start <- MCStart
  End <- MCEnd
  Ledgers <- MCLedgers
  Markets <- MCMarkets
  MaxPoints = 3
INVARIANTS
  ValuationTypeOK
  LoopAgrees
  AgreesWithLedger
  NoLookAhead
  FlowsBalance
  FlowsAreNotPerformance
  MarketDataHonest
  MetricsAgree
  InsightDiscloses
CHECK_DEADLOCK FALSE
