SPECIFICATION ValuationSpec
CONSTANTS
  Symbols <- MCSymbols
  Start <- MCStart
  End <- MCEnd
  Ledgers <- MCLedgers
  Markets <- MCMarkets
  MaxPoints = 3
INVARIANTS
  ResultIsAsOf
CHECK_DEADLOCK FALSE
