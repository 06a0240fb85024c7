SPECIFICATION Spec
CONSTANTS
  Portfolios <- MCPortfolios
  OwnerOf <- MCOwnerOf
  Payloads <- MCPayloads
  Names <- MCNames
  Normal <- MCNormal
  NoName = ""
  Ids <- MCIds
  Times <- MCIds
  MaxBytes = 1
  MaxRows = 4
  Strip <- MCStrip
  Amounts <- MCAmounts
  Dates <- MCDates
  Torn = "torn"
  NoTransaction = NoTransaction
  Documents <- MCDocuments
  Instants <- MCInstants
  NoFile = NoFile
INVARIANTS
  PreviewPredicts
  RepostsConverge
  ReportedRowsStay
  KnownIdsAreSettled
