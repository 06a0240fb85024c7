SPECIFICATION Spec
CONSTANTS
  Workers = {w1, w2}
  NoWorker = NoWorker
  NoPayload = NoPayload
  NoRow = NoRow
  Portfolios <- MCPortfolios
  OwnerOf <- MCOwnerOf
  Payloads <- WritePayloads
  Names <- MCNames
  Normal <- MCNormal
  NoName = "none"
  Ids <- WriteIds
  Times <- MCTimes
INVARIANTS
  TypeOK
  LedgerReplays
  ExternalIdUnique
  AnswersTruthful
  CreatedInCommitOrder
PROPERTIES
  ImplementsLedger
