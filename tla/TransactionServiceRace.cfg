SPECIFICATION FairSpec
CONSTANTS
  Workers = {w1, w2}
  NoWorker = NoWorker
  NoPayload = NoPayload
  NoRow = NoRow
  Portfolios <- MCPortfolios
  OwnerOf <- MCOwnerOf
  Payloads <- RacePayloads
  Names <- MCNames
  Normal <- MCNormal
  NoName = "none"
  Ids <- RaceIds
  Times <- RaceTimes
INVARIANTS
  NoServerError
PROPERTIES
  EveryCallEnds
