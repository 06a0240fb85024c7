SPECIFICATION MigrationSpec
CONSTANTS
  Sessions <- MCSessions
  Scopes <- MCScopes
  Times <- MCTimes
  Ids <- MCIds
  Limits <- MCLimits
  OldSessions <- MCOldSessions
  MaxUnowned = 2
  s1 = s1
  s2 = s2
  o1 = o1
  ann = ann
  bob = bob
SYMMETRY Symmetry
INVARIANTS
  TotalAdmitsItems
  WalkComplete
  OwnersRequired
