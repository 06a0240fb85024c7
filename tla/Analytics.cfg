SPECIFICATION FairSpec
CONSTANTS
  Requests <- MCRequests
  Logins <- MCLogins
  Symbols <- MCSymbols
  Threads <- MCThreads
  MaxAttempts = 2
  NoJob = NoJob
  Password = Password
  r1 = r1
  l1 = l1
  aapl = aapl
  msft = msft
  spy = spy
  t1 = t1
  t2 = t2
INVARIANTS
  JobsAccounted
PROPERTIES
  EveryPasswordChecked
  EveryAnalysisAnswered
