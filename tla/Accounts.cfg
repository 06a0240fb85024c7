SPECIFICATION GatewaySpec
CONSTANTS
  Workers <- MCWorkers
  Emails <- MCEmails
  Normal <- MCNormal
  Passwords <- MCPasswords
  Blank = Blank
  Cast <- MCCast
  Driver = w1
  Instances = {i1, i2}
  Skew <- MCSkew
  Lifetime = 3
  MaxTime = 3
  Portfolios = {d1, d2}
  Nowhere = Nowhere
  Model = TRUE
  Troubles = {"market_data_timeout"}
  w1 = w1
  w2 = w2
  p1 = p1
  p2 = p2
  d1 = d1
  d2 = d2
  i1 = i1
  i2 = i2
SYMMETRY Symmetry
INVARIANTS
  AccountsUnique
  AnswersTruthful
  WelcomedCanLogin
  ForeignIsMissing
  DemoExplained
