\* Two positions, deposits that do not divide by the rate, and a rate that
\* grows: every order of deposits, partial and full withdrawals.
SPECIFICATION Spec
CONSTANTS
  Accounts = {"admin"}
  Managers = {"manager", "former"}
  Positions = {p1, p2}
  Amounts = {4, 7}
  Proportions <- MCProportions
  InitialRate = 10
  RateUnit = 10
  Rates = {10, 13}
  MaxDeposited = 11
  MaxIdle = 4
  MaxDonated = 4
  p1 = p1
  p2 = p2
INVARIANTS
  TypeOK
  SharesBacked
  InterestOnly
SYMMETRY MCSymmetry
PROPERTY RoundingBounded
CHECK_DEADLOCK FALSE
