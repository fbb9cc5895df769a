SPECIFICATION SpecBoth
CONSTANTS
  MaxSeconds = 20
  AppValues = {1, 2, 5, 7, 50, 120}
  Timeouts = {0, 1, 999, 1000, 1001, 2500, 30000}
  NoTimeout = NoTimeout
  Null = Null
  Reclaims = FALSE
  MaxMillis = 20
  PgAppValues = {0, 1, 2, 50}
  PgTimeouts = {0, 1, 999, 1000, 1001, 2500, 20000, 20001}
  Unset = Unset
INVARIANTS
  OwnValueSurvives
  HandlerWaitsItsOwn
  ClaimWaitsAsAsked
  PgWaitsItsOwn
  PgClaimWaitsAsAsked
