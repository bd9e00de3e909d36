CONSTANTS
    Callers = {c1, c2, c3, c4}
    Misdirected = {c4}
    Direct = {c3}
    MaxJwt = 3
    MaxCrash = 1
SPECIFICATION TokenFairSpec
INVARIANTS
  SingleFlight
  StaleRefreshIsHidden
PROPERTIES
  EveryCallerAnswered
