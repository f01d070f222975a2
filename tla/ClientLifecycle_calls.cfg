SPECIFICATION FairSpec
CONSTANTS
  Callers = {c1, c2}
  MaxAttempts = 3
INVARIANTS CallsUseTheirConnection NoStrayProcess RetryKeepsCredentials
PROPERTIES EveryCallReturns
