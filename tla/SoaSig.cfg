\* A TTL of 5, refreshes one unit late, over four lifetimes of a signature.
SPECIFICATION SigSpec
CONSTANTS
  v1 = v1
  None = None
  Resolver = {v1}
  Ttl = 5
  Skew = 2
  Lag = 1
  MaxTime = 40
INVARIANT CachedSignaturesValid
CHECK_DEADLOCK FALSE
