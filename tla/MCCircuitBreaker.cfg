SPECIFICATION BreakerSpec
CONSTANTS
  Providers = {p1}
  Streams = {s1, s2, s3}
  Threshold = 2
  Cooldown = 2
  Ttl = 1
  MaxRetries = 2
INVARIANTS
  SingleProbe
PROPERTIES
  TripsOnFreshFailures
  CooldownIsQuiet
  RecoversUnlessDropped
