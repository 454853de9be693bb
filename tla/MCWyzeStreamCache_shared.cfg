SPECIFICATION CacheSpec
CONSTANTS
  Calls = {c1, c2}
  Macs = {m1}
  StreamTtls = {2}
  PhotoTtl = 1
  MaxLag = 1
  MaxAttempts = 3
  Nothing = Nothing
SYMMETRY Symmetry
INVARIANT ServedIsFresh
PROPERTY OneFetchPerLifetime
