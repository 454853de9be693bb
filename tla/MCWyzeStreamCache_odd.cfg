SPECIFICATION CacheSpec
CONSTANTS
  Calls = {c1, c2}
  Macs = {m1}
  StreamTtls = {1, 2}
  PhotoTtl = 2
  MaxLag = 0
  MaxAttempts = 3
  Nothing = Nothing
SYMMETRY Symmetry
INVARIANTS OwnTtlKept OneCapture
PROPERTIES ClearedStaysCleared NoCacheOverwrites OneFetchPerLifetime
