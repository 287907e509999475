SPECIFICATION Spec
CONSTANTS
  t1 = t1
  t2 = t2
  zstd = zstd
  gzip = gzip
  None = None
  Task = {t1, t2}
  Page = {"a", "a?q"}
  Route = {"a"}
  RouteOf <- RouteOfPage
  Bare = {"a"}
  Loading = {"a"}
  NoStore = {}
  Encoding = {zstd, gzip}
  Identity = Identity
  MaxEditions = 1
  MaxCalls = 3
INVARIANTS TypeOK FreshAfterRevalidation ClientDecodes
CHECK_DEADLOCK FALSE
SYMMETRY Symmetry
