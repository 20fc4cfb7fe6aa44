\* Two cores, one with two connections, whose caches keep one context each.
SPECIFICATION Spec
CONSTANTS
  NULL = NULL
  k1 = k1  k2 = k2  f1 = f1  f2 = f2  f3 = f3  c1 = c1  c2 = c2
  Cores = {k1, k2}
  Flows = {f1, f2, f3}
  Rss <- MCRss
  Ctxs = {c1, c2}
  RealServers = 2
  CacheSize = 1
  MaxOffloaded = 1
  CounterMod = 3
SYMMETRY Symmetry
INVARIANTS
  ContextsExact
  StatsExact
  SchedulerExact
