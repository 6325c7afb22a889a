\* Two feeds and three articles on one or two servers in every way. Threads wait
\* for ever when feeds share a server (Sems_deadlock.cfg), so a deadlock is no
\* error here: Queries excludes it where the code's assumption holds.
SPECIFICATION FairSpec
CONSTANTS
  a = a
  b = b
  c = c
  Articles = {a, b, c}
  List <- TwoFeeds
  Servers = {s1, s2}
  FeedsDown = 2
  ArtigosDown = 2
  Conexoes = 1
  NULL = NULL
INVARIANTS
  PermitsConserved
  ConnectionsConserved
  MapHoldsLive
PROPERTIES
  ImplementsAggregator
  Queries
CHECK_DEADLOCK FALSE
