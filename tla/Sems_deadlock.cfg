\* Two feeds on one server: a thread waits for ever.
SPECIFICATION FairSpec
CONSTANTS
  a = a
  b = b
  c = c
  Articles = {a, b, c}
  List <- TwoFeeds
  Servers = {s1, s2}
  FeedsDown = 2
  ArtigosDown = 2
  Conexoes = 1
  NULL = NULL
PROPERTY QueriesSharedServer
CHECK_DEADLOCK FALSE
