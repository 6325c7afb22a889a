\* Three feeds for two threads, three articles for two; two feeds list the same
\* article and one lists none. Any download may fail.
SPECIFICATION FairSpec
CONSTANTS
  a = a
  b = b
  Articles = {a, b}
  List <- SharedArticle
  kFeedsPoolSize = 2
  kArticlesPoolSize = 2
INVARIANTS
  ArticlesAlive
  ArticlesScheduledInTime
PROPERTIES
  ImplementsAggregator
  Queries
