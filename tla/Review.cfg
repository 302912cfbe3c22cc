SPECIFICATION FairSpec
CONSTANTS
  ReviewSettings <- MCReviewSettings
  CacheSettings <- MCCacheSettings
  IndexSettings <- MCIndexSettings
  QuerySettings <- MCQuerySettings
  FileSettings <- MCFileSettings
INVARIANTS
  ReviewIsSound
  ProvidersAreOwned
  HitsAreExact
PROPERTIES
  ReviewsEnd
CHECK_DEADLOCK FALSE
