SPECIFICATION FairSpec
CONSTANTS
  t1 = t1
  t2 = t2
  Only = t1
  aHtml = aHtml
  aRsc = aRsc
  bRsc = bRsc
  tagA = tagA
  tagB = tagB
  None = None
  TagOf <- RouteTag
  Tags <- BothTags
  Enabled = TRUE
  ZeroCap = 3
  Tasks <- OneTask
  Keys <- AllKeys
  HtmlKeys <- OneHtml
  MaxEntries = 2
  MaxSets = 4
INVARIANTS IndexCoversCache LruMatchesCache
PROPERTY ImplementsLruCache
