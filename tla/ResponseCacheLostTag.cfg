SPECIFICATION FairSpec
CONSTANTS
  t1 = t1
  t2 = t2
  Only = t1
  aHtml = aHtml
  aRsc = aRsc
  bRsc = bRsc
  tagA = tagA
  tagB = tagB
  None = None
  TagOf <- RouteTag
  Tags <- BothTags
  Enabled = TRUE
  ZeroCap = 3
  Tasks <- TwoTasks
  Keys <- RscKeys
  HtmlKeys <- NoKeys
  MaxEntries = 2
  MaxSets = 1
INVARIANT IndexCoversCache
