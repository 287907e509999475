SPECIFICATION Spec
CONSTANTS
  c1 = c1
  c2 = c2
  c3 = c3
  plainKey = plainKey
  taggedKey = taggedKey
  otherKey = otherKey
  url = url
  otherUrl = otherUrl
  None = None
  Failed = Failed
  UrlOf <- KeyUrl
  Calls <- ThreeCalls
  JsKeys <- AllKeys
  Urls <- BothUrls
  Revalidates <- TwoTtls
  DefaultTtl = 1
  Contexts <- Always
  MaxEntries = 1
  MaxTime = 1
SYMMETRY Symmetry
INVARIANTS TypeOK OneFetchPerKey CloneBeforeRead FreshAnswers
