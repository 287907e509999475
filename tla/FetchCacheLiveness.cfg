SPECIFICATION AnsweringSpec
CONSTANTS
  c1 = c1
  c2 = c2
  c3 = c3
  plainKey = plainKey
  taggedKey = taggedKey
  otherKey = otherKey
  url = url
  otherUrl = otherUrl
  None = None
  Failed = Failed
  UrlOf <- KeyUrl
  Calls <- TwoCalls
  JsKeys <- TwoKeys
  Urls <- OneUrl
  Revalidates <- WithZero
  DefaultTtl = 1
  Contexts <- Either
  MaxEntries = 1
  MaxTime = 1
PROPERTY FetchSettlesIfAnswered
