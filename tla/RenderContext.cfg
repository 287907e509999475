SPECIFICATION FairSpec
CONSTANTS
  page = page
  stream = stream
  otherStream = otherStream
  action = action
  route = route
  Static = {page}
  Streamed = {stream, otherStream}
  Action = {action}
  Api = {route}
  Mixes = {{page, stream, action}, {page, route}, {stream, route}, {stream, otherStream}}
  MaxFaults = 1
  None = None
INVARIANTS TypeOK OwnContext NothingLeft StreamsAreEnabled
PROPERTY RequestsEnd
\* Nothing is left to do when all requests have ended.
CHECK_DEADLOCK FALSE
