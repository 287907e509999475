SPECIFICATION Spec
CONSTANTS
  home = home
  post = post
  draft = draft
  Route <- MCRoute
  Start = home
  Redirect <- MCRedirect
  MaxRetries = 1
  MaxNavs = 2
  MaxCount = 2
  MaxEditions = 1
  MaxRefetches = 2
  NoError = NoError
INVARIANTS TypeOK OneInFlight PendingIsLive   OneBodyRead
PROPERTIES RefreshesInOrder
