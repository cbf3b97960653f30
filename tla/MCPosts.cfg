SPECIFICATION PostsSpec
CONSTANTS
  p1 = p1
  stuck = stuck
  web = web
  scribe = scribe
  worker = worker
  ticker = ticker
  Posts = {p1, stuck}
  Broken = {stuck}
  Authors = {web}
  Writers = {scribe}
  Resyncers = {worker}
  Tickers = {ticker}
  Limit = 2
  MaxTime = 2
  NumVersions = 3
  NumEdits = 1
  MaxActs = 4
  Null = Null
INVARIANTS PostsTypeOK ShowsWhatItSays
PROPERTIES GoesLiveAsMeant TextChangesAsMeant DueGoesLive AutoPostCatchesUp
CHECK_DEADLOCK FALSE
