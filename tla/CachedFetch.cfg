SPECIFICATION Spec
CONSTANTS
    a = a
    b = b
    None = None
    Calls = {c1, c2}
    Requests <- Pages
    Setups <- BothSetups
    MaxVersion = 2
    Ttl = 0
    StaleTtl = 1
    MaxItems = 1
INVARIANTS FlightsSound RefreshExclusive AnswersItsOwnRequest
PROPERTIES CacheNeverGoesBack FetchesEnd
