CONSTANTS
    w1 = w1
    w2 = w2
    page = page
    image = image
    host = host
    None = None
    Worker = {w1, w2}
    Url = {page, image}
    Host = {host}
    HostOf <- MCHostOf
    Pause <- MCPause
    BackoffMin = 2
    BackoffMax = 4
    Trifle = 1
    Long = 5
    Attempts = 3
    Binary = {image}
    MaxKills = 1
SPECIFICATION FairSpec
INVARIANTS FetchTypeOK ServedWasAnswered
PROPERTIES EveryoneBacksOff BatchEnds
CHECK_DEADLOCK FALSE
