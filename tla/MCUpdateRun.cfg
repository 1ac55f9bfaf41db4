CONSTANTS
    shelf = shelf
    site = site
    name = name
    Adapter = {shelf}
    Platform = {site}
    Own = {site}
    Answer = {name}
    Title <- MCTitle
    Threshold = 2
SPECIFICATION FairSpec
INVARIANTS UpdateTypeOK PublishedIsBacked
PROPERTIES IssuesFollowLedger
