CONSTANTS
    found = found
    page = page
    work = work
    Row = {found, page}
    Work = {work}
    WorkOf <- MCWorkOf
    Platform = {p, q}
    Published <- MCPublished
    Guessed = {page}
    Led = {found}
    OneShot = {page}
    DaysOfMonth = 2
    FeedDays = 2
    CurrentWindowDays = 2
    LedgerSeededOn = 1
    OneShotLateFrom = 3
    ArchiveFrom = 0
    MaxDay = 5
    MaxAddress = 2
    MaxChanges = 2
SPECIFICATION RederiveSpec
PROPERTIES MonthIsKept
CHECK_DEADLOCK FALSE
