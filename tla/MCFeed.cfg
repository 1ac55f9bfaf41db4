CONSTANTS
    found = found
    page = page
    work = work
    Row = {found, page}
    Work = {work}
    WorkOf <- MCWorkOf
    Platform = {p, q}
    Published <- MCPublished
    Guessed = {page}
    Led = {found}
    OneShot = {page}
    DaysOfMonth = 2
    FeedDays = 2
    CurrentWindowDays = 2
    LedgerSeededOn = 2
    OneShotLateFrom = 3
    ArchiveFrom = 0
    MaxDay = 6
    MaxAddress = 2
    MaxChanges = 2
SPECIFICATION Spec
INVARIANTS FeedTypeOK NeverNewsAgain
PROPERTIES ShownStaysInItsMonth
CHECK_DEADLOCK FALSE
SYMMETRY PlatformNames
