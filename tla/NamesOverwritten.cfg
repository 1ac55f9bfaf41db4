CONSTANTS
    p1 = p1
    p2 = p2
    author = author
    title = title
    None = None
    Pass = {p1, p2}
    Name <- MCName
    Files <- OrderedFiles
    Value <- MCValue
    Fact <- MCFact
    Learns <- MCLearns
    MaxJournal = 1
SPECIFICATION Spec
INVARIANTS LandedIsKept
