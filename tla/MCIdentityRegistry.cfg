CONSTANTS
    page = page
    pageSlash = pageSlash
    book = book
    Anchor <- MCAnchor
    Twin <- MCTwin
    Rows <- MCRows
    Siblings <- MCSiblings
    MaxId = 3
SPECIFICATION Spec
INVARIANTS TypeOK OwnerIsCurrent SurvivorIsTheWalk
PROPERTIES ResolvesUnlessCircled LinksMoveTogether AnchorsStay DetachedStaysOff AssignIsRepeatable RelationsCarriedOver
    ReaderIsServed
CONSTRAINT FewRecords
