------------------------- MODULE MCIdentityRegistry -------------------------
EXTENDS SurvivorWalk

CONSTANTS page, pageSlash, book

\* A serialisation found at either form of its address, joined to a book run
\* that is also a record of its own.
MCAnchor == {page, pageSlash, book}
MCTwin == [a \in MCAnchor |->
              CASE a = page -> pageSlash [] a = pageSlash -> page [] OTHER -> a]
MCRows == {[anchor |-> page, attached |-> {book}],
           [anchor |-> pageSlash, attached |-> {}],
           [anchor |-> book, attached |-> {}]}

\* The serialisation and the book run share a title and an author.
MCSiblings == {<<page, book>>}

\* Bound: of detachments and relations the registry records one, of either
\* kind; merges, attachments and rows are bounded by MaxId and the anchors.
Detachments == {<<i, a>> \in Ids \X Anchor : a \in detached[i]}
FewRecords == Cardinality(Detachments) + Cardinality(related) <= 1
=============================================================================
