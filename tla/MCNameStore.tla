---------------------------- MODULE MCNameStore ----------------------------
EXTENDS NameStore

CONSTANTS p1, p2, author, title

Claim(file, name, value, rank, supersede) ==
    [file |-> file, name |-> name, value |-> value, rank |-> rank, supersede |-> supersede]

\* An author's reading, and two of a title, which two passes learn: a source's
\* and a reviewer's.
stated  == Claim("authors", author, "kanji", 2, FALSE)
openbd  == Claim("titles", title, "kana", 2, FALSE)
curated == Claim("titles", title, "kanji", 2, TRUE)

MCValue == {"kana", "kanji"}
MCName == {author, title}
OrderedFiles == <<"authors", "titles">>
MCFact == {stated, openbd, curated}
MCLearns == [p \in {p1, p2} |-> IF p = p1 THEN {stated, openbd} ELSE {curated}]
=============================================================================
