-------------------------- MODULE MCCreditRegistry --------------------------
EXTENDS CreditRegistry

CONSTANTS kana, kanji, latin, chapter

MCSpelling == {kana, kanji, latin, chapter}
MCTwin == [s \in MCSpelling |-> s]
MCRows == [anchor : MCSpelling, attached : {{}}]
MCParts == [s \in MCSpelling |-> IF s = latin THEN {kana, chapter} ELSE {}]

MergeRuling(loser, keep) ==
    [decision |-> "merge", loser |-> loser, keep |-> keep]
Withdrawal(s, to) == [decision |-> "withdraw", string |-> s, to |-> to]

\* Two merges that chain either way round, a chapter title taken for a credit,
\* and the format of a book taken for one, which names nobody instead.
MCRulings == {MergeRuling(kana, kanji), MergeRuling(kanji, latin),
              MergeRuling(latin, kana), Withdrawal(chapter, kanji),
              Withdrawal(chapter, NoOne)}

\* What the theorems about the rulings ask of a document holds of this one.
ASSUME DocumentAssumption == RulingsAgree
=============================================================================
