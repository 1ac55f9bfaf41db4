CONSTANTS
    kana = kana
    kanji = kanji
    latin = latin
    chapter = chapter
    NoOne = NoOne
    Anchor <- MCSpelling
    Twin <- MCTwin
    Rows <- MCRows
    Siblings = {}
    Parts <- MCParts
    Rulings <- MCRulings
    MaxRulings = 3
    MaxId = 4
SPECIFICATION CreditSpec
INVARIANTS CreditTypeOK OneWorkPerAnchor RulingsHold WithdrawnAnswersNobody
PROPERTIES CleanRunIsRepeatable RulingsMergeLive RerunReportsNoFault
