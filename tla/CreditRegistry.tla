--------------------------- MODULE CreditRegistry ---------------------------
(***************************************************************************)
(* The credit identifiers of adapters/credit_identity.py.  A credit is the *)
(* spelling a source wrote where the author goes; the registry is the one  *)
(* of IdentityRegistry, with spellings for anchors and nothing joined.     *)
(*                                                                         *)
(* A run loads the registry, mints an identifier for every spelling of the *)
(* corpus that has none, then applies the whole ruling document in order,  *)
(* then writes the file.  The document is the record and the run is meant  *)
(* to be repeated: applying it again must change nothing.                  *)
(***************************************************************************)
EXTENDS IdentityRegistry, Sequences, SequencesExt

CONSTANTS
    Rulings,       \* the rulings a person may write
    Parts,         \* Parts[s]: the names a spaced spelling s is made of
    MaxRulings,    \* bound on the length of the document
    NoOne          \* a withdrawal that names no successor

Ruling ==
    [decision : {"merge"}, loser : Anchor, keep : Anchor]
    \union [decision : {"withdraw"}, string : Anchor, to : Anchor \union {NoOne}]

ASSUME CreditAssumption ==
    /\ Rulings \subseteq Ruling
    /\ Parts \in [Anchor -> SUBSET Anchor]
    /\ MaxRulings \in Nat
    /\ NoOne \notin Anchor
    /\ Rows = [anchor : Anchor, attached : {{}}]
    /\ \A a \in Anchor : Twin[a] = a

VARIABLES
    corpus,       \* the spellings the corpus names
    doc,          \* the ruling document, in order
    cursor,       \* the ruling apply_rulings has reached, 0 outside it
    wanted,       \* the spellings this run may mint or look up
    faults,       \* the rulings this run reported as refused
    lastFaults,   \* the rulings the last complete run refused (history)
    settled,      \* a run completed since corpus and document changed (history)
    written       \* how many entries the last complete run wrote (history)

credits == <<corpus, doc, cursor, wanted, faults, lastFaults, settled, written>>
allVars == <<vars, credits>>

CreditTypeOK ==
    /\ corpus \subseteq Anchor
    /\ doc \in Seq(Rulings)
    /\ cursor \in 0..Len(doc) + 1
    /\ wanted \subseteq Anchor
    /\ faults \subseteq Rulings /\ lastFaults \subseteq Rulings
    /\ settled \in BOOLEAN
    /\ written \in 0..n

-----------------------------------------------------------------------------
(* What changes between two runs.                                          *)

\* What the pages name is nothing the registry decides: a string ruled no
\* credit leaves the corpus when somebody teaches the splitter, or never.
CorpusChanges(s) ==
    /\ phase = "saved"
    /\ corpus' = IF s \in corpus THEN corpus \ {s} ELSE corpus \union {s}
    /\ settled' = FALSE
    /\ UNCHANGED <<vars, doc, cursor, wanted, faults, lastFaults, written>>

AddRuling(r) ==
    /\ phase = "saved"
    /\ Len(doc) < MaxRulings
    /\ r \notin ToSet(doc)
    /\ doc' = Append(doc, r)
    /\ settled' = FALSE
    /\ UNCHANGED <<vars, corpus, cursor, wanted, faults, lastFaults, written>>

-----------------------------------------------------------------------------
(* The run: minting.                                                       *)

Minted == UNION {anchors[i] : i \in Issued}

\* Mutant: held back only until the part is minted.
HeldBackForAWhile(s) == s \notin Minted /\ \E p \in Parts[s] \ {s} : p \in corpus \ Minted

\* A spaced spelling one part of which is a credit of its own is held back,
\* unless it is minted already.
HeldBack(s) == s \notin Minted /\ \E p \in Parts[s] \ {s} : p \in corpus \union Minted

\* Bound: a run starts while identifiers are left for all it may mint.
RoomToMint == n + Cardinality({s \in corpus : Index(s) = None}) <= MaxId

StartRun ==
    /\ phase = "saved"
    /\ RoomToMint
    /\ BeginAssign
    /\ wanted' = {s \in corpus : ~HeldBack(s)}
    /\ faults' = {}
    /\ UNCHANGED <<corpus, doc, cursor, lastFaults, settled, written>>

AssignSpelling(s) ==
    /\ s \in wanted
    /\ \E row \in Rows :
        row.anchor = s /\ (AssignKnown(row) \/ AssignNew(row))
    /\ wanted' = wanted \ {s}
    /\ UNCHANGED <<corpus, doc, cursor, faults, lastFaults, settled, written>>

StartRulings ==
    /\ phase = "assigning"
    /\ wanted = {}
    /\ phase' = "deciding"
    /\ cursor' = 1
    /\ owner' = [a \in Anchor |-> None]
    /\ done' = {}
    /\ UNCHANGED <<entries, related, corpus, doc, wanted, faults,
                   lastFaults, settled, written>>

-----------------------------------------------------------------------------
(* The run: one ruling of the document.                                    *)

\* Mutant: the ruling after this one is passed over.
ReachedByTwo(decision) ==
    /\ phase = "deciding"
    /\ cursor \in DOMAIN doc
    /\ doc[cursor].decision = decision
    /\ cursor' = cursor + 2
    /\ UNCHANGED <<corpus, doc, wanted, lastFaults, settled, written>>

Reached(decision) ==
    /\ phase = "deciding"
    /\ cursor \in DOMAIN doc
    /\ doc[cursor].decision = decision
    /\ cursor' = cursor + 1
    /\ UNCHANGED <<corpus, doc, wanted, lastFaults, settled, written>>

Refuse == faults' = faults \union {doc[cursor]} /\ UNCHANGED vars
Accept == UNCHANGED <<faults, vars>>

\* Two spellings are one credit.  The loser's identifier is retired, or, where
\* it never had one, the winner takes its spelling as a second one.
OneCredit(r, loser, winner) ==
    \/ winner = None /\ Refuse
    \/ winner # None /\ loser = winner /\ Accept
    \/ /\ winner # None /\ loser \notin {None, winner}
       /\ Merge(loser, winner)
       /\ UNCHANGED faults
    \/ /\ winner # None /\ loser = None
       /\ IF winner \in Refused(r.loser)
          THEN Refuse
          ELSE Attach(r.loser, winner) /\ UNCHANGED faults

\* Mutants: the entries are read from the file and not from the index, and a
\* loser without an identifier is passed over.
ApplyMergeUnresolved ==
    LET r == doc[cursor]
        Entry(s) == IF Holders(s) = {} THEN None ELSE LastHolder(s)
    IN Reached("merge") /\ OneCredit(r, Entry(r.loser), Entry(r.keep))
ApplyMergeMintedOnly ==
    LET r == doc[cursor]
    IN /\ Reached("merge")
       /\ IF Index(r.loser) = None
          THEN Accept
          ELSE OneCredit(r, Index(r.loser), Index(r.keep))

ApplyMerge ==
    LET r == doc[cursor]
    IN Reached("merge") /\ OneCredit(r, Index(r.loser), Index(r.keep))

\* Mutant: the retired entry keeps its spellings.
WithdrawKeeping(i, target) ==
    /\ detached' = [detached EXCEPT ![i] = @ \union anchors[i]]
    /\ mergedInto' = [mergedInto EXCEPT ![i] = target]
    /\ done' = {}
    /\ UNCHANGED <<n, anchors, related, phase, owner>>

\* identity.withdraw: retire i to where its readers should land, lending none
\* of its spellings.
Withdraw(i, target) ==
    /\ detached' = [detached EXCEPT ![i] = @ \union anchors[i]]
    /\ anchors' = [anchors EXCEPT ![i] = {}]
    /\ mergedInto' = [mergedInto EXCEPT ![i] = target]
    /\ done' = {}
    /\ UNCHANGED <<n, related, phase, owner>>

\* Mutant: the run does not look where an earlier run left its work.
NeverWithdrawnBefore(s) == FALSE

\* Where a withdrawal is recognised as the work of an earlier run.
WithdrawnBefore(s) == \E i \in Issued : ~Live(i) /\ s \in detached[i]

\* A string is no credit.
ApplyWithdraw ==
    /\ Reached("withdraw")
    /\ LET r == doc[cursor]
           i == Index(r.string)
           target == IF r.to = NoOne THEN None ELSE Index(r.to)
       IN \/ i = None /\ IF WithdrawnBefore(r.string) THEN Accept ELSE Refuse
          \/ i # None /\ r.to = NoOne /\ Detach(r.string) /\ UNCHANGED faults
          \/ i # None /\ r.to # NoOne /\ target \in {None, i} /\ Refuse
          \/ /\ i # None /\ r.to # NoOne /\ target \notin {None, i}
             /\ Withdraw(i, target)
             /\ UNCHANGED faults

WriteRegistry ==
    /\ phase = "deciding"
    /\ cursor > Len(doc)
    /\ phase' = "saved"
    /\ cursor' = 0
    /\ lastFaults' = faults
    /\ faults' = {}
    /\ settled' = TRUE
    /\ written' = n
    /\ UNCHANGED <<entries, related, owner, done, corpus, doc, wanted>>

-----------------------------------------------------------------------------
CreditInit ==
    /\ Init
    /\ corpus = {} /\ doc = <<>> /\ cursor = 0 /\ wanted = {}
    /\ faults = {} /\ lastFaults = {} /\ settled = FALSE
    /\ written = 0

CreditNext ==
    \/ \E s \in Anchor : CorpusChanges(s)
    \/ \E r \in Rulings : AddRuling(r)
    \/ StartRun
    \/ \E s \in Anchor : AssignSpelling(s)
    \/ StartRulings
    \/ ApplyMerge
    \/ ApplyWithdraw
    \/ WriteRegistry

CreditSpec == CreditInit /\ [][CreditNext]_allVars

-----------------------------------------------------------------------------
(* What a document has to be for its rulings to stand together.            *)

Withdrawn == {r.string : r \in {q \in Rulings : q.decision = "withdraw"}}

\* No string ruled no credit is ruled one credit with another as well.
RulingsAgree ==
    \A r \in Rulings : r.decision = "merge" => {r.loser, r.keep} \cap Withdrawn = {}

-----------------------------------------------------------------------------
\* The strings the document rules no credit.
RuledOut == {doc[k].string : k \in {q \in DOMAIN doc : doc[q].decision = "withdraw"}}

\* What the corpus goes on printing against the document, and the spaced
\* spellings that were held back for such a string.
Reprinted == {s \in corpus : s \in RuledOut \/ (Parts[s] \ {s}) \cap RuledOut # {}}

\* A run that refused no ruling, repeated over the same corpus and the same
\* document, leaves every entry it wrote as it is.  It mints again only what the
\* corpus prints against the document.
CleanRunIsRepeatable ==
    [][settled /\ lastFaults = {} =>
        /\ \A i \in 1..written :
               /\ anchors'[i] = anchors[i] /\ detached'[i] = detached[i]
               /\ mergedInto'[i] = mergedInto[i]
        /\ \A i \in Issued' \ Issued : anchors'[i] \cap Reprinted # {}]_allVars

\* The rulings only ever retire a live identifier into a live one, whatever
\* chain of merges the document builds: both sides are read from the index.
RulingsMergeLive ==
    [][\A i \in Issued : mergedInto'[i] # mergedInto[i] =>
            Live(i) /\ Live(mergedInto'[i])]_allVars

\* Once a run has applied the document, two spellings it rules one credit
\* resolve to one identifier, whatever the later rulings did.
RulingsHold ==
    settled /\ phase = "saved" =>
        \A r \in ToSet(doc) \ lastFaults : r.decision = "merge" =>
            Index(r.loser) = Index(r.keep) /\ Index(r.keep) # None

\* A string ruled no credit resolves to nobody once a run has applied the
\* ruling: its anchor was taken off, never lent.
WithdrawnAnswersNobody ==
    settled /\ phase = "saved" =>
        \A r \in ToSet(doc) \ lastFaults :
            r.decision = "withdraw" => Index(r.string) = None

\* The run recognises its own last run: a ruling that one applied is not
\* reported as a fault by the next (_withdraw: "a re-runnable pass has to look
\* where it went instead of reporting its own last run as a failure").  What it
\* may still report is a withdrawal without a successor, which leaves its entry
\* live where only a retired one is looked at, and a withdrawal of a string the
\* corpus printed again, whose successor is asked for anew.
RerunReportsNoFault ==
    [][settled => \A r \in faults' \ (faults \union lastFaults) :
                      /\ r.decision = "withdraw"
                      /\ r.to = NoOne \/ Index(r.string) # None]_allVars
=============================================================================
