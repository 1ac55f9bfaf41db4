------------------------ MODULE CreditRegistryProofs ------------------------
(***************************************************************************)
(* The rulings of the credit registry, for any spellings, any document and *)
(* any number of identifiers.                                              *)
(*                                                                         *)
(* That the registry stays one (every identifier resolves, one credit per  *)
(* spelling) needs nothing of the document.  That a ruling goes on holding *)
(* does: of two rulings that contradict each other one does not hold.      *)
(***************************************************************************)
EXTENDS CreditRegistry, IdentityRegistryProofs

\* Where the run is: rulings are read in the phase of their own, and what this
\* run may mint and has refused is forgotten outside it.
Cursors ==
    /\ phase = "deciding" <=> cursor # 0
    /\ phase # "assigning" => wanted = {}
    /\ phase # "deciding" => faults = {}

CInv == IInv /\ CreditTypeOK /\ Cursors

-----------------------------------------------------------------------------
(* The document and the index of credits.                                  *)

\* A ruling names spellings.
LEMMA RulingNames ==
    ASSUME NEW r \in Rulings
    PROVE  /\ r.decision \in {"merge", "withdraw"}
           /\ r.decision = "merge" => r.loser \in Anchor /\ r.keep \in Anchor
           /\ r.decision = "withdraw" => r.string \in Anchor /\ r.to \in Anchor \union {NoOne}
  <1>1. r \in Ruling
    BY CreditAssumption
  <1> QED BY <1>1 DEF Ruling

\* The ruling the run has reached is one of the document's.
LEMMA ReachedRuling ==
    ASSUME CInv, cursor \in DOMAIN doc
    PROVE  doc[cursor] \in Rulings
  <1>1. doc \in Seq(Rulings)
    BY DEF CInv, CreditTypeOK
  <1> QED BY <1>1

\* Without another slash form a spelling is answered for by those who list it.
SpellingsAnswer ==
    \A a \in Anchor :
        /\ \A h \in Holders(a) : h \in Issued /\ h \in Ids /\ Index(a) = Survivor(h)
        /\ Index(a) # None => Index(a) \in Issued /\ Index(a) \in Ids
                              /\ Live(Index(a)) /\ Survivor(Index(a)) = Index(a)
        /\ Index(a) = None <=> Holders(a) = {}

LEMMA SpellingsAreAnswered == IInv => SpellingsAnswer
  <1> SUFFICES ASSUME IInv, NEW a \in Anchor
               PROVE  /\ \A h \in Holders(a) : h \in Issued /\ h \in Ids /\ Index(a) = Survivor(h)
                      /\ Index(a) # None => Index(a) \in Issued /\ Index(a) \in Ids
                                            /\ Live(Index(a)) /\ Survivor(Index(a)) = Index(a)
                      /\ Index(a) = None <=> Holders(a) = {}
    BY DEF SpellingsAnswer
  <1>1. SurvivorSteps /\ IndexAnswers /\ HoldersAnswer /\ Issued \subseteq Ids
    BY EntriesFacts DEF IInv
  <1>2. \A h \in Holders(a) : h \in Issued /\ h \in Ids /\ Index(a) = Survivor(h)
    BY <1>1 DEF HoldersAnswer, Holders
  <1>3. Index(a) # None => Index(a) \in Issued /\ Index(a) \in Ids /\ Live(Index(a))
    BY <1>1 DEF IndexAnswers
  <1>4. ASSUME NEW h \in Holders(a) PROVE Index(a) # None
    <2>1. h \in Ids /\ Index(a) = Survivor(h)
      BY <1>2
    <2>2. Survivor(h) \in Ids
      BY <1>1, <2>1 DEF SurvivorSteps
    <2> QED BY <2>1, <2>2, IdsFacts
  <1>5. Twin[a] = a
    BY CreditAssumption
  <1>6. Holders(a) = {} => Index(a) = None
    BY <1>5 DEF Index
  <1> QED BY <1>1, <1>2, <1>3, <1>4, <1>6 DEF SurvivorSteps

LEMMA SpellingsAreAnsweredNext == IInv' => SpellingsAnswer'
  BY SpellingsAreAnswered, PTL

-----------------------------------------------------------------------------
(* The registry stays a registry.                                          *)

\* A withdrawal retires a live entry into a live one and lends it nothing.
LEMMA WithdrawKeeps ==
    ASSUME IInv, phase = "deciding", NEW i \in Issued, NEW j \in Issued, Live(i), Live(j), i # j,
           Withdraw(i, j)
    PROVE  /\ IInv'
           /\ \A k \in Ids : Survivor(k)' = IF Survivor(k) = i THEN j ELSE Survivor(k)
           /\ \A b \in Anchor : Holders(b)' = Holders(b) \ {i}
           /\ \A k \in Ids : Live(k)' <=> Live(k) /\ k # i
  <1> USE DEF IInv
  <1>1. /\ i \in Ids /\ j \in Ids /\ Issued \subseteq Ids
        /\ n' = n /\ Issued' = Issued /\ phase' = phase
        /\ mergedInto' = [mergedInto EXCEPT ![i] = j]
        /\ anchors' = [anchors EXCEPT ![i] = {}]
    BY EntriesFacts DEF Withdraw, Issued
  <1>2. TypeOK'
    BY <1>1 DEF Entries, TypeOK, Withdraw, Ids, None
  <1>3. /\ MergesOK'
        /\ \A k \in Ids : Survivor(k)' = IF Survivor(k) = i THEN j ELSE Survivor(k)
    BY <1>1, SurvivorMerged DEF Entries
  <1>4. \A k \in Ids :
          /\ anchors'[k] = IF k = i THEN {} ELSE anchors[k]
          /\ mergedInto'[k] = IF k = i THEN j ELSE mergedInto[k]
    BY <1>1 DEF Entries, TypeOK
  <1>5. OnlyIssued'
    BY <1>1, <1>4 DEF Entries, OnlyIssued, Ids, None
  <1>6. \A b \in Anchor : Holders(b)' = Holders(b) \ {i}
    BY <1>1, <1>4 DEF Holders
  <1>7. OneWorkPerAnchor'
    <2>1. \A b \in Anchor : Holders(b)' \subseteq Holders(b) /\ Holders(b) \subseteq Ids
      BY <1>1, <1>6 DEF Holders
    <2>2. \A b \in Anchor : \A h, k \in Holders(b)' : Survivor(h)' = Survivor(k)'
      BY <1>3, <2>1 DEF Entries, OneWorkPerAnchor
    <2> QED BY <2>2 DEF OneWorkPerAnchor
  <1>8. \A k \in Ids : Live(k)' <=> Live(k) /\ k # i
    BY <1>1, <1>4, IdsFacts DEF Live, None
  <1>9. phase' # "assigning"
    BY <1>1
  <1> QED BY <1>2, <1>3, <1>5, <1>6, <1>7, <1>8, <1>9 DEF Entries, OwnerIsLive, OwnerIsCurrent

\* Between the spellings and the rulings, and at the write, no entry changes.
LEMMA EntriesRestKeep ==
    ASSUME IInv, UNCHANGED <<n, anchors, mergedInto, detached, related>>, phase' # "assigning",
           TypeOK'
    PROVE  IInv'
  <1>1. Entries'
    BY EntriesKept DEF IInv
  <1> QED BY <1>1 DEF IInv, OwnerIsLive, OwnerIsCurrent

LEMMA StartRulingsKeeps ==
    ASSUME IInv, StartRulings
    PROVE  IInv'
  <1>1. UNCHANGED <<n, anchors, mergedInto, detached, related>> /\ phase' = "deciding"
    BY DEF StartRulings, entries
  <1>2. owner' \in [Anchor -> Ids \union {None}] /\ done' = {}
    BY DEF StartRulings
  <1>3. TypeOK'
    BY <1>1, <1>2 DEF IInv, Entries, TypeOK, Ids, None
  <1> QED BY <1>1, <1>3, EntriesRestKeep

LEMMA WriteKeeps ==
    ASSUME IInv, WriteRegistry
    PROVE  IInv'
  <1>1. UNCHANGED <<n, anchors, mergedInto, detached, related, owner, done>> /\ phase' = "saved"
    BY DEF WriteRegistry, entries
  <1>2. TypeOK'
    BY <1>1 DEF IInv, Entries, TypeOK, Ids, None
  <1> QED BY <1>1, <1>2, EntriesRestKeep

\* What applying one ruling does to the registry, with the two sides of it read
\* from the index: nothing, or one operation on live entries.
LEMMA MergeRulingShape ==
    ASSUME CInv, ApplyMerge, NEW r, r = doc[cursor],
           NEW l, l = Index(r.loser), NEW w, w = Index(r.keep)
    PROVE  /\ r \in Rulings /\ r.decision = "merge" /\ r.loser \in Anchor /\ r.keep \in Anchor
           /\ \/ UNCHANGED vars /\ faults' = faults \union {r} /\ (w = None \/ l = None)
              \/ UNCHANGED vars /\ UNCHANGED faults /\ w # None /\ l = w
              \/ /\ UNCHANGED faults
                 /\ w # None /\ l # None /\ l # w /\ l \in Issued /\ w \in Issued
                 /\ MergeLive(l, w)
              \/ /\ UNCHANGED faults
                 /\ w # None /\ l = None /\ w \in Issued /\ Attach(r.loser, w)
  <1>1. r \in Rulings /\ r.decision = "merge"
    BY ReachedRuling DEF ApplyMerge, Reached
  <1>2. r.loser \in Anchor /\ r.keep \in Anchor
    BY <1>1, RulingNames
  <1>3. /\ w # None => w \in Issued /\ Live(w)
        /\ l # None => l \in Issued /\ Live(l)
    BY <1>2, SpellingsAreAnswered DEF CInv, SpellingsAnswer
  <1>4. OneCredit(r, l, w)
    BY DEF ApplyMerge
  <1>5. CASE w = None
    BY <1>1, <1>2, <1>4, <1>5 DEF OneCredit, Refuse
  <1>6. CASE w # None /\ l = w
    <2>1. UNCHANGED vars /\ UNCHANGED faults
      BY <1>4, <1>6 DEF OneCredit, Accept
    <2> QED BY <1>1, <1>2, <1>6, <2>1
  <1>7. CASE w # None /\ l # None /\ l # w
    BY <1>1, <1>2, <1>3, <1>4, <1>7 DEF OneCredit, MergeLive
  <1>8. CASE w # None /\ l = None
    BY <1>1, <1>2, <1>3, <1>4, <1>8 DEF OneCredit, Refuse
  <1> QED BY <1>5, <1>6, <1>7, <1>8

LEMMA WithdrawRulingShape ==
    ASSUME CInv, ApplyWithdraw, NEW r, r = doc[cursor],
           NEW i, i = Index(r.string), NEW j, j = IF r.to = NoOne THEN None ELSE Index(r.to)
    PROVE  /\ r \in Rulings /\ r.decision = "withdraw" /\ r.string \in Anchor
           /\ \/ /\ UNCHANGED vars /\ faults' = faults \union {r}
                 /\ i # None \/ ~WithdrawnBefore(r.string)
              \/ UNCHANGED vars /\ UNCHANGED faults /\ i = None /\ WithdrawnBefore(r.string)
              \/ UNCHANGED faults /\ i # None /\ r.to = NoOne /\ Detach(r.string)
              \/ /\ UNCHANGED faults /\ r.to # NoOne
                 /\ i # None /\ j # None /\ i # j /\ i \in Issued /\ j \in Issued
                 /\ Live(i) /\ Live(j) /\ Withdraw(i, j)
  <1>1. r \in Rulings /\ r.decision = "withdraw"
    BY ReachedRuling DEF ApplyWithdraw, Reached
  <1>2. r.string \in Anchor /\ r.to \in Anchor \union {NoOne}
    BY <1>1, RulingNames
  <1>3. /\ i # None => i \in Issued /\ Live(i)
        /\ j # None => j \in Issued /\ Live(j)
    BY <1>2, SpellingsAreAnswered DEF CInv, SpellingsAnswer
  <1>4. \/ i = None /\ IF WithdrawnBefore(r.string) THEN Accept ELSE Refuse
        \/ i # None /\ r.to = NoOne /\ Detach(r.string) /\ UNCHANGED faults
        \/ i # None /\ r.to # NoOne /\ j \in {None, i} /\ Refuse
        \/ i # None /\ r.to # NoOne /\ j \notin {None, i} /\ Withdraw(i, j) /\ UNCHANGED faults
    BY DEF ApplyWithdraw
  <1>5. CASE i = None /\ WithdrawnBefore(r.string)
    BY <1>1, <1>2, <1>4, <1>5 DEF Accept
  <1>6. CASE i = None /\ ~WithdrawnBefore(r.string)
    BY <1>1, <1>2, <1>4, <1>6 DEF Refuse
  <1>7. CASE i # None
    BY <1>1, <1>2, <1>3, <1>4, <1>7 DEF Refuse
  <1> QED BY <1>5, <1>6, <1>7

\* A spelling that is looked up or minted is one of this run's, and joins nothing.
LEMMA SpellingShape ==
    ASSUME CInv, NEW s \in Anchor, AssignSpelling(s)
    PROVE  \E row \in Rows :
               /\ row.anchor = s /\ row.attached = {} /\ s \in wanted
               /\ AssignKnown(row) \/ AssignNew(row)
  <1>1. \A row \in Rows : row.attached = {}
    BY CreditAssumption
  <1> QED BY <1>1 DEF AssignSpelling

\* Every step of a run of credits is a step the registry survives.
LEMMA RegistryKeeps == CInv /\ [CreditNext]_allVars => IInv'
  <1> SUFFICES ASSUME CInv, [CreditNext]_allVars PROVE IInv'
    OBVIOUS
  <1>0. IInv
    BY DEF CInv
  <1>1. ASSUME NEW s \in Anchor, CorpusChanges(s) PROVE IInv'
    BY <1>0, <1>1, StutterKeeps DEF CorpusChanges
  <1>2. ASSUME NEW r \in Rulings, AddRuling(r) PROVE IInv'
    BY <1>0, <1>2, StutterKeeps DEF AddRuling
  <1>3. ASSUME StartRun PROVE IInv'
    BY <1>0, <1>3, BeginAssignKeeps DEF StartRun
  <1>4. ASSUME NEW s \in Anchor, AssignSpelling(s) PROVE IInv'
    <2>1. PICK row \in Rows : AssignKnown(row) \/ AssignNew(row)
      BY <1>4, SpellingShape
    <2> QED BY <1>0, <2>1, AssignKnownKeeps, AssignNewKeeps
  <1>5. ASSUME StartRulings PROVE IInv'
    BY <1>0, <1>5, StartRulingsKeeps
  <1>6. ASSUME ApplyMerge PROVE IInv'
    <2> DEFINE r == doc[cursor]
               l == Index(r.loser)
               w == Index(r.keep)
    <2>1. \/ UNCHANGED vars
          \/ l \in Issued /\ w \in Issued /\ MergeLive(l, w)
          \/ w \in Issued /\ r.loser \in Anchor /\ Attach(r.loser, w)
      BY <1>6, MergeRulingShape
    <2> HIDE DEF r, l, w
    <2> QED BY <1>0, <2>1, StutterKeeps, MergeKeeps, AttachKeeps
  <1>7. ASSUME ApplyWithdraw PROVE IInv'
    <2> DEFINE r == doc[cursor]
               i == Index(r.string)
               j == IF r.to = NoOne THEN None ELSE Index(r.to)
    <2>1. \/ UNCHANGED vars
          \/ r.string \in Anchor /\ Detach(r.string)
          \/ i # j /\ i \in Issued /\ j \in Issued /\ Live(i) /\ Live(j) /\ Withdraw(i, j)
      BY <1>7, WithdrawRulingShape
    <2>2. phase = "deciding"
      BY <1>7 DEF ApplyWithdraw, Reached
    <2> HIDE DEF r, i, j
    <2> QED BY <1>0, <2>1, <2>2, StutterKeeps, DetachKeeps, WithdrawKeeps
  <1>8. ASSUME WriteRegistry PROVE IInv'
    BY <1>0, <1>8, WriteKeeps
  <1>9. ASSUME UNCHANGED allVars PROVE IInv'
    BY <1>0, <1>9, StutterKeeps DEF allVars
  <1> QED BY <1>1, <1>2, <1>3, <1>4, <1>5, <1>6, <1>7, <1>8, <1>9 DEF CreditNext

-----------------------------------------------------------------------------
(* What a step does to the entries.                                        *)

Reaches(decision) ==
    phase = "deciding" /\ cursor \in DOMAIN doc /\ doc[cursor].decision = decision

Mints(s) ==
    /\ phase = "assigning" /\ s \in wanted /\ owner[s] = None
    /\ n < MaxId /\ n' = n + 1
    /\ anchors' = [anchors EXCEPT ![n + 1] = {s}]
    /\ UNCHANGED <<mergedInto, detached>>

JoinsCredits ==
    /\ Reaches("merge")
    /\ Index(doc[cursor].loser) \in Issued /\ Index(doc[cursor].keep) \in Issued
    /\ MergeLive(Index(doc[cursor].loser), Index(doc[cursor].keep))

AddsSpelling ==
    /\ Reaches("merge")
    /\ Index(doc[cursor].keep) \in Issued
    /\ Attach(doc[cursor].loser, Index(doc[cursor].keep))

TakesOff == Reaches("withdraw") /\ Detach(doc[cursor].string)

Retires ==
    /\ Reaches("withdraw")
    /\ Index(doc[cursor].string) \in Issued /\ Live(Index(doc[cursor].string))
    /\ \E j \in Issued :
        /\ Live(j) /\ Index(doc[cursor].string) # j
        /\ Withdraw(Index(doc[cursor].string), j)

LEMMA CreditSteps ==
    ASSUME CInv, [CreditNext]_allVars
    PROVE  \/ UNCHANGED entries
           \/ \E s \in Anchor : Mints(s)
           \/ JoinsCredits \/ AddsSpelling \/ TakesOff \/ Retires
  <1>1. ASSUME NEW s \in Anchor, CorpusChanges(s) PROVE UNCHANGED entries
    BY <1>1 DEF CorpusChanges, vars, entries
  <1>2. ASSUME NEW r \in Rulings, AddRuling(r) PROVE UNCHANGED entries
    BY <1>2 DEF AddRuling, vars, entries
  <1>3. ASSUME StartRun PROVE UNCHANGED entries
    BY <1>3 DEF StartRun, BeginAssign, entries
  <1>4. ASSUME NEW s \in Anchor, AssignSpelling(s) PROVE UNCHANGED entries \/ Mints(s)
    <2>1. PICK row \in Rows : /\ row.anchor = s /\ row.attached = {} /\ s \in wanted
                              /\ AssignKnown(row) \/ AssignNew(row)
      BY <1>4, SpellingShape
    <2>2. \A i, known : Taken(row, i, known) = {}
      BY <2>1 DEF Taken
    <2>3. anchors \in [Ids -> SUBSET Anchor]
      BY DEF CInv, IInv, Entries, TypeOK
    <2>4. CASE AssignKnown(row)
      <3> DEFINE i == owner[row.anchor]
      <3>1. anchors' = [anchors EXCEPT ![i] = @ \union {}] /\ UNCHANGED <<n, mergedInto, detached>>
        BY <2>2, <2>4 DEF AssignKnown
      <3> HIDE DEF i
      <3>2. anchors' = anchors
        BY <2>3, <3>1
      <3> QED BY <3>1, <3>2 DEF entries
    <2>5. CASE AssignNew(row)
      BY <2>1, <2>2, <2>5 DEF AssignNew, Mints
    <2> QED BY <2>1, <2>4, <2>5
  <1>5. ASSUME StartRulings PROVE UNCHANGED entries
    BY <1>5 DEF StartRulings
  <1>6. ASSUME ApplyMerge PROVE UNCHANGED entries \/ JoinsCredits \/ AddsSpelling
    <2>1. Reaches("merge")
      BY <1>6 DEF ApplyMerge, Reached, Reaches
    <2>2. UNCHANGED vars => UNCHANGED entries
      BY DEF vars, entries
    <2>3. \/ UNCHANGED vars
          \/ /\ Index(doc[cursor].loser) \in Issued /\ Index(doc[cursor].keep) \in Issued
             /\ MergeLive(Index(doc[cursor].loser), Index(doc[cursor].keep))
          \/ /\ Index(doc[cursor].keep) \in Issued
             /\ Attach(doc[cursor].loser, Index(doc[cursor].keep))
      BY <1>6, MergeRulingShape
    <2> QED BY <2>1, <2>2, <2>3 DEF JoinsCredits, AddsSpelling
  <1>7. ASSUME ApplyWithdraw PROVE UNCHANGED entries \/ TakesOff \/ Retires
    <2> DEFINE i == Index(doc[cursor].string)
               j == IF doc[cursor].to = NoOne THEN None ELSE Index(doc[cursor].to)
    <2>1. Reaches("withdraw")
      BY <1>7 DEF ApplyWithdraw, Reached, Reaches
    <2>2. UNCHANGED vars => UNCHANGED entries
      BY DEF vars, entries
    <2>3. \/ UNCHANGED vars
          \/ Detach(doc[cursor].string)
          \/ i \in Issued /\ j \in Issued /\ Live(i) /\ Live(j) /\ i # j /\ Withdraw(i, j)
      BY <1>7, WithdrawRulingShape
    <2> HIDE DEF j
    <2> QED BY <2>1, <2>2, <2>3 DEF TakesOff, Retires
  <1>8. ASSUME WriteRegistry PROVE UNCHANGED entries
    BY <1>8 DEF WriteRegistry
  <1>9. ASSUME UNCHANGED allVars PROVE UNCHANGED entries
    BY <1>9 DEF allVars, vars, entries
  <1> QED BY <1>1, <1>2, <1>3, <1>4, <1>5, <1>6, <1>7, <1>8, <1>9 DEF CreditNext

-----------------------------------------------------------------------------
(* The invariant that asks nothing of the document.                        *)

\* No identifier is taken back.
LEMMA NeverFewer == CInv /\ [CreditNext]_allVars => n \in Nat /\ n' \in Nat /\ n <= n'
  <1> SUFFICES ASSUME CInv, [CreditNext]_allVars PROVE n \in Nat /\ n' \in Nat /\ n <= n'
    OBVIOUS
  <1>1. n \in Nat
    BY DEF CInv, IInv, Entries, TypeOK
  <1>2. n' = n \/ n' = n + 1
    BY CreditSteps DEF entries, Mints, JoinsCredits, MergeLive, Merge, AddsSpelling, Attach,
                       TakesOff, Detach, Retires, Withdraw
  <1> QED BY <1>1, <1>2

LEMMA CreditTypesKeep == CInv /\ [CreditNext]_allVars => CreditTypeOK' /\ Cursors'
  <1> SUFFICES ASSUME CInv, [CreditNext]_allVars PROVE CreditTypeOK' /\ Cursors'
    OBVIOUS
  <1>10. written' \in 0..n'
    <2>1. n \in Nat /\ n' \in Nat /\ n <= n' /\ written \in 0..n
      BY NeverFewer DEF CInv, CreditTypeOK
    <2>2. \/ written' = written
          \/ written' = n
      BY DEF CreditNext, CorpusChanges, AddRuling, StartRun, AssignSpelling, StartRulings,
             ApplyMerge, ApplyWithdraw, Reached, WriteRegistry, allVars, credits
    <2> QED BY <2>1, <2>2
  <1> DEFINE TypesRest ==
               /\ corpus' \subseteq Anchor /\ doc' \in Seq(Rulings) /\ cursor' \in 0..Len(doc') + 1
               /\ wanted' \subseteq Anchor /\ faults' \subseteq Rulings
               /\ lastFaults' \subseteq Rulings /\ settled' \in BOOLEAN
  <1> USE DEF CInv, CreditTypeOK, Cursors
  <1>0. Len(doc) \in Nat /\ DOMAIN doc = 1..Len(doc) /\ cursor \in Int
    OBVIOUS
  <1>1. ASSUME NEW s \in Anchor, CorpusChanges(s) PROVE TypesRest /\ Cursors'
    BY <1>1 DEF CorpusChanges, vars
  <1>2. ASSUME NEW r \in Rulings, AddRuling(r) PROVE TypesRest /\ Cursors'
    <2>1. doc' \in Seq(Rulings) /\ Len(doc') = Len(doc) + 1
      BY <1>2 DEF AddRuling
    <2>2. corpus' \subseteq Anchor
      BY <1>2 DEF AddRuling
    <2>3. cursor' = cursor /\ settled' = FALSE /\ UNCHANGED <<phase, wanted, faults, lastFaults>>
      BY <1>2 DEF AddRuling, vars
    <2>4. cursor' \in 0..Len(doc') + 1
      <3>1. cursor \in 0..Len(doc) + 1
        OBVIOUS
      <3> QED BY <1>0, <2>1, <2>3, <3>1
    <2>5. wanted' \subseteq Anchor /\ faults' \subseteq Rulings /\ lastFaults' \subseteq Rulings
      BY <2>3
    <2>6. Cursors'
      BY <2>3
    <2> QED BY <2>1, <2>2, <2>3, <2>4, <2>5, <2>6
  <1>3. ASSUME StartRun PROVE TypesRest /\ Cursors'
    BY <1>3 DEF StartRun, BeginAssign
  <1>4. ASSUME NEW s \in Anchor, AssignSpelling(s) PROVE TypesRest /\ Cursors'
    <2>1. phase = "assigning" /\ phase' = "assigning"
      BY <1>4 DEF AssignSpelling, AssignKnown, AssignNew
    <2> QED BY <1>4, <2>1 DEF AssignSpelling
  <1>5. ASSUME StartRulings PROVE TypesRest /\ Cursors'
    BY <1>0, <1>5 DEF StartRulings
  <1>6. ASSUME ApplyMerge PROVE TypesRest /\ Cursors'
    <2>1. /\ phase = "deciding" /\ cursor \in 1..Len(doc) /\ cursor' = cursor + 1
          /\ UNCHANGED <<corpus, doc, wanted, lastFaults, settled>>
      BY <1>0, <1>6 DEF ApplyMerge, Reached
    <2>2. phase' = "deciding" /\ faults' \subseteq Rulings
      BY <1>6, <2>1, MergeRulingShape DEF vars, MergeLive, Merge, Attach
    <2> QED BY <1>0, <2>1, <2>2
  <1>7. ASSUME ApplyWithdraw PROVE TypesRest /\ Cursors'
    <2>1. /\ phase = "deciding" /\ cursor \in 1..Len(doc) /\ cursor' = cursor + 1
          /\ UNCHANGED <<corpus, doc, wanted, lastFaults, settled>>
      BY <1>0, <1>7 DEF ApplyWithdraw, Reached
    <2>2. phase' = "deciding" /\ faults' \subseteq Rulings
      BY <1>7, <2>1, WithdrawRulingShape DEF vars, Detach, Withdraw
    <2> QED BY <1>0, <2>1, <2>2
  <1>8. ASSUME WriteRegistry PROVE TypesRest /\ Cursors'
    BY <1>0, <1>8 DEF WriteRegistry
  <1>9. ASSUME UNCHANGED allVars PROVE TypesRest /\ Cursors'
    BY <1>9 DEF allVars, vars, credits
  <1> QED BY <1>10, <1>1, <1>2, <1>3, <1>4, <1>5, <1>6, <1>7, <1>8, <1>9 DEF CreditNext

\* An empty registry and an empty document.
LEMMA CreditInitHolds == CreditInit => CInv
  <1> SUFFICES ASSUME CreditInit PROVE CInv
    OBVIOUS
  <1>1. IInv
    BY InitEstablishes DEF CreditInit
  <1>2. CreditTypeOK
    <2>1. <<>> \in Seq(Rulings) /\ Len(<<>>) = 0 /\ 0 \in 0..0 + 1
      OBVIOUS
    <2>2. written \in 0..n
      BY DEF CreditInit, Init
    <2>3. doc \in Seq(Rulings) /\ cursor \in 0..Len(doc) + 1
      BY <2>1 DEF CreditInit
    <2> QED BY <2>2, <2>3 DEF CreditInit, CreditTypeOK
  <1>3. Cursors
    BY DEF CreditInit, Init, Cursors
  <1> QED BY <1>1, <1>2, <1>3 DEF CInv

\* The registry of credits is a registry, its cursor stays within the document,
\* and each run starts with nothing refused: through every step of every run.
THEOREM CreditInvariance == CreditSpec => []CInv
  <1>2. CInv /\ [CreditNext]_allVars => CInv'
    BY RegistryKeeps, CreditTypesKeep DEF CInv
  <1> QED BY <1>2, CreditInitHolds, PTL DEF CreditSpec

\* The document, its cursor and what a run holds keep their types.
THEOREM CreditTypeCorrectness == CreditSpec => []CreditTypeOK
  <1>1. CInv => CreditTypeOK
    BY DEF CInv
  <1> QED BY <1>1, CreditInvariance, PTL

\* Every credit identifier ever published resolves to a live one, whatever the
\* rulings merge and withdraw and in whatever order.
THEOREM CreditsResolve == CreditSpec => []EveryIdResolves
  <1>1. CInv => EveryIdResolves
    BY EntriesFacts DEF CInv, IInv, SurvivorSteps, EveryIdResolves
  <1> QED BY <1>1, CreditInvariance, PTL

\* No two credits answer for one spelling.
THEOREM CreditsAgree == CreditSpec => []OneWorkPerAnchor
  <1>1. CInv => OneWorkPerAnchor
    BY DEF CInv, IInv, Entries
  <1> QED BY <1>1, CreditInvariance, PTL

\* A ruling only ever retires a live identifier into a live one, however the
\* rulings before it chained their merges.
THEOREM LiveMerges == CreditSpec => RulingsMergeLive
  <1> DEFINE Lives ==
        \A i \in Issued : mergedInto'[i] # mergedInto[i] => Live(i) /\ Live(mergedInto'[i])
  <1>1. CInv /\ [CreditNext]_allVars => Lives
    <2> SUFFICES ASSUME CInv, [CreditNext]_allVars, NEW i \in Issued,
                        mergedInto'[i] # mergedInto[i]
                 PROVE  Live(i) /\ Live(mergedInto'[i])
      OBVIOUS
    <2>1. i \in Ids /\ Issued \subseteq Ids /\ mergedInto \in [Ids -> Ids \union {None}]
      BY EntriesFacts DEF CInv, IInv, Entries, TypeOK
    <2>2. \E k, j \in Issued :
              Live(k) /\ Live(j) /\ mergedInto' = [mergedInto EXCEPT ![k] = j]
      <3>1. CASE UNCHANGED entries \/ (\E s \in Anchor : Mints(s)) \/ AddsSpelling \/ TakesOff
        BY <3>1 DEF entries, Mints, AddsSpelling, Attach, TakesOff, Detach
      <3>2. CASE JoinsCredits
        BY <3>2 DEF JoinsCredits, MergeLive, Merge
      <3>3. CASE Retires
        BY <3>3 DEF Retires, Withdraw
      <3> QED BY <3>1, <3>2, <3>3, CreditSteps
    <2> QED BY <2>1, <2>2
  <1>2. CInv /\ [CreditNext]_allVars => [Lives]_allVars
    BY <1>1
  <1> QED BY <1>2, CreditInvariance, PTL DEF CreditSpec, RulingsMergeLive

-----------------------------------------------------------------------------
(* What each of those steps does to the answers.                           *)

\* An answer is what the survivor of any holder is.
LEMMA AnsweredByHolder ==
    ASSUME IInv', NEW a \in Anchor, NEW h, h \in Holders(a)'
    PROVE  Index(a)' = Survivor(h)' /\ h \in Ids
  <1>1. SpellingsAnswer'
    BY SpellingsAreAnsweredNext
  <1> QED BY <1>1 DEF SpellingsAnswer, Ids

LEMMA AnsweredByNobody ==
    ASSUME IInv', NEW a \in Anchor, Holders(a)' = {}
    PROVE  Index(a)' = None
  <1>1. SpellingsAnswer'
    BY SpellingsAreAnsweredNext
  <1> QED BY <1>1 DEF SpellingsAnswer, None

\* Where the holders of a spelling and the survivors of its holders stay, so
\* does the answer.
LEMMA AnswerRests ==
    ASSUME CInv, IInv', NEW a \in Anchor, Holders(a)' = Holders(a),
           \A h \in Holders(a) : Survivor(h)' = Survivor(h)
    PROVE  Index(a)' = Index(a)
  <1>1. SpellingsAnswer
    BY SpellingsAreAnswered DEF CInv
  <1>2. CASE Holders(a) = {}
    BY <1>1, <1>2, AnsweredByNobody DEF SpellingsAnswer
  <1>3. CASE Holders(a) # {}
    <2>1. PICK h \in Holders(a) : TRUE
      BY <1>3
    <2>2. Index(a)' = Survivor(h)'
      BY <2>1, AnsweredByHolder
    <2>3. Index(a) = Survivor(h)
      BY <1>1, <2>1 DEF SpellingsAnswer
    <2> QED BY <2>1, <2>2, <2>3
  <1> QED BY <1>2, <1>3

LEMMA RestEffect ==
    ASSUME CInv, IInv', UNCHANGED entries
    PROVE  /\ \A a \in Anchor : Holders(a)' = Holders(a) /\ Index(a)' = Index(a)
           /\ \A k \in Ids : Live(k)' <=> Live(k)
  <1>1. UNCHANGED <<n, anchors, mergedInto>>
    BY DEF entries
  <1>2. \A a \in Anchor : Holders(a)' = Holders(a)
    BY <1>1 DEF Holders, Issued
  <1>3. \A k \in Ids : Survivor(k)' = Survivor(k)
    BY <1>1, HomeStays DEF CInv
  <1>4. \A a \in Anchor : Holders(a) \subseteq Ids
    BY SpellingsAreAnswered DEF CInv, SpellingsAnswer
  <1>5. ASSUME NEW a \in Anchor PROVE Index(a)' = Index(a)
    BY <1>2, <1>3, <1>4, AnswerRests
  <1> QED BY <1>1, <1>2, <1>5 DEF Live, None

LEMMA MintEffect ==
    ASSUME CInv, IInv', NEW s \in Anchor, Mints(s), NEW i, i = n + 1
    PROVE  /\ i \notin Issued /\ i # None /\ i \in Ids
           /\ \A a \in Anchor :
                  /\ Holders(a)' = IF a = s THEN {i} ELSE Holders(a)
                  /\ Index(a)' = IF a = s THEN i ELSE Index(a)
           /\ \A k \in Ids : Live(k)' <=> Live(k)
           /\ Live(i) /\ Index(s) = None
  <1>0. /\ n \in Nat /\ n < MaxId /\ anchors \in [Ids -> SUBSET Anchor]
        /\ anchors' = [anchors EXCEPT ![i] = {s}] /\ UNCHANGED mergedInto /\ n' = i
    BY DEF CInv, IInv, Entries, TypeOK, Mints
  <1>1. /\ i \notin Issued /\ i # None /\ i \in Ids /\ Issued' = Issued \union {i}
        /\ Issued \subseteq Ids
    BY <1>0, MaxIdAssumption DEF Issued, None, Ids
  <1>2. anchors[i] = {} /\ Live(i) /\ Survivor(i) = i
    BY <1>1, EntriesFacts DEF CInv, IInv, Entries, OnlyIssued, Live, SurvivorSteps
  <1>3. \A k \in Ids : Survivor(k)' = Survivor(k)
    BY <1>0, HomeStays DEF CInv
  <1>4. Holders(s) = {} /\ Index(s) = None
    <2>1. SpellingsAnswer
      BY SpellingsAreAnswered DEF CInv
    <2>2. phase = "assigning" /\ owner[s] = None
      BY DEF Mints
    <2>3. Holders(s) # {} => owner[s] = Index(s)
      BY <2>2 DEF CInv, IInv, OwnerIsCurrent
    <2> QED BY <2>1, <2>2, <2>3 DEF SpellingsAnswer
  <1>5. ASSUME NEW a \in Anchor
        PROVE  Holders(a)' = IF a = s THEN {i} ELSE Holders(a)
    <2>1. \A k \in Issued : anchors'[k] = anchors[k]
      BY <1>0, <1>1
    <2>2. anchors'[i] = {s}
      BY <1>0, <1>1
    <2>3. Holders(a)' = {k \in Issued \union {i} : a \in anchors'[k]}
      BY <1>1 DEF Holders
    <2>4. CASE a = s
      <3>1. \A k \in Issued : a \notin anchors[k]
        BY <1>4, <2>4 DEF Holders
      <3> QED BY <2>1, <2>2, <2>3, <2>4, <3>1
    <2>5. CASE a # s
      BY <1>1, <2>1, <2>2, <2>3, <2>5 DEF Holders
    <2> QED BY <2>4, <2>5
  <1>6. ASSUME NEW a \in Anchor
        PROVE  Index(a)' = IF a = s THEN i ELSE Index(a)
    <2>1. CASE a = s
      <3>1. i \in Holders(a)'
        BY <1>5, <2>1
      <3> QED BY <1>1, <1>2, <1>3, <2>1, <3>1, AnsweredByHolder
    <2>2. CASE a # s
      <3>1. Holders(a) \subseteq Ids
        BY SpellingsAreAnswered DEF CInv, SpellingsAnswer
      <3> QED BY <1>3, <1>5, <2>2, <3>1, AnswerRests
    <2> QED BY <2>1, <2>2
  <1>7. \A k \in Ids : Live(k)' <=> Live(k)
    BY <1>0 DEF Live, None
  <1> QED BY <1>1, <1>2, <1>4, <1>5, <1>6, <1>7

LEMMA JoinEffect ==
    ASSUME CInv, IInv', NEW l \in Issued, NEW w \in Issued, MergeLive(l, w)
    PROVE  /\ l \in Ids /\ w \in Ids /\ l # w
           /\ \A a \in Anchor :
                  /\ Holders(a)' = IF l \in Holders(a) THEN Holders(a) \union {w} ELSE Holders(a)
                  /\ Index(a)' = IF Index(a) = l THEN w ELSE Index(a)
           /\ \A k \in Ids : Live(k)' <=> Live(k) /\ k # l
  <1>1. /\ l \in Ids /\ w \in Ids /\ l # w /\ Live(l) /\ Live(w) /\ n' = n /\ Issued' = Issued
        /\ mergedInto' = [mergedInto EXCEPT ![l] = w] /\ Issued \subseteq Ids
        /\ anchors' = [anchors EXCEPT ![w] = @ \union anchors[l]]
        /\ anchors \in [Ids -> SUBSET Anchor] /\ mergedInto \in [Ids -> Ids \union {None}]
    BY EntriesFacts DEF MergeLive, Merge, Issued, CInv, IInv, Entries, TypeOK
  <1>2. \A k \in Ids : Survivor(k)' = IF Survivor(k) = l THEN w ELSE Survivor(k)
    BY <1>1, SurvivorMerged DEF CInv, IInv, Entries
  <1>3. ASSUME NEW a \in Anchor
        PROVE  Holders(a)' = IF l \in Holders(a) THEN Holders(a) \union {w} ELSE Holders(a)
    <2>1. \A k \in Issued : anchors'[k] = IF k = w THEN anchors[k] \union anchors[l] ELSE anchors[k]
      BY <1>1
    <2> QED BY <1>1, <2>1 DEF Holders
  <1>4. ASSUME NEW a \in Anchor
        PROVE  Index(a)' = IF Index(a) = l THEN w ELSE Index(a)
    <2>1. SpellingsAnswer
      BY SpellingsAreAnswered DEF CInv
    <2>2. CASE Holders(a) = {}
      <3>1. Holders(a)' = {} /\ Index(a) = None /\ None # l
        BY <1>1, <1>3, <2>1, <2>2, IdsFacts DEF SpellingsAnswer
      <3> QED BY <3>1, AnsweredByNobody
    <2>3. CASE Holders(a) # {}
      <3>1. PICK h \in Holders(a) : TRUE
        BY <2>3
      <3>2. h \in Holders(a)' /\ h \in Ids /\ Index(a) = Survivor(h)
        BY <1>3, <2>1, <3>1 DEF SpellingsAnswer
      <3>3. Index(a)' = Survivor(h)'
        BY <3>2, AnsweredByHolder
      <3> QED BY <1>2, <3>2, <3>3
    <2> QED BY <2>2, <2>3
  <1>5. \A k \in Ids : Live(k)' <=> Live(k) /\ k # l
    BY <1>1, IdsFacts DEF Live, None
  <1> QED BY <1>1, <1>3, <1>4, <1>5

LEMMA AddEffect ==
    ASSUME CInv, IInv', NEW x \in Anchor, NEW w \in Issued, Live(w), Attach(x, w)
    PROVE  /\ \A a \in Anchor :
                  /\ Holders(a)' = IF a = x THEN {w} ELSE Holders(a)
                  /\ Index(a)' = IF a = x THEN w ELSE Index(a)
           /\ \A k \in Ids : Live(k)' <=> Live(k)
           /\ Index(x) = None
  <1>1. /\ w \in Ids /\ n' = n /\ Issued' = Issued /\ Issued \subseteq Ids /\ UNCHANGED mergedInto
        /\ anchors' = [anchors EXCEPT ![w] = @ \union {x}] /\ Index(x) = None
        /\ anchors \in [Ids -> SUBSET Anchor]
    BY EntriesFacts DEF Attach, Issued, CInv, IInv, Entries, TypeOK
  <1>2. Survivor(w) = w /\ Survivor(w)' = w /\ \A k \in Ids : Survivor(k)' = Survivor(k)
    <2>1. Survivor(w) = w
      BY <1>1, EntriesFacts DEF CInv, IInv, SurvivorSteps
    <2> QED BY <1>1, <2>1, HomeStays DEF CInv
  <1>3. Holders(x) = {} /\ \A a \in Anchor : Holders(a) \subseteq Ids
    BY <1>1, SpellingsAreAnswered DEF CInv, SpellingsAnswer
  <1>4. ASSUME NEW a \in Anchor
        PROVE  Holders(a)' = IF a = x THEN {w} ELSE Holders(a)
    <2>1. \A k \in Issued : anchors'[k] = IF k = w THEN anchors[k] \union {x} ELSE anchors[k]
      BY <1>1
    <2>2. Holders(a)' = {k \in Issued : a \in anchors'[k]}
      BY <1>1 DEF Holders
    <2>3. CASE a = x
      <3>1. \A k \in Issued : a \notin anchors[k]
        BY <1>3, <2>3 DEF Holders
      <3> QED BY <2>1, <2>2, <2>3, <3>1
    <2>4. CASE a # x
      BY <2>1, <2>2, <2>4 DEF Holders
    <2> QED BY <2>3, <2>4
  <1>5. ASSUME NEW a \in Anchor
        PROVE  Index(a)' = IF a = x THEN w ELSE Index(a)
    <2>1. CASE a = x
      <3>1. w \in Holders(a)'
        BY <1>4, <2>1
      <3> QED BY <1>2, <2>1, <3>1, AnsweredByHolder
    <2>2. CASE a # x
      BY <1>2, <1>3, <1>4, <2>2, AnswerRests
    <2> QED BY <2>1, <2>2
  <1>6. \A k \in Ids : Live(k)' <=> Live(k)
    BY <1>1 DEF Live, None
  <1> QED BY <1>1, <1>4, <1>5, <1>6

-----------------------------------------------------------------------------
(* A string ruled no credit.                                               *)

\* While no string is both withdrawn and merged, a string that may be withdrawn
\* has an entry of its own: nobody else lists it, and nothing else leads there.
Alone ==
    \A s \in Withdrawn : \A i \in Holders(s) :
        /\ Live(i)
        /\ Holders(s) = {i}
        /\ \A b \in Anchor \ {s} : Index(b) # i

\* The ruling a run has reached withdraws s.
Leaving(s) == Reaches("withdraw") /\ doc[cursor].string = s

LEMMA WithdrawnNames ==
    ASSUME CInv
    PROVE  /\ Withdrawn \subseteq Anchor
           /\ \A s : Leaving(s) => s \in Withdrawn
           /\ Reaches("withdraw") => doc[cursor].string \in Withdrawn
  <1>1. Withdrawn \subseteq Anchor
    BY RulingNames DEF Withdrawn
  <1>2. ASSUME Reaches("withdraw") PROVE doc[cursor].string \in Withdrawn
    <2>1. doc[cursor] \in Rulings /\ doc[cursor].decision = "withdraw"
      BY <1>2, ReachedRuling DEF Reaches
    <2> QED BY <2>1 DEF Withdrawn
  <1> QED BY <1>1, <1>2 DEF Leaving

\* The two sides of a merge are no strings that may be withdrawn.
LEMMA MergeNames ==
    ASSUME CInv, RulingsAgree, Reaches("merge")
    PROVE  /\ doc[cursor].loser \in Anchor \ Withdrawn
           /\ doc[cursor].keep \in Anchor \ Withdrawn
  <1>1. doc[cursor] \in Rulings /\ doc[cursor].decision = "merge"
    BY ReachedRuling DEF Reaches
  <1>2. doc[cursor].loser \in Anchor /\ doc[cursor].keep \in Anchor
    BY <1>1, RulingNames
  <1> QED BY <1>1, <1>2 DEF RulingsAgree

\* A withdrawal leaves its string with nobody and every other where it was.
LEMMA LeaveEffect ==
    ASSUME CInv, IInv', Alone, TakesOff \/ Retires, NEW s, s = doc[cursor].string
    PROVE  /\ s \in Withdrawn /\ s \in Anchor
           /\ \A a \in Anchor :
                  /\ Holders(a)' = IF a = s THEN {} ELSE Holders(a)
                  /\ Index(a)' = IF a = s THEN None ELSE Index(a)
           /\ \A k \in Ids : Live(k) /\ k # Index(s) => Live(k)'
  <1>1. s \in Withdrawn /\ s \in Anchor /\ s \in Withdrawn \cap Anchor
    BY WithdrawnNames DEF TakesOff, Retires
  <1>2. SpellingsAnswer /\ Issued \subseteq Ids /\ anchors \in [Ids -> SUBSET Anchor]
    BY SpellingsAreAnswered, EntriesFacts DEF CInv, IInv, Entries, TypeOK
  <1>3. Index(s) # None
    BY IdsFacts, <1>2 DEF TakesOff, Retires, Detach
  <1>4. PICK i \in Holders(s) : TRUE
    BY <1>1, <1>2, <1>3 DEF SpellingsAnswer
  <1>5. /\ Live(i) /\ Holders(s) = {i} /\ i \in Ids /\ i \in Issued /\ Index(s) = i
        /\ \A b \in Anchor \ {s} : Index(b) # i
    <2>1. /\ Live(i) /\ Holders(s) = {i} /\ \A b \in Anchor \ {s} : Index(b) # i
      BY <1>1, <1>4 DEF Alone
    <2>2. i \in Ids /\ i \in Issued /\ Index(s) = Survivor(i)
      BY <1>1, <1>2, <1>4 DEF SpellingsAnswer
    <2>3. Survivor(i) = i
      BY <2>1, <2>2, EntriesFacts DEF CInv, IInv, SurvivorSteps
    <2> QED BY <2>1, <2>2, <2>3
  <1>6. \A b \in Anchor \ {s} : i \notin Holders(b) /\ \A h \in Holders(b) : Survivor(h) # i
    <2>1. \A b \in Anchor : \A h \in Holders(b) : Index(b) = Survivor(h)
      BY <1>2 DEF SpellingsAnswer
    <2>2. Survivor(i) = i
      BY <1>5, EntriesFacts DEF CInv, IInv, SurvivorSteps
    <2> QED BY <1>5, <2>1, <2>2
  <1>7. CASE TakesOff
    <2>1. /\ UNCHANGED mergedInto /\ n' = n /\ Issued' = Issued
          /\ anchors' = [anchors EXCEPT ![i] = @ \ {s}]
      <3> DEFINE first == CHOOSE k \in Holders(s) : \A j \in Holders(s) : k <= j
      <3>1. first = i
        <4>1. i <= i
          BY <1>5, MaxIdAssumption DEF Ids
        <4>2. \E k \in Holders(s) : \A j \in Holders(s) : k <= j
          BY <1>5, <4>1
        <4>3. first \in Holders(s)
          BY <4>2
        <4> QED BY <1>5, <4>3
      <3>2. anchors' = [anchors EXCEPT ![first] = @ \ {s}]
        BY <1>5, <1>7 DEF TakesOff, Detach
      <3> HIDE DEF first
      <3> QED BY <1>7, <3>1, <3>2 DEF TakesOff, Detach, Issued
    <2>2. ASSUME NEW a \in Anchor PROVE Holders(a)' = IF a = s THEN {} ELSE Holders(a)
      <3>1. \A k \in Issued : anchors'[k] = IF k = i THEN anchors[k] \ {s} ELSE anchors[k]
        BY <1>2, <2>1
      <3>2. Holders(a)' = {k \in Issued : a \in anchors'[k]}
        BY <2>1 DEF Holders
      <3>3. CASE a = s
        <4>1. \A k \in Issued : k # i => a \notin anchors[k]
          BY <1>5, <3>3 DEF Holders
        <4> QED BY <3>1, <3>2, <3>3, <4>1
      <3>4. CASE a # s
        BY <3>1, <3>2, <3>4 DEF Holders
      <3> QED BY <3>3, <3>4
    <2>3. \A k \in Ids : Survivor(k)' = Survivor(k)
      BY <2>1, HomeStays DEF CInv
    <2>4. ASSUME NEW a \in Anchor PROVE Index(a)' = IF a = s THEN None ELSE Index(a)
      <3>1. CASE a = s
        BY <2>2, <3>1, AnsweredByNobody
      <3>2. CASE a # s
        <4>1. Holders(a) \subseteq Ids
          BY <1>2 DEF SpellingsAnswer
        <4> QED BY <2>2, <2>3, <3>2, <4>1, AnswerRests
      <3> QED BY <3>1, <3>2
    <2> QED BY <1>1, <2>1, <2>2, <2>4 DEF Live, None
  <1>8. CASE Retires
    <2>1. PICK j \in Issued : Live(j) /\ i # j /\ Withdraw(i, j)
      BY <1>5, <1>8 DEF Retires
    <2>2. phase = "deciding"
      BY <1>8 DEF Retires, Reaches
    <2>3. /\ \A k \in Ids : Survivor(k)' = IF Survivor(k) = i THEN j ELSE Survivor(k)
          /\ \A b \in Anchor : Holders(b)' = Holders(b) \ {i}
          /\ \A k \in Ids : Live(k)' <=> Live(k) /\ k # i
      BY <1>5, <2>1, <2>2, WithdrawKeeps DEF CInv
    <2>4. ASSUME NEW a \in Anchor PROVE Holders(a)' = IF a = s THEN {} ELSE Holders(a)
      <3>1. Holders(a)' = Holders(a) \ {i}
        BY <2>3
      <3>2. CASE a = s
        BY <1>5, <3>1, <3>2
      <3>3. CASE a # s
        <4>1. i \notin Holders(a)
          BY <1>6, <3>3
        <4> QED BY <3>1, <3>3, <4>1
      <3> QED BY <3>2, <3>3
    <2>5. ASSUME NEW a \in Anchor PROVE Index(a)' = IF a = s THEN None ELSE Index(a)
      <3>1. CASE a = s
        BY <2>4, <3>1, AnsweredByNobody
      <3>2. CASE a # s
        <4>1. Holders(a) \subseteq Ids
          BY <1>2 DEF SpellingsAnswer
        <4>2. \A h \in Holders(a) : Survivor(h)' = Survivor(h)
          BY <1>6, <2>3, <3>2, <4>1
        <4> QED BY <2>4, <3>2, <4>2, AnswerRests
      <3> QED BY <3>1, <3>2
    <2> QED BY <1>1, <1>5, <2>3, <2>4, <2>5
  <1> QED BY <1>7, <1>8

\* No step takes a string that may be withdrawn out of its own entry into
\* another, or leads another spelling into it.
LEMMA AloneKeeps ==
    ASSUME RulingsAgree, CInv, IInv', Alone, [CreditNext]_allVars
    PROVE  Alone'
  <1> SUFFICES ASSUME NEW s \in Withdrawn, NEW i \in Holders(s)'
               PROVE  /\ Live(i)'
                      /\ Holders(s)' = {i}
                      /\ \A b \in Anchor \ {s} : Index(b)' # i
    BY DEF Alone
  <1>1. s \in Anchor
    BY WithdrawnNames
  <1>2. SpellingsAnswer
    BY SpellingsAreAnswered DEF CInv
  <1>3. i \in Holders(s) => /\ Live(i) /\ Holders(s) = {i} /\ i \in Issued /\ i \in Ids /\ i # None
                            /\ Index(s) = i /\ \A b \in Anchor \ {s} : Index(b) # i
    <2> SUFFICES ASSUME i \in Holders(s)
                 PROVE  /\ Live(i) /\ Holders(s) = {i} /\ i \in Issued /\ i \in Ids /\ i # None
                        /\ Index(s) = i /\ \A b \in Anchor \ {s} : Index(b) # i
      OBVIOUS
    <2>1. i \in Issued /\ i \in Ids /\ Index(s) = Survivor(i)
      BY <1>1, <1>2 DEF SpellingsAnswer
    <2>2. Live(i) /\ Holders(s) = {i} /\ \A b \in Anchor \ {s} : Index(b) # i
      BY DEF Alone
    <2>3. Survivor(i) = i
      BY <2>1, <2>2, EntriesFacts DEF CInv, IInv, SurvivorSteps
    <2> QED BY <2>1, <2>2, <2>3, IdsFacts
  <1>4. CASE UNCHANGED entries
    BY <1>1, <1>3, <1>4, RestEffect
  <1>5. ASSUME NEW x \in Anchor, Mints(x)
        PROVE  Live(i)' /\ Holders(s)' = {i} /\ \A b \in Anchor \ {s} : Index(b)' # i
    <2> DEFINE new == n + 1
    <2>1. /\ new \notin Issued /\ new # None /\ new \in Ids
          /\ \A a \in Anchor :
                 /\ Holders(a)' = IF a = x THEN {new} ELSE Holders(a)
                 /\ Index(a)' = IF a = x THEN new ELSE Index(a)
          /\ \A k \in Ids : Live(k)' <=> Live(k)
          /\ Live(new)
      BY <1>5, MintEffect
    <2> HIDE DEF new
    <2>2. \A a \in Anchor : Index(a) # new
      BY <1>2, <2>1 DEF SpellingsAnswer
    <2>3. CASE s = x
      BY <1>1, <2>1, <2>2, <2>3
    <2>4. CASE s # x
      BY <1>1, <1>3, <2>1, <2>4
    <2> QED BY <2>3, <2>4
  <1>6. CASE JoinsCredits
    <2> DEFINE l == Index(doc[cursor].loser)
               w == Index(doc[cursor].keep)
    <2>1. /\ l \in Ids /\ w \in Ids /\ l \in Issued /\ w \in Issued
          /\ \A a \in Anchor :
                 /\ Holders(a)' = IF l \in Holders(a) THEN Holders(a) \union {w} ELSE Holders(a)
                 /\ Index(a)' = IF Index(a) = l THEN w ELSE Index(a)
          /\ \A k \in Ids : Live(k)' <=> Live(k) /\ k # l
      BY <1>6, JoinEffect DEF JoinsCredits
    <2>2. doc[cursor].loser \in Anchor \ {s} /\ doc[cursor].keep \in Anchor \ {s}
      BY <1>6, MergeNames DEF JoinsCredits
    <2>3. l \notin Holders(s)
      BY <2>2 DEF Alone
    <2>4. i \in Holders(s) /\ Holders(s)' = Holders(s)
      BY <1>1, <2>1, <2>3
    <2>5. l # i /\ w # i
      BY <1>3, <2>2, <2>4
    <2> HIDE DEF l, w
    <2> QED BY <1>1, <1>3, <2>1, <2>4, <2>5
  <1>7. CASE AddsSpelling
    <2> DEFINE x == doc[cursor].loser
               w == Index(doc[cursor].keep)
    <2>1. x \in Anchor \ {s} /\ doc[cursor].keep \in Anchor \ {s}
      BY <1>7, MergeNames DEF AddsSpelling
    <2>2. w \in Issued /\ Live(w) /\ Attach(x, w)
      <3>1. w \in Issued /\ Attach(x, w)
        BY <1>7 DEF AddsSpelling
      <3>2. w # None
        BY <3>1, EntriesFacts, IdsFacts DEF CInv, IInv
      <3> QED BY <1>2, <2>1, <3>1, <3>2 DEF SpellingsAnswer
    <2>3. w # i \/ i \notin Holders(s)
      BY <1>3, <2>1
    <2> HIDE DEF x, w
    <2>4. /\ \A a \in Anchor :
                 /\ Holders(a)' = IF a = x THEN {w} ELSE Holders(a)
                 /\ Index(a)' = IF a = x THEN w ELSE Index(a)
          /\ \A k \in Ids : Live(k)' <=> Live(k)
      BY <2>1, <2>2, AddEffect
    <2> QED BY <1>1, <1>3, <2>1, <2>3, <2>4
  <1>8. CASE TakesOff \/ Retires
    <2> DEFINE x == doc[cursor].string
    <2>1. /\ x \in Anchor
          /\ \A a \in Anchor :
                 /\ Holders(a)' = IF a = x THEN {} ELSE Holders(a)
                 /\ Index(a)' = IF a = x THEN None ELSE Index(a)
          /\ \A k \in Ids : Live(k) /\ k # Index(x) => Live(k)'
      BY <1>8, LeaveEffect
    <2> HIDE DEF x
    <2>2. s # x /\ i \in Holders(s) /\ Holders(s)' = Holders(s)
      BY <1>1, <2>1
    <2>3. Index(x) # i
      BY <1>3, <2>1, <2>2
    <2> QED BY <1>3, <2>1, <2>2, <2>3
  <1> QED BY <1>4, <1>5, <1>6, <1>7, <1>8, CreditSteps

\* Whatever a step does, two spellings that are one credit stay one, a credit
\* stays a credit unless its own withdrawal is reached, and a string that was
\* ruled no credit stays nobody's unless the run looks it up again.
AnswersKept ==
    /\ \A a \in Anchor : ~Leaving(a) /\ Index(a) # None => Index(a)' # None
    /\ \A a, b \in Anchor :
           ~Leaving(a) /\ ~Leaving(b) /\ Index(a) = Index(b) /\ Index(a) # None
               => Index(a)' = Index(b)'
    /\ \A s \in Withdrawn : Index(s) = None /\ s \notin wanted => Index(s)' = None

LEMMA AnswersAreKept ==
    ASSUME RulingsAgree, CInv, IInv', Alone, [CreditNext]_allVars
    PROVE  AnswersKept
  <1>1. Withdrawn \subseteq Anchor
    BY WithdrawnNames
  <1>2. CASE UNCHANGED entries
    <2>1. \A a \in Anchor : Index(a)' = Index(a)
      BY <1>2, RestEffect
    <2> QED BY <1>1, <2>1 DEF AnswersKept
  <1>3. ASSUME NEW x \in Anchor, Mints(x) PROVE AnswersKept
    <2> DEFINE new == n + 1
    <2>1. /\ new # None /\ Index(x) = None
          /\ \A a \in Anchor : Index(a)' = IF a = x THEN new ELSE Index(a)
      BY <1>3, MintEffect
    <2>2. x \in wanted
      BY <1>3 DEF Mints
    <2> HIDE DEF new
    <2> QED BY <1>1, <2>1, <2>2 DEF AnswersKept
  <1>4. CASE JoinsCredits
    <2> DEFINE l == Index(doc[cursor].loser)
               w == Index(doc[cursor].keep)
    <2>1. /\ l \in Ids /\ w \in Ids
          /\ \A a \in Anchor : Index(a)' = IF Index(a) = l THEN w ELSE Index(a)
      BY <1>4, JoinEffect DEF JoinsCredits
    <2> HIDE DEF l, w
    <2>2. l # None /\ w # None
      BY <2>1, IdsFacts
    <2> QED BY <1>1, <2>1, <2>2 DEF AnswersKept
  <1>5. CASE AddsSpelling
    <2> DEFINE x == doc[cursor].loser
               w == Index(doc[cursor].keep)
    <2>1. x \in Anchor \ Withdrawn /\ doc[cursor].keep \in Anchor
      BY <1>5, MergeNames DEF AddsSpelling
    <2>2. w \in Issued /\ Live(w) /\ Attach(x, w) /\ w # None
      <3>1. w \in Issued /\ Attach(x, w)
        BY <1>5 DEF AddsSpelling
      <3>2. w # None
        BY <3>1, EntriesFacts, IdsFacts DEF CInv, IInv
      <3> QED BY <2>1, <3>1, <3>2, SpellingsAreAnswered DEF CInv, SpellingsAnswer
    <2> HIDE DEF x, w
    <2>3. Index(x) = None /\ \A a \in Anchor : Index(a)' = IF a = x THEN w ELSE Index(a)
      BY <2>1, <2>2, AddEffect
    <2> QED BY <1>1, <2>1, <2>2, <2>3 DEF AnswersKept
  <1>6. CASE TakesOff \/ Retires
    <2> DEFINE x == doc[cursor].string
    <2>1. \A a \in Anchor : Index(a)' = IF a = x THEN None ELSE Index(a)
      BY <1>6, LeaveEffect
    <2>2. Leaving(x)
      BY <1>6 DEF Leaving, TakesOff, Retires
    <2> HIDE DEF x
    <2> QED BY <1>1, <2>1, <2>2 DEF AnswersKept
  <1> QED BY <1>2, <1>3, <1>4, <1>5, <1>6, CreditSteps

-----------------------------------------------------------------------------
(* A ruling that was applied goes on holding.                              *)

\* What a ruling says of the registry.
Holds(r) ==
    /\ r.decision = "merge" => Index(r.loser) = Index(r.keep) /\ Index(r.keep) # None
    /\ r.decision = "withdraw" => Index(r.string) = None

\* What the run has applied holds while it goes on, and once it is over.
RulingsStand ==
    /\ phase = "deciding" =>
           \A k \in DOMAIN doc : k < cursor /\ doc[k] \notin faults => Holds(doc[k])
    /\ settled /\ phase = "saved" =>
           \A k \in DOMAIN doc : doc[k] \notin lastFaults => Holds(doc[k])

StandingInv == CInv /\ Alone /\ RulingsStand

LEMMA HoldsIsKept ==
    ASSUME RulingsAgree, CInv, IInv', Alone, [CreditNext]_allVars,
           NEW r \in Rulings, Holds(r), r.decision = "withdraw" => r.string \notin wanted
    PROVE  Holds(r)'
  <1>1. AnswersKept
    BY AnswersAreKept
  <1>2. CASE r.decision = "merge"
    <2>1. r.loser \in Anchor \ Withdrawn /\ r.keep \in Anchor \ Withdrawn
      BY <1>2, RulingNames DEF RulingsAgree
    <2>2. ~Leaving(r.loser) /\ ~Leaving(r.keep)
      BY <2>1, WithdrawnNames
    <2> QED BY <1>1, <1>2, <2>1, <2>2 DEF Holds, AnswersKept, None
  <1>3. CASE r.decision = "withdraw"
    <2>1. r.string \in Withdrawn
      BY <1>3 DEF Withdrawn
    <2> QED BY <1>1, <1>3, <2>1 DEF Holds, AnswersKept, None
  <1> QED BY <1>2, <1>3, RulingNames

\* A ruling that is not refused holds as soon as it is applied.
LEMMA AppliedHolds ==
    ASSUME RulingsAgree, CInv, IInv', Alone, ApplyMerge \/ ApplyWithdraw,
           NEW r, r = doc[cursor], r \notin faults'
    PROVE  Holds(r)'
  <1>0. SpellingsAnswer
    BY SpellingsAreAnswered DEF CInv
  <1>1. CASE ApplyMerge
    <2> DEFINE l == Index(r.loser)
               w == Index(r.keep)
    <2>1. /\ r \in Rulings /\ r.decision = "merge" /\ r.loser \in Anchor /\ r.keep \in Anchor
          /\ \/ UNCHANGED vars /\ w # None /\ l = w
             \/ w # None /\ l # None /\ l # w /\ l \in Issued /\ w \in Issued /\ MergeLive(l, w)
             \/ w # None /\ l = None /\ w \in Issued /\ Attach(r.loser, w)
      BY <1>1, MergeRulingShape
    <2>2. CASE UNCHANGED vars /\ w # None /\ l = w
      <3>1. Index(r.loser)' = l /\ Index(r.keep)' = w
        BY <2>1, <2>2, RestEffect DEF vars, entries
      <3> QED BY <2>1, <2>2, <3>1 DEF Holds, None
    <2>3. CASE w # None /\ l # w /\ l \in Issued /\ w \in Issued /\ MergeLive(l, w)
      <3>1. \A a \in Anchor : Index(a)' = IF Index(a) = l THEN w ELSE Index(a)
        <4> HIDE DEF l, w
        <4> QED BY <2>3, JoinEffect
      <3>2. Index(r.loser)' = w /\ Index(r.keep)' = w
        BY <2>1, <3>1
      <3> QED BY <2>1, <2>3, <3>2 DEF Holds, None
    <2>4. CASE w # None /\ l = None /\ w \in Issued /\ Attach(r.loser, w)
      <3>1. Live(w)
        BY <1>0, <2>1, <2>4 DEF SpellingsAnswer
      <3>2. \A a \in Anchor : Index(a)' = IF a = r.loser THEN w ELSE Index(a)
        <4> HIDE DEF w
        <4> QED BY <2>1, <2>4, <3>1, AddEffect
      <3>3. Index(r.loser)' = w /\ Index(r.keep)' = w
        BY <2>1, <3>2
      <3> QED BY <2>1, <2>4, <3>3 DEF Holds, None
    <2> HIDE DEF l, w
    <2> QED BY <2>1, <2>2, <2>3, <2>4
  <1>2. CASE ApplyWithdraw
    <2> DEFINE i == Index(r.string)
               j == IF r.to = NoOne THEN None ELSE Index(r.to)
    <2>1. /\ r \in Rulings /\ r.decision = "withdraw" /\ r.string \in Anchor
          /\ \/ UNCHANGED vars /\ i = None
             \/ Detach(r.string)
             \/ i \in Issued /\ j \in Issued /\ Live(i) /\ Live(j) /\ i # j /\ Withdraw(i, j)
      BY <1>2, WithdrawRulingShape
    <2>2. CASE UNCHANGED vars /\ i = None
      <3>1. Index(r.string)' = i
        BY <2>1, <2>2, RestEffect DEF vars, entries
      <3> QED BY <2>1, <2>2, <3>1 DEF Holds, None
    <2>3. CASE TakesOff \/ Retires
      <3>1. Index(r.string)' = None
        BY <2>1, <2>3, LeaveEffect
      <3> QED BY <2>1, <3>1 DEF Holds, None
    <2>4. Reaches("withdraw")
      BY <1>2 DEF ApplyWithdraw, Reached, Reaches
    <2>5. Detach(r.string) => TakesOff
      BY <2>4 DEF TakesOff
    <2>6. i \in Issued /\ j \in Issued /\ Live(i) /\ Live(j) /\ i # j /\ Withdraw(i, j) => Retires
      <3> HIDE DEF j
      <3> QED BY <2>4 DEF Retires
    <2> HIDE DEF i, j
    <2> QED BY <2>1, <2>2, <2>3, <2>5, <2>6
  <1> QED BY <1>1, <1>2

LEMMA RulingsStandKeeps ==
    ASSUME RulingsAgree, StandingInv, CInv', [CreditNext]_allVars
    PROVE  RulingsStand'
  <1>0. CInv /\ IInv' /\ Alone /\ RulingsStand
    BY DEF StandingInv, CInv
  <1>1. ASSUME phase = "deciding", doc' = doc, NEW k \in DOMAIN doc, k < cursor, doc[k] \notin faults
        PROVE  Holds(doc[k])'
    <2> DEFINE r == doc[k]
    <2>1. r \in Rulings /\ Holds(r)
      BY <1>0, <1>1 DEF CInv, CreditTypeOK, RulingsStand
    <2>2. wanted = {}
      BY <1>0, <1>1 DEF CInv, Cursors
    <2>3. ASSUME NEW q, q \in Rulings, Holds(q) PROVE Holds(q)'
      BY <1>0, <2>2, <2>3, HoldsIsKept
    <2> QED BY <1>1, <2>1, <2>3 DEF Holds
  <1>2. CASE phase' = "saved" /\ ~settled'
    BY <1>2 DEF RulingsStand
  <1>3. CASE phase' = "assigning"
    BY <1>3 DEF RulingsStand
  <1>4. CASE StartRulings
    <2>1. phase' = "deciding" /\ cursor' = 1 /\ doc' = doc
      BY <1>4 DEF StartRulings
    <2>2. DOMAIN doc = 1..Len(doc) /\ Len(doc) \in Nat
      BY <1>0 DEF CInv, CreditTypeOK
    <2> QED BY <2>1, <2>2 DEF RulingsStand
  <1>5. CASE ApplyMerge \/ ApplyWithdraw
    <2>1. /\ phase = "deciding" /\ cursor \in DOMAIN doc /\ cursor' = cursor + 1 /\ doc' = doc
          /\ faults \subseteq faults'
      BY <1>0, <1>5, MergeRulingShape, WithdrawRulingShape DEF ApplyMerge, ApplyWithdraw, Reached
    <2>2. phase' = "deciding"
      BY <2>1 DEF CInv, CreditTypeOK, Cursors
    <2>3. DOMAIN doc = 1..Len(doc) /\ Len(doc) \in Nat
      BY <1>0 DEF CInv, CreditTypeOK
    <2>4. ASSUME NEW k \in DOMAIN doc, k < cursor', doc[k] \notin faults' PROVE Holds(doc[k])'
      <3>1. CASE k < cursor
        BY <1>1, <2>1, <2>4, <3>1
      <3>2. CASE k = cursor
        <4>1. ASSUME NEW q, q = doc[cursor], q \notin faults' PROVE Holds(q)'
          BY <1>0, <1>5, <4>1, AppliedHolds
        <4> QED BY <2>1, <2>4, <3>2, <4>1 DEF Holds
      <3> QED BY <2>1, <2>3, <2>4, <3>1, <3>2
    <2> QED BY <2>1, <2>2, <2>4 DEF RulingsStand
  <1>6. CASE WriteRegistry
    <2>1. /\ phase = "deciding" /\ phase' = "saved" /\ doc' = doc /\ lastFaults' = faults
          /\ cursor > Len(doc)
      BY <1>6 DEF WriteRegistry
    <2>2. \A k \in DOMAIN doc : k < cursor
      BY <1>0, <2>1 DEF CInv, CreditTypeOK
    <2>3. \A k \in DOMAIN doc' : doc'[k] \notin lastFaults' => Holds(doc[k])'
      BY <1>1, <2>1, <2>2
    <2> QED BY <2>1, <2>3 DEF RulingsStand, Holds
  <1>7. CASE UNCHANGED allVars
    <2>1. UNCHANGED entries /\ UNCHANGED <<phase, doc, cursor, faults, lastFaults, settled>>
      BY <1>7 DEF allVars, vars, credits, entries
    <2>2. \A a \in Anchor : Index(a)' = Index(a)
      BY <1>0, <2>1, RestEffect
    <2>3. ASSUME NEW q \in Rulings, Holds(q) PROVE Holds(q)'
      BY <2>2, <2>3, RulingNames DEF Holds, None
    <2>4. \A k \in DOMAIN doc : doc[k] \in Rulings /\ (Holds(doc[k]) => Holds(doc[k])')
      BY <1>0, <2>1, <2>3 DEF CInv, CreditTypeOK, Holds
    <2> QED BY <1>0, <2>1, <2>4 DEF RulingsStand, Holds
  <1>8. ASSUME NEW s \in Anchor, CorpusChanges(s) PROVE phase' = "saved" /\ ~settled'
    BY <1>8 DEF CorpusChanges, vars
  <1>9. ASSUME NEW r \in Rulings, AddRuling(r) PROVE phase' = "saved" /\ ~settled'
    BY <1>9 DEF AddRuling, vars
  <1>10. StartRun => phase' = "assigning"
    BY DEF StartRun, BeginAssign
  <1>11. ASSUME NEW s \in Anchor, AssignSpelling(s) PROVE phase' = "assigning"
    BY <1>11 DEF AssignSpelling, AssignKnown, AssignNew
  <1> QED BY <1>2, <1>3, <1>4, <1>5, <1>6, <1>7, <1>8, <1>9, <1>10, <1>11 DEF CreditNext

\* While no string is both merged and withdrawn, what a run has applied stands.
THEOREM StandingInvariance == ASSUME RulingsAgree PROVE CreditSpec => []StandingInv
  <1>1. CreditInit => StandingInv
    <2> SUFFICES ASSUME CreditInit PROVE Alone /\ RulingsStand /\ CInv
      BY DEF StandingInv
    <2>1. phase = "saved" /\ settled = FALSE /\ n = 0
      BY DEF CreditInit, Init
    <2>2. \A s : Holders(s) = {}
      BY <2>1 DEF Holders, Issued
    <2>3. CInv
      BY CreditInitHolds
    <2> QED BY <2>1, <2>2, <2>3 DEF Alone, RulingsStand
  <1>2. StandingInv /\ CInv' /\ [CreditNext]_allVars => StandingInv'
    <2> SUFFICES ASSUME StandingInv, CInv', [CreditNext]_allVars PROVE StandingInv'
      OBVIOUS
    <2>1. Alone'
      BY AloneKeeps DEF StandingInv, CInv
    <2>2. RulingsStand'
      BY RulingsStandKeeps
    <2> QED BY <2>1, <2>2 DEF StandingInv
  <1> QED BY <1>1, <1>2, CreditInvariance, PTL DEF CreditSpec

\* Once a run has applied the document, two spellings it rules one credit
\* resolve to one identifier, whatever the later rulings did.
THEOREM MergesHold == ASSUME RulingsAgree PROVE CreditSpec => []RulingsHold
  <1>1. StandingInv => RulingsHold
    BY DEF StandingInv, RulingsStand, RulingsHold, Holds, ToSet
  <1> QED BY <1>1, StandingInvariance, PTL

\* Once a run has applied the document, a string it rules no credit resolves to
\* nobody: no ruling before or after lent it to an entry.
THEOREM WithdrawalsHold == ASSUME RulingsAgree PROVE CreditSpec => []WithdrawnAnswersNobody
  <1>1. StandingInv => WithdrawnAnswersNobody
    BY DEF StandingInv, RulingsStand, WithdrawnAnswersNobody, Holds, ToSet
  <1> QED BY <1>1, StandingInvariance, PTL

-----------------------------------------------------------------------------
(* The next run.                                                           *)

\* What the last run applied of the merges holds all through the next one.  A
\* string it withdrew does so only until the corpus prints it again.
Remembered ==
    settled => \A k \in DOMAIN doc :
                   doc[k] \notin lastFaults /\ doc[k].decision = "merge" => Holds(doc[k])

ReplayInv == StandingInv /\ Remembered

\* A step within a run leaves the corpus, the document and the last run's faults.
LEMMA WithinARun ==
    ASSUME [CreditNext]_allVars
    PROVE  \/ ~settled' /\ phase = "saved" /\ phase' = "saved" /\ UNCHANGED <<entries, faults>>
           \/ WriteRegistry
           \/ UNCHANGED <<corpus, doc, lastFaults, settled, written>>
  <1>1. ASSUME NEW s \in Anchor, CorpusChanges(s)
        PROVE  ~settled' /\ phase = "saved" /\ phase' = "saved" /\ UNCHANGED <<entries, faults>>
    BY <1>1 DEF CorpusChanges, vars, entries
  <1>2. ASSUME NEW r \in Rulings, AddRuling(r)
        PROVE  ~settled' /\ phase = "saved" /\ phase' = "saved" /\ UNCHANGED <<entries, faults>>
    BY <1>2 DEF AddRuling, vars, entries
  <1>3. StartRun => UNCHANGED <<corpus, doc, lastFaults, settled, written>>
    BY DEF StartRun
  <1>4. \A s \in Anchor : AssignSpelling(s) => UNCHANGED <<corpus, doc, lastFaults, settled, written>>
    BY DEF AssignSpelling
  <1>5. StartRulings => UNCHANGED <<corpus, doc, lastFaults, settled, written>>
    BY DEF StartRulings
  <1>6. ApplyMerge \/ ApplyWithdraw => UNCHANGED <<corpus, doc, lastFaults, settled, written>>
    BY DEF ApplyMerge, ApplyWithdraw, Reached
  <1>7. UNCHANGED allVars => UNCHANGED <<corpus, doc, lastFaults, settled, written>>
    BY DEF allVars, credits
  <1> QED BY <1>1, <1>2, <1>3, <1>4, <1>5, <1>6, <1>7 DEF CreditNext

LEMMA RememberedKeeps ==
    ASSUME RulingsAgree, ReplayInv, StandingInv', [CreditNext]_allVars
    PROVE  Remembered'
  <1>0. CInv /\ IInv' /\ Alone /\ Remembered
    BY DEF ReplayInv, StandingInv, CInv
  <1>1. CASE ~settled'
    BY <1>1 DEF Remembered
  <1>2. CASE WriteRegistry
    <2>1. phase' = "saved"
      BY <1>2 DEF WriteRegistry
    <2> QED BY <2>1 DEF StandingInv, RulingsStand, Remembered
  <1>3. CASE UNCHANGED <<corpus, doc, lastFaults, settled, written>>
    <2>1. \A k \in DOMAIN doc : doc[k] \in Rulings
      BY <1>0 DEF CInv, CreditTypeOK
    <2>2. ASSUME NEW q \in Rulings, Holds(q), q.decision = "merge"
          PROVE  Holds(q)'
      BY <1>0, <2>2, HoldsIsKept
    <2>3. \A k \in DOMAIN doc : Holds(doc[k]) /\ doc[k].decision = "merge" => Holds(doc[k])'
      BY <1>3, <2>1, <2>2 DEF Holds
    <2> QED BY <1>0, <1>3, <2>3 DEF Remembered, Holds
  <1> QED BY <1>1, <1>2, <1>3, WithinARun

THEOREM ReplayInvariance == ASSUME RulingsAgree PROVE CreditSpec => []ReplayInv
  <1>1. CreditInit => Remembered
    BY DEF CreditInit, Remembered
  <1>2. ReplayInv /\ StandingInv' /\ [CreditNext]_allVars => ReplayInv'
    BY RememberedKeeps DEF ReplayInv, StandingInv
  <1>3. CreditInit /\ StandingInv => ReplayInv
    BY <1>1 DEF ReplayInv
  <1> QED BY <1>2, <1>3, StandingInvariance, PTL DEF CreditSpec

-----------------------------------------------------------------------------
(* A run that reports no fault of its own making.                          *)

\* A withdrawal that names a successor is found where the run that applied it
\* left it.
Noted(r) == r.decision = "withdraw" /\ r.to # NoOne => WithdrawnBefore(r.string)

FaultsAreOld ==
    /\ phase = "deciding" =>
           \A k \in DOMAIN doc : k < cursor /\ doc[k] \notin faults => Noted(doc[k])
    /\ settled => \A k \in DOMAIN doc : doc[k] \notin lastFaults => Noted(doc[k])

\* Nothing is restored to life or forgotten by those it was taken off.
LEMMA NotedIsKept ==
    ASSUME CInv, [CreditNext]_allVars, NEW s, WithdrawnBefore(s)
    PROVE  WithdrawnBefore(s)'
  <1>1. PICK i \in Issued : ~Live(i) /\ s \in detached[i]
    BY DEF WithdrawnBefore
  <1>2. /\ i \in Ids /\ Issued \subseteq Ids /\ n \in Nat
        /\ mergedInto \in [Ids -> Ids \union {None}] /\ detached \in [Ids -> SUBSET Anchor]
    BY EntriesFacts DEF CInv, IInv, Entries, TypeOK
  <1>3. i \in Issued' /\ mergedInto'[i] # None /\ s \in detached'[i]
    <2>1. CASE UNCHANGED entries
      BY <1>1, <2>1 DEF entries, Issued, Live
    <2>2. ASSUME NEW x \in Anchor, Mints(x)
          PROVE  i \in Issued' /\ mergedInto'[i] # None /\ s \in detached'[i]
      BY <1>1, <1>2, <2>2 DEF Mints, Issued, Live
    <2>3. CASE JoinsCredits
      <3>1. \E l \in Issued, w \in Issued : mergedInto' = [mergedInto EXCEPT ![l] = w]
        BY <2>3 DEF JoinsCredits, MergeLive, Merge
      <3>2. n' = n /\ detached' = detached
        BY <2>3 DEF JoinsCredits, MergeLive, Merge
      <3> QED BY <1>1, <1>2, <3>1, <3>2, IdsFacts DEF Issued, Live
    <2>4. CASE AddsSpelling
      BY <1>1, <2>4 DEF AddsSpelling, Attach, Issued, Live
    <2>5. CASE TakesOff
      <3>1. n' = n /\ mergedInto' = mergedInto
        BY <2>5 DEF TakesOff, Detach
      <3>2. \/ detached' = detached
            \/ \E f, a : detached' = [detached EXCEPT ![f] = @ \union {a}]
        BY <2>5 DEF TakesOff, Detach
      <3> QED BY <1>1, <1>2, <3>1, <3>2 DEF Issued, Live
    <2>6. CASE Retires
      <3>1. /\ n' = n
            /\ \E k, j \in Issued : /\ mergedInto' = [mergedInto EXCEPT ![k] = j]
                                    /\ detached' = [detached EXCEPT ![k] = @ \union anchors[k]]
        BY <2>6 DEF Retires, Withdraw
      <3> QED BY <1>1, <1>2, <3>1, IdsFacts DEF Issued, Live
    <2> QED BY <2>1, <2>2, <2>3, <2>4, <2>5, <2>6, CreditSteps
  <1> QED BY <1>3 DEF WithdrawnBefore, Live, None

\* A withdrawal that names a successor and is not refused leaves its string on a
\* retired entry.
LEMMA AppliedIsNoted ==
    ASSUME RulingsAgree, CInv, Alone, ApplyMerge \/ ApplyWithdraw,
           [CreditNext]_allVars, NEW r, r = doc[cursor], r \notin faults'
    PROVE  Noted(r)'
  <1>1. CASE ApplyMerge
    <2>1. r.decision = "merge"
      BY <1>1, MergeRulingShape
    <2> QED BY <2>1 DEF Noted
  <1>2. CASE ApplyWithdraw
    <2> DEFINE i == Index(r.string)
               j == IF r.to = NoOne THEN None ELSE Index(r.to)
    <2>1. /\ r \in Rulings /\ r.decision = "withdraw" /\ r.string \in Anchor
          /\ \/ WithdrawnBefore(r.string)
             \/ r.to = NoOne
             \/ i # None /\ i # j /\ i \in Issued /\ j \in Issued /\ Live(i) /\ Withdraw(i, j)
      BY <1>2, WithdrawRulingShape
    <2>2. CASE r.to = NoOne
      BY <2>2 DEF Noted
    <2>3. CASE WithdrawnBefore(r.string)
      <3>1. WithdrawnBefore(r.string)'
        BY <2>3, NotedIsKept
      <3> QED BY <3>1 DEF Noted
    <2>4. CASE i # None /\ i \in Issued /\ j \in Issued /\ Withdraw(i, j)
      <3>1. SpellingsAnswer /\ Issued \subseteq Ids
        BY SpellingsAreAnswered, EntriesFacts DEF CInv, IInv
      <3>2. PICK h \in Holders(r.string) : TRUE
        BY <2>1, <2>4, <3>1 DEF SpellingsAnswer
      <3>3. r.string \in Withdrawn
        BY <2>1 DEF Withdrawn
      <3>4. Live(h) /\ h \in Ids /\ i = Survivor(h)
        BY <2>1, <3>1, <3>2, <3>3 DEF SpellingsAnswer, Alone
      <3>5. i = h
        BY <3>4, EntriesFacts DEF CInv, IInv, SurvivorSteps
      <3>6. r.string \in anchors[i] /\ i \in Issued /\ i \in Ids
        BY <3>1, <3>2, <3>5, <2>4 DEF Holders
      <3> HIDE DEF i, j
      <3>7. i \in Issued' /\ mergedInto'[i] = j /\ r.string \in detached'[i]
        BY <2>4, <3>6 DEF Withdraw, Issued, CInv, IInv, Entries, TypeOK
      <3>8. j # None
        BY <2>4, <3>1, IdsFacts
      <3> QED BY <3>7, <3>8 DEF Noted, WithdrawnBefore, Live, None
    <2> QED BY <2>1, <2>2, <2>3, <2>4
  <1> QED BY <1>1, <1>2

\* What may be refused of the rulings the last run applied: a withdrawal without
\* a successor, or of a string that is a credit again.
ComesBack(r) == r.decision = "withdraw" /\ (r.to = NoOne \/ Index(r.string) # None)

\* Any other that this run meets again is not refused.
LEMMA AppliedIsNotRefused ==
    ASSUME ReplayInv, FaultsAreOld, settled, ApplyMerge \/ ApplyWithdraw,
           NEW r, r \in faults' \ (faults \union lastFaults)
    PROVE  ComesBack(r)
  <1>0. CInv /\ Remembered
    BY DEF ReplayInv, StandingInv
  <1>1. cursor \in DOMAIN doc
    BY DEF ApplyMerge, ApplyWithdraw, Reached
  <1>2. r = doc[cursor]
    BY <1>0, MergeRulingShape, WithdrawRulingShape
  <1>3. r.decision = "merge" => Holds(r)
    BY <1>0, <1>1, <1>2 DEF Remembered
  <1>4. Noted(r)
    BY <1>1, <1>2 DEF FaultsAreOld
  <1>5. CASE ApplyMerge
    BY <1>0, <1>2, <1>3, <1>5, MergeRulingShape DEF Holds
  <1>6. CASE ApplyWithdraw
    BY <1>0, <1>2, <1>4, <1>6, WithdrawRulingShape DEF Noted, ComesBack
  <1> QED BY <1>5, <1>6

LEMMA FaultsAreOldKeeps ==
    ASSUME RulingsAgree, ReplayInv, ReplayInv', FaultsAreOld, [CreditNext]_allVars
    PROVE  FaultsAreOld'
  <1>0. /\ CInv /\ CInv' /\ Alone
        /\ DOMAIN doc = 1..Len(doc) /\ Len(doc) \in Nat /\ cursor \in Int
    BY DEF ReplayInv, StandingInv, CInv, CreditTypeOK
  <1>1. \A s : WithdrawnBefore(s) => WithdrawnBefore(s)'
    BY <1>0, NotedIsKept
  <1>2. \A r : Noted(r) => Noted(r)'
    BY <1>1 DEF Noted
  <1>3. CASE ~settled' /\ phase' = "saved"
    BY <1>3 DEF FaultsAreOld
  <1>4. CASE WriteRegistry
    <2>1. /\ phase = "deciding" /\ phase' = "saved" /\ doc' = doc /\ cursor > Len(doc)
          /\ lastFaults' = faults /\ faults' = {}
      BY <1>4 DEF WriteRegistry
    <2>2. \A k \in DOMAIN doc : k < cursor
      BY <1>0, <2>1
    <2>3. \A k \in DOMAIN doc : doc[k] \notin faults => Noted(doc[k])
      BY <2>1, <2>2 DEF FaultsAreOld
    <2> QED BY <1>1, <2>1, <2>3 DEF FaultsAreOld, Noted
  <1>5. CASE UNCHANGED <<corpus, doc, lastFaults, settled, written>>
    <2>1. settled' => \A k \in DOMAIN doc' : doc'[k] \notin lastFaults' => Noted(doc[k])'
      BY <1>1, <1>5 DEF FaultsAreOld, Noted
    <2>2. CASE phase' # "deciding"
      BY <2>1, <2>2 DEF FaultsAreOld, Noted
    <2>3. CASE ApplyMerge \/ ApplyWithdraw
      <3>1. /\ phase = "deciding" /\ cursor \in DOMAIN doc /\ cursor' = cursor + 1
            /\ faults \subseteq faults' /\ faults' \subseteq faults \union {doc[cursor]}
        BY <1>0, <2>3, MergeRulingShape, WithdrawRulingShape DEF ApplyMerge, ApplyWithdraw, Reached
      <3>2. ASSUME NEW k \in DOMAIN doc, k < cursor', doc[k] \notin faults' PROVE Noted(doc[k])'
        <4>1. CASE k < cursor
          BY <1>1, <1>5, <3>1, <3>2, <4>1 DEF FaultsAreOld, Noted
        <4>2. CASE k = cursor
          <5>1. ASSUME NEW q, q = doc[cursor], q \notin faults' PROVE Noted(q)'
            BY <1>0, <2>3, <5>1, AppliedIsNoted
          <5> QED BY <1>5, <3>2, <4>2, <5>1 DEF Noted
        <4> QED BY <1>0, <3>1, <3>2, <4>1, <4>2
      <3> QED BY <1>5, <2>1, <3>2 DEF FaultsAreOld, Noted
    <2>4. CASE StartRulings
      <3>1. cursor' = 1 /\ faults' = faults
        BY <2>4 DEF StartRulings
      <3> QED BY <1>0, <1>5, <2>1, <3>1 DEF FaultsAreOld, Noted
    <2>5. CASE UNCHANGED allVars
      BY <1>1, <1>5, <2>5 DEF allVars, vars, credits, FaultsAreOld, Noted
    <2>6. ASSUME NEW s \in Anchor, CorpusChanges(s) \/ AssignSpelling(s) PROVE phase' # "deciding"
      BY <2>6 DEF CorpusChanges, vars, AssignSpelling, AssignKnown, AssignNew
    <2>7. ASSUME NEW r \in Rulings, AddRuling(r) PROVE phase' # "deciding"
      BY <2>7 DEF AddRuling, vars
    <2>8. StartRun \/ WriteRegistry => phase' # "deciding"
      BY DEF StartRun, BeginAssign, WriteRegistry
    <2> QED BY <2>2, <2>3, <2>4, <2>5, <2>6, <2>7, <2>8 DEF CreditNext
  <1> QED BY <1>3, <1>4, <1>5, WithinARun

THEOREM FaultsInvariance == ASSUME RulingsAgree PROVE CreditSpec => []FaultsAreOld
  <1>1. CreditInit => FaultsAreOld
    BY DEF CreditInit, Init, FaultsAreOld
  <1>2. ReplayInv /\ ReplayInv' /\ FaultsAreOld /\ [CreditNext]_allVars => FaultsAreOld'
    BY FaultsAreOldKeeps
  <1> QED BY <1>1, <1>2, ReplayInvariance, PTL DEF CreditSpec

\* A step that adds a fault reads a ruling.
LEMMA FaultsComeOfRulings ==
    ASSUME [CreditNext]_allVars, NEW r, r \in faults' \ faults
    PROVE  ApplyMerge \/ ApplyWithdraw
  <1> QED BY DEF CreditNext, CorpusChanges, AddRuling, StartRun, AssignSpelling,
                 StartRulings, WriteRegistry, allVars, credits

\* No run reports as a fault a ruling the run before it applied, except for the
\* withdrawals that leave nothing to recognise: those without a successor, and
\* those of a string the corpus made a credit again.
THEOREM NoFalseFault == ASSUME RulingsAgree PROVE CreditSpec => RerunReportsNoFault
  <1>1. ReplayInv /\ FaultsAreOld /\ [CreditNext]_allVars
            => [settled => \A r \in faults' \ (faults \union lastFaults) :
                               /\ r.decision = "withdraw"
                               /\ r.to = NoOne \/ Index(r.string) # None]_allVars
    BY FaultsComeOfRulings, AppliedIsNotRefused DEF ComesBack
  <1> QED BY <1>1, FaultsInvariance, ReplayInvariance, PTL DEF CreditSpec, RerunReportsNoFault

-----------------------------------------------------------------------------
(* A run that changes nothing of the last one's work.                      *)

\* The index of the run names a spelling only if the entries do.
OwnerKnows ==
    phase = "assigning" => \A a \in Anchor : owner[a] # None => Index(a) # None

\* Every spelling of the corpus is a credit, is about to be one, was ruled none,
\* or has a part that is in the corpus, a credit or ruled none; and what a
\* repeated run looks up is a credit or printed against the document.
Covered ==
    /\ phase # "saved" \/ settled =>
           \A s \in corpus :
               \/ s \in wanted \/ Index(s) # None \/ s \in RuledOut
               \/ \E p \in Parts[s] \ {s} : p \in corpus \union Minted \union RuledOut
    /\ settled => \A s \in wanted : Index(s) # None \/ s \in Reprinted

\* After a run without a fault, a string ruled no credit is listed by no entry
\* that run wrote.
Fresh ==
    settled /\ lastFaults = {} =>
        \A s \in RuledOut : \A h \in Holders(s) : h > written

\* A spelling is minted while it answers.
LEMMA MintedAnswers == IInv => \A a \in Anchor : a \in Minted <=> Index(a) # None
  <1> SUFFICES ASSUME IInv, NEW a \in Anchor PROVE a \in Minted <=> Index(a) # None
    OBVIOUS
  <1>1. a \in Minted <=> Holders(a) # {}
    BY DEF Minted, Holders
  <1> QED BY <1>1, SpellingsAreAnswered DEF SpellingsAnswer

LEMMA MintedAnswersNext == IInv' => \A a \in Anchor : a \in Minted' <=> Index(a)' # None
  <1>1. IInv' => (\A a \in Anchor : a \in Minted <=> Index(a) # None)'
    BY MintedAnswers, PTL
  <1> QED BY <1>1 DEF None

LEMMA OwnerKnowsKeeps ==
    ASSUME RulingsAgree, StandingInv, IInv', OwnerKnows, [CreditNext]_allVars
    PROVE  OwnerKnows'
  <1>0. CInv /\ Alone
    BY DEF StandingInv
  <1>1. ASSUME StartRun PROVE OwnerKnows'
    <2>1. UNCHANGED entries /\ owner' = [a \in Anchor |-> Index(a)]
      BY <1>1 DEF StartRun, BeginAssign, entries
    <2>2. \A a \in Anchor : Index(a)' = Index(a)
      BY <1>0, <2>1, RestEffect
    <2> QED BY <2>1, <2>2 DEF OwnerKnows, None
  <1>2. ASSUME NEW s \in Anchor, AssignSpelling(s) PROVE OwnerKnows'
    <2>1. PICK row \in Rows : /\ row.anchor = s /\ row.attached = {} /\ s \in wanted
                              /\ AssignKnown(row) \/ AssignNew(row)
      BY <1>0, <1>2, SpellingShape
    <2>2. phase = "assigning" /\ owner \in [Anchor -> Ids \union {None}]
      BY <1>0, <2>1 DEF AssignKnown, AssignNew, CInv, IInv, Entries, TypeOK
    <2>3. \A i, known : Taken(row, i, known) = {}
      BY <2>1 DEF Taken
    <2>4. AnswersKept
      BY <1>0, AnswersAreKept
    <2>5. \A a \in Anchor : ~Leaving(a)
      BY <2>2 DEF Leaving, Reaches
    <2>6. \A a \in Anchor : Index(a) # None => Index(a)' # None
      BY <2>4, <2>5 DEF AnswersKept, None
    <2>7. CASE AssignKnown(row)
      <3>1. \A a \in Anchor : owner'[a] = owner[a]
        BY <2>3, <2>7 DEF AssignKnown, Extend
      <3> QED BY <2>2, <2>6, <3>1 DEF OwnerKnows, None
    <2>8. CASE AssignNew(row)
      <3>1. \A a \in Anchor : owner'[a] = owner[a] \/ a = s
        BY <2>1, <2>2, <2>3, <2>8 DEF AssignNew, Extend
      <3>2. Mints(s)
        BY <2>1, <2>3, <2>8 DEF AssignNew, Mints
      <3>3. Index(s)' # None
        <4> DEFINE i == n + 1
        <4>1. i # None /\ \A a \in Anchor : Index(a)' = IF a = s THEN i ELSE Index(a)
          BY <1>0, <3>2, MintEffect
        <4> HIDE DEF i
        <4> QED BY <4>1 DEF None
      <3> QED BY <2>2, <2>6, <3>1, <3>3 DEF OwnerKnows, None
    <2> QED BY <2>1, <2>7, <2>8
  <1>3. ASSUME UNCHANGED allVars PROVE OwnerKnows'
    <2>1. UNCHANGED entries /\ phase' = phase /\ owner' = owner
      BY <1>3 DEF allVars, vars, entries
    <2>2. \A a \in Anchor : Index(a)' = Index(a)
      BY <1>0, <2>1, RestEffect
    <2> QED BY <2>1, <2>2 DEF OwnerKnows, None
  <1>4. ASSUME phase' # "assigning" PROVE OwnerKnows'
    BY <1>4 DEF OwnerKnows
  <1>5. ASSUME NEW s \in Anchor, CorpusChanges(s) PROVE phase' # "assigning"
    BY <1>5 DEF CorpusChanges, vars
  <1>6. ASSUME NEW r \in Rulings, AddRuling(r) PROVE phase' # "assigning"
    BY <1>6 DEF AddRuling, vars
  <1>7. StartRulings \/ WriteRegistry => phase' # "assigning"
    BY DEF StartRulings, WriteRegistry
  <1>8. ApplyMerge \/ ApplyWithdraw => phase' # "assigning"
    <2>1. ApplyMerge \/ ApplyWithdraw => phase = "deciding"
      BY DEF ApplyMerge, ApplyWithdraw, Reached
    <2>2. ApplyMerge => phase' = phase \/ phase' = "deciding"
      BY <1>0, MergeRulingShape DEF vars, MergeLive, Merge, Attach
    <2>3. ApplyWithdraw => phase' = phase \/ phase' = "deciding"
      BY <1>0, WithdrawRulingShape DEF vars, Detach, Withdraw
    <2> QED BY <2>1, <2>2, <2>3
  <1> QED BY <1>1, <1>2, <1>3, <1>4, <1>5, <1>6, <1>7, <1>8 DEF CreditNext

\* What a step of the run in progress leaves of the reasons a spelling of the
\* corpus is covered for.
LEMMA ReasonsStay ==
    ASSUME RulingsAgree, CInv, IInv', Alone, [CreditNext]_allVars,
           UNCHANGED <<corpus, doc>>
    PROVE  /\ RuledOut' = RuledOut
           /\ \A a \in Anchor : Index(a) # None => Index(a)' # None \/ a \in RuledOut
           /\ \A a \in Anchor : a \in Minted => a \in Minted' \/ a \in RuledOut
  <1>1. RuledOut' = RuledOut
    BY DEF RuledOut
  <1>2. ASSUME NEW a \in Anchor, Index(a) # None PROVE Index(a)' # None \/ a \in RuledOut
    <2>1. AnswersKept
      BY AnswersAreKept
    <2>2. CASE Leaving(a)
      BY <2>2 DEF Leaving, Reaches, RuledOut
    <2>3. CASE ~Leaving(a)
      BY <1>2, <2>1, <2>3 DEF AnswersKept, None
    <2> QED BY <2>2, <2>3
  <1>3. ASSUME NEW a \in Anchor, a \in Minted PROVE a \in Minted' \/ a \in RuledOut
    <2>1. Index(a) # None
      BY <1>3, MintedAnswers DEF CInv
    <2>2. Index(a)' # None => a \in Minted'
      BY MintedAnswersNext
    <2> QED BY <1>2, <2>1, <2>2
  <1> QED BY <1>1, <1>2, <1>3

LEMMA CoveredKeeps ==
    ASSUME RulingsAgree, ReplayInv, ReplayInv', OwnerKnows, Covered,
           [CreditNext]_allVars
    PROVE  Covered'
  <1>0. CInv /\ CInv' /\ IInv' /\ Alone /\ corpus \subseteq Anchor /\ wanted \subseteq Anchor
    BY DEF ReplayInv, StandingInv, CInv, CreditTypeOK
  <1>1. \A s \in corpus : Parts[s] \subseteq Anchor
    BY <1>0, CreditAssumption
  <1> DEFINE Reason(s) ==
               \/ Index(s) # None \/ s \in RuledOut
               \/ \E p \in Parts[s] \ {s} : p \in corpus \union Minted \union RuledOut
             ReasonNext(s) ==
               \/ Index(s)' # None \/ s \in RuledOut'
               \/ \E p \in Parts[s] \ {s} : p \in corpus' \union Minted' \union RuledOut'
  <1>2. ASSUME UNCHANGED <<corpus, doc>>, NEW s \in corpus, Reason(s)
        PROVE  ReasonNext(s)
    <2>1. /\ RuledOut' = RuledOut
          /\ \A a \in Anchor : Index(a) # None => Index(a)' # None \/ a \in RuledOut
          /\ \A a \in Anchor : a \in Minted => a \in Minted' \/ a \in RuledOut
      BY <1>0, <1>2, ReasonsStay
    <2>2. CASE Index(s) # None \/ s \in RuledOut
      BY <1>0, <2>1, <2>2
    <2>3. ASSUME NEW p \in Parts[s] \ {s}, p \in corpus \union Minted \union RuledOut
          PROVE  p \in corpus' \union Minted' \union RuledOut'
      BY <1>1, <1>2, <2>1, <2>3
    <2> QED BY <1>2, <2>2, <2>3
  <1>3. Covered' <=>
          /\ phase' # "saved" \/ settled' => \A s \in corpus' : s \in wanted' \/ ReasonNext(s)
          /\ settled' => \A s \in wanted' : Index(s)' # None \/ s \in Reprinted'
    BY DEF Covered, None
  <1>4. Covered <=>
          /\ phase # "saved" \/ settled => \A s \in corpus : s \in wanted \/ Reason(s)
          /\ settled => \A s \in wanted : Index(s) # None \/ s \in Reprinted
    BY DEF Covered, None
  <1>5. UNCHANGED <<corpus, doc>> => Reprinted' = Reprinted
    BY DEF Reprinted, RuledOut
  <1> HIDE DEF Reason, ReasonNext
  <1>6. CASE ~settled' /\ phase' = "saved"
    BY <1>3, <1>6
  <1>7. CASE /\ UNCHANGED <<corpus, doc>> /\ wanted = {} /\ wanted' = {} /\ phase # "saved"
    BY <1>2, <1>3, <1>4, <1>7
  <1>8. CASE StartRun
    <2>1. /\ wanted' = {s \in corpus : ~HeldBack(s)} /\ UNCHANGED <<corpus, doc, settled>>
          /\ wanted = {} /\ UNCHANGED entries
      BY <1>0, <1>8 DEF StartRun, BeginAssign, entries, CInv, Cursors
    <2>2. ASSUME NEW s \in corpus, HeldBack(s) PROVE ReasonNext(s)
      <3>1. Reason(s)
        BY <2>2 DEF HeldBack, Reason
      <3> QED BY <1>2, <2>1, <3>1
    <2>3. ASSUME settled, NEW s \in wanted' PROVE Index(s)' # None \/ s \in Reprinted'
      <3>1. s \in corpus /\ ~HeldBack(s) /\ Reason(s) /\ s \in Anchor
        BY <1>0, <1>4, <2>1, <2>3
      <3>2. s \in Minted => Index(s) # None
        BY <1>0, <3>1, MintedAnswers DEF CInv
      <3>3. Index(s) # None \/ s \in RuledOut \/ \E p \in Parts[s] \ {s} : p \in RuledOut
        BY <3>1, <3>2 DEF Reason, HeldBack
      <3>4. Index(s)' = Index(s)
        BY <1>0, <2>1, <3>1, RestEffect
      <3>5. s \in RuledOut \/ (\E p \in Parts[s] \ {s} : p \in RuledOut) => s \in Reprinted
        BY <3>1 DEF Reprinted, RuledOut
      <3> QED BY <1>5, <2>1, <3>3, <3>4, <3>5 DEF None
    <2> QED BY <1>3, <2>1, <2>2, <2>3
  <1>9. ASSUME NEW x \in Anchor, AssignSpelling(x) PROVE Covered'
    <2>1. /\ wanted' = wanted \ {x} /\ UNCHANGED <<corpus, doc, settled>> /\ phase = "assigning"
      BY <1>9 DEF AssignSpelling, AssignKnown, AssignNew
    <2>2. \A a \in Anchor : Index(a) # None => Index(a)' # None
      <3>1. AnswersKept
        BY <1>0, AnswersAreKept
      <3>2. \A a \in Anchor : ~Leaving(a)
        BY <2>1 DEF Leaving, Reaches
      <3> QED BY <3>1, <3>2 DEF AnswersKept, None
    <2>3. Index(x)' # None
      <3>1. PICK row \in Rows : /\ row.anchor = x /\ row.attached = {} /\ x \in wanted
                                /\ AssignKnown(row) \/ AssignNew(row)
        BY <1>0, <1>9, SpellingShape
      <3>2. CASE AssignKnown(row)
        <4>1. Index(x) # None
          BY <2>1, <3>1, <3>2 DEF AssignKnown, OwnerKnows
        <4> QED BY <2>2, <4>1
      <3>3. CASE AssignNew(row)
        <4>1. \A i, known : Taken(row, i, known) = {}
          BY <3>1 DEF Taken
        <4>2. Mints(x)
          BY <3>1, <3>3, <4>1 DEF AssignNew, Mints
        <4> DEFINE i == n + 1
        <4>3. i # None /\ \A a \in Anchor : Index(a)' = IF a = x THEN i ELSE Index(a)
          BY <1>0, <4>2, MintEffect
        <4> HIDE DEF i
        <4> QED BY <4>3 DEF None
      <3> QED BY <3>1, <3>2, <3>3
    <2>4. ASSUME NEW s \in corpus PROVE s \in wanted' \/ ReasonNext(s)
      <3>1. s = x => ReasonNext(s)
        BY <2>3 DEF ReasonNext
      <3>2. s \in wanted \/ Reason(s)
        BY <1>4, <2>1, <2>4
      <3> QED BY <1>2, <2>1, <3>1, <3>2
    <2>5. ASSUME settled, NEW s \in wanted PROVE Index(s)' # None \/ s \in Reprinted'
      BY <1>0, <1>4, <1>5, <2>1, <2>2, <2>5 DEF None
    <2> QED BY <1>3, <2>1, <2>4, <2>5
  <1>10. CASE StartRulings \/ ApplyMerge \/ ApplyWithdraw \/ WriteRegistry
    <2>1. UNCHANGED <<corpus, doc>> /\ wanted' = wanted /\ phase # "saved"
      BY <1>10 DEF StartRulings, ApplyMerge, ApplyWithdraw, Reached, WriteRegistry
    <2>2. wanted = {}
      BY <1>0, <1>10 DEF StartRulings, ApplyMerge, ApplyWithdraw, Reached, WriteRegistry, CInv, Cursors
    <2> QED BY <1>7, <2>1, <2>2
  <1>11. CASE UNCHANGED allVars
    <2>1. UNCHANGED <<corpus, doc, wanted, phase, settled>> /\ UNCHANGED entries
      BY <1>11 DEF allVars, vars, credits, entries
    <2>2. \A s \in Anchor : Index(s)' = Index(s)
      BY <1>0, <2>1, RestEffect
    <2> QED BY <1>0, <1>2, <1>3, <1>4, <1>5, <2>1, <2>2 DEF None
  <1>12. ASSUME NEW s \in Anchor, CorpusChanges(s) PROVE ~settled' /\ phase' = "saved"
    BY <1>12 DEF CorpusChanges, vars
  <1>13. ASSUME NEW r \in Rulings, AddRuling(r) PROVE ~settled' /\ phase' = "saved"
    BY <1>13 DEF AddRuling, vars
  <1> QED BY <1>6, <1>8, <1>9, <1>10, <1>11, <1>12, <1>13 DEF CreditNext

\* What a withdrawal leaves changed is the entry that listed its string.
LEMMA LeavingTouches ==
    ASSUME CInv, Alone, TakesOff \/ Retires, NEW i \in Issued,
           \/ anchors'[i] # anchors[i] \/ detached'[i] # detached[i]
           \/ mergedInto'[i] # mergedInto[i]
    PROVE  i \in Holders(doc[cursor].string)
  <1> DEFINE s == doc[cursor].string
  <1>1. s \in Withdrawn /\ s \in Anchor
    BY WithdrawnNames DEF TakesOff, Retires
  <1>2. /\ SpellingsAnswer /\ Issued \subseteq Ids
        /\ anchors \in [Ids -> SUBSET Anchor] /\ detached \in [Ids -> SUBSET Anchor]
        /\ mergedInto \in [Ids -> Ids \union {None}]
    BY SpellingsAreAnswered, EntriesFacts DEF CInv, IInv, Entries, TypeOK
  <1>3. Index(s) # None
    BY IdsFacts, <1>2 DEF TakesOff, Retires, Detach
  <1>4. PICK h \in Holders(s) : TRUE
    BY <1>1, <1>2, <1>3 DEF SpellingsAnswer
  <1>5. Holders(s) = {h} /\ Index(s) = h /\ h \in Ids
    <2>1. Live(h) /\ Holders(s) = {h} /\ h \in Ids /\ Index(s) = Survivor(h)
      BY <1>1, <1>2, <1>4 DEF Alone, SpellingsAnswer
    <2> QED BY <2>1, EntriesFacts DEF CInv, IInv, SurvivorSteps
  <1> HIDE DEF s
  <1>6. CASE TakesOff
    <2> DEFINE first == CHOOSE k \in Holders(s) : \A j \in Holders(s) : k <= j
    <2>1. first = h
      <3>1. h <= h
        BY <1>5, MaxIdAssumption DEF Ids
      <3>2. \E k \in Holders(s) : \A j \in Holders(s) : k <= j
        BY <1>5, <3>1
      <3>3. first \in Holders(s)
        BY <3>2
      <3> QED BY <1>5, <3>3
    <2>2. /\ anchors' = [anchors EXCEPT ![first] = @ \ {s}]
          /\ detached' = [detached EXCEPT ![first] = @ \union {s}]
          /\ UNCHANGED mergedInto
      BY <1>5, <1>6 DEF TakesOff, Detach, s
    <2> HIDE DEF first
    <2> QED BY <1>2, <1>5, <2>1, <2>2 DEF s
  <1>7. CASE Retires
    <2>1. PICK j \in Issued : Withdraw(h, j)
      BY <1>5, <1>7 DEF Retires, s
    <2> QED BY <1>2, <1>5, <2>1 DEF Withdraw, s
  <1> QED BY <1>6, <1>7

\* In a repetition of a clean run no merge finds anything to do.
LEMMA NoMergeInARepeat ==
    ASSUME ReplayInv, settled, lastFaults = {}
    PROVE  ~JoinsCredits /\ ~AddsSpelling
  <1>1. ASSUME Reaches("merge") PROVE Holds(doc[cursor]) /\ doc[cursor].decision = "merge"
    BY <1>1 DEF Reaches, ReplayInv, Remembered
  <1>2. ASSUME JoinsCredits PROVE FALSE
    BY <1>1, <1>2 DEF JoinsCredits, Holds, MergeLive, Merge
  <1>3. ASSUME AddsSpelling PROVE FALSE
    BY <1>1, <1>3 DEF AddsSpelling, Holds, Attach
  <1> QED BY <1>2, <1>3

LEMMA FreshKeeps ==
    ASSUME RulingsAgree, ReplayInv, ReplayInv', Fresh, [CreditNext]_allVars
    PROVE  Fresh'
  <1>0. CInv /\ CInv' /\ IInv' /\ Alone /\ written \in 0..n /\ n \in Nat
    BY NeverFewer DEF ReplayInv, StandingInv, CInv, CreditTypeOK
  <1>1. CASE ~settled'
    BY <1>1 DEF Fresh
  <1>2. CASE WriteRegistry
    <2>1. /\ settled' /\ phase' = "saved" /\ doc' = doc
          /\ \A k \in DOMAIN doc : doc[k] \in Rulings
      BY <1>0, <1>2 DEF WriteRegistry, CInv, CreditTypeOK
    <2>2. ASSUME lastFaults' = {}, NEW s \in RuledOut' PROVE Holders(s)' = {}
      <3>1. PICK k \in DOMAIN doc : doc[k].decision = "withdraw" /\ s = doc[k].string
        BY <2>1 DEF RuledOut
      <3>2. Holds(doc[k])'
        BY <2>1, <2>2 DEF ReplayInv, StandingInv, RulingsStand, Holds
      <3>3. s \in Anchor /\ Index(s)' = None
        BY <2>1, <3>1, <3>2, RulingNames DEF Holds, None
      <3>4. SpellingsAnswer'
        BY <1>0, SpellingsAreAnsweredNext
      <3> QED BY <3>3, <3>4 DEF SpellingsAnswer, None
    <2> QED BY <2>2 DEF Fresh
  <1>3. CASE UNCHANGED <<corpus, doc, lastFaults, settled, written>>
    <2> SUFFICES ASSUME settled, lastFaults = {}, NEW s \in RuledOut, NEW h \in Holders(s)'
                 PROVE  h > written
      BY <1>3 DEF Fresh, RuledOut
    <2>1. s \in Anchor
      <3>1. \A k \in DOMAIN doc : doc[k] \in Rulings
        BY <1>0 DEF CInv, CreditTypeOK
      <3> QED BY <3>1, RulingNames DEF RuledOut
    <2>2. h \in Holders(s) => h > written
      BY DEF Fresh
    <2>3. CASE UNCHANGED entries
      BY <1>0, <2>1, <2>2, <2>3, RestEffect
    <2>4. ASSUME NEW x \in Anchor, Mints(x) PROVE h > written
      <3> DEFINE i == n + 1
      <3>1. Holders(s)' = IF s = x THEN {i} ELSE Holders(s)
        BY <1>0, <2>1, <2>4, MintEffect
      <3>2. i > written
        BY <1>0
      <3> QED BY <2>2, <3>1, <3>2
    <2>5. CASE TakesOff \/ Retires
      BY <1>0, <2>1, <2>2, <2>5, LeaveEffect
    <2> QED BY <1>0, <2>3, <2>4, <2>5, CreditSteps, NoMergeInARepeat
  <1> QED BY <1>1, <1>2, <1>3, WithinARun

THEOREM CoveredInvariance ==
    ASSUME RulingsAgree
    PROVE  CreditSpec => [](OwnerKnows /\ Covered /\ Fresh)
  <1>1. CreditInit => OwnerKnows /\ Covered /\ Fresh
    BY DEF CreditInit, Init, OwnerKnows, Covered, Fresh
  <1>2. ReplayInv /\ ReplayInv' /\ OwnerKnows /\ Covered /\ Fresh /\ [CreditNext]_allVars
            => OwnerKnows' /\ Covered' /\ Fresh'
    <2>1. ReplayInv => StandingInv
      BY DEF ReplayInv
    <2>2. ReplayInv' => IInv'
      BY DEF ReplayInv, StandingInv, CInv
    <2> QED BY <2>1, <2>2, OwnerKnowsKeeps, CoveredKeeps, FreshKeeps
  <1> QED BY <1>1, <1>2, ReplayInvariance, PTL DEF CreditSpec

\* A run that refused no ruling, repeated over the same corpus and the same
\* document, leaves every entry it wrote as it is and mints only what the corpus
\* prints against the document, whether or not the splitter learned of it.
THEOREM CleanRepeat == ASSUME RulingsAgree PROVE CreditSpec => CleanRunIsRepeatable
  <1> DEFINE Repeats ==
        settled /\ lastFaults = {} =>
            /\ \A i \in 1..written :
                   /\ anchors'[i] = anchors[i] /\ detached'[i] = detached[i]
                   /\ mergedInto'[i] = mergedInto[i]
            /\ \A i \in Issued' \ Issued : anchors'[i] \cap Reprinted # {}
  <1>1. ASSUME ReplayInv, CInv', Covered, Fresh, [CreditNext]_allVars PROVE Repeats
    <2> SUFFICES ASSUME settled, lastFaults = {} PROVE Repeats
      OBVIOUS
    <2>0. /\ CInv /\ IInv' /\ Alone /\ written \in 0..n /\ n \in Nat
          /\ 1..written \subseteq Issued /\ anchors \in [Ids -> SUBSET Anchor]
      BY <1>1, NeverFewer DEF ReplayInv, StandingInv, CInv, CreditTypeOK, Issued, IInv, Entries, TypeOK
    <2>1. CASE UNCHANGED entries
      BY <2>1 DEF entries, Issued
    <2>2. ASSUME NEW s \in Anchor, Mints(s) PROVE Repeats
      <3>1. Index(s) = None /\ n + 1 \in Ids
        BY <2>0, <2>2, MintEffect
      <3>2. s \in Reprinted
        BY <1>1, <2>2, <3>1 DEF Covered, Mints
      <3>3. /\ anchors' = [anchors EXCEPT ![n + 1] = {s}] /\ n' = n + 1
            /\ UNCHANGED <<mergedInto, detached>>
        BY <2>2 DEF Mints
      <3>4. \A i \in 1..written : i # n + 1
        BY <2>0
      <3>5. \A i \in Issued' \ Issued : i = n + 1
        BY <2>0, <3>3 DEF Issued
      <3> QED BY <2>0, <3>1, <3>2, <3>3, <3>4, <3>5
    <2>3. CASE TakesOff \/ Retires
      <3>1. n' = n
        BY <2>3 DEF TakesOff, Detach, Retires, Withdraw
      <3>2. ASSUME NEW i \in 1..written,
                   \/ anchors'[i] # anchors[i] \/ detached'[i] # detached[i]
                   \/ mergedInto'[i] # mergedInto[i]
            PROVE  FALSE
        <4>1. i \in Holders(doc[cursor].string)
          BY <2>0, <2>3, <3>2, LeavingTouches
        <4>2. doc[cursor].string \in RuledOut
          BY <2>3 DEF TakesOff, Retires, Reaches, RuledOut
        <4>3. i > written
          BY <1>1, <4>1, <4>2 DEF Fresh
        <4> QED BY <2>0, <4>3
      <3> QED BY <3>1, <3>2 DEF Issued
    <2> QED BY <1>1, <2>0, <2>1, <2>2, <2>3, CreditSteps, NoMergeInARepeat
  <1>2. ReplayInv /\ CInv' /\ Covered /\ Fresh /\ [CreditNext]_allVars => [Repeats]_allVars
    BY <1>1
  <1> QED BY <1>2, ReplayInvariance, CoveredInvariance, CreditInvariance, PTL
          DEF CreditSpec, CleanRunIsRepeatable
=============================================================================
