-------------------------- MODULE IdentityRegistry --------------------------
(***************************************************************************)
(* The identifier registry of adapters/facts/identity/__init__.py: the     *)
(* append-only file in which a work (or a credit, or a publisher) gets the *)
(* identifier its published address is built from.                         *)
(*                                                                         *)
(* An entry is an identifier, the ANCHORS it is re-found by, the anchors   *)
(* somebody DETACHED from it, and the identifier it was MERGED INTO, if it *)
(* is retired.  Identifiers are numbered from 1 in the order of minting,   *)
(* which is also the order of the file: render sorts by id and the two     *)
(* writers that keep the order only append.                                *)
(*                                                                         *)
(* One invocation of the pass (main) takes the decisions it was given, one *)
(* hand operation at a time, then assigns an identifier to every row of    *)
(* the populations, one row at a time against an index built once, then    *)
(* writes the file.                                                        *)
(***************************************************************************)
EXTENDS Integers, FiniteSets

CONSTANTS
    Anchor,     \* the addresses and record numbers a work is found by
    Twin,       \* Twin[a]: the other trailing-slash form of a, or a itself
    Rows,       \* what a run asks for: an identifying anchor, joined anchors
    Siblings,   \* anchors of two rows that share a title and an author
    MaxId       \* bound on the identifiers a behaviour mints

ASSUME TwinAssumption ==
    /\ Twin \in [Anchor -> Anchor]
    /\ \A a \in Anchor : Twin[Twin[a]] = a

ASSUME RowsAssumption ==
    Rows \subseteq [anchor : Anchor, attached : SUBSET Anchor]

ASSUME SiblingsAssumption == Siblings \subseteq Anchor \X Anchor

ASSUME MaxIdAssumption == MaxId \in Nat

VARIABLES
    n,          \* how many entries the registry holds
    anchors,    \* anchors[i]: the addresses entry i lists
    mergedInto, \* mergedInto[i]: the identifier i was retired into, or None
    detached,   \* detached[i]: the anchors taken off i by hand
    related,    \* the pairs of the registry's `related` list
    phase,      \* where the invocation is
    owner,      \* the index assign built at its start and keeps up itself
    done        \* rows assigned since the last hand decision (history)

entries == <<n, anchors, mergedInto, detached>>
vars == <<n, anchors, mergedInto, detached, related, phase, owner, done>>

Ids == 1..MaxId
None == 0
Issued == 1..n
Live(i) == mergedInto[i] = None

TypeOK ==
    /\ n \in 0..MaxId
    /\ anchors \in [Ids -> SUBSET Anchor]
    /\ mergedInto \in [Ids -> Ids \union {None}]
    /\ detached \in [Ids -> SUBSET Anchor]
    /\ related \subseteq SUBSET Ids
    /\ phase \in {"saved", "deciding", "assigning"}
    /\ owner \in [Anchor -> Ids \union {None}]
    /\ done \subseteq Rows

-----------------------------------------------------------------------------
(* Lookups.                                                                *)

\* A set of identifiers no merge leads out of.
Closed(S) == \A k \in S : Live(k) \/ mergedInto[k] \in S

\* The identifiers the walk from i along merged_into meets.
Met(i) == {j \in Ids : \A S \in SUBSET Ids : i \in S /\ Closed(S) => j \in S}

\* Where the walk goes round: met again from their own successor.
Loop(i) == {k \in Met(i) : ~Live(k) /\ k \in Met(mergedInto[k])}

\* Mutant: the link is read once.
SurvivorOneStep(i) == IF Live(i) THEN i ELSE mergedInto[i]

\* The identifier i resolves to.  The walk stops at the first identifier it
\* meets twice, so a cycle answers with the identifier it was entered at.
Survivor(i) ==
    IF Live(i) THEN i
    ELSE IF Loop(i) = {}
    THEN CHOOSE j \in Met(i) : Live(j)
    ELSE CHOOSE j \in Loop(i) :
            j = i \/ \E k \in Met(i) \ Loop(i) : mergedInto[k] = j

Holders(a) == {i \in Issued : a \in anchors[i]}

\* The last entry of the file that lists a: a later entry overwrites an
\* earlier one in the index.
LastHolder(a) == CHOOSE i \in Holders(a) : \A j \in Holders(a) : j <= i

\* What the index answers for a: its own holder's survivor, or the one of the
\* other slash form where nobody registered this one.
Index(a) ==
    IF Holders(a) # {} THEN Survivor(LastHolder(a))
    ELSE IF Holders(Twin[a]) # {} THEN Survivor(LastHolder(Twin[a]))
    ELSE None

\* refused(entries)[a] in the code: who a was taken off.
Refused(a) == {i \in Issued : a \in detached[i]}

-----------------------------------------------------------------------------
(* The decisions taken by hand, each an option of the command line.        *)

Deciding == phase \in {"saved", "deciding"}

\* Mutant: the anchors are lent and the loser stays live.
MergeWithoutRetiring(loser, winner) ==
    /\ Deciding
    /\ loser # winner
    /\ anchors' = [anchors EXCEPT ![winner] = @ \union anchors[loser]]
    /\ phase' = "deciding"
    /\ done' = {}
    /\ UNCHANGED <<n, mergedInto, detached, related, owner>>

\* Mutant: a retired winner is taken back into use.
MergeReviving(loser, winner) ==
    /\ Deciding
    /\ loser # winner
    /\ anchors' = [anchors EXCEPT ![winner] = @ \union anchors[loser]]
    /\ mergedInto' = [mergedInto EXCEPT ![loser] = winner, ![winner] = None]
    /\ phase' = "deciding"
    /\ done' = {}
    /\ UNCHANGED <<n, detached, related, owner>>

\* Retire loser into winner.  The winner gains the loser's anchors and the
\* loser keeps them; what was detached stays with the entry it was taken off.
Merge(loser, winner) ==
    /\ Deciding
    /\ loser # winner
    /\ anchors' = [anchors EXCEPT ![winner] = @ \union anchors[loser]]
    /\ mergedInto' = [mergedInto EXCEPT ![loser] = winner]
    /\ phase' = "deciding"
    /\ done' = {}
    /\ UNCHANGED <<n, detached, related, owner>>

\* Take a off the first entry of the file that lists it and remember that.
\* The command exits where the index does not know a.
Detach(a) ==
    /\ Deciding
    /\ Index(a) # None
    /\ IF Holders(a) = {}
       THEN UNCHANGED <<anchors, detached>>
       ELSE LET first == CHOOSE i \in Holders(a) : \A j \in Holders(a) : i <= j
            IN /\ anchors' = [anchors EXCEPT ![first] = @ \ {a}]
               /\ detached' = [detached EXCEPT ![first] = @ \union {a}]
    /\ phase' = "deciding"
    /\ done' = {}
    /\ UNCHANGED <<n, mergedInto, related, owner>>

\* A join of a joins file, or of --attach: give entry i the address a.  Only
\* an address the index does not know is appended: one that i's survivor holds
\* satisfies the join already, one held elsewhere is refused as being a merge,
\* and one somebody took off i is refused as well.
Attach(a, i) ==
    /\ Deciding
    /\ i \notin Refused(a)
    /\ Index(a) = None
    /\ anchors' = [anchors EXCEPT ![i] = @ \union {a}]
    /\ phase' = "deciding"
    /\ done' = {}
    /\ UNCHANGED <<n, mergedInto, detached, related, owner>>

-----------------------------------------------------------------------------
(* The assignment every invocation ends with.                              *)

\* Mutant: the index names the entry that lists an anchor, retired or not.
BeginAssignUnresolved ==
    /\ Deciding
    /\ phase' = "assigning"
    /\ owner' = [a \in Anchor |-> IF Holders(a) = {} THEN None ELSE LastHolder(a)]
    /\ UNCHANGED <<n, anchors, mergedInto, detached, related, done>>

BeginAssign ==
    /\ Deciding
    /\ phase' = "assigning"
    /\ owner' = [a \in Anchor |-> Index(a)]
    /\ UNCHANGED <<n, anchors, mergedInto, detached, related, done>>

\* Mutants: an anchor held elsewhere is taken, and one taken off i by hand is.
TakenFromOthers(row, i, known) == {a \in row.attached : i \notin Refused(a)}
TakenThoughDetached(row, i, known) == {a \in row.attached : known[a] \in {None, i}}

\* The joined anchors of a row that entry i takes: neither refused to it nor
\* held by another entry.
Taken(row, i, known) ==
    {a \in row.attached : i \notin Refused(a) /\ known[a] \in {None, i}}

\* Mutant: an anchor nobody holds counts as contested.
ContestedByNobody(row, i, known) ==
    {known[a] : a \in {b \in row.attached : i \notin Refused(b) /\ known[b] # i}}

\* The entries that already hold a joined anchor of the row: a contest, which
\* main records as a relation and never as a merge.
Contested(row, i, known) ==
    {known[a] : a \in {b \in row.attached :
                         i \notin Refused(b) /\ known[b] \notin {None, i}}}

\* Entry i takes what the row joins to it.
Extend(row, i, known) ==
    LET taken == Taken(row, i, known)
    IN /\ owner' = [a \in Anchor |-> IF a \in taken THEN i ELSE known[a]]
       /\ related' = related \union {{i, j} : j \in Contested(row, i, known)}

\* A row whose identifying anchor the index knows.
AssignKnown(row) ==
    LET i == owner[row.anchor]
    IN /\ phase = "assigning"
       /\ i # None
       /\ anchors' = [anchors EXCEPT ![i] = @ \union Taken(row, i, owner)]
       /\ Extend(row, i, owner)
       /\ done' = done \union {row}
       /\ UNCHANGED <<n, mergedInto, detached, phase>>

\* Mutant: the new entry does not list the anchor it was minted for.
AssignNewUnlisted(row) ==
    LET i == n + 1
        known == [owner EXCEPT ![row.anchor] = i]
    IN /\ phase = "assigning"
       /\ owner[row.anchor] = None
       /\ n < MaxId
       /\ n' = i
       /\ anchors' = [anchors EXCEPT ![i] = Taken(row, i, known)]
       /\ Extend(row, i, known)
       /\ done' = done \union {row}
       /\ UNCHANGED <<mergedInto, detached, phase>>

\* A row nobody has an identifier for: the next one is minted, whether or not
\* the anchor was ever taken off another entry.
AssignNew(row) ==
    LET i == n + 1
        known == [owner EXCEPT ![row.anchor] = i]
    IN /\ phase = "assigning"
       /\ owner[row.anchor] = None
       /\ n < MaxId
       /\ n' = i
       /\ anchors' = [anchors EXCEPT
                        ![i] = {row.anchor} \union Taken(row, i, known)]
       /\ Extend(row, i, known)
       /\ done' = done \union {row}
       /\ UNCHANGED <<mergedInto, detached, phase>>

\* Two rows of one title and author are related, never merged.
RelateSiblings(a, b) ==
    /\ phase = "assigning"
    /\ <<a, b>> \in Siblings
    /\ Index(a) # None /\ Index(b) # None /\ Index(a) # Index(b)
    /\ related' = related \union {{Index(a), Index(b)}}
    /\ UNCHANGED <<entries, phase, owner, done>>

\* render writes the file, and drops the pairs whose two sides were merged
\* into one entry, reading merged_into once.
Settled(i) == IF Live(i) THEN i ELSE mergedInto[i]

\* Mutant: the pairs of works as they are now, and not of those they became.
SaveLivePairs ==
    /\ phase = "assigning"
    /\ related' = {p \in related : \A i \in p : Live(i)}
    /\ phase' = "saved"
    /\ owner' = [a \in Anchor |-> None]
    /\ UNCHANGED <<entries, done>>

Save ==
    /\ phase = "assigning"
    /\ related' = {p \in related : \E i, j \in p : Settled(i) # Settled(j)}
    /\ phase' = "saved"
    /\ owner' = [a \in Anchor |-> None]
    /\ UNCHANGED <<entries, done>>

-----------------------------------------------------------------------------
Init ==
    /\ n = 0
    /\ anchors = [i \in Ids |-> {}]
    /\ mergedInto = [i \in Ids |-> None]
    /\ detached = [i \in Ids |-> {}]
    /\ related = {}
    /\ phase = "saved"
    /\ owner = [a \in Anchor |-> None]
    /\ done = {}

\* What an invocation may do whatever was decided about a merge.
Step ==
    \/ \E a \in Anchor : Detach(a)
    \/ \E a \in Anchor, i \in Issued : Attach(a, i)
    \/ BeginAssign
    \/ \E row \in Rows : AssignKnown(row) \/ AssignNew(row)
    \/ \E a, b \in Anchor : RelateSiblings(a, b)
    \/ Save

\* --merge asks of its two entries that both exist and differ, so the loser
\* may be retired already and the winner may lead to the loser.
Next == Step \/ \E i, j \in Issued : Merge(i, j)

Spec == Init /\ [][Next]_vars

-----------------------------------------------------------------------------
(* Properties of every registry, whatever was merged into whatever.        *)

\* Entries whose link this step changes.
Repointed == {k \in Issued : mergedInto'[k] # mergedInto[k]}

\* An entry this step merges a second time, into another work than before.
Remerged(k) == ~Live(k) /\ mergedInto'[k] \notin {None, mergedInto[k]}

\* "stays resolvable" (merge), and where it ends: an identifier that resolved
\* resolves after a step unless the step repoints an entry on its way, at a
\* work that does not resolve itself or that led to the repointed entry.
ResolvesUnlessCircled ==
    [][\A i \in Issued : Live(Survivor(i)) =>
        (Live(Survivor(i))' <=>
            \A k \in Met(i) \cap Repointed :
                /\ Live(Survivor(mergedInto'[k]))
                /\ k \notin Met(mergedInto'[k]))]_vars

\* The index assign built at its start and updates by hand never disagrees
\* with the one the entries would give it, on any anchor somebody holds.
OwnerIsCurrent ==
    phase = "assigning" =>
        \A a \in Anchor : Holders(a) # {} => owner[a] = Index(a)

\* A published address goes on leading where the page it led to now leads: a
\* later operation moves both or neither, unless it merges a retired entry on
\* the way a second time, or sends the page itself into a circle.
LinksMoveTogether ==
    [][\A i, j \in Issued : j = Survivor(i) /\ Live(j) =>
        \/ Survivor(i)' = Survivor(j)'
        \/ ~Live(Survivor(j))'
        \/ \E k \in Met(i) : Remerged(k)]_vars

\* Every entry that lists a resolves to the work j, so the order of the file,
\* which decides which of them the index reads, decides nothing.
OneWork(a, j) == \A i \in Holders(a) : Survivor(i) = j

\* An anchor all of whose entries resolve to one work stays with that work,
\* or the one it became, on every entry that lists it after the step: those
\* joined, minted or merged by it included.  What separates them is an entry
\* on their way merged a second time, or a work sent into a circle.
AnchorsStay ==
    [][\A a \in Anchor, j \in Issued :
        Live(j) /\ Holders(a) # {} /\ OneWork(a, j) =>
            \/ OneWork(a, Survivor(j))'
            \/ ~Live(Survivor(j))'
            \/ \E i \in Holders(a) : \E k \in Met(i) : Remerged(k)]_vars

\* An anchor somebody took off an entry comes back to it from another entry
\* merged into it by hand, and in no other way.
DetachedStaysOff ==
    [][\A i \in Issued : \A a \in detached[i] :
        a \in anchors'[i] \ anchors[i] =>
            /\ phase' = "deciding"
            /\ \E j \in Issued \ {i} : mergedInto'[j] = i /\ a \in anchors[j]]_vars

\* Running the pass again over rows it has assigned changes no entry.
AssignIsRepeatable ==
    [][\A row \in done : AssignKnown(row) \/ AssignNew(row)
                            => UNCHANGED entries]_vars

\* Writing the file drops no pair of works that are still two works ("a pass
\* must not delete what it is not looking at", main).
RelationsCarriedOver ==
    [][\A p \in related \ related' : \A i, j \in p :
        Survivor(i) = Survivor(j) \/ ~Live(Survivor(i))]_vars

-----------------------------------------------------------------------------
(* What holds while no merge retires a retired entry or closes a circle.   *)

\* Every identifier ever issued resolves to a live one.
EveryIdResolves == \A i \in Issued : Live(Survivor(i))

\* All the entries that list an anchor resolve to one work.
OneWorkPerAnchor ==
    \A a \in Anchor : \A i, j \in Holders(a) : Survivor(i) = Survivor(j)

\* A merge that takes back what an earlier one promised a reader.
Undoing ==
    \E k \in Repointed : Remerged(k) \/ k \in Met(mergedInto'[k])

\* What a reader sees of the registry: where every issued identifier leads and
\* what every registered anchor answers.
Reader == INSTANCE PublishedIdentifiers WITH
    Name <- Anchor,
    issued <- n,
    home <- [i \in Ids |-> Survivor(i)],
    answer <- [a \in Anchor |-> IF Holders(a) = {} THEN None ELSE Index(a)]

\* From a registry in which every identifier resolves and no anchor is split,
\* every step but an undoing merge is one the promise to a reader allows.
ReaderIsServed ==
    /\ Reader!Init
    /\ [][EveryIdResolves /\ OneWorkPerAnchor /\ ~Undoing => Reader!Next]_(Reader!pvars)
=============================================================================
