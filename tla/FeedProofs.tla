----------------------------- MODULE FeedProofs -----------------------------
(***************************************************************************)
(* Proofs about the feed, for any rows, works, platforms and dates: the    *)
(* types, that a row is news once, and that it stays in its month.         *)
(***************************************************************************)
EXTENDS Feed, WellFoundedInduction, TLAPS

LegacyKeys(r) == Spelling \X {r} \X Platform
KeysOf(r) == LegacyKeys(r) \union ({"url"} \X {r} \X (1 .. MaxAddress))

\* However often a row was remembered, it was under one day, as long as one of
\* the keys is of the old form: what is remembered later is carried from it.
OneSighting ==
    \A r \in Row : \A j \in LegacyKeys(r), k \in KeysOf(r) :
        ledger[j] # Never /\ ledger[k] # Never => ledger[j] = ledger[k]

\* Nothing is known of an address a row has not had.
FreshAddress ==
    \A r \in Row : \A n \in 1 .. MaxAddress :
        address[r] < n => ledger[<<"url", r, n>>] = Never

\* What the ledger answers for a row that a build had is no later than that
\* build: under its address, or under the names it had before.
KnownSinceFirst ==
    \A r \in Row : first[r] # Never =>
        /\ \A k \in LegacyKeys(r) : ledger[k] <= first[r]
        /\ address[r] > 0 => ledger[<<"url", r, address[r]>>] <= first[r]
        /\ \/ Remembered(r) # {}
           \/ address[r] > 0 /\ ledger[<<"url", r, address[r]>>] # Never

\* The sighting the last build went by, found again in the ledger.
Sighting(r, a) == IF a = 0 THEN Remembered(r) ELSE {ledger[<<"url", r, a>>]}

SightedOn(r, d) ==
    /\ feed[r].pub = IF r \in Guessed /\ d < feed[r].stated THEN d ELSE feed[r].stated
    /\ feed[r].filed =
        IF /\ feed[r].old \/ (d > LedgerSeededOn /\ Month(d) > Month(feed[r].pub))
           /\ ~feed[r].accompanied /\ ~feed[r].ended
        THEN d ELSE feed[r].pub

FeedFollowsLedger ==
    \A r \in Row : feed[r] # NoRow =>
        /\ feed[r].address <= address[r]
        /\ \E d \in Sighting(r, feed[r].address) : d # Never /\ SightedOn(r, d)

FeedIInv ==
    /\ FeedTypeOK /\ OneSighting /\ FreshAddress /\ KnownSinceFirst /\ FeedFollowsLedger
    /\ NeverNewsAgain

-----------------------------------------------------------------------------
(* Days and keys.                                                          *)

LEMMA MinIsLeast ==
    ASSUME NEW S \in SUBSET Nat, S # {}
    PROVE  Min(S) \in S /\ \A y \in S : Min(S) <= y
  <1>1. PICK x \in S : \A y \in S : ~(<<y, x>> \in OpToRel(<, Nat))
    BY NatLessThanWellFounded, WFMin
  <1>2. \A y \in S : y < x => <<y, x>> \in OpToRel(<, Nat)
    BY DEF OpToRel
  <1>3. \A y \in S : ~(y < x)
    BY <1>1, <1>2
  <1>4. \A y \in S : x <= y
    BY <1>3
  <1> QED
    BY <1>4 DEF Min

LEMMA MonthsAreOrdered ==
    ASSUME FeedAssumption, NEW d \in Nat, NEW e \in Nat, d <= e
    PROVE  Month(d) \in Nat /\ Month(e) \in Nat /\ Month(d) <= Month(e)
  BY SMTT(60) DEF FeedAssumption, Month

LEMMA KeysAreKeys ==
    /\ \A r \in Row : KeysOf(r) \subseteq Key /\ LegacyKeys(r) \subseteq LegacyKey
    /\ \A k \in Key : k[2] \in Row /\ k \in KeysOf(k[2])
    /\ \A r \in Row : \A k \in KeysOf(r) : k[2] = r
    /\ \A r \in Row : \A k \in LegacyKeys(r) : \A n \in 1 .. MaxAddress : k # <<"url", r, n>>
    /\ \A r \in Row : \A n \in 1 .. MaxAddress : <<"url", r, n>> \in KeysOf(r)
    /\ \A r \in Row : \A k \in KeysOf(r) \ LegacyKeys(r) :
            \E n \in 1 .. MaxAddress : k = <<"url", r, n>>
  BY DEF KeysOf, LegacyKeys, Key, LegacyKey, UrlKey, Spelling

LEMMA KeyOfRow ==
    ASSUME FeedAssumption, FeedTypeOK, NEW r \in Row
    PROVE  /\ LegacyOf(r) \in LegacyKeys(r)
           /\ KeyOf(r) \in KeysOf(r)
           /\ address[r] = 0 => KeyOf(r) \in LegacyKeys(r)
           /\ address[r] # 0 => /\ address[r] \in 1 .. MaxAddress
                                /\ KeyOf(r) = <<"url", r, address[r]>>
  BY KeysAreKeys DEF FeedAssumption, FeedTypeOK, LegacyOf, KeyOf, LegacyKeys, KeysOf

LEMMA RememberedDays ==
    ASSUME FeedTypeOK, NEW r \in Row
    PROVE  /\ Remembered(r) \subseteq 1 .. today
           /\ today \in Nat /\ \A d \in 1 .. today : d \in Nat \ {Never} /\ d <= today
           /\ \A d : d \in Remembered(r) <=> \E k \in LegacyKeys(r) : d = ledger[k] /\ d # Never
  <1>1. today \in Nat /\ \A k \in LegacyKeys(r) : ledger[k] \in {Never} \union 1 .. today
    BY KeysAreKeys DEF FeedTypeOK, Day, Key
  <1> QED
    BY <1>1 DEF Remembered, LegacyKeys, Never

\* What a build takes for the day a row was first seen.
LEMMA SeenFacts ==
    ASSUME FeedAssumption, FeedTypeOK, NEW r \in Row
    PROVE  /\ Seen(r) \in 1 .. today
           /\ ledger[KeyOf(r)] # Never => Seen(r) = ledger[KeyOf(r)]
           /\ ledger[KeyOf(r)] = Never /\ Remembered(r) # {} => Seen(r) \in Remembered(r)
           /\ ledger[KeyOf(r)] = Never /\ Remembered(r) = {} => Seen(r) = today
  <1>1. ledger[KeyOf(r)] \in {Never} \union 1 .. today
    BY KeyOfRow, KeysAreKeys DEF FeedTypeOK
  <1>2. today \in 1 .. today
    BY DEF FeedTypeOK, Day
  <1>3. Remembered(r) # {} => Min(Remembered(r)) \in Remembered(r)
    BY RememberedDays, MinIsLeast
  <1>4. Remembered(r) # {} => Min(Remembered(r)) \in 1 .. today
    BY <1>3, RememberedDays
  <1> QED
    BY <1>1, <1>2, <1>3, <1>4 DEF Seen

\* By names or by address, a row that was remembered is seen on that day.
LEMMA SeenAgain ==
    ASSUME FeedAssumption, FeedTypeOK, OneSighting, NEW r \in Row, NEW k \in LegacyKeys(r),
           ledger[k] # Never
    PROVE  Seen(r) = ledger[k]
  <1>1. CASE ledger[KeyOf(r)] # Never
    BY <1>1, SeenFacts, KeyOfRow DEF OneSighting
  <1>2. CASE ledger[KeyOf(r)] = Never
    <2>1. ledger[k] \in Remembered(r)
      BY RememberedDays
    <2>2. PICK j \in LegacyKeys(r) : Seen(r) = ledger[j] /\ Seen(r) # Never
      BY <1>2, <2>1, SeenFacts, RememberedDays
    <2> QED
      BY <2>2 DEF OneSighting, KeysOf
  <1> QED
    BY <1>1, <1>2

-----------------------------------------------------------------------------
(* Remembering.                                                            *)

LEMMA LedgerWritten ==
    ASSUME FeedAssumption, FeedTypeOK, Remember
    PROVE  /\ ledger' \in [Key -> {Never} \union 1 .. today]
           /\ first' \in [Row -> {Never} \union 1 .. today]
           /\ \A k \in Key : ledger[k] # Never => ledger'[k] = ledger[k]
           /\ \A r \in Row : \A k \in KeysOf(r) : ledger'[k] # ledger[k] =>
                r \in Held /\ k = KeyOf(r) /\ ledger'[k] = Seen(r) /\ ledger[k] = Never
           /\ \A r \in Row : r \in Held => ledger'[KeyOf(r)] = Seen(r)
           /\ \A r \in Row : first'[r] = IF r \in Held /\ first[r] = Never THEN today
                                          ELSE first[r]
  <1>1. \A k \in Key : ledger'[k] = IF k[2] \in Held /\ k = KeyOf(k[2])
                                    THEN Seen(k[2]) ELSE ledger[k]
    BY DEF Remember
  <1>2. \A k \in Key : k[2] \in Row
    BY KeysAreKeys
  <1>3. \A r \in Row : Seen(r) \in 1 .. today
    BY SeenFacts
  <1>4. ledger' \in [Key -> {Never} \union 1 .. today]
    BY <1>1, <1>2, <1>3 DEF Remember, FeedTypeOK
  <1>5. today \in 1 .. today
    BY DEF FeedTypeOK, Day
  <1>6. first' \in [Row -> {Never} \union 1 .. today]
    BY <1>5 DEF Remember, FeedTypeOK
  <1>7. ASSUME NEW k \in Key, ledger[k] # Never
        PROVE  ledger'[k] = ledger[k]
    BY <1>1, <1>2, <1>7, SeenFacts
  <1>8. ASSUME NEW r \in Row, NEW k \in KeysOf(r), ledger'[k] # ledger[k]
        PROVE  r \in Held /\ k = KeyOf(r) /\ ledger'[k] = Seen(r) /\ ledger[k] = Never
    <2>1. k \in Key /\ k[2] = r
      BY KeysAreKeys
    <2> QED
      BY <1>1, <1>7, <1>8, <2>1
  <1>9. ASSUME NEW r \in Row, r \in Held
        PROVE  ledger'[KeyOf(r)] = Seen(r)
    <2>1. KeyOf(r) \in Key /\ KeyOf(r)[2] = r
      BY KeyOfRow, KeysAreKeys
    <2> QED
      BY <1>1, <1>9, <2>1
  <1>10. \A r \in Row : first'[r] = IF r \in Held /\ first[r] = Never THEN today
                                    ELSE first[r]
    BY DEF Remember
  <1> QED
    BY <1>4, <1>6, <1>7, <1>8, <1>9, <1>10

LEMMA RememberKeepsSightings ==
    ASSUME FeedAssumption, FeedTypeOK, OneSighting, FreshAddress, Remember,
           address' = address
    PROVE  OneSighting' /\ FreshAddress'
  <1>1. ASSUME NEW r \in Row, NEW j \in LegacyKeys(r), NEW k \in KeysOf(r),
               ledger'[j] # Never, ledger'[k] # Never
        PROVE  ledger'[j] = ledger'[k]
    <2>0. j \in KeysOf(r) /\ j \in Key /\ k \in Key
      BY KeysAreKeys DEF KeysOf
    <2>1. CASE ledger'[j] = ledger[j]
      <3>1. Seen(r) = ledger[j]
        BY <1>1, <2>1, SeenAgain
      <3> QED
        BY <1>1, <2>1, <3>1, LedgerWritten DEF OneSighting
    <2>2. CASE ledger'[j] # ledger[j]
      <3>1. j = KeyOf(r) /\ ledger'[j] = Seen(r)
        BY <2>0, <2>2, LedgerWritten
      <3>2. address[r] = 0
        BY <3>1, KeyOfRow, KeysAreKeys
      <3>3. k \in LegacyKeys(r) \/ ledger[k] = Never
        <4>1. k \notin LegacyKeys(r) => \E n \in 1 .. MaxAddress : k = <<"url", r, n>>
          BY KeysAreKeys
        <4> QED
          BY <3>2, <4>1 DEF FreshAddress
      <3>4. CASE ledger'[k] # ledger[k]
        BY <3>1, <3>4, LedgerWritten
      <3>5. CASE ledger'[k] = ledger[k]
        BY <1>1, <3>1, <3>3, <3>5, SeenAgain
      <3> QED
        BY <3>4, <3>5
    <2> QED
      BY <2>1, <2>2
  <1>2. ASSUME NEW r \in Row, NEW n \in 1 .. MaxAddress, address'[r] < n
        PROVE  ledger'[<<"url", r, n>>] = Never
    <2>1. <<"url", r, n>> \in KeysOf(r)
      BY KeysAreKeys
    <2>2. ledger[<<"url", r, n>>] = Never
      BY <1>2 DEF FreshAddress
    <2>3. <<"url", r, n>> # KeyOf(r)
      <3>1. CASE address[r] = 0
        BY <3>1, KeyOfRow, KeysAreKeys
      <3>2. CASE address[r] # 0
        BY <1>2, <3>2, KeyOfRow
      <3> QED
        BY <3>1, <3>2
    <2> QED
      BY <2>1, <2>2, <2>3, LedgerWritten
  <1>3. OneSighting'
    BY <1>1 DEF OneSighting, LegacyKeys, KeysOf
  <1> QED
    BY <1>2, <1>3 DEF FreshAddress

\* A row a build had is never seen later than then.
LEMMA SeenByFirst ==
    ASSUME FeedAssumption, FeedTypeOK, KnownSinceFirst, NEW r \in Row, first[r] # Never
    PROVE  Seen(r) <= first[r]
  <1>1. \A k \in LegacyKeys(r) : ledger[k] <= first[r]
    BY DEF KnownSinceFirst
  <1>2. CASE ledger[KeyOf(r)] # Never
    <2>1. CASE address[r] = 0
      BY <1>1, <1>2, <2>1, SeenFacts, KeyOfRow
    <2>2. CASE address[r] # 0
      <3>1. address[r] > 0 /\ KeyOf(r) = <<"url", r, address[r]>>
        BY <2>2, KeyOfRow
      <3> QED
        BY <1>2, <3>1, SeenFacts DEF KnownSinceFirst
    <2> QED
      BY <2>1, <2>2
  <1>3. CASE ledger[KeyOf(r)] = Never
    <2>1. Remembered(r) # {}
      <3>1. address[r] > 0 => KeyOf(r) = <<"url", r, address[r]>>
        BY KeyOfRow
      <3> QED
        BY <1>3, <3>1 DEF KnownSinceFirst
    <2>2. PICK k \in LegacyKeys(r) : Seen(r) = ledger[k]
      BY <1>3, <2>1, SeenFacts, RememberedDays
    <2> QED
      BY <1>1, <2>2
  <1> QED
    BY <1>2, <1>3

LEMMA RememberKeepsFirst ==
    ASSUME FeedAssumption, FeedTypeOK, KnownSinceFirst, Remember, address' = address
    PROVE  KnownSinceFirst'
  <1>1. ASSUME NEW r \in Row, first'[r] # Never, NEW k \in KeysOf(r)
        PROVE  ledger[k] <= first[r] => ledger'[k] <= first'[r]
    <2>0. k \in Key
      BY KeysAreKeys
    <2>1. ledger'[k] \in {Never} \union 1 .. today /\ today \in Nat
      BY <2>0, LedgerWritten, RememberedDays
    <2>2. CASE first[r] = Never
      <3>1. first'[r] = today
        BY <1>1, <2>2, LedgerWritten
      <3> QED
        BY <2>1, <3>1 DEF Never
    <2>3. CASE first[r] # Never
      <3>1. first'[r] = first[r]
        BY <2>3, LedgerWritten
      <3> QED
        BY <2>3, <3>1, LedgerWritten, SeenByFirst
    <2> QED
      BY <2>2, <2>3
  <1>2. ASSUME NEW r \in Row, first'[r] # Never, first[r] = Never, NEW k \in KeysOf(r)
        PROVE  ledger'[k] <= first'[r]
    <2>1. k \in Key /\ today \in Nat
      BY KeysAreKeys, RememberedDays
    <2>2. ledger'[k] \in {Never} \union 1 .. today /\ first'[r] = today
      BY <1>2, <2>1, LedgerWritten
    <2> QED
      BY <2>1, <2>2 DEF Never
  <1>3. ASSUME NEW r \in Row, NEW k \in LegacyKeys(r), ledger'[k] # Never
        PROVE  Remembered(r)' # {}
    BY <1>3 DEF Remembered, LegacyKeys
  <1>4. ASSUME NEW r \in Row, first'[r] # Never
        PROVE  \/ Remembered(r)' # {}
               \/ address[r] > 0 /\ ledger'[<<"url", r, address[r]>>] # Never
    <2>1. CASE r \in Held
      <3>1. ledger'[KeyOf(r)] # Never
        BY <2>1, LedgerWritten, SeenFacts, RememberedDays
      <3>2. CASE address[r] = 0
        BY <1>3, <3>1, <3>2, KeyOfRow
      <3>3. CASE address[r] # 0
        BY <3>1, <3>3, KeyOfRow
      <3> QED
        BY <3>2, <3>3
    <2>2. CASE r \notin Held
      <3>1. first[r] # Never
        BY <1>4, <2>2, LedgerWritten
      <3>2. \A k \in KeysOf(r) : ledger'[k] = ledger[k]
        BY <2>2, LedgerWritten
      <3>3. CASE Remembered(r) # {}
        <4>1. PICK k \in LegacyKeys(r) : ledger[k] # Never
          BY <3>3, RememberedDays
        <4> QED
          BY <1>3, <3>2, <4>1 DEF KeysOf
      <3>4. CASE address[r] > 0 /\ ledger[<<"url", r, address[r]>>] # Never
        <4>1. <<"url", r, address[r]>> \in KeysOf(r)
          BY <3>4, KeyOfRow
        <4> QED
          BY <3>2, <3>4, <4>1
      <3> QED
        BY <3>1, <3>3, <3>4 DEF KnownSinceFirst
    <2> QED
      BY <2>1, <2>2
  <1>5. ASSUME NEW r \in Row, first'[r] # Never, NEW k \in LegacyKeys(r)
        PROVE  ledger'[k] <= first'[r]
    BY <1>1, <1>2, <1>5 DEF KnownSinceFirst, KeysOf
  <1>6. ASSUME NEW r \in Row, first'[r] # Never, address[r] > 0
        PROVE  ledger'[<<"url", r, address[r]>>] <= first'[r]
    <2>1. <<"url", r, address[r]>> \in KeysOf(r)
      BY <1>6, KeyOfRow
    <2> QED
      BY <1>1, <1>2, <1>6, <2>1 DEF KnownSinceFirst
  <1> QED
    BY <1>4, <1>5, <1>6 DEF KnownSinceFirst, LegacyKeys

\* The sighting the feed went by stays in the ledger.
LEMMA RememberKeepsFeed ==
    ASSUME FeedAssumption, FeedTypeOK, FeedFollowsLedger, Remember, feed' = feed,
           address' = address
    PROVE  FeedFollowsLedger'
  <1>1. ASSUME NEW r \in Row, feed[r] # NoRow, NEW d \in Sighting(r, feed[r].address), d # Never
        PROVE  d \in Sighting(r, feed[r].address)'
    <2>1. CASE feed[r].address = 0
      <3>1. PICK k \in LegacyKeys(r) : d = ledger[k]
        BY <1>1, <2>1, RememberedDays DEF Sighting
      <3>2. ledger'[k] = d
        BY <1>1, <3>1, LedgerWritten, KeysAreKeys DEF KeysOf
      <3> QED
        BY <1>1, <2>1, <3>2 DEF Sighting, Remembered, LegacyKeys
    <2>2. CASE feed[r].address # 0
      <3>1. feed[r].address \in 1 .. MaxAddress
        BY <1>1, <2>2 DEF FeedTypeOK, Told, FeedAssumption
      <3>2. <<"url", r, feed[r].address>> \in Key
        BY <3>1, KeysAreKeys
      <3> QED
        BY <1>1, <2>2, <3>2, LedgerWritten DEF Sighting
    <2> QED
      BY <2>1, <2>2
  <1>2. ASSUME NEW r \in Row, NEW d
        PROVE  SightedOn(r, d)' <=> SightedOn(r, d)
    BY DEF SightedOn
  <1> QED
    BY <1>1, <1>2 DEF FeedFollowsLedger

-----------------------------------------------------------------------------
(* A build.                                                                *)

\* What a build says of a row it keeps.
LEMMA RowTold ==
    ASSUME FeedAssumption, FeedTypeOK, Build, NEW r \in Row
    PROVE  /\ feed'[r] # NoRow => r \in Kept
           /\ r \in Kept =>
                /\ feed'[r] \in Told /\ feed'[r] # NoRow
                /\ feed'[r].stated = stated[r] /\ feed'[r].address = address[r]
                /\ feed'[r].pub = Pub(r) /\ feed'[r].filed = Filed(r)
                /\ feed'[r].old = Old(r)
                /\ feed'[r].accompanied = Accompanied(r) /\ feed'[r].ended = Ended(r)
                /\ feed'[r].filed <= today
                /\ Pub(r) <= Seen(r) \/ r \notin Guessed
                /\ Filed(r) = Pub(r) \/ Filed(r) = Seen(r)
  <1>1. feed'[r] = IF r \in Kept
            THEN [stated |-> stated[r], address |-> address[r], old |-> Old(r),
                  accompanied |-> Accompanied(r), ended |-> Ended(r), pub |-> Pub(r),
                  filed |-> Filed(r)]
            ELSE NoRow
    BY DEF Build
  <1>2. stated[r] \in Day /\ address[r] \in 0 .. MaxAddress /\ today \in Day
    BY DEF FeedTypeOK
  <1>3. Seen(r) \in Day /\ Seen(r) <= today
    BY <1>2, SeenFacts DEF Day, FeedAssumption
  <1>4. r \in Kept => stated[r] <= today
    BY DEF Kept, Held
  <1>5. Pub(r) \in {stated[r], Seen(r)} /\ (r \in Guessed => Pub(r) <= Seen(r))
    BY <1>2, <1>3 DEF Pub, Day
  <1>6. Filed(r) = Pub(r) \/ Filed(r) = Seen(r)
    BY DEF Filed
  <1>7. Old(r) \in BOOLEAN /\ Accompanied(r) \in BOOLEAN /\ Ended(r) \in BOOLEAN
    BY DEF Old, Accompanied, Ended
  <1>8. r \in Kept => feed'[r] \in Told
    BY <1>1, <1>2, <1>3, <1>5, <1>6, <1>7 DEF Told
  <1>9. \A t \in Told : t # NoRow
    <2>1. \A t \in Told : t.filed # Never
      BY DEF Told, Day, Never
    <2>2. NoRow.filed = Never
      BY DEF NoRow
    <2> QED
      BY <2>1, <2>2
  <1> QED
    BY <1>1, <1>3, <1>4, <1>5, <1>6, <1>8, <1>9

LEMMA BuildTypes ==
    ASSUME FeedAssumption, FeedTypeOK, Build
    PROVE  FeedTypeOK'
  <1>1. ledger' \in [Key -> {Never} \union 1 .. today] /\ first' \in [Row -> {Never} \union 1 .. today]
    BY LedgerWritten DEF Build
  <1>2. feed' \in [Row -> Told \union {NoRow}]
    <2>1. \A r \in Row : feed'[r] \in Told \union {NoRow}
      BY RowTold
    <2>2. DOMAIN feed' = Row /\ feed' = [r \in DOMAIN feed' |-> feed'[r]]
      BY DEF Build
    <2> QED
      BY <2>1, <2>2
  <1>3. \A r \in Row : feed'[r] # NoRow => feed'[r].filed <= today
    BY RowTold
  <1>4. today \in 1 .. today
    BY DEF FeedTypeOK, Day
  <1> QED
    BY <1>1, <1>2, <1>3, <1>4 DEF FeedTypeOK, Build, captures

LEMMA BuildFollowsLedger ==
    ASSUME FeedAssumption, FeedTypeOK, Build
    PROVE  FeedFollowsLedger'
  <1>1. ASSUME NEW r \in Row, r \in Kept, NEW d, d = Seen(r)
        PROVE  /\ feed'[r].address <= address'[r]
               /\ d \in Sighting(r, feed[r].address)' /\ d # Never
               /\ SightedOn(r, d)'
    <2>1. Remember /\ r \in Held /\ address' = address
      BY <1>1 DEF Build, captures, Kept
    <2>2. ledger'[KeyOf(r)] = d /\ d # Never
      BY <1>1, <2>1, LedgerWritten, SeenFacts, RememberedDays
    <2>3. feed'[r].address = address[r] /\ address[r] \in Nat
      BY <1>1, RowTold DEF FeedTypeOK, FeedAssumption
    <2>4. d \in Sighting(r, feed[r].address)'
      <3>1. CASE address[r] = 0
        BY <2>2, <2>3, <3>1, KeyOfRow DEF Sighting, Remembered, LegacyKeys
      <3>2. CASE address[r] # 0
        BY <2>2, <2>3, <3>2, KeyOfRow DEF Sighting
      <3> QED
        BY <3>1, <3>2
    <2>5. SightedOn(r, d)'
      BY <1>1, RowTold DEF SightedOn, Pub, Filed, Late
    <2> QED
      BY <2>1, <2>2, <2>3, <2>4, <2>5
  <1> QED
    BY <1>1, RowTold DEF FeedFollowsLedger

LEMMA RememberNoNews ==
    ASSUME FeedAssumption, FeedTypeOK, NeverNewsAgain, Remember, feed' = feed
    PROVE  NeverNewsAgain'
  <1>1. ASSUME NEW r \in Row, feed[r] # NoRow
        PROVE  feed[r].filed <= today
    <2>1. feed[r] \in Told /\ feed[r].filed <= built
      BY <1>1 DEF FeedTypeOK
    <2>2. built <= today /\ built \in Int /\ today \in Int /\ feed[r].filed \in Int
      BY <2>1 DEF FeedTypeOK, Day, Never, Told, FeedAssumption
    <2> QED
      BY <2>1, <2>2
  <1>2. \A r \in Row : first'[r] = first[r] \/ (first[r] = Never /\ first'[r] = today)
    BY LedgerWritten
  <1> QED
    BY <1>1, <1>2 DEF NeverNewsAgain

LEMMA BuildNoNews ==
    ASSUME FeedAssumption, FeedTypeOK, KnownSinceFirst, Build
    PROVE  NeverNewsAgain'
  <1>1. SUFFICES ASSUME NEW r \in Row, r \in Kept,
                        r \in Guessed \/ Filed(r) # Pub(r)
                 PROVE  Filed(r) <= first'[r]
    BY RowTold DEF NeverNewsAgain
  <1>2. Filed(r) <= Seen(r)
    <2>1. Filed(r) \in Day /\ Seen(r) \in Day
      <3>1. feed'[r] \in Told /\ feed'[r].filed = Filed(r)
        BY <1>1, RowTold
      <3> QED
        BY <3>1, SeenFacts DEF Told, FeedTypeOK, Day, FeedAssumption
    <2> QED
      BY <1>1, <2>1, RowTold DEF Day
  <1>3. Seen(r) <= first'[r] /\ first'[r] \in Nat
    <2>1. r \in Held /\ Remember /\ today \in Nat /\ first[r] \in Nat
      BY <1>1, RememberedDays DEF Kept, Build, FeedTypeOK, Never
    <2>2. CASE first[r] = Never
      BY <2>1, <2>2, LedgerWritten, SeenFacts, RememberedDays
    <2>3. CASE first[r] # Never
      BY <2>1, <2>3, LedgerWritten, SeenByFirst
    <2> QED
      BY <2>2, <2>3
  <1>4. Filed(r) \in Int /\ Seen(r) \in Int
    <2>1. feed'[r] \in Told /\ feed'[r].filed = Filed(r)
      BY <1>1, RowTold
    <2> QED
      BY <2>1, SeenFacts DEF Told, Day
  <1> QED
    BY <1>2, <1>3, <1>4

LEMMA BuildKeeps ==
    ASSUME FeedAssumption, FeedIInv, Build
    PROVE  FeedIInv'
  <1>1. Remember /\ address' = address
    BY DEF Build, captures
  <1>2. OneSighting' /\ FreshAddress'
    BY <1>1, RememberKeepsSightings DEF FeedIInv
  <1>3. KnownSinceFirst'
    BY <1>1, RememberKeepsFirst DEF FeedIInv
  <1> QED
    BY <1>2, <1>3, BuildTypes, BuildFollowsLedger, BuildNoNews DEF FeedIInv

LEMMA BuildCutKeeps ==
    ASSUME FeedAssumption, FeedIInv, BuildCut
    PROVE  FeedIInv'
  <1>1. Remember /\ address' = address /\ feed' = feed
    BY DEF BuildCut, captures
  <1>2. FeedTypeOK'
    BY <1>1, LedgerWritten DEF FeedIInv, FeedTypeOK, BuildCut, captures
  <1>3. OneSighting' /\ FreshAddress'
    BY <1>1, RememberKeepsSightings DEF FeedIInv
  <1>4. KnownSinceFirst' /\ FeedFollowsLedger' /\ NeverNewsAgain'
    BY <1>1, RememberKeepsFirst, RememberKeepsFeed, RememberNoNews DEF FeedIInv
  <1> QED
    BY <1>2, <1>3, <1>4 DEF FeedIInv

-----------------------------------------------------------------------------
(* What goes on around it: neither the ledger nor the feed is touched.     *)

LEMMA UntouchedKeeps ==
    ASSUME FeedIInv, FeedTypeOK',
           ledger' = ledger, feed' = feed, address' = address, first' = first
    PROVE  FeedIInv'
  <1>1. OneSighting' /\ FreshAddress'
    BY DEF FeedIInv, OneSighting, FreshAddress, LegacyKeys, KeysOf
  <1>2. KnownSinceFirst'
    BY DEF FeedIInv, KnownSinceFirst, LegacyKeys, Remembered
  <1>3. FeedFollowsLedger'
    BY DEF FeedIInv, FeedFollowsLedger, Sighting, SightedOn, Remembered
  <1>4. NeverNewsAgain'
    BY DEF FeedIInv, NeverNewsAgain
  <1> QED
    BY <1>1, <1>2, <1>3, <1>4 DEF FeedIInv

LEMMA NextDayKeeps ==
    ASSUME FeedAssumption, FeedIInv, NextDay
    PROVE  FeedIInv'
  <1>1. today \in Nat /\ today' = today + 1 /\ today' \in Day
    BY DEF FeedIInv, FeedTypeOK, NextDay, Day, FeedAssumption
  <1>2. {Never} \union 1 .. today \subseteq {Never} \union 1 .. today'
    BY <1>1
  <1>3. ledger \in [Key -> {Never} \union 1 .. today'] /\ first \in [Row -> {Never} \union 1 .. today']
        /\ built \in {Never} \union 1 .. today'
    BY <1>2 DEF FeedIInv, FeedTypeOK
  <1>4. FeedTypeOK'
    BY <1>1, <1>3 DEF FeedIInv, FeedTypeOK, NextDay, captures
  <1> QED
    BY <1>4, UntouchedKeeps DEF NextDay, captures

LEMMA CaptureKeeps ==
    ASSUME FeedAssumption, FeedIInv, NEW r \in Row, Capture(r)
    PROVE  FeedIInv'
  <1>1. FeedTypeOK'
    BY DEF FeedIInv, FeedTypeOK, Capture, World
  <1> QED
    BY <1>1, UntouchedKeeps DEF Capture, World

LEMMA ChangeIsCounted ==
    ASSUME FeedAssumption, FeedTypeOK, Change
    PROVE  changes' \in 0 .. MaxChanges
  BY DEF FeedAssumption, FeedTypeOK, Change

LEMMA WithdrawKeeps ==
    ASSUME FeedAssumption, FeedIInv, NEW r \in Row, Withdraw(r)
    PROVE  FeedIInv'
  <1>1. FeedTypeOK'
    BY ChangeIsCounted DEF FeedIInv, FeedTypeOK, Withdraw, Change, World
  <1> QED
    BY <1>1, UntouchedKeeps DEF Withdraw, Change, World

LEMMA CorrectKeeps ==
    ASSUME FeedAssumption, FeedIInv, NEW r \in Row, NEW p \in Platform, Correct(r, p)
    PROVE  FeedIInv'
  <1>1. FeedTypeOK'
    BY ChangeIsCounted DEF FeedIInv, FeedTypeOK, Correct, Change, World
  <1> QED
    BY <1>1, UntouchedKeeps DEF Correct, Change, World

LEMMA LengthenKeeps ==
    ASSUME FeedAssumption, FeedIInv, NEW w \in Work, Lengthen(w)
    PROVE  FeedIInv'
  <1>1. FeedTypeOK'
    BY ChangeIsCounted DEF FeedIInv, FeedTypeOK, Lengthen, Change, World, Spelling
  <1> QED
    BY <1>1, UntouchedKeeps DEF Lengthen, Change, World

LEMMA TurnKeeps ==
    ASSUME FeedAssumption, FeedIInv, NEW w \in Work, NEW s \in State, Turn(w, s)
    PROVE  FeedIInv'
  <1>1. FeedTypeOK'
    BY ChangeIsCounted DEF FeedIInv, FeedTypeOK, Turn, Change, World
  <1> QED
    BY <1>1, UntouchedKeeps DEF Turn, Change, World

\* The new address is one the ledger does not know; the names before it are.
LEMMA ReaddressKeeps ==
    ASSUME FeedAssumption, FeedIInv, NEW r \in Row, Readdress(r)
    PROVE  FeedIInv'
  <1>1. /\ address \in [Row -> 0 .. MaxAddress] /\ MaxAddress \in Nat
        /\ address[r] < MaxAddress /\ address' = [address EXCEPT ![r] = @ + 1]
        /\ first' = [first EXCEPT ![r] = IF address[r] = 0 THEN @ ELSE Never]
        /\ ledger' = ledger /\ feed' = feed /\ today' = today /\ built' = built
    BY DEF FeedAssumption, FeedIInv, FeedTypeOK, Readdress, Change, World
  <1>2. FeedTypeOK'
    BY <1>1, ChangeIsCounted DEF FeedIInv, FeedTypeOK, Readdress, Change
  <1>3. OneSighting'
    BY <1>1 DEF FeedIInv, OneSighting, LegacyKeys, KeysOf
  <1>4. FreshAddress'
    <2>1. \A q \in Row : address[q] <= address'[q] /\ address[q] \in Int /\ address'[q] \in Int
      BY <1>1
    <2> QED
      BY <1>1, <2>1 DEF FeedIInv, FreshAddress
  <1>5. KnownSinceFirst'
    <2>1. ASSUME NEW q \in Row, q # r
          PROVE  address'[q] = address[q] /\ first'[q] = first[q]
      BY <1>1, <2>1 DEF FeedIInv, FeedTypeOK
    <2>2. CASE address[r] = 0
      <3>1. first'[r] = first[r] /\ address'[r] = 1 /\ 1 \in 1 .. MaxAddress
        BY <1>1, <2>2 DEF FeedIInv, FeedTypeOK
      <3>2. ledger[<<"url", r, address'[r]>>] = Never
        BY <2>2, <3>1 DEF FeedIInv, FreshAddress
      <3>3. first[r] # Never => Remembered(r) # {}
        <4>1. KnownSinceFirst /\ ~(address[r] > 0)
          BY <2>2 DEF FeedIInv
        <4> QED
          BY <4>1 DEF KnownSinceFirst
      <3>4. Never <= first[r]
        BY RememberedDays DEF FeedIInv, FeedTypeOK, Never
      <3>5. Remembered(r)' = Remembered(r)
        BY <1>1 DEF Remembered
      <3>6. \A q \in Row : q # r => Remembered(q)' = Remembered(q)
        BY <1>1 DEF Remembered
      <3> QED
        BY <1>1, <2>1, <3>1, <3>2, <3>3, <3>4, <3>5, <3>6
        DEF FeedIInv, KnownSinceFirst, LegacyKeys
    <2>3. CASE address[r] # 0
      <3>1. first'[r] = Never
        BY <1>1, <2>3 DEF FeedIInv, FeedTypeOK
      <3> QED
        BY <1>1, <2>1, <3>1 DEF FeedIInv, KnownSinceFirst, LegacyKeys, Remembered
    <2> QED
      BY <2>2, <2>3
  <1>6. FeedFollowsLedger'
    <2>1. \A q \in Row : address[q] <= address'[q] /\ address[q] \in Int /\ address'[q] \in Int
      BY <1>1
    <2>2. \A q \in Row : feed[q] # NoRow => feed[q].address \in Int
      BY DEF FeedIInv, FeedTypeOK, Told
    <2> QED
      BY <1>1, <2>1, <2>2 DEF FeedIInv, FeedFollowsLedger, Sighting, SightedOn, Remembered
  <1>7. NeverNewsAgain'
    BY <1>1 DEF FeedIInv, NeverNewsAgain, FeedTypeOK
  <1> QED
    BY <1>2, <1>3, <1>4, <1>5, <1>6, <1>7 DEF FeedIInv

-----------------------------------------------------------------------------
(* The invariant of the specification.                                     *)

LEMMA InitIInv == Init => FeedIInv
  <1>. SUFFICES ASSUME Init PROVE FeedIInv
    OBVIOUS
  <1>1. FeedTypeOK
    BY FeedAssumption DEF FeedAssumption, Init, Start, FeedTypeOK, Day, Never, State, Spelling
  <1>2. OneSighting
    BY KeysAreKeys DEF Init, Start, OneSighting, KeysOf
  <1>3. FreshAddress
    BY KeysAreKeys DEF Init, Start, FreshAddress
  <1>4. KnownSinceFirst /\ FeedFollowsLedger /\ NeverNewsAgain
    BY DEF Init, Start, KnownSinceFirst, FeedFollowsLedger, NeverNewsAgain
  <1> QED
    BY <1>1, <1>2, <1>3, <1>4 DEF FeedIInv

LEMMA StepIInv == FeedIInv /\ [Next]_vars => FeedIInv'
  <1>1. FeedIInv /\ UNCHANGED vars => FeedIInv'
    <2>. SUFFICES ASSUME FeedIInv, UNCHANGED vars PROVE FeedIInv'
      OBVIOUS
    <2>1. FeedTypeOK'
      BY DEF FeedIInv, FeedTypeOK, vars, captures
    <2> QED
      BY <2>1, UntouchedKeeps DEF vars, captures
  <1> QED
    BY <1>1, FeedAssumption, BuildKeeps, BuildCutKeeps, NextDayKeeps, CaptureKeeps, WithdrawKeeps,
       CorrectKeeps, LengthenKeeps, TurnKeeps, ReaddressKeeps
    DEF Next, Rederive

LEMMA FeedInvariant == Spec => []FeedIInv
  BY InitIInv, StepIInv, PTL DEF Spec

(* The ledger answers with days that have been, and the feed files no row  *)
(* under a day after the build it was made by.                             *)
THEOREM TypeCorrectness == Spec => []FeedTypeOK
  BY FeedInvariant, PTL DEF FeedIInv

(* Whatever happens to the names, the address and the page of a row, one   *)
(* that is filed by its find or whose date is a guess is never filed after *)
(* the day a build first had it.                                           *)
THEOREM NewsOnce == Spec => []NeverNewsAgain
  BY FeedInvariant, PTL DEF FeedIInv

-----------------------------------------------------------------------------
(* The months.                                                             *)

\* What the last build went by is what the next one finds.
LEMMA SeenAsSighted ==
    ASSUME FeedAssumption, FeedIInv, NEW r \in Row, NEW d \in Sighting(r, feed[r].address),
           d # Never, feed[r].address \in {0, address[r]}
    PROVE  Seen(r) = d
  <1>1. CASE feed[r].address = 0
    <2>1. PICK k \in LegacyKeys(r) : d = ledger[k]
      BY <1>1, RememberedDays DEF Sighting, FeedIInv
    <2> QED
      BY <2>1, SeenAgain DEF FeedIInv
  <1>2. CASE feed[r].address # 0
    <2>1. KeyOf(r) = <<"url", r, address[r]>> /\ d = ledger[KeyOf(r)]
      BY <1>2, KeyOfRow DEF Sighting, FeedIInv
    <2> QED
      BY <2>1, SeenFacts DEF FeedIInv
  <1> QED
    BY <1>1, <1>2

LEMMA FiledAlike ==
    ASSUME FeedAssumption, FeedIInv, Build, NEW r \in Row, feed[r] # NoRow, feed'[r] # NoRow,
           feed[r].stated = feed'[r].stated, feed[r].address \in {0, feed'[r].address},
           feed[r].old = feed'[r].old, feed[r].accompanied = feed'[r].accompanied,
           feed[r].ended = feed'[r].ended
    PROVE  feed'[r].filed = feed[r].filed /\ feed'[r].filed <= today /\ feed'[r].filed \in Nat
  <1>1. PICK d \in Sighting(r, feed[r].address) : d # Never /\ SightedOn(r, d)
    BY DEF FeedIInv, FeedFollowsLedger
  <1>2. FeedTypeOK
    BY DEF FeedIInv
  <1>3. r \in Kept
    BY <1>2, RowTold
  <1>4. Seen(r) = d
    BY <1>1, <1>2, <1>3, SeenAsSighted, RowTold
  <1>5. feed'[r].pub = feed[r].pub
    BY <1>1, <1>2, <1>3, <1>4, RowTold DEF SightedOn, Pub
  <1>6. feed'[r].filed = feed[r].filed
    BY <1>1, <1>2, <1>3, <1>4, <1>5, RowTold DEF SightedOn, Filed, Late
  <1>7. feed'[r].filed <= today /\ feed'[r].filed \in Nat
    BY <1>2, <1>3, RowTold DEF Told, Day
  <1> QED
    BY <1>6, <1>7

(* A row stays in the file of its month, but for a reason of its own: the  *)
(* page, the address, the age or the work's other news and end changed.    *)
THEOREM MonthsKeep == Spec => ShownStaysInItsMonth
  <1> DEFINE Stays ==
        \A r \in Row :
            /\ feed[r] # NoRow /\ Shown(r) /\ feed'[r] # NoRow
            /\ Month(feed[r].filed) >= ArchiveFrom
            /\ feed[r].stated = feed'[r].stated
            /\ feed[r].address \in {0, feed'[r].address}
            /\ feed[r].old = feed'[r].old
            /\ feed[r].accompanied = feed'[r].accompanied
            /\ feed[r].ended = feed'[r].ended
            => /\ Month(feed'[r].filed) = Month(feed[r].filed)
               /\ r \in MonthFile(Month(feed[r].filed))'
  <1>1. FeedIInv /\ Build => Stays
    <2>. SUFFICES ASSUME FeedIInv, Build, NEW r \in Row, feed[r] # NoRow, feed'[r] # NoRow,
                         Month(feed[r].filed) >= ArchiveFrom,
                         feed[r].stated = feed'[r].stated,
                         feed[r].address \in {0, feed'[r].address},
                         feed[r].old = feed'[r].old,
                         feed[r].accompanied = feed'[r].accompanied,
                         feed[r].ended = feed'[r].ended
                  PROVE  /\ Month(feed'[r].filed) = Month(feed[r].filed)
                         /\ r \in MonthFile(Month(feed[r].filed))'
      OBVIOUS
    <2>1. feed'[r].filed = feed[r].filed /\ feed'[r].filed <= today /\ feed'[r].filed \in Nat
      BY FeedAssumption, FiledAlike
    <2>2. built' = today /\ today \in Nat
      BY DEF Build, FeedIInv, FeedTypeOK, Day
    <2>3. Month(feed'[r].filed) <= Month(built')
      BY <2>1, <2>2, FeedAssumption, MonthsAreOrdered
    <2> QED
      BY <2>1, <2>3 DEF MonthFile, Archived, Month
  <1>2. FeedIInv /\ [Next]_vars => Build \/ feed' = feed
    BY DEF Next, Rederive, BuildCut, NextDay, Capture, Withdraw, Correct, Lengthen, Readdress, Turn,
       Change, World, vars
  <1>3. FeedIInv /\ [Next]_vars => [Stays]_feed
    BY <1>1, <1>2
  <1> QED
    BY <1>3, FeedInvariant, PTL DEF Spec, ShownStaysInItsMonth
=============================================================================
