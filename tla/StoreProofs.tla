----------------------------- MODULE StoreProofs -----------------------------
(***************************************************************************)
(* What a build makes of the relational store, for any captures, and       *)
(* whatever numbers the rows have in the scratch and in the file.          *)
(***************************************************************************)
EXTENDS Store, FiniteSetTheorems, NaturalsInduction, TLAPS

-----------------------------------------------------------------------------
(* Numbers.                                                                *)

LEMMA Least ==
    ASSUME NEW T \in SUBSET Nat, T # {}
    PROVE  \E m \in T : \A k \in T : m <= k
  <1> DEFINE R == OpToRel(<, Nat)
  <1>1. IsWellFoundedOn(R, Nat)
    BY NatLessThanWellFounded
  <1>2. \A x, y \in Nat : y < x => <<y, x>> \in R
    BY DEF OpToRel
  <1> HIDE DEF R
  <1>3. PICK x \in T : \A y \in T : ~ (<<y, x>> \in R)
    BY <1>1, WFMin, Zenon
  <1>4. \A y \in T : ~(y < x)
    BY <1>2, <1>3
  <1>5. \A y \in T : x <= y
    BY <1>4
  <1> QED BY <1>5

LEMMA Highest ==
    ASSUME NEW S \in SUBSET Nat, S # {}, NEW b \in Nat, \A x \in S : x <= b
    PROVE  Max(S) \in S /\ \A x \in S : x <= Max(S)
  <1> DEFINE T == {m \in Nat : \A x \in S : x <= m}
  <1>1. PICK m \in T : \A k \in T : m <= k
    <2>1. b \in T
      OBVIOUS
    <2> QED BY <2>1, Least
  <1>2. m \in S
    <2> SUFFICES ASSUME m \notin S  PROVE FALSE
      OBVIOUS
    <2>1. m \in Nat /\ \A x \in S : x <= m /\ x # m /\ x \in Nat
      BY <1>1
    <2>2. m # 0 /\ m - 1 \in Nat
      <3>1. PICK x : x \in S
        OBVIOUS
      <3> QED BY <2>1, <3>1
    <2>3. \A x \in S : x <= m - 1
      BY <2>1, <2>2
    <2>4. m <= m - 1
      BY <1>1, <2>2, <2>3
    <2> QED BY <2>1, <2>4
  <1>3. \A x \in S : x <= m
    BY <1>1
  <1>4. \E x \in S : \A y \in S : x >= y
    BY <1>1, <1>2, <1>3
  <1>5. Max(S) \in S /\ \A y \in S : Max(S) >= y
    BY <1>4 DEF Max
  <1> QED BY <1>5

\* What the inserts hand out: numbers no row has, to each row one of its own.
LEMMA NumbersAreFresh ==
    ASSUME NEW table, \A t \in table : t.id \in Number /\ t.id <= MaxId,
           NEW missing, IsFiniteSet(missing), \A r \in missing : r.id \in Number,
           \A r, s \in missing : r.id = s.id => r = s
    PROVE  /\ DOMAIN Numbers(table, missing) = missing
           /\ \A r \in missing : Numbers(table, missing)[r] \in Number
           /\ \A r \in missing, t \in table : Numbers(table, missing)[r] # t.id
           /\ \A r, s \in missing : Numbers(table, missing)[r] = Numbers(table, missing)[s] => r = s
  <1> DEFINE ids == {0} \union {r.id : r \in table}
             highest == Max(ids)
             Below(r) == {s \in missing : s.id <= r.id}
  <1>1. highest \in Nat /\ \A t \in table : t.id <= highest
    <2>1. ids \in SUBSET Nat /\ ids # {} /\ MaxId \in Nat
      BY StoreAssumption DEF Number
    <2>2. \A x \in ids : x <= MaxId
      BY <2>1
    <2> HIDE DEF ids
    <2>3. highest \in ids /\ \A x \in ids : x <= highest
      BY <2>1, <2>2, Highest
    <2> QED BY <2>1, <2>3 DEF ids
  <1>2. \A r \in missing : Numbers(table, missing)[r] = highest + Cardinality(Below(r))
    BY DEF Numbers
  <1>3. DOMAIN Numbers(table, missing) = missing
    BY DEF Numbers
  <1> HIDE DEF highest
  <1>4. ASSUME NEW r \in missing
        PROVE  IsFiniteSet(Below(r)) /\ Cardinality(Below(r)) \in Number
    <2>1. Below(r) \in SUBSET missing /\ r \in Below(r)
      BY DEF Number
    <2> HIDE DEF Below
    <2>2. IsFiniteSet(Below(r))
      BY <2>1, FS_Subset
    <2>3. Cardinality(Below(r)) \in Nat /\ Cardinality(Below(r)) # 0
      BY <2>1, <2>2, FS_CardinalityType, FS_EmptySet
    <2> QED BY <2>2, <2>3 DEF Number
  <1>5. ASSUME NEW r \in missing, NEW s \in missing, r.id < s.id
        PROVE  Cardinality(Below(r)) # Cardinality(Below(s))
    <2>1. Below(r) \in SUBSET Below(s) /\ s \in Below(s) /\ s \notin Below(r)
      BY <1>5 DEF Number
    <2>2. IsFiniteSet(Below(s))
      BY <1>4
    <2> HIDE DEF Below
    <2> QED BY <2>1, <2>2, FS_Subset
  <1> HIDE DEF Below
  <1>6. ASSUME NEW r \in missing, NEW s \in missing,
               Numbers(table, missing)[r] = Numbers(table, missing)[s]
        PROVE  r = s
    <2>1. Cardinality(Below(r)) = Cardinality(Below(s))
      BY <1>1, <1>2, <1>4, <1>6 DEF Number
    <2>2. r.id \in Nat /\ s.id \in Nat
      BY DEF Number
    <2>3. ~(r.id < s.id) /\ ~(s.id < r.id)
      BY <1>5, <2>1
    <2> QED BY <2>2, <2>3
  <1>7. \A r \in missing : Numbers(table, missing)[r] \in Number
    BY <1>1, <1>2, <1>4 DEF Number
  <1>8. \A r \in missing, t \in table : Numbers(table, missing)[r] # t.id
    BY <1>1, <1>2, <1>4 DEF Number
  <1> QED BY <1>3, <1>6, <1>7, <1>8

-----------------------------------------------------------------------------
(* What a keyed store says, without the choice of a row.                   *)

IsAlias(db, m, n) ==
    \E s, t \in db.surface : s.name = m /\ t.name = n /\ s.alias = t.id

IsClaim(db, n, v) ==
    \E k \in db.claim, s \in db.surface : k.surface = s.id /\ s.name = n /\ k.value = v

IsCited(db, n, v) ==
    \E k \in db.claim, s \in db.surface :
        k.surface = s.id /\ s.name = n /\ k.value = v /\ k.id \in db.cite

Reads(db, c) ==
    /\ c.house = db.house
    /\ c.names = {s.name : s \in db.surface}
    /\ \A m, n \in Name : <<m, n>> \in c.alias <=> IsAlias(db, m, n)
    /\ \A n \in Name, v \in Value : <<n, v>> \in c.claims <=> IsClaim(db, n, v)
    /\ \A n \in Name, v \in Value : <<n, v>> \in c.cited <=> IsCited(db, n, v)

LEMMA NameFound ==
    ASSUME NEW db, Keyed(db), NEW s \in db.surface
    PROVE  NameAt(db, s.id) = s.name
  <1>1. \E t \in db.surface : t.id = s.id
    OBVIOUS
  <1>2. \A t \in db.surface : t.id = s.id => t = s
    BY DEF Keyed
  <1> QED BY <1>1, <1>2 DEF NameAt

LEMMA SaidReads ==
    ASSUME NEW db \in Tables, Keyed(db)
    PROVE  Said(db) \in Statement /\ Reads(db, Said(db))
  <1>0. /\ db.house \subseteq House \X Label
        /\ \A s \in db.surface : s.id \in Number /\ s.name \in Name /\ s.alias \in Nat
        /\ \A k \in db.claim : k.id \in Number /\ k.surface \in Number /\ k.value \in Value
    BY DEF Tables, Surface, Claim
  <1>1. \A s \in db.surface : NameAt(db, s.id) = s.name
    BY NameFound
  <1>2. \A s \in db.surface : s.alias # 0 =>
           \E t \in db.surface : s.alias = t.id /\ NameAt(db, s.alias) = t.name
    BY <1>1 DEF Keyed
  <1>3. \A k \in db.claim :
           \E s \in db.surface : k.surface = s.id /\ TextOf(db, k) = <<s.name, k.value>>
    BY <1>1 DEF Keyed, TextOf
  <1>4. \A s, t \in db.surface : s.alias = t.id => s.alias # 0
    BY <1>0 DEF Number
  <1>5. \A k \in db.claim, s \in db.surface : k.surface = s.id => TextOf(db, k) = <<s.name, k.value>>
    BY <1>1 DEF TextOf
  <1>6. \A m, n \in Name : <<m, n>> \in Said(db).alias <=> IsAlias(db, m, n)
    <2>1. Said(db).alias = {<<s.name, NameAt(db, s.alias)>> : s \in {t \in db.surface : t.alias # 0}}
      BY DEF Said
    <2> QED BY <1>0, <1>1, <1>2, <1>4, <2>1 DEF IsAlias
  <1>7. \A n \in Name, v \in Value : <<n, v>> \in Said(db).claims <=> IsClaim(db, n, v)
    <2>1. Said(db).claims = {TextOf(db, c) : c \in db.claim}
      BY DEF Said
    <2> QED BY <1>0, <1>3, <1>5, <2>1 DEF IsClaim
  <1>8. \A n \in Name, v \in Value : <<n, v>> \in Said(db).cited <=> IsCited(db, n, v)
    <2>1. Said(db).cited = {TextOf(db, c) : c \in {d \in db.claim : d.id \in db.cite}}
      BY DEF Said
    <2> QED BY <1>0, <1>3, <1>5, <2>1 DEF IsCited
  <1>9. Said(db) \in Statement
    <2>1. {s.name : s \in db.surface} \subseteq Name
      BY <1>0
    <2>2. {<<s.name, NameAt(db, s.alias)>> : s \in {t \in db.surface : t.alias # 0}}
            \subseteq Name \X Name
      BY <1>0, <1>2
    <2>3. \A k \in db.claim : TextOf(db, k) \in Name \X Value
      BY <1>0, <1>3
    <2> QED BY <1>0, <2>1, <2>2, <2>3 DEF Said, Statement
  <1> QED BY <1>6, <1>7, <1>8, <1>9 DEF Reads, Said

LEMMA ReadsOnce ==
    ASSUME NEW db, NEW c \in Statement, NEW d \in Statement, Reads(db, c), Reads(db, d)
    PROVE  c = d
  <1>1. c.house = d.house /\ c.names = d.names
    BY DEF Reads
  <1>2. c.alias = d.alias
    <2>1. c.alias \subseteq Name \X Name /\ d.alias \subseteq Name \X Name
      BY DEF Statement
    <2>2. \A m, n \in Name : <<m, n>> \in c.alias <=> <<m, n>> \in d.alias
      BY DEF Reads
    <2> QED BY <2>1, <2>2
  <1>3. c.claims = d.claims
    <2>1. c.claims \subseteq Name \X Value /\ d.claims \subseteq Name \X Value
      BY DEF Statement
    <2>2. \A n \in Name, v \in Value : <<n, v>> \in c.claims <=> <<n, v>> \in d.claims
      BY DEF Reads
    <2> QED BY <2>1, <2>2
  <1>4. c.cited = d.cited
    <2>1. c.cited \subseteq Name \X Value /\ d.cited \subseteq Name \X Value
      BY DEF Statement
    <2>2. \A n \in Name, v \in Value : <<n, v>> \in c.cited <=> <<n, v>> \in d.cited
      BY DEF Reads
    <2> QED BY <2>1, <2>2
  <1> QED BY <1>1, <1>2, <1>3, <1>4 DEF Statement

LEMMA ReadsIsSaid ==
    ASSUME NEW db \in Tables, Keyed(db), NEW c \in Statement
    PROVE  Reads(db, c) <=> Said(db) = c
  BY SaidReads, ReadsOnce, Zenon

\* Two stores that say the same of the same numbers are the same store.
LEMMA SameStore ==
    ASSUME NEW db \in Tables, NEW f \in Tables, Keyed(db), Keyed(f), Said(db) = Said(f),
           db.quarantine = f.quarantine,
           \A t \in db.surface, u \in f.surface : t.id = u.id <=> t.name = u.name,
           \A k \in db.claim, e \in f.claim :
               k.surface = e.surface /\ k.value = e.value => k.id = e.id
    PROVE  db = f
  <1> DEFINE c == Said(db)
  <1>1. c \in Statement /\ Reads(db, c) /\ Reads(f, c)
    BY SaidReads
  <1> HIDE DEF c
  <1>0. \A d \in {db, f} :
        /\ \A s \in d.surface : s.id \in Number /\ s.name \in Name /\ s.alias \in Nat
        /\ \A k \in d.claim : k.id \in Number /\ k.surface \in Number /\ k.value \in Value
    BY DEF Tables, Surface, Claim
  <1>2. db.house = f.house
    BY <1>1 DEF Reads
  <1>3. /\ \A t \in db.surface : \E u \in f.surface : u.name = t.name
        /\ \A u \in f.surface : \E t \in db.surface : u.name = t.name
    BY <1>1 DEF Reads
  <1>9. \A m, n \in Name : IsAlias(db, m, n) <=> IsAlias(f, m, n)
    BY <1>1 DEF Reads
  <1>4. \A t \in db.surface, u \in f.surface : t.name = u.name => t.alias = u.alias
    <2> SUFFICES ASSUME NEW t \in db.surface, NEW u \in f.surface, t.name = u.name
                 PROVE  t.alias = u.alias
      OBVIOUS
    <2>1. CASE t.alias # 0
      <3>1. PICK w \in db.surface : t.alias = w.id
        BY <2>1 DEF Keyed
      <3>2. IsAlias(f, t.name, w.name)
        <4>1. IsAlias(db, t.name, w.name)
          BY <3>1 DEF IsAlias
        <4>2. t.name \in Name /\ w.name \in Name
          BY <1>0
        <4> QED BY <1>9, <4>1, <4>2
      <3>3. PICK x, y \in f.surface : x.name = t.name /\ y.name = w.name /\ x.alias = y.id
        BY <3>2 DEF IsAlias
      <3>4. x = u /\ y.id = w.id
        BY <3>3 DEF Keyed
      <3> QED BY <3>1, <3>3, <3>4
    <2>2. CASE u.alias # 0
      <3>1. PICK w \in f.surface : u.alias = w.id
        BY <2>2 DEF Keyed
      <3>2. IsAlias(db, u.name, w.name)
        <4>1. IsAlias(f, u.name, w.name)
          BY <3>1 DEF IsAlias
        <4>2. u.name \in Name /\ w.name \in Name
          BY <1>0
        <4> QED BY <1>9, <4>1, <4>2
      <3>3. PICK x, y \in db.surface : x.name = u.name /\ y.name = w.name /\ x.alias = y.id
        BY <3>2 DEF IsAlias
      <3>4. x = t /\ y.id = w.id
        BY <3>3 DEF Keyed
      <3> QED BY <3>1, <3>3, <3>4
    <2> QED BY <2>1, <2>2
  <1>5. db.surface = f.surface
    <2>1. \A t \in db.surface, u \in f.surface : t.name = u.name => t = u
      <3>1. \A t \in db.surface, u \in f.surface : t.name = u.name => t.id = u.id
        OBVIOUS
      <3>2. db.surface \subseteq Surface /\ f.surface \subseteq Surface
        BY DEF Tables
      <3> QED BY <1>4, <3>1, <3>2 DEF Surface
    <2>2. \A t \in db.surface : t \in f.surface
      BY <1>3, <2>1
    <2>3. \A u \in f.surface : u \in db.surface
      BY <1>3, <2>1
    <2> QED BY <2>2, <2>3
  <1>6. /\ \A k \in db.claim : \E e \in f.claim : k.surface = e.surface /\ k.value = e.value
        /\ \A e \in f.claim : \E k \in db.claim : k.surface = e.surface /\ k.value = e.value
    <2>1. \A n \in Name, v \in Value : IsClaim(db, n, v) <=> IsClaim(f, n, v)
      BY <1>1 DEF Reads
    <2>2. ASSUME NEW k \in db.claim
          PROVE  \E e \in f.claim : k.surface = e.surface /\ k.value = e.value
      <3>1. PICK s \in db.surface : s.id = k.surface
        BY DEF Keyed
      <3>2. IsClaim(f, s.name, k.value)
        BY <1>0, <2>1, <3>1 DEF IsClaim
      <3> QED BY <1>5, <3>1, <3>2 DEF IsClaim, Keyed
    <2>3. ASSUME NEW e \in f.claim
          PROVE  \E k \in db.claim : k.surface = e.surface /\ k.value = e.value
      <3>1. PICK s \in f.surface : s.id = e.surface
        BY DEF Keyed
      <3>2. IsClaim(db, s.name, e.value)
        BY <1>0, <2>1, <3>1 DEF IsClaim
      <3> QED BY <1>5, <3>1, <3>2 DEF IsClaim, Keyed
    <2> QED BY <2>2, <2>3
  <1>7. db.claim = f.claim
    <2>1. db.claim \subseteq Claim /\ f.claim \subseteq Claim
      BY DEF Tables
    <2>2. \A k \in db.claim, e \in f.claim :
             k.surface = e.surface /\ k.value = e.value => k = e
      BY <2>1 DEF Claim
    <2>3. \A k \in db.claim : k \in f.claim
      BY <1>6, <2>2
    <2>4. \A e \in f.claim : e \in db.claim
      BY <1>6, <2>2
    <2> QED BY <2>3, <2>4
  <1>8. db.cite = f.cite
    <2>1. \A n \in Name, v \in Value : IsCited(db, n, v) <=> IsCited(f, n, v)
      BY <1>1 DEF Reads
    <2>2. \A k \in db.claim : \E s \in db.surface : s.id = k.surface
      BY DEF Keyed
    <2>3. \A k \in db.claim : k.id \in db.cite <=> k.id \in f.cite
      <3> SUFFICES ASSUME NEW k \in db.claim  PROVE k.id \in db.cite <=> k.id \in f.cite
        OBVIOUS
      <3>1. PICK s \in db.surface : s.id = k.surface
        BY <2>2
      <3>2. \A j \in db.claim, t \in db.surface :
               j.surface = t.id /\ t.name = s.name /\ j.value = k.value => j.id = k.id
        BY <3>1 DEF Keyed
      <3>3. IsCited(db, s.name, k.value) <=> k.id \in db.cite
        BY <3>1, <3>2 DEF IsCited
      <3>4. IsCited(f, s.name, k.value) <=> k.id \in f.cite
        BY <1>5, <1>7, <3>1, <3>2 DEF IsCited
      <3> QED BY <1>0, <2>1, <3>3, <3>4
    <2>4. /\ \A i \in db.cite : \E k \in db.claim : k.id = i
          /\ \A i \in f.cite : \E k \in db.claim : k.id = i
      BY <1>7 DEF Keyed
    <2>5. \A i \in db.cite : i \in f.cite
      BY <2>3, <2>4
    <2>6. \A i \in f.cite : i \in db.cite
      BY <2>3, <2>4
    <2> QED BY <2>5, <2>6
  <1> QED BY <1>2, <1>5, <1>7, <1>8 DEF Tables

-----------------------------------------------------------------------------
(* The scratch.                                                            *)

\* A set with no more members than a finite one is finite.
LEMMA FiniteImage ==
    ASSUME NEW S, IsFiniteSet(S), NEW T, NEW f \in [S -> T], \A t \in T : \E s \in S : f[s] = t
    PROVE  IsFiniteSet(T)
  <1>1. f \in Surjection(S, T)
    BY DEF Surjection
  <1> QED BY <1>1, FS_Surjection

LEMMA NumberingIs ==
    ASSUME NEW S, IsFiniteSet(S), NEW number \in Numberings(S)
    PROVE  /\ \A x \in S : number[x] \in Number
           /\ \A x, y \in S : number[x] = number[y] => x = y
  <1>1. Cardinality(S) \in Nat
    BY FS_CardinalityType
  <1>2. number \in [S -> 1 .. Cardinality(S)]
    BY DEF Numberings, Bijection, Injection
  <1>3. \A x, y \in S : number[x] = number[y] => x = y
    BY <1>2 DEF Numberings, Bijection, Injection, IsInjective
  <1>4. 1 .. Cardinality(S) \subseteq Number
    BY <1>1 DEF Number
  <1> QED BY <1>2, <1>3, <1>4

\* It is keyed, and says what the capture says.
LEMMA ScratchSays ==
    ASSUME NEW c \in Capture, NEW refused \in SUBSET Row,
           NEW number \in Numberings(c.names), NEW claimNumber \in Numberings(c.claims),
           NEW s, s = Scratch(c, number, claimNumber, refused)
    PROVE  /\ s \in Tables /\ Keyed(s) /\ Reads(s, c)
           /\ IsFiniteSet(s.surface) /\ IsFiniteSet(s.claim)
  <1> DEFINE To(n) == {a[2] : a \in {b \in c.alias : b[1] = n}}
             AliasOf(n) == IF To(n) = {} THEN 0 ELSE number[CHOOSE t \in To(n) : TRUE]
             surfaceOf(n) == [id |-> number[n], name |-> n, alias |-> AliasOf(n)]
             claimOf(k) == [id |-> claimNumber[k], surface |-> number[k[1]], value |-> k[2]]
  <1>0. c \in Statement /\ Sound(c)
    BY StoreAssumption
  <1>1. /\ c.names \subseteq Name /\ c.claims \subseteq Name \X Value /\ c.cited \subseteq c.claims
        /\ c.alias \subseteq Name \X Name /\ c.house \subseteq House \X Label
    BY <1>0 DEF Statement, Sound
  <1>2. IsFiniteSet(c.names) /\ IsFiniteSet(c.claims)
    <2>1. IsFiniteSet(Name \X Value)
      BY StoreAssumption, FS_Product
    <2> QED BY <1>1, <2>1, StoreAssumption, FS_Subset
  <1>3. /\ \A n \in c.names : number[n] \in Number
        /\ \A m, n \in c.names : number[m] = number[n] => m = n
    BY <1>2, NumberingIs
  <1>4. /\ \A k \in c.claims : claimNumber[k] \in Number
        /\ \A k, l \in c.claims : claimNumber[k] = claimNumber[l] => k = l
    BY <1>2, NumberingIs
  <1>5. /\ s.house = c.house /\ s.quarantine = refused
        /\ s.surface = {surfaceOf(n) : n \in c.names}
        /\ s.claim = {claimOf(k) : k \in c.claims}
        /\ s.cite = {claimNumber[k] : k \in c.cited}
    BY DEF Scratch
  <1>6. s = [house |-> s.house, surface |-> s.surface, claim |-> s.claim, cite |-> s.cite,
             quarantine |-> s.quarantine]
    BY DEF Scratch
  <1>7. ASSUME NEW n \in c.names
        PROVE  \/ AliasOf(n) = 0 /\ \A m : <<n, m>> \notin c.alias
               \/ \E m \in c.names : AliasOf(n) = number[m] /\ <<n, m>> \in c.alias
    <2>1. CASE To(n) = {}
      <3>1. AliasOf(n) = 0
        BY <2>1
      <3>2. \A m : <<n, m>> \notin c.alias
        BY <2>1
      <3> QED BY <3>1, <3>2
    <2>2. CASE To(n) # {}
      <3> DEFINE m == CHOOSE t \in To(n) : TRUE
      <3>1. m \in To(n)
        BY <2>2
      <3>2. AliasOf(n) = number[m]
        BY <2>2
      <3> HIDE DEF m
      <3>3. PICK a \in c.alias : a[1] = n /\ m = a[2]
        BY <3>1
      <3>4. a = <<n, m>>
        BY <1>1, <3>3
      <3>5. m \in c.names
        BY <1>0, <3>3 DEF Sound
      <3> QED BY <3>2, <3>4, <3>5
    <2> QED BY <2>1, <2>2
  <1> HIDE DEF To, AliasOf
  <1>8. \A n \in c.names : AliasOf(n) \in Nat
    <2> SUFFICES ASSUME NEW n \in c.names  PROVE AliasOf(n) \in Nat
      OBVIOUS
    <2>1. CASE AliasOf(n) = 0
      BY <2>1
    <2>2. CASE \E m \in c.names : AliasOf(n) = number[m]
      BY <1>3, <2>2 DEF Number
    <2> QED BY <1>7, <2>1, <2>2
  <1>9. \A t \in s.surface : /\ t.name \in c.names /\ t.id = number[t.name]
                             /\ t.alias = AliasOf(t.name) /\ t = surfaceOf(t.name)
    BY <1>5
  <1>10. \A n \in c.names : \E t \in s.surface : t.name = n /\ t.id = number[n] /\ t.alias = AliasOf(n)
    <2> SUFFICES ASSUME NEW n \in c.names
                 PROVE  \E t \in s.surface : t.name = n /\ t.id = number[n] /\ t.alias = AliasOf(n)
      OBVIOUS
    <2>1. surfaceOf(n) \in s.surface
      BY <1>5
    <2>2. surfaceOf(n).name = n /\ surfaceOf(n).id = number[n] /\ surfaceOf(n).alias = AliasOf(n)
      OBVIOUS
    <2> HIDE DEF surfaceOf
    <2> QED BY <2>1, <2>2
  <1>11. \A k \in s.claim : \E l \in c.claims :
            k = claimOf(l) /\ k.id = claimNumber[l] /\ k.surface = number[l[1]] /\ k.value = l[2]
    BY <1>5
  <1>12. \A l \in c.claims : \E k \in s.claim :
            k.id = claimNumber[l] /\ k.surface = number[l[1]] /\ k.value = l[2]
    <2> SUFFICES ASSUME NEW l \in c.claims
                 PROVE  \E k \in s.claim : k.id = claimNumber[l]
                            /\ k.surface = number[l[1]] /\ k.value = l[2]
      OBVIOUS
    <2>1. claimOf(l) \in s.claim
      BY <1>5
    <2>2. claimOf(l).id = claimNumber[l] /\ claimOf(l).surface = number[l[1]]
            /\ claimOf(l).value = l[2]
      OBVIOUS
    <2> HIDE DEF claimOf
    <2> QED BY <2>1, <2>2
  <1>13. \A l \in c.claims : l = <<l[1], l[2]>> /\ l[1] \in c.names /\ l[2] \in Value
    BY <1>0, <1>1 DEF Sound
  <1>14. s \in Tables
    <2>1. s.surface \subseteq Surface
      BY <1>1, <1>3, <1>5, <1>8 DEF Surface
    <2>2. s.claim \subseteq Claim
      BY <1>3, <1>4, <1>5, <1>13 DEF Claim
    <2>3. s.cite \subseteq Number
      BY <1>1, <1>4, <1>5
    <2> QED BY <1>1, <1>5, <1>6, <2>1, <2>2, <2>3 DEF Tables
  <1>15. \A m, n \in Name : <<m, n>> \in c.alias <=> IsAlias(s, m, n)
    <2>1. ASSUME NEW m \in Name, NEW n \in Name, <<m, n>> \in c.alias
          PROVE  IsAlias(s, m, n)
      <3>1. m \in c.names /\ n \in c.names
        BY <1>0, <2>1 DEF Sound
      <3>2. PICK o \in c.names : AliasOf(m) = number[o] /\ <<m, o>> \in c.alias
        BY <1>7, <2>1, <3>1
      <3>3. o = n
        <4>1. \A b \in c.alias : b[1] = m => b = <<m, n>>
          BY <1>0, <2>1 DEF Sound
        <4> QED BY <3>2, <4>1
      <3> QED BY <1>10, <3>1, <3>2, <3>3 DEF IsAlias
    <2>2. ASSUME NEW m \in Name, NEW n \in Name, IsAlias(s, m, n)
          PROVE  <<m, n>> \in c.alias
      <3>1. PICK t \in s.surface, u \in s.surface : t.name = m /\ u.name = n /\ t.alias = u.id
        BY <2>2 DEF IsAlias
      <3>2. m \in c.names /\ n \in c.names /\ AliasOf(m) = number[n]
        BY <1>9, <3>1
      <3>3. AliasOf(m) # 0
        BY <1>3, <3>2 DEF Number
      <3>4. PICK o \in c.names : AliasOf(m) = number[o] /\ <<m, o>> \in c.alias
        BY <1>7, <3>2, <3>3
      <3>5. o = n
        BY <1>3, <3>2, <3>4
      <3> QED BY <3>4, <3>5
    <2> QED BY <2>1, <2>2
  <1>16. ASSUME NEW n \in Name, NEW v \in Value,
                NEW k \in s.claim, NEW t \in s.surface, k.surface = t.id, t.name = n, k.value = v
         PROVE  <<n, v>> \in c.claims /\ k.id = claimNumber[<<n, v>>]
    <2>1. PICK l \in c.claims : k.id = claimNumber[l] /\ k.surface = number[l[1]] /\ k.value = l[2]
      BY <1>11
    <2>2. l[1] = n /\ l[2] = v
      BY <1>3, <1>9, <1>13, <1>16, <2>1
    <2>3. l = <<n, v>>
      BY <1>13, <2>2
    <2> QED BY <2>1, <2>3
  <1>17. ASSUME NEW n \in Name, NEW v \in Value, <<n, v>> \in c.claims
         PROVE  \E k \in s.claim, t \in s.surface :
                    k.surface = t.id /\ t.name = n /\ k.value = v /\ k.id = claimNumber[<<n, v>>]
    <2>1. n \in c.names
      BY <1>13, <1>17
    <2>2. PICK t \in s.surface : t.name = n /\ t.id = number[n]
      BY <1>10, <2>1
    <2>3. PICK k \in s.claim : k.id = claimNumber[<<n, v>>] /\ k.surface = number[n] /\ k.value = v
      BY <1>12, <1>17
    <2> QED BY <2>2, <2>3
  <1>18. \A n \in Name, v \in Value : <<n, v>> \in c.claims <=> IsClaim(s, n, v)
    <2>1. ASSUME NEW n \in Name, NEW v \in Value, <<n, v>> \in c.claims
          PROVE  IsClaim(s, n, v)
      BY <1>17, <2>1 DEF IsClaim
    <2>2. ASSUME NEW n \in Name, NEW v \in Value, IsClaim(s, n, v)
          PROVE  <<n, v>> \in c.claims
      BY <1>16, <2>2 DEF IsClaim
    <2> QED BY <2>1, <2>2
  <1>19. \A n \in Name, v \in Value : <<n, v>> \in c.cited <=> IsCited(s, n, v)
    <2>1. ASSUME NEW n \in Name, NEW v \in Value, <<n, v>> \in c.cited
          PROVE  IsCited(s, n, v)
      <3>1. <<n, v>> \in c.claims /\ claimNumber[<<n, v>>] \in s.cite
        BY <1>1, <1>5, <2>1
      <3> QED BY <1>17, <3>1 DEF IsCited
    <2>2. ASSUME NEW n \in Name, NEW v \in Value, IsCited(s, n, v)
          PROVE  <<n, v>> \in c.cited
      <3>1. PICK k \in s.claim, t \in s.surface :
                k.surface = t.id /\ t.name = n /\ k.value = v /\ k.id \in s.cite
        BY <2>2 DEF IsCited
      <3>2. <<n, v>> \in c.claims /\ k.id = claimNumber[<<n, v>>]
        BY <1>16, <3>1
      <3>3. PICK l \in c.cited : k.id = claimNumber[l]
        BY <1>5, <3>1
      <3>4. l = <<n, v>>
        BY <1>1, <1>4, <3>2, <3>3
      <3> QED BY <3>4
    <2> QED BY <2>1, <2>2
  <1>20. Reads(s, c)
    <2>1. c.names = {t.name : t \in s.surface}
      <3>1. \A n \in c.names : n \in {t.name : t \in s.surface}
        BY <1>10
      <3>2. \A n \in {t.name : t \in s.surface} : n \in c.names
        BY <1>9
      <3> QED BY <3>1, <3>2
    <2> QED BY <1>5, <1>15, <1>18, <1>19, <2>1 DEF Reads
  <1>21. Keyed(s)
    <2>1. \A g, h \in s.house : g[1] = h[1] <=> g[2] = h[2]
      BY <1>0, <1>5 DEF Sound
    <2>2. \A t, u \in s.surface : t # u => t.id # u.id /\ t.name # u.name
      <3>1. \A t, u \in s.surface : t.name = u.name => t = u
        BY <1>9
      <3>2. \A t, u \in s.surface : t.id = u.id => t.name = u.name
        BY <1>3, <1>9
      <3> QED BY <3>1, <3>2
    <2>3. ASSUME NEW t \in s.surface, t.alias # 0
          PROVE  \E u \in s.surface : u.id = t.alias /\ u # t /\ u.alias = 0
      <3>1. PICK m \in c.names : AliasOf(t.name) = number[m] /\ <<t.name, m>> \in c.alias
        BY <1>7, <1>9, <2>3
      <3>2. PICK u \in s.surface : u.name = m /\ u.id = number[m] /\ u.alias = AliasOf(m)
        BY <1>10
      <3>3. \A o : <<m, o>> \notin c.alias
        <4>1. \A b \in c.alias : <<t.name, m>>[2] # b[1]
          BY <1>0, <3>1 DEF Sound
        <4> QED BY <4>1
      <3>4. AliasOf(m) = 0
        BY <1>7, <3>3
      <3> QED BY <1>9, <2>3, <3>1, <3>2, <3>4
    <2>4. \A k, j \in s.claim : k.id = j.id <=> <<k.surface, k.value>> = <<j.surface, j.value>>
      <3> SUFFICES ASSUME NEW k \in s.claim, NEW j \in s.claim
                   PROVE  k.id = j.id <=> (k.surface = j.surface /\ k.value = j.value)
        OBVIOUS
      <3>1. PICK l \in c.claims : k.id = claimNumber[l] /\ k.surface = number[l[1]] /\ k.value = l[2]
        BY <1>11
      <3>2. PICK o \in c.claims : j.id = claimNumber[o] /\ j.surface = number[o[1]] /\ j.value = o[2]
        BY <1>11
      <3>3. l = o <=> l[1] = o[1] /\ l[2] = o[2]
        BY <1>13
      <3>4. number[l[1]] = number[o[1]] <=> l[1] = o[1]
        BY <1>3, <1>13
      <3> QED BY <1>4, <3>1, <3>2, <3>3, <3>4
    <2>5. \A k \in s.claim : \E t \in s.surface : t.id = k.surface
      BY <1>10, <1>11, <1>13
    <2>6. \A i \in s.cite : \E k \in s.claim : k.id = i
      BY <1>1, <1>5, <1>12
    <2> QED BY <2>1, <2>2, <2>3, <2>4, <2>5, <2>6 DEF Keyed
  <1>22. IsFiniteSet(s.surface)
    <2> DEFINE f == [n \in c.names |-> surfaceOf(n)]
    <2>1. f \in [c.names -> s.surface] /\ \A t \in s.surface : \E n \in c.names : f[n] = t
      BY <1>5
    <2> HIDE DEF f
    <2> QED BY <1>2, <2>1, FiniteImage
  <1>23. IsFiniteSet(s.claim)
    <2> DEFINE f == [k \in c.claims |-> claimOf(k)]
    <2>1. f \in [c.claims -> s.claim] /\ \A t \in s.claim : \E k \in c.claims : f[k] = t
      BY <1>5
    <2> HIDE DEF f
    <2> QED BY <1>2, <2>1, FiniteImage
  <1> QED BY <1>14, <1>20, <1>21, <1>22, <1>23

-----------------------------------------------------------------------------
(* What a build has done at each stage: b is the build, f the file.        *)

IsBuild(b) ==
    /\ b = [at |-> b.at, capture |-> b.capture, scratch |-> b.scratch, db |-> b.db,
            unwritten |-> b.unwritten, surfaces |-> b.surfaces, claims |-> b.claims]
    /\ b.at \in Stage /\ b.capture \in Capture /\ b.db \in Tables
    /\ b.unwritten \subseteq b.scratch.house

ScratchOK(s, c) ==
    /\ s \in Tables /\ Keyed(s) /\ Reads(s, c)
    /\ IsFiniteSet(s.surface) /\ IsFiniteSet(s.claim)

\* The bound lets the numbers of a file be counted from.
FileOK(f) ==
    /\ f \in Tables /\ Keyed(f)
    /\ \A r \in f.surface \union f.claim : r.id <= MaxId

\* The publishers are the scratch's, the rest is the file's still.
Publishing(b, f) ==
    /\ \A g, h \in b.db.house : g[1] = h[1] <=> g[2] = h[2]
    /\ b.scratch.house \ b.unwritten \subseteq b.db.house

RestIsTheFile(b, f) ==
    /\ b.db.surface = f.surface /\ b.db.claim = f.claim
    /\ b.db.cite = f.cite /\ b.db.quarantine = f.quarantine

\* The surfaces are the scratch's under the file's numbers, and the map leads
\* from one number to the other.
SurfacesDone(b, f) ==
    /\ b.db.house = b.scratch.house /\ b.db.quarantine = f.quarantine
    /\ \A s, t \in b.db.surface : s # t => s.id # t.id /\ s.name # t.name
    /\ \A r \in b.scratch.surface : \E t \in b.db.surface : t.name = r.name
    /\ \A t \in b.db.surface : \E r \in b.scratch.surface : t.name = r.name
    /\ \A r \in b.scratch.surface : r.id \in DOMAIN b.surfaces
    /\ \A r \in b.scratch.surface, t \in b.db.surface :
            t.name = r.name => b.surfaces[r.id] = t.id
    /\ \A t \in b.db.surface, u \in f.surface : t.id = u.id <=> t.name = u.name

\* Every alias leads to the row of the same name as in the scratch.
AliasesDone(b) ==
    \A r \in b.scratch.surface, t \in b.db.surface :
        t.name = r.name => t.alias = IF r.alias = 0 THEN 0 ELSE b.surfaces[r.alias]

\* Of the file's claims those are left whose surface is.
ClaimsHeld(b, f) ==
    /\ b.db.claim \subseteq f.claim
    /\ \A k \in b.db.claim : \E t \in b.db.surface : t.id = k.surface
    /\ \A k \in f.claim, t \in b.db.surface : t.id = k.surface => k \in b.db.claim

Same(b, k, d) == d.surface = b.surfaces[k.surface] /\ d.value = k.value

\* The claims are the scratch's, under the file's numbers.
ClaimsDone(b, f) ==
    /\ \A d, e \in b.db.claim :
            d.id = e.id <=> <<d.surface, d.value>> = <<e.surface, e.value>>
    /\ \A k \in b.scratch.claim : \E d \in b.db.claim : Same(b, k, d)
    /\ \A d \in b.db.claim : \E k \in b.scratch.claim : Same(b, k, d)
    /\ \A k \in b.scratch.claim : k.id \in DOMAIN b.claims
    /\ \A k \in b.scratch.claim, d \in b.db.claim : Same(b, k, d) => b.claims[k.id] = d.id
    /\ \A d \in b.db.claim, e \in f.claim :
            d.surface = e.surface /\ d.value = e.value => d.id = e.id

\* Nothing is left to do, and what needed nothing has its number still.
AllDone(b, f) ==
    /\ Keyed(b.db) /\ Reads(b.db, b.capture) /\ b.db.quarantine = f.quarantine
    /\ \A t \in b.db.surface, u \in f.surface : t.id = u.id <=> t.name = u.name
    /\ \A d \in b.db.claim, e \in f.claim :
            d.surface = e.surface /\ d.value = e.value => d.id = e.id

BuildOK(b, f) ==
    /\ IsBuild(b)
    /\ ScratchOK(b.scratch, b.capture)
    /\ b.at \notin {"unlink", "copy"} => FileOK(f)
    /\ b.at = "publisher" => Publishing(b, f) /\ RestIsTheFile(b, f)
    /\ b.at = "surface" => b.db.house = b.scratch.house /\ RestIsTheFile(b, f)
    /\ b.at \in {"alias", "claim"} => SurfacesDone(b, f) /\ ClaimsHeld(b, f)
    /\ b.at = "claim" => AliasesDone(b)
    /\ b.at = "claim_record" => SurfacesDone(b, f) /\ AliasesDone(b) /\ ClaimsDone(b, f)
    /\ b.at = "commit" => AllDone(b, f)
    /\ b.at = "copy" => f = NoFile

StoreOK(f, b) ==
    /\ f = NoFile \/ (f \in Tables /\ Keyed(f))
    /\ b = NoBuild \/ BuildOK(b, f)

LEMMA NoFileIsNone ==
    ASSUME NEW f \in Tables
    PROVE  f # NoFile
  <1>1. DOMAIN f = {"house", "surface", "claim", "cite", "quarantine"}
    BY DEF Tables
  <1>2. DOMAIN NoFile = {"at"}
    BY DEF NoFile
  <1> QED BY <1>1, <1>2

LEMMA BlankIsKeyed ==
    Blank \in Tables /\ Keyed(Blank)
  BY DEF Blank, Tables, Keyed

LEMMA BuildIsOne ==
    ASSUME NEW b, IsBuild(b)
    PROVE  b # NoBuild
  <1>1. NoBuild.at = "idle"
    BY DEF NoBuild
  <1> QED BY <1>1 DEF IsBuild, Stage

LEMMA CompileOK ==
    ASSUME StoreOK(file, build), Compile
    PROVE  StoreOK(file', build')
  <1>1. PICK c \in Capture, refused \in SUBSET Row :
          \E number \in Numberings(c.names), claimNumber \in Numberings(c.claims) :
           build' = [at |-> IF file = NoFile THEN "unlink" ELSE "publisher",
                     capture |-> c,
                     scratch |-> Scratch(c, number, claimNumber, refused),
                     db |-> IF file = NoFile THEN Blank ELSE file,
                     unwritten |-> c.house, surfaces |-> <<>>, claims |-> <<>>]
    BY DEF Compile
  <1>2. PICK number \in Numberings(c.names), claimNumber \in Numberings(c.claims) :
           build' = [at |-> IF file = NoFile THEN "unlink" ELSE "publisher",
                     capture |-> c,
                     scratch |-> Scratch(c, number, claimNumber, refused),
                     db |-> IF file = NoFile THEN Blank ELSE file,
                     unwritten |-> c.house, surfaces |-> <<>>, claims |-> <<>>]
    BY <1>1
  <1> DEFINE s == Scratch(c, number, claimNumber, refused)
  <1>3. ScratchOK(s, c)
    BY ScratchSays DEF ScratchOK
  <1>4. s.house = c.house
    BY DEF Scratch
  <1> HIDE DEF s
  <1>5. /\ build'.at = (IF file = NoFile THEN "unlink" ELSE "publisher")
        /\ build'.capture = c /\ build'.scratch = s
        /\ build'.db = (IF file = NoFile THEN Blank ELSE file)
        /\ build'.unwritten = c.house
    BY <1>2 DEF s
  <1>6. IsBuild(build')
    <2>1. build' = [at |-> build'.at, capture |-> build'.capture, scratch |-> build'.scratch,
                    db |-> build'.db, unwritten |-> build'.unwritten,
                    surfaces |-> build'.surfaces, claims |-> build'.claims]
      BY <1>2
    <2>2. build'.db \in Tables
      BY <1>5, BlankIsKeyed DEF StoreOK
    <2>3. build'.at \in Stage
      BY <1>5 DEF Stage
    <2> QED BY <1>4, <1>5, <2>1, <2>2, <2>3 DEF IsBuild
  <1>7. file' = file
    BY DEF Compile
  <1>8. CASE file = NoFile
    <2>1. build'.at = "unlink"
      BY <1>5, <1>8
    <2> QED BY <1>3, <1>5, <1>6, <1>7, <1>8, <2>1 DEF StoreOK, BuildOK
  <1>9. CASE file # NoFile
    <2>1. build'.at = "publisher" /\ build'.db = file
      BY <1>5, <1>9
    <2>2. file \in Tables /\ Keyed(file)
      BY <1>9 DEF StoreOK
    <2>3. FileOK(file)
      <3>1. Cardinality(Name \X Value) \in Nat /\ MaxId \in Nat
        BY StoreAssumption, FS_Product, FS_CardinalityType
      <3>2. \A r \in file.surface \union file.claim : r.id + Cardinality(Name \X Value) <= MaxId
        BY <1>9 DEF Compile
      <3>3. \A r \in file.surface \union file.claim : r.id \in Nat
        BY <2>2 DEF Tables, Surface, Claim, Number
      <3> DEFINE more == Cardinality(Name \X Value)
      <3> HIDE DEF more
      <3>4. \A r \in file.surface \union file.claim : r.id <= MaxId
        <4>1. more \in Nat /\ \A r \in file.surface \union file.claim : r.id + more <= MaxId
          BY <3>1, <3>2 DEF more
        <4> SUFFICES ASSUME NEW r \in file.surface \union file.claim  PROVE r.id <= MaxId
          OBVIOUS
        <4>2. r.id \in Nat /\ r.id + more <= MaxId
          BY <3>3, <4>1
        <4> QED BY <3>1, <4>1, <4>2
      <3> QED BY <2>2, <3>4 DEF FileOK
    <2>4. Publishing(build', file) /\ RestIsTheFile(build', file)
      BY <1>4, <1>5, <2>1, <2>2 DEF Publishing, RestIsTheFile, Keyed
    <2> QED BY <1>3, <1>5, <1>6, <1>7, <2>1, <2>2, <2>3, <2>4 DEF StoreOK, BuildOK
  <1> QED BY <1>8, <1>9

LEMMA WritePublisherOK ==
    ASSUME BuildOK(build, file), NEW row, WritePublisher(row)
    PROVE  BuildOK(build', file')
  <1> DEFINE others == {h \in build.db.house : h[2] # row[2]}
  <1>1. /\ build.at = "publisher" /\ row \in build.unwritten /\ file' = file
        /\ build' = IF \E h \in others : h[1] = row[1] THEN [build EXCEPT !.at = "unlink"]
                    ELSE [build EXCEPT !.db.house = others \union {row},
                                       !.unwritten = @ \ {row}]
    BY DEF WritePublisher
  <1>2. /\ IsBuild(build) /\ ScratchOK(build.scratch, build.capture) /\ FileOK(file)
        /\ Publishing(build, file) /\ RestIsTheFile(build, file)
    BY <1>1 DEF BuildOK
  <1>3. CASE \E h \in others : h[1] = row[1]
    <2>1. build' = [build EXCEPT !.at = "unlink"]
      BY <1>1, <1>3
    <2> HIDE DEF others
    <2>2. /\ build'.at = "unlink" /\ build'.capture = build.capture
          /\ build'.scratch = build.scratch /\ build'.db = build.db
          /\ build'.unwritten = build.unwritten
          /\ build' = [at |-> build'.at, capture |-> build'.capture, scratch |-> build'.scratch,
                    db |-> build'.db, unwritten |-> build'.unwritten,
                    surfaces |-> build'.surfaces, claims |-> build'.claims]
      BY <1>2, <2>1 DEF IsBuild
    <2>3. IsBuild(build')
      BY <1>2, <2>2 DEF IsBuild, Stage
    <2> QED BY <1>2, <2>2, <2>3 DEF BuildOK
  <1>4. CASE ~ \E h \in others : h[1] = row[1]
    <2>1. build' = [build EXCEPT !.db.house = others \union {row}, !.unwritten = @ \ {row}]
      BY <1>1, <1>4
    <2>0. /\ build.db = [house |-> build.db.house, surface |-> build.db.surface,
                         claim |-> build.db.claim, cite |-> build.db.cite,
                         quarantine |-> build.db.quarantine]
          /\ build.db.house \subseteq House \X Label
          /\ build.scratch.house \subseteq House \X Label
      BY <1>2 DEF IsBuild, ScratchOK, Tables
    <2>2. /\ build'.at = build.at /\ build'.capture = build.capture
          /\ build'.scratch = build.scratch
          /\ build'.db = [build.db EXCEPT !.house = others \union {row}]
          /\ build'.unwritten = build.unwritten \ {row}
          /\ build' = [at |-> build'.at, capture |-> build'.capture, scratch |-> build'.scratch,
                    db |-> build'.db, unwritten |-> build'.unwritten,
                    surfaces |-> build'.surfaces, claims |-> build'.claims]
      BY <1>2, <2>1 DEF IsBuild
    <2>3. /\ build'.db.house = others \union {row} /\ build'.db.surface = build.db.surface
          /\ build'.db.claim = build.db.claim /\ build'.db.cite = build.db.cite
          /\ build'.db.quarantine = build.db.quarantine
          /\ build'.db = [house |-> build'.db.house, surface |-> build'.db.surface,
                          claim |-> build'.db.claim, cite |-> build'.db.cite,
                          quarantine |-> build'.db.quarantine]
      BY <2>0, <2>2
    <2>4. row \in build.scratch.house
      BY <1>1, <1>2 DEF IsBuild
    <2>5. IsBuild(build')
      <3>1. build'.db \in Tables
        <4>1. build'.db.house \subseteq House \X Label
          BY <2>0, <2>3, <2>4
        <4> QED BY <1>2, <2>3, <4>1 DEF Tables, IsBuild
      <3> QED BY <1>2, <2>2, <3>1 DEF IsBuild
    <2>6. Publishing(build', file)
      <3>1. \A g, h \in build'.db.house : g[1] = h[1] <=> g[2] = h[2]
        <4>1. \A g, h \in others : g[1] = h[1] <=> g[2] = h[2]
          BY <1>2 DEF Publishing
        <4>2. \A g \in others : g[1] # row[1] /\ g[2] # row[2]
          BY <1>4
        <4> QED BY <2>3, <4>1, <4>2
      <3>2. \A g \in build.scratch.house \ build'.unwritten : g \in build'.db.house
        <4> SUFFICES ASSUME NEW g \in build.scratch.house, g \notin build'.unwritten, g # row
                     PROVE  g \in others
          BY <2>3
        <4>1. g \in build.db.house
          BY <1>2, <2>2 DEF Publishing
        <4>2. g[2] # row[2]
          <5>1. g[1] = row[1] <=> g[2] = row[2]
            BY <1>2, <2>4 DEF ScratchOK, Keyed
          <5> QED BY <2>0, <2>4, <5>1
        <4> QED BY <4>1, <4>2
      <3> QED BY <2>2, <3>1, <3>2 DEF Publishing
    <2>7. RestIsTheFile(build', file)
      BY <1>2, <2>3 DEF RestIsTheFile
    <2> QED BY <1>1, <1>2, <2>2, <2>5, <2>6, <2>7 DEF BuildOK
  <1> QED BY <1>3, <1>4

LEMMA DropPublishersOK ==
    ASSUME BuildOK(build, file), DropPublishers
    PROVE  BuildOK(build', file')
  <1> DEFINE house == build.db.house \intersect build.scratch.house
  <1>1. /\ build.at = "publisher" /\ build.unwritten = {} /\ file' = file
        /\ build' = [build EXCEPT !.at = "surface", !.db.house = house]
    BY DEF DropPublishers
  <1>2. /\ IsBuild(build) /\ ScratchOK(build.scratch, build.capture) /\ FileOK(file)
        /\ Publishing(build, file) /\ RestIsTheFile(build, file)
    BY <1>1 DEF BuildOK
  <1>3. house = build.scratch.house /\ house \subseteq House \X Label
    BY <1>1, <1>2 DEF Publishing, IsBuild, Tables
  <1> HIDE DEF house
  <1>4. build.db = [house |-> build.db.house, surface |-> build.db.surface,
                    claim |-> build.db.claim, cite |-> build.db.cite,
                    quarantine |-> build.db.quarantine]
    BY <1>2 DEF IsBuild, Tables
  <1>5. /\ build'.at = "surface" /\ build'.capture = build.capture
        /\ build'.scratch = build.scratch
        /\ build'.db = [build.db EXCEPT !.house = house]
        /\ build'.unwritten = build.unwritten
        /\ build' = [at |-> build'.at, capture |-> build'.capture, scratch |-> build'.scratch,
                  db |-> build'.db, unwritten |-> build'.unwritten,
                  surfaces |-> build'.surfaces, claims |-> build'.claims]
    BY <1>1, <1>2 DEF IsBuild
  <1>6. /\ build'.db.house = house /\ build'.db.surface = build.db.surface
        /\ build'.db.claim = build.db.claim /\ build'.db.cite = build.db.cite
        /\ build'.db.quarantine = build.db.quarantine
        /\ build'.db = [house |-> build'.db.house, surface |-> build'.db.surface,
                        claim |-> build'.db.claim, cite |-> build'.db.cite,
                        quarantine |-> build'.db.quarantine]
    BY <1>4, <1>5
  <1>7. build'.db \in Tables
    BY <1>2, <1>3, <1>6 DEF Tables, IsBuild
  <1>8. IsBuild(build')
    BY <1>2, <1>5, <1>7 DEF IsBuild, Stage
  <1>9. RestIsTheFile(build', file)
    BY <1>2, <1>6 DEF RestIsTheFile
  <1> QED BY <1>1, <1>2, <1>3, <1>5, <1>6, <1>8, <1>9 DEF BuildOK

\* The id, the name and the reference of a row a delta leaves in the file.
LEMMA ReconcileSurfaceOK ==
    ASSUME BuildOK(build, file), ReconcileSurface
    PROVE  BuildOK(build', file')
  <1> DEFINE db == build.db
             rows == build.scratch.surface
             missing == {r \in rows : SameName(db.surface, r) = {}}
             number == Numbers(db.surface, missing)
             newRow(r) == [id |-> number[r], name |-> r.name, alias |-> 0]
             new == {newRow(r) : r \in missing}
             held == {s \in db.surface : SameName(rows, s) # {}}
             ids == {s.id : s \in held}
             keptRow(s) == IF s.alias \in ids THEN s ELSE [s EXCEPT !.alias = 0]
             kept == {keptRow(s) : s \in held}
             claims == {c \in db.claim : c.surface \in ids}
             cites == db.cite \intersect {c.id : c \in claims}
             now == kept \union new
             map == [i \in {r.id : r \in rows} |->
                (CHOOSE s \in now : \E r \in rows : r.id = i /\ r.name = s.name).id]
  <1>1. /\ build.at = "surface" /\ file' = file
        /\ build' = [build EXCEPT !.at = "alias", !.db.surface = now, !.db.claim = claims,
                        !.db.cite = @ \intersect {c.id : c \in claims}, !.surfaces = map]
    BY DEF ReconcileSurface
  <1>2. /\ IsBuild(build) /\ ScratchOK(build.scratch, build.capture) /\ FileOK(file)
        /\ db.house = build.scratch.house /\ RestIsTheFile(build, file)
    BY <1>1 DEF BuildOK
  <1>3. /\ db.surface = file.surface /\ db.claim = file.claim
        /\ db.cite = file.cite /\ db.quarantine = file.quarantine
    BY <1>2 DEF RestIsTheFile
  <1>4. /\ db = [house |-> db.house, surface |-> db.surface, claim |-> db.claim,
                 cite |-> db.cite, quarantine |-> db.quarantine]
        /\ db.house \subseteq House \X Label /\ db.surface \subseteq Surface
        /\ db.claim \subseteq Claim /\ db.cite \subseteq Number /\ db.quarantine \subseteq Row
        /\ rows \subseteq Surface
    BY <1>2 DEF IsBuild, ScratchOK, Tables
  <1>5. /\ \A s, t \in db.surface : s # t => s.id # t.id /\ s.name # t.name
        /\ \A c \in db.claim : \E s \in db.surface : s.id = c.surface
    BY <1>2, <1>3 DEF FileOK, Keyed
  <1>6. \A q, r \in rows : q # r => q.id # r.id /\ q.name # r.name
    BY <1>2 DEF ScratchOK, Keyed
  <1>7. /\ \A r \in rows : r \in missing <=> \A s \in db.surface : s.name # r.name
        /\ \A s \in db.surface : s \in held <=> \E r \in rows : r.name = s.name
        /\ missing \subseteq rows /\ held \subseteq db.surface
    BY DEF SameName
  <1>8. /\ DOMAIN number = missing
        /\ \A r \in missing : number[r] \in Number
        /\ \A r \in missing, t \in db.surface : number[r] # t.id
        /\ \A r, s \in missing : number[r] = number[s] => r = s
    <2>1. \A t \in db.surface : t.id \in Number /\ t.id <= MaxId
      BY <1>2, <1>3, <1>4 DEF FileOK, Surface
    <2>2. IsFiniteSet(missing)
      BY <1>2, <1>7, FS_Subset DEF ScratchOK
    <2>3. \A r \in missing : r.id \in Number
      BY <1>4, <1>7 DEF Surface
    <2>4. \A r, s \in missing : r.id = s.id => r = s
      BY <1>6, <1>7
    <2> HIDE DEF missing
    <2> QED BY <2>1, <2>2, <2>3, <2>4, NumbersAreFresh
  <1> HIDE DEF missing, held, number, claims
  <1>9. \A s \in held : /\ keptRow(s) \in Surface
                        /\ keptRow(s).id = s.id /\ keptRow(s).name = s.name
    BY <1>4, <1>7 DEF Surface
  <1>10. \A r \in missing : /\ newRow(r) \in Surface
                            /\ newRow(r).id = number[r] /\ newRow(r).name = r.name
    BY <1>4, <1>7, <1>8 DEF Surface
  <1> HIDE DEF keptRow, newRow
  <1>11. /\ \A t \in now : \/ \E s \in held : t = keptRow(s)
                           \/ \E r \in missing : t = newRow(r)
         /\ \A s \in held : keptRow(s) \in now
         /\ \A r \in missing : newRow(r) \in now
    OBVIOUS
  <1> HIDE DEF now, kept, new
  <1>12. now \subseteq Surface
    BY <1>9, <1>10, <1>11
  <1>13. \A s, t \in now : s # t => s.id # t.id /\ s.name # t.name
    <2> SUFFICES ASSUME NEW s \in now, NEW t \in now, s # t
                 PROVE  s.id # t.id /\ s.name # t.name
      OBVIOUS
    <2>1. ASSUME NEW p \in held, NEW q \in held, s = keptRow(p), t = keptRow(q)
          PROVE  s.id # t.id /\ s.name # t.name
      BY <1>5, <1>7, <1>9, <2>1
    <2>2. ASSUME NEW p \in held, NEW r \in missing
          PROVE  keptRow(p).id # newRow(r).id /\ keptRow(p).name # newRow(r).name
      <3>1. p \in db.surface /\ r \in rows
        BY <1>7
      <3> QED BY <1>7, <1>8, <1>9, <1>10, <3>1
    <2>3. ASSUME NEW q \in missing, NEW r \in missing, s = newRow(q), t = newRow(r)
          PROVE  s.id # t.id /\ s.name # t.name
      BY <1>6, <1>7, <1>8, <1>10, <2>3
    <2> QED BY <1>11, <2>1, <2>2, <2>3
  <1>14. \A r \in rows : \E t \in now : t.name = r.name
    <2> SUFFICES ASSUME NEW r \in rows  PROVE \E t \in now : t.name = r.name
      OBVIOUS
    <2>1. CASE r \in missing
      BY <1>10, <1>11, <2>1
    <2>2. CASE r \notin missing
      <3>1. PICK s \in db.surface : s.name = r.name
        BY <1>7, <2>2
      <3> QED BY <1>7, <1>9, <1>11, <3>1
    <2> QED BY <2>1, <2>2
  <1>15. \A t \in now : \E r \in rows : t.name = r.name
    BY <1>7, <1>9, <1>10, <1>11
  <1>16. \A r \in rows, t \in now : /\ r.id \in DOMAIN map
                                    /\ t.name = r.name => map[r.id] = t.id
    <2> SUFFICES ASSUME NEW r \in rows, NEW t \in now
                 PROVE  /\ r.id \in DOMAIN map
                        /\ t.name = r.name => map[r.id] = t.id
      OBVIOUS
    <2> DEFINE it == CHOOSE s \in now : \E q \in rows : q.id = r.id /\ q.name = s.name
    <2>1. r.id \in DOMAIN map /\ map[r.id] = it.id
      OBVIOUS
    <2>2. ASSUME t.name = r.name  PROVE it = t
      <3>1. \E s \in now : \E q \in rows : q.id = r.id /\ q.name = s.name
        BY <2>2
      <3>2. it \in now /\ \E q \in rows : q.id = r.id /\ q.name = it.name
        BY <3>1
      <3>3. it.name = r.name
        BY <1>6, <3>2
      <3> HIDE DEF it
      <3> QED BY <1>13, <2>2, <3>2, <3>3
    <2> QED BY <2>1, <2>2
  <1> HIDE DEF map
  <1>17. \A t \in now, u \in db.surface : t.id = u.id <=> t.name = u.name
    <2> SUFFICES ASSUME NEW t \in now, NEW u \in db.surface
                 PROVE  t.id = u.id <=> t.name = u.name
      OBVIOUS
    <2>1. ASSUME NEW s \in held, t = keptRow(s)
          PROVE  t.id = u.id <=> t.name = u.name
      BY <1>5, <1>7, <1>9, <2>1
    <2>2. ASSUME NEW r \in missing, t = newRow(r)
          PROVE  t.id # u.id /\ t.name # u.name
      BY <1>7, <1>8, <1>10, <2>2
    <2> QED BY <1>11, <2>1, <2>2
  <1>18. \A c \in db.claim : c \in claims <=> \E t \in now : t.id = c.surface
    <2> SUFFICES ASSUME NEW c \in db.claim
                 PROVE  c \in claims <=> \E t \in now : t.id = c.surface
      OBVIOUS
    <2>1. c \in claims <=> \E s \in held : s.id = c.surface
      BY DEF claims
    <2>2. \A s \in held : s.id = c.surface => \E t \in now : t.id = c.surface
      BY <1>9, <1>11
    <2>3. ASSUME NEW t \in now, t.id = c.surface
          PROVE  \E s \in held : s.id = c.surface
      <3>1. PICK u \in db.surface : u.id = c.surface
        BY <1>5
      <3>2. t.name = u.name
        BY <1>17, <2>3, <3>1
      <3>3. u \in held
        BY <1>7, <1>15, <3>2
      <3> QED BY <3>1, <3>3
    <2> QED BY <2>1, <2>2, <2>3
  <1>19. claims \subseteq db.claim
    BY DEF claims
  <1>20. /\ build'.at = "alias" /\ build'.capture = build.capture
         /\ build'.scratch = build.scratch /\ build'.unwritten = build.unwritten
         /\ build'.surfaces = map
         /\ build'.db = [db EXCEPT !.surface = now, !.claim = claims, !.cite = cites]
         /\ build' = [at |-> build'.at, capture |-> build'.capture, scratch |-> build'.scratch,
                   db |-> build'.db, unwritten |-> build'.unwritten,
                   surfaces |-> build'.surfaces, claims |-> build'.claims]
    BY <1>1, <1>2 DEF IsBuild
  <1>21. /\ build'.db.house = db.house /\ build'.db.surface = now /\ build'.db.claim = claims
         /\ build'.db.cite = cites /\ build'.db.quarantine = db.quarantine
         /\ build'.db = [house |-> build'.db.house, surface |-> build'.db.surface,
                         claim |-> build'.db.claim, cite |-> build'.db.cite,
                         quarantine |-> build'.db.quarantine]
    BY <1>4, <1>20
  <1>22. build'.db \in Tables
    BY <1>4, <1>12, <1>19, <1>21 DEF Tables
  <1>23. IsBuild(build')
    BY <1>2, <1>20, <1>22 DEF IsBuild, Stage
  <1>24. SurfacesDone(build', file)
    BY <1>2, <1>3, <1>13, <1>14, <1>15, <1>16, <1>17, <1>20, <1>21 DEF SurfacesDone
  <1>25. ClaimsHeld(build', file)
    BY <1>3, <1>18, <1>19, <1>21 DEF ClaimsHeld
  <1> QED BY <1>1, <1>2, <1>20, <1>23, <1>24, <1>25 DEF BuildOK

\* A number in the scratch that a row of it has leads to the row of its name.
LEMMA SurfaceLeads ==
    ASSUME NEW b, NEW f, SurfacesDone(b, f), ScratchOK(b.scratch, b.capture),
           NEW r \in b.scratch.surface
    PROVE  /\ \E t \in b.db.surface : t.name = r.name /\ t.id = b.surfaces[r.id]
           /\ \A t \in b.db.surface : t.id = b.surfaces[r.id] => t.name = r.name
           /\ \A q \in b.scratch.surface : b.surfaces[q.id] = b.surfaces[r.id] => q = r
  <1>1. PICK t \in b.db.surface : t.name = r.name /\ t.id = b.surfaces[r.id]
    BY DEF SurfacesDone
  <1>2. \A u \in b.db.surface : u.id = b.surfaces[r.id] => u = t
    BY <1>1 DEF SurfacesDone
  <1>3. ASSUME NEW q \in b.scratch.surface, b.surfaces[q.id] = b.surfaces[r.id]
        PROVE  q = r
    <2>1. PICK u \in b.db.surface : u.name = q.name /\ u.id = b.surfaces[q.id]
      BY DEF SurfacesDone
    <2>2. q.name = r.name
      BY <1>1, <1>2, <1>3, <2>1
    <2> QED BY <2>2 DEF ScratchOK, Keyed
  <1> QED BY <1>1, <1>2, <1>3

LEMMA SetAliasesOK ==
    ASSUME BuildOK(build, file), SetAliases
    PROVE  BuildOK(build', file')
  <1> DEFINE db == build.db
             rows == build.scratch.surface
             rowOf(s) == CHOOSE r \in rows : r.name = s.name
             newRow(s) == [s EXCEPT !.alias = AliasFor(s, rowOf(s))]
             now == {newRow(s) : s \in db.surface}
  <1>1. /\ build.at = "alias" /\ file' = file
        /\ build' = [build EXCEPT !.at = "claim", !.db.surface = now]
    BY DEF SetAliases
  <1>2. /\ IsBuild(build) /\ ScratchOK(build.scratch, build.capture) /\ FileOK(file)
        /\ SurfacesDone(build, file) /\ ClaimsHeld(build, file)
    BY <1>1 DEF BuildOK
  <1>3. /\ db = [house |-> db.house, surface |-> db.surface, claim |-> db.claim,
                 cite |-> db.cite, quarantine |-> db.quarantine]
        /\ db.house \subseteq House \X Label /\ db.surface \subseteq Surface
        /\ db.claim \subseteq Claim /\ db.cite \subseteq Number /\ db.quarantine \subseteq Row
        /\ rows \subseteq Surface
    BY <1>2 DEF IsBuild, ScratchOK, Tables
  <1>4. \A s \in db.surface, r \in rows : s.name = r.name => rowOf(s) = r
    BY <1>2 DEF ScratchOK, Keyed
  <1>5. \A s \in db.surface : \E r \in rows : s.name = r.name
    BY <1>2 DEF SurfacesDone
  <1> HIDE DEF rowOf
  <1>6. ASSUME NEW s \in db.surface, NEW r \in rows, s.name = r.name
        PROVE  /\ AliasFor(s, rowOf(s)) = IF r.alias = 0 THEN 0 ELSE build.surfaces[r.alias]
               /\ AliasFor(s, rowOf(s)) \in Nat
    <2>1. AliasFor(s, rowOf(s)) = IF r.alias = 0 THEN 0 ELSE build.surfaces[r.alias]
      BY <1>4, <1>6 DEF AliasFor
    <2>2. CASE r.alias = 0
      BY <2>1, <2>2
    <2>3. CASE r.alias # 0
      <3>1. PICK q \in rows : q.id = r.alias
        BY <1>2, <2>3 DEF ScratchOK, Keyed
      <3>2. PICK t \in db.surface : t.id = build.surfaces[q.id]
        BY <1>2, SurfaceLeads
      <3> QED BY <1>3, <2>1, <2>3, <3>1, <3>2 DEF Surface, Number
    <2> QED BY <2>1, <2>2, <2>3
  <1>7. ASSUME NEW s \in db.surface
        PROVE  /\ newRow(s) \in Surface /\ newRow(s).id = s.id /\ newRow(s).name = s.name
               /\ newRow(s).alias = AliasFor(s, rowOf(s))
    BY <1>3, <1>5, <1>6 DEF Surface
  <1>8. /\ \A t \in now : \E s \in db.surface : t = newRow(s)
        /\ \A s \in db.surface : newRow(s) \in now
    OBVIOUS
  <1> HIDE DEF newRow, now
  <1>9. /\ build'.at = "claim" /\ build'.capture = build.capture
        /\ build'.scratch = build.scratch /\ build'.unwritten = build.unwritten
        /\ build'.surfaces = build.surfaces
        /\ build'.db = [db EXCEPT !.surface = now]
        /\ build' = [at |-> build'.at, capture |-> build'.capture, scratch |-> build'.scratch,
                  db |-> build'.db, unwritten |-> build'.unwritten,
                  surfaces |-> build'.surfaces, claims |-> build'.claims]
    BY <1>1, <1>2 DEF IsBuild
  <1>10. /\ build'.db.house = db.house /\ build'.db.surface = now
         /\ build'.db.claim = db.claim /\ build'.db.cite = db.cite
         /\ build'.db.quarantine = db.quarantine
         /\ build'.db = [house |-> build'.db.house, surface |-> build'.db.surface,
                         claim |-> build'.db.claim, cite |-> build'.db.cite,
                         quarantine |-> build'.db.quarantine]
    BY <1>3, <1>9
  <1>11. build'.db \in Tables
    <2>1. now \subseteq Surface
      BY <1>7, <1>8
    <2> QED BY <1>3, <1>10, <2>1 DEF Tables
  <1>12. IsBuild(build')
    BY <1>2, <1>9, <1>11 DEF IsBuild, Stage
  <1>13. SurfacesDone(build', file)
    <2>1. \A s, t \in now : s # t => s.id # t.id /\ s.name # t.name
      <3> SUFFICES ASSUME NEW p \in db.surface, NEW q \in db.surface, newRow(p) # newRow(q)
                   PROVE  newRow(p).id # newRow(q).id /\ newRow(p).name # newRow(q).name
        BY <1>8
      <3> QED BY <1>2, <1>7 DEF SurfacesDone
    <2>2. \A r \in rows : \E t \in now : t.name = r.name
      <3> SUFFICES ASSUME NEW r \in rows  PROVE \E t \in now : t.name = r.name
        OBVIOUS
      <3>1. PICK s \in db.surface : s.name = r.name
        BY <1>2 DEF SurfacesDone
      <3> QED BY <1>7, <1>8, <3>1
    <2>3. \A t \in now : \E r \in rows : t.name = r.name
      BY <1>5, <1>7, <1>8
    <2>4. \A r \in rows, t \in now : t.name = r.name => build.surfaces[r.id] = t.id
      BY <1>2, <1>7, <1>8 DEF SurfacesDone
    <2>5. \A t \in now, u \in file.surface : t.id = u.id <=> t.name = u.name
      BY <1>2, <1>7, <1>8 DEF SurfacesDone
    <2> QED BY <1>2, <1>9, <1>10, <2>1, <2>2, <2>3, <2>4, <2>5 DEF SurfacesDone
  <1>14. ClaimsHeld(build', file)
    <2>1. \A k \in db.claim : \E t \in now : t.id = k.surface
      <3> SUFFICES ASSUME NEW k \in db.claim  PROVE \E t \in now : t.id = k.surface
        OBVIOUS
      <3>1. PICK s \in db.surface : s.id = k.surface
        BY <1>2 DEF ClaimsHeld
      <3> QED BY <1>7, <1>8, <3>1
    <2>2. \A k \in file.claim, t \in now : t.id = k.surface => k \in db.claim
      BY <1>2, <1>7, <1>8 DEF ClaimsHeld
    <2> QED BY <1>2, <1>10, <2>1, <2>2 DEF ClaimsHeld
  <1>15. AliasesDone(build')
    <2>1. \A r \in rows, t \in now :
            t.name = r.name => t.alias = IF r.alias = 0 THEN 0 ELSE build.surfaces[r.alias]
      BY <1>6, <1>7, <1>8
    <2> QED BY <1>9, <1>10, <2>1 DEF AliasesDone
  <1> QED BY <1>1, <1>2, <1>9, <1>12, <1>13, <1>14, <1>15 DEF BuildOK

LEMMA ReconcileClaimOK ==
    ASSUME BuildOK(build, file), ReconcileClaim
    PROVE  BuildOK(build', file')
  <1> DEFINE db == build.db
             rows == build.scratch.claim
             surfaces == build.surfaces
             Here(c) == <<Through(surfaces, c.surface), c.value>>
             missing == {c \in rows : \A d \in db.claim : KeyHere(d) # Here(c)}
             number == Numbers(db.claim, missing)
             newRow(c) == [id |-> number[c], surface |-> Here(c)[1], value |-> c.value]
             new == {newRow(c) : c \in missing}
             kept == {d \in db.claim : \E c \in rows : KeyHere(d) = Here(c)}
             now == kept \union new
             known == {c \in rows : \E d \in now : KeyHere(d) = ClaimKey(c)}
             map == [i \in {c.id : c \in known} |->
                (CHOOSE d \in now : \E c \in known : c.id = i /\ KeyHere(d) = ClaimKey(c)).id]
             cites == db.cite \intersect {d.id : d \in now}
  <1>1. /\ build.at = "claim" /\ file' = file
        /\ build' = [build EXCEPT !.at = "claim_record", !.db.claim = now,
                        !.db.cite = @ \intersect {d.id : d \in now}, !.claims = map]
    BY DEF ReconcileClaim
  <1>2. /\ IsBuild(build) /\ ScratchOK(build.scratch, build.capture) /\ FileOK(file)
        /\ SurfacesDone(build, file) /\ ClaimsHeld(build, file) /\ AliasesDone(build)
    BY <1>1 DEF BuildOK
  <1>3. /\ db = [house |-> db.house, surface |-> db.surface, claim |-> db.claim,
                 cite |-> db.cite, quarantine |-> db.quarantine]
        /\ db.house \subseteq House \X Label /\ db.surface \subseteq Surface
        /\ db.claim \subseteq Claim /\ db.cite \subseteq Number /\ db.quarantine \subseteq Row
        /\ rows \subseteq Claim
    BY <1>2 DEF IsBuild, ScratchOK, Tables
  <1>4. \A c, d \in rows : c.id = d.id <=> (c.surface = d.surface /\ c.value = d.value)
    BY <1>2 DEF ScratchOK, Keyed
  <1>5. \A c, d \in db.claim : c.id = d.id <=> (c.surface = d.surface /\ c.value = d.value)
    <2>1. \A c, d \in file.claim : c.id = d.id <=> (c.surface = d.surface /\ c.value = d.value)
      BY <1>2 DEF FileOK, Keyed
    <2> QED BY <1>2, <2>1 DEF ClaimsHeld
  <1>6. \A c \in rows : \E r \in build.scratch.surface : r.id = c.surface
    BY <1>2 DEF ScratchOK, Keyed
  <1>7. \A c \in rows : Here(c) = <<surfaces[c.surface], c.value>> /\ ClaimKey(c) = Here(c)
    <2>1. \A c \in rows : c.surface \in DOMAIN surfaces
      BY <1>2, <1>6 DEF SurfacesDone
    <2> QED BY <2>1 DEF Through, ClaimKey
  <1>8. \A c \in rows : \E t \in db.surface : t.id = surfaces[c.surface]
    BY <1>2, <1>6, SurfaceLeads
  <1>9. \A c, d \in rows : surfaces[c.surface] = surfaces[d.surface] => c.surface = d.surface
    <2> SUFFICES ASSUME NEW c \in rows, NEW d \in rows, surfaces[c.surface] = surfaces[d.surface]
                 PROVE  c.surface = d.surface
      OBVIOUS
    <2>1. PICK r \in build.scratch.surface, q \in build.scratch.surface :
              r.id = c.surface /\ q.id = d.surface
      BY <1>6
    <2>2. q = r
      BY <1>2, <2>1, SurfaceLeads
    <2> QED BY <2>1, <2>2
  <1>10. /\ \A c \in rows : c \in missing <=>
                \A d \in db.claim : ~(d.surface = surfaces[c.surface] /\ d.value = c.value)
         /\ \A d \in db.claim : d \in kept <=>
                \E c \in rows : d.surface = surfaces[c.surface] /\ d.value = c.value
         /\ missing \subseteq rows /\ kept \subseteq db.claim
    BY <1>7 DEF KeyHere
  <1>11. /\ \A r \in missing : number[r] \in Number
         /\ \A r \in missing, t \in db.claim : number[r] # t.id
         /\ \A r, s \in missing : number[r] = number[s] => r = s
    <2>1. \A d \in db.claim : d.id \in Number /\ d.id <= MaxId
      BY <1>2, <1>3 DEF FileOK, ClaimsHeld, Claim
    <2>2. IsFiniteSet(missing)
      BY <1>2, <1>10, FS_Subset DEF ScratchOK
    <2>3. \A r \in missing : r.id \in Number
      BY <1>3, <1>10 DEF Claim
    <2>4. \A r, s \in missing : r.id = s.id => r = s
      <3>1. rows \subseteq Claim /\ missing \subseteq rows
        BY <1>3, <1>10
      <3>2. \A r, s \in rows : r.id = s.id => r = s
        BY <1>4, <3>1 DEF Claim
      <3> QED BY <3>1, <3>2
    <2> HIDE DEF missing
    <2> QED BY <2>1, <2>2, <2>3, <2>4, NumbersAreFresh
  <1> HIDE DEF missing, number, kept
  <1>12. \A c \in missing : /\ newRow(c) \in Claim /\ newRow(c).id = number[c]
                            /\ newRow(c).surface = surfaces[c.surface] /\ newRow(c).value = c.value
    <2> SUFFICES ASSUME NEW c \in missing
                 PROVE  /\ newRow(c) \in Claim /\ newRow(c).id = number[c]
                        /\ newRow(c).surface = surfaces[c.surface] /\ newRow(c).value = c.value
      OBVIOUS
    <2>1. c \in rows /\ c.value \in Value
      BY <1>3, <1>10 DEF Claim
    <2>2. PICK t \in db.surface : t.id = surfaces[c.surface]
      BY <1>8, <2>1
    <2>3. surfaces[c.surface] \in Number
      BY <1>3, <2>2 DEF Surface
    <2>4. Here(c)[1] = surfaces[c.surface]
      BY <1>7, <2>1
    <2> QED BY <1>11, <2>1, <2>3, <2>4 DEF Claim
  <1> HIDE DEF newRow
  <1>13. /\ \A d \in now : d \in kept \/ \E c \in missing : d = newRow(c)
         /\ \A d \in kept : d \in now
         /\ \A c \in missing : newRow(c) \in now
    OBVIOUS
  <1> HIDE DEF now, new
  <1>14. now \subseteq Claim
    BY <1>3, <1>10, <1>12, <1>13
  <1>15. \A d, e \in now : d.id = e.id <=> (d.surface = e.surface /\ d.value = e.value)
    <2>1. ASSUME NEW d \in kept, NEW e \in kept
          PROVE  d.id = e.id <=> (d.surface = e.surface /\ d.value = e.value)
      BY <1>5, <1>10
    <2>2. ASSUME NEW d \in kept, NEW c \in missing
          PROVE  /\ d.id # newRow(c).id
                 /\ ~(d.surface = newRow(c).surface /\ d.value = newRow(c).value)
      <3>1. d \in db.claim /\ c \in rows
        BY <1>10
      <3> QED BY <1>10, <1>11, <1>12, <3>1
    <2>3. ASSUME NEW c \in missing, NEW o \in missing
          PROVE  newRow(c).id = newRow(o).id <=>
                    (newRow(c).surface = newRow(o).surface /\ newRow(c).value = newRow(o).value)
      <3>1. c \in rows /\ o \in rows
        BY <1>10
      <3>2. newRow(c).id = newRow(o).id => c = o
        BY <1>11, <1>12
      <3>3. ASSUME newRow(c).surface = newRow(o).surface, newRow(c).value = newRow(o).value
            PROVE  c = o
        <4>1. c.surface = o.surface /\ c.value = o.value
          BY <1>9, <1>12, <3>1, <3>3
        <4>2. c.id = o.id
          BY <1>4, <3>1, <4>1
        <4> QED BY <1>3, <3>1, <4>1, <4>2 DEF Claim
      <3> QED BY <3>2, <3>3
    <2> SUFFICES ASSUME NEW d \in now, NEW e \in now
                 PROVE  d.id = e.id <=> (d.surface = e.surface /\ d.value = e.value)
      OBVIOUS
    <2>4. CASE d \in kept /\ e \in kept
      BY <2>1, <2>4
    <2>5. CASE d \in kept /\ \E c \in missing : e = newRow(c)
      BY <2>2, <2>5
    <2>6. CASE e \in kept /\ \E c \in missing : d = newRow(c)
      BY <2>2, <2>6
    <2>7. CASE (\E c \in missing : d = newRow(c)) /\ (\E c \in missing : e = newRow(c))
      BY <2>3, <2>7
    <2> QED BY <1>13, <2>4, <2>5, <2>6, <2>7
  <1>16. \A c \in rows : \E d \in now : d.surface = surfaces[c.surface] /\ d.value = c.value
    <2> SUFFICES ASSUME NEW c \in rows
                 PROVE  \E d \in now : d.surface = surfaces[c.surface] /\ d.value = c.value
      OBVIOUS
    <2>1. CASE c \in missing
      BY <1>12, <1>13, <2>1
    <2>2. CASE c \notin missing
      <3>1. PICK d \in db.claim : d.surface = surfaces[c.surface] /\ d.value = c.value
        BY <1>10, <2>2
      <3> QED BY <1>10, <1>13, <3>1
    <2> QED BY <2>1, <2>2
  <1>17. \A d \in now : \E c \in rows : d.surface = surfaces[c.surface] /\ d.value = c.value
    BY <1>10, <1>12, <1>13
  <1>18. known = rows
    BY <1>7, <1>16 DEF KeyHere
  <1>19. \A c \in rows, d \in now :
            /\ c.id \in DOMAIN map
            /\ d.surface = surfaces[c.surface] /\ d.value = c.value => map[c.id] = d.id
    <2> SUFFICES ASSUME NEW c \in rows, NEW d \in now
                 PROVE  /\ c.id \in DOMAIN map
                        /\ d.surface = surfaces[c.surface] /\ d.value = c.value => map[c.id] = d.id
      OBVIOUS
    <2> DEFINE it == CHOOSE e \in now : \E o \in known : o.id = c.id /\ KeyHere(e) = ClaimKey(o)
    <2>1. c.id \in DOMAIN map /\ map[c.id] = it.id
      BY <1>18
    <2>2. ASSUME d.surface = surfaces[c.surface], d.value = c.value
          PROVE  it.id = d.id
      <3>1. KeyHere(d) = ClaimKey(c)
        BY <1>7, <2>2 DEF KeyHere
      <3>2. \E e \in now : \E o \in known : o.id = c.id /\ KeyHere(e) = ClaimKey(o)
        BY <1>18, <3>1
      <3>3. it \in now /\ \E o \in known : o.id = c.id /\ KeyHere(it) = ClaimKey(o)
        BY <3>2
      <3> HIDE DEF it, known, map
      <3>4. PICK o \in rows : o.id = c.id /\ KeyHere(it) = ClaimKey(o)
        BY <1>18, <3>3
      <3>5. o.surface = c.surface /\ o.value = c.value
        BY <1>4, <3>4
      <3>6. it.surface = d.surface /\ it.value = d.value
        BY <1>7, <2>2, <3>4, <3>5 DEF KeyHere
      <3> QED BY <1>15, <3>3, <3>6
    <2> QED BY <2>1, <2>2
  <1> HIDE DEF map, known
  <1>20. \A d \in now, e \in file.claim :
            d.surface = e.surface /\ d.value = e.value => d.id = e.id
    <2> SUFFICES ASSUME NEW d \in now, NEW e \in file.claim,
                        d.surface = e.surface, d.value = e.value
                 PROVE  d.id = e.id
      OBVIOUS
    <2>1. PICK t \in db.surface : t.id = d.surface
      BY <1>8, <1>17
    <2>2. e \in db.claim
      BY <1>2, <2>1 DEF ClaimsHeld
    <2>3. d \in kept
      <3>1. \A c \in missing : d # newRow(c)
        BY <1>10, <1>12, <2>2
      <3> QED BY <1>13, <3>1
    <2> QED BY <1>5, <1>10, <2>2, <2>3
  <1>21. /\ build'.at = "claim_record" /\ build'.capture = build.capture
         /\ build'.scratch = build.scratch /\ build'.unwritten = build.unwritten
         /\ build'.surfaces = build.surfaces /\ build'.claims = map
         /\ build'.db = [db EXCEPT !.claim = now, !.cite = cites]
         /\ build' = [at |-> build'.at, capture |-> build'.capture, scratch |-> build'.scratch,
                   db |-> build'.db, unwritten |-> build'.unwritten,
                   surfaces |-> build'.surfaces, claims |-> build'.claims]
    BY <1>1, <1>2 DEF IsBuild
  <1>22. /\ build'.db.house = db.house /\ build'.db.surface = db.surface
         /\ build'.db.claim = now /\ build'.db.cite = cites
         /\ build'.db.quarantine = db.quarantine
         /\ build'.db = [house |-> build'.db.house, surface |-> build'.db.surface,
                         claim |-> build'.db.claim, cite |-> build'.db.cite,
                         quarantine |-> build'.db.quarantine]
    BY <1>3, <1>21
  <1>23. build'.db \in Tables
    BY <1>3, <1>14, <1>22 DEF Tables
  <1>24. IsBuild(build')
    BY <1>2, <1>21, <1>23 DEF IsBuild, Stage
  <1>25. SurfacesDone(build', file) /\ AliasesDone(build')
    BY <1>2, <1>21, <1>22 DEF SurfacesDone, AliasesDone
  <1>26. ClaimsDone(build', file)
    BY <1>15, <1>16, <1>17, <1>19, <1>20, <1>21, <1>22 DEF ClaimsDone, Same
  <1> QED BY <1>1, <1>2, <1>21, <1>24, <1>25, <1>26 DEF BuildOK

\* A build all of whose tables are done says what the scratch says.
LEMMA DoneReads ==
    ASSUME NEW b, NEW f, ScratchOK(b.scratch, b.capture), b.db \in Tables, b.capture \in Capture,
           SurfacesDone(b, f), AliasesDone(b), ClaimsDone(b, f),
           NEW db \in Tables, db.house = b.db.house, db.surface = b.db.surface,
           db.claim = b.db.claim,
           \A k \in b.scratch.claim, d \in db.claim :
               Same(b, k, d) => (k.id \in b.scratch.cite <=> d.id \in db.cite),
           \A i \in db.cite : \E d \in db.claim : d.id = i
    PROVE  Keyed(db) /\ Reads(db, b.capture)
  <1> DEFINE s == b.scratch
             to(r) == b.surfaces[r.id]
  <1>1. /\ \A t \in db.surface : t.id \in Number /\ t.name \in Name
        /\ \A r \in s.surface : r.id \in Number /\ r.name \in Name
    BY DEF ScratchOK, Tables, Surface
  <1>2. /\ Keyed(s) /\ Reads(s, b.capture)
    BY DEF ScratchOK
  <1>3. \A t \in db.surface : \E r \in s.surface : t.name = r.name /\ t.id = b.surfaces[r.id]
    BY DEF SurfacesDone
  <1>4. \A r \in s.surface : \E t \in db.surface : t.name = r.name /\ t.id = b.surfaces[r.id]
    BY DEF SurfacesDone
  <1>5. \A t, u \in db.surface : t # u => t.id # u.id /\ t.name # u.name
    BY DEF SurfacesDone
  <1>6. \A r \in s.surface, t \in db.surface :
            t.name = r.name => t.alias = IF r.alias = 0 THEN 0 ELSE b.surfaces[r.alias]
    BY DEF AliasesDone
  \* The rows an alias leads to, on either side, have one name.
  <1>7. ASSUME NEW r \in s.surface, NEW t \in db.surface, t.name = r.name, r.alias # 0
        PROVE  \E q \in s.surface, u \in db.surface :
                  /\ q.id = r.alias /\ q # r /\ q.alias = 0
                  /\ u.id = t.alias /\ u.name = q.name
    <2>1. PICK q \in s.surface : q.id = r.alias /\ q # r /\ q.alias = 0
      BY <1>2, <1>7 DEF Keyed
    <2>2. PICK u \in db.surface : u.name = q.name /\ u.id = b.surfaces[q.id]
      BY <1>4
    <2> QED BY <1>6, <1>7, <2>1, <2>2
  <1>8. Keyed(db)
    <2>1. \A g, h \in db.house : g[1] = h[1] <=> g[2] = h[2]
      BY <1>2 DEF SurfacesDone, Keyed
    <2>2. ASSUME NEW t \in db.surface, t.alias # 0
          PROVE  \E u \in db.surface : u.id = t.alias /\ u # t /\ u.alias = 0
      <3>1. PICK r \in s.surface : t.name = r.name
        BY <1>3
      <3>2. r.alias # 0
        BY <1>6, <2>2, <3>1
      <3>3. PICK q \in s.surface, u \in db.surface :
                  /\ q.id = r.alias /\ q # r /\ q.alias = 0
                  /\ u.id = t.alias /\ u.name = q.name
        BY <1>7, <3>1, <3>2
      <3>4. u.alias = 0
        BY <1>6, <3>3
      <3>5. u.name # t.name
        BY <1>2, <3>1, <3>3 DEF Keyed
      <3> QED BY <3>3, <3>4, <3>5
    <2>3. \A d, e \in db.claim :
            d.id = e.id <=> <<d.surface, d.value>> = <<e.surface, e.value>>
      BY DEF ClaimsDone
    <2>4. \A d \in db.claim : \E t \in db.surface : t.id = d.surface
      <3> SUFFICES ASSUME NEW d \in db.claim  PROVE \E t \in db.surface : t.id = d.surface
        OBVIOUS
      <3>1. PICK k \in s.claim : d.surface = b.surfaces[k.surface]
        BY DEF ClaimsDone, Same
      <3>2. PICK r \in s.surface : r.id = k.surface
        BY <1>2 DEF Keyed
      <3> QED BY <1>4, <3>1, <3>2
    <2> QED BY <1>5, <2>1, <2>2, <2>3, <2>4 DEF Keyed
  <1>9. b.capture.names = {t.name : t \in db.surface}
    <2>1. b.capture.names = {r.name : r \in s.surface}
      BY <1>2 DEF Reads
    <2>2. \A n \in {r.name : r \in s.surface} : n \in {t.name : t \in db.surface}
      BY <1>4
    <2>3. \A n \in {t.name : t \in db.surface} : n \in {r.name : r \in s.surface}
      BY <1>3
    <2> QED BY <2>1, <2>2, <2>3
  <1>10. ASSUME NEW m \in Name, NEW n \in Name
         PROVE  IsAlias(s, m, n) <=> IsAlias(db, m, n)
    <2>1. ASSUME IsAlias(s, m, n)  PROVE IsAlias(db, m, n)
      <3>1. PICK r \in s.surface, o \in s.surface : r.name = m /\ o.name = n /\ r.alias = o.id
        BY <2>1 DEF IsAlias
      <3>2. PICK t \in db.surface : t.name = r.name
        BY <1>4
      <3>3. r.alias # 0
        BY <1>1, <3>1 DEF Number
      <3>4. PICK q \in s.surface, u \in db.surface :
                 q.id = r.alias /\ u.id = t.alias /\ u.name = q.name
        BY <1>7, <3>2, <3>3
      <3>5. q = o
        BY <1>2, <3>1, <3>4 DEF Keyed
      <3> QED BY <3>1, <3>2, <3>4, <3>5 DEF IsAlias
    <2>2. ASSUME IsAlias(db, m, n)  PROVE IsAlias(s, m, n)
      <3>1. PICK t \in db.surface, w \in db.surface : t.name = m /\ w.name = n /\ t.alias = w.id
        BY <2>2 DEF IsAlias
      <3>2. PICK r \in s.surface : t.name = r.name
        BY <1>3
      <3>3. r.alias # 0
        <4>1. t.alias # 0
          BY <1>1, <3>1 DEF Number
        <4> QED BY <1>6, <3>2, <4>1
      <3>4. PICK q \in s.surface, u \in db.surface :
                 q.id = r.alias /\ u.id = t.alias /\ u.name = q.name
        BY <1>7, <3>2, <3>3
      <3>5. u = w
        BY <1>5, <3>1, <3>4
      <3> QED BY <3>1, <3>2, <3>4, <3>5 DEF IsAlias
    <2> QED BY <2>1, <2>2
  <1>11. ASSUME NEW k \in s.claim, NEW r \in s.surface, NEW d \in db.claim, NEW t \in db.surface,
                Same(b, k, d), k.surface = r.id, d.surface = t.id
         PROVE  t.name = r.name /\ d.value = k.value
    <2>1. t.id = b.surfaces[r.id] /\ d.value = k.value
      BY <1>11 DEF Same
    <2>2. PICK u \in db.surface : u.name = r.name /\ u.id = b.surfaces[r.id]
      BY <1>4
    <2> QED BY <1>5, <2>1, <2>2
  <1>12. /\ \A k \in s.claim : \E d \in db.claim, t \in db.surface : Same(b, k, d) /\ d.surface = t.id
         /\ \A d \in db.claim : \E k \in s.claim, r \in s.surface : Same(b, k, d) /\ k.surface = r.id
    <2>1. /\ \A k \in s.claim : \E d \in db.claim : Same(b, k, d)
          /\ \A d \in db.claim : \E k \in s.claim : Same(b, k, d)
      BY DEF ClaimsDone
    <2>2. /\ \A d \in db.claim : \E t \in db.surface : t.id = d.surface
          /\ \A k \in s.claim : \E r \in s.surface : r.id = k.surface
      BY <1>2, <1>8 DEF Keyed
    <2> QED BY <2>1, <2>2
  <1>13. ASSUME NEW n \in Name, NEW v \in Value
         PROVE  IsClaim(s, n, v) <=> IsClaim(db, n, v)
    <2>1. ASSUME IsClaim(s, n, v)  PROVE IsClaim(db, n, v)
      <3>1. PICK k \in s.claim, r \in s.surface : k.surface = r.id /\ r.name = n /\ k.value = v
        BY <2>1 DEF IsClaim
      <3>2. PICK d \in db.claim, t \in db.surface : Same(b, k, d) /\ d.surface = t.id
        BY <1>12
      <3> QED BY <1>11, <3>1, <3>2 DEF IsClaim
    <2>2. ASSUME IsClaim(db, n, v)  PROVE IsClaim(s, n, v)
      <3>1. PICK d \in db.claim, t \in db.surface : d.surface = t.id /\ t.name = n /\ d.value = v
        BY <2>2 DEF IsClaim
      <3>2. PICK k \in s.claim, r \in s.surface : Same(b, k, d) /\ k.surface = r.id
        BY <1>12
      <3> QED BY <1>11, <3>1, <3>2 DEF IsClaim
    <2> QED BY <2>1, <2>2
  <1>14. ASSUME NEW n \in Name, NEW v \in Value
         PROVE  IsCited(s, n, v) <=> IsCited(db, n, v)
    <2>1. ASSUME IsCited(s, n, v)  PROVE IsCited(db, n, v)
      <3>1. PICK k \in s.claim, r \in s.surface :
                k.surface = r.id /\ r.name = n /\ k.value = v /\ k.id \in s.cite
        BY <2>1 DEF IsCited
      <3>2. PICK d \in db.claim, t \in db.surface : Same(b, k, d) /\ d.surface = t.id
        BY <1>12
      <3>3. d.id \in db.cite
        BY <3>1, <3>2
      <3> QED BY <1>11, <3>1, <3>2, <3>3 DEF IsCited
    <2>2. ASSUME IsCited(db, n, v)  PROVE IsCited(s, n, v)
      <3>1. PICK d \in db.claim, t \in db.surface :
                d.surface = t.id /\ t.name = n /\ d.value = v /\ d.id \in db.cite
        BY <2>2 DEF IsCited
      <3>2. PICK k \in s.claim, r \in s.surface : Same(b, k, d) /\ k.surface = r.id
        BY <1>12
      <3>3. k.id \in s.cite
        BY <3>1, <3>2
      <3> QED BY <1>11, <3>1, <3>2, <3>3 DEF IsCited
    <2> QED BY <2>1, <2>2
  <1>15. b.capture.house = db.house
    BY <1>2 DEF Reads, SurfacesDone
  <1>16. Reads(db, b.capture)
    <2>1. \A m, n \in Name : <<m, n>> \in b.capture.alias <=> IsAlias(db, m, n)
      BY <1>2, <1>10 DEF Reads
    <2>2. \A n \in Name, v \in Value : <<n, v>> \in b.capture.claims <=> IsClaim(db, n, v)
      BY <1>2, <1>13 DEF Reads
    <2>3. \A n \in Name, v \in Value : <<n, v>> \in b.capture.cited <=> IsCited(db, n, v)
      BY <1>2, <1>14 DEF Reads
    <2> QED BY <1>9, <1>15, <2>1, <2>2, <2>3 DEF Reads
  <1> QED BY <1>8, <1>16

LEMMA ReconcileClaimRecordOK ==
    ASSUME BuildOK(build, file), ReconcileClaimRecord
    PROVE  BuildOK(build', file')
  <1> DEFINE db == build.db
             cites == {Through(build.claims, i) : i \in build.scratch.cite}
  <1>1. /\ build.at = "claim_record" /\ file' = file
        /\ build' = [build EXCEPT !.at = "commit", !.db.cite = cites]
    BY DEF ReconcileClaimRecord
  <1>2. /\ IsBuild(build) /\ ScratchOK(build.scratch, build.capture) /\ FileOK(file)
        /\ SurfacesDone(build, file) /\ AliasesDone(build) /\ ClaimsDone(build, file)
    BY <1>1 DEF BuildOK
  <1>3. /\ db = [house |-> db.house, surface |-> db.surface, claim |-> db.claim,
                 cite |-> db.cite, quarantine |-> db.quarantine]
        /\ db.house \subseteq House \X Label /\ db.surface \subseteq Surface
        /\ db.claim \subseteq Claim /\ db.quarantine \subseteq Row
    BY <1>2 DEF IsBuild, Tables
  <1>4. \A i \in build.scratch.cite : \E k \in build.scratch.claim, d \in db.claim :
            k.id = i /\ Same(build, k, d) /\ Through(build.claims, i) = d.id
    <2> SUFFICES ASSUME NEW i \in build.scratch.cite
                 PROVE  \E k \in build.scratch.claim, d \in db.claim :
                            k.id = i /\ Same(build, k, d) /\ Through(build.claims, i) = d.id
      OBVIOUS
    <2>1. PICK k \in build.scratch.claim : k.id = i
      BY <1>2 DEF ScratchOK, Keyed
    <2>2. PICK d \in db.claim : Same(build, k, d)
      BY <1>2 DEF ClaimsDone
    <2>3. i \in DOMAIN build.claims /\ build.claims[i] = d.id
      BY <1>2, <2>1, <2>2 DEF ClaimsDone
    <2> QED BY <2>1, <2>2, <2>3 DEF Through
  <1>5. \A i \in cites : \E d \in db.claim : d.id = i
    BY <1>4
  <1>6. ASSUME NEW k \in build.scratch.claim, NEW d \in db.claim, Same(build, k, d)
        PROVE  k.id \in build.scratch.cite <=> d.id \in cites
    <2>1. k.id \in DOMAIN build.claims /\ build.claims[k.id] = d.id
      BY <1>2, <1>6 DEF ClaimsDone
    <2>2. ASSUME d.id \in cites
          PROVE  k.id \in build.scratch.cite
      <3>1. PICK i \in build.scratch.cite : d.id = Through(build.claims, i)
        BY <2>2
      <3>2. PICK j \in build.scratch.claim, e \in db.claim :
                j.id = i /\ Same(build, j, e) /\ e.id = d.id
        BY <1>4, <3>1
      <3>3. e.surface = d.surface /\ e.value = d.value
        BY <1>2, <3>2 DEF ClaimsDone
      <3>4. build.surfaces[j.surface] = build.surfaces[k.surface] /\ j.value = k.value
        BY <1>6, <3>2, <3>3 DEF Same
      <3>5. j.surface = k.surface
        <4>1. PICK r \in build.scratch.surface, q \in build.scratch.surface :
                  r.id = j.surface /\ q.id = k.surface
          BY <1>2 DEF ScratchOK, Keyed
        <4>2. q = r
          BY <1>2, <3>4, <4>1, SurfaceLeads
        <4> QED BY <4>1, <4>2
      <3>6. j.id = k.id
        BY <1>2, <3>4, <3>5 DEF ScratchOK, Keyed
      <3> QED BY <3>2, <3>6
    <2> QED BY <2>1, <2>2 DEF Through
  <1> HIDE DEF cites
  <1>7. /\ build'.at = "commit" /\ build'.capture = build.capture
        /\ build'.scratch = build.scratch /\ build'.unwritten = build.unwritten
        /\ build'.db = [db EXCEPT !.cite = cites]
        /\ build' = [at |-> build'.at, capture |-> build'.capture, scratch |-> build'.scratch,
                  db |-> build'.db, unwritten |-> build'.unwritten,
                  surfaces |-> build'.surfaces, claims |-> build'.claims]
    BY <1>1, <1>2 DEF IsBuild
  <1>8. /\ build'.db.house = db.house /\ build'.db.surface = db.surface
        /\ build'.db.claim = db.claim /\ build'.db.cite = cites
        /\ build'.db.quarantine = db.quarantine
        /\ build'.db = [house |-> build'.db.house, surface |-> build'.db.surface,
                        claim |-> build'.db.claim, cite |-> build'.db.cite,
                        quarantine |-> build'.db.quarantine]
    BY <1>3, <1>7
  <1>9. build'.db \in Tables
    <2>1. cites \subseteq Number
      BY <1>3, <1>5 DEF Claim
    <2> QED BY <1>3, <1>8, <2>1 DEF Tables
  <1>10. IsBuild(build')
    BY <1>2, <1>7, <1>9 DEF IsBuild, Stage
  <1>11. AllDone(build', file)
    <2>1. db \in Tables /\ build.capture \in Capture
      BY <1>2 DEF IsBuild
    <2>2. Keyed(build'.db) /\ Reads(build'.db, build.capture)
      BY <1>2, <1>5, <1>6, <1>8, <1>9, <2>1, DoneReads
    <2>3. db.quarantine = file.quarantine
      BY <1>2 DEF SurfacesDone
    <2> QED BY <1>2, <1>7, <1>8, <2>2, <2>3 DEF AllDone, SurfacesDone, ClaimsDone
  <1> QED BY <1>1, <1>2, <1>7, <1>10, <1>11 DEF BuildOK

-----------------------------------------------------------------------------
(* The steps.                                                              *)

\* What a table's step leaves alone.
Reconcile ==
    \/ \E row \in House \X Label : WritePublisher(row)
    \/ DropPublishers \/ ReconcileSurface \/ SetAliases
    \/ ReconcileClaim \/ ReconcileClaimRecord

LEMMA ReconcileOK ==
    ASSUME BuildOK(build, file), Reconcile
    PROVE  /\ BuildOK(build', file') /\ file' = file
           /\ build'.capture = build.capture /\ build.at # "commit"
  <1>0. IsBuild(build)
    BY DEF BuildOK
  <1>1. ASSUME NEW row, WritePublisher(row)
        PROVE  /\ BuildOK(build', file') /\ file' = file
               /\ build'.capture = build.capture /\ build.at # "commit"
    <2>1. file' = file /\ build.at = "publisher"
      BY <1>1 DEF WritePublisher
    <2>2. build'.capture = build.capture
      BY <1>0, <1>1 DEF WritePublisher, IsBuild
    <2> QED BY <1>1, <2>1, <2>2, WritePublisherOK
  <1>2. CASE DropPublishers
    <2>1. file' = file /\ build.at = "publisher" /\ build'.capture = build.capture
      BY <1>0, <1>2 DEF DropPublishers, IsBuild
    <2> QED BY <1>2, <2>1, DropPublishersOK
  <1>3. CASE ReconcileSurface
    <2>1. file' = file /\ build.at = "surface" /\ build'.capture = build.capture
      BY <1>0, <1>3 DEF ReconcileSurface, IsBuild
    <2> QED BY <1>3, <2>1, ReconcileSurfaceOK
  <1>4. CASE SetAliases
    <2>1. file' = file /\ build.at = "alias" /\ build'.capture = build.capture
      BY <1>0, <1>4 DEF SetAliases, IsBuild
    <2> QED BY <1>4, <2>1, SetAliasesOK
  <1>5. CASE ReconcileClaim
    <2>1. file' = file /\ build.at = "claim" /\ build'.capture = build.capture
      BY <1>0, <1>5 DEF ReconcileClaim, IsBuild
    <2> QED BY <1>5, <2>1, ReconcileClaimOK
  <1>6. CASE ReconcileClaimRecord
    <2>1. file' = file /\ build.at = "claim_record" /\ build'.capture = build.capture
      BY <1>0, <1>6 DEF ReconcileClaimRecord, IsBuild
    <2> QED BY <1>6, <2>1, ReconcileClaimRecordOK
  <1> QED BY <1>1, <1>2, <1>3, <1>4, <1>5, <1>6 DEF Reconcile

LEMMA IdleIsNoStage ==
    NoBuild.at \notin Stage
  BY DEF NoBuild, Stage

\* The file says what the capture says once it is committed, or copied.
LEMMA CommitOK ==
    ASSUME BuildOK(build, file), Commit
    PROVE  /\ StoreOK(file', build') /\ build' = NoBuild /\ file' = build.db
           /\ file' \in Tables /\ Said(file') = build.capture
           /\ Said(file') = Said(file) => file' = file
  <1>1. build.at = "commit" /\ file' = build.db /\ build' = NoBuild
    BY DEF Commit
  <1>2. /\ IsBuild(build) /\ FileOK(file) /\ AllDone(build, file)
    BY <1>1 DEF BuildOK
  <1>3. build.db \in Tables /\ Keyed(build.db) /\ Reads(build.db, build.capture)
        /\ build.capture \in Statement
    BY <1>2, StoreAssumption DEF IsBuild, AllDone
  <1>4. Said(build.db) = build.capture
    BY <1>3, ReadsIsSaid
  <1>5. ASSUME Said(build.db) = Said(file)  PROVE build.db = file
    <2>1. /\ \A t \in build.db.surface, u \in file.surface : t.id = u.id <=> t.name = u.name
          /\ \A d \in build.db.claim, e \in file.claim :
                d.surface = e.surface /\ d.value = e.value => d.id = e.id
          /\ build.db.quarantine = file.quarantine
      BY <1>2 DEF AllDone
    <2>2. file \in Tables /\ Keyed(file)
      BY <1>2 DEF FileOK
    <2> QED BY <1>3, <1>5, <2>1, <2>2, SameStore
  <1> QED BY <1>1, <1>3, <1>4, <1>5 DEF StoreOK

LEMMA CopyOK ==
    ASSUME BuildOK(build, file), Copy
    PROVE  /\ StoreOK(file', build') /\ build' = NoBuild
           /\ file' \in Tables /\ Said(file') = build.capture
  <1>1. file' = build.scratch /\ build' = NoBuild
    BY DEF Copy
  <1>2. /\ build.scratch \in Tables /\ Keyed(build.scratch)
        /\ Reads(build.scratch, build.capture) /\ build.capture \in Statement
    BY StoreAssumption DEF BuildOK, IsBuild, ScratchOK
  <1>3. Said(build.scratch) = build.capture
    BY <1>2, ReadsIsSaid
  <1> QED BY <1>1, <1>2, <1>3 DEF StoreOK

LEMMA UnlinkOK ==
    ASSUME BuildOK(build, file), Unlink
    PROVE  /\ BuildOK(build', file') /\ file' = NoFile /\ build'.capture = build.capture
  <1>1. build.at = "unlink" /\ file' = NoFile /\ build' = [build EXCEPT !.at = "copy"]
    BY DEF Unlink
  <1>2. IsBuild(build) /\ ScratchOK(build.scratch, build.capture)
    BY DEF BuildOK
  <1>3. /\ build'.at = "copy" /\ build'.capture = build.capture
        /\ build'.scratch = build.scratch /\ build'.db = build.db
        /\ build'.unwritten = build.unwritten
        /\ build' = [at |-> build'.at, capture |-> build'.capture, scratch |-> build'.scratch,
                  db |-> build'.db, unwritten |-> build'.unwritten,
                  surfaces |-> build'.surfaces, claims |-> build'.claims]
    BY <1>1, <1>2 DEF IsBuild
  <1>4. IsBuild(build')
    BY <1>2, <1>3 DEF IsBuild, Stage
  <1> QED BY <1>1, <1>2, <1>3, <1>4 DEF BuildOK

LEMMA CrashOK ==
    ASSUME StoreOK(file, build), Crash
    PROVE  /\ StoreOK(file', build') /\ build' = NoBuild /\ Says(file') = Says(file)
           /\ build.at = "commit" => file' = file
  <1>1. /\ build # NoBuild /\ build' = NoBuild
        /\ file' \in IF build.at = "copy" THEN {NoFile, Blank} ELSE {file}
    BY DEF Crash
  <1>2. CASE build.at = "copy"
    <2>1. file = NoFile
      BY <1>1, <1>2 DEF StoreOK, BuildOK
    <2>2. Says(file) = Nothing /\ Says(NoFile) = Nothing
      BY <2>1 DEF Says
    <2>3. Says(Blank) = Nothing
      BY BlankIsKeyed, NoFileIsNone DEF Says, Nothing
    <2>4. file' \in {NoFile, Blank}
      BY <1>1, <1>2
    <2> QED BY <1>1, <1>2, <2>2, <2>3, <2>4, BlankIsKeyed DEF StoreOK
  <1>3. CASE build.at # "copy"
    <2>1. file' = file
      BY <1>1, <1>3
    <2> QED BY <1>1, <2>1 DEF StoreOK, Says
  <1> QED BY <1>2, <1>3

LEMMA StoreKept ==
    ASSUME StoreOK(file, build), [Next]_vars
    PROVE  StoreOK(file', build')
  <1>1. CASE Compile
    BY <1>1, CompileOK
  <1>2. ASSUME build # NoBuild => BuildOK(build, file)
        PROVE  Reconcile \/ Commit \/ Save => BuildOK(build, file)
    <2>1. Reconcile \/ Commit \/ Save => build.at \in Stage
      BY DEF Reconcile, WritePublisher, DropPublishers, ReconcileSurface, SetAliases,
             ReconcileClaim, ReconcileClaimRecord, Commit, Save, Unlink, Copy, Stage
    <2> QED BY <1>2, <2>1, IdleIsNoStage
  <1>3. Reconcile \/ Commit \/ Save => BuildOK(build, file)
    BY <1>2 DEF StoreOK
  <1>4. file = NoFile \/ (file \in Tables /\ Keyed(file))
    BY DEF StoreOK
  <1>5. CASE Reconcile
    BY <1>3, <1>4, <1>5, ReconcileOK DEF StoreOK
  <1>6. CASE Commit
    BY <1>3, <1>6, CommitOK
  <1>7. CASE Save
    BY <1>3, <1>7, CopyOK, UnlinkOK DEF Save, StoreOK
  <1>8. CASE Crash
    BY <1>8, CrashOK
  <1>9. CASE UNCHANGED vars
    BY <1>9 DEF vars
  <1> QED BY <1>1, <1>5, <1>6, <1>7, <1>8, <1>9 DEF Next, Apply, Reconcile

LEMMA StoreAlways ==
    Spec => []StoreOK(file, build)
  <1>1. Init => StoreOK(file, build)
    BY DEF Init, StoreOK
  <1>2. StoreOK(file, build) /\ [Next]_vars => StoreOK(file, build)'
    BY StoreKept
  <1> QED BY <1>1, <1>2, PTL DEF Spec

-----------------------------------------------------------------------------
(* The theorems.                                                           *)

(* The committed file passes every constraint of the schema, and so does   *)
(* the scratch, whatever is compiled and wherever a build is killed.       *)
THEOREM StoreTypeCorrectness ==
    Spec => []StoreTypeOK
  <1>1. StoreOK(file, build) => StoreTypeOK
    BY DEF StoreOK, StoreTypeOK, BuildOK, IsBuild, ScratchOK
  <1> QED BY <1>1, StoreAlways, PTL

\* What a build in the middle of its tables does is nothing, to a reader.
LEMMA StepIsCompiled ==
    ASSUME StoreOK(file, build), [Next]_vars
    PROVE  [Compiled!Next]_<<Says(file), IF build = NoBuild THEN {} ELSE {build.capture}>>
  <1> DEFINE building == IF build = NoBuild THEN {} ELSE {build.capture}
  <1>1. Reconcile \/ Commit \/ Save => BuildOK(build, file)
    <2>1. Reconcile \/ Commit \/ Save => build.at \in Stage
      BY DEF Reconcile, WritePublisher, DropPublishers, ReconcileSurface, SetAliases,
             ReconcileClaim, ReconcileClaimRecord, Commit, Save, Unlink, Copy, Stage
    <2> QED BY <2>1, IdleIsNoStage DEF StoreOK
  <1>2. BuildOK(build, file) => build # NoBuild /\ building = {build.capture}
    BY BuildIsOne DEF BuildOK
  <1>3. CASE Compile
    <2>1. PICK c \in Capture : build'.capture = c /\ build'.at \in Stage
      BY <1>3 DEF Compile, Stage
    <2>2. build' # NoBuild
      BY <2>1, IdleIsNoStage
    <2>3. building = {} /\ file' = file
      BY <1>3 DEF Compile
    <2> QED BY <2>1, <2>2, <2>3 DEF Compiled!Next, Compiled!Begin
  <1>4. CASE Reconcile
    <2>1. BuildOK(build', file') /\ file' = file /\ build'.capture = build.capture
      BY <1>1, <1>4, ReconcileOK
    <2>2. build' # NoBuild
      BY <2>1, BuildIsOne DEF BuildOK
    <2> QED BY <1>1, <1>2, <1>4, <2>1, <2>2
  <1>5. CASE Commit
    <2>1. build' = NoBuild /\ file' \in Tables /\ Said(file') = build.capture
      BY <1>1, <1>5, CommitOK
    <2>2. file' # NoFile
      BY <2>1, NoFileIsNone
    <2>3. Says(file)' = build.capture
      BY <2>1, <2>2 DEF Says
    <2> QED BY <1>1, <1>2, <1>5, <2>1, <2>3 DEF Compiled!Next, Compiled!Finish
  <1>6. CASE Copy
    <2>1. build' = NoBuild /\ file' \in Tables /\ Said(file') = build.capture
      BY <1>1, <1>6, CopyOK DEF Save
    <2>2. file' # NoFile
      BY <2>1, NoFileIsNone
    <2>3. Says(file)' = build.capture
      BY <2>1, <2>2 DEF Says
    <2> QED BY <1>1, <1>2, <1>6, <2>1, <2>3 DEF Save, Compiled!Next, Compiled!Finish
  <1>7. CASE Unlink
    <2>1. BuildOK(build', file') /\ file' = NoFile /\ build'.capture = build.capture
      BY <1>1, <1>7, UnlinkOK DEF Save
    <2>2. build' # NoBuild
      BY <2>1, BuildIsOne DEF BuildOK
    <2>3. Says(file)' = Nothing
      BY <2>1 DEF Says
    <2> QED BY <1>1, <1>2, <1>7, <2>1, <2>2, <2>3 DEF Save, Compiled!Next, Compiled!Replace
  <1>8. CASE Crash
    <2>1. build' = NoBuild /\ Says(file') = Says(file) /\ build # NoBuild
      BY <1>8, CrashOK DEF Crash
    <2> QED BY <2>1 DEF Compiled!Next, Compiled!Abandon
  <1>9. CASE UNCHANGED vars
    BY <1>9 DEF vars
  <1> QED BY <1>3, <1>4, <1>5, <1>6, <1>7, <1>8, <1>9 DEF Next, Apply, Save, Reconcile

(* Whatever store a build starts from, and however the scratch and the     *)
(* file number their rows, what the file says is what a run's capture      *)
(* said, or nothing: the store implements the compiled one.                *)
THEOREM ImplementsCompiledStore ==
    Spec => StoreIsCompiled
  <1>1. Init => Compiled!Init
    BY DEF Init, Compiled!Init, Says
  <1>2. StoreOK(file, build) /\ [Next]_vars
            => [Compiled!Next]_<<Says(file), IF build = NoBuild THEN {} ELSE {build.capture}>>
    BY StepIsCompiled
  <1> QED BY <1>1, <1>2, StoreAlways, PTL DEF Spec, StoreIsCompiled, Compiled!Spec

(* A delta that leaves the store saying what it said leaves the file as it *)
(* was, the numbers of its rows included.                                  *)
THEOREM UnmovedRowsStay ==
    Spec => UnmovedIsUntouched
  <1>1. ASSUME StoreOK(file, build), [Next]_vars
        PROVE  [build.at = "commit" /\ file' # file => Says(file') # Says(file)]_vars
    <2> SUFFICES ASSUME build.at = "commit", file' # file
                 PROVE  Says(file') # Says(file)
      BY DEF vars
    <2>1. build # NoBuild
      BY DEF NoBuild
    <2>2. BuildOK(build, file)
      BY <1>1, <2>1 DEF StoreOK
    <2>3. CASE Commit
      <3>1. file \in Tables /\ file' \in Tables
        BY <2>2, <2>3, CommitOK DEF BuildOK, FileOK
      <3>2. Says(file) = Said(file) /\ Says(file') = Said(file')
        BY <3>1, NoFileIsNone DEF Says
      <3> QED BY <2>2, <2>3, <3>2, CommitOK
    <2>4. CASE Crash
      BY <1>1, <2>4, CrashOK
    <2>5. ~Compile /\ ~Save /\ ~UNCHANGED vars
      BY <2>1 DEF Compile, Save, Unlink, Copy, vars
    <2>6. ~Reconcile
      BY <2>2, ReconcileOK
    <2> QED BY <1>1, <2>3, <2>4, <2>5, <2>6 DEF Next, Apply, Reconcile
  <1> QED BY <1>1, StoreAlways, PTL DEF Spec, UnmovedIsUntouched

\* A delta that is committed, as opposed to a file put in the place of the other:
\* what was quarantined stays, a number stands for the name it stood for, and a
\* claim that keeps its name and value keeps its number.
DeltaKeepsWhatStood ==
    [][build.at = "commit" /\ file' = build.db =>
        /\ file'.quarantine = file.quarantine
        /\ \A t \in file'.surface, u \in file.surface : t.id = u.id <=> t.name = u.name
        /\ \A d \in file'.claim, e \in file.claim :
               d.surface = e.surface /\ d.value = e.value => d.id = e.id]_vars

(* A build that goes through as a delta leaves what was quarantined, moves *)
(* no number from one name to another, and renumbers no claim it keeps:    *)
(* what a build loses of the store's own memory, it loses by putting       *)
(* another file in its place.                                              *)
THEOREM DeltasKeepWhatStood ==
    Spec => DeltaKeepsWhatStood
  <1>1. ASSUME StoreOK(file, build)
        PROVE  build.at = "commit" /\ file' = build.db =>
                 /\ file'.quarantine = file.quarantine
                 /\ \A t \in file'.surface, u \in file.surface : t.id = u.id <=> t.name = u.name
                 /\ \A d \in file'.claim, e \in file.claim :
                        d.surface = e.surface /\ d.value = e.value => d.id = e.id
    <2> SUFFICES ASSUME build.at = "commit", file' = build.db
                 PROVE  AllDone(build, file)
      BY DEF AllDone
    <2>1. build # NoBuild
      BY DEF NoBuild
    <2> QED BY <1>1, <2>1 DEF StoreOK, BuildOK
  <1> QED BY <1>1, StoreAlways, PTL DEF DeltaKeepsWhatStood
=============================================================================
