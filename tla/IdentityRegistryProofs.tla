----------------------- MODULE IdentityRegistryProofs -----------------------
(***************************************************************************)
(* What holds of the identifier registry for every set of addresses, every *)
(* population and every number of identifiers, with merges of any two      *)
(* entries, so that the links may close circles.                           *)
(*                                                                         *)
(* First the walk of survivor over any links: that its loop ends, what it  *)
(* answers, and what repointing one link does to it.  Then the operations  *)
(* on a sound registry, one whose links form a forest and whose anchors    *)
(* each resolve to one work; no operation but an undoing merge leaves it.  *)
(* Then what every registry keeps, sound or not, and last the promise to a *)
(* reader, which a sound registry implements.                              *)
(***************************************************************************)
EXTENDS SurvivorWalk, FiniteSetTheorems, WellFoundedInduction, TLAPS

-----------------------------------------------------------------------------
(* The walk along merged_into.                                             *)

\* An identifier is a positive number, so None (no successor) is none of them.
LEMMA IdsFacts == Ids \subseteq Nat /\ None \notin Ids /\ Ids \subseteq Int
  BY MaxIdAssumption DEF Ids, None

\* The identifiers met from i are i itself and those met from its successor.
LEMMA MetSteps ==
    ASSUME mergedInto \in [Ids -> Ids \union {None}], NEW i \in Ids
    PROVE  /\ Live(i) => Met(i) = {i}
           /\ ~Live(i) => /\ mergedInto[i] \in Ids
                          /\ Met(i) = {i} \union Met(mergedInto[i])
  <1>1. ASSUME NEW k \in Ids
        PROVE  Met(k) \subseteq Ids /\ k \in Met(k) /\ Closed(Met(k))
    <2>1. Met(k) \subseteq Ids /\ k \in Met(k)
      BY DEF Met
    <2>2. ASSUME NEW j \in Met(k), ~Live(j) PROVE mergedInto[j] \in Met(k)
      <3>1. j \in Ids /\ mergedInto[j] \in Ids
        BY <2>1, <2>2 DEF Live
      <3>2. ASSUME NEW S \in SUBSET Ids, k \in S, Closed(S)
            PROVE  mergedInto[j] \in S
        BY <2>2, <3>2 DEF Met, Closed
      <3> QED BY <3>1, <3>2 DEF Met
    <2> QED BY <2>1, <2>2 DEF Closed
  <1>2. ASSUME Live(i) PROVE Met(i) = {i}
    <2>1. {i} \in SUBSET Ids /\ i \in {i} /\ Closed({i})
      BY <1>2 DEF Closed
    <2>2. Met(i) \subseteq {i}
      BY <2>1 DEF Met
    <2> QED BY <1>1, <2>2
  <1>3. ASSUME ~Live(i)
        PROVE  mergedInto[i] \in Ids /\ Met(i) = {i} \union Met(mergedInto[i])
    <2> DEFINE k == mergedInto[i]
    <2>1. k \in Ids
      BY <1>3 DEF Live
    <2>2. Met(k) \subseteq Ids /\ k \in Met(k) /\ Closed(Met(k))
      BY <1>1, <2>1
    <2>3. Met(i) \subseteq {i} \union Met(k)
      <3>1. {i} \union Met(k) \in SUBSET Ids /\ Closed({i} \union Met(k))
        BY <2>2 DEF Closed
      <3> QED BY <3>1 DEF Met
    <2>4. Met(k) \subseteq Met(i)
      <3>1. Met(i) \subseteq Ids /\ Closed(Met(i)) /\ k \in Met(i)
        BY <1>1, <1>3 DEF Closed
      <3> QED BY <3>1 DEF Met
    <2> QED BY <1>1, <2>1, <2>3, <2>4
  <1> QED BY <1>2, <1>3

\* While the merges form a forest, the walk from every identifier ends at

-----------------------------------------------------------------------------
(* The loop of survivor and its closed form, over any links: --merge asks  *)
(* of its two entries only that they exist, so nothing keeps the links a   *)
(* forest there, and survivor must end all the same.                       *)

\* What merged_into may be.
Links == [Ids -> Ids \union {None}]

\* Where the loop ends.
WalkStops(m, i, seen) == i \in seen \/ m[i] = None

\* A turn of the loop.  The loop, written as a function, has a value: with
\* every state of it goes the identifier of the stop that lies ahead, and that
\* assignment satisfies its equation.
LEMMA WalkSteps ==
    ASSUME NEW m \in Links, NEW i \in Ids, NEW seen \in SUBSET Ids
    PROVE  Walk(m)[seen][i] = IF WalkStops(m, i, seen) THEN i
                              ELSE Walk(m)[seen \union {i}][m[i]]
  <1> DEFINE Q == Ids \X SUBSET Ids
             Stop(q) == WalkStops(m, q[1], q[2])
             Onward(q) == <<m[q[1]], q[2] \union {q[1]}>>
             Shut(S) == \A q \in S : Stop(q) \/ Onward(q) \in S
             Ahead(q) == {r \in Q : \A S \in SUBSET Q : q \in S /\ Shut(S) => r \in S}
             Ends(q) == {j \in Ids : \E r \in Ahead(q) : Stop(r) /\ r[1] = j}
             A(k, s) == CHOOSE j : j \in Ends(<<k, s>>)
             G == [s \in SUBSET Ids |-> [k \in Ids |-> A(k, s)]]
  <1>1. ASSUME NEW q \in Q, ~Stop(q) PROVE Onward(q) \in Q
    BY <1>1 DEF WalkStops, Links
  <1>2. ASSUME NEW q \in Q PROVE Ahead(q) \in SUBSET Q /\ q \in Ahead(q) /\ Shut(Ahead(q))
    <2>1. Ahead(q) \in SUBSET Q /\ q \in Ahead(q)
      OBVIOUS
    <2>2. ASSUME NEW r \in Ahead(q), ~Stop(r) PROVE Onward(r) \in Ahead(q)
      <3>1. r \in Q /\ Onward(r) \in Q
        BY <2>1, <2>2, <1>1
      <3> HIDE DEF Q, Stop, Onward
      <3>2. ASSUME NEW S \in SUBSET Q, q \in S, Shut(S) PROVE Onward(r) \in S
        BY <2>2, <3>2
      <3> QED BY <3>1, <3>2
    <2> QED BY <2>1, <2>2
  <1>3. ASSUME NEW q \in Q, Stop(q) PROVE Ahead(q) = {q}
    <2> HIDE DEF Q, Stop, Onward
    <2>1. {q} \in SUBSET Q /\ q \in {q} /\ Shut({q})
      BY <1>3
    <2>2. Ahead(q) \subseteq {q}
      BY <2>1
    <2> QED BY <1>2, <2>2
  <1>4. ASSUME NEW q \in Q, ~Stop(q) PROVE Ahead(q) = {q} \union Ahead(Onward(q))
    <2> DEFINE p == Onward(q)
    <2>1. p \in Q
      BY <1>1, <1>4
    <2>2. Ahead(p) \in SUBSET Q /\ p \in Ahead(p) /\ Shut(Ahead(p))
      BY <1>2, <2>1
    <2>3. Ahead(q) \in SUBSET Q /\ q \in Ahead(q) /\ Shut(Ahead(q))
      BY <1>2
    <2> HIDE DEF Q, Stop, Onward
    <2>4. Ahead(q) \subseteq {q} \union Ahead(p)
      <3>1. {q} \union Ahead(p) \in SUBSET Q /\ Shut({q} \union Ahead(p))
        BY <2>2
      <3> QED BY <3>1
    <2>5. Ahead(p) \subseteq Ahead(q)
      BY <1>4, <2>3
    <2> QED BY <2>3, <2>4, <2>5
  <1>5. ASSUME NEW q \in Q PROVE /\ Stop(q) => Ends(q) = {q[1]}
                                 /\ ~Stop(q) => Ends(q) = Ends(Onward(q))
    <2>1. q[1] \in Ids
      OBVIOUS
    <2> HIDE DEF Q, Stop, Onward, Ahead
    <2> QED BY <1>3, <1>4, <2>1
  <1>6. ASSUME NEW k \in Ids, NEW s \in SUBSET Ids
        PROVE  G[s][k] = IF WalkStops(m, k, s) THEN k ELSE G[s \union {k}][m[k]]
    <2> DEFINE q == <<k, s>>
    <2>1. q \in Q /\ q[1] = k /\ q[2] = s
      OBVIOUS
    <2>2. (Stop(q) <=> WalkStops(m, k, s)) /\ Onward(q) = <<m[k], s \union {k}>>
      BY <2>1
    <2>3. G[s][k] = CHOOSE j : j \in Ends(q)
      BY <2>1
    <2>4. CASE Stop(q)
      <3>1. Ends(q) = {k}
        BY <1>5, <2>1, <2>4
      <3> HIDE DEF G, Ends
      <3> QED BY <2>2, <2>3, <2>4, <3>1
    <2>5. CASE ~Stop(q)
      <3>1. Ends(q) = Ends(Onward(q)) /\ m[k] \in Ids
        BY <1>5, <2>1, <2>5 DEF WalkStops, Links
      <3>2. G[s \union {k}][m[k]] = CHOOSE j : j \in Ends(<<m[k], s \union {k}>>)
        BY <3>1
      <3> HIDE DEF G, Ends
      <3> QED BY <2>2, <2>3, <2>5, <3>1, <3>2
    <2> QED BY <2>4, <2>5
  <1> DEFINE B(k, s) == IF k \in s \/ m[k] = None THEN k ELSE G[s \union {k}][m[k]]
  <1>7. G = [s \in SUBSET Ids |-> [k \in Ids |-> B(k, s)]]
    <2>1. ASSUME NEW s \in SUBSET Ids, NEW k \in Ids PROVE A(k, s) = B(k, s)
      <3> HIDE DEF A
      <3>1. A(k, s) = G[s][k]
        OBVIOUS
      <3> HIDE DEF G
      <3> QED BY <1>6, <3>1 DEF WalkStops
    <2> HIDE DEF A, B
    <2>2. ASSUME NEW s \in SUBSET Ids
          PROVE  [k \in Ids |-> A(k, s)] = [k \in Ids |-> B(k, s)]
      BY <2>1
    <2> QED BY <2>2
  <1> HIDE DEF G
  <1> DEFINE F == Walk(m)
  <1>8. F = [s \in SUBSET Ids |-> [k \in Ids |->
                IF k \in s \/ m[k] = None THEN k ELSE F[s \union {k}][m[k]]]]
    <2> DEFINE R(f) == f = [s \in SUBSET Ids |-> [k \in Ids |->
                IF k \in s \/ m[k] = None THEN k ELSE f[s \union {k}][m[k]]]]
    <2>1. F = CHOOSE f : R(f)
      BY DEF Walk
    <2>2. R(G)
      BY <1>7
    <2> HIDE DEF R, F, G
    <2>3. R(F)
      BY <2>1, <2>2
    <2> QED BY <2>3 DEF R
  <1> HIDE DEF F
  <1>9. F[seen] = [k \in Ids |->
                      IF k \in seen \/ m[k] = None THEN k ELSE F[seen \union {k}][m[k]]]
    BY <1>8
  <1>10. F[seen][i] = IF i \in seen \/ m[i] = None THEN i ELSE F[seen \union {i}][m[i]]
    BY <1>9
  <1> QED BY <1>10 DEF F, WalkStops

\* Met, Loop and Survivor of the registry, over any links m.
MetBy(m, i) ==
    {j \in Ids : \A S \in SUBSET Ids :
        i \in S /\ (\A k \in S : m[k] = None \/ m[k] \in S) => j \in S}

LoopBy(m, i) == {k \in MetBy(m, i) : m[k] # None /\ k \in MetBy(m, m[k])}

SurvivorBy(m, i) ==
    IF m[i] = None THEN i
    ELSE IF LoopBy(m, i) = {}
    THEN CHOOSE j \in MetBy(m, i) : m[j] = None
    ELSE CHOOSE j \in LoopBy(m, i) :
            j = i \/ \E k \in MetBy(m, i) \ LoopBy(m, i) : m[k] = j

\* They are the least set that has i and that no link leads out of.
LEMMA MetByFacts ==
    ASSUME NEW m \in Links, NEW i \in Ids
    PROVE  /\ MetBy(m, i) \in SUBSET Ids /\ i \in MetBy(m, i)
           /\ \A k \in MetBy(m, i) : m[k] = None \/ m[k] \in MetBy(m, i)
           /\ \A S \in SUBSET Ids :
                  i \in S /\ (\A k \in S : m[k] = None \/ m[k] \in S)
                      => MetBy(m, i) \subseteq S
           /\ LoopBy(m, i) = {k \in MetBy(m, i) : m[k] # None /\ k \in MetBy(m, m[k])}
  <1> DEFINE Round(S) == \A k \in S : m[k] = None \/ m[k] \in S
  <1>1. MetBy(m, i) = {j \in Ids : \A S \in SUBSET Ids : i \in S /\ Round(S) => j \in S}
    BY DEF MetBy
  <1>2. LoopBy(m, i) = {k \in MetBy(m, i) : m[k] # None /\ k \in MetBy(m, m[k])}
    BY DEF LoopBy
  <1>3. ASSUME NEW k \in MetBy(m, i), m[k] # None PROVE m[k] \in MetBy(m, i)
    <2>1. k \in Ids /\ m[k] \in Ids
      BY <1>1, <1>3 DEF Links
    <2>2. ASSUME NEW S \in SUBSET Ids, i \in S, Round(S) PROVE m[k] \in S
      BY <1>1, <1>3, <2>2
    <2> HIDE DEF Round
    <2> QED BY <1>1, <2>1, <2>2
  <1>4. MetBy(m, i) \in SUBSET Ids /\ i \in MetBy(m, i)
    BY <1>1
  <1>5. \A S \in SUBSET Ids : i \in S /\ Round(S) => MetBy(m, i) \subseteq S
    BY <1>1
  <1> QED BY <1>2, <1>3, <1>4, <1>5

\* Nothing lies behind an identifier that leads nowhere.
LEMMA MetByAtEnd ==
    ASSUME NEW m \in Links, NEW i \in Ids, m[i] = None
    PROVE  MetBy(m, i) \subseteq {i}
  <1>1. {i} \in SUBSET Ids /\ \A k \in {i} : m[k] = None
    OBVIOUS
  <1> QED BY <1>1, MetByFacts

\* The walk after some turns of the loop, none of which stopped it: it came
\* from i, has seen the identifiers of seen, each once, and stands at j.  The
\* last conjunct is their order: on from k it came to j and not back to k.
Trail(m, i, j, seen) ==
    /\ j \notin seen
    /\ i \in seen \union {j}
    /\ seen \union {j} \subseteq MetBy(m, i)
    /\ \A k \in seen : m[k] \in (seen \union {j}) \ {i}
    /\ \A x \in (seen \union {j}) \ {i} : \E k \in seen : m[k] = x
    /\ \A k, x \in seen : m[k] = m[x] => k = x
    /\ \A k \in seen \union {j} : j \in MetBy(m, k)
    /\ \A k \in seen : \E U \in SUBSET (seen \union {j}) :
           /\ m[k] \in U /\ k \notin U
           /\ \A x \in U : x # j => m[x] \in U

\* A turn of the loop that does not come to an identifier seen before.
LEMMA TrailGrows ==
    ASSUME NEW m \in Links, NEW i \in Ids, NEW j \in Ids, NEW seen \in SUBSET Ids,
           Trail(m, i, j, seen), m[j] # None, m[j] \notin seen \union {j}
    PROVE  Trail(m, i, m[j], seen \union {j})
  <1> DEFINE y == m[j]
             P == seen \union {j}
  <1>1. y \in Ids /\ y \notin P /\ i \in P /\ P \subseteq MetBy(m, i) /\ P \subseteq Ids
    BY DEF Trail, Links
  <1>2. y \in MetBy(m, i)
    BY <1>1, MetByFacts
  <1>3. ASSUME NEW k \in P PROVE m[k] \in (P \union {y}) \ {i}
    BY <1>1, <1>3 DEF Trail
  <1>4. ASSUME NEW x \in (P \union {y}) \ {i} PROVE \E k \in P : m[k] = x
    <2>1. CASE x = y
      BY <2>1
    <2>2. CASE x # y
      BY <2>2 DEF Trail
    <2> QED BY <2>1, <2>2
  <1>5. ASSUME NEW k \in P, NEW x \in P, m[k] = m[x] PROVE k = x
    BY <1>1, <1>5 DEF Trail
  <1>6. ASSUME NEW k \in P \union {y} PROVE y \in MetBy(m, k)
    <2>1. CASE k = y
      BY <1>1, <2>1, MetByFacts
    <2>2. CASE k \in P
      <3>1. j \in MetBy(m, k) /\ k \in Ids
        BY <1>1, <2>2 DEF Trail
      <3> QED BY <3>1, MetByFacts
    <2> QED BY <2>1, <2>2
  <1>7. ASSUME NEW k \in P
        PROVE  \E U \in SUBSET (P \union {y}) :
                   /\ m[k] \in U /\ k \notin U
                   /\ \A x \in U : x # y => m[x] \in U
    <2>1. CASE k = j
      <3> WITNESS {y} \in SUBSET (P \union {y})
      <3> QED BY <1>1, <2>1
    <2>2. CASE k # j
      <3>1. PICK U \in SUBSET P : /\ m[k] \in U /\ k \notin U
                                  /\ \A x \in U : x # j => m[x] \in U
        BY <2>2 DEF Trail
      <3> WITNESS U \union {y} \in SUBSET (P \union {y})
      <3> QED BY <1>1, <3>1
    <2> QED BY <2>1, <2>2
  <1> QED BY <1>1, <1>2, <1>3, <1>4, <1>5, <1>6, <1>7 DEF Trail

\* Every walk stops: it comes to a last identifier met for the first time,
\* which is live or whose successor it has seen.
LEMMA WalkEnds ==
    ASSUME NEW m \in Links, NEW i \in Ids
    PROVE  \E j \in Ids, seen \in SUBSET Ids :
               /\ Trail(m, i, j, seen)
               /\ Walk(m)[{}][i] = Walk(m)[seen][j]
               /\ m[j] = None \/ m[j] \in seen \union {j}
  <1> DEFINE a == Walk(m)[{}][i]
             On(j, seen) == Trail(m, i, j, seen) /\ a = Walk(m)[seen][j]
             Left(seen) == Cardinality(Ids \ seen)
             T == {x \in Nat : \E j \in Ids, seen \in SUBSET Ids :
                                    On(j, seen) /\ Left(seen) = x}
  <1>1. IsFiniteSet(Ids)
    BY FS_Interval, MaxIdAssumption DEF Ids
  <1>2. ASSUME NEW seen \in SUBSET Ids
        PROVE  /\ Left(seen) \in Nat
               /\ \A j \in Ids \ seen : Left(seen \union {j}) = Left(seen) - 1
    <2>1. IsFiniteSet(Ids \ seen)
      BY <1>1, FS_Subset
    <2>2. ASSUME NEW j \in Ids \ seen PROVE Left(seen \union {j}) = Left(seen) - 1
      <3>1. Ids \ (seen \union {j}) = (Ids \ seen) \ {j}
        OBVIOUS
      <3>2. j \in Ids \ seen
        OBVIOUS
      <3>3. Cardinality((Ids \ seen) \ {j}) = Cardinality(Ids \ seen) - 1
        BY <2>1, <3>2, FS_RemoveElement
      <3> QED BY <3>1, <3>3
    <2> QED BY <2>1, <2>2, FS_CardinalityType
  <1>3. On(i, {})
    <2>1. i \in MetBy(m, i)
      BY MetByFacts
    <2> QED BY <2>1 DEF Trail
  <1> HIDE DEF Left, a
  <1>4. T \in SUBSET Nat /\ Left({}) \in T
    BY <1>2, <1>3
  <1>5. PICK x \in T : \A y \in T : ~(<<y, x>> \in OpToRel(<, Nat))
    <2> HIDE DEF T
    <2> QED BY <1>4, NatLessThanWellFounded, WFMin
  <1>6. \A y \in T : ~(y < x)
    BY <1>4, <1>5 DEF OpToRel
  <1>7. PICK j \in Ids, seen \in SUBSET Ids : On(j, seen) /\ Left(seen) = x
    BY <1>5
  <1>8. ASSUME m[j] # None, m[j] \notin seen \union {j} PROVE FALSE
    <2>1. m[j] \in Ids /\ seen \union {j} \in SUBSET Ids /\ j \notin seen
      BY <1>7, <1>8 DEF Links, Trail
    <2>2. Trail(m, i, m[j], seen \union {j})
      BY <1>7, <1>8, TrailGrows
    <2>3. Walk(m)[seen][j] = Walk(m)[seen \union {j}][m[j]]
      BY <1>8, <2>1, WalkSteps DEF WalkStops
    <2>4. On(m[j], seen \union {j})
      BY <1>7, <2>2, <2>3
    <2>5. Left(seen \union {j}) = x - 1 /\ x - 1 \in Nat /\ x \in Nat
      BY <1>2, <1>7, <2>1
    <2>6. x - 1 \in T
      BY <2>1, <2>4, <2>5
    <2> QED BY <1>6, <2>5, <2>6
  <1> QED BY <1>7, <1>8 DEF a

\* A walk that ends at a live identifier met no circle.
LEMMA TrailToLive ==
    ASSUME NEW m \in Links, NEW i \in Ids, NEW j \in Ids, NEW seen \in SUBSET Ids,
           Trail(m, i, j, seen), m[j] = None
    PROVE  /\ LoopBy(m, i) = {}
           /\ \A k \in MetBy(m, i) : m[k] = None <=> k = j
           /\ j \in MetBy(m, i)
  <1> DEFINE P == seen \union {j}
  <1>1. P \in SUBSET Ids /\ i \in P /\ \A k \in P : m[k] = None \/ m[k] \in P
    BY DEF Trail
  <1>2. MetBy(m, i) = P
    BY <1>1, MetByFacts DEF Trail
  <1>3. \A k \in P : m[k] = None <=> k = j
    BY IdsFacts DEF Trail
  <1>4. ASSUME NEW k \in P, m[k] # None, k \in MetBy(m, m[k]) PROVE FALSE
    <2> DEFINE y == m[k]
               S == {x \in MetBy(m, y) : m[x] # None /\ k \in MetBy(m, x)}
    <2>1. k \in Ids /\ y \in Ids /\ y \in P
      BY <1>1, <1>4 DEF Links
    <2>2. MetBy(m, y) \in SUBSET Ids
      BY <2>1, MetByFacts
    <2>3. ASSUME NEW x \in S PROVE m[x] \in S
      <3>1. x \in Ids /\ m[x] \in Ids /\ m[x] \in MetBy(m, y)
        BY <2>1, <2>2, MetByFacts DEF Links
      <3>2. k \in MetBy(m, m[x])
        <4>1. CASE x = k
          BY <1>4, <4>1
        <4>2. CASE x # k
          <5>1. {x} \union MetBy(m, m[x]) \in SUBSET Ids
            BY <3>1, MetByFacts
          <5>2. \A z \in {x} \union MetBy(m, m[x]) :
                    m[z] = None \/ m[z] \in {x} \union MetBy(m, m[x])
            BY <3>1, MetByFacts
          <5>3. MetBy(m, x) \subseteq {x} \union MetBy(m, m[x])
            BY <3>1, <5>1, <5>2, MetByFacts
          <5> QED BY <4>2, <5>3
        <4> QED BY <4>1, <4>2
      <3>3. m[m[x]] # None
        <4>1. SUFFICES ASSUME m[m[x]] = None PROVE FALSE
          OBVIOUS
        <4>2. MetBy(m, m[x]) \subseteq {m[x]}
          BY <3>1, <4>1, MetByAtEnd
        <4>3. k = m[x]
          BY <3>2, <4>2
        <4> QED BY <1>4, <4>1, <4>3
      <3> QED BY <3>1, <3>2, <3>3
    <2>4. k \in S
      BY <1>4, <2>1, MetByFacts
    <2>5. S \in SUBSET Ids /\ \A x \in S : m[x] = None \/ m[x] \in S
      BY <2>2, <2>3
    <2> HIDE DEF S
    <2>6. MetBy(m, k) \subseteq S
      BY <2>1, <2>4, <2>5, MetByFacts
    <2>7. j \in MetBy(m, k)
      BY DEF Trail
    <2> QED BY <2>6, <2>7 DEF S
  <1>5. LoopBy(m, i) = {k \in MetBy(m, i) : m[k] # None /\ k \in MetBy(m, m[k])}
    BY MetByFacts
  <1> QED BY <1>2, <1>3, <1>4, <1>5

\* Where a walk goes round: the circle is entered at one identifier, the one
\* the walk finds seen when it comes to it again.
Entered(m, i, j) ==
    /\ j \in LoopBy(m, i)
    /\ j = i \/ \E k \in MetBy(m, i) \ LoopBy(m, i) : m[k] = j

LEMMA TrailToCircle ==
    ASSUME NEW m \in Links, NEW i \in Ids, NEW last \in Ids, NEW seen \in SUBSET Ids,
           Trail(m, i, last, seen), m[last] # None, m[last] \in seen \union {last}
    PROVE  /\ Entered(m, i, m[last])
           /\ \A x \in Ids : Entered(m, i, x) => x = m[last]
  <1> DEFINE P == seen \union {last}
             L == LoopBy(m, i)
             j == m[last]
  <1>1. P \in SUBSET Ids /\ i \in P /\ j \in P /\ last \in P /\ last \notin seen
    BY DEF Trail
  <1>2. \A k \in P : m[k] # None /\ m[k] \in P
    <2>1. \A k \in seen : m[k] \in P
      BY DEF Trail
    <2> QED BY <1>1, <2>1, IdsFacts
  <1>3. MetBy(m, i) = P
    <2>1. P \subseteq MetBy(m, i)
      BY DEF Trail
    <2> HIDE DEF P
    <2> QED BY <1>1, <1>2, <2>1, MetByFacts
  <1>4. L = {k \in P : k \in MetBy(m, m[k])}
    BY <1>2, <1>3, MetByFacts
  <1>5. \A k \in P : last \in MetBy(m, k) /\ j \in MetBy(m, k)
    BY <1>1, <1>2, MetByFacts DEF Trail
  <1>6. \A k \in P : MetBy(m, k) \in SUBSET Ids /\ k \in MetBy(m, k)
                     /\ \A x \in MetBy(m, k) : m[x] = None \/ m[x] \in MetBy(m, k)
    BY <1>1, MetByFacts
  <1>7. j \in L /\ last \in L
    BY <1>1, <1>2, <1>4, <1>5
  <1>8. ASSUME NEW k \in seen, m[k] = j PROVE k \notin L
    <2>1. PICK U \in SUBSET P : /\ m[k] \in U /\ k \notin U
                                /\ \A x \in U : x # last => m[x] \in U
      BY DEF Trail
    <2>2. U \in SUBSET Ids /\ \A x \in U : m[x] \in U
      BY <1>1, <1>8, <2>1
    <2>3. MetBy(m, j) \subseteq U
      BY <1>1, <1>8, <2>1, <2>2, MetByFacts
    <2> QED BY <1>4, <1>8, <2>1, <2>3
  <1>9. Entered(m, i, j)
    <2>1. CASE j = i
      BY <1>7, <2>1 DEF Entered
    <2>2. CASE j # i
      <3>1. PICK k \in seen : m[k] = j
        BY <1>1, <2>2 DEF Trail
      <3>2. k \in P \ L
        BY <1>8, <3>1
      <3> QED BY <1>3, <1>7, <3>1, <3>2 DEF Entered
    <2> QED BY <2>1, <2>2
  <1>10. i \in L => j = i
    <2> SUFFICES ASSUME j # i PROVE i \notin MetBy(m, m[i])
      BY <1>4
    <2> DEFINE S == P \ {i}
    <2>1. \A k \in P : m[k] \in S
      BY <1>1, <1>2 DEF Trail
    <2>2. S \in SUBSET Ids /\ m[i] \in Ids /\ m[i] \in S /\ \A k \in S : m[k] \in S
      BY <1>1, <2>1
    <2> HIDE DEF S
    <2>3. MetBy(m, m[i]) \subseteq S
      BY <2>2, MetByFacts
    <2> QED BY <2>3 DEF S
  <1>11. ASSUME NEW k \in P \ L, m[k] \in L PROVE m[k] = j
    <2> DEFINE x == m[k]
    <2>1. x \in P /\ x \in MetBy(m, m[x]) /\ k \in seen /\ m[x] \in P
      BY <1>2, <1>4, <1>7, <1>11
    <2>2. k \notin MetBy(m, m[x])
      <3>1. m[x] \in MetBy(m, x)
        BY <1>2, <1>6, <2>1
      <3>2. MetBy(m, m[x]) \subseteq MetBy(m, x)
        BY <1>1, <1>6, <2>1, <3>1, MetByFacts
      <3>3. k \notin MetBy(m, x)
        BY <1>4, <1>11
      <3> QED BY <3>2, <3>3
    <2>3. SUFFICES ASSUME x # j PROVE FALSE
      OBVIOUS
    <2> DEFINE S == MetBy(m, m[x]) \ {x}
    <2>4. \A y \in P : m[y] = x => y = k
      <3>1. \A y \in seen : m[y] = m[k] => y = k
        BY <2>1 DEF Trail
      <3> QED BY <2>3, <3>1
    <2> HIDE DEF P
    <2>5. MetBy(m, m[x]) \subseteq P
      BY <1>1, <1>2, <2>1, MetByFacts
    <2>6. m[x] \in S
      <3>1. x # k
        BY <2>1, <2>2
      <3> QED BY <1>6, <2>1, <2>4, <3>1
    <2>7. S \in SUBSET Ids /\ m[x] \in Ids
      BY <1>1, <2>1, <2>5
    <2>8. ASSUME NEW y \in S PROVE m[y] \in S
      BY <1>2, <1>6, <2>1, <2>2, <2>4, <2>5
    <2> HIDE DEF S
    <2>9. MetBy(m, m[x]) \subseteq S
      BY <2>6, <2>7, <2>8, MetByFacts
    <2> QED BY <2>1, <2>9 DEF S
  <1>12. ASSUME NEW x \in Ids, Entered(m, i, x) PROVE x = j
    BY <1>3, <1>10, <1>11, <1>12 DEF Entered
  <1> QED BY <1>9, <1>12

\* The closed form answers what the loop answers, whatever the links are: the
\* live identifier it ends at, or the one a circle is entered at.
LEMMA WalkAnswers ==
    \A m \in Links : \A i \in Ids : SurvivorBy(m, i) = Walk(m)[{}][i]
  <1> SUFFICES ASSUME NEW m \in Links, NEW i \in Ids
               PROVE  SurvivorBy(m, i) = Walk(m)[{}][i]
    OBVIOUS
  <1>1. SurvivorBy(m, i) =
            IF m[i] = None THEN i
            ELSE IF LoopBy(m, i) = {}
            THEN CHOOSE j \in MetBy(m, i) : m[j] = None
            ELSE CHOOSE j \in LoopBy(m, i) :
                    j = i \/ \E k \in MetBy(m, i) \ LoopBy(m, i) : m[k] = j
    BY DEF SurvivorBy
  <1>2. PICK last \in Ids, seen \in SUBSET Ids :
               /\ Trail(m, i, last, seen)
               /\ Walk(m)[{}][i] = Walk(m)[seen][last]
               /\ m[last] = None \/ m[last] \in seen \union {last}
    BY WalkEnds
  <1>3. CASE m[i] = None
    BY <1>1, <1>3, WalkSteps DEF WalkStops
  <1>4. CASE m[i] # None /\ m[last] = None
    <2>1. Walk(m)[{}][i] = last
      BY <1>2, <1>4, WalkSteps DEF WalkStops
    <2>2. /\ LoopBy(m, i) = {}
          /\ \A k \in MetBy(m, i) : m[k] = None <=> k = last
          /\ last \in MetBy(m, i)
      BY <1>2, <1>4, TrailToLive
    <2> QED BY <1>1, <1>4, <2>1, <2>2
  <1>5. CASE m[i] # None /\ m[last] # None
    <2> DEFINE j == m[last]
    <2>1. j \in Ids /\ last \notin seen /\ seen \union {last} \in SUBSET Ids
      BY <1>2, <1>5 DEF Links, Trail
    <2>2. Walk(m)[seen][last] = Walk(m)[seen \union {last}][j]
      BY <1>5, <2>1, WalkSteps DEF WalkStops
    <2>3. Walk(m)[seen \union {last}][j] = j
      BY <1>2, <1>5, <2>1, WalkSteps DEF WalkStops
    <2>4. Entered(m, i, j) /\ \A x \in Ids : Entered(m, i, x) => x = j
      BY <1>2, <1>5, TrailToCircle
    <2>5. LoopBy(m, i) # {} /\ LoopBy(m, i) \subseteq Ids
      BY <2>4, MetByFacts DEF Entered
    <2>6. (CHOOSE x \in LoopBy(m, i) :
                    x = i \/ \E k \in MetBy(m, i) \ LoopBy(m, i) : m[k] = x) = j
      BY <2>4, <2>5 DEF Entered
    <2> QED BY <1>1, <1>2, <1>5, <2>2, <2>3, <2>5, <2>6
  <1> QED BY <1>3, <1>4, <1>5

\* On from every state of the registry, with any merge on top, survivor and its
-----------------------------------------------------------------------------
(* What the walks over any links answer, and what repointing one changes.  *)

\* The registry's own walks are those over its links.
OwnWalks ==
    \A i \in Ids : Met(i) = MetBy(mergedInto, i) /\ Survivor(i) = SurvivorBy(mergedInto, i)

LEMMA OwnLinks == OwnWalks
  <1> SUFFICES ASSUME NEW i \in Ids
               PROVE  Met(i) = MetBy(mergedInto, i) /\ Survivor(i) = SurvivorBy(mergedInto, i)
    BY DEF OwnWalks
  <1>1. \A k : Met(k) = MetBy(mergedInto, k)
    BY DEF MetBy, Met, Closed, Live
  <1>2. Survivor(i) = SurvivorBy(mergedInto, i)
    BY DEF SurvivorBy, Survivor, LoopBy, Loop, MetBy, Met, Closed, Live
  <1> QED BY <1>1, <1>2

LEMMA OwnLinksNext ==
    \A i \in Ids : /\ Met(i)' = MetBy(mergedInto', i)
                   /\ Survivor(i)' = SurvivorBy(mergedInto', i)
  <1>1. OwnWalks'
    BY OwnLinks, PTL
  <1> QED BY <1>1 DEF OwnWalks, Ids

\* A walk that meets a live identifier answers with it; one that meets none
\* answers with the identifier its circle is entered at.
LEMMA WalkAnswer ==
    ASSUME NEW m \in Links, NEW i \in Ids
    PROVE  /\ \A x \in MetBy(m, i) : m[x] = None => SurvivorBy(m, i) = x
           /\ (\A x \in MetBy(m, i) : m[x] # None) =>
                  \A x \in Ids : Entered(m, i, x) <=> x = SurvivorBy(m, i)
           /\ SurvivorBy(m, i) \in MetBy(m, i)
  <1>1. SurvivorBy(m, i) = Walk(m)[{}][i]
    BY WalkAnswers
  <1>2. PICK last \in Ids, seen \in SUBSET Ids :
               /\ Trail(m, i, last, seen)
               /\ Walk(m)[{}][i] = Walk(m)[seen][last]
               /\ m[last] = None \/ m[last] \in seen \union {last}
    BY WalkEnds
  <1>3. last \in MetBy(m, i)
    BY <1>2 DEF Trail
  <1>4. CASE m[last] = None
    <2>1. Walk(m)[{}][i] = last
      BY <1>2, <1>4, WalkSteps DEF WalkStops
    <2>2. \A k \in MetBy(m, i) : m[k] = None <=> k = last
      BY <1>2, <1>4, TrailToLive
    <2> QED BY <1>1, <1>3, <1>4, <2>1, <2>2
  <1>5. CASE m[last] # None
    <2> DEFINE P == seen \union {last}
               j == m[last]
    <2>1. j \in Ids /\ last \notin seen /\ P \in SUBSET Ids /\ j \in P /\ i \in P
      BY <1>2, <1>5 DEF Links, Trail
    <2>2. SurvivorBy(m, i) = j
      <3>1. Walk(m)[seen][last] = Walk(m)[P][j]
        BY <1>5, <2>1, WalkSteps DEF WalkStops
      <3>2. Walk(m)[P][j] = j
        BY <2>1, WalkSteps DEF WalkStops
      <3> QED BY <1>1, <1>2, <3>1, <3>2
    <2>3. Entered(m, i, j) /\ \A x \in Ids : Entered(m, i, x) => x = j
      BY <1>2, <1>5, TrailToCircle
    <2>4. j \in MetBy(m, i)
      BY <1>3, <1>5, MetByFacts
    <2>5. \A k \in P : m[k] # None /\ m[k] \in P
      <3>1. \A k \in seen : m[k] \in P
        BY <1>2 DEF Trail
      <3> QED BY <1>5, <2>1, <3>1, IdsFacts
    <2> HIDE DEF P
    <2>6. \A k \in MetBy(m, i) : m[k] # None
      BY <2>1, <2>5, MetByFacts
    <2> QED BY <2>2, <2>3, <2>4, <2>6
  <1> QED BY <1>4, <1>5

\* What is met from an identifier on the way is met on the way.
LEMMA MetOnward ==
    ASSUME NEW m \in Links, NEW i \in Ids, NEW k \in MetBy(m, i)
    PROVE  MetBy(m, k) \subseteq MetBy(m, i)
  <1>1. k \in Ids
    BY MetByFacts
  <1> QED BY <1>1, MetByFacts

\* The answer of a walk answers for itself.
LEMMA AnswerIsItsOwn ==
    ASSUME NEW m \in Links, NEW i \in Ids
    PROVE  SurvivorBy(m, SurvivorBy(m, i)) = SurvivorBy(m, i)
  <1> DEFINE j == SurvivorBy(m, i)
  <1>1. j \in MetBy(m, i) /\ j \in Ids
    BY WalkAnswer, MetByFacts
  <1>2. CASE m[j] = None
    <2>1. j \in MetBy(m, j)
      BY <1>1, MetByFacts
    <2> QED BY <1>1, <1>2, <2>1, WalkAnswer
  <1>3. CASE m[j] # None
    <2>1. \A x \in MetBy(m, i) : m[x] # None
      BY <1>3, WalkAnswer
    <2>2. Entered(m, i, j)
      BY <1>1, <2>1, WalkAnswer
    <2> HIDE DEF j
    <2>3. j \in MetBy(m, m[j])
      BY <2>2, MetByFacts DEF Entered
    <2>4. j \in LoopBy(m, j)
      BY <1>1, <1>3, <2>3, MetByFacts
    <2>5. Entered(m, j, j)
      BY <2>4 DEF Entered
    <2>6. \A x \in MetBy(m, j) : m[x] # None
      BY <1>1, <2>1, MetOnward
    <2>7. SurvivorBy(m, j) = j
      BY <1>1, <2>5, <2>6, WalkAnswer
    <2> QED BY <2>7 DEF j
  <1> QED BY <1>2, <1>3

\* Links that differ nowhere on the way of a walk change nothing of it.
LEMMA OffTheWay ==
    ASSUME NEW m \in Links, NEW q \in Links, NEW i \in Ids,
           \A k \in MetBy(m, i) : q[k] = m[k]
    PROVE  MetBy(q, i) = MetBy(m, i) /\ SurvivorBy(q, i) = SurvivorBy(m, i)
  <1> DEFINE M == MetBy(m, i)
  <1>1. ASSUME NEW k \in M PROVE MetBy(q, k) = MetBy(m, k)
    <2>1. k \in Ids /\ MetBy(m, k) \in SUBSET Ids /\ k \in MetBy(m, k)
          /\ \A x \in MetBy(m, k) : m[x] = None \/ m[x] \in MetBy(m, k)
      BY MetByFacts
    <2>2. \A x \in MetBy(m, k) : q[x] = m[x]
      BY MetOnward
    <2>3. MetBy(q, k) \subseteq MetBy(m, k)
      BY <2>1, <2>2, MetByFacts
    <2>4. MetBy(q, k) \in SUBSET Ids /\ k \in MetBy(q, k)
          /\ \A x \in MetBy(q, k) : m[x] = None \/ m[x] \in MetBy(q, k)
      BY <2>1, <2>2, <2>3, MetByFacts
    <2>5. MetBy(m, k) \subseteq MetBy(q, k)
      BY <2>1, <2>4, MetByFacts
    <2> QED BY <2>3, <2>5
  <1>2. MetBy(q, i) = M
    BY <1>1, MetByFacts
  <1>3. CASE \E x \in M : m[x] = None
    BY <1>2, <1>3, WalkAnswer
  <1>4. CASE \A x \in M : m[x] # None
    <2>1. LoopBy(q, i) = LoopBy(m, i)
      <3>1. \A k \in M : m[k] \in M
        BY <1>4, MetByFacts
      <3>2. \A k \in M : MetBy(q, q[k]) = MetBy(m, m[k])
        BY <1>1, <3>1
      <3>3. /\ LoopBy(m, i) = {k \in M : m[k] # None /\ k \in MetBy(m, m[k])}
            /\ LoopBy(q, i) = {k \in M : q[k] # None /\ k \in MetBy(q, q[k])}
        BY <1>2, MetByFacts
      <3> QED BY <3>2, <3>3
    <2>2. \A x \in Ids : Entered(q, i, x) <=> Entered(m, i, x)
      BY <1>2, <2>1 DEF Entered
    <2>3. SurvivorBy(m, i) \in Ids /\ Entered(m, i, SurvivorBy(m, i))
      BY <1>4, WalkAnswer, MetByFacts
    <2>4. \A x \in MetBy(q, i) : q[x] # None
      BY <1>2, <1>4
    <2> QED BY <1>2, <2>2, <2>3, <2>4, WalkAnswer
  <1> QED BY <1>2, <1>3, <1>4

\* An identifier whose link is repointed stays on the way to itself.
LEMMA RepointedIsMet ==
    ASSUME NEW m \in Links, NEW l \in Ids, NEW w \in Ids,
           NEW i \in Ids, l \in MetBy(m, i)
    PROVE  l \in MetBy([m EXCEPT ![l] = w], i)
  <1> DEFINE q == [m EXCEPT ![l] = w]
  <1>1. q \in Links /\ \A k \in Ids : k # l => q[k] = m[k]
    BY DEF Links
  <1> HIDE DEF q
  <1>2. SUFFICES ASSUME l \notin MetBy(q, i) PROVE FALSE
    BY DEF q
  <1>3. \A k \in MetBy(q, i) : m[k] = q[k]
    BY <1>1, <1>2, MetByFacts
  <1>4. MetBy(m, i) = MetBy(q, i)
    BY <1>1, <1>3, OffTheWay
  <1> QED BY <1>2, <1>4

\* What a merge of l into w does to an identifier on whose way l lies: it
\* resolves where w does, unless w led to l.
LEMMA RepointedWalk ==
    ASSUME NEW m \in Links, NEW l \in Ids, NEW w \in Ids, l # w,
           NEW i \in Ids, l \in MetBy(m, i),
           NEW q \in Links, \A k \in Ids : q[k] = IF k = l THEN w ELSE m[k]
    PROVE  q[SurvivorBy(q, i)] = None
              <=> l \notin MetBy(m, w) /\ m[SurvivorBy(m, w)] = None
  <1>1. q \in Links /\ \A k \in Ids : q[k] = IF k = l THEN w ELSE m[k]
    OBVIOUS
  <1>0. q = [m EXCEPT ![l] = w]
    BY DEF Links
  <1>2. \A k \in Ids : /\ MetBy(m, k) \in SUBSET Ids /\ k \in MetBy(m, k)
                       /\ \A x \in MetBy(m, k) : m[x] = None \/ m[x] \in MetBy(m, k)
                       /\ m[k] # None => /\ m[k] \in Ids
                                         /\ MetBy(m, k) \subseteq {k} \union MetBy(m, m[k])
                       /\ m[k] = None => MetBy(m, k) \subseteq {k}
    <2> SUFFICES ASSUME NEW k \in Ids
                 PROVE  /\ MetBy(m, k) \in SUBSET Ids /\ k \in MetBy(m, k)
                        /\ \A x \in MetBy(m, k) : m[x] = None \/ m[x] \in MetBy(m, k)
                        /\ m[k] # None => /\ m[k] \in Ids
                                          /\ MetBy(m, k) \subseteq {k} \union MetBy(m, m[k])
                        /\ m[k] = None => MetBy(m, k) \subseteq {k}
      OBVIOUS
    <2>1. /\ MetBy(m, k) \in SUBSET Ids /\ k \in MetBy(m, k)
          /\ \A x \in MetBy(m, k) : m[x] = None \/ m[x] \in MetBy(m, k)
      BY MetByFacts
    <2>2. ASSUME m[k] # None
          PROVE  m[k] \in Ids /\ MetBy(m, k) \subseteq {k} \union MetBy(m, m[k])
      <3> DEFINE S == {k} \union MetBy(m, m[k])
      <3>1. m[k] \in Ids
        BY <2>2 DEF Links
      <3>2. S \in SUBSET Ids /\ k \in S /\ \A x \in S : m[x] = None \/ m[x] \in S
        BY <3>1, MetByFacts
      <3> HIDE DEF S
      <3>3. MetBy(m, k) \subseteq S
        BY <3>2, MetByFacts
      <3> QED BY <3>1, <3>3 DEF S
    <2> QED BY <2>1, <2>2, MetByAtEnd
  \* Everything from which l was met, and everything met from w.
  <1> DEFINE D == {x \in MetBy(m, i) : l \in MetBy(m, x)} \union MetBy(m, w)
  <1>3. MetBy(q, i) \subseteq D
    <2>1. D \in SUBSET Ids /\ i \in D
      BY <1>2
    <2>2. ASSUME NEW x \in D, q[x] # None PROVE q[x] \in D
      <3>1. CASE x = l
        BY <1>1, <1>2, <3>1
      <3>2. CASE x # l /\ x \in MetBy(m, w)
        BY <1>1, <1>2, <2>1, <2>2, <3>2
      <3>3. CASE x # l /\ x \in MetBy(m, i) /\ l \in MetBy(m, x)
        <4>1. x \in Ids /\ q[x] = m[x]
          BY <1>1, <1>2, <3>3
        <4>2. m[x] # None /\ l \in MetBy(m, m[x]) /\ m[x] \in MetBy(m, i)
          BY <1>2, <2>2, <3>3, <4>1
        <4> QED BY <4>1, <4>2
      <3> QED BY <3>1, <3>2, <3>3
    <2> HIDE DEF D
    <2> QED BY <1>1, <2>1, <2>2, MetByFacts
  <1>4. ASSUME NEW x \in MetBy(q, i), q[x] = None
        PROVE  l \notin MetBy(m, w) /\ \E y \in MetBy(m, w) : m[y] = None
    <2>1. x \in Ids /\ x # l /\ m[x] = None
      BY <1>1, <1>3, <1>2, <1>4, IdsFacts
    <2>2. x \in MetBy(m, w)
      <3>1. MetBy(m, x) \subseteq {x}
        BY <1>2, <2>1
      <3> QED BY <1>3, <1>4, <2>1, <3>1
    <2>3. ASSUME l \in MetBy(m, w) PROVE FALSE
      <3> DEFINE E == {y \in MetBy(m, i) \union MetBy(m, w) : l \in MetBy(m, y)}
      <3>1. E \in SUBSET Ids /\ i \in E
        BY <1>2
      <3>2. ASSUME NEW y \in E PROVE q[y] \in E
        <4>1. CASE y = l
          BY <1>1, <1>2, <2>3, <4>1
        <4>2. CASE y # l
          <5>1. y \in Ids /\ q[y] = m[y]
            BY <1>1, <1>2, <4>2
          <5>2. m[y] # None /\ l \in MetBy(m, m[y])
            BY <1>2, <4>2, <5>1
          <5>3. m[y] \in MetBy(m, i) \union MetBy(m, w)
            BY <1>2, <5>2
          <5> QED BY <5>1, <5>2, <5>3
        <4> QED BY <4>1, <4>2
      <3> HIDE DEF E
      <3>3. MetBy(q, i) \subseteq E
        BY <1>1, <3>1, <3>2, MetByFacts
      <3> QED BY <1>4, <3>1, <3>2, <3>3, IdsFacts
    <2> QED BY <2>1, <2>2, <2>3
  <1>5. ASSUME l \notin MetBy(m, w), NEW x \in MetBy(m, w), m[x] = None
        PROVE  \E y \in MetBy(q, i) : q[y] = None
    <2>1. \A k \in MetBy(m, w) : q[k] = m[k]
      BY <1>1, <1>2, <1>5
    <2>2. MetBy(q, w) = MetBy(m, w)
      BY <1>1, <2>1, OffTheWay
    <2>3. l \in MetBy(q, i)
      BY <1>0, RepointedIsMet
    <2>4. w \in MetBy(q, i)
      <3>1. q[l] = w /\ w # None
        BY <1>1, IdsFacts
      <3>2. \A k \in MetBy(q, i) : q[k] = None \/ q[k] \in MetBy(q, i)
        BY <1>1, MetByFacts
      <3> QED BY <2>3, <3>1, <3>2
    <2>5. x \in MetBy(q, i)
      BY <1>1, <2>2, <2>4, MetOnward
    <2> QED BY <1>5, <2>1, <2>5
  <1>6. q[SurvivorBy(q, i)] = None <=> \E x \in MetBy(q, i) : q[x] = None
    BY WalkAnswer
  <1>7. m[SurvivorBy(m, w)] = None <=> \E x \in MetBy(m, w) : m[x] = None
    BY WalkAnswer
  <1> QED BY <1>4, <1>5, <1>6, <1>7

-----------------------------------------------------------------------------
(* Links that form a forest, which is what merges are meant to leave.      *)

\* Every nonempty set of identifiers has one whose successor lies outside it.
Acyclic == \A S \in SUBSET Ids : S # {} => \E k \in S : mergedInto[k] \notin S

MergesOK == mergedInto \in [Ids -> Ids \union {None}] /\ Acyclic

\* What a single turn of the loop in survivor does to its answer.
SurvivorSteps ==
    \A i \in Ids :
        /\ Survivor(i) \in Ids
        /\ Live(Survivor(i))
        /\ Live(i) => Survivor(i) = i
        /\ ~Live(i) => Survivor(i) = Survivor(mergedInto[i])

\* exactly one live identifier and meets none twice (survivor).
LEMMA SurvivorFacts == MergesOK => SurvivorSteps
  <1> SUFFICES ASSUME MergesOK PROVE SurvivorSteps
    OBVIOUS
  <1>1. mergedInto \in [Ids -> Ids \union {None}] /\ Acyclic
    BY DEF MergesOK
  <1> DEFINE Ends(i) == \E j \in Met(i) : Live(j) /\ \A k \in Met(i) : Live(k) => k = j
  <1>2. ASSUME NEW i \in Ids PROVE Ends(i)
    <2> DEFINE S == {j \in Ids : ~Ends(j)}
    <2>1. SUFFICES ASSUME S # {} PROVE FALSE
      BY <1>2
    <2>2. PICK j \in S : mergedInto[j] \notin S
      BY <1>1, <2>1 DEF Acyclic
    <2>3. CASE Live(j)
      BY <1>1, <2>2, <2>3, MetSteps
    <2>4. CASE ~Live(j)
      <3>1. mergedInto[j] \in Ids /\ Met(j) = {j} \union Met(mergedInto[j])
        BY <1>1, <2>4, MetSteps
      <3>2. Ends(mergedInto[j])
        BY <2>2, <3>1
      <3>3. Ends(j)
        BY <2>4, <3>1, <3>2
      <3> QED BY <2>2, <3>3
    <2> QED BY <2>3, <2>4
  <1>3. ASSUME NEW k \in Ids, ~Live(k) PROVE k \notin Met(mergedInto[k])
    <2> DEFINE S == {j \in Ids : k \in Met(mergedInto[k]) /\ k \in Met(j)}
    <2>1. SUFFICES ASSUME k \in Met(mergedInto[k]) PROVE FALSE
      OBVIOUS
    <2>2. k \in S
      BY <1>1, <1>3, <2>1, MetSteps
    <2>3. PICK j \in S : mergedInto[j] \notin S
      BY <1>1, <2>2 DEF Acyclic
    <2>4. CASE Live(j)
      BY <1>1, <1>3, <2>3, <2>4, MetSteps
    <2>5. CASE ~Live(j)
      <3>1. mergedInto[j] \in Ids /\ Met(j) = {j} \union Met(mergedInto[j])
        BY <1>1, <2>5, MetSteps
      <3>2. k \notin Met(mergedInto[j])
        BY <2>1, <2>3, <3>1
      <3> QED BY <2>1, <2>3, <3>1, <3>2
    <2> QED BY <2>4, <2>5
  <1>4. ASSUME NEW i \in Ids
        PROVE  /\ Survivor(i) \in Met(i) /\ Live(Survivor(i))
               /\ \A k \in Met(i) : Live(k) => k = Survivor(i)
    <2>1. Met(i) \subseteq Ids /\ Loop(i) = {}
      BY <1>3 DEF Met, Loop
    <2>2. CASE Live(i)
      <3>1. Survivor(i) = i /\ Met(i) = {i}
        BY <1>1, <2>2, MetSteps DEF Survivor
      <3> QED BY <2>2, <3>1
    <2>3. CASE ~Live(i)
      <3>1. Survivor(i) = CHOOSE j \in Met(i) : Live(j)
        BY <2>1, <2>3 DEF Survivor
      <3> QED BY <1>2, <3>1
    <2> QED BY <2>2, <2>3
  <1>5. ASSUME NEW i \in Ids
        PROVE  /\ Survivor(i) \in Ids /\ Live(Survivor(i))
               /\ Live(i) => Survivor(i) = i
               /\ ~Live(i) => Survivor(i) = Survivor(mergedInto[i])
    <2>1. Survivor(i) \in Ids /\ Live(Survivor(i))
      BY <1>4 DEF Met
    <2>2. Live(i) => Survivor(i) = i
      BY DEF Survivor
    <2>3. ASSUME ~Live(i) PROVE Survivor(i) = Survivor(mergedInto[i])
      <3>1. mergedInto[i] \in Ids /\ Met(i) = {i} \union Met(mergedInto[i])
        BY <1>1, <2>3, MetSteps
      <3> QED BY <1>4, <3>1
    <2> QED BY <2>1, <2>2, <2>3
  <1> QED BY <1>5 DEF SurvivorSteps

\* A step that retires nothing leaves every address where it led.
LEMMA SurvivorKept ==
    ASSUME MergesOK, UNCHANGED mergedInto
    PROVE  MergesOK' /\ \A i \in Ids : Survivor(i)' = Survivor(i)
  <1>1. MergesOK'
    BY DEF MergesOK, Acyclic, Ids, None
  <1>2. SurvivorSteps /\ SurvivorSteps'
    <2>1. SurvivorSteps BY SurvivorFacts
    <2>2. MergesOK' => SurvivorSteps' BY SurvivorFacts, PTL
    <2> QED BY <1>1, <2>1, <2>2
  <1> DEFINE S == {i \in Ids : Survivor(i)' # Survivor(i)}
  <1>3. SUFFICES ASSUME S # {} PROVE FALSE
    BY <1>1
  <1>4. PICK i \in S : mergedInto[i] \notin S
    BY <1>3 DEF MergesOK, Acyclic
  <1>5. Live(i)' <=> Live(i)
    BY DEF Live, None
  <1>6. CASE Live(i)
    BY <1>2, <1>4, <1>5, <1>6 DEF SurvivorSteps
  <1>7. CASE ~Live(i)
    <2>1. mergedInto[i] \in Ids
      BY <1>4, <1>7 DEF MergesOK, Live
    <2>2. Survivor(mergedInto[i])' = Survivor(mergedInto[i])
      BY <1>4, <2>1
    <2>3. Survivor(i) = Survivor(mergedInto[i])
      BY <1>2, <1>4, <1>7 DEF SurvivorSteps
    <2>4. Survivor(i)' = Survivor(mergedInto[i])'
      BY <1>2, <1>4, <1>5, <1>7 DEF SurvivorSteps, Ids
    <2> QED BY <1>4, <2>2, <2>3, <2>4
  <1> QED BY <1>6, <1>7

\* A merge of two live identifiers keeps the forest and sends what resolved to
\* the loser to the winner, and nothing else anywhere (merge).
LEMMA SurvivorMerged ==
    ASSUME MergesOK, NEW loser \in Ids, NEW winner \in Ids, loser # winner,
           Live(loser), Live(winner),
           mergedInto' = [mergedInto EXCEPT ![loser] = winner]
    PROVE  /\ MergesOK'
           /\ \A i \in Ids : Survivor(i)' = IF Survivor(i) = loser THEN winner
                                            ELSE Survivor(i)
  <1>0. mergedInto \in [Ids -> Ids \union {None}] /\ Acyclic
    BY DEF MergesOK
  <1>1. mergedInto' \in [Ids -> Ids \union {None}]
    BY <1>0
  <1>2. ASSUME NEW S \in SUBSET Ids, S # {}
        PROVE  \E k \in S : mergedInto'[k] \notin S
    <2>1. PICK k \in S : mergedInto[k] \notin S
      BY <1>0, <1>2 DEF Acyclic
    <2>2. CASE k # loser
      BY <1>0, <2>1, <2>2
    <2>3. CASE k = loser /\ winner \notin S
      BY <1>0, <2>3
    <2>4. CASE winner \in S
      <3>1. mergedInto'[winner] = None /\ None \notin S
        BY <1>0, <1>2, IdsFacts DEF Live
      <3> QED BY <2>4, <3>1
    <2> QED BY <2>2, <2>3, <2>4
  <1>3. MergesOK'
    BY <1>1, <1>2 DEF MergesOK, Acyclic, Ids, None
  <1>4. SurvivorSteps /\ SurvivorSteps'
    <2>1. SurvivorSteps BY SurvivorFacts
    <2>2. MergesOK' => SurvivorSteps' BY SurvivorFacts, PTL
    <2> QED BY <1>3, <2>1, <2>2
  <1> DEFINE Moved(i) == IF Survivor(i) = loser THEN winner ELSE Survivor(i)
  <1> DEFINE S == {i \in Ids : Survivor(i)' # Moved(i)}
  <1>5. SUFFICES ASSUME S # {} PROVE FALSE
    BY <1>3
  <1>6. PICK i \in S : mergedInto[i] \notin S
    BY <1>0, <1>5 DEF Acyclic
  <1>7. \A k \in Ids : Live(k)' <=> Live(k) /\ k # loser
    BY <1>0, IdsFacts DEF Live, None
  <1>8. CASE i = loser
    <2>1. Survivor(i)' = Survivor(winner)'
      <3>1. ~Live(i)' /\ mergedInto'[i] = winner
        BY <1>0, <1>7, <1>8
      <3>2. Survivor(i)' = Survivor(mergedInto[i])'
        BY <1>4, <3>1 DEF SurvivorSteps, Ids
      <3> QED BY <3>1, <3>2
    <2>2. Survivor(winner)' = winner
      BY <1>4, <1>7 DEF SurvivorSteps, Ids
    <2>3. Survivor(i) = loser
      BY <1>4, <1>8 DEF SurvivorSteps
    <2> QED BY <1>6, <2>1, <2>2, <2>3
  <1>9. CASE i # loser /\ Live(i)
    <2>1. Survivor(i) = i
      BY <1>4, <1>9 DEF SurvivorSteps
    <2>2. Survivor(i)' = i
      BY <1>4, <1>6, <1>7, <1>9 DEF SurvivorSteps, Ids
    <2> QED BY <1>6, <1>9, <2>1, <2>2
  <1>10. CASE ~Live(i)
    <2>1. mergedInto[i] \in Ids /\ mergedInto'[i] = mergedInto[i] /\ i # loser
      BY <1>0, <1>6, <1>10 DEF Live
    <2>2. Survivor(mergedInto[i])' = Moved(mergedInto[i])
      <3>1. \A k \in Ids : k \notin S => Survivor(k)' = Moved(k)
        OBVIOUS
      <3> QED BY <1>6, <2>1, <3>1
    <2>3. Survivor(i) = Survivor(mergedInto[i])
      BY <1>4, <1>6, <1>10 DEF SurvivorSteps
    <2>4. Survivor(i)' = Survivor(mergedInto[i])'
      BY <1>4, <1>6, <1>7, <1>10 DEF SurvivorSteps, Ids
    <2> QED BY <1>6, <2>1, <2>2, <2>3, <2>4
  <1> QED BY <1>8, <1>9, <1>10

-----------------------------------------------------------------------------
\* What the identifiers met are, of the registry's own links.
LEMMA MetIsMetBy ==
    ASSUME mergedInto \in Links, NEW i \in Ids
    PROVE  /\ Met(i) \in SUBSET Ids /\ i \in Met(i)
           /\ \A k \in Met(i) : mergedInto[k] = None \/ mergedInto[k] \in Met(i)
           /\ mergedInto[i] # None => Met(i) = {i} \union Met(mergedInto[i])
           /\ mergedInto[i] = None => Met(i) = {i}
  <1>1. Met(i) = MetBy(mergedInto, i)
    BY DEF MetBy, Met, Closed, Live
  <1>2. /\ Met(i) \in SUBSET Ids /\ i \in Met(i)
        /\ \A k \in Met(i) : mergedInto[k] = None \/ mergedInto[k] \in Met(i)
    BY <1>1, MetByFacts
  <1> QED BY <1>2, MetSteps DEF Links, Live

\* A walk answers with a live identifier exactly when it meets one.
LEMMA SurvivorIsLive ==
    ASSUME NEW m \in Links, NEW i \in Ids
    PROVE  m[SurvivorBy(m, i)] = None <=> \E k \in MetBy(m, i) : m[k] = None
  <1>1. SurvivorBy(m, i) = Walk(m)[{}][i]
    BY WalkAnswers
  <1>2. PICK last \in Ids, seen \in SUBSET Ids :
               /\ Trail(m, i, last, seen)
               /\ Walk(m)[{}][i] = Walk(m)[seen][last]
               /\ m[last] = None \/ m[last] \in seen \union {last}
    BY WalkEnds
  <1>3. CASE m[last] = None
    <2>1. Walk(m)[{}][i] = last
      BY <1>2, <1>3, WalkSteps DEF WalkStops
    <2>2. last \in MetBy(m, i)
      BY <1>2, <1>3, TrailToLive
    <2> QED BY <1>1, <1>3, <2>1, <2>2
  <1>4. CASE m[last] # None
    <2> DEFINE P == seen \union {last}
    <2>1. m[last] \in Ids /\ last \notin seen /\ P \in SUBSET Ids /\ m[last] \in P
      BY <1>2, <1>4 DEF Links, Trail
    <2>2. Walk(m)[{}][i] = m[last]
      <3>1. Walk(m)[seen][last] = Walk(m)[P][m[last]]
        BY <1>4, <2>1, WalkSteps DEF WalkStops
      <3>2. Walk(m)[P][m[last]] = m[last]
        BY <2>1, WalkSteps DEF WalkStops
      <3> QED BY <1>2, <3>1, <3>2
    <2>3. i \in P /\ \A k \in P : m[k] \in P
      BY <1>2, <2>1 DEF Trail
    <2> HIDE DEF P
    <2>4. \A k \in P : m[k] # None
      BY <2>1, <2>3, IdsFacts
    <2>5. MetBy(m, i) \subseteq P
      BY <2>1, <2>3, MetByFacts
    <2> QED BY <1>1, <2>1, <2>2, <2>4, <2>5
  <1> QED BY <1>3, <1>4

\* Entries one of which is merged into another that does not lead to it form a
\* forest as they did before.
LEMMA ForestKept ==
    ASSUME MergesOK, NEW loser \in Ids, NEW winner \in Ids, loser \notin Met(winner),
           NEW S \in SUBSET Ids, S # {}
    PROVE  \E k \in S : [mergedInto EXCEPT ![loser] = winner][k] \notin S
  <1> DEFINE m == [mergedInto EXCEPT ![loser] = winner]
  <1>1. mergedInto \in Links /\ Acyclic
    BY DEF MergesOK, Links
  <1>2. \A k \in Ids : m[k] = IF k = loser THEN winner ELSE mergedInto[k]
    BY <1>1 DEF Links
  <1> HIDE DEF m
  <1>3. SUFFICES ASSUME \A k \in S : m[k] \in S PROVE FALSE
    BY DEF m
  <1>4. PICK x \in S : mergedInto[x] \notin S
    BY <1>1 DEF Acyclic
  <1>5. winner \in S
    BY <1>2, <1>3, <1>4
  <1>6. winner \in Met(winner) /\ Met(winner) \in SUBSET Ids
    BY <1>1, MetIsMetBy
  <1>7. PICK k \in Met(winner) \intersect S : mergedInto[k] \notin Met(winner) \intersect S
    BY <1>1, <1>5, <1>6 DEF Acyclic
  <1>8. k \in Ids /\ k # loser /\ m[k] = mergedInto[k] /\ m[k] \in S
    BY <1>2, <1>3, <1>6, <1>7
  <1>9. mergedInto[k] = None \/ mergedInto[k] \in Met(winner)
    BY <1>1, <1>7, MetIsMetBy
  <1> QED BY <1>7, <1>8, <1>9, IdsFacts
\* A merge that retires a live entry and closes no circle, or says again what an
\* earlier one said, keeps the forest: what resolved to the loser resolves where
\* the winner does, and nothing else moves.
LEMMA SurvivorRejoined ==
    ASSUME MergesOK, NEW loser \in Ids, NEW winner \in Ids, loser # winner,
           (Live(loser) /\ loser \notin Met(winner)) \/ mergedInto[loser] = winner,
           mergedInto' = [mergedInto EXCEPT ![loser] = winner]
    PROVE  /\ MergesOK'
           /\ \A i \in Ids : Survivor(i)' = IF Survivor(i) = loser THEN Survivor(winner)
                                            ELSE Survivor(i)
  <1>1. mergedInto \in Links /\ mergedInto' \in Links
    BY DEF MergesOK, Links
  <1>2. \A k \in Ids : mergedInto'[k] = IF k = loser THEN winner ELSE mergedInto[k]
    BY <1>1 DEF Links
  <1>3. CASE mergedInto[loser] = winner
    <2>1. mergedInto' = mergedInto
      BY <1>1, <1>2, <1>3 DEF Links
    <2>2. \A i \in Ids : Survivor(i) # loser
      BY <1>3, SurvivorFacts, IdsFacts DEF SurvivorSteps, Live
    <2> QED BY <2>1, <2>2, SurvivorKept
  <1>4. CASE Live(loser) /\ loser \notin Met(winner)
    <2>1. MergesOK'
      <3>1. \A S \in SUBSET Ids : S # {} => \E k \in S : mergedInto'[k] \notin S
        BY <1>4, ForestKept
      <3> QED BY <1>1, <3>1 DEF MergesOK, Acyclic, Links, Ids, None
    <2> DEFINE m == mergedInto
               q == mergedInto'
    <2>2. ASSUME NEW i \in Ids
          PROVE  SurvivorBy(q, i) = IF SurvivorBy(m, i) = loser THEN SurvivorBy(m, winner)
                                    ELSE SurvivorBy(m, i)
      <3>1. loser \notin MetBy(m, winner) /\ m[loser] = None
        BY <1>4, OwnLinks DEF OwnWalks, Live
      <3>2. \A k \in MetBy(m, winner) : q[k] = m[k] /\ k \in Ids
        BY <1>1, <1>2, <3>1, MetByFacts
      <3>3. MetBy(q, winner) = MetBy(m, winner) /\ SurvivorBy(q, winner) = SurvivorBy(m, winner)
        BY <1>1, <3>2, OffTheWay
      <3>4. CASE loser \notin MetBy(m, i)
        <4>1. \A k \in MetBy(m, i) : q[k] = m[k]
          BY <1>1, <1>2, <3>4, MetByFacts
        <4>2. SurvivorBy(q, i) = SurvivorBy(m, i)
          BY <1>1, <4>1, OffTheWay
        <4>3. SurvivorBy(m, i) # loser
          BY <1>1, <3>4, WalkAnswer
        <4> QED BY <4>2, <4>3
      <3>5. CASE loser \in MetBy(m, i)
        <4>1. SurvivorBy(m, i) = loser
          BY <1>1, <3>1, <3>5, WalkAnswer
        <4> DEFINE j == SurvivorBy(m, winner)
        <4>2. j \in MetBy(m, winner) /\ m[j] = None
          BY <1>1, SurvivorFacts, WalkAnswer, OwnLinks DEF SurvivorSteps, Live, OwnWalks
        <4>3. q[j] = None
          BY <3>2, <4>2
        <4>4. loser \in MetBy(q, i)
          BY <1>1, <3>5, RepointedIsMet
        <4>5. winner \in MetBy(q, i)
          <5>1. q[loser] = winner /\ winner # None
            BY <1>2, IdsFacts
          <5>2. q \in Links
            BY <1>1
          <5> HIDE DEF q
          <5> QED BY <4>4, <5>1, <5>2, MetByFacts
        <4>6. j \in MetBy(q, i)
          BY <1>1, <3>3, <4>2, <4>5, MetOnward
        <4> HIDE DEF j
        <4>7. SurvivorBy(q, i) = j
          BY <1>1, <4>3, <4>6, WalkAnswer
        <4> QED BY <4>1, <4>7 DEF j
      <3> QED BY <3>4, <3>5
    <2> HIDE DEF m, q
    <2>3. \A i \in Ids : Survivor(i) = SurvivorBy(m, i) /\ Survivor(i)' = SurvivorBy(q, i)
      BY OwnLinks, OwnLinksNext DEF OwnWalks, m, q
    <2> QED BY <2>1, <2>2, <2>3
  <1> QED BY <1>3, <1>4

(* The index.                                                              *)

\* A nonempty set of identifiers has a last and a first one.
LEMMA LastAndFirst ==
    ASSUME NEW T \in SUBSET Ids, T # {}
    PROVE  /\ \E i \in T : \A j \in T : j <= i
           /\ \E i \in T : \A j \in T : i <= j
  <1>1. T \subseteq Nat /\ \A i \in T : MaxId - i \in Nat
    BY MaxIdAssumption DEF Ids
  <1>2. ASSUME NEW U \in SUBSET Nat, U # {}
        PROVE  \E x \in U : \A y \in U : x <= y
    <2>1. PICK x \in U : \A y \in U : ~(<<y, x>> \in OpToRel(<, Nat))
      BY <1>2, NatLessThanWellFounded, WFMin
    <2>2. \A y \in U : y < x => <<y, x>> \in OpToRel(<, Nat)
      BY DEF OpToRel
    <2>3. \A y \in U : ~(y < x)
      BY <2>1, <2>2
    <2> QED BY <2>3
  <1>3. \E i \in T : \A j \in T : i <= j
    BY <1>1, <1>2
  <1>4. \E i \in T : \A j \in T : j <= i
    <2> DEFINE U == {MaxId - i : i \in T}
    <2>1. U \in SUBSET Nat /\ U # {}
      BY <1>1
    <2>2. PICK x \in U : \A y \in U : x <= y
      BY <1>2, <2>1
    <2>3. PICK i \in T : x = MaxId - i
      BY <2>2
    <2>4. \A j \in T : MaxId - i <= MaxId - j
      BY <2>2, <2>3
    <2>5. \A j \in T : j <= i
      BY <1>1, <2>4, MaxIdAssumption
    <2> QED BY <2>5
  <1> QED BY <1>3, <1>4

\* No entry exists for an identifier that was never issued, and none is
\* retired into one (mint, merge).
OnlyIssued ==
    \A i \in Ids :
        /\ i \notin Issued => anchors[i] = {} /\ mergedInto[i] = None
        /\ mergedInto[i] # None => mergedInto[i] \in Issued

\* What the index answers: the live identifier of a holder, or nobody's.
IndexAnswers ==
    \A a \in Anchor :
        /\ Index(a) \in Issued \union {None}
        /\ Index(a) # None => Live(Index(a))
        /\ Holders(a) # {} => \E i \in Holders(a) : Index(a) = Survivor(i)

\* A merge never leads out of the listing: what an entry resolves to is an
\* entry as well (survivor).
LEMMA SurvivorIssued ==
    ASSUME TypeOK, MergesOK, OnlyIssued, NEW i \in Issued
    PROVE  Survivor(i) \in Issued
  <1> DEFINE S == {j \in Issued : Survivor(j) \notin Issued}
  <1>1. SUFFICES ASSUME S # {} PROVE FALSE
    OBVIOUS
  <1>2. Issued \subseteq Ids
    BY MaxIdAssumption DEF TypeOK, Issued, Ids
  <1>3. PICK j \in S : mergedInto[j] \notin S
    BY <1>1, <1>2 DEF MergesOK, Acyclic
  <1>4. SurvivorSteps
    BY SurvivorFacts
  <1>5. CASE Live(j)
    BY <1>2, <1>3, <1>4, <1>5 DEF SurvivorSteps
  <1>6. CASE ~Live(j)
    <2>1. mergedInto[j] \in Issued
      BY <1>2, <1>3, <1>6 DEF OnlyIssued, Live
    <2> QED BY <1>2, <1>3, <1>4, <1>6, <2>1 DEF SurvivorSteps
  <1> QED BY <1>5, <1>6

\* The index answers with a live entry, one that some holder of the anchor
\* resolves to, or with nothing (index).
LEMMA IndexFacts == TypeOK /\ MergesOK /\ OnlyIssued => IndexAnswers
  <1> SUFFICES ASSUME TypeOK, MergesOK, OnlyIssued, NEW a \in Anchor
               PROVE  /\ Index(a) \in Issued \union {None}
                      /\ Index(a) # None => Live(Index(a))
                      /\ Holders(a) # {} => \E i \in Holders(a) : Index(a) = Survivor(i)
    BY DEF IndexAnswers
  <1>1. Issued \subseteq Ids
    BY MaxIdAssumption DEF TypeOK, Issued, Ids
  <1>2. ASSUME NEW b \in Anchor, Holders(b) # {}
        PROVE  LastHolder(b) \in Holders(b)
    <2>1. \E i \in Holders(b) : \A j \in Holders(b) : j <= i
      <3>1. Holders(b) \in SUBSET Ids
        BY <1>1 DEF Holders
      <3> QED BY <1>2, <3>1, LastAndFirst
    <2> QED BY <2>1 DEF LastHolder
  <1>3. \A b \in Anchor : Holders(b) # {} =>
            Survivor(LastHolder(b)) \in Issued /\ Live(Survivor(LastHolder(b)))
    BY <1>1, <1>2, SurvivorIssued, SurvivorFacts DEF SurvivorSteps, Holders
  <1>4. CASE Holders(a) # {}
    BY <1>2, <1>3, <1>4 DEF Index
  <1>5. CASE Holders(a) = {} /\ Holders(Twin[a]) # {}
    <2>1. Twin[a] \in Anchor
      BY TwinAssumption
    <2>2. Index(a) = Survivor(LastHolder(Twin[a]))
      BY <1>5 DEF Index
    <2> QED BY <1>3, <1>5, <2>1, <2>2
  <1>6. CASE Holders(a) = {} /\ Holders(Twin[a]) = {}
    BY <1>6 DEF Index
  <1> QED BY <1>4, <1>5, <1>6

-----------------------------------------------------------------------------
(* What a sound registry keeps.                                            *)

\* The index of a running assignment names live identifiers only.
OwnerIsLive ==
    phase = "assigning" =>
        \A a \in Anchor : owner[a] # None => owner[a] \in Issued /\ Live(owner[a])

Entries == TypeOK /\ MergesOK /\ OnlyIssued /\ OneWorkPerAnchor

IInv == Entries /\ OwnerIsLive /\ OwnerIsCurrent

\* Every holder of an anchor gives the answer of the index.
HoldersAnswer == \A a \in Anchor : \A i \in Holders(a) : Index(a) = Survivor(i)

\* What the entries' half of the invariant says of survivor and of the index;
\* all the lemmas below read the entries through these facts.
LEMMA EntriesFacts ==
    Entries => SurvivorSteps /\ IndexAnswers /\ HoldersAnswer /\ Issued \subseteq Ids
  <1> SUFFICES ASSUME Entries
               PROVE  SurvivorSteps /\ IndexAnswers /\ HoldersAnswer /\ Issued \subseteq Ids
    OBVIOUS
  <1>1. SurvivorSteps /\ IndexAnswers
    BY SurvivorFacts, IndexFacts DEF Entries
  <1>2. Issued \subseteq Ids
    BY MaxIdAssumption DEF Entries, TypeOK, Issued, Ids
  <1>3. HoldersAnswer
    BY <1>1 DEF Entries, IndexAnswers, OneWorkPerAnchor, HoldersAnswer
  <1> QED BY <1>1, <1>2, <1>3

\* An entry may be given anchors as long as whoever holds one of them resolves
\* to the same work.
LEMMA GivenAnchors ==
    ASSUME Entries, TypeOK', UNCHANGED mergedInto, Issued \subseteq Issued',
           NEW i \in Issued', NEW T,
           anchors' = [anchors EXCEPT ![i] = @ \union T],
           \A a \in Anchor : a \in T => \A h \in Holders(a) : Survivor(h) = Survivor(i)
    PROVE  /\ Entries'
           /\ \A a \in Anchor : \A h \in Holders(a)' :
                  h \in Ids /\ (h \in Holders(a) \/ (h = i /\ a \in T))
  <1>1. Issued' \subseteq Ids
    BY MaxIdAssumption DEF TypeOK, Issued, Ids
  <1>2. MergesOK' /\ \A k \in Ids : Survivor(k)' = Survivor(k)
    BY SurvivorKept DEF Entries
  <1>3. \A k \in Ids : anchors'[k] = IF k = i THEN anchors[k] \union T ELSE anchors[k]
    BY DEF Entries, TypeOK
  <1>4. ASSUME NEW a \in Anchor, NEW h \in Holders(a)'
        PROVE  h \in Ids /\ (h \in Holders(a) \/ (h = i /\ a \in T))
    <2>1. h \in Ids /\ a \in anchors'[h]
      BY <1>1 DEF Holders
    <2>2. a \in anchors[h] => h \in Holders(a)
      BY <2>1 DEF Entries, OnlyIssued, Holders
    <2> QED BY <1>3, <2>1, <2>2
  <1>5. OnlyIssued'
    <2>1. ASSUME NEW k \in Ids, k \notin Issued'
          PROVE  anchors'[k] = {} /\ mergedInto'[k] = None
      BY <1>3, <2>1 DEF Entries, OnlyIssued
    <2>2. ASSUME NEW k \in Ids, mergedInto'[k] # None
          PROVE  mergedInto'[k] \in Issued'
      BY <2>2 DEF Entries, OnlyIssued
    <2> QED BY <2>1, <2>2 DEF OnlyIssued, Ids, None
  <1>6. OneWorkPerAnchor'
    <2>1. ASSUME NEW a \in Anchor, NEW h \in Holders(a)', NEW k \in Holders(a)'
          PROVE  Survivor(h)' = Survivor(k)'
      <3>1. /\ h \in Ids /\ (h \in Holders(a) \/ (h = i /\ a \in T))
            /\ k \in Ids /\ (k \in Holders(a) \/ (k = i /\ a \in T))
        BY <1>4
      <3>2. Survivor(h) = Survivor(k)
        BY <3>1 DEF Entries, OneWorkPerAnchor
      <3> QED BY <1>2, <3>1, <3>2
    <2> QED BY <2>1 DEF OneWorkPerAnchor
  <1> QED BY <1>2, <1>4, <1>5, <1>6 DEF Entries

\* The invariant says nothing of the relations or of the history, and nothing
\* of the index outside an assignment.
LEMMA EntriesKept ==
    ASSUME Entries, TypeOK', UNCHANGED <<n, anchors, mergedInto>>
    PROVE  /\ Entries'
           /\ \A a \in Anchor : Holders(a)' = Holders(a)
           /\ \A k \in Ids : Survivor(k)' = Survivor(k)
  <1>1. MergesOK' /\ \A k \in Ids : Survivor(k)' = Survivor(k)
    BY SurvivorKept DEF Entries
  <1>2. Issued' = Issued /\ \A a \in Anchor : Holders(a)' = Holders(a)
    BY DEF Issued, Holders
  <1>3. OnlyIssued'
    BY <1>2 DEF Entries, OnlyIssued, Ids, None
  <1>4. OneWorkPerAnchor'
    <2>1. \A a \in Anchor : Holders(a) \subseteq Ids
      BY MaxIdAssumption DEF Entries, TypeOK, Holders, Issued, Ids
    <2>2. \A a \in Anchor : \A i, j \in Holders(a)' : Survivor(i)' = Survivor(j)'
      BY <1>1, <1>2, <2>1 DEF Entries, OneWorkPerAnchor
    <2> QED BY <2>2 DEF OneWorkPerAnchor
  <1> QED BY <1>1, <1>2, <1>3, <1>4 DEF Entries


\* A merge that takes nothing back: it retires a live entry and closes no circle,
\* or it repeats one that was made.
SoundMerge(loser, winner) ==
    /\ Merge(loser, winner)
    /\ (Live(loser) /\ loser \notin Met(winner)) \/ mergedInto[loser] = winner

\* A merge of two live entries is one, and the one every ruling becomes.
MergeLive(loser, winner) ==
    Live(loser) /\ Live(winner) /\ Merge(loser, winner)

\* A sound merge keeps the invariant (merge).
LEMMA SoundMergeKeeps ==
    ASSUME IInv, NEW loser \in Issued, NEW winner \in Issued,
           SoundMerge(loser, winner)
    PROVE  IInv'
  <1> USE DEF IInv, SoundMerge
  <1>1. /\ loser \in Ids /\ winner \in Ids /\ loser # winner
        /\ (Live(loser) /\ loser \notin Met(winner)) \/ mergedInto[loser] = winner
        /\ mergedInto' = [mergedInto EXCEPT ![loser] = winner]
        /\ anchors' = [anchors EXCEPT ![winner] = @ \union anchors[loser]]
        /\ n' = n
    BY EntriesFacts DEF Merge
  <1>2. TypeOK'
    BY <1>1 DEF Entries, TypeOK, Merge, Ids, None
  <1>3. /\ MergesOK'
        /\ \A k \in Ids : Survivor(k)' = IF Survivor(k) = loser THEN Survivor(winner)
                                         ELSE Survivor(k)
    BY <1>1, SurvivorRejoined DEF Entries
  <1>4. \A k \in Ids :
          /\ anchors'[k] = IF k = winner THEN anchors[k] \union anchors[loser]
                           ELSE anchors[k]
          /\ mergedInto'[k] = IF k = loser THEN winner ELSE mergedInto[k]
    BY <1>1 DEF Entries, TypeOK
  <1>5. OnlyIssued'
    BY <1>1, <1>4 DEF Entries, OnlyIssued, Issued, Ids, None
  <1>6. Survivor(winner)' = Survivor(loser)'
    <2>1. CASE Live(loser)
      BY <1>1, <1>3, <2>1, EntriesFacts DEF SurvivorSteps
    <2>2. CASE ~Live(loser)
      BY <1>1, <1>3, <2>2, EntriesFacts DEF SurvivorSteps
    <2> QED BY <2>1, <2>2
  <1>7. OneWorkPerAnchor'
    <2>1. ASSUME NEW a \in Anchor, NEW h \in Holders(a)'
          PROVE  h \in Ids /\ (h \in Holders(a) \/ (h = winner /\ loser \in Holders(a)))
      <3>1. h \in Issued /\ a \in anchors'[h]
        BY <1>1 DEF Holders, Issued
      <3> QED BY <1>4, <3>1, EntriesFacts DEF Holders
    <2>2. ASSUME NEW a \in Anchor, NEW h \in Holders(a)', NEW k \in Holders(a)'
          PROVE  Survivor(h)' = Survivor(k)'
      <3>1. /\ h \in Ids /\ (h \in Holders(a) \/ (h = winner /\ loser \in Holders(a)))
            /\ k \in Ids /\ (k \in Holders(a) \/ (k = winner /\ loser \in Holders(a)))
        BY <2>1
      <3>2. \A x, y \in Holders(a) : Survivor(x)' = Survivor(y)'
        <4>1. Holders(a) \subseteq Ids
          BY EntriesFacts DEF Holders
        <4> QED BY <1>3, <4>1 DEF Entries, OneWorkPerAnchor
      <3> QED BY <1>6, <3>1, <3>2
    <2> QED BY <2>2 DEF OneWorkPerAnchor
  <1> QED BY <1>2, <1>3, <1>5, <1>7 DEF Entries, Merge, OwnerIsLive, OwnerIsCurrent

\* A merge of two live entries keeps the invariant (merge).
LEMMA MergeKeeps ==
    ASSUME IInv, NEW loser \in Issued, NEW winner \in Issued,
           MergeLive(loser, winner)
    PROVE  IInv'
  <1>1. loser # winner /\ winner \in Ids /\ Merge(loser, winner)
    BY EntriesFacts DEF MergeLive, Merge, IInv
  <1>2. Met(winner) = {winner}
    BY <1>1, MetSteps DEF MergeLive, IInv, Entries, MergesOK
  <1> QED BY <1>1, <1>2, SoundMergeKeeps DEF MergeLive, SoundMerge

\* A detach takes an anchor off one entry and keeps the invariant (detach).
LEMMA DetachKeeps ==
    ASSUME IInv, NEW a \in Anchor, Detach(a)
    PROVE  IInv'
  <1> USE DEF IInv
  <1> DEFINE first == CHOOSE i \in Holders(a) : \A j \in Holders(a) : i <= j
  <1>1. Holders(a) \subseteq Ids /\ Issued \subseteq Ids
    BY EntriesFacts DEF Holders
  <1>2. Holders(a) # {} => first \in Holders(a)
    <2>1. SUFFICES ASSUME Holders(a) # {} PROVE first \in Holders(a)
      OBVIOUS
    <2>2. \E i \in Holders(a) : \A j \in Holders(a) : i <= j
      BY <1>1, <2>1, LastAndFirst
    <2> QED BY <2>2
  <1>3. TypeOK'
    BY <1>1, <1>2 DEF Entries, TypeOK, Detach, Ids, None
  <1>4. n' = n /\ mergedInto' = mergedInto /\ \A k \in Ids : anchors'[k] \subseteq anchors[k]
    BY <1>1, <1>2 DEF Entries, TypeOK, Detach
  <1>5. MergesOK' /\ \A k \in Ids : Survivor(k)' = Survivor(k)
    BY <1>4, SurvivorKept DEF Entries
  <1>6. \A b \in Anchor : Holders(b)' \subseteq Holders(b)
    BY <1>1, <1>4 DEF Holders, Issued
  <1>7. OnlyIssued'
    BY <1>4 DEF Entries, OnlyIssued, Issued, Ids, None
  <1>8. OneWorkPerAnchor'
    <2>1. \A b \in Anchor : Holders(b)' \subseteq Ids
      BY <1>1, <1>6 DEF Holders
    <2>2. \A b \in Anchor : \A i, j \in Holders(b)' : Survivor(i)' = Survivor(j)'
      BY <1>5, <1>6, <2>1 DEF Entries, OneWorkPerAnchor
    <2> QED BY <2>2 DEF OneWorkPerAnchor
  <1> QED BY <1>3, <1>5, <1>7, <1>8 DEF Entries, Detach, OwnerIsLive, OwnerIsCurrent

\* An attach of an anchor nobody holds keeps the invariant (attach).
LEMMA AttachKeeps ==
    ASSUME IInv, NEW a \in Anchor, NEW i \in Issued, Attach(a, i)
    PROVE  IInv'
  <1> USE DEF IInv
  <1>1. i \in Issued' /\ Issued' = Issued /\ i \in Ids
    BY EntriesFacts DEF Attach, Issued
  <1>2. TypeOK'
    BY <1>1 DEF Entries, TypeOK, Attach, Ids, None
  <1>3. Holders(a) = {}
    <2>1. \A h \in Holders(a) : Index(a) = Survivor(h) /\ Survivor(h) \in Ids
      BY EntriesFacts DEF HoldersAnswer, SurvivorSteps, Holders
    <2> QED BY <2>1, IdsFacts DEF Attach
  <1>4. Entries'
    <2> DEFINE T == {a}
    <2>1. /\ anchors' = [anchors EXCEPT ![i] = @ \union T]
          /\ UNCHANGED mergedInto /\ Issued \subseteq Issued'
          /\ \A b \in Anchor : b \in T =>
                 \A h \in Holders(b) : Survivor(h) = Survivor(i)
      BY <1>1, <1>3 DEF Attach
    <2> HIDE DEF T
    <2> QED BY <1>1, <1>2, <2>1, GivenAnchors
  <1> QED BY <1>4 DEF Attach, OwnerIsLive, OwnerIsCurrent

\* The index a pass starts from is the one its entries give it (assign).
LEMMA BeginAssignKeeps ==
    ASSUME IInv, BeginAssign
    PROVE  IInv'
  <1> USE DEF IInv
  <1>1. \A a \in Anchor : Index(a) \in Issued \union {None} /\ (Index(a) # None => Live(Index(a)))
    BY EntriesFacts DEF IndexAnswers
  <1>2. TypeOK'
    BY <1>1, EntriesFacts DEF Entries, TypeOK, BeginAssign, Ids, None
  <1>3. /\ Entries'
        /\ \A a \in Anchor : Holders(a)' = Holders(a)
        /\ \A k \in Ids : Survivor(k)' = Survivor(k)
    BY <1>2, EntriesKept DEF BeginAssign
  <1>4. \A a \in Anchor : Holders(a)' # {} => Index(a)' = Index(a)
    <2>1. HoldersAnswer'
      <3>1. Entries' => HoldersAnswer' BY EntriesFacts, PTL
      <3> QED BY <1>3, <3>1
    <2>2. ASSUME NEW a \in Anchor, NEW h \in Holders(a)'
          PROVE  Index(a)' = Index(a)
      <3>1. h \in Holders(a) /\ h \in Ids
        BY <1>3, <2>2, EntriesFacts DEF Holders
      <3> QED BY <1>3, <2>1, <3>1, EntriesFacts DEF HoldersAnswer
    <2> QED BY <2>2
  <1>5. OwnerIsLive'
    BY <1>1 DEF OwnerIsLive, BeginAssign, Issued, Live, None
  <1>6. OwnerIsCurrent'
    BY <1>4 DEF OwnerIsCurrent, BeginAssign
  <1> QED BY <1>3, <1>5, <1>6

\* The row's joined anchors that entry i takes are held by i's work or nobody.
LEMMA AssignKnownKeeps ==
    ASSUME IInv, NEW row \in Rows, AssignKnown(row)
    PROVE  IInv'
  <1> USE DEF IInv
  <1> DEFINE i == owner[row.anchor]
             T == Taken(row, i, owner)
  <1>0. row.anchor \in Anchor /\ row.attached \subseteq Anchor
    BY RowsAssumption
  <1>1. /\ i \in Issued /\ i \in Ids /\ Live(i) /\ Survivor(i) = i
        /\ phase = "assigning" /\ phase' = "assigning"
        /\ n' = n /\ Issued' = Issued /\ UNCHANGED mergedInto
        /\ anchors' = [anchors EXCEPT ![i] = @ \union T]
        /\ owner' = [a \in Anchor |-> IF a \in T THEN i ELSE owner[a]]
    BY <1>0, EntriesFacts DEF AssignKnown, Extend, OwnerIsLive, SurvivorSteps, Issued
  <1>2. TypeOK'
    <2>1. T \subseteq Anchor /\ Contested(row, i, owner) \subseteq Ids
      BY <1>0, <1>1 DEF Entries, TypeOK, Taken, Contested
    <2>2. related' \subseteq SUBSET Ids
      BY <1>1, <2>1 DEF Entries, TypeOK, AssignKnown, Extend
    <2> QED BY <1>1, <2>1, <2>2 DEF Entries, TypeOK, AssignKnown, Ids, None
  <1>3. \A a \in T : owner[a] \in {None, i}
    BY DEF Taken
  <1>4. \A a \in Anchor : \A h \in Holders(a) :
            h \in Ids /\ owner[a] = Survivor(h) /\ owner[a] # None
    BY <1>1, EntriesFacts, IdsFacts
       DEF OwnerIsCurrent, HoldersAnswer, SurvivorSteps, Holders
  <1>5. \A a \in Anchor : a \in T => \A h \in Holders(a) : Survivor(h) = Survivor(i)
    BY <1>1, <1>3, <1>4
  <1> HIDE DEF T
  <1>6. /\ Entries'
        /\ \A a \in Anchor : \A h \in Holders(a)' :
               h \in Ids /\ (h \in Holders(a) \/ (h = i /\ a \in T))
    BY <1>1, <1>2, <1>5, GivenAnchors
  <1>7. \A k \in Ids : Survivor(k)' = Survivor(k)
    BY <1>1, SurvivorKept DEF Entries
  <1>8. OwnerIsLive'
    BY <1>1 DEF OwnerIsLive, Live, None
  <1>9. OwnerIsCurrent'
    <2>1. HoldersAnswer'
      <3>1. Entries' => HoldersAnswer' BY EntriesFacts, PTL
      <3> QED BY <1>6, <3>1
    <2>2. ASSUME NEW a \in Anchor, NEW h \in Holders(a)'
          PROVE  owner'[a] = Index(a)'
      <3>1. Index(a)' = Survivor(h)
        BY <1>6, <1>7, <2>1 DEF HoldersAnswer
      <3> QED BY <1>1, <1>4, <1>5, <1>6, <3>1
    <2> QED BY <2>2 DEF OwnerIsCurrent
  <1> QED BY <1>6, <1>8, <1>9

\* A minted entry is nobody's until now, and so is its identifying anchor.
LEMMA AssignNewKeeps ==
    ASSUME IInv, NEW row \in Rows, AssignNew(row)
    PROVE  IInv'
  <1> USE DEF IInv
  <1> DEFINE i == n + 1
             known == [owner EXCEPT ![row.anchor] = i]
             T == {row.anchor} \union Taken(row, i, known)
  <1>0. row.anchor \in Anchor /\ row.attached \subseteq Anchor
    BY RowsAssumption
  <1>1. /\ n' = i /\ i \in Issued' /\ i \in Ids /\ i \notin Issued
        /\ Issued' = Issued \union {i} /\ Issued \subseteq Ids
        /\ phase = "assigning" /\ phase' = "assigning" /\ UNCHANGED mergedInto
    BY MaxIdAssumption DEF Entries, TypeOK, AssignNew, Issued, Ids
  <1>2. Live(i) /\ Survivor(i) = i /\ anchors[i] = {}
    BY <1>1, EntriesFacts DEF Entries, OnlyIssued, Live, SurvivorSteps
  <1>3. \A a \in Anchor : known[a] = IF a = row.anchor THEN i ELSE owner[a]
    BY <1>0 DEF Entries, TypeOK
  <1>4. /\ anchors' = [anchors EXCEPT ![i] = @ \union T]
        /\ owner' = [a \in Anchor |-> IF a \in T THEN i ELSE owner[a]]
    <2>1. anchors' = [anchors EXCEPT ![i] = T]
      BY DEF AssignNew
    <2>2. anchors[i] \union T = T
      BY <1>2
    <2>3. owner' = [a \in Anchor |-> IF a \in Taken(row, i, known) THEN i ELSE known[a]]
      BY DEF AssignNew, Extend
    <2> QED BY <1>3, <2>1, <2>2, <2>3
  <1>5. TypeOK'
    <2>1. known \in [Anchor -> Ids \union {None}]
      BY <1>1 DEF Entries, TypeOK
    <2>2. T \subseteq Anchor /\ Contested(row, i, known) \subseteq Ids
      BY <1>0, <2>1 DEF Taken, Contested
    <2> DEFINE C == Contested(row, i, known)
    <2>3. related' = related \union {{i, j} : j \in C} /\ C \subseteq Ids
      BY <2>2 DEF AssignNew, Extend
    <2>4. /\ detached' = detached /\ done' = done \union {row}
          /\ n \in 0..MaxId /\ n < MaxId
          /\ anchors \in [Ids -> SUBSET Anchor] /\ related \subseteq SUBSET Ids
          /\ mergedInto \in [Ids -> Ids \union {None}]
          /\ detached \in [Ids -> SUBSET Anchor] /\ done \subseteq Rows
          /\ owner \in [Anchor -> Ids \union {None}]
      BY DEF AssignNew, Entries, TypeOK
    <2>5. i \in 0..MaxId
      BY <2>4, MaxIdAssumption
    <2> HIDE DEF T, C, known, i
    <2>6. related' \subseteq SUBSET Ids
      <3>1. \A j \in C : {i, j} \in SUBSET Ids
        BY <1>1, <2>3
      <3>2. {{i, j} : j \in C} \subseteq SUBSET Ids
        BY <3>1
      <3> QED BY <2>3, <2>4, <3>2
    <2>7. /\ anchors' \in [Ids -> SUBSET Anchor]
          /\ owner' \in [Anchor -> Ids \union {None}]
      BY <1>1, <1>4, <2>2, <2>4
    <2>8. mergedInto' \in [Ids -> Ids \union {None}] /\ done' \subseteq Rows
      BY <1>1, <2>4
    <2> QED BY <1>1, <2>4, <2>5, <2>6, <2>7, <2>8 DEF TypeOK, Ids, None
  <1>6. \A a \in Anchor : \A h \in Holders(a) :
            h \in Ids /\ owner[a] = Survivor(h) /\ owner[a] \in Issued /\ owner[a] # None
    BY <1>1, EntriesFacts, IdsFacts
       DEF OwnerIsCurrent, OwnerIsLive, HoldersAnswer, SurvivorSteps, Holders
  <1>7. \A a \in Anchor : a \in T => Holders(a) = {}
    <2>1. owner[row.anchor] = None
      BY DEF AssignNew
    <2>2. \A a \in T : a = row.anchor \/ known[a] \in {None, i}
      BY DEF Taken
    <2> QED BY <1>1, <1>3, <1>6, <2>1, <2>2
  <1> HIDE DEF T
  <1>8. /\ Entries'
        /\ \A a \in Anchor : \A h \in Holders(a)' :
               h \in Ids /\ (h \in Holders(a) \/ (h = i /\ a \in T))
    <2>1. Issued \subseteq Issued'
      BY <1>1
    <2>2. \A a \in Anchor : a \in T => \A h \in Holders(a) : Survivor(h) = Survivor(i)
      BY <1>7
    <2> HIDE DEF i
    <2> QED BY <1>1, <1>4, <1>5, <2>1, <2>2, GivenAnchors
  <1>9. \A k \in Ids : Survivor(k)' = Survivor(k)
    BY <1>1, SurvivorKept DEF Entries
  <1>10. OwnerIsLive'
    BY <1>1, <1>2, <1>4 DEF OwnerIsLive, Live, None
  <1>11. OwnerIsCurrent'
    <2>1. HoldersAnswer'
      <3>1. Entries' => HoldersAnswer' BY EntriesFacts, PTL
      <3> QED BY <1>8, <3>1
    <2>2. ASSUME NEW a \in Anchor, NEW h \in Holders(a)'
          PROVE  owner'[a] = Index(a)'
      <3>1. Index(a)' = Survivor(h)
        BY <1>8, <1>9, <2>1 DEF HoldersAnswer
      <3> QED BY <1>2, <1>4, <1>6, <1>7, <1>8, <3>1
    <2> QED BY <2>2 DEF OwnerIsCurrent
  <1> QED BY <1>8, <1>10, <1>11

\* A relation between two works disturbs no entry (assign).
LEMMA RelateSiblingsKeeps ==
    ASSUME IInv, NEW a \in Anchor, NEW b \in Anchor, RelateSiblings(a, b)
    PROVE  IInv'
  <1> USE DEF IInv
  <1>1. Index(a) \in Ids /\ Index(b) \in Ids
    BY EntriesFacts DEF RelateSiblings, IndexAnswers
  <1>2. UNCHANGED <<n, anchors, mergedInto, detached, phase, owner, done>>
    BY DEF RelateSiblings, entries
  <1>3. TypeOK'
    BY <1>1, <1>2 DEF Entries, TypeOK, RelateSiblings, Ids, None
  <1>4. /\ Entries'
        /\ \A c \in Anchor : Holders(c)' = Holders(c)
        /\ \A k \in Ids : Survivor(k)' = Survivor(k)
    BY <1>2, <1>3, EntriesKept
  <1>5. OwnerIsLive'
    BY <1>2 DEF OwnerIsLive, Live, Issued, None
  <1>6. OwnerIsCurrent'
    <2>1. HoldersAnswer'
      <3>1. Entries' => HoldersAnswer' BY EntriesFacts, PTL
      <3> QED BY <1>4, <3>1
    <2>2. ASSUME phase = "assigning", NEW c \in Anchor, NEW h \in Holders(c)'
          PROVE  owner'[c] = Index(c)'
      <3>1. h \in Holders(c) /\ h \in Ids
        BY <1>4, EntriesFacts DEF Holders
      <3>2. Index(c)' = Survivor(h) /\ owner[c] = Survivor(h)
        BY <1>4, <2>1, <2>2, <3>1, EntriesFacts DEF HoldersAnswer, OwnerIsCurrent
      <3> QED BY <1>2, <3>2
    <2> QED BY <1>2, <2>2 DEF OwnerIsCurrent
  <1> QED BY <1>4, <1>5, <1>6

\* The write drops relations and changes no entry (render, main).
LEMMA SaveKeeps ==
    ASSUME IInv, Save
    PROVE  IInv'
  <1> USE DEF IInv
  <1>1. UNCHANGED <<n, anchors, mergedInto, detached, done>> /\ phase' = "saved"
    BY DEF Save, entries
  <1>2. related' \subseteq related /\ owner' \in [Anchor -> Ids \union {None}]
    BY DEF Save
  <1>3. TypeOK'
    BY <1>1, <1>2 DEF Entries, TypeOK, Ids, None
  <1>4. Entries'
    BY <1>1, <1>3, EntriesKept
  <1> QED BY <1>1, <1>4 DEF OwnerIsLive, OwnerIsCurrent

\* The invariant reads nothing but the variables.
LEMMA StutterKeeps ==
    ASSUME IInv, UNCHANGED vars
    PROVE  IInv'
  <1> USE DEF IInv
  <1>1. UNCHANGED <<n, anchors, mergedInto, detached, related, phase, owner, done>>
    BY DEF vars
  <1>2. TypeOK'
    BY <1>1 DEF Entries, TypeOK, Ids, None
  <1>3. /\ Entries'
        /\ \A c \in Anchor : Holders(c)' = Holders(c)
        /\ \A k \in Ids : Survivor(k)' = Survivor(k)
    BY <1>1, <1>2, EntriesKept
  <1>4. OwnerIsLive'
    BY <1>1 DEF OwnerIsLive, Live, Issued, None
  <1>5. OwnerIsCurrent'
    <2>1. HoldersAnswer'
      <3>1. Entries' => HoldersAnswer' BY EntriesFacts, PTL
      <3> QED BY <1>3, <3>1
    <2>2. ASSUME phase = "assigning", NEW c \in Anchor, NEW h \in Holders(c)'
          PROVE  owner'[c] = Index(c)'
      <3>1. h \in Holders(c) /\ h \in Ids
        BY <1>3, EntriesFacts DEF Holders
      <3>2. Index(c)' = Survivor(h) /\ owner[c] = Survivor(h)
        BY <1>3, <2>1, <2>2, <3>1, EntriesFacts DEF HoldersAnswer, OwnerIsCurrent
      <3> QED BY <1>1, <3>2
    <2> QED BY <1>1, <2>2 DEF OwnerIsCurrent
  <1> QED BY <1>3, <1>4, <1>5

-----------------------------------------------------------------------------
\* The empty registry satisfies the invariant.
LEMMA InitEstablishes == Init => IInv
  <1> SUFFICES ASSUME Init PROVE IInv
    OBVIOUS
  <1>1. TypeOK
    BY MaxIdAssumption DEF Init, TypeOK, Ids, None
  <1>2. MergesOK
    <2>1. \A k \in Ids : mergedInto[k] = None
      BY DEF Init
    <2>2. Acyclic
      BY <2>1, IdsFacts DEF Acyclic
    <2> QED BY <1>1, <2>2 DEF TypeOK, MergesOK
  <1>3. OnlyIssued
    BY DEF Init, OnlyIssued
  <1>4. \A a \in Anchor : Holders(a) = {}
    <2>1. Issued = {}
      BY DEF Init, Issued
    <2> QED BY <2>1 DEF Holders
  <1> QED BY <1>1, <1>2, <1>3, <1>4
          DEF Init, IInv, Entries, OneWorkPerAnchor, OwnerIsLive, OwnerIsCurrent


\* Every operation of an invocation keeps it but a merge.
LEMMA StepKeeps == IInv /\ Step => IInv'
  <1> SUFFICES ASSUME IInv, Step PROVE IInv'
    OBVIOUS
  <1>1. ASSUME NEW a \in Anchor, Detach(a) PROVE IInv'
    BY <1>1, DetachKeeps
  <1>2. ASSUME NEW a \in Anchor, NEW i \in Issued, Attach(a, i) PROVE IInv'
    BY <1>2, AttachKeeps
  <1>3. ASSUME BeginAssign PROVE IInv'
    BY <1>3, BeginAssignKeeps
  <1>4. ASSUME NEW row \in Rows, AssignKnown(row) PROVE IInv'
    BY <1>4, AssignKnownKeeps
  <1>5. ASSUME NEW row \in Rows, AssignNew(row) PROVE IInv'
    BY <1>5, AssignNewKeeps
  <1>6. ASSUME NEW a \in Anchor, NEW b \in Anchor, RelateSiblings(a, b) PROVE IInv'
    BY <1>6, RelateSiblingsKeeps
  <1>7. ASSUME Save PROVE IInv'
    BY <1>7, SaveKeeps
  <1> QED BY <1>1, <1>2, <1>3, <1>4, <1>5, <1>6, <1>7 DEF Step

-----------------------------------------------------------------------------
(* What every registry keeps, sound or not.                                *)

Typed == TypeOK /\ OnlyIssued

\* Whatever was merged into whatever, a walk from an entry ends at an entry, which
\* answers for itself (survivor).
WalkFacts ==
    /\ Issued \subseteq Ids
    /\ \A i \in Ids : Survivor(i) \in Ids /\ Survivor(Survivor(i)) = Survivor(i)
    /\ \A i \in Issued : Survivor(i) \in Issued

LEMMA AnyWalk == Typed => WalkFacts
  <1> SUFFICES ASSUME Typed PROVE WalkFacts
    OBVIOUS
  <1> DEFINE m == mergedInto
  <1>1. m \in Links /\ Issued \subseteq Ids
    BY MaxIdAssumption DEF Typed, TypeOK, Links, Issued, Ids
  <1>2. \A k \in Issued : m[k] = None \/ m[k] \in Issued
    BY <1>1 DEF Typed, OnlyIssued
  <1> HIDE DEF m
  <1>3. \A i \in Ids : SurvivorBy(m, i) \in Ids /\ SurvivorBy(m, SurvivorBy(m, i)) = SurvivorBy(m, i)
    BY <1>1, WalkAnswer, AnswerIsItsOwn, MetByFacts
  <1>4. ASSUME NEW i \in Issued PROVE SurvivorBy(m, i) \in Issued
    <2>1. MetBy(m, i) \subseteq Issued
      BY <1>1, <1>2, MetByFacts
    <2> QED BY <1>1, <2>1, WalkAnswer
  <1>5. \A i \in Ids : Survivor(i) = SurvivorBy(m, i)
    BY OwnLinks DEF OwnWalks, m
  <1> QED BY <1>1, <1>3, <1>4, <1>5 DEF WalkFacts

\* A step that repoints nothing changes no walk.
LEMMA WalksStay ==
    ASSUME UNCHANGED mergedInto
    PROVE  \A i \in Ids : Survivor(i)' = Survivor(i) /\ Met(i)' = Met(i)
  BY OwnLinks, OwnLinksNext DEF OwnWalks

\* What the index answers: what the last holder resolves to, or the last holder
\* of the other slash form.
IndexStands ==
    \A a \in Anchor :
        /\ Holders(a) \subseteq Issued
        /\ Holders(a) # {} =>
              /\ \E x \in Holders(a) :
                    (\A h \in Holders(a) : h <= x) /\ Index(a) = Survivor(x)
              /\ Index(a) \in Issued /\ Survivor(Index(a)) = Index(a)
        /\ Holders(a) = {} /\ Holders(Twin[a]) # {} => Index(a) = Index(Twin[a])
        /\ Holders(a) = {} /\ Holders(Twin[a]) = {} => Index(a) = None

LEMMA IndexOfAny == Typed => IndexStands
  <1> SUFFICES ASSUME Typed, NEW a \in Anchor
               PROVE  /\ Holders(a) \subseteq Issued
                      /\ Holders(a) # {} =>
                            /\ \E x \in Holders(a) :
                                  (\A h \in Holders(a) : h <= x) /\ Index(a) = Survivor(x)
                            /\ Index(a) \in Issued /\ Survivor(Index(a)) = Index(a)
                      /\ Holders(a) = {} /\ Holders(Twin[a]) # {} => Index(a) = Index(Twin[a])
                      /\ Holders(a) = {} /\ Holders(Twin[a]) = {} => Index(a) = None
    BY DEF IndexStands
  <1>1. WalkFacts /\ Holders(a) \subseteq Issued
    BY AnyWalk DEF Holders
  <1>2. ASSUME Holders(a) # {}
        PROVE  LastHolder(a) \in Holders(a) /\ \A h \in Holders(a) : h <= LastHolder(a)
    <2>1. Holders(a) \in SUBSET Ids
      BY <1>1 DEF WalkFacts
    <2>2. \E i \in Holders(a) : \A j \in Holders(a) : j <= i
      BY <1>2, <2>1, LastAndFirst
    <2> QED BY <2>2 DEF LastHolder
  <1>3. ASSUME Holders(a) # {}
        PROVE  /\ Index(a) = Survivor(LastHolder(a)) /\ Index(a) \in Issued
               /\ Survivor(Index(a)) = Index(a)
    BY <1>1, <1>2, <1>3 DEF Index, WalkFacts
  <1>4. Holders(a) = {} => (Holders(Twin[a]) # {} => Index(a) = Index(Twin[a]))
                           /\ (Holders(Twin[a]) = {} => Index(a) = None)
    BY DEF Index
  <1> QED BY <1>1, <1>2, <1>3, <1>4

LEMMA IndexOfAnyNext == Typed' => IndexStands'
  BY IndexOfAny, PTL

\* An answer that is not nobody's is an entry that answers for itself.
LEMMA IndexRange ==
    ASSUME Typed, NEW a \in Anchor
    PROVE  /\ Index(a) \in Issued \union {None}
           /\ Index(a) # None => Index(a) \in Issued /\ Survivor(Index(a)) = Index(a)
           /\ Holders(a) # {} => Index(a) # None
  <1>1. IndexStands /\ Twin[a] \in Anchor /\ None \notin Issued
    BY IndexOfAny, TwinAssumption, AnyWalk, IdsFacts DEF WalkFacts
  <1> QED BY <1>1 DEF IndexStands

\* An anchor keeps its answer while it keeps its holders, and while an entry it
\* answers with, or one it is the first to have, joins them.
LEMMA AnswerKept ==
    ASSUME Typed, Typed', UNCHANGED mergedInto, NEW a \in Anchor,
           Holders(a) # {}, Holders(a)' = Holders(a)
    PROVE  Index(a)' = Index(a)
  <1>1. IndexStands /\ IndexStands' /\ WalkFacts
    BY IndexOfAny, IndexOfAnyNext, AnyWalk
  <1>2. PICK x \in Holders(a) : (\A h \in Holders(a) : h <= x) /\ Index(a) = Survivor(x)
    BY <1>1 DEF IndexStands
  <1>3. PICK y \in Holders(a) : (\A h \in Holders(a) : h <= y) /\ Index(a)' = Survivor(y)'
    BY <1>1 DEF IndexStands
  <1>4. x \in Ids /\ y \in Ids
    BY <1>1, <1>2, <1>3 DEF WalkFacts, IndexStands
  <1>5. x = y
    BY <1>2, <1>3, <1>4, IdsFacts
  <1>6. Survivor(x)' = Survivor(x)
    BY <1>4, WalksStay
  <1> QED BY <1>2, <1>3, <1>5, <1>6

LEMMA AnswerGrows ==
    ASSUME Typed, Typed', UNCHANGED mergedInto, NEW a \in Anchor, NEW i \in Ids,
           Survivor(i) = i, Holders(a)' = Holders(a) \union {i},
           Holders(a) = {} \/ Index(a) = i
    PROVE  Index(a)' = i
  <1>1. IndexStands /\ IndexStands' /\ WalkFacts
    BY IndexOfAny, IndexOfAnyNext, AnyWalk
  <1>2. PICK y \in Holders(a) \union {i} :
            (\A h \in Holders(a) \union {i} : h <= y) /\ Index(a)' = Survivor(y)'
    BY <1>1 DEF IndexStands
  <1>3. CASE y = i
    BY <1>2, <1>3, WalksStay
  <1>4. CASE y # i
    <2>1. y \in Holders(a) /\ Index(a) = i
      BY <1>2, <1>4
    <2>2. PICK x \in Holders(a) : (\A h \in Holders(a) : h <= x) /\ Index(a) = Survivor(x)
      BY <1>1, <2>1 DEF IndexStands
    <2>3. x \in Ids /\ y \in Ids
      BY <1>1, <2>1, <2>2 DEF WalkFacts, IndexStands
    <2>4. x = y
      BY <1>2, <2>1, <2>2, <2>3, IdsFacts
    <2> QED BY <1>2, <2>1, <2>2, <2>3, <2>4, WalksStay
  <1> QED BY <1>3, <1>4

\* What assign's index answers is what the entries answer, also for an anchor
\* that only the other slash form of it is registered for.
OwnerIsIndex ==
    phase = "assigning" => \A a \in Anchor : owner[a] # None => Index(a) = owner[a]

Answers(a) == IF phase = "assigning" THEN owner[a] ELSE Index(a)

\* A row assigned since the last decision has an entry, and every anchor it joins
\* is listed there, refused to it, or somebody else's.
DoneIsSettled ==
    \A row \in done :
        /\ Answers(row.anchor) # None
        /\ \A a \in row.attached :
              \/ Answers(row.anchor) \in Refused(a)
              \/ a \in anchors[Answers(row.anchor)]
              \/ Answers(a) \notin {None, Answers(row.anchor)}

Base == Typed /\ OwnerIsCurrent /\ OwnerIsIndex /\ DoneIsSettled

\* The entries of a running assignment's index answer for themselves.
LEMMA OwnerHolds ==
    ASSUME Base, phase = "assigning", NEW a \in Anchor, owner[a] # None
    PROVE  owner[a] \in Issued /\ owner[a] \in Ids /\ Survivor(owner[a]) = owner[a]
  BY IndexRange, AnyWalk DEF Base, OwnerIsIndex, WalkFacts

\* A pass that gives an entry its row's anchors, all of them nobody's or its own,
\* keeps its index true and leaves every row settled, this one with the others.
LEMMA RowKeeps ==
    ASSUME Base, Typed', UNCHANGED <<mergedInto, detached>>, Issued \subseteq Issued',
           phase = "assigning", phase' = "assigning",
           NEW row \in Rows, done' = done \union {row},
           NEW i \in Ids, Survivor(i) = i,
           NEW T \in SUBSET Anchor, \A a \in T : owner[a] \in {None, i},
           owner' = [a \in Anchor |-> IF a \in T THEN i ELSE owner[a]],
           \A a \in Anchor : Holders(a)' = IF a \in T THEN Holders(a) \union {i} ELSE Holders(a),
           \A k \in Ids : anchors[k] \subseteq anchors'[k],
           T \subseteq anchors'[i], owner'[row.anchor] = i,
           \A a \in row.attached : i \in Refused(a) \/ a \in T \/ owner[a] \notin {None, i}
    PROVE  Base'
  <1> USE DEF Base
  <1>0. i # None
    BY IdsFacts
  <1>1. ASSUME NEW a \in T PROVE Index(a)' = i
    <2>1. Holders(a) # {} => Index(a) = owner[a] /\ owner[a] # None
      BY IndexRange DEF OwnerIsCurrent
    <2> QED BY <2>1, AnswerGrows
  <1>2. ASSUME NEW a \in Anchor, Holders(a) # {}, a \notin T
        PROVE  Index(a)' = Index(a)
    BY <1>2, AnswerKept
  <1>3. OwnerIsCurrent'
    <2>1. ASSUME NEW a \in Anchor, Holders(a)' # {} PROVE owner'[a] = Index(a)'
      BY <1>1, <1>2, <2>1 DEF OwnerIsCurrent
    <2> QED BY <2>1 DEF OwnerIsCurrent
  <1>4. ASSUME NEW a \in Anchor, owner'[a] # None PROVE Index(a)' = owner'[a]
    <2>1. CASE a \in T
      BY <1>1, <2>1
    <2>2. CASE a \notin T
      <3>1. owner[a] = owner'[a] /\ Index(a) = owner[a]
        BY <1>4, <2>2 DEF OwnerIsIndex
      <3>2. CASE Holders(a) # {}
        BY <1>2, <2>2, <3>1, <3>2
      <3>3. CASE Holders(a) = {}
        <4> DEFINE b == Twin[a]
        <4>1. b \in Anchor /\ IndexStands /\ IndexStands'
          BY TwinAssumption, IndexOfAny, IndexOfAnyNext
        <4>2. Holders(b) # {} /\ Index(a) = Index(b)
          BY <1>4, <3>1, <3>3, <4>1 DEF IndexStands
        <4>3. owner[b] = Index(b)
          BY <4>1, <4>2 DEF OwnerIsCurrent
        <4>4. Index(b)' = Index(b)
          BY <1>1, <1>2, <1>4, <3>1, <4>1, <4>2, <4>3
        <4>5. Holders(a)' = {} /\ Holders(b)' # {}
          BY <2>2, <3>3, <4>1, <4>2
        <4>6. Index(a)' = Index(b)'
          BY <4>1, <4>5 DEF IndexStands
        <4> QED BY <3>1, <4>2, <4>4, <4>6
      <3> QED BY <3>2, <3>3
    <2> QED BY <2>1, <2>2
  <1>5. OwnerIsIndex'
    BY <1>4 DEF OwnerIsIndex
  <1>6. /\ row.anchor \in Anchor /\ row.attached \subseteq Anchor
        /\ \A r \in done : r.anchor \in Anchor /\ r.attached \subseteq Anchor
    BY RowsAssumption DEF Typed, TypeOK
  <1>7. \A a \in Anchor : Refused(a) \subseteq Refused(a)'
    BY DEF Refused
  <1>8. \A a \in Anchor : owner[a] # None => owner'[a] = owner[a]
    OBVIOUS
  <1>9. ASSUME NEW r \in done'
        PROVE  /\ owner'[r.anchor] # None
               /\ \A a \in r.attached :
                     \/ owner'[r.anchor] \in Refused(a)'
                     \/ a \in anchors'[owner'[r.anchor]]
                     \/ owner'[a] \notin {None, owner'[r.anchor]}
    <2>1. CASE r \in done
      <3> DEFINE j == owner[r.anchor]
      <3>1. /\ j # None
            /\ \A a \in r.attached : j \in Refused(a) \/ a \in anchors[j] \/ owner[a] \notin {None, j}
        BY <2>1 DEF DoneIsSettled, Answers
      <3>2. owner'[r.anchor] = j /\ j \in Ids
        BY <1>6, <1>8, <2>1, <3>1, OwnerHolds
      <3> HIDE DEF j
      <3>3. ASSUME NEW a \in r.attached
            PROVE  j \in Refused(a)' \/ a \in anchors'[j] \/ owner'[a] \notin {None, j}
        BY <1>6, <1>7, <1>8, <2>1, <3>1, <3>2, <3>3
      <3> QED
        BY <3>1, <3>2, <3>3
    <2>2. CASE r = row
      <3>1. ASSUME NEW a \in r.attached
            PROVE  i \in Refused(a)' \/ a \in anchors'[i] \/ owner'[a] \notin {None, i}
        BY <1>6, <1>7, <1>8, <2>2, <3>1
      <3> QED
        BY <1>0, <2>2, <3>1
    <2> QED
      BY <2>1, <2>2
  <1>10. DoneIsSettled'
    BY <1>9 DEF DoneIsSettled, Answers
  <1> QED
    BY <1>3, <1>5, <1>10

\* Between two rows nothing that is read of a row is written.
LEMMA UnreadKeeps ==
    ASSUME Base, TypeOK', UNCHANGED <<n, anchors, mergedInto, detached, done>>,
           \/ UNCHANGED <<phase, owner>>
           \/ phase # "assigning" /\ phase' = "assigning" /\ owner' = [a \in Anchor |-> Index(a)]
           \/ phase = "assigning" /\ phase' # "assigning"
    PROVE  Base'
  <1> USE DEF Base
  <1>1. Issued' = Issued /\ \A a \in Anchor : Holders(a)' = Holders(a) /\ Refused(a)' = Refused(a)
    BY DEF Holders, Issued, Refused
  <1>2. Typed'
    BY <1>1 DEF Typed, OnlyIssued, Ids, None
  <1>3. ASSUME NEW a \in Anchor PROVE Index(a)' = Index(a)
    <2>1. IndexStands /\ IndexStands' /\ Twin[a] \in Anchor
      BY <1>2, IndexOfAny, IndexOfAnyNext, TwinAssumption
    <2>2. Holders(a)' = Holders(a) /\ Holders(Twin[a])' = Holders(Twin[a])
      BY <1>1, <2>1
    <2>3. CASE Holders(a) # {}
      BY <1>2, <2>2, <2>3, AnswerKept
    <2>4. CASE Holders(a) = {} /\ Holders(Twin[a]) # {}
      <3>1. Index(Twin[a])' = Index(Twin[a])
        BY <1>2, <2>1, <2>2, <2>4, AnswerKept
      <3> QED BY <2>1, <2>2, <2>4, <3>1 DEF IndexStands
    <2>5. CASE Holders(a) = {} /\ Holders(Twin[a]) = {}
      BY <2>1, <2>2, <2>5 DEF IndexStands, None
    <2> QED BY <2>3, <2>4, <2>5
  <1>4. \A r \in done : r.anchor \in Anchor /\ r.attached \subseteq Anchor
    BY RowsAssumption DEF Typed, TypeOK
  <1>5. OwnerIsIndex'
    BY <1>3 DEF OwnerIsIndex
  <1>6. OwnerIsCurrent'
    BY <1>1, <1>3 DEF OwnerIsCurrent
  <1>7. \A a \in Anchor : Answers(a) # None => Answers(a)' = Answers(a)
    BY <1>3 DEF Answers, OwnerIsIndex
  <1>8. DoneIsSettled'
    <2>1. SUFFICES ASSUME NEW r \in done
                   PROVE  /\ Answers(r.anchor)' # None
                          /\ \A a \in r.attached :
                                \/ Answers(r.anchor)' \in Refused(a)'
                                \/ a \in anchors[Answers(r.anchor)']
                                \/ Answers(a)' \notin {None, Answers(r.anchor)'}
      BY DEF DoneIsSettled
    <2>2. Answers(r.anchor) # None /\ Answers(r.anchor)' = Answers(r.anchor)
      BY <1>4, <1>7 DEF DoneIsSettled
    <2>3. ASSUME NEW a \in r.attached
          PROVE  \/ Answers(r.anchor) \in Refused(a)'
                 \/ a \in anchors[Answers(r.anchor)]
                 \/ Answers(a)' \notin {None, Answers(r.anchor)}
      BY <1>1, <1>4, <1>7 DEF DoneIsSettled
    <2> QED
      BY <2>2, <2>3
  <1> QED
    BY <1>2, <1>5, <1>6, <1>8

\* A decision forgets which rows were assigned and leaves no index behind.
LEMMA DecisionKeeps ==
    ASSUME Typed', done' = {}, phase' = "deciding"
    PROVE  Base'
  BY DEF Base, OwnerIsCurrent, OwnerIsIndex, DoneIsSettled


\* An operation that retires nothing and gives anchors to issued entries.
LEMMA TypedStep ==
    ASSUME Typed, UNCHANGED mergedInto, TypeOK', Issued \subseteq Issued',
           \A i \in Ids : anchors'[i] # anchors[i] => i \in Issued'
    PROVE  Typed'
  <1>1. ASSUME NEW k \in Ids, k \notin Issued'
        PROVE  anchors'[k] = {} /\ mergedInto'[k] = None
    BY <1>1 DEF Typed, OnlyIssued
  <1>2. ASSUME NEW k \in Ids, mergedInto'[k] # None
        PROVE  mergedInto'[k] \in Issued'
    BY <1>2 DEF Typed, OnlyIssued
  <1> QED BY <1>1, <1>2 DEF Typed, OnlyIssued, Ids, None

LEMMA DetachBase == ASSUME Base, NEW a \in Anchor, Detach(a) PROVE Base'
  <1> DEFINE first == CHOOSE i \in Holders(a) : \A j \in Holders(a) : i <= j
  <1>1. Issued \subseteq Ids /\ Holders(a) \subseteq Ids /\ Holders(a) \subseteq Issued
    BY AnyWalk DEF Base, WalkFacts, Holders
  <1>2. Holders(a) # {} => first \in Holders(a)
    <2>1. SUFFICES ASSUME Holders(a) # {} PROVE first \in Holders(a)
      OBVIOUS
    <2>2. \E i \in Holders(a) : \A j \in Holders(a) : i <= j
      BY <1>1, <2>1, LastAndFirst
    <2> QED BY <2>2
  <1>3. phase' = "deciding" /\ done' = {} /\ UNCHANGED <<n, mergedInto, related, owner>>
    BY DEF Detach
  <1>4. CASE Holders(a) = {}
    <2>1. TypeOK' /\ Issued' = Issued /\ anchors' = anchors
      BY <1>3, <1>4 DEF Base, Typed, TypeOK, Detach, Ids, None, Issued
    <2> QED BY <1>3, <2>1, TypedStep, DecisionKeeps DEF Base
  <1>5. CASE Holders(a) # {}
    <2>1. /\ anchors' = [anchors EXCEPT ![first] = @ \ {a}]
          /\ detached' = [detached EXCEPT ![first] = @ \union {a}]
          /\ first \in Issued /\ first \in Ids
      BY <1>1, <1>2, <1>5 DEF Detach
    <2> HIDE DEF first
    <2>2. TypeOK' /\ Issued' = Issued
      BY <1>3, <2>1 DEF Base, Typed, TypeOK, Ids, None, Issued
    <2>3. \A i \in Ids : anchors'[i] # anchors[i] => i \in Issued'
      BY <2>1, <2>2 DEF Base, Typed, TypeOK
    <2> QED BY <1>3, <2>2, <2>3, TypedStep, DecisionKeeps DEF Base
  <1> QED BY <1>4, <1>5

LEMMA AttachBase == ASSUME Base, NEW a \in Anchor, NEW i \in Issued, Attach(a, i) PROVE Base'
  <1>1. /\ Issued' = Issued /\ UNCHANGED <<n, mergedInto, detached, related, owner>>
        /\ i \in Ids /\ i \in Issued'
        /\ phase' = "deciding" /\ done' = {}
        /\ anchors' = [anchors EXCEPT ![i] = @ \union {a}]
    BY AnyWalk DEF Attach, Issued, Base, WalkFacts
  <1>2. TypeOK'
    BY <1>1 DEF Base, Typed, TypeOK, Ids, None
  <1>3. \A k \in Ids : anchors'[k] # anchors[k] => k \in Issued'
    BY <1>1 DEF Base, Typed, TypeOK
  <1> QED BY <1>1, <1>2, <1>3, TypedStep, DecisionKeeps DEF Base

LEMMA MergeBase ==
    ASSUME Base, NEW loser \in Issued, NEW winner \in Issued, Merge(loser, winner)
    PROVE  Base'
  <1>1. /\ loser \in Ids /\ winner \in Ids /\ Issued' = Issued
        /\ UNCHANGED <<n, detached, related, owner>>
        /\ phase' = "deciding" /\ done' = {}
        /\ mergedInto' = [mergedInto EXCEPT ![loser] = winner]
        /\ anchors' = [anchors EXCEPT ![winner] = @ \union anchors[loser]]
    BY AnyWalk DEF Merge, Issued, Base, WalkFacts
  <1>2. TypeOK'
    BY <1>1 DEF Base, Typed, TypeOK, Ids, None
  <1>3. \A k \in Ids :
          /\ anchors'[k] = IF k = winner THEN anchors[k] \union anchors[loser]
                           ELSE anchors[k]
          /\ mergedInto'[k] = IF k = loser THEN winner ELSE mergedInto[k]
    BY <1>1 DEF Base, Typed, TypeOK
  <1>4. OnlyIssued'
    BY <1>1, <1>3 DEF Base, Typed, OnlyIssued, Ids, None
  <1> QED BY <1>1, <1>2, <1>4, DecisionKeeps DEF Typed

LEMMA AssignKnownBase ==
    ASSUME Base, NEW row \in Rows, AssignKnown(row), NEW i, i = owner[row.anchor]
    PROVE  Base'
  <1> DEFINE T == Taken(row, i, owner)
  <1>1. row.anchor \in Anchor /\ row.attached \subseteq Anchor /\ T \in SUBSET Anchor
    BY RowsAssumption DEF Taken
  <1>2. /\ UNCHANGED <<mergedInto, detached>> /\ n' = n /\ Issued' = Issued
        /\ phase = "assigning" /\ phase' = "assigning" /\ done' = done \union {row} /\ i # None
        /\ anchors' = [anchors EXCEPT ![i] = @ \union T]
        /\ owner' = [a \in Anchor |-> IF a \in T THEN i ELSE owner[a]]
        /\ related' = related \union {{i, j} : j \in Contested(row, i, owner)}
    BY DEF AssignKnown, Extend, Issued
  <1>3. i \in Issued /\ i \in Ids /\ Survivor(i) = i
    BY <1>1, <1>2, OwnerHolds
  <1>4. /\ \A a \in T : owner[a] \in {None, i}
        /\ \A a \in row.attached : i \in Refused(a) \/ a \in T \/ owner[a] \notin {None, i}
    BY DEF Taken
  <1>5. owner'[row.anchor] = i
    BY <1>1, <1>2
  <1>6. Contested(row, i, owner) \subseteq Ids
    BY <1>1 DEF Contested, Base, Typed, TypeOK
  <1> HIDE DEF T
  <1>7. related' \subseteq SUBSET Ids
    BY <1>2, <1>3, <1>6 DEF Base, Typed, TypeOK
  <1>8. TypeOK'
    BY <1>1, <1>2, <1>3, <1>7 DEF Base, Typed, TypeOK, Ids, None
  <1>9. \A k \in Ids : anchors'[k] = IF k = i THEN anchors[k] \union T ELSE anchors[k]
    BY <1>2, <1>3 DEF Base, Typed, TypeOK
  <1>10. Typed'
    BY <1>2, <1>3, <1>8, <1>9, TypedStep DEF Base
  <1>11. \A a \in Anchor : Holders(a)' = IF a \in T THEN Holders(a) \union {i} ELSE Holders(a)
    <2>1. \A k \in Issued : k \in Ids
      BY AnyWalk DEF Base, WalkFacts
    <2> QED BY <1>2, <1>3, <1>9, <2>1 DEF Holders
  <1>12. T \subseteq anchors'[i] /\ \A k \in Ids : anchors[k] \subseteq anchors'[k]
    BY <1>3, <1>9
  <1> QED
    BY <1>1, <1>2, <1>3, <1>4, <1>5, <1>10, <1>11, <1>12, RowKeeps

LEMMA AssignNewBase ==
    ASSUME Base, NEW row \in Rows, AssignNew(row), NEW i, i = n + 1
    PROVE  Base'
  <1> DEFINE known == [owner EXCEPT ![row.anchor] = i]
             T == {row.anchor} \union Taken(row, i, known)
  <1>1. row.anchor \in Anchor /\ row.attached \subseteq Anchor /\ T \in SUBSET Anchor
    BY RowsAssumption DEF Taken
  <1>2. /\ UNCHANGED <<mergedInto, detached>> /\ n' = i /\ n < MaxId /\ owner[row.anchor] = None
        /\ phase = "assigning" /\ phase' = "assigning" /\ done' = done \union {row}
        /\ anchors' = [anchors EXCEPT ![i] = T]
        /\ owner' = [a \in Anchor |-> IF a \in Taken(row, i, known) THEN i ELSE known[a]]
        /\ related' = related \union {{i, j} : j \in Contested(row, i, known)}
    BY DEF AssignNew, Extend
  <1>3. /\ i \in Ids /\ i \in 0..MaxId /\ i # None /\ i \notin Issued /\ Issued' = Issued \union {i}
        /\ Issued \subseteq Ids
        /\ n \in Nat /\ anchors \in [Ids -> SUBSET Anchor] /\ owner \in [Anchor -> Ids \union {None}]
    BY <1>2, MaxIdAssumption DEF Base, Typed, TypeOK, Issued, Ids, None
  <1>4. anchors[i] = {} /\ Survivor(i) = i
    BY <1>3 DEF Base, Typed, OnlyIssued, Live, Survivor
  <1>5. \A a \in Anchor : known[a] = IF a = row.anchor THEN i ELSE owner[a]
    BY <1>1, <1>3
  <1>6. /\ \A a \in T : owner[a] \in {None, i}
        /\ \A a \in row.attached : i \in Refused(a) \/ a \in T \/ owner[a] \notin {None, i}
    BY <1>1, <1>2, <1>5 DEF Taken
  <1>7. /\ owner' = [a \in Anchor |-> IF a \in T THEN i ELSE owner[a]]
        /\ owner'[row.anchor] = i
    BY <1>1, <1>2, <1>5
  <1>8. Contested(row, i, known) \subseteq Ids
    BY <1>1, <1>3, <1>5 DEF Contested, None
  <1> HIDE DEF T, known
  <1>9. related' \subseteq SUBSET Ids
    <2>1. \A j \in Contested(row, i, known) : {i, j} \subseteq Ids
      BY <1>3, <1>8
    <2>2. related \subseteq SUBSET Ids
      BY DEF Base, Typed, TypeOK
    <2>3. related' = related \union {{i, j} : j \in Contested(row, i, known)}
      BY <1>2
    <2> QED BY <2>1, <2>2, <2>3
  <1>10. /\ i \in Ids /\ anchors \in [Ids -> SUBSET Anchor] /\ anchors' = [anchors EXCEPT ![i] = T]
         /\ owner \in [Anchor -> Ids \union {None}]
         /\ owner' = [a \in Anchor |-> IF a \in T THEN i ELSE owner[a]]
         /\ n' \in 0..MaxId /\ mergedInto' = mergedInto /\ detached' = detached
         /\ phase' = "assigning" /\ done' = done \union {row}
    BY <1>2, <1>3, <1>7
  <1>11. \A k \in Ids : anchors'[k] = IF k = i THEN T ELSE anchors[k]
    BY <1>10
  <1>12. TypeOK'
    <2>1. anchors' \in [Ids -> SUBSET Anchor] /\ owner' \in [Anchor -> Ids \union {None}]
      BY <1>1, <1>10
    <2> QED BY <1>9, <1>10, <2>1 DEF Base, Typed, TypeOK, Ids, None
  <1>13. Typed'
    BY <1>2, <1>3, <1>11, <1>12, TypedStep DEF Base
  <1>14. T \subseteq anchors'[i] /\ \A k \in Ids : anchors[k] \subseteq anchors'[k]
    BY <1>3, <1>4, <1>11
  <1>15. \A a \in Anchor : Holders(a)' = IF a \in T THEN Holders(a) \union {i} ELSE Holders(a)
    BY <1>3, <1>4, <1>11 DEF Holders
  <1>16. /\ UNCHANGED <<mergedInto, detached>> /\ phase = "assigning" /\ phase' = "assigning"
         /\ done' = done \union {row} /\ i \in Ids /\ Survivor(i) = i /\ Issued \subseteq Issued'
    BY <1>2, <1>3, <1>4
  <1> QED
    BY <1>1, <1>6, <1>7, <1>13, <1>14, <1>15, <1>16, RowKeeps

LEMMA BaseKeeps == Base /\ [Next]_vars => Base'
  <1> SUFFICES ASSUME Base, [Next]_vars PROVE Base'
    OBVIOUS
  <1>1. ASSUME BeginAssign PROVE Base'
    <2>1. \A a \in Anchor : Index(a) \in Ids \union {None}
      BY IndexRange, AnyWalk DEF Base, WalkFacts
    <2>2. TypeOK'
      BY <1>1, <2>1 DEF Base, Typed, TypeOK, BeginAssign, Ids, None
    <2> QED BY <1>1, <2>2, UnreadKeeps DEF BeginAssign, Deciding
  <1>2. ASSUME NEW a \in Anchor, NEW b \in Anchor, RelateSiblings(a, b) PROVE Base'
    <2>1. /\ UNCHANGED <<n, anchors, mergedInto, detached, phase, owner, done>>
          /\ Index(a) \in Ids /\ Index(b) \in Ids
          /\ related' = related \union {{Index(a), Index(b)}}
      BY <1>2, IndexRange, AnyWalk DEF Base, WalkFacts, RelateSiblings, entries
    <2>2. related' \subseteq SUBSET Ids
      BY <2>1 DEF Base, Typed, TypeOK
    <2>3. TypeOK'
      BY <2>1, <2>2 DEF Base, Typed, TypeOK, Ids, None
    <2> QED BY <2>1, <2>3, UnreadKeeps
  <1>3. ASSUME Save PROVE Base'
    <2>1. /\ UNCHANGED <<n, anchors, mergedInto, detached, done>>
          /\ phase = "assigning" /\ phase' = "saved" /\ related' \subseteq related
          /\ owner' = [a \in Anchor |-> None]
      BY <1>3 DEF Save, entries
    <2>2. TypeOK'
      BY <2>1 DEF Base, Typed, TypeOK, Ids, None
    <2> QED BY <2>1, <2>2, UnreadKeeps
  <1>4. ASSUME UNCHANGED vars PROVE Base'
    <2>1. UNCHANGED <<n, anchors, mergedInto, detached, related, phase, owner, done>>
      BY <1>4 DEF vars
    <2>2. TypeOK'
      BY <2>1 DEF Base, Typed, TypeOK, Ids, None
    <2> QED BY <2>1, <2>2, UnreadKeeps
  <1>5. ASSUME NEW row \in Rows, AssignKnown(row) \/ AssignNew(row) PROVE Base'
    BY <1>5, AssignKnownBase, AssignNewBase
  <1> QED BY <1>1, <1>2, <1>3, <1>4, <1>5, DetachBase, AttachBase, MergeBase DEF Next, Step

LEMMA InitBase == Init => Base
  <1> SUFFICES ASSUME Init PROVE Base
    OBVIOUS
  <1>1. TypeOK
    BY MaxIdAssumption DEF Init, TypeOK, Ids, None
  <1> QED
    BY <1>1 DEF Init, Base, Typed, OnlyIssued, OwnerIsCurrent, OwnerIsIndex, DoneIsSettled

THEOREM BaseInvariance == Spec => []Base
  BY InitBase, BaseKeeps, PTL DEF Spec

\* Where every identifier resolves and no anchor is split, the registry is a
\* forest and a running index names live works.
LEMMA Sound == Base /\ EveryIdResolves /\ OneWorkPerAnchor => IInv
  <1> SUFFICES ASSUME Base, EveryIdResolves, OneWorkPerAnchor PROVE IInv
    OBVIOUS
  <1>1. mergedInto \in Links /\ Issued \subseteq Ids /\ \A k \in Ids : Survivor(k) = SurvivorBy(mergedInto, k)
    BY OwnLinks, AnyWalk DEF Base, Typed, TypeOK, Links, WalkFacts, OwnWalks
  <1>2. ASSUME NEW k \in Ids PROVE Live(Survivor(k))
    <2>1. CASE k \in Issued
      BY <2>1 DEF EveryIdResolves
    <2>2. CASE k \notin Issued
      BY <2>2 DEF Base, Typed, OnlyIssued, Live, Survivor
    <2> QED BY <2>1, <2>2
  <1>3. Acyclic
    <2>1. SUFFICES ASSUME NEW S \in SUBSET Ids, S # {}, \A k \in S : mergedInto[k] \in S
                   PROVE  FALSE
      BY DEF Acyclic
    <2>2. PICK k \in S : TRUE
      BY <2>1
    <2>3. Survivor(k) \in S
      BY <1>1, <2>1, <2>2, WalkAnswer, MetByFacts
    <2> QED BY <1>2, <2>1, <2>2, <2>3, IdsFacts DEF Live
  <1>4. OwnerIsLive
    BY <1>2, OwnerHolds DEF OwnerIsLive
  <1> QED BY <1>3, <1>4 DEF Base, Typed, IInv, Entries, MergesOK, TypeOK

\* The registry keeps its types through every operation, the answers of the
\* index included, which are identifiers though the walk may end in a circle.
THEOREM TypeCorrectness == Spec => []TypeOK
  <1>1. Base => TypeOK
    BY DEF Base, Typed
  <1> QED BY <1>1, BaseInvariance, PTL

\* The index assign keeps by hand is the one the entries would give it.
THEOREM IndexIsCurrent == Spec => []OwnerIsCurrent
  <1>1. Base => OwnerIsCurrent
    BY DEF Base
  <1> QED BY <1>1, BaseInvariance, PTL

\* In every state of the registry survivor and its closed form are one: "a cycle
\* ends the walk rather than hanging the build".
THEOREM SurvivorWalks == Spec => []SurvivorIsTheWalk
  <1>1. Base => SurvivorIsTheWalk
    <2> SUFFICES ASSUME Base, NEW i \in Issued PROVE Survivor(i) = Walk(mergedInto)[{}][i]
      BY DEF SurvivorIsTheWalk
    <2>1. mergedInto \in Links /\ i \in Ids
      BY AnyWalk DEF Base, Typed, TypeOK, Links, WalkFacts
    <2>2. Survivor(i) = SurvivorBy(mergedInto, i)
      BY <2>1, OwnLinks DEF OwnWalks
    <2> QED BY <2>1, <2>2, WalkAnswers
  <1> QED BY <1>1, BaseInvariance, PTL

-----------------------------------------------------------------------------
(* What a step does to an address that is out there.                       *)

\* A step that is no merge repoints nothing.
LEMMA StepRepointsNothing == Step => UNCHANGED mergedInto
  BY DEF Step, Detach, Attach, BeginAssign, AssignKnown, AssignNew, RelateSiblings, Save, entries

\* What a merge does to the links.
LEMMA MergedLinks ==
    ASSUME Base, NEW l \in Issued, NEW w \in Issued, Merge(l, w)
    PROVE  /\ l \in Ids /\ w \in Ids /\ l # w /\ Issued \subseteq Ids
           /\ mergedInto \in Links /\ mergedInto' \in Links
           /\ mergedInto' = [mergedInto EXCEPT ![l] = w]
           /\ \A k \in Ids : mergedInto'[k] = IF k = l THEN w ELSE mergedInto[k]
           /\ mergedInto[l] = w => mergedInto' = mergedInto
           /\ n' = n /\ anchors' = [anchors EXCEPT ![w] = @ \union anchors[l]]
  <1>1. /\ mergedInto \in Links /\ l \in Ids /\ w \in Ids /\ Issued \subseteq Ids
        /\ l # w /\ mergedInto' = [mergedInto EXCEPT ![l] = w]
        /\ n' = n /\ anchors' = [anchors EXCEPT ![w] = @ \union anchors[l]]
    BY AnyWalk DEF Base, Typed, TypeOK, Links, WalkFacts, Merge
  <1>2. \A k \in Ids : mergedInto'[k] = IF k = l THEN w ELSE mergedInto[k]
    BY <1>1 DEF Links
  <1>3. mergedInto' \in Links
    BY <1>1 DEF Links
  <1>4. mergedInto[l] = w => mergedInto' = mergedInto
    BY <1>1 DEF Links
  <1> QED BY <1>1, <1>2, <1>3, <1>4

\* A walk goes on at the link of the identifier it starts from.
LEMMA OneLinkOn ==
    ASSUME NEW m \in Links, NEW i \in Ids, m[i] # None
    PROVE  /\ m[i] \in Ids
           /\ \A x \in Ids : m[x] = None => (x \in MetBy(m, i) <=> x \in MetBy(m, m[i]))
  <1>1. m[i] \in Ids /\ m[i] \in MetBy(m, i)
    BY MetByFacts DEF Links
  <1>2. MetBy(m, m[i]) \subseteq MetBy(m, i)
    BY <1>1, MetOnward
  <1>3. MetBy(m, i) \subseteq {i} \union MetBy(m, m[i])
    <2> DEFINE S == {i} \union MetBy(m, m[i])
    <2>1. S \in SUBSET Ids /\ i \in S /\ \A k \in S : m[k] = None \/ m[k] \in S
      BY <1>1, MetByFacts
    <2> HIDE DEF S
    <2>2. MetBy(m, i) \subseteq S
      BY <2>1, MetByFacts
    <2> QED BY <2>2 DEF S
  <1> QED BY <1>1, <1>2, <1>3

\* A merge moves an identifier with the live one it resolved to, unless it takes
\* back a link on the way or leaves that one without a live answer.
LEMMA WalksMoveTogether ==
    ASSUME NEW m \in Links, NEW l \in Ids, NEW w \in Ids, l # w,
           NEW q \in Links, \A k \in Ids : q[k] = IF k = l THEN w ELSE m[k],
           NEW i \in Ids, m[SurvivorBy(m, i)] = None,
           q[SurvivorBy(q, SurvivorBy(m, i))] = None,
           l \in MetBy(m, i) => m[l] \in {None, w}
    PROVE  SurvivorBy(q, i) = SurvivorBy(q, SurvivorBy(m, i))
  <1>1. q \in Links /\ q = [m EXCEPT ![l] = w]
    BY DEF Links
  <1>2. PICK j \in Ids : j = SurvivorBy(m, i) /\ j \in MetBy(m, i)
    BY WalkAnswer, MetByFacts
  <1>3. CASE m[l] = w
    <2>1. q = m
      BY <1>1, <1>3 DEF Links
    <2> QED BY <2>1, AnswerIsItsOwn
  <1>4. CASE l \notin MetBy(m, i)
    <2>1. \A k \in MetBy(m, i) : q[k] = m[k]
      BY <1>1, <1>4, MetByFacts
    <2>2. SurvivorBy(q, i) = j
      BY <1>1, <1>2, <2>1, OffTheWay
    <2>3. \A k \in MetBy(m, j) : q[k] = m[k]
      BY <1>2, <2>1, MetOnward
    <2>4. SurvivorBy(q, j) = SurvivorBy(m, j)
      BY <1>1, <2>3, OffTheWay
    <2> QED BY <1>2, <2>2, <2>4, AnswerIsItsOwn
  <1>5. CASE l \in MetBy(m, i) /\ m[l] = None
    <2>1. l = j
      BY <1>2, <1>5, WalkAnswer
    <2>2. l \in MetBy(q, i)
      BY <1>1, <1>5, RepointedIsMet
    <2>3. MetBy(q, j) \subseteq MetBy(q, i)
      BY <1>1, <2>1, <2>2, MetOnward
    <2>4. SurvivorBy(q, j) \in MetBy(q, j) /\ q[SurvivorBy(q, j)] = None
      BY <1>1, <1>2, WalkAnswer
    <2> QED BY <1>1, <1>2, <2>3, <2>4, WalkAnswer
  <1> QED BY <1>3, <1>4, <1>5

\* An identifier that resolved goes on resolving unless a merge repoints its way
\* at a work that does not resolve, or that led back to the way.
THEOREM Resolvability == Spec => ResolvesUnlessCircled
  <1> DEFINE Ways ==
        \A i \in Issued : Live(Survivor(i)) =>
            (Live(Survivor(i))' <=>
                \A k \in Met(i) \cap Repointed :
                    /\ Live(Survivor(mergedInto'[k]))
                    /\ k \notin Met(mergedInto'[k]))
  <1>1. Base /\ [Next]_vars => Ways
    <2> SUFFICES ASSUME Base, [Next]_vars, NEW i \in Issued, Live(Survivor(i))
                 PROVE  Live(Survivor(i))' <=>
                            \A k \in Met(i) \cap Repointed :
                                /\ Live(Survivor(mergedInto'[k]))
                                /\ k \notin Met(mergedInto'[k])
      OBVIOUS
    <2>1. i \in Ids /\ WalkFacts
      BY AnyWalk DEF Base, WalkFacts
    <2>2. CASE UNCHANGED mergedInto
      <3>1. Survivor(i)' = Survivor(i)
        BY <2>1, <2>2, WalksStay
      <3>2. Live(Survivor(i))'
        BY <2>2, <3>1 DEF Live, None
      <3>3. Repointed = {}
        BY <2>2 DEF Repointed
      <3> QED BY <3>2, <3>3
    <2>3. ASSUME NEW l \in Issued, NEW w \in Issued, Merge(l, w), mergedInto' # mergedInto
          PROVE  Live(Survivor(i))' <=>
                     \A k \in Met(i) \cap Repointed :
                         /\ Live(Survivor(mergedInto'[k]))
                         /\ k \notin Met(mergedInto'[k])
      <3> DEFINE m == mergedInto
                 q == mergedInto'
      <3>1. /\ l \in Ids /\ w \in Ids /\ l # w /\ Issued \subseteq Ids
            /\ m \in Links /\ q \in Links /\ q = [m EXCEPT ![l] = w]
            /\ \A k \in Ids : q[k] = IF k = l THEN w ELSE m[k]
            /\ m[l] # w
        BY <2>3, MergedLinks
      <3>2. Repointed = {l}
        BY <3>1 DEF Repointed
      <3>3. /\ Met(i) = MetBy(m, i) /\ Met(w) = MetBy(m, w)
            /\ Survivor(i) = SurvivorBy(m, i) /\ Survivor(w) = SurvivorBy(m, w)
            /\ Survivor(i)' = SurvivorBy(q, i)
        BY <2>1, <3>1, OwnLinks, OwnLinksNext DEF OwnWalks
      <3>5. Live(Survivor(i))' <=> q[SurvivorBy(q, i)] = None
        BY <3>3 DEF Live, None
      <3>6. Live(Survivor(w)) <=> m[SurvivorBy(m, w)] = None
        BY <3>3 DEF Live
      <3>7. m[SurvivorBy(m, i)] = None
        BY <3>3 DEF Live
      <3>8. q[l] = w
        BY <3>1
      <3>9. CASE l \notin Met(i)
        <4>1. \A k \in MetBy(m, i) : q[k] = m[k]
          BY <2>1, <3>1, <3>3, <3>9, MetByFacts
        <4>2. SurvivorBy(m, i) \in MetBy(m, i)
          BY <2>1, <3>1, WalkAnswer
        <4>5. m \in Links /\ q \in Links /\ i \in Ids
          BY <2>1, <3>1
        <4>6. SurvivorBy(q, i) = SurvivorBy(m, i)
          BY <4>1, <4>5, OffTheWay
        <4>3. q[SurvivorBy(q, i)] = None
          BY <3>7, <4>1, <4>2, <4>6
        <4>4. Met(i) \cap Repointed = {} /\ Live(Survivor(i))'
          BY <3>2, <3>5, <3>9, <4>3
        <4> QED BY <4>4
      <3>10. CASE l \in Met(i)
        <4>1. q[SurvivorBy(q, i)] = None
                 <=> l \notin MetBy(m, w) /\ m[SurvivorBy(m, w)] = None
          <5>1. /\ m \in Links /\ q \in Links /\ l \in Ids /\ w \in Ids /\ l # w /\ i \in Ids
                /\ l \in MetBy(m, i) /\ \A k \in Ids : q[k] = IF k = l THEN w ELSE m[k]
            BY <2>1, <3>1, <3>3, <3>10
          <5> HIDE DEF m, q
          <5> QED BY <5>1, RepointedWalk
        <4>2. Live(Survivor(i))' <=> l \notin Met(w) /\ Live(Survivor(w))
          BY <3>3, <3>5, <3>6, <4>1
        <4> QED BY <3>2, <3>8, <3>10, <4>2
      <3> QED BY <3>9, <3>10
    <2> QED BY <2>2, <2>3, StepRepointsNothing DEF Next, vars
  <1>2. Base /\ [Next]_vars => [Ways]_vars
    BY <1>1
  <1> QED BY <1>2, BaseInvariance, PTL DEF Spec, ResolvesUnlessCircled

\* A merge that repoints no retired entry on the way of i moves i with its live
\* answer, unless that one is left without an answer.
LEMMA AddressesFollow ==
    ASSUME Base, NEW l \in Issued, NEW w \in Issued, Merge(l, w),
           NEW i \in Ids, NEW j \in Ids, j = Survivor(i), Live(j), Live(Survivor(j))',
           ~ \E k \in Met(i) : Remerged(k)
    PROVE  Survivor(i)' = Survivor(j)'
  <1> DEFINE m == mergedInto
             q == mergedInto'
  <1>1. /\ m \in Links /\ q \in Links /\ l \in Ids /\ w \in Ids /\ l # w
        /\ \A k \in Ids : q[k] = IF k = l THEN w ELSE m[k]
    BY MergedLinks
  <1>2. /\ Met(i) = MetBy(m, i) /\ Survivor(i) = SurvivorBy(m, i)
        /\ Survivor(i)' = SurvivorBy(q, i) /\ Survivor(j)' = SurvivorBy(q, j)
    BY OwnLinks, OwnLinksNext DEF OwnWalks
  <1>3. m[SurvivorBy(m, i)] = None /\ j = SurvivorBy(m, i)
    BY <1>2 DEF Live
  <1>4. q[SurvivorBy(q, SurvivorBy(m, i))] = None
    <2>1. mergedInto'[Survivor(j)'] = None
      BY DEF Live, None
    <2> QED BY <1>2, <1>3, <2>1
  <1>5. l \in MetBy(m, i) => m[l] \in {None, w}
    BY <1>1, <1>2, IdsFacts DEF Remerged, Live
  <1> HIDE DEF m, q
  <1>6. SurvivorBy(q, i) = SurvivorBy(q, SurvivorBy(m, i))
    BY <1>1, <1>3, <1>4, <1>5, WalksMoveTogether
  <1> QED BY <1>2, <1>3, <1>6

\* A published address leads where the page it led to leads, whatever else is
\* merged, while nobody merges a retired entry on the way a second time.
THEOREM PublishedLinks == Spec => LinksMoveTogether
  <1> DEFINE Together ==
        \A i, j \in Issued : j = Survivor(i) /\ Live(j) =>
            \/ Survivor(i)' = Survivor(j)'
            \/ ~Live(Survivor(j))'
            \/ \E k \in Met(i) : Remerged(k)
  <1>1. Base /\ [Next]_vars => Together
    <2> SUFFICES ASSUME Base, [Next]_vars, NEW i \in Issued, NEW j \in Issued,
                        j = Survivor(i), Live(j)
                 PROVE  \/ Survivor(i)' = Survivor(j)'
                        \/ ~Live(Survivor(j))'
                        \/ \E k \in Met(i) : Remerged(k)
      OBVIOUS
    <2>1. i \in Ids /\ j \in Ids /\ Survivor(j) = j
      BY AnyWalk DEF Base, WalkFacts
    <2>2. CASE UNCHANGED mergedInto
      BY <2>1, <2>2, WalksStay
    <2>3. ASSUME NEW l \in Issued, NEW w \in Issued, Merge(l, w), Live(Survivor(j))',
                 ~ \E k \in Met(i) : Remerged(k)
          PROVE  Survivor(i)' = Survivor(j)'
      BY <2>1, <2>3, AddressesFollow
    <2> QED BY <2>2, <2>3, StepRepointsNothing DEF Next, vars
  <1>2. Base /\ [Next]_vars => [Together]_vars
    BY <1>1
  <1> QED BY <1>2, BaseInvariance, PTL DEF Spec, LinksMoveTogether

\* Who lists an anchor that some entry lists already: those that did, and after
\* a pass the work the anchor answers with.
LEMMA HoldersGrow ==
    ASSUME Base, Step, NEW a \in Anchor, Holders(a) # {}
    PROVE  Holders(a)' \subseteq Holders(a) \union {Index(a)}
  <1>0. /\ n \in Nat /\ Issued \subseteq Ids /\ anchors \in [Ids -> SUBSET Anchor]
        /\ Index(a) # None
    BY AnyWalk, IndexRange DEF Base, Typed, TypeOK, WalkFacts
  <1>1. ASSUME NEW b \in Anchor, Detach(b) PROVE Holders(a)' \subseteq Holders(a)
    <2>1. n' = n /\ \A k \in Issued : anchors'[k] \subseteq anchors[k]
      BY <1>0, <1>1 DEF Detach
    <2> QED BY <2>1 DEF Holders, Issued
  <1>2. ASSUME NEW b \in Anchor, NEW i \in Issued, Attach(b, i)
        PROVE  Holders(a)' \subseteq Holders(a)
    <2>1. a # b /\ n' = n /\ anchors' = [anchors EXCEPT ![i] = @ \union {b}]
      BY <1>0, <1>2 DEF Attach
    <2> QED BY <1>0, <2>1 DEF Holders, Issued
  <1>3. ASSUME NEW row \in Rows, AssignKnown(row)
        PROVE  Holders(a)' \subseteq Holders(a) \union {Index(a)}
    <2> DEFINE i == owner[row.anchor]
               T == Taken(row, i, owner)
    <2>1. /\ n' = n /\ anchors' = [anchors EXCEPT ![i] = @ \union T]
          /\ phase = "assigning"
      BY <1>3 DEF AssignKnown
    <2>2. a \in T => i = Index(a)
      BY <1>0, <2>1 DEF Taken, Base, OwnerIsCurrent
    <2> HIDE DEF T, i
    <2> QED BY <1>0, <2>1, <2>2 DEF Holders, Issued
  <1>4. ASSUME NEW row \in Rows, AssignNew(row) PROVE Holders(a)' \subseteq Holders(a)
    <2> DEFINE i == n + 1
               known == [owner EXCEPT ![row.anchor] = i]
               T == {row.anchor} \union Taken(row, i, known)
    <2>1. /\ n' = i /\ anchors' = [anchors EXCEPT ![i] = T]
          /\ phase = "assigning" /\ owner[row.anchor] = None /\ n < MaxId
      BY <1>4 DEF AssignNew
    <2>2. Index(a) \in Issued /\ owner[a] = Index(a) /\ owner \in [Anchor -> Ids \union {None}]
      BY <1>0, <2>1, IndexRange DEF Base, OwnerIsCurrent, Typed, TypeOK
    <2>3. a # row.anchor
      BY <1>0, <2>1, <2>2
    <2>4. known[a] = Index(a) /\ Index(a) # i
      BY <1>0, <2>2, <2>3 DEF Issued
    <2>5. a \notin T
      BY <1>0, <2>3, <2>4 DEF Taken
    <2>6. Issued' = Issued \union {i}
      BY <1>0, <2>1 DEF Issued
    <2>7. i \in Ids
      BY <1>0, <2>1, MaxIdAssumption DEF Ids
    <2> HIDE DEF T, known
    <2> QED BY <1>0, <2>1, <2>5, <2>6, <2>7 DEF Holders
  <1>5. CASE UNCHANGED <<n, anchors>>
    BY <1>5 DEF Holders, Issued
  <1> QED
    BY <1>1, <1>2, <1>3, <1>4, <1>5 DEF Step, BeginAssign, RelateSiblings, Save, entries

\* An anchor all of whose entries resolve to one work stays with that work, or
\* the one it became, on every entry that comes to list it.
THEOREM RegisteredAnchors == Spec => AnchorsStay
  <1> DEFINE Stays ==
        \A a \in Anchor, j \in Issued :
            Live(j) /\ Holders(a) # {} /\ OneWork(a, j) =>
                \/ OneWork(a, Survivor(j))'
                \/ ~Live(Survivor(j))'
                \/ \E i \in Holders(a) : \E k \in Met(i) : Remerged(k)
  <1>1. Base /\ [Next]_vars => Stays
    <2> SUFFICES ASSUME Base, [Next]_vars, NEW a \in Anchor, NEW j \in Issued,
                        Live(j), Holders(a) # {}, OneWork(a, j), Live(Survivor(j))',
                        ~ \E i \in Holders(a) : \E k \in Met(i) : Remerged(k)
                 PROVE  OneWork(a, Survivor(j))'
      OBVIOUS
    <2>1. /\ j \in Ids /\ Survivor(j) = j /\ Issued \subseteq Ids
          /\ Holders(a) \subseteq Issued
          /\ \A h \in Holders(a) : Survivor(h) = j
      BY AnyWalk DEF Base, WalkFacts, Survivor, OneWork, Holders
    <2>2. ASSUME Step, NEW h \in Holders(a)' PROVE Survivor(h)' = Survivor(j)'
      <3>1. Index(a) = j
        BY <2>1, IndexOfAny DEF Base, IndexStands
      <3>2. Survivor(h) = j /\ h \in Ids
        BY <2>1, <2>2, <3>1, HoldersGrow
      <3> QED BY <2>1, <2>2, <3>2, StepRepointsNothing, WalksStay
    <2>3. ASSUME NEW l \in Issued, NEW w \in Issued, Merge(l, w), NEW h \in Holders(a)'
          PROVE  Survivor(h)' = Survivor(j)'
      <3>1. \A x \in Holders(a) : Survivor(x)' = Survivor(j)'
        BY <2>1, <2>3, AddressesFollow
      <3>2. CASE h \in Holders(a)
        BY <3>1, <3>2
      <3>3. CASE h \notin Holders(a)
        <4>1. /\ l \in Ids /\ w \in Ids /\ mergedInto' \in Links
              /\ mergedInto'[l] = w /\ n' = n
              /\ anchors' = [anchors EXCEPT ![w] = @ \union anchors[l]]
          BY <2>3, MergedLinks
        <4>2. h = w /\ l \in Holders(a)
          <5>1. h \in Issued /\ a \in anchors'[h]
            BY <2>3, <4>1 DEF Holders, Issued
          <5> QED BY <2>1, <3>3, <4>1, <5>1 DEF Holders, Base, Typed, TypeOK
        <4>3. Survivor(l)' = Survivor(j)'
          BY <3>1, <4>2
        <4> DEFINE q == mergedInto'
                   x == SurvivorBy(q, l)
        <4>4. /\ Survivor(l)' = x /\ Survivor(w)' = SurvivorBy(q, w)
              /\ Survivor(j)' = SurvivorBy(q, j)
          BY <2>1, <4>1, OwnLinksNext
        <4>5. q[x] = None
          <5>1. mergedInto'[Survivor(j)'] = None
            BY DEF Live, None
          <5> QED BY <4>3, <4>4, <5>1
        <4>6. q \in Links /\ q[l] = w /\ w # None
          BY <4>1, IdsFacts
        <4> HIDE DEF q
        <4>7. x \in Ids /\ x \in MetBy(q, l)
          BY <4>1, <4>6, WalkAnswer, MetByFacts
        <4>8. x \in MetBy(q, w)
          BY <4>1, <4>5, <4>6, <4>7, OneLinkOn
        <4>9. SurvivorBy(q, w) = x
          BY <4>1, <4>5, <4>6, <4>8, WalkAnswer
        <4> QED BY <4>2, <4>3, <4>4, <4>9
      <3> QED BY <3>2, <3>3
    <2>4. ASSUME UNCHANGED vars, NEW h \in Holders(a)' PROVE Survivor(h)' = Survivor(j)'
      <3>1. UNCHANGED mergedInto /\ h \in Holders(a)
        BY <2>4 DEF vars, Holders, Issued
      <3> QED BY <2>1, <3>1, WalksStay
    <2>5. \A h \in Holders(a)' : Survivor(h)' = Survivor(j)'
      BY <2>2, <2>3, <2>4 DEF Next
    <2> QED BY <2>5 DEF OneWork
  <1>2. Base /\ [Next]_vars => [Stays]_vars
    BY <1>1
  <1> QED BY <1>2, BaseInvariance, PTL DEF Spec, AnchorsStay

-----------------------------------------------------------------------------
(* What no step gives back, drops or does again.                           *)

\* An anchor that was taken off an entry by hand comes back to it from another
\* entry merged into it by hand, or not at all.
THEOREM DetachedAnchors == Spec => DetachedStaysOff
  <1> DEFINE Off ==
        \A i \in Issued : \A a \in detached[i] :
            a \in anchors'[i] \ anchors[i] =>
                /\ phase' = "deciding"
                /\ \E j \in Issued \ {i} : mergedInto'[j] = i /\ a \in anchors[j]
  <1>1. Base /\ [Next]_vars => Off
    <2> SUFFICES ASSUME Base, [Next]_vars, NEW i \in Issued, NEW a \in detached[i],
                        a \in anchors'[i], a \notin anchors[i]
                 PROVE  /\ phase' = "deciding"
                        /\ \E j \in Issued \ {i} : mergedInto'[j] = i /\ a \in anchors[j]
      OBVIOUS
    <2>0. /\ i \in Ids /\ n \in Nat /\ a \in Anchor /\ anchors \in [Ids -> SUBSET Anchor]
          /\ i # n + 1
      BY AnyWalk DEF Base, Typed, TypeOK, Issued, WalkFacts
    <2>1. ASSUME NEW b \in Anchor, Detach(b) PROVE FALSE
      BY <2>0, <2>1 DEF Detach
    <2>2. ASSUME NEW b \in Anchor, NEW j \in Issued, Attach(b, j) PROVE FALSE
      BY <2>0, <2>2 DEF Attach, Refused
    <2>3. ASSUME NEW row \in Rows, AssignKnown(row) PROVE FALSE
      BY <2>0, <2>3 DEF AssignKnown, Taken, Refused
    <2>4. ASSUME NEW row \in Rows, AssignNew(row) PROVE FALSE
      BY <2>0, <2>4 DEF AssignNew
    <2>5. ASSUME NEW l \in Issued, NEW w \in Issued, Merge(l, w)
          PROVE  /\ phase' = "deciding"
                 /\ \E j \in Issued \ {i} : mergedInto'[j] = i /\ a \in anchors[j]
      <3>1. /\ l \in Ids /\ l # w /\ mergedInto'[l] = w
            /\ anchors' = [anchors EXCEPT ![w] = @ \union anchors[l]]
        BY <2>5, MergedLinks
      <3>2. i = w /\ a \in anchors[l]
        BY <2>0, <3>1
      <3> QED BY <2>5, <3>1, <3>2 DEF Merge
    <2>6. CASE UNCHANGED anchors
      BY <2>6
    <2> QED
      BY <2>1, <2>2, <2>3, <2>4, <2>5, <2>6
      DEF Next, Step, BeginAssign, RelateSiblings, Save, entries, vars
  <1>2. Base /\ [Next]_vars => [Off]_vars
    BY <1>1
  <1> QED BY <1>2, BaseInvariance, PTL DEF Spec, DetachedStaysOff

\* The one link the write reads of a retired entry leads where its walk leads, if
\* that walk ends at a work.
LEMMA SettledWalk ==
    ASSUME Base, NEW i \in Ids, Live(Survivor(i))
    PROVE  /\ Settled(i) \in Ids
           /\ \A j \in Ids : Settled(j) = Settled(i) => Survivor(j) = Survivor(i)
  <1> DEFINE m == mergedInto
             x == Survivor(i)
  <1>1. m \in Links /\ \A k \in Ids : Survivor(k) = SurvivorBy(m, k)
    BY OwnLinks DEF Base, Typed, TypeOK, Links, OwnWalks
  <1> HIDE DEF m
  <1>2. m[x] = None /\ x \in MetBy(m, i) /\ x \in Ids
    <2>1. x = SurvivorBy(m, i)
      BY <1>1
    <2>2. m[x] = None
      BY DEF m, Live
    <2> QED BY <1>1, <2>1, <2>2, WalkAnswer, MetByFacts
  <1> HIDE DEF x
  <1>3. ASSUME NEW k \in Ids
        PROVE  Settled(k) \in Ids /\ (x \in MetBy(m, k) <=> x \in MetBy(m, Settled(k)))
    <2>1. Settled(k) = IF m[k] = None THEN k ELSE m[k]
      BY DEF Settled, Live, m
    <2> QED BY <1>1, <1>2, <2>1, OneLinkOn
  <1>4. ASSUME NEW j \in Ids, Settled(j) = Settled(i) PROVE Survivor(j) = x
    <2>1. x \in MetBy(m, j)
      BY <1>2, <1>3, <1>4
    <2> QED BY <1>1, <1>2, <2>1, WalkAnswer
  <1> QED BY <1>3, <1>4 DEF x

\* What the write drops of the relations relates an entry to itself, or to one
\* in a circle.
THEOREM RelationsKept == Spec => RelationsCarriedOver
  <1> DEFINE Carried ==
        \A p \in related \ related' : \A i, j \in p :
            Survivor(i) = Survivor(j) \/ ~Live(Survivor(i))
  <1>1. Base /\ [Next]_vars => Carried
    <2> SUFFICES ASSUME Base, [Next]_vars, NEW p \in related, p \notin related',
                        NEW i \in p, NEW j \in p, Live(Survivor(i))
                 PROVE  Survivor(i) = Survivor(j)
      OBVIOUS
    <2>1. Save
      BY DEF Next, Step, Detach, Attach, BeginAssign, AssignKnown, AssignNew, Extend,
         RelateSiblings, Merge, vars
    <2>2. i \in Ids /\ j \in Ids
      BY DEF Base, Typed, TypeOK
    <2>3. Settled(i) = Settled(j)
      BY <2>1 DEF Save
    <2> QED BY <2>2, <2>3, SettledWalk
  <1>2. Base /\ [Next]_vars => [Carried]_vars
    BY <1>1
  <1> QED BY <1>2, BaseInvariance, PTL DEF Spec, RelationsCarriedOver

\* Running the pass again over a row it has assigned changes no entry, in the
\* same run or in a later one, until somebody decides something.
THEOREM RepeatedPass == Spec => AssignIsRepeatable
  <1> DEFINE Repeatable ==
        \A row \in done : AssignKnown(row) \/ AssignNew(row) => UNCHANGED entries
  <1>1. Base => [Repeatable]_vars
    <2> SUFFICES ASSUME Base, NEW row \in done, AssignKnown(row) \/ AssignNew(row)
                 PROVE  UNCHANGED entries
      OBVIOUS
    <2> DEFINE i == owner[row.anchor]
               T == Taken(row, i, owner)
    <2>1. row \in Rows /\ anchors \in [Ids -> SUBSET Anchor]
      BY DEF Base, Typed, TypeOK
    <2>2. /\ i # None /\ AssignKnown(row)
          /\ \A a \in row.attached : i \in Refused(a) \/ a \in anchors[i] \/ owner[a] \notin {None, i}
      BY DEF Base, DoneIsSettled, Answers, AssignKnown, AssignNew
    <2>3. T \subseteq anchors[i]
      BY <2>2 DEF Taken
    <2>4. UNCHANGED <<n, mergedInto, detached>> /\ anchors' = [anchors EXCEPT ![i] = @ \union T]
      BY <2>2 DEF AssignKnown
    <2> HIDE DEF T, i
    <2>5. anchors' = anchors
      BY <2>1, <2>3, <2>4
    <2> QED
      BY <2>4, <2>5 DEF entries
  <1> QED
    BY <1>1, BaseInvariance, PTL DEF AssignIsRepeatable

-----------------------------------------------------------------------------
(***************************************************************************)
(* What a step of the registry may do, for every number of identifiers,    *)
(* any anchors and any rows: it implements a step of PublishedIdentifiers, *)
(* gives back no anchor somebody detached, drops no relation of two works, *)
(* and assigns nothing that is assigned already.                           *)
(***************************************************************************)

\* What the refinement makes of the registry's state.
Home == [i \in Ids |-> Survivor(i)]
Answer == [a \in Anchor |-> IF Holders(a) = {} THEN None ELSE Index(a)]

\* A registered anchor answers with the work of any entry that lists it.
AnswersAgree ==
    \A a \in Anchor :
        /\ \A h \in Holders(a) : Answer[a] = Survivor(h)
        /\ Holders(a) = {} => Answer[a] = None

LEMMA AnswersAreHeld == IInv => AnswersAgree
  BY EntriesFacts DEF IInv, Answer, AnswersAgree, HoldersAnswer

LEMMA AnswersAreHeldNext == IInv' => AnswersAgree'
  BY AnswersAreHeld, PTL

LEMMA IssuedFacts ==
    ASSUME IInv
    PROVE  /\ \A i \in Issued : Survivor(i) \in Issued /\ Survivor(Survivor(i)) = Survivor(i)
           /\ \A i \in Issued : Live(i) => Survivor(i) = i
           /\ Issued \subseteq Ids
           /\ \A a \in Anchor : Holders(a) \subseteq Issued
  <1>1. SurvivorSteps /\ Issued \subseteq Ids
    BY EntriesFacts DEF IInv
  <1>2. \A i \in Issued : Survivor(i) \in Issued
    BY SurvivorIssued DEF IInv, Entries
  <1> QED
    BY <1>1, <1>2 DEF SurvivorSteps, Holders

LEMMA HomeStays ==
    ASSUME IInv, UNCHANGED mergedInto
    PROVE  Home' = Home /\ \A i \in Ids : Survivor(i)' = Survivor(i)
  <1>1. \A i \in Ids : Survivor(i)' = Survivor(i)
    BY SurvivorKept DEF IInv, Entries
  <1> QED
    BY <1>1 DEF Home, Ids

\* Holders of an anchor that are still there keep its answer.
LEMMA AnswerStays ==
    ASSUME IInv, IInv', UNCHANGED mergedInto, NEW a \in Anchor,
           Holders(a) = {} <=> Holders(a)' = {},
           Holders(a) # {} => \E h \in Holders(a) : h \in Holders(a)'
    PROVE  Answer'[a] = Answer[a]
  <1>1. AnswersAgree /\ AnswersAgree'
    BY AnswersAreHeld, AnswersAreHeldNext
  <1>2. CASE Holders(a) = {}
    BY <1>1, <1>2 DEF AnswersAgree
  <1>3. CASE Holders(a) # {}
    <2>1. PICK h \in Holders(a) : h \in Holders(a)'
      BY <1>3
    <2>2. h \in Ids
      BY <2>1, IssuedFacts
    <2> QED
      BY <1>1, <2>1, <2>2, HomeStays DEF AnswersAgree
  <1> QED
    BY <1>2, <1>3

LEMMA AnswerShape ==
    /\ Answer = [a \in Anchor |-> Answer[a]]
    /\ Answer' = [a \in Anchor |-> Answer'[a]]
  BY DEF Answer

\* The steps of the promise, of these two and the number issued.
LEMMA ReaderIssues ==
    ASSUME NEW names \in SUBSET Anchor, n < MaxId, n' = n + 1, Home' = Home,
           \A a \in names : Answer[a] = None,
           Answer' = [a \in Anchor |-> IF a \in names THEN n + 1 ELSE Answer[a]]
    PROVE  Reader!Next
  BY DEF Reader!Next, Reader!Issue, Reader!Register, Reader!Id, Reader!Nobody, Home,
     Answer, Ids, None, Issued

LEMMA ReaderClaims ==
    ASSUME NEW names \in SUBSET Anchor, NEW i \in Issued, i \in Ids, Home[i] = i,
           n' = n, Home' = Home, \A a \in names : Answer[a] = None,
           Answer' = [a \in Anchor |-> IF a \in names THEN i ELSE Answer[a]]
    PROVE  Reader!Next
  BY DEF Reader!Next, Reader!Claim, Reader!Register, Reader!LiveHome, Reader!Id, Reader!Nobody, Home,
     Answer, Ids, None, Issued

LEMMA ReaderJoins ==
    ASSUME NEW i \in Issued, NEW j \in Issued, i \in Ids, j \in Ids, Home[i] = i, Home[j] = j,
           n' = n, Home' = [k \in Ids |-> IF Home[k] = i THEN j ELSE Home[k]],
           Answer' = [a \in Anchor |-> IF Answer[a] = i THEN j ELSE Answer[a]]
    PROVE  Reader!Next
  BY DEF Reader!Next, Reader!Join, Reader!LiveHome, Reader!Id, Reader!Nobody, Home,
     Answer, Ids, None, Issued

LEMMA ReaderReleases ==
    ASSUME NEW a \in Anchor, n' = n, Home' = Home, Answer' = [Answer EXCEPT ![a] = None]
    PROVE  Reader!Next
  BY DEF Reader!Next, Reader!Release, Reader!Id, Reader!Nobody, Home,
     Answer, Ids, None, Issued

LEMMA ReaderStutters ==
    ASSUME n' = n, Home' = Home, Answer' = Answer
    PROVE  UNCHANGED Reader!pvars
  BY DEF Reader!pvars, Home, Answer

-----------------------------------------------------------------------------
(* What each operation is to a reader.                                     *)
\* A merge that takes nothing back joins a live work to the one the winner is or
\* became; said again, it changes nothing a reader sees.
LEMMA MergeIsJoin ==
    ASSUME IInv, IInv', NEW i \in Issued, NEW j \in Issued, SoundMerge(i, j)
    PROVE  Reader!Next \/ UNCHANGED Reader!pvars
  <1>1. /\ i \in Ids /\ j \in Ids /\ i # j /\ n' = n
        /\ (Live(i) /\ i \notin Met(j)) \/ mergedInto[i] = j
        /\ mergedInto \in [Ids -> Ids \union {None}]
        /\ mergedInto' = [mergedInto EXCEPT ![i] = j]
        /\ anchors' = [anchors EXCEPT ![j] = @ \union anchors[i]]
    BY IssuedFacts DEF SoundMerge, Merge, IInv, Entries, TypeOK
  <1>2. \A a \in Anchor : Holders(a) \subseteq Holders(a)' /\ (Holders(a) = {} => Holders(a)' = {})
    BY <1>1, IssuedFacts DEF Holders, Issued, IInv, Entries, TypeOK
  <1>3. CASE mergedInto[i] = j
    <2>1. UNCHANGED mergedInto
      BY <1>1, <1>3
    <2>2. Home' = Home
      BY <2>1, HomeStays
    <2>3. \A a \in Anchor : Answer'[a] = Answer[a]
      BY <1>2, <2>1, AnswerStays
    <2>4. Answer' = Answer
      BY <2>3, AnswerShape
    <2> QED BY <1>1, <2>2, <2>4, ReaderStutters
  <1>4. CASE Live(i) /\ i \notin Met(j)
    <2>1. \A k \in Ids : Survivor(k)' = IF Survivor(k) = i THEN Survivor(j) ELSE Survivor(k)
      BY <1>1, <1>4, SurvivorRejoined DEF IInv, Entries
    <2>2. PICK s \in Issued : s = Survivor(j)
      BY IssuedFacts
    <2>3. Home' = [k \in Ids |-> IF Home[k] = i THEN s ELSE Home[k]]
      BY <2>1, <2>2 DEF Home, Ids
    <2>4. s \in Ids /\ Home[i] = i /\ Home[s] = s
      BY <1>1, <1>4, <2>2, IssuedFacts DEF Home
    <2>5. ASSUME NEW a \in Anchor
          PROVE  Answer'[a] = IF Answer[a] = i THEN s ELSE Answer[a]
      <3>1. AnswersAgree /\ AnswersAgree'
        BY AnswersAreHeld, AnswersAreHeldNext
      <3>2. CASE Holders(a) = {}
        BY <1>1, <1>2, <3>1, <3>2, IdsFacts DEF AnswersAgree
      <3>3. CASE Holders(a) # {}
        <4>1. PICK h \in Holders(a) : TRUE
          BY <3>3
        <4>2. h \in Ids
          BY <4>1, IssuedFacts
        <4>3. Answer[a] = Survivor(h) /\ Answer'[a] = Survivor(h)'
          BY <1>2, <3>1, <4>1 DEF AnswersAgree
        <4> QED BY <2>1, <2>2, <4>2, <4>3
      <3> QED BY <3>2, <3>3
    <2>6. Answer' = [a \in Anchor |-> IF Answer[a] = i THEN s ELSE Answer[a]]
      BY <2>5, AnswerShape
    <2> QED BY <1>1, <2>3, <2>4, <2>6, ReaderJoins
  <1> QED BY <1>1, <1>3, <1>4

\* A detachment releases an anchor, or leaves it to the next entry that lists it.
LEMMA DetachIsRelease ==
    ASSUME IInv, IInv', NEW a \in Anchor, Detach(a)
    PROVE  Reader!Next \/ UNCHANGED Reader!pvars
  <1>1. UNCHANGED mergedInto /\ n' = n /\ Issued' = Issued
    BY DEF Detach, Issued
  <1>2. Home' = Home
    BY <1>1, HomeStays
  <1>3. \A i \in Issued, b \in Anchor :
            /\ b \in anchors'[i] => b \in anchors[i]
            /\ b # a /\ b \in anchors[i] => b \in anchors'[i]
    <2>1. CASE Holders(a) = {}
      BY <2>1 DEF Detach
    <2>2. CASE Holders(a) # {}
      <3>1. \E f : anchors' = [anchors EXCEPT ![f] = @ \ {a}]
        BY <2>2 DEF Detach
      <3> QED
        BY <3>1, IssuedFacts DEF IInv, Entries, TypeOK
    <2> QED
      BY <2>1, <2>2
  <1>4. \A b \in Anchor \ {a} : Holders(b)' = Holders(b)
    <2>. SUFFICES ASSUME NEW b \in Anchor, b # a
                  PROVE  {i \in Issued : b \in anchors'[i]} = {i \in Issued : b \in anchors[i]}
      BY <1>1 DEF Holders
    <2> QED
      BY <1>3
  <1>5. Holders(a)' \subseteq Holders(a)
    <2>1. {i \in Issued : a \in anchors'[i]} \subseteq {i \in Issued : a \in anchors[i]}
      BY <1>3
    <2> QED
      BY <1>1, <2>1 DEF Holders
  <1>6. \A b \in Anchor \ {a} : Answer'[b] = Answer[b]
    BY <1>1, <1>4, AnswerStays
  <1>7. CASE Holders(a)' = {}
    <2>1. Answer'[a] = None
      BY <1>7, AnswersAreHeldNext DEF AnswersAgree
    <2>2. Answer' = [Answer EXCEPT ![a] = None]
      BY <1>6, <2>1, AnswerShape
    <2> QED
      BY <1>1, <1>2, <2>2, ReaderReleases
  <1>8. CASE Holders(a)' # {}
    <2>1. Answer'[a] = Answer[a]
      BY <1>1, <1>5, <1>8, AnswerStays
    <2>2. Answer' = Answer
      BY <1>6, <2>1, AnswerShape
    <2> QED
      BY <1>1, <1>2, <2>2, ReaderStutters
  <1> QED
    BY <1>7, <1>8

\* An attachment is a claim by the work of the entry.
LEMMA AttachIsClaim ==
    ASSUME IInv, IInv', NEW a \in Anchor, NEW i \in Issued, Attach(a, i)
    PROVE  Reader!Next
  <1>1. /\ UNCHANGED mergedInto /\ n' = n /\ Issued' = Issued /\ Index(a) = None
        /\ anchors' = [anchors EXCEPT ![i] = @ \union {a}]
    BY DEF Attach, Issued
  <1>2. Home' = Home /\ \A k \in Ids : Survivor(k)' = Survivor(k)
    BY <1>1, HomeStays
  <1>3. i \in Ids /\ Survivor(i) \in Issued /\ Survivor(i) \in Ids /\ Home[Survivor(i)] = Survivor(i)
    BY IssuedFacts DEF Home
  <1>4. Holders(a) = {} /\ Answer[a] = None
    <2>1. HoldersAnswer /\ SurvivorSteps
      BY EntriesFacts DEF IInv
    <2>2. Holders(a) = {}
      BY <1>1, <2>1, IssuedFacts, IdsFacts DEF HoldersAnswer, SurvivorSteps
    <2> QED
      BY <2>2, AnswersAreHeld DEF AnswersAgree
  <1>5. i \in Holders(a)' /\ \A b \in Anchor \ {a} : Holders(b)' = Holders(b)
    BY <1>1, <1>3 DEF Holders, IInv, Entries, TypeOK
  <1>6. Answer'[a] = Survivor(i)
    BY <1>2, <1>3, <1>5, AnswersAreHeldNext DEF AnswersAgree
  <1>7. \A b \in Anchor \ {a} : Answer'[b] = Answer[b]
    BY <1>1, <1>5, AnswerStays
  <1>8. Answer' = [b \in Anchor |-> IF b \in {a} THEN Survivor(i) ELSE Answer[b]]
    BY <1>6, <1>7, AnswerShape
  <1>9. {a} \in SUBSET Anchor /\ \A b \in {a} : Answer[b] = None
    BY <1>4
  <1> DEFINE names == {a}
             home == Survivor(i)
  <1>10. /\ names \in SUBSET Anchor /\ \A b \in names : Answer[b] = None
         /\ Answer' = [b \in Anchor |-> IF b \in names THEN home ELSE Answer[b]]
         /\ home \in Issued /\ home \in Ids /\ Home[home] = home
    BY <1>3, <1>8, <1>9
  <1> HIDE DEF names, home
  <1> QED
    BY <1>1, <1>2, <1>10, ReaderClaims

\* An anchor the index of assign gives to nobody, or to the entry asked for, is
\* held by nobody, or answers with it.
LEMMA OwnerAnswers ==
    ASSUME IInv, phase = "assigning", NEW a \in Anchor
    PROVE  /\ owner[a] = None => Holders(a) = {} /\ Answer[a] = None
           /\ Holders(a) # {} => Answer[a] = owner[a]
  <1>1. Holders(a) # {} => owner[a] = Index(a) /\ Answer[a] = Index(a)
    BY DEF IInv, OwnerIsCurrent, Answer
  <1>2. Holders(a) # {} => Answer[a] # None
    <2>1. SUFFICES ASSUME NEW h \in Holders(a) PROVE Survivor(h) # None
      BY AnswersAreHeld DEF AnswersAgree
    <2> QED
      BY IssuedFacts, IdsFacts
  <1>3. Holders(a) = {} => Answer[a] = None
    BY DEF Answer
  <1> QED
    BY <1>1, <1>2, <1>3

\* A row that is known claims for its entry what nobody held.
LEMMA AssignKnownIsClaim ==
    ASSUME IInv, IInv', NEW row \in Rows, AssignKnown(row), NEW i, i = owner[row.anchor]
    PROVE  Reader!Next
  <1> DEFINE T == Taken(row, i, owner)
             names == {a \in T : Holders(a) = {}}
  <1>0. row.anchor \in Anchor /\ T \subseteq Anchor
    BY RowsAssumption DEF Taken
  <1>1. /\ i \in Issued /\ i \in Ids /\ Live(i) /\ n' = n /\ UNCHANGED mergedInto
        /\ anchors' = [anchors EXCEPT ![i] = @ \union T] /\ phase = "assigning"
    BY <1>0, IssuedFacts DEF AssignKnown, IInv, OwnerIsLive
  <1>2. Survivor(i) = i /\ Home[i] = i /\ Home' = Home /\ Survivor(i)' = i
    <2>1. Survivor(i) = i
      BY <1>1, EntriesFacts DEF IInv, SurvivorSteps
    <2>2. Home' = Home /\ \A k \in Ids : Survivor(k)' = Survivor(k)
      BY <1>1, HomeStays
    <2> QED
      BY <1>1, <2>1, <2>2 DEF Home
  <1>3. \A a \in T : owner[a] \in {None, i}
    BY DEF Taken
  <1>4. \A a \in Anchor : Holders(a)' = IF a \in T THEN Holders(a) \union {i} ELSE Holders(a)
    BY <1>1 DEF Holders, Issued, IInv, Entries, TypeOK
  <1>5. ASSUME NEW a \in Anchor
        PROVE  Answer'[a] = IF a \in names THEN i ELSE Answer[a]
    <2>1. CASE a \in T
      <3>1. Answer'[a] = i
        BY <1>2, <1>4, <2>1, AnswersAreHeldNext DEF AnswersAgree
      <3>2. Holders(a) # {} => Answer[a] = i
        BY <1>1, <1>3, <2>1, OwnerAnswers
      <3> QED
        BY <2>1, <3>1, <3>2
    <2>2. CASE a \notin T
      <3>1. Answer'[a] = Answer[a]
        BY <1>1, <1>4, <2>2, AnswerStays
      <3> QED
        BY <2>2, <3>1
    <2> QED
      BY <2>1, <2>2
  <1>6. names \in SUBSET Anchor /\ \A a \in names : Answer[a] = None
    BY <1>0, AnswersAreHeld DEF AnswersAgree
  <1>7. Answer' = [a \in Anchor |-> IF a \in names THEN i ELSE Answer[a]]
    BY <1>5, AnswerShape
  <1> HIDE DEF names
  <1> QED
    BY <1>1, <1>2, <1>6, <1>7, ReaderClaims

\* A row that is not is issued an identifier, with what it registers.
LEMMA AssignNewIsIssue ==
    ASSUME IInv, IInv', NEW row \in Rows, AssignNew(row), NEW i, i = n + 1
    PROVE  Reader!Next
  <1> DEFINE known == [owner EXCEPT ![row.anchor] = i]
             names == {row.anchor} \union Taken(row, i, known)
  <1>0. row.anchor \in Anchor /\ names \in SUBSET Anchor
    BY RowsAssumption DEF Taken
  <1>1. /\ n' = i /\ n < MaxId /\ UNCHANGED mergedInto /\ owner[row.anchor] = None
        /\ anchors' = [anchors EXCEPT ![i] = names] /\ phase = "assigning"
    BY DEF AssignNew
  <1>2. /\ i \in Ids /\ i \notin Issued /\ Issued' = Issued \union {i} /\ None # i
        /\ owner \in [Anchor -> Issued \union {None}]
    <2>1. n \in Nat /\ n \in 0 .. MaxId
      BY MaxIdAssumption DEF IInv, Entries, TypeOK
    <2>2. owner \in [Anchor -> Issued \union {None}]
      BY <1>1 DEF IInv, Entries, TypeOK, OwnerIsLive
    <2> QED
      BY <1>1, <2>1, <2>2, MaxIdAssumption DEF Issued, Ids, None
  <1>3. Home' = Home /\ Survivor(i) = i /\ Survivor(i)' = i
    <2>1. Live(i)
      BY <1>2 DEF IInv, Entries, OnlyIssued, Live
    <2>2. Survivor(i) = i
      BY <1>2, <2>1, EntriesFacts DEF IInv, SurvivorSteps
    <2> QED
      BY <1>1, <1>2, <2>2, HomeStays
  <1>4. \A a \in names : Holders(a) = {} /\ Answer[a] = None
    <2>1. \A a \in names : a \in Anchor /\ owner[a] = None
      <3>1. ASSUME NEW a \in Taken(row, i, known), a # row.anchor
            PROVE  owner[a] = None
        <4>1. a \in Anchor /\ known[a] = owner[a] /\ known[a] \in {None, i}
          BY <1>0, <1>2, <3>1 DEF Taken
        <4> QED
          BY <1>2, <4>1
      <3> QED
        BY <1>0, <1>1, <3>1
    <2> QED
      BY <1>1, <2>1, OwnerAnswers
  <1>5. \A a \in Anchor : Holders(a)' = IF a \in names THEN Holders(a) \union {i} ELSE Holders(a)
    <2>1. anchors[i] = {}
      BY <1>2 DEF IInv, Entries, OnlyIssued
    <2>2. \A k \in Issued : anchors'[k] = anchors[k]
      BY <1>1, <1>2, IssuedFacts DEF IInv, Entries, TypeOK
    <2>3. anchors'[i] = names
      BY <1>1, <1>2 DEF IInv, Entries, TypeOK
    <2> HIDE DEF names
    <2> QED
      BY <1>2, <2>1, <2>2, <2>3 DEF Holders
  <1>6. ASSUME NEW a \in Anchor
        PROVE  Answer'[a] = IF a \in names THEN i ELSE Answer[a]
    <2> HIDE DEF names
    <2>1. CASE a \in names
      BY <1>3, <1>5, <2>1, AnswersAreHeldNext DEF AnswersAgree
    <2>2. CASE a \notin names
      BY <1>1, <1>5, <2>2, AnswerStays
    <2> QED
      BY <2>1, <2>2
  <1>7. Answer' = [a \in Anchor |-> IF a \in names THEN n + 1 ELSE Answer[a]]
    BY <1>6, AnswerShape
  <1>8. \A a \in names : Answer[a] = None
    BY <1>4
  <1> HIDE DEF names
  <1> QED
    BY <1>0, <1>1, <1>3, <1>7, <1>8, ReaderIssues

\* The rest of a pass a reader sees nothing of.
LEMMA OthersAreUnseen ==
    ASSUME IInv, IInv', UNCHANGED <<n, anchors, mergedInto>>
    PROVE  UNCHANGED Reader!pvars
  <1>1. Home' = Home
    BY HomeStays
  <1>2. \A a \in Anchor : Holders(a)' = Holders(a)
    BY DEF Holders, Issued
  <1>3. \A a \in Anchor : Answer'[a] = Answer[a]
    BY <1>2, AnswerStays
  <1>4. Answer' = Answer
    BY <1>3, AnswerShape
  <1> QED
    BY <1>1, <1>4, ReaderStutters

-----------------------------------------------------------------------------
\* An empty listing is one in which nothing is issued and nothing answers.
LEMMA InitIsInit == Init => Reader!Init
  <1> SUFFICES ASSUME Init PROVE Reader!Init
    OBVIOUS
  <1>1. IInv
    BY InitEstablishes
  <1>2. \A i \in Ids : Survivor(i) = i
    BY <1>1, EntriesFacts DEF IInv, SurvivorSteps, Init, Live
  <1>3. \A a \in Anchor : Holders(a) = {}
    BY <1>1, IssuedFacts DEF Init, Holders
  <1> QED
    BY <1>2, <1>3 DEF Reader!Init, Reader!Id, Reader!Nobody, Init, Ids, None
\* Every step but a merge that takes something back is one of the promise.
LEMMA StepIsStep ==
    ASSUME IInv, [Next]_vars, ~Undoing
    PROVE  Reader!Next \/ UNCHANGED Reader!pvars
  <1>0. ASSUME NEW i \in Issued, NEW j \in Issued, Merge(i, j) PROVE SoundMerge(i, j)
    <2>1. /\ i \in Ids /\ j \in Ids /\ i # j /\ j # None
          /\ mergedInto \in [Ids -> Ids \union {None}]
          /\ mergedInto' = [mergedInto EXCEPT ![i] = j]
      BY <1>0, IssuedFacts, IdsFacts DEF Merge, IInv, Entries, TypeOK
    <2>2. mergedInto[i] # j => i \in Repointed
      BY <2>1 DEF Repointed
    <2> QED BY <1>0, <2>1, <2>2 DEF SoundMerge, Undoing, Remerged, Live
  <1>1. ASSUME NEW i \in Issued, NEW j \in Issued, Merge(i, j)
        PROVE  Reader!Next \/ UNCHANGED Reader!pvars
    BY <1>0, <1>1, SoundMergeKeeps, MergeIsJoin
  <1>2. ASSUME Step PROVE Reader!Next \/ UNCHANGED Reader!pvars
    <2>0. IInv'
      BY <1>2, StepKeeps
    <2>1. CASE BeginAssign
      BY <2>0, <2>1, OthersAreUnseen DEF BeginAssign
    <2>2. CASE \E a, b \in Anchor : RelateSiblings(a, b)
      BY <2>0, <2>2, OthersAreUnseen DEF RelateSiblings, entries
    <2>3. CASE Save
      BY <2>0, <2>3, OthersAreUnseen DEF Save, entries
    <2> QED
      BY <1>2, <2>0, <2>1, <2>2, <2>3, DetachIsRelease, AttachIsClaim, AssignKnownIsClaim,
         AssignNewIsIssue
      DEF Step
  <1>3. ASSUME UNCHANGED vars PROVE UNCHANGED Reader!pvars
    <2>1. IInv'
      BY <1>3, StutterKeeps
    <2> QED BY <1>3, <2>1, OthersAreUnseen DEF vars
  <1> QED BY <1>1, <1>2, <1>3 DEF Next

\* From every registry in which each identifier resolves and no anchor is split,
\* however it came about, somebody who holds a printed address is served as
\* PublishedIdentifiers promises by every step that undoes no merge.
THEOREM RegistryImplementsPromise == Spec => ReaderIsServed
  <1>1. Init => Reader!Init
    BY InitIsInit
  <1>2. Base /\ [Next]_vars =>
            [EveryIdResolves /\ OneWorkPerAnchor /\ ~Undoing => Reader!Next]_(Reader!pvars)
    BY Sound, StepIsStep
  <1> QED
    BY <1>1, <1>2, BaseInvariance, PTL DEF Spec, ReaderIsServed

-----------------------------------------------------------------------------
(* The merges of the command line.                                         *)

\* A merge of any two entries, which is what --merge takes, keeps every
\* identifier resolvable exactly when the loser is not on the winner's way to
\* its survivor (merge, "keeping it resolvable").
MergesThatResolve ==
    \A loser, winner \in Issued :
        LET m == [mergedInto EXCEPT ![loser] = winner]
        IN loser # winner =>
               ((\A i \in Issued : m[SurvivorBy(m, i)] = None)
                    <=> loser \notin Met(winner))

\* An invocation with any merge that closes no circle.
CommandNext ==
    \/ Step
    \/ \E loser, winner \in Issued : loser \notin Met(winner) /\ Merge(loser, winner)

CommandSpec == Init /\ [][CommandNext]_vars
\* Over a circle no walk meets a live identifier; off it every one does.
LEMMA MergeResolves ==
    ASSUME TypeOK, MergesOK, OnlyIssued
    PROVE  MergesThatResolve
  <1> SUFFICES ASSUME NEW loser \in Issued, NEW winner \in Issued, loser # winner
               PROVE  LET m == [mergedInto EXCEPT ![loser] = winner]
                      IN (\A i \in Issued : m[SurvivorBy(m, i)] = None)
                             <=> loser \notin Met(winner)
    BY DEF MergesThatResolve
  <1> DEFINE m == [mergedInto EXCEPT ![loser] = winner]
  <1>1. Issued \subseteq Ids /\ loser \in Ids /\ winner \in Ids /\ mergedInto \in Links
    BY MaxIdAssumption DEF TypeOK, Issued, Ids, Links
  <1>2. m \in Links /\ \A k \in Ids : m[k] = IF k = loser THEN winner ELSE mergedInto[k]
    BY <1>1 DEF Links
  <1>3. ASSUME loser \notin Met(winner), NEW i \in Issued
        PROVE  m[SurvivorBy(m, i)] = None
    <2>1. \A S \in SUBSET Ids : S # {} => \E k \in S : m[k] \notin S
      BY <1>1, <1>3, ForestKept
    <2> HIDE DEF m
    <2>2. i \in Ids /\ i \in MetBy(m, i) /\ MetBy(m, i) \in SUBSET Ids
      BY <1>1, <1>2, MetByFacts
    <2>3. PICK k \in MetBy(m, i) : m[k] \notin MetBy(m, i)
      BY <2>1, <2>2
    <2>4. m[k] = None
      BY <1>2, <2>2, <2>3, MetByFacts
    <2> QED BY <1>2, <2>2, <2>4, SurvivorIsLive
  <1>4. ASSUME loser \in Met(winner) PROVE m[SurvivorBy(m, winner)] # None
    <2> HIDE DEF m
    <2> DEFINE D == {x \in Met(winner) : loser \in Met(x)}
    <2>1. D \in SUBSET Ids /\ winner \in D
      BY <1>1, <1>4, MetIsMetBy
    <2>2. ASSUME NEW x \in D PROVE m[x] \in D
      <3>1. CASE x = loser
        BY <1>1, <1>2, <2>1, <3>1
      <3>2. CASE x # loser
        <4>1. x \in Ids /\ m[x] = mergedInto[x] /\ loser \in Met(x)
          BY <1>2, <2>1, <3>2
        <4>2. mergedInto[x] # None /\ loser \in Met(mergedInto[x])
          BY <1>1, <3>2, <4>1, MetIsMetBy
        <4>3. mergedInto[x] \in Met(winner)
          BY <1>1, <4>2, MetIsMetBy
        <4> QED BY <4>1, <4>2, <4>3
      <3> QED BY <3>1, <3>2
    <2> HIDE DEF D
    <2>3. MetBy(m, winner) \subseteq D
      BY <1>1, <1>2, <2>1, <2>2, MetByFacts
    <2>4. \A k \in MetBy(m, winner) : m[k] # None
      BY <2>1, <2>2, <2>3, IdsFacts
    <2> QED BY <1>1, <1>2, <2>4, SurvivorIsLive
  <1> QED BY <1>3, <1>4

\* A forest stays one through every operation with such a merge.
LEMMA ForestStays == Base /\ MergesOK /\ [CommandNext]_vars => Base' /\ MergesOK'
  <1> SUFFICES ASSUME Base, MergesOK, [CommandNext]_vars PROVE Base' /\ MergesOK'
    OBVIOUS
  <1>1. Base'
    <2>1. [Next]_vars
      BY DEF CommandNext, Next
    <2> QED BY <2>1, BaseKeeps
  <1>2. ASSUME UNCHANGED mergedInto PROVE MergesOK'
    BY <1>2, SurvivorKept
  <1>3. ASSUME NEW loser \in Issued, NEW winner \in Issued, loser \notin Met(winner),
               Merge(loser, winner)
        PROVE  MergesOK'
    <2>1. /\ loser \in Ids /\ winner \in Ids
          /\ mergedInto' = [mergedInto EXCEPT ![loser] = winner]
          /\ mergedInto' \in [Ids -> Ids \union {None}]
      BY <1>3, MergedLinks DEF Links
    <2>2. \A S \in SUBSET Ids : S # {} => \E k \in S : mergedInto'[k] \notin S
      BY <1>3, <2>1, ForestKept
    <2> QED BY <2>1, <2>2 DEF MergesOK, Acyclic, Ids, None
  <1> QED BY <1>1, <1>2, <1>3, StepRepointsNothing DEF CommandNext, vars

\* Through any invocations, with any merges that close no circle, of retired
\* entries as well as live ones, every published identifier resolves; and a next
\* merge keeps it so exactly when it closes none.  That is the guard --merge
\* leaves to whoever gives it.
THEOREM MergesOfTheCommandLine == CommandSpec => [](EveryIdResolves /\ MergesThatResolve)
  <1>1. Init => Base /\ MergesOK
    BY InitBase, InitEstablishes DEF IInv, Entries
  <1>2. Base /\ MergesOK => EveryIdResolves /\ MergesThatResolve
    <2> SUFFICES ASSUME Base, MergesOK PROVE EveryIdResolves /\ MergesThatResolve
      OBVIOUS
    <2>1. SurvivorSteps /\ Issued \subseteq Ids
      BY SurvivorFacts, AnyWalk DEF Base, WalkFacts
    <2> QED BY <2>1, MergeResolves DEF Base, Typed, SurvivorSteps, EveryIdResolves
  <1> QED BY <1>1, <1>2, ForestStays, PTL DEF CommandSpec
=============================================================================
