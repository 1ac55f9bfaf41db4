--------------------------- MODULE NameStoreProofs ---------------------------
(***************************************************************************)
(* What the store of readings keeps, for any passes, files, names, facts   *)
(* and length of a journal: through compactions, restarts and kills, of    *)
(* passes of which none loads while another compacts, and, in what is      *)
(* proved of a name, up to where two passes are at it.                     *)
(***************************************************************************)
EXTENDS NameStore, SequenceTheorems, NaturalsInduction, WellFoundedInduction, TLAPS

-----------------------------------------------------------------------------
(* Induction, stated of sets: the numbers, or the sequences, of which      *)
(* something is true.                                                      *)

LEMMA Least ==
    ASSUME NEW T \in SUBSET Nat, T # {}
    PROVE  \E m \in T : \A k \in T : m <= k
  <1> DEFINE R == OpToRel(<, Nat)
  <1>1. IsWellFoundedOn(R, Nat)
    BY NatLessThanWellFounded
  <1>2. \A x, y \in Nat : y < x => <<y, x>> \in R
    BY DEF OpToRel
  <1> HIDE DEF R
  <1>3. \E x \in T : \A y \in T : ~ (<<y, x>> \in R)
    BY <1>1, WFMin, Zenon
  <1>4. PICK x \in T : \A y \in T : ~ (<<y, x>> \in R)
    BY <1>3
  <1>5. \A y \in T : ~(y < x)
    BY <1>2, <1>4
  <1>6. \A y \in T : x <= y
    BY <1>5
  <1> QED BY <1>6

LEMMA NumberInduction ==
    ASSUME NEW T, 0 \in T, \A k \in Nat : k \in T => k + 1 \in T
    PROVE  Nat \subseteq T
  <1>1. SUFFICES ASSUME Nat \ T # {}  PROVE FALSE
    OBVIOUS
  <1>2. PICK m \in Nat \ T : \A k \in Nat \ T : m <= k
    BY <1>1, Least
  <1>3. m # 0 /\ m - 1 \in Nat
    BY <1>2
  <1>4. m - 1 \in T
    BY <1>2, <1>3
  <1>5. (m - 1) + 1 = m
    BY <1>2
  <1> QED BY <1>2, <1>3, <1>4, <1>5

LEMMA LineInduction ==
    ASSUME NEW S, NEW T, <<>> \in T,
           \A s \in Seq(S), e \in S : s \in T => Append(s, e) \in T
    PROVE  Seq(S) \subseteq T
  <1> DEFINE K == {k \in Nat : \A s \in Seq(S) : Len(s) = k => s \in T}
  <1>1. 0 \in K
    BY EmptySeq, \A s \in Seq(S) : Len(s) = 0 => s = <<>>
  <1>2. \A k \in Nat : k \in K => k + 1 \in K
    <2> SUFFICES ASSUME NEW k \in Nat, k \in K, NEW s \in Seq(S), Len(s) = k + 1
                 PROVE  s \in T
      OBVIOUS
    <2>1. s # <<>>
      OBVIOUS
    <2>2. PICK r \in Seq(S), e \in S : s = Append(r, e)
      BY <2>1, SequenceEmptyOrAppend
    <2>3. Len(r) = k
      BY <2>2, AppendProperties
    <2> QED BY <2>2, <2>3
  <1> HIDE DEF K
  <1>3. Nat \subseteq K
    BY <1>1, <1>2, NumberInduction
  <1>4. \A s \in Seq(S) : Len(s) \in K
    BY <1>3
  <1> QED BY <1>4 DEF K

-----------------------------------------------------------------------------
(* The replay of a journal, a line at a time.                              *)

\* The fold that Replay is: what it makes of the lines in a set.
Folds(records, lines, g) ==
    g = [s \in SUBSET DOMAIN lines |->
            IF s = {} THEN records ELSE ApplyTo(g[s \ {Max(s)}], lines[Max(s)])]

LEMMA LastIsMax ==
    ASSUME NEW m \in Nat, NEW s \in SUBSET (1 .. m + 1), m + 1 \in s
    PROVE  Max(s) = m + 1
  <1>1. \A y \in s : m + 1 >= y
    OBVIOUS
  <1>2. \A x \in s : (\A y \in s : x >= y) => x = m + 1
    OBVIOUS
  <1> QED BY <1>1, <1>2 DEF Max

LEMMA FoldExists ==
    ASSUME NEW records, NEW lines \in Seq(Fact)
    PROVE  \E g : Folds(records, lines, g)
  <1> DEFINE Over(m, g) ==
                g = [s \in SUBSET (1 .. m) |->
                        IF s = {} THEN records
                        ELSE ApplyTo(g[s \ {Max(s)}], lines[Max(s)])]
             K == {m \in Nat : \E g : Over(m, g)}
  <1>1. 0 \in K
    <2>1. Over(0, [s \in SUBSET (1 .. 0) |-> records])
      OBVIOUS
    <2> QED BY <2>1
  <1>2. ASSUME NEW m \in Nat, m \in K  PROVE  m + 1 \in K
    <2>1. PICK g : Over(m, g)
      BY <1>2
    <2> DEFINE h == [s \in SUBSET (1 .. m + 1) |->
                        IF m + 1 \in s THEN ApplyTo(g[s \ {m + 1}], lines[m + 1])
                        ELSE g[s]]
    <2>2. ASSUME NEW s \in SUBSET (1 .. m + 1)
          PROVE  h[s] = IF s = {} THEN records
                        ELSE ApplyTo(h[s \ {Max(s)}], lines[Max(s)])
      <3>1. CASE m + 1 \in s
        <4>1. Max(s) = m + 1 /\ s \ {m + 1} \in SUBSET (1 .. m)
          BY <3>1, LastIsMax
        <4>2. h[s \ {m + 1}] = g[s \ {m + 1}]
          BY <4>1
        <4> QED BY <3>1, <4>1, <4>2
      <3>2. CASE m + 1 \notin s
        <4> DEFINE rest == s \ {Max(s)}
        <4>1. s \in SUBSET (1 .. m) /\ rest \in SUBSET (1 .. m)
          <5>1. \A i \in s : i \in 1 .. m
            BY <3>2
          <5>2. rest \subseteq s
            OBVIOUS
          <5> QED BY <5>1, <5>2
        <4>2. h[s] = g[s] /\ h[s \ {Max(s)}] = g[s \ {Max(s)}]
          BY <3>2, <4>1
        <4>3. g[s] = IF s = {} THEN records ELSE ApplyTo(g[s \ {Max(s)}], lines[Max(s)])
          BY <2>1, <4>1
        <4> QED BY <4>2, <4>3
      <3> QED BY <3>1, <3>2
    <2> HIDE DEF h
    <2>3. h = [s \in SUBSET (1 .. m + 1) |-> h[s]]
      BY DEF h
    <2>4. Over(m + 1, h)
      BY <2>2, <2>3
    <2> HIDE DEF Over
    <2> QED BY <2>4
  <1> HIDE DEF K
  <1>3. Len(lines) \in K
    BY <1>1, <1>2, NumberInduction
  <1> QED BY <1>3, LenProperties DEF K, Folds

LEMMA ReplayIsFold ==
    ASSUME NEW records, NEW lines \in Seq(Fact)
    PROVE  \E g : Folds(records, lines, g) /\ Replay(records, lines) = g[DOMAIN lines]
  <1> DEFINE g == CHOOSE g : Folds(records, lines, g)
  <1>1. Folds(records, lines, g)
    BY FoldExists
  <1>2. Replay(records, lines) = g[DOMAIN lines]
    BY DEF Replay, FoldLeft, MapThenFoldSet, Folds
  <1> QED BY <1>1, <1>2

LEMMA ReplayNothing ==
    ASSUME NEW records
    PROVE  Replay(records, <<>>) = records
  <1>1. PICK g : Folds(records, <<>>, g) /\ Replay(records, <<>>) = g[DOMAIN <<>>]
    BY ReplayIsFold, EmptySeq
  <1>2. DOMAIN (<<>>) = {}
    OBVIOUS
  <1> QED BY <1>1, <1>2 DEF Folds

LEMMA ReplayLine ==
    ASSUME NEW records, NEW lines \in Seq(Fact), NEW f \in Fact
    PROVE  Replay(records, Append(lines, f)) = ApplyTo(Replay(records, lines), f)
  <1> DEFINE more == Append(lines, f)
             L == Len(lines)
  <1>1. /\ more \in Seq(Fact) /\ L \in Nat
        /\ DOMAIN lines = 1 .. L /\ DOMAIN more = 1 .. L + 1
        /\ \A i \in 1 .. L : more[i] = lines[i]
        /\ more[L + 1] = f
    BY AppendProperties, LenProperties
  <1>2. PICK g : Folds(records, lines, g) /\ Replay(records, lines) = g[1 .. L]
    BY <1>1, ReplayIsFold
  <1>3. PICK h : Folds(records, more, h) /\ Replay(records, more) = h[1 .. L + 1]
    BY <1>1, ReplayIsFold
  <1> HIDE DEF more
  <1>4. ASSUME NEW k \in Nat
        PROVE  Max(1 .. k + 1) = k + 1 /\ (1 .. k + 1) \ {k + 1} = 1 .. k
    BY LastIsMax
  <1> DEFINE K == {k \in Nat : k <= L => g[1 .. k] = h[1 .. k]}
  <1>5. 0 \in K
    BY <1>1, <1>2, <1>3 DEF Folds
  <1>6. ASSUME NEW k \in Nat, k \in K  PROVE  k + 1 \in K
    <2> SUFFICES ASSUME k + 1 <= L  PROVE  g[1 .. k + 1] = h[1 .. k + 1]
      OBVIOUS
    <2>1. 1 .. k + 1 \in SUBSET DOMAIN lines /\ 1 .. k + 1 \in SUBSET DOMAIN more
          /\ 1 .. k + 1 # {} /\ more[k + 1] = lines[k + 1]
      BY <1>1
    <2> DEFINE s == 1 .. k + 1
    <2>2. g[s] = ApplyTo(g[s \ {Max(s)}], lines[Max(s)])
      BY <1>2, <2>1 DEF Folds
    <2>3. h[s] = ApplyTo(h[s \ {Max(s)}], more[Max(s)])
      BY <1>3, <2>1 DEF Folds
    <2>4. Max(s) = k + 1 /\ s \ {Max(s)} = 1 .. k
      BY <1>4
    <2>5. g[1 .. k] = h[1 .. k]
      BY <1>1, <1>6
    <2> QED BY <2>1, <2>2, <2>3, <2>4, <2>5
  <1> HIDE DEF K
  <1>7. g[1 .. L] = h[1 .. L]
    <2>1. L \in K
      BY <1>1, <1>5, <1>6, NumberInduction
    <2> QED BY <1>1, <2>1 DEF K
  <1>8. h[1 .. L + 1] = ApplyTo(h[1 .. L], f)
    <2>1. 1 .. L + 1 \in SUBSET DOMAIN more /\ 1 .. L + 1 # {}
      BY <1>1
    <2>2. h[1 .. L + 1] = ApplyTo(h[(1 .. L + 1) \ {Max(1 .. L + 1)}], more[Max(1 .. L + 1)])
      BY <1>3, <2>1 DEF Folds
    <2> QED BY <1>1, <1>4, <2>2
  <1> QED BY <1>2, <1>3, <1>7, <1>8 DEF more

LEMMA LinesOfAppend ==
    ASSUME NEW lines \in Seq(Fact), NEW f \in Fact
    PROVE  ToSet(Append(lines, f)) = ToSet(lines) \union {f}
  <1> DEFINE more == Append(lines, f)
             L == Len(lines)
  <1>1. /\ L \in Nat
        /\ DOMAIN lines = 1 .. L /\ DOMAIN more = 1 .. L + 1
        /\ \A i \in 1 .. L : more[i] = lines[i]
        /\ more[L + 1] = f
    BY AppendProperties, LenProperties
  <1> HIDE DEF more
  <1>2. \A i \in 1 .. L + 1 : i \in 1 .. L \/ i = L + 1
    BY <1>1
  <1>3. 1 .. L \subseteq 1 .. L + 1 /\ L + 1 \in 1 .. L + 1
    BY <1>1
  <1>4. ToSet(more) \subseteq ToSet(lines) \union {f}
    BY <1>1, <1>2 DEF ToSet
  <1>5. ToSet(lines) \subseteq ToSet(more)
    BY <1>1, <1>3 DEF ToSet
  <1>6. f \in ToSet(more)
    BY <1>1, <1>3 DEF ToSet
  <1> QED BY <1>4, <1>5, <1>6 DEF more

LEMMA NoLines == ToSet(<<>>) = {}
  BY DEF ToSet

LEMMA LinesAreFacts ==
    ASSUME NEW lines \in Seq(Fact)
    PROVE  ToSet(lines) \subseteq Fact
  BY LenProperties DEF ToSet

-----------------------------------------------------------------------------
(* One record.                                                             *)

Values(r) == (IF r.held = None THEN {} ELSE {r.held.value}) \union r.kept

\* The claim that answers once a fact is applied.
Adopted(held, f) ==
    IF held = None \/ f.supersede \/ Outranks(f, held) THEN f ELSE held

Swept(r) == IF r.held = None THEN r ELSE [r EXCEPT !.kept = @ \ {r.held.value}]

LEMMA FactTypes ==
    ASSUME NEW f \in Fact
    PROVE  /\ f # None /\ f.file \in File /\ f.name \in Name /\ f.value \in Value
           /\ f.rank \in Nat /\ f.supersede \in BOOLEAN
  <1>1. f \in [file : File, name : Name, value : Value, rank : Nat, supersede : BOOLEAN]
        /\ None \notin Fact
    BY StoreAssumption
  <1> QED BY <1>1

LEMMA RecordApplied ==
    ASSUME NEW r \in Record, NEW f \in Fact
    PROVE  /\ Apply(r, f) \in Record
           /\ Apply(r, f).held = Adopted(r.held, f)
           /\ Values(Apply(r, f)) = Values(r) \union {f.value}
  <1> DEFINE adopted == r.held = None \/ f.supersede \/ Outranks(f, r.held)
             loser == IF r.held = None \/ f.value = r.held.value THEN {}
                      ELSE IF adopted THEN {r.held.value} ELSE {f.value}
             kept == r.kept \union loser
             k == IF f.supersede THEN kept \ {f.value} ELSE kept
             h == IF adopted THEN f ELSE r.held
  <1>1. f # None /\ f.value \in Value /\ r.held \in Fact \union {None} /\ r.kept \in SUBSET Value
    BY FactTypes DEF Record
  <1>2. r.held # None => r.held.value \in Value
    BY <1>1, FactTypes
  <1>3. Apply(r, f) = [held |-> h, kept |-> k]
    BY DEF Apply
  <1>4. h \in Fact \union {None} /\ k \in SUBSET Value
    BY <1>1, <1>2
  <1>5. h # None
    BY <1>1
  <1>6. {h.value} \union k = Values(r) \union {f.value}
    <2>1. CASE r.held = None
      BY <2>1, <1>1 DEF Values
    <2>2. CASE r.held # None /\ adopted
      BY <2>2, <1>1 DEF Values
    <2>3. CASE r.held # None /\ ~adopted
      BY <2>3, <1>1 DEF Values
    <2> QED BY <2>1, <2>2, <2>3
  <1>7. h = Adopted(r.held, f)
    BY DEF Adopted
  <1> HIDE DEF h, k
  <1> QED BY <1>3, <1>4, <1>5, <1>6, <1>7 DEF Record, Values

LEMMA RecordSwept ==
    ASSUME NEW r \in Record
    PROVE  /\ Swept(r) \in Record
           /\ Swept(r).held = r.held
           /\ Values(Swept(r)) = Values(r)
           /\ Swept(Swept(r)) = Swept(r)
  <1>1. r = [held |-> r.held, kept |-> r.kept] /\ r.held \in Fact \union {None}
        /\ r.kept \in SUBSET Value
    BY DEF Record
  <1>2. CASE r.held = None
    BY <1>2 DEF Swept
  <1>3. CASE r.held # None
    <2>1. Swept(r) = [held |-> r.held, kept |-> r.kept \ {r.held.value}]
      BY <1>1, <1>3 DEF Swept
    <2>2. Swept(r) \in Record /\ Swept(r).held = r.held /\ Values(Swept(r)) = Values(r)
      BY <1>1, <1>3, <2>1 DEF Record, Values
    <2>3. Swept(Swept(r)) = Swept(r)
      BY <1>3, <2>1 DEF Swept
    <2> QED BY <2>2, <2>3
  <1> QED BY <1>2, <1>3

\* A record that was swept is its claim and its values.
LEMMA SweptIsItsValues ==
    ASSUME NEW r \in Record, NEW s \in Record, r.held = s.held, Values(r) = Values(s)
    PROVE  Swept(r) = Swept(s)
  <1>1. /\ r = [held |-> r.held, kept |-> r.kept]
        /\ s = [held |-> s.held, kept |-> s.kept]
    BY DEF Record
  <1>2. CASE r.held = None
    <2>1. r.kept = s.kept
      BY <1>2 DEF Values
    <2> QED BY <1>1, <1>2, <2>1 DEF Swept
  <1>3. CASE r.held # None
    <2>1. r.kept \ {r.held.value} = s.kept \ {s.held.value}
      BY <1>3 DEF Values
    <2>2. Swept(r) = [held |-> r.held, kept |-> r.kept \ {r.held.value}]
      BY <1>1, <1>3 DEF Swept
    <2>3. Swept(s) = [held |-> s.held, kept |-> s.kept \ {s.held.value}]
      BY <1>1, <1>3 DEF Swept
    <2> QED BY <2>1, <2>2, <2>3
  <1> QED BY <1>2, <1>3

-----------------------------------------------------------------------------
(* The records of a replay.                                                *)

\* The lines about a name.
About(lines, f, n) == {g \in ToSet(lines) : g.file = f /\ g.name = n}
ValuesOf(facts) == {g.value : g \in facts}

LEMMA RecordsOf ==
    ASSUME NEW y \in Records, NEW f \in File, NEW n \in Name
    PROVE  y[f][n] \in Record
  BY DEF Records

LEMMA ApplyToRecords ==
    ASSUME NEW y \in Records, NEW g \in Fact
    PROVE  /\ ApplyTo(y, g) \in Records
           /\ \A f \in File, n \in Name :
                  ApplyTo(y, g)[f][n] = IF g.file = f /\ g.name = n
                                        THEN Apply(y[f][n], g) ELSE y[f][n]
  <1>1. g.file \in File /\ g.name \in Name
    BY FactTypes
  <1>2. Apply(y[g.file][g.name], g) \in Record
    BY <1>1, RecordsOf, RecordApplied
  <1> DEFINE x == Apply(y[g.file][g.name], g)
  <1>3. ApplyTo(y, g) = [y EXCEPT ![g.file][g.name] = x]
    BY DEF ApplyTo
  <1>4. x \in Record
    BY <1>2
  <1> HIDE DEF x
  <1>5. ApplyTo(y, g) \in Records
    BY <1>1, <1>3, <1>4 DEF Records
  <1>6. \A f \in File, n \in Name :
            ApplyTo(y, g)[f][n] = IF g.file = f /\ g.name = n THEN x ELSE y[f][n]
    BY <1>1, <1>3 DEF Records
  <1> QED BY <1>5, <1>6 DEF x

LEMMA ReplayType ==
    ASSUME NEW y \in Records, NEW lines \in Seq(Fact)
    PROVE  Replay(y, lines) \in Records
  <1> DEFINE T == {l \in Seq(Fact) : Replay(y, l) \in Records}
  <1>1. <<>> \in T
    BY ReplayNothing, EmptySeq
  <1>2. ASSUME NEW l \in Seq(Fact), NEW g \in Fact, l \in T
        PROVE  Append(l, g) \in T
    BY <1>2, ReplayLine, ApplyToRecords, AppendProperties
  <1> HIDE DEF T
  <1>3. Seq(Fact) \subseteq T
    BY <1>1, <1>2, LineInduction
  <1> QED BY <1>3 DEF T

\* One more line, as one name has it.
LEMMA ReplayMore ==
    ASSUME NEW y \in Records, NEW l \in Seq(Fact), NEW g \in Fact,
           NEW f \in File, NEW n \in Name
    PROVE  /\ Replay(y, l) \in Records /\ Replay(y, l)[f][n] \in Record
           /\ Append(l, g) \in Seq(Fact)
           /\ g.file = f /\ g.name = n =>
                 /\ Replay(y, Append(l, g))[f][n] = Apply(Replay(y, l)[f][n], g)
                 /\ Replay(y, Append(l, g))[f][n].held = Adopted(Replay(y, l)[f][n].held, g)
                 /\ Values(Replay(y, Append(l, g))[f][n]) = Values(Replay(y, l)[f][n]) \union {g.value}
                 /\ About(Append(l, g), f, n) = About(l, f, n) \union {g}
           /\ ~(g.file = f /\ g.name = n) =>
                 /\ Replay(y, Append(l, g))[f][n] = Replay(y, l)[f][n]
                 /\ About(Append(l, g), f, n) = About(l, f, n)
  <1>1. Replay(y, l) \in Records /\ Replay(y, l)[f][n] \in Record
    BY ReplayType, RecordsOf
  <1>2. Append(l, g) \in Seq(Fact)
    BY AppendProperties
  <1>3. Replay(y, Append(l, g))[f][n]
            = IF g.file = f /\ g.name = n THEN Apply(Replay(y, l)[f][n], g)
              ELSE Replay(y, l)[f][n]
    BY <1>1, ReplayLine, ApplyToRecords
  <1>4. /\ Apply(Replay(y, l)[f][n], g).held = Adopted(Replay(y, l)[f][n].held, g)
        /\ Values(Apply(Replay(y, l)[f][n], g)) = Values(Replay(y, l)[f][n]) \union {g.value}
    BY <1>1, RecordApplied
  <1>5. ToSet(Append(l, g)) = ToSet(l) \union {g}
    BY LinesOfAppend
  <1>6. /\ g.file = f /\ g.name = n => About(Append(l, g), f, n) = About(l, f, n) \union {g}
        /\ ~(g.file = f /\ g.name = n) => About(Append(l, g), f, n) = About(l, f, n)
    BY <1>5 DEF About
  <1> QED BY <1>1, <1>2, <1>3, <1>4, <1>6

LEMMA AboutNothing ==
    ASSUME NEW f, NEW n
    PROVE  About(<<>>, f, n) = {}
  BY NoLines DEF About

\* A name no line is about keeps its record.
LEMMA ReplayElsewhere ==
    ASSUME NEW y \in Records, NEW lines \in Seq(Fact), NEW f \in File, NEW n \in Name,
           About(lines, f, n) = {}
    PROVE  Replay(y, lines)[f][n] = y[f][n]
  <1> DEFINE T == {l \in Seq(Fact) : About(l, f, n) = {} => Replay(y, l)[f][n] = y[f][n]}
  <1>1. <<>> \in T
    BY ReplayNothing, EmptySeq
  <1>2. ASSUME NEW l \in Seq(Fact), NEW g \in Fact, l \in T
        PROVE  Append(l, g) \in T
    <2>1. CASE g.file = f /\ g.name = n
      <3>1. g \in About(Append(l, g), f, n)
        BY <2>1, ReplayMore
      <3> QED BY <3>1, AppendProperties
    <2>2. CASE ~(g.file = f /\ g.name = n)
      BY <1>2, <2>2, ReplayMore
    <2> QED BY <2>1, <2>2
  <1> HIDE DEF T
  <1>3. Seq(Fact) \subseteq T
    BY <1>1, <1>2, LineInduction
  <1> QED BY <1>3 DEF T

\* A record depends on the record it was.
LEMMA ReplayIsLocal ==
    ASSUME NEW y \in Records, NEW z \in Records, NEW lines \in Seq(Fact),
           NEW f \in File, NEW n \in Name, y[f][n] = z[f][n]
    PROVE  Replay(y, lines)[f][n] = Replay(z, lines)[f][n]
  <1> DEFINE T == {l \in Seq(Fact) : Replay(y, l)[f][n] = Replay(z, l)[f][n]}
  <1>1. <<>> \in T
    BY ReplayNothing, EmptySeq
  <1>2. ASSUME NEW l \in Seq(Fact), NEW g \in Fact, l \in T
        PROVE  Append(l, g) \in T
    <2>1. CASE g.file = f /\ g.name = n
      BY <1>2, <2>1, ReplayMore
    <2>2. CASE ~(g.file = f /\ g.name = n)
      BY <1>2, <2>2, ReplayMore
    <2> QED BY <2>1, <2>2
  <1> HIDE DEF T
  <1>3. Seq(Fact) \subseteq T
    BY <1>1, <1>2, LineInduction
  <1> QED BY <1>3 DEF T

\* No value is lost, and every line's is gained.
LEMMA ReplayValues ==
    ASSUME NEW y \in Records, NEW lines \in Seq(Fact), NEW f \in File, NEW n \in Name
    PROVE  Values(Replay(y, lines)[f][n])
              = Values(y[f][n]) \union ValuesOf(About(lines, f, n))
  <1> DEFINE T == {l \in Seq(Fact) : Values(Replay(y, l)[f][n])
                                        = Values(y[f][n]) \union ValuesOf(About(l, f, n))}
  <1>1. <<>> \in T
    BY ReplayNothing, EmptySeq, AboutNothing DEF ValuesOf
  <1>2. ASSUME NEW l \in Seq(Fact), NEW g \in Fact, l \in T
        PROVE  Append(l, g) \in T
    <2>1. CASE g.file = f /\ g.name = n
      <3>1. ValuesOf(About(Append(l, g), f, n)) = ValuesOf(About(l, f, n)) \union {g.value}
        <4>1. About(Append(l, g), f, n) = About(l, f, n) \union {g}
          BY <2>1, ReplayMore
        <4> QED BY <4>1 DEF ValuesOf
      <3>2. Append(l, g) \in Seq(Fact)
        BY AppendProperties
      <3> DEFINE r == Replay(y, l)[f][n]
      <3>3. Replay(y, Append(l, g))[f][n] = Apply(r, g) /\ r \in Record
        BY <2>1, ReplayMore
      <3>4. Values(r) = Values(y[f][n]) \union ValuesOf(About(l, f, n))
        BY <1>2
      <3> HIDE DEF r
      <3>5. Values(Apply(r, g)) = Values(r) \union {g.value}
        BY <3>3, RecordApplied
      <3>6. Values(Replay(y, Append(l, g))[f][n])
              = Values(y[f][n]) \union ValuesOf(About(Append(l, g), f, n))
        BY <3>1, <3>3, <3>4, <3>5
      <3> QED BY <3>2, <3>6
    <2>2. CASE ~(g.file = f /\ g.name = n)
      BY <1>2, <2>2, ReplayMore
    <2> QED BY <2>1, <2>2
  <1> HIDE DEF T
  <1>3. Seq(Fact) \subseteq T
    BY <1>1, <1>2, LineInduction
  <1> QED BY <1>3 DEF T

\* A line makes its record answer.
LEMMA ReplayAnswers ==
    ASSUME NEW y \in Records, NEW lines \in Seq(Fact), NEW f \in File, NEW n \in Name,
           y[f][n].held # None \/ About(lines, f, n) # {}
    PROVE  Replay(y, lines)[f][n].held # None
  <1> DEFINE T == {l \in Seq(Fact) : y[f][n].held # None \/ About(l, f, n) # {} =>
                                        Replay(y, l)[f][n].held # None}
  <1>1. <<>> \in T
    BY ReplayNothing, EmptySeq, AboutNothing
  <1>2. ASSUME NEW l \in Seq(Fact), NEW g \in Fact, l \in T
        PROVE  Append(l, g) \in T
    <2>1. CASE g.file = f /\ g.name = n
      <3>1. Replay(y, Append(l, g))[f][n].held = Adopted(Replay(y, l)[f][n].held, g)
            /\ Append(l, g) \in Seq(Fact)
        BY <2>1, ReplayMore
      <3>2. Adopted(Replay(y, l)[f][n].held, g) # None
        BY FactTypes DEF Adopted
      <3> QED BY <3>1, <3>2
    <2>2. CASE ~(g.file = f /\ g.name = n)
      BY <1>2, <2>2, ReplayMore
    <2> QED BY <2>1, <2>2
  <1> HIDE DEF T
  <1>3. Seq(Fact) \subseteq T
    BY <1>1, <1>2, LineInduction
  <1> QED BY <1>3 DEF T

-----------------------------------------------------------------------------
(* A journal replayed over a file that has it.                             *)

Supersedes(facts) == \E g \in facts : g.supersede

\* Where a line supersedes, what answers does not depend on what did.
LEMMA SupersedingDecides ==
    ASSUME NEW y \in Records, NEW z \in Records, NEW lines \in Seq(Fact),
           NEW f \in File, NEW n \in Name, Supersedes(About(lines, f, n))
    PROVE  Replay(y, lines)[f][n].held = Replay(z, lines)[f][n].held
  <1> DEFINE T == {l \in Seq(Fact) : Supersedes(About(l, f, n)) =>
                      Replay(y, l)[f][n].held = Replay(z, l)[f][n].held}
  <1>1. <<>> \in T
    BY EmptySeq, AboutNothing DEF Supersedes
  <1>2. ASSUME NEW l \in Seq(Fact), NEW g \in Fact, l \in T
        PROVE  Append(l, g) \in T
    <2>1. CASE g.file = f /\ g.name = n
      <3> SUFFICES ASSUME Supersedes(About(Append(l, g), f, n))
                   PROVE  Replay(y, Append(l, g))[f][n].held = Replay(z, Append(l, g))[f][n].held
        BY ReplayMore
      <3>1. /\ Replay(y, Append(l, g))[f][n].held = Adopted(Replay(y, l)[f][n].held, g)
            /\ Replay(z, Append(l, g))[f][n].held = Adopted(Replay(z, l)[f][n].held, g)
            /\ About(Append(l, g), f, n) = About(l, f, n) \union {g}
        BY <2>1, ReplayMore
      <3>2. CASE g.supersede
        BY <3>1, <3>2 DEF Adopted
      <3>3. CASE ~g.supersede
        <4>1. Supersedes(About(l, f, n))
          BY <3>1, <3>3 DEF Supersedes
        <4> QED BY <1>2, <3>1, <4>1
      <3> QED BY <3>2, <3>3
    <2>2. CASE ~(g.file = f /\ g.name = n)
      BY <1>2, <2>2, ReplayMore
    <2> QED BY <2>1, <2>2
  <1> HIDE DEF T
  <1>3. Seq(Fact) \subseteq T
    BY <1>1, <1>2, LineInduction
  <1> QED BY <1>3 DEF T

Tops(held, facts) == \A g \in facts : held # None /\ held.rank >= g.rank

LEMMA AdoptedTypes ==
    ASSUME NEW h \in Fact \union {None}, NEW g \in Fact
    PROVE  /\ Adopted(h, g) \in Fact
           /\ h # None /\ ~g.supersede /\ h.rank >= g.rank => Adopted(h, g) = h
           /\ ~g.supersede => Adopted(h, g).rank >= g.rank
           /\ h # None /\ ~g.supersede => Adopted(h, g).rank >= h.rank
  <1>1. g # None /\ g.rank \in Nat
    BY FactTypes
  <1>2. h # None => h \in Fact /\ h.rank \in Nat
    BY FactTypes
  <1> QED BY <1>1, <1>2 DEF Adopted, Outranks

\* Where none does, the best stated of them answers, or something stated better.
LEMMA BestStatedAnswers ==
    ASSUME NEW y \in Records, NEW lines \in Seq(Fact), NEW f \in File, NEW n \in Name,
           ~Supersedes(About(lines, f, n))
    PROVE  Tops(Replay(y, lines)[f][n].held, About(lines, f, n))
  <1> DEFINE T == {l \in Seq(Fact) : ~Supersedes(About(l, f, n)) =>
                      Tops(Replay(y, l)[f][n].held, About(l, f, n))}
  <1>1. <<>> \in T
    BY EmptySeq, AboutNothing DEF Tops
  <1>2. ASSUME NEW l \in Seq(Fact), NEW g \in Fact, l \in T
        PROVE  Append(l, g) \in T
    <2>1. CASE g.file = f /\ g.name = n
      <3> DEFINE h == Replay(y, l)[f][n].held
      <3>1. /\ Replay(y, Append(l, g))[f][n].held = Adopted(h, g)
            /\ About(Append(l, g), f, n) = About(l, f, n) \union {g}
            /\ Append(l, g) \in Seq(Fact)
            /\ h \in Fact \union {None}
        BY <2>1, ReplayMore DEF Record
      <3> HIDE DEF h
      <3>2. SUFFICES ASSUME ~Supersedes(About(l, f, n) \union {g})
                     PROVE  Tops(Adopted(h, g), About(l, f, n) \union {g})
        BY <3>1
      <3>3. ~g.supersede /\ Tops(h, About(l, f, n))
        BY <1>2, <3>2 DEF Supersedes, h
      <3>4. Adopted(h, g) \in Fact /\ Adopted(h, g) # None /\ Adopted(h, g).rank >= g.rank
            /\ Adopted(h, g).rank \in Nat
        BY <3>1, <3>3, AdoptedTypes, FactTypes
      <3>5. ASSUME NEW e \in About(l, f, n)  PROVE  Adopted(h, g).rank >= e.rank
        <4>1. h # None /\ h.rank >= e.rank
          BY <3>3 DEF Tops
        <4>2. Adopted(h, g).rank >= h.rank
          BY <3>1, <3>3, <4>1, AdoptedTypes
        <4>3. h.rank \in Nat /\ e.rank \in Nat
          BY <3>1, <4>1, FactTypes, LinesAreFacts DEF About
        <4> QED BY <3>4, <4>1, <4>2, <4>3
      <3> QED BY <3>4, <3>5 DEF Tops
    <2>2. CASE ~(g.file = f /\ g.name = n)
      BY <1>2, <2>2, ReplayMore
    <2> QED BY <2>1, <2>2
  <1> HIDE DEF T
  <1>3. Seq(Fact) \subseteq T
    BY <1>1, <1>2, LineInduction
  <1> QED BY <1>3 DEF T

\* And what is stated as well as every line goes on answering.
LEMMA BestStatedStays ==
    ASSUME NEW z \in Records, NEW lines \in Seq(Fact), NEW f \in File, NEW n \in Name,
           ~Supersedes(About(lines, f, n)), Tops(z[f][n].held, About(lines, f, n))
    PROVE  Replay(z, lines)[f][n].held = z[f][n].held
  <1> DEFINE h == z[f][n].held
             T == {l \in Seq(Fact) : ~Supersedes(About(l, f, n)) /\ Tops(h, About(l, f, n)) =>
                      Replay(z, l)[f][n].held = h}
  <1>1. <<>> \in T
    BY EmptySeq, ReplayNothing
  <1>2. ASSUME NEW l \in Seq(Fact), NEW g \in Fact, l \in T
        PROVE  Append(l, g) \in T
    <2>1. CASE g.file = f /\ g.name = n
      <3>1. /\ Replay(z, Append(l, g))[f][n].held = Adopted(Replay(z, l)[f][n].held, g)
            /\ About(Append(l, g), f, n) = About(l, f, n) \union {g}
            /\ Append(l, g) \in Seq(Fact)
        BY <2>1, ReplayMore
      <3>2. h \in Fact \union {None}
        BY RecordsOf DEF Record
      <3> HIDE DEF h
      <3>3. SUFFICES ASSUME ~Supersedes(About(l, f, n) \union {g}),
                            Tops(h, About(l, f, n) \union {g})
                     PROVE  Adopted(Replay(z, l)[f][n].held, g) = h
        BY <3>1
      <3>4. ~g.supersede /\ ~Supersedes(About(l, f, n))
        BY <3>3 DEF Supersedes
      <3>5. Tops(h, About(l, f, n)) /\ h # None /\ h.rank >= g.rank
        BY <3>3 DEF Tops
      <3>6. Replay(z, l)[f][n].held = h
        BY <1>2, <3>4, <3>5
      <3> QED BY <3>2, <3>4, <3>5, <3>6, AdoptedTypes
    <2>2. CASE ~(g.file = f /\ g.name = n)
      BY <1>2, <2>2, ReplayMore
    <2> QED BY <2>1, <2>2
  <1> HIDE DEF T
  <1>3. Seq(Fact) \subseteq T
    BY <1>1, <1>2, LineInduction
  <1> QED BY <1>3 DEF T

\* Replaying a journal over a file that answers as it made it answer changes
\* no answer.
LEMMA ReplayedAgain ==
    ASSUME NEW y \in Records, NEW z \in Records, NEW lines \in Seq(Fact),
           NEW f \in File, NEW n \in Name,
           z[f][n].held = Replay(y, lines)[f][n].held
    PROVE  Replay(z, lines)[f][n].held = z[f][n].held
  <1>1. CASE Supersedes(About(lines, f, n))
    BY <1>1, SupersedingDecides
  <1>2. CASE ~Supersedes(About(lines, f, n))
    BY <1>2, BestStatedAnswers, BestStatedStays
  <1> QED BY <1>1, <1>2

\* And over a file it was compacted into changes nothing the sweep does not drop.
LEMMA CompactedAgain ==
    ASSUME NEW y \in Records, NEW z \in Records, NEW lines \in Seq(Fact),
           NEW f \in File, NEW n \in Name,
           z[f][n] = Swept(Replay(y, lines)[f][n])
    PROVE  Swept(Replay(z, lines)[f][n]) = z[f][n]
  <1> DEFINE r == Replay(y, lines)[f][n]
             s == Replay(z, lines)[f][n]
             x == z[f][n]
  <1>1. r \in Record /\ s \in Record /\ x \in Record
    BY RecordsOf, ReplayType
  <1>2. x.held = r.held /\ Values(x) = Values(r) /\ Swept(x) = x
    BY <1>1, RecordSwept
  <1>3. s.held = x.held
    BY <1>2, ReplayedAgain
  <1>4. Values(s) = Values(x)
    <2>1. Values(r) = Values(y[f][n]) \union ValuesOf(About(lines, f, n))
      BY ReplayValues
    <2>2. Values(s) = Values(x) \union ValuesOf(About(lines, f, n))
      BY ReplayValues
    <2> QED BY <1>2, <2>1, <2>2
  <1> HIDE DEF r, s, x
  <1>5. Swept(s) = Swept(x)
    BY <1>1, <1>3, <1>4, SweptIsItsValues
  <1> QED BY <1>2, <1>5 DEF s, x

-----------------------------------------------------------------------------

LEMMA ReplayKnows ==
    ASSUME NEW y \in Records, NEW lines \in Seq(Fact), NEW f \in Fact,
           Knows(y, f) \/ f \in ToSet(lines)
    PROVE  Knows(Replay(y, lines), f)
  <1> DEFINE r == y[f.file][f.name]
             s == Replay(y, lines)[f.file][f.name]
             about == About(lines, f.file, f.name)
  <1>1. f.file \in File /\ f.name \in Name
    BY FactTypes
  <1>2. Values(s) = Values(r) \union ValuesOf(about)
    BY <1>1, ReplayValues
  <1>3. s.held # None /\ f.value \in Values(s)
    <2>1. CASE Knows(y, f)
      <3>1. r.held # None /\ f.value \in Values(r)
        BY <2>1 DEF Knows, Values
      <3>2. s.held # None
        BY <1>1, <3>1, ReplayAnswers
      <3> QED BY <1>2, <3>1, <3>2
    <2>2. CASE f \in ToSet(lines)
      <3>1. f \in about
        BY <2>2 DEF About
      <3>2. s.held # None
        BY <1>1, <3>1, ReplayAnswers
      <3>3. f.value \in ValuesOf(about)
        BY <3>1 DEF ValuesOf
      <3> QED BY <1>2, <3>2, <3>3
    <2> QED BY <2>1, <2>2
  <1> QED BY <1>3 DEF Knows, Values

LEMMA SweepRecords ==
    ASSUME NEW y \in Records
    PROVE  /\ Sweep(y) \in Records
           /\ \A f \in File, n \in Name : Sweep(y)[f][n] = Swept(y[f][n])
  <1>1. \A f \in File, n \in Name : Sweep(y)[f][n] = Swept(y[f][n])
    BY DEF Sweep, Swept
  <1>2. \A f \in File, n \in Name : Swept(y[f][n]) \in Record
    BY RecordsOf, RecordSwept
  <1>3. Sweep(y) = [f \in File |-> [n \in Name |-> Sweep(y)[f][n]]]
    BY DEF Sweep
  <1> QED BY <1>1, <1>2, <1>3 DEF Records

LEMMA SweptKnows ==
    ASSUME NEW y \in Records, NEW z \in Records, NEW f \in Fact,
           z[f.file][f.name] = Swept(y[f.file][f.name]), Knows(y, f)
    PROVE  Knows(z, f)
  <1>1. y[f.file][f.name] \in Record
    BY FactTypes, RecordsOf
  <1>2. /\ z[f.file][f.name].held = y[f.file][f.name].held
        /\ Values(z[f.file][f.name]) = Values(y[f.file][f.name])
    BY <1>1, RecordSwept
  <1> QED BY <1>2 DEF Knows, Values

LEMMA ApplyKnows ==
    ASSUME NEW y \in Records, NEW g \in Fact
    PROVE  /\ Knows(ApplyTo(y, g), g)
           /\ \A f \in Fact : Knows(y, f) => Knows(ApplyTo(y, g), f)
  <1>1. \A f \in Fact : f # None /\ f.file \in File /\ f.name \in Name
    BY FactTypes
  <1>2. ASSUME NEW f \in Fact, f.file = g.file, f.name = g.name, Knows(y, f) \/ f = g
        PROVE  Knows(ApplyTo(y, g), f)
    <2> DEFINE r == y[f.file][f.name]
    <2>1. r \in Record /\ r.held \in Fact \union {None}
      BY <1>1, RecordsOf DEF Record
    <2>2. ApplyTo(y, g)[f.file][f.name] = Apply(r, g)
      BY <1>1, <1>2, ApplyToRecords
    <2>3. /\ Apply(r, g).held = Adopted(r.held, g)
          /\ Values(Apply(r, g)) = Values(r) \union {g.value}
      BY <2>1, RecordApplied
    <2>4. Adopted(r.held, g) # None
      BY <1>1, <2>1, AdoptedTypes, StoreAssumption
    <2>5. f.value \in Values(r) \union {g.value}
      BY <1>2 DEF Knows, Values
    <2> HIDE DEF r
    <2> QED BY <2>2, <2>3, <2>4, <2>5 DEF Knows, Values
  <1>3. ASSUME NEW f \in Fact, ~(f.file = g.file /\ f.name = g.name), Knows(y, f)
        PROVE  Knows(ApplyTo(y, g), f)
    <2>1. ApplyTo(y, g)[f.file][f.name] = y[f.file][f.name]
      BY <1>1, <1>3, ApplyToRecords
    <2> QED BY <1>3, <2>1 DEF Knows
  <1> QED BY <1>2, <1>3

-----------------------------------------------------------------------------
(* The invariant.                                                          *)

Live == {p \in Pass : pass[p] # NoPass}

\* Files are written swept.
FilesAreSwept == \A f \in File, n \in Name : Swept(yaml[f][n]) = yaml[f][n]

\* A line is in the journal of its file, and was learned.
LinesAreTheirs == \A f \in File : \A g \in ToSet(journal[f]) : g.file = f /\ g \in learned

\* While a pass loads nobody compacts: what it has read, and does not touch, is
\* on disk still, and so is each line it took.
LoadOf(p) ==
    /\ lock = None
    /\ pass[p].at = "reading" =>
           /\ pass[p].touched = {} /\ took[p] = {}
           /\ \A i \in DOMAIN Files, n \in Name : i < pass[p].next =>
                  pass[p].mem[Files[i]][n] = yaml[Files[i]][n]
    /\ pass[p].at = "replaying" =>
           /\ \A i \in DOMAIN Files, n \in Name :
                  i >= pass[p].next => <<Files[i], n>> \notin pass[p].touched
           /\ \A f \in File, n \in Name : <<f, n>> \notin pass[p].touched =>
                  pass[p].mem[f][n] = yaml[f][n]
           /\ \A g \in took[p] : g \in ToSet(journal[g.file])

LoadIsOfDisk == \A p \in Pass : pass[p].at \in {"reading", "replaying"} => LoadOf(p)

\* What a pass at work has not touched it remembers as it saw it.
MemoryOf(p) ==
    /\ pass[p].next = 1
    /\ \A f \in File, n \in Name : <<f, n>> \notin pass[p].touched =>
           pass[p].mem[f][n] = pass[p].seen[f][n]

MemoryIsSeen == \A p \in Pass : pass[p].at \in {"running", "merging"} => MemoryOf(p)

\* What a compaction writes is swept; what it has written, and what the pass has
\* not touched, is on disk.
WrittenOf(p) ==
    /\ pass[p].at = "unlinking" => pass[p].handle = [f \in File |-> "closed"]
    /\ \A i \in DOMAIN Files, n \in Name : pass[p].at = "unlinking" \/ i < pass[p].next =>
           pass[p].mem[Files[i]][n] = yaml[Files[i]][n]
    /\ \A f \in File, n \in Name :
           /\ Swept(pass[p].mem[f][n]) = pass[p].mem[f][n]
           /\ <<f, n>> \notin pass[p].touched => pass[p].mem[f][n] = yaml[f][n]

WrittenIsMemory == \A p \in Pass : pass[p].at \in {"writing", "unlinking"} => WrittenOf(p)

\* Of a name one pass is at, it knows what the file says and what it took.
Covers(r, s) == Values(s) \subseteq Values(r) /\ (s.held # None => r.held # None)

TakenOf(p) ==
    /\ \A f \in File, n \in Name : <<f, n>> \in pass[p].touched \ crossed =>
           Covers(pass[p].mem[f][n], yaml[f][n])
    /\ \A g \in took[p] :
           /\ <<g.file, g.name>> \in pass[p].touched
           /\ <<g.file, g.name>> \notin crossed => Knows(pass[p].mem, g)

TakenIsKnown ==
    /\ \A p \in Live : TakenOf(p)
    /\ \A p \in Pass \ Live : took[p] = {}

\* Two passes are at no name but a crossed one.
TouchedApart ==
    \A p, q \in Live : p # q => pass[p].touched \cap pass[q].touched \subseteq crossed

\* A fact is in the file, or in the journal, or was unlinked unwritten.
Placed(g) ==
    \/ Knows(yaml, g)
    \/ g \in ToSet(journal[g.file])
    \/ g \in unlinked \ landed

LearnedIsPlaced == \A g \in learned : <<g.file, g.name>> \notin crossed => Placed(g)

\* What a pass that is alone remembers is what a load would give, before and
\* after the sweep.
LoneOf(p) ==
    /\ Others(p) = {}
    /\ \A f \in File : pass[p].handle[f] # "orphan"
    /\ pass[p].at = "replaying" => \A i \in DOMAIN Files, n \in Name :
           i < pass[p].next => pass[p].mem[Files[i]][n] = Loaded[Files[i]][n]
    /\ pass[p].at \in {"running", "merging"} =>
           /\ pass[p].seen = yaml
           /\ \A f \in File, n \in Name : pass[p].mem[f][n] = Loaded[f][n]
    /\ pass[p].at \in {"writing", "unlinking"} =>
           \A f \in File, n \in Name : Swept(Loaded[f][n]) = pass[p].mem[f][n]
    /\ pass[p].at = "unlinking" => \A i \in DOMAIN Files :
           i < pass[p].next => journal[Files[i]] = <<>>

LoneIsExact == \A p \in Live \ met : LoneOf(p)

\* What the passes know, of the names that are not crossed.
KInv ==
    /\ FilesAreSwept /\ LinesAreTheirs /\ LoadIsOfDisk /\ MemoryIsSeen /\ WrittenIsMemory
    /\ TakenIsKnown /\ TouchedApart /\ LearnedIsPlaced /\ LandedIsKept

NInv == NameStoreTypeOK /\ KInv /\ LoneIsExact

-----------------------------------------------------------------------------
(* Files, and the steps of a pass.                                         *)

LEMMA FileFacts ==
    /\ Len(Files) \in Nat \ {0} /\ DOMAIN Files = 1 .. Len(Files)
    /\ \A i \in DOMAIN Files : Files[i] \in File
    /\ \A f \in File : \E i \in DOMAIN Files : Files[i] = f
    /\ \A i, j \in DOMAIN Files : Files[i] = Files[j] => i = j
  <1>1. Files \in Seq(STRING) /\ Files # <<>>
    BY StoreAssumption
  <1>2. Len(Files) \in Nat \ {0} /\ DOMAIN Files = 1 .. Len(Files)
    BY <1>1, EmptySeq, LenProperties
  <1>3. \A i, j \in DOMAIN Files : Files[i] = Files[j] => i = j
    BY StoreAssumption
  <1> QED BY <1>2, <1>3 DEF File, ToSet

\* The pass that steps, and the others.
LEMMA Moved ==
    ASSUME NameStoreTypeOK, NEW p \in Pass, NEW r, pass' = [pass EXCEPT ![p] = r]
    PROVE  pass'[p] = r /\ \A q \in Pass \ {p} : pass'[q] = pass[q]
  BY DEF NameStoreTypeOK

LEMMA AtWork ==
    ASSUME NameStoreTypeOK, NEW p \in Pass, pass[p].at # "off"
    PROVE  pass[p] \in Process /\ p \in Live
  BY DEF NameStoreTypeOK, NoPass, Live

LEMMA NotLive ==
    ASSUME NameStoreTypeOK, NEW p \in Pass
    PROVE  /\ p \notin Live <=> pass[p].at = "off"
           /\ p \notin Live <=> pass[p] = NoPass
           /\ p \in Live <=> pass[p] \in Process
  BY DEF NameStoreTypeOK, NoPass, Live, Process

LEMMA OnwardIs ==
    ASSUME NEW p \in Pass, NEW now \in Process, pass[p].next \in 1 .. Len(Files),
           NEW then \in {"replaying", "running", "unlinking"}
    PROVE  /\ Onward(p, now, then) \in Process
           /\ pass[p].next = Len(Files) =>
                 Onward(p, now, then) = [now EXCEPT !.at = then, !.next = 1]
           /\ pass[p].next # Len(Files) =>
                 /\ pass[p].next + 1 \in 1 .. Len(Files)
                 /\ Onward(p, now, then) = [now EXCEPT !.next = pass[p].next + 1]
  <1>1. Len(Files) \in Nat \ {0}
    BY FileFacts
  <1>2. CASE pass[p].next = Len(Files)
    <2>1. Onward(p, now, then) = [now EXCEPT !.at = then, !.next = 1]
      BY <1>1, <1>2 DEF Onward
    <2>2. ASSUME NEW k \in 1 .. Len(Files)
          PROVE  [now EXCEPT !.at = then, !.next = k] \in Process
      BY DEF Process
    <2>3. 1 \in 1 .. Len(Files)
      BY <1>1
    <2> QED BY <1>2, <2>1, <2>2, <2>3
  <1>3. CASE pass[p].next # Len(Files)
    <2>1. Onward(p, now, then) = [now EXCEPT !.next = pass[p].next + 1]
      BY <1>1, <1>3 DEF Onward
    <2>2. pass[p].next + 1 \in 1 .. Len(Files)
      BY <1>1, <1>3
    <2>3. ASSUME NEW k \in 1 .. Len(Files)  PROVE  [now EXCEPT !.next = k] \in Process
      BY DEF Process
    <2> QED BY <1>3, <2>1, <2>2, <2>3
  <1> QED BY <1>2, <1>3

\* What a load would find, name by name.
LEMMA LoadedIs ==
    ASSUME NameStoreTypeOK
    PROVE  /\ Loaded \in Records
           /\ \A f \in File : Loaded[f] = Replay(yaml, journal[f])[f]
           /\ \A f \in File, n \in Name :
                  About(journal[f], f, n) = {} => Loaded[f][n] = yaml[f][n]
  <1>1. yaml \in Records /\ \A f \in File : journal[f] \in Seq(Fact)
    BY DEF NameStoreTypeOK
  <1>2. \A f \in File : Replay(yaml, journal[f]) \in Records
    BY <1>1, ReplayType
  <1>3. \A f \in File : Loaded[f] = Replay(yaml, journal[f])[f]
    BY DEF Loaded
  <1>4. \A f \in File : Replay(yaml, journal[f])[f] \in [Name -> Record]
    BY <1>2 DEF Records
  <1>5. Loaded \in Records
    BY <1>4 DEF Loaded, Records
  <1> QED BY <1>1, <1>3, <1>5, ReplayElsewhere

-----------------------------------------------------------------------------
(* Steps that leave the files as they are.                                 *)

\* Where a pass runs, every other one is beside it.
LEMMA Beside ==
    ASSUME NInv, NEW p \in Live
    PROVE  \A q \in Live \ {p} : q \in met
  <1> SUFFICES ASSUME NEW q \in Live \ {p}, q \notin met  PROVE FALSE
    OBVIOUS
  <1>1. Others(q) = {}
    BY DEF NInv, LoneIsExact, LoneOf
  <1> QED BY <1>1 DEF Others, Live

\* Of a pass that did not step, nothing has to be shown.
LEMMA FilesRest ==
    ASSUME NInv, NEW p \in Pass, UNCHANGED <<yaml, landed>>,
           \A q \in Pass \ {p} : pass'[q] = pass[q] /\ took'[q] = took[q],
           NameStoreTypeOK', LinesAreTheirs',
           unlinked \subseteq unlinked', crossed \subseteq crossed',
           \A f \in File : ToSet(journal[f]) \subseteq ToSet(journal'[f]),
           \A g \in learned' \ learned :
               g \notin landed /\ (g \in unlinked' \/ g \in ToSet(journal'[g.file])),
           \A q \in Pass \ {p} : pass[q].at \in {"reading", "replaying"} => lock' = None,
           pass'[p].at \in {"reading", "replaying"} => LoadOf(p)',
           pass'[p].at \in {"running", "merging"} => MemoryOf(p)',
           pass'[p].at \in {"writing", "unlinking"} => WrittenOf(p)',
           p \in Live' => TakenOf(p)',
           p \notin Live' => took'[p] = {},
           p \in Live' => \A q \in Live \ {p} :
               pass'[p].touched \cap pass[q].touched \subseteq crossed',
           Live' \ met' \subseteq {p},
           p \in Live' \ met' => LoneOf(p)'
    PROVE  NInv'
  <1>1. KInv /\ NameStoreTypeOK
    BY DEF NInv
  <1>2. \A q \in Pass \ {p} : q \in Live' <=> q \in Live
    BY DEF Live
  <1>3. \A q \in Pass : took[q] \subseteq Fact
    BY <1>1 DEF NameStoreTypeOK
  <1>4. FilesAreSwept'
    BY <1>1 DEF KInv, FilesAreSwept
  <1>5. LoadIsOfDisk'
    <2> SUFFICES ASSUME NEW q \in Pass, pass'[q].at \in {"reading", "replaying"}, q # p
                 PROVE  LoadOf(q)'
      BY DEF LoadIsOfDisk
    <2>1. LoadOf(q) /\ pass'[q] = pass[q] /\ lock' = None /\ took'[q] = took[q]
      BY <1>1 DEF KInv, LoadIsOfDisk
    <2>2. \A g \in took[q] : g.file \in File
      BY <1>3, FactTypes
    <2> QED BY <2>1, <2>2 DEF LoadOf
  <1>6. MemoryIsSeen'
    <2> SUFFICES ASSUME NEW q \in Pass, pass'[q].at \in {"running", "merging"}, q # p
                 PROVE  MemoryOf(q)'
      BY DEF MemoryIsSeen
    <2>1. MemoryOf(q) /\ pass'[q] = pass[q]
      BY <1>1 DEF KInv, MemoryIsSeen
    <2> QED BY <2>1 DEF MemoryOf
  <1>7. WrittenIsMemory'
    <2> SUFFICES ASSUME NEW q \in Pass, pass'[q].at \in {"writing", "unlinking"}, q # p
                 PROVE  WrittenOf(q)'
      BY DEF WrittenIsMemory
    <2>1. WrittenOf(q) /\ pass'[q] = pass[q]
      BY <1>1 DEF KInv, WrittenIsMemory
    <2> QED BY <2>1 DEF WrittenOf
  <1>8. TakenIsKnown'
    <2>1. ASSUME NEW q \in Live', q # p  PROVE TakenOf(q)'
      <3>1. TakenOf(q) /\ pass'[q] = pass[q] /\ took'[q] = took[q]
        BY <1>1, <1>2, <2>1 DEF KInv, TakenIsKnown, Live
      <3> QED BY <3>1 DEF TakenOf, Knows
    <2>2. ASSUME NEW q \in Pass \ Live', q # p  PROVE took'[q] = {}
      BY <1>1, <1>2, <2>2 DEF KInv, TakenIsKnown
    <2> QED BY <2>1, <2>2 DEF TakenIsKnown
  <1>9. TouchedApart'
    <2> SUFFICES ASSUME NEW q \in Live', NEW r \in Live', q # r
                 PROVE  pass'[q].touched \cap pass'[r].touched \subseteq crossed'
      BY DEF TouchedApart
    <2>1. q \in Pass /\ r \in Pass
      BY DEF Live
    <2>2. CASE q = p \/ r = p
      BY <1>2, <2>1, <2>2
    <2>3. CASE q # p /\ r # p
      BY <1>1, <1>2, <2>1, <2>3 DEF KInv, TouchedApart
    <2> QED BY <2>2, <2>3
  <1>10. LearnedIsPlaced'
    <2> SUFFICES ASSUME NEW g \in learned', <<g.file, g.name>> \notin crossed'
                 PROVE  Placed(g)'
      BY DEF LearnedIsPlaced
    <2>1. CASE g \in learned
      <3>1. Placed(g) /\ g.file \in File
        BY <1>1, <2>1, FactTypes DEF KInv, LearnedIsPlaced, NameStoreTypeOK
      <3> QED BY <3>1 DEF Placed, Knows
    <2>2. CASE g \notin learned
      BY <2>2 DEF Placed
    <2> QED BY <2>1, <2>2
  <1>11. LandedIsKept'
    BY <1>1 DEF KInv, LandedIsKept, Knows
  <1>12. LoneIsExact'
    BY DEF LoneIsExact
  <1> QED BY <1>4, <1>5, <1>6, <1>7, <1>8, <1>9, <1>10, <1>11, <1>12 DEF NInv, KInv

\* A step that leaves the lines and what was learned, too.
LEMMA DiskRests ==
    ASSUME NInv, NEW p \in Pass, UNCHANGED <<yaml, journal, learned, landed, unlinked>>,
           \A q \in Pass \ {p} : pass'[q] = pass[q] /\ took'[q] = took[q],
           NameStoreTypeOK', crossed \subseteq crossed',
           \A q \in Pass \ {p} : pass[q].at \in {"reading", "replaying"} => lock' = None,
           pass'[p].at \in {"reading", "replaying"} => LoadOf(p)',
           pass'[p].at \in {"running", "merging"} => MemoryOf(p)',
           pass'[p].at \in {"writing", "unlinking"} => WrittenOf(p)',
           p \in Live' => TakenOf(p)',
           p \notin Live' => took'[p] = {},
           p \in Live' => \A q \in Live \ {p} :
               pass'[p].touched \cap pass[q].touched \subseteq crossed',
           Live' \ met' \subseteq {p},
           p \in Live' \ met' => LoneOf(p)'
    PROVE  NInv'
  <1>1. LinesAreTheirs'
    BY DEF NInv, KInv, LinesAreTheirs
  <1> QED BY <1>1, FilesRest

\* What a pass that steps on stays beside, and what it stays alone.
LEMMA StepsOn ==
    ASSUME NInv, NEW p \in Live, pass'[p] # NoPass, met' = met,
           \A q \in Pass \ {p} : pass'[q] = pass[q]
    PROVE  /\ p \in Live' /\ Live' = Live /\ Live' \ met' \subseteq {p}
           /\ p \in Live' \ met' => LoneOf(p) /\ Others(p)' = {}
           /\ \A q \in Live \ {p} : pass[p].touched \cap pass[q].touched \subseteq crossed
  <1>1. Live' = Live /\ Others(p)' = Others(p)
    BY DEF Live, Others
  <1>2. Live \ met \subseteq {p}
    BY Beside
  <1>3. p \in Live \ met => LoneOf(p)
    BY DEF NInv, LoneIsExact
  <1>4. TouchedApart
    BY DEF NInv, KInv
  <1> QED BY <1>1, <1>2, <1>3, <1>4 DEF LoneOf, TouchedApart

LEMMA StartKeeps ==
    ASSUME NInv, NEW p \in Pass, lock = None, Start(p)
    PROVE  NInv'
  <1> DEFINE r == [at |-> "reading", next |-> 1, mem |-> Empty, touched |-> {},
                   seen |-> Empty, handle |-> [f \in File |-> "closed"]]
  <1>1. NameStoreTypeOK /\ pass[p] = NoPass /\ KInv
    BY DEF NInv, Start
  <1>2. /\ pass' = [pass EXCEPT ![p] = r]
        /\ UNCHANGED <<yaml, journal, lock, learned, landed, took, unlinked, crossed>>
        /\ met' = IF Others(p) = {} THEN met ELSE met \union Others(p) \union {p}
    BY DEF Start, disk
  <1>3. r \in Process
    <2>1. Empty \in Records /\ 1 \in 1 .. Len(Files)
      BY FileFacts DEF Empty, Records, Blank, Record
    <2> QED BY <2>1 DEF Process
  <1>4. /\ r.at = "reading" /\ r.next = 1 /\ r.touched = {}
        /\ \A f \in File : r.handle[f] = "closed"
    OBVIOUS
  <1> HIDE DEF r
  <1>5. pass'[p] = r /\ \A q \in Pass \ {p} : pass'[q] = pass[q]
    BY <1>1, <1>2, Moved
  <1>6. r # NoPass /\ Others(p)' = Others(p) /\ took'[p] = {}
    <2>1. r # NoPass
      BY <1>4 DEF NoPass
    <2>2. took[p] = {}
      BY <1>1 DEF KInv, TakenIsKnown, Live
    <2> QED BY <1>2, <1>5, <2>1, <2>2 DEF Others
  <1>7. NameStoreTypeOK'
    <2>1. met' \subseteq {q \in Pass : pass'[q] # NoPass}
      BY <1>1, <1>2, <1>5, <1>6 DEF NameStoreTypeOK, Others
    <2>2. \A q \in Pass : lock' = q <=> pass'[q].at \in {"merging", "writing", "unlinking"}
      BY <1>1, <1>2, <1>4, <1>5 DEF NameStoreTypeOK, NoPass
    <2> QED BY <1>1, <1>2, <1>3, <2>1, <2>2 DEF NameStoreTypeOK
  <1>8. LoadOf(p)'
    <2>1. \A i \in DOMAIN Files : ~(i < 1)
      BY FileFacts
    <2> QED BY <1>2, <1>4, <1>5, <1>6, <2>1 DEF LoadOf
  <1>9. TakenOf(p)'
    BY <1>4, <1>5, <1>6 DEF TakenOf
  <1>10. Live' \ met' \subseteq {p}
    <2> SUFFICES ASSUME NEW q \in Live', q # p  PROVE q \in met'
      OBVIOUS
    <2>1. q \in Others(p)
      BY <1>5 DEF Live, Others
    <2> QED BY <1>2, <2>1
  <1>11. ASSUME p \in Live' \ met'  PROVE LoneOf(p)'
    <2>1. Others(p)' = {}
      BY <1>2, <1>6, <1>11
    <2> QED BY <1>4, <1>5, <2>1 DEF LoneOf
  <1>12. p \in Live'
    BY <1>5, <1>6 DEF Live
  <1> QED BY <1>2, <1>4, <1>5, <1>7, <1>8, <1>9, <1>10, <1>11, <1>12, DiskRests

LEMMA ReadYamlKeeps ==
    ASSUME NInv, NEW p \in Pass, ReadYaml(p)
    PROVE  NInv'
  <1> DEFINE k == pass[p].next
             f == Files[k]
             now == [pass[p] EXCEPT !.mem[f] = yaml[f]]
             r == Onward(p, now, "replaying")
  <1>1. NameStoreTypeOK /\ LoadOf(p) /\ pass[p].at = "reading"
    BY DEF NInv, KInv, LoadIsOfDisk, ReadYaml
  <1>2. pass[p] \in Process /\ p \in Live
    BY <1>1, AtWork
  <1>3. k \in DOMAIN Files /\ DOMAIN Files = 1 .. Len(Files) /\ f \in File
    BY <1>2, FileFacts DEF Process
  <1>4. yaml[f] \in [Name -> Record] /\ pass[p].mem \in Records
    BY <1>1, <1>2, <1>3 DEF NameStoreTypeOK, Records, Process
  <1>5. /\ now.mem = [pass[p].mem EXCEPT ![f] = yaml[f]]
        /\ now.at = "reading" /\ now.touched = {} /\ now.next = k
        /\ now.handle = pass[p].handle
    BY <1>1, <1>2 DEF LoadOf, Process
  <1>6. now \in Process
    BY <1>2, <1>3, <1>4 DEF Process, Records
  <1>7. /\ pass' = [pass EXCEPT ![p] = r]
        /\ UNCHANGED <<yaml, journal, lock, learned, landed, took, unlinked, crossed, met>>
    BY DEF ReadYaml, disk, traces
  <1>8. \A i \in DOMAIN Files, n \in Name : i <= k => now.mem[Files[i]][n] = yaml[Files[i]][n]
    <2> SUFFICES ASSUME NEW i \in DOMAIN Files, NEW n \in Name, i <= k
                 PROVE  now.mem[Files[i]][n] = yaml[Files[i]][n]
      OBVIOUS
    <2>1. CASE i = k
      BY <1>3, <1>4, <1>5, <2>1 DEF Records
    <2>2. CASE i # k
      <3>1. i < k /\ Files[i] # f /\ Files[i] \in File
        BY <1>3, <2>2, FileFacts
      <3>2. now.mem[Files[i]] = pass[p].mem[Files[i]]
        BY <1>4, <1>5, <3>1 DEF Records
      <3> QED BY <1>1, <3>1, <3>2 DEF LoadOf
    <2> QED BY <2>1, <2>2
  <1> HIDE DEF now
  <1>9. /\ r \in Process /\ r.mem = now.mem /\ r.touched = {} /\ r.handle = now.handle
        /\ \/ r.at = "replaying" /\ r.next = 1 /\ k = Len(Files)
           \/ r.at = "reading" /\ r.next = k + 1
    <2>1. CASE k = Len(Files)
      <3>1. r \in Process /\ r = [now EXCEPT !.at = "replaying", !.next = 1]
        BY <1>2, <1>3, <1>6, <2>1, OnwardIs
      <3> QED BY <1>5, <1>6, <2>1, <3>1 DEF Process
    <2>2. CASE k # Len(Files)
      <3>1. r \in Process /\ r = [now EXCEPT !.next = k + 1]
        BY <1>2, <1>3, <1>6, <2>2, OnwardIs
      <3> QED BY <1>5, <1>6, <3>1 DEF Process
    <2> QED BY <2>1, <2>2
  <1> HIDE DEF r
  <1>10. pass'[p] = r /\ \A q \in Pass \ {p} : pass'[q] = pass[q]
    BY <1>1, <1>7, Moved
  <1>11. r # NoPass /\ r.at \notin {"off", "running", "merging", "writing", "unlinking"}
    BY <1>9 DEF NoPass
  <1>12. /\ p \in Live' /\ Live' \ met' \subseteq {p}
         /\ p \in Live' \ met' => LoneOf(p) /\ Others(p)' = {}
    BY <1>2, <1>7, <1>10, <1>11, StepsOn
  <1>13. NameStoreTypeOK'
    <2>1. \A q \in Pass : lock' = q <=> pass'[q].at \in {"merging", "writing", "unlinking"}
      BY <1>1, <1>7, <1>10, <1>11 DEF NameStoreTypeOK
    <2>2. met' \subseteq {q \in Pass : pass'[q] # NoPass}
      BY <1>1, <1>7, <1>10, <1>11 DEF NameStoreTypeOK
    <2> QED BY <1>1, <1>7, <1>9, <2>1, <2>2 DEF NameStoreTypeOK
  <1>14. took'[p] = {}
    BY <1>1, <1>7 DEF LoadOf
  <1>15. lock = None
    BY <1>1 DEF LoadOf
  <1>16. LoadOf(p)'
    <2>1. CASE r.at = "reading" /\ r.next = k + 1
      <3>1. \A i \in DOMAIN Files : i < k + 1 <=> i <= k
        BY <1>3, FileFacts
      <3> QED BY <1>7, <1>8, <1>9, <1>10, <1>14, <1>15, <2>1, <3>1 DEF LoadOf
    <2>2. CASE r.at = "replaying" /\ k = Len(Files)
      <3>1. \A g \in File, n \in Name : now.mem[g][n] = yaml[g][n]
        <4> SUFFICES ASSUME NEW g \in File, NEW n \in Name  PROVE now.mem[g][n] = yaml[g][n]
          OBVIOUS
        <4>1. PICK i \in DOMAIN Files : Files[i] = g
          BY FileFacts
        <4>2. i <= k
          BY <1>3, <2>2, FileFacts
        <4> QED BY <1>8, <4>1, <4>2
      <3> QED BY <1>7, <1>9, <1>10, <1>14, <1>15, <2>2, <3>1 DEF LoadOf
    <2> QED BY <1>9, <2>1, <2>2
  <1>17. TakenOf(p)'
    BY <1>9, <1>10, <1>14 DEF TakenOf
  <1>18. ASSUME p \in Live' \ met'  PROVE LoneOf(p)'
    <2>1. LoneOf(p) /\ Others(p)' = {}
      BY <1>12, <1>18
    <2>2. \A i \in DOMAIN Files : ~(i < 1)
      BY FileFacts
    <2> QED BY <1>5, <1>9, <1>10, <1>11, <2>1, <2>2 DEF LoneOf
  <1> QED BY <1>7, <1>9, <1>10, <1>11, <1>12, <1>13, <1>15, <1>16, <1>17, <1>18, DiskRests

LEMMA LockKeeps ==
    ASSUME NInv, NEW p \in Pass, At({"reading", "replaying"}) = {}, Lock(p)
    PROVE  NInv'
  <1> DEFINE r == [pass[p] EXCEPT !.at = "merging"]
  <1>1. /\ NameStoreTypeOK /\ pass[p].at = "running" /\ lock = None /\ MemoryOf(p)
        /\ TakenIsKnown
    BY DEF NInv, KInv, MemoryIsSeen, Lock
  <1>2. pass[p] \in Process /\ p \in Live /\ p # None
    BY <1>1, AtWork, StoreAssumption
  <1>3. /\ pass' = [pass EXCEPT ![p] = r] /\ lock' = p
        /\ UNCHANGED <<yaml, journal, learned, landed, took, unlinked, crossed, met>>
    BY DEF Lock, traces
  <1>4. /\ r \in Process /\ r.at = "merging" /\ r.next = pass[p].next /\ r.mem = pass[p].mem
        /\ r.touched = pass[p].touched /\ r.seen = pass[p].seen /\ r.handle = pass[p].handle
    BY <1>2 DEF Process
  <1> HIDE DEF r
  <1>5. pass'[p] = r /\ r # NoPass /\ \A q \in Pass \ {p} : pass'[q] = pass[q]
    <2>1. pass'[p] = r /\ \A q \in Pass \ {p} : pass'[q] = pass[q]
      BY <1>1, <1>3, Moved
    <2>2. r # NoPass
      BY <1>4 DEF NoPass
    <2> QED BY <2>1, <2>2
  <1>6. /\ p \in Live' /\ Live' \ met' \subseteq {p}
        /\ p \in Live' \ met' => LoneOf(p) /\ Others(p)' = {}
        /\ \A q \in Live \ {p} : pass[p].touched \cap pass[q].touched \subseteq crossed
    BY <1>2, <1>3, <1>5, StepsOn
  <1>7. NameStoreTypeOK'
    <2>1. \A q \in Pass : lock' = q <=> pass'[q].at \in {"merging", "writing", "unlinking"}
      BY <1>1, <1>2, <1>3, <1>4, <1>5, StoreAssumption DEF NameStoreTypeOK
    <2>2. met' \subseteq {q \in Pass : pass'[q] # NoPass}
      BY <1>1, <1>3, <1>5 DEF NameStoreTypeOK
    <2> QED BY <1>1, <1>3, <1>4, <2>1, <2>2 DEF NameStoreTypeOK
  <1>8. \A q \in Pass : pass[q].at \notin {"reading", "replaying"}
    BY DEF At
  <1>9. MemoryOf(p)'
    BY <1>1, <1>4, <1>5 DEF MemoryOf
  <1>10. TakenOf(p)'
    BY <1>1, <1>2, <1>3, <1>4, <1>5 DEF TakenIsKnown, TakenOf, Knows
  <1>11. ASSUME p \in Live' \ met'  PROVE LoneOf(p)'
    <2>1. LoneOf(p) /\ Others(p)' = {} /\ Loaded' = Loaded
      BY <1>3, <1>6, <1>11 DEF Loaded
    <2> QED BY <1>1, <1>3, <1>4, <1>5, <2>1 DEF LoneOf
  <1> QED BY <1>3, <1>4, <1>5, <1>6, <1>7, <1>8, <1>9, <1>10, <1>11, DiskRests

\* A process that is gone leaves the store to the others.
LEMMA KillKeeps ==
    ASSUME NInv, NEW p \in Pass, Kill(p)
    PROVE  NInv'
  <1>1. NameStoreTypeOK /\ p \in Live /\ KInv
    BY DEF NInv, Kill, Live
  <1>2. /\ pass' = [pass EXCEPT ![p] = NoPass] /\ lock' = IF lock = p THEN None ELSE lock
        /\ took' = [took EXCEPT ![p] = {}] /\ met' = met \ {p}
        /\ UNCHANGED <<yaml, journal, learned, landed, unlinked, crossed>>
    BY DEF Kill
  <1>3. pass'[p] = NoPass /\ \A q \in Pass \ {p} : pass'[q] = pass[q]
    BY <1>1, <1>2, Moved
  <1>4. took'[p] = {} /\ \A q \in Pass \ {p} : took'[q] = took[q]
    BY <1>1, <1>2 DEF NameStoreTypeOK
  <1>5. NameStoreTypeOK'
    <2>1. \A q \in Pass : lock' = q <=> pass'[q].at \in {"merging", "writing", "unlinking"}
      BY <1>1, <1>2, <1>3, StoreAssumption DEF NameStoreTypeOK, NoPass
    <2>2. met' \subseteq {q \in Pass : pass'[q] # NoPass}
      BY <1>1, <1>2, <1>3 DEF NameStoreTypeOK
    <2> QED BY <1>1, <1>2, <2>1, <2>2 DEF NameStoreTypeOK
  <1>6. p \notin Live' /\ Live' \ met' \subseteq {p}
    <2>1. \A q \in Live' : q \in Live \ {p}
      BY <1>3 DEF Live
    <2> QED BY <1>1, <1>2, <2>1, Beside
  <1>7. ASSUME NEW q \in Pass \ {p}, pass[q].at \in {"reading", "replaying"}
        PROVE  lock' = None
    BY <1>1, <1>2, <1>7 DEF KInv, LoadIsOfDisk, LoadOf
  <1> QED BY <1>2, <1>3, <1>4, <1>5, <1>6, <1>7, DiskRests DEF NoPass

\* What a load makes of a name: what the file and the journal say of it.
LEMMA LoadedCovers ==
    ASSUME NameStoreTypeOK, NEW f \in File, NEW n \in Name
    PROVE  Covers(Loaded[f][n], yaml[f][n])
  <1>1. yaml \in Records /\ journal[f] \in Seq(Fact) /\ Loaded[f] = Replay(yaml, journal[f])[f]
    BY LoadedIs DEF NameStoreTypeOK
  <1>2. /\ Values(Loaded[f][n]) = Values(yaml[f][n]) \union ValuesOf(About(journal[f], f, n))
        /\ yaml[f][n].held # None => Loaded[f][n].held # None
    BY <1>1, ReplayValues, ReplayAnswers
  <1> QED BY <1>2 DEF Covers

LEMMA ReplayJournalKeeps ==
    ASSUME NInv, NEW p \in Pass, ReplayJournal(p)
    PROVE  NInv'
  <1> DEFINE k == pass[p].next
             f == Files[k]
             lines == journal[f]
             names == {<<g.file, g.name>> : g \in ToSet(lines)}
             mem == Replay(pass[p].mem, lines)
             touched == pass[p].touched \union names
             now == [pass[p] EXCEPT !.mem = mem, !.touched = touched]
             then == Onward(p, now, "running")
             r == IF then.at = "running" THEN [then EXCEPT !.seen = yaml] ELSE then
  <1>1. /\ NameStoreTypeOK /\ LoadOf(p) /\ pass[p].at = "replaying" /\ lock = None
        /\ LinesAreTheirs /\ TakenIsKnown
    BY DEF NInv, KInv, LoadIsOfDisk, LoadOf, ReplayJournal
  <1>2. pass[p] \in Process /\ p \in Live /\ TakenOf(p)
    BY <1>1, AtWork DEF TakenIsKnown
  <1>3. k \in DOMAIN Files /\ DOMAIN Files = 1 .. Len(Files) /\ f \in File /\ k \in Nat
    BY <1>2, FileFacts DEF Process
  <1>4. lines \in Seq(Fact) /\ pass[p].mem \in Records /\ yaml \in Records
    BY <1>1, <1>2, <1>3 DEF NameStoreTypeOK, Process
  <1>5. \A g \in ToSet(lines) : g.file = f /\ g \in learned /\ g \in Fact
    BY <1>1, <1>3 DEF LinesAreTheirs, NameStoreTypeOK
  <1>6. mem \in Records
    BY <1>4, ReplayType
  <1>7. /\ names \subseteq File \X Name
        /\ touched \subseteq File \X Name
        /\ \A g \in File, n \in Name : g # f => <<g, n>> \notin names
    <2>1. \A g \in ToSet(lines) : g.file = f /\ f \in File /\ g.name \in Name
      BY <1>3, <1>5, FactTypes
    <2>2. pass[p].touched \subseteq File \X Name
      BY <1>2 DEF Process
    <2> QED BY <2>1, <2>2
  <1>8. \A n \in Name : mem[f][n] = Loaded[f][n]
    <2> SUFFICES ASSUME NEW n \in Name  PROVE mem[f][n] = Loaded[f][n]
      OBVIOUS
    <2>1. <<f, n>> \notin pass[p].touched
      <3>1. k >= k
        BY <1>3
      <3> QED BY <1>1, <1>3, <3>1 DEF LoadOf
    <2>2. pass[p].mem[f][n] = yaml[f][n]
      BY <1>1, <1>3, <2>1 DEF LoadOf
    <2>3. mem[f][n] = Replay(yaml, lines)[f][n]
      BY <1>3, <1>4, <2>2, ReplayIsLocal
    <2> QED BY <1>1, <1>3, <2>3, LoadedIs
  <1>9. \A g \in File, n \in Name : <<g, n>> \notin names => mem[g][n] = pass[p].mem[g][n]
    <2> SUFFICES ASSUME NEW g \in File, NEW n \in Name, <<g, n>> \notin names
                 PROVE  mem[g][n] = pass[p].mem[g][n]
      OBVIOUS
    <2>1. About(lines, g, n) = {}
      BY DEF About
    <2> QED BY <1>4, <2>1, ReplayElsewhere
  <1>10. \A g \in Fact : Knows(pass[p].mem, g) \/ g \in ToSet(lines) => Knows(mem, g)
    BY <1>4, ReplayKnows
  <1>11. /\ pass' = [pass EXCEPT ![p] = r]
         /\ took' = [took EXCEPT ![p] = @ \union ToSet(lines)]
         /\ crossed' = crossed \union TouchedBeside(p, names)
         /\ UNCHANGED <<yaml, journal, lock, learned, landed, unlinked, met>>
    BY DEF ReplayJournal, disk
  <1> HIDE DEF mem
  <1>12. /\ now.mem = mem /\ now.touched = touched /\ now.at = "replaying"
         /\ now.next = k /\ now.handle = pass[p].handle
    BY <1>1, <1>2 DEF Process
  <1>13. now \in Process
    BY <1>2, <1>6, <1>7 DEF Process
  <1> HIDE DEF now, names
  <1>14. /\ r \in Process /\ r.mem = mem /\ r.touched = touched /\ r.handle = pass[p].handle
         /\ \/ r.at = "running" /\ r.next = 1 /\ r.seen = yaml /\ k = Len(Files)
            \/ r.at = "replaying" /\ r.next = k + 1 /\ k # Len(Files)
    <2>1. CASE k = Len(Files)
      <3>1. then \in Process /\ then = [now EXCEPT !.at = "running", !.next = 1]
        BY <1>2, <1>3, <1>13, <2>1, OnwardIs
      <3>2. r = [then EXCEPT !.seen = yaml]
        BY <1>13, <3>1 DEF Process
      <3> QED BY <1>4, <1>12, <1>13, <2>1, <3>1, <3>2 DEF Process
    <2>2. CASE k # Len(Files)
      <3>1. then \in Process /\ then = [now EXCEPT !.next = k + 1]
        BY <1>2, <1>3, <1>13, <2>2, OnwardIs
      <3>2. then.at = "replaying" /\ then.mem = mem /\ then.touched = touched
            /\ then.handle = pass[p].handle /\ then.next = k + 1
        BY <1>12, <1>13, <3>1 DEF Process
      <3> QED BY <2>2, <3>1, <3>2
    <2> QED BY <2>1, <2>2
  <1> HIDE DEF r, then
  <1>15. pass'[p] = r /\ \A q \in Pass \ {p} : pass'[q] = pass[q]
    BY <1>1, <1>11, Moved
  <1>16. r # NoPass /\ r.at \notin {"off", "reading", "merging", "writing", "unlinking"}
    BY <1>14 DEF NoPass
  <1>17. /\ p \in Live' /\ Live' \ met' \subseteq {p}
         /\ p \in Live' \ met' => LoneOf(p) /\ Others(p)' = {}
         /\ \A q \in Live \ {p} : pass[p].touched \cap pass[q].touched \subseteq crossed
    BY <1>2, <1>11, <1>15, <1>16, StepsOn
  <1>18. /\ took'[p] = took[p] \union ToSet(lines) /\ took'[p] \subseteq learned
         /\ \A q \in Pass \ {p} : took'[q] = took[q]
         /\ took[p] \subseteq Fact
    BY <1>1, <1>5, <1>11 DEF NameStoreTypeOK
  <1>19. TouchedBeside(p, names) \subseteq names
    BY DEF TouchedBeside
  <1>20. NameStoreTypeOK'
    <2>1. \A q \in Pass : lock' = q <=> pass'[q].at \in {"merging", "writing", "unlinking"}
      BY <1>1, <1>11, <1>15, <1>16 DEF NameStoreTypeOK
    <2>2. met' \subseteq {q \in Pass : pass'[q] # NoPass}
      BY <1>1, <1>11, <1>15, <1>16 DEF NameStoreTypeOK
    <2>3. took' \in [Pass -> SUBSET learned'] /\ crossed' \subseteq File \X Name
      BY <1>1, <1>7, <1>11, <1>18, <1>19 DEF NameStoreTypeOK
    <2> QED BY <1>1, <1>11, <1>14, <2>1, <2>2, <2>3 DEF NameStoreTypeOK
  <1>21. \A g \in File, n \in Name :
             <<g, n>> \notin touched => mem[g][n] = yaml[g][n] /\ <<g, n>> \notin pass[p].touched
    BY <1>1, <1>9 DEF LoadOf
  <1>22. ASSUME r.at = "replaying", r.next = k + 1  PROVE LoadOf(p)'
    <2>1. ASSUME NEW i \in DOMAIN Files, NEW n \in Name, i >= k + 1
          PROVE  <<Files[i], n>> \notin touched
      <3>1. i \in Nat /\ Files[i] \in File /\ i # k /\ i >= k
        BY <1>3, <2>1, FileFacts
      <3>2. Files[i] # f
        BY <1>3, <3>1, FileFacts
      <3>3. <<Files[i], n>> \notin pass[p].touched
        BY <1>1, <3>1 DEF LoadOf
      <3> QED BY <1>7, <3>1, <3>2, <3>3
    <2>2. \A g \in took'[p] : g \in ToSet(journal[g.file])
      BY <1>1, <1>5, <1>18 DEF LoadOf
    <2> QED BY <1>1, <1>11, <1>14, <1>15, <1>21, <1>22, <2>1, <2>2 DEF LoadOf
  <1>23. ASSUME r.at = "running"  PROVE MemoryOf(p)'
    BY <1>14, <1>15, <1>16, <1>21, <1>23 DEF MemoryOf
  <1>24. TakenOf(p)'
    <2>1. ASSUME NEW g \in File, NEW n \in Name, <<g, n>> \in touched \ crossed'
          PROVE  Covers(mem[g][n], yaml[g][n])
      <3>1. CASE g = f
        BY <1>1, <1>3, <1>8, <3>1, LoadedCovers
      <3>2. CASE g # f
        <4>1. <<g, n>> \notin names
          BY <1>7, <3>2
        <4>2. <<g, n>> \in pass[p].touched \ crossed
          BY <1>11, <2>1, <4>1
        <4> QED BY <1>2, <1>9, <4>1, <4>2 DEF TakenOf
      <3> QED BY <3>1, <3>2
    <2>2. ASSUME NEW g \in took'[p]
          PROVE  /\ <<g.file, g.name>> \in touched
                 /\ <<g.file, g.name>> \notin crossed' => Knows(mem, g)
      <3>1. CASE g \in ToSet(lines)
        BY <1>5, <1>10, <3>1 DEF names
      <3>2. CASE g \in took[p]
        BY <1>2, <1>10, <1>11, <1>18, <3>2 DEF TakenOf
      <3> QED BY <1>18, <2>2, <3>1, <3>2
    <2> QED BY <1>11, <1>14, <1>15, <2>1, <2>2 DEF TakenOf, Knows
  <1>25. ASSUME NEW q \in Live \ {p}
         PROVE  pass'[p].touched \cap pass[q].touched \subseteq crossed'
    <2> SUFFICES ASSUME NEW x \in touched \cap pass[q].touched  PROVE x \in crossed'
      BY <1>14, <1>15
    <2>1. CASE x \in pass[p].touched
      BY <1>11, <1>17, <2>1
    <2>2. CASE x \in names
      <3>1. q \in Others(p)
        BY DEF Others, Live
      <3>2. x \in TouchedBeside(p, names)
        BY <2>2, <3>1 DEF TouchedBeside
      <3> QED BY <1>11, <3>2
    <2> QED BY <2>1, <2>2
  <1>26. ASSUME p \in Live' \ met'  PROVE LoneOf(p)'
    <2>1. LoneOf(p) /\ Others(p)' = {} /\ Loaded' = Loaded
      BY <1>11, <1>17, <1>26 DEF Loaded
    <2>2. ASSUME NEW i \in DOMAIN Files, NEW n \in Name, i <= k
          PROVE  mem[Files[i]][n] = Loaded[Files[i]][n]
      <3>1. CASE i = k
        BY <1>8, <3>1
      <3>2. CASE i # k
        <4>1. i < k /\ Files[i] # f /\ Files[i] \in File
          BY <1>3, <2>2, <3>2, FileFacts
        <4>2. mem[Files[i]][n] = pass[p].mem[Files[i]][n]
          BY <1>7, <1>9, <4>1
        <4> QED BY <1>1, <2>1, <4>1, <4>2 DEF LoneOf
      <3> QED BY <3>1, <3>2
    <2>3. \A i \in DOMAIN Files : (k = Len(Files) => i <= k) /\ (i < k + 1 => i <= k)
      BY <1>3
    <2>4. k = Len(Files) => \A g \in File, n \in Name : mem[g][n] = Loaded[g][n]
      BY <2>2, <2>3, FileFacts
    <2>5. \A g \in File : pass[p].handle[g] # "orphan"
      BY <2>1 DEF LoneOf
    <2> QED BY <1>11, <1>14, <1>15, <1>16, <2>1, <2>2, <2>3, <2>4, <2>5 DEF LoneOf
  <1> QED BY <1>1, <1>11, <1>14, <1>15, <1>16, <1>17, <1>18, <1>20, <1>22, <1>23, <1>24,
             <1>25, <1>26, DiskRests

\* What is put together for writing: of the names touched what is remembered,
\* of the rest what is on disk.
LEMMA MergedIs ==
    ASSUME NInv, NEW p \in Pass, pass[p].at = "merging"
    PROVE  /\ Merged(p) \in Records
           /\ \A f \in File, n \in Name :
                 /\ <<f, n>> \in pass[p].touched => Merged(p)[f][n] = pass[p].mem[f][n]
                 /\ <<f, n>> \notin pass[p].touched => Merged(p)[f][n] = yaml[f][n]
  <1>1. NameStoreTypeOK /\ MemoryOf(p)
    BY DEF NInv, KInv, MemoryIsSeen
  <1>2. pass[p].mem \in Records /\ yaml \in Records
    BY <1>1, AtWork DEF Process, NameStoreTypeOK
  <1>3. CASE pass[p].seen = yaml
    BY <1>1, <1>2, <1>3 DEF Merged, MemoryOf
  <1>4. CASE pass[p].seen # yaml
    <2>1. Merged(p) = [f \in File |-> [n \in Name |->
              IF <<f, n>> \in pass[p].touched THEN pass[p].mem[f][n] ELSE yaml[f][n]]]
      BY <1>4 DEF Merged
    <2>2. \A f \in File, n \in Name : pass[p].mem[f][n] \in Record /\ yaml[f][n] \in Record
      BY <1>2, RecordsOf
    <2> QED BY <2>1, <2>2 DEF Records
  <1> QED BY <1>3, <1>4

\* Where one compacts, nobody loads and nobody else compacts.
\* What is put back and written is what the pass knew.
LEMMA MergeFromDiskKeeps ==
    ASSUME NInv, NEW p \in Pass, MergeFromDisk(p)
    PROVE  NInv'
  <1> DEFINE mem == Sweep(Merged(p))
             r == [pass[p] EXCEPT !.mem = mem, !.at = "writing"]
  <1>1. /\ NameStoreTypeOK /\ pass[p].at = "merging" /\ MemoryOf(p) /\ FilesAreSwept
        /\ TakenIsKnown /\ LoadIsOfDisk
    BY DEF NInv, KInv, MemoryIsSeen, MergeFromDisk
  <1>2. /\ pass[p] \in Process /\ p \in Live /\ lock = p /\ p # None /\ TakenOf(p)
        /\ yaml \in Records /\ pass[p].mem \in Records
    BY <1>1, AtWork, StoreAssumption DEF NameStoreTypeOK, TakenIsKnown, Process
  <1>3. Merged(p) \in Records
    BY <1>1, MergedIs
  <1>4. mem \in Records /\ \A f \in File, n \in Name : mem[f][n] = Swept(Merged(p)[f][n])
    BY <1>3, SweepRecords
  <1>5. \A f \in File, n \in Name :
            /\ <<f, n>> \in pass[p].touched => mem[f][n] = Swept(pass[p].mem[f][n])
            /\ <<f, n>> \notin pass[p].touched => mem[f][n] = yaml[f][n]
            /\ Swept(mem[f][n]) = mem[f][n]
    <2> SUFFICES ASSUME NEW f \in File, NEW n \in Name
                 PROVE  /\ <<f, n>> \in pass[p].touched => mem[f][n] = Swept(pass[p].mem[f][n])
                        /\ <<f, n>> \notin pass[p].touched => mem[f][n] = yaml[f][n]
                        /\ Swept(mem[f][n]) = mem[f][n]
      OBVIOUS
    <2>1. /\ <<f, n>> \in pass[p].touched => Merged(p)[f][n] = pass[p].mem[f][n]
          /\ <<f, n>> \notin pass[p].touched => Merged(p)[f][n] = yaml[f][n]
      BY <1>1, MergedIs
    <2>2. Swept(mem[f][n]) = mem[f][n]
      BY <1>3, <1>4, RecordsOf, RecordSwept
    <2>3. Swept(yaml[f][n]) = yaml[f][n]
      BY <1>1 DEF FilesAreSwept
    <2> QED BY <1>4, <2>1, <2>2, <2>3
  <1> HIDE DEF mem
  <1>6. /\ r \in Process /\ r.at = "writing" /\ r.next = pass[p].next /\ r.mem = mem
        /\ r.touched = pass[p].touched /\ r.handle = pass[p].handle
    BY <1>2, <1>4 DEF Process
  <1>7. /\ pass' = [pass EXCEPT ![p] = r]
        /\ UNCHANGED <<yaml, journal, lock, learned, landed, took, unlinked, crossed, met>>
    BY DEF MergeFromDisk, mem, disk, traces
  <1> HIDE DEF r
  <1>8. pass'[p] = r /\ \A q \in Pass \ {p} : pass'[q] = pass[q]
    BY <1>1, <1>7, Moved
  <1>9. r # NoPass
    BY <1>6 DEF NoPass
  <1>10. /\ p \in Live' /\ Live' \ met' \subseteq {p}
         /\ p \in Live' \ met' => LoneOf(p) /\ Others(p)' = {}
         /\ \A q \in Live \ {p} : pass[p].touched \cap pass[q].touched \subseteq crossed
    BY <1>2, <1>7, <1>8, <1>9, StepsOn
  <1>11. NameStoreTypeOK'
    <2>1. \A q \in Pass : lock' = q <=> pass'[q].at \in {"merging", "writing", "unlinking"}
      BY <1>1, <1>2, <1>6, <1>7, <1>8 DEF NameStoreTypeOK
    <2>2. met' \subseteq {q \in Pass : pass'[q] # NoPass}
      BY <1>1, <1>7, <1>8, <1>9 DEF NameStoreTypeOK
    <2> QED BY <1>1, <1>6, <1>7, <2>1, <2>2 DEF NameStoreTypeOK
  <1>12. \A q \in Pass : pass[q].at \notin {"reading", "replaying"}
    BY <1>1, <1>2 DEF LoadIsOfDisk, LoadOf
  <1>13. WrittenOf(p)'
    <2>1. \A i \in DOMAIN Files : ~(i < 1)
      BY FileFacts
    <2> QED BY <1>1, <1>5, <1>6, <1>7, <1>8, <2>1 DEF WrittenOf, MemoryOf
  <1>14. TakenOf(p)'
    <2>1. ASSUME NEW f \in File, NEW n \in Name, <<f, n>> \in pass[p].touched \ crossed
          PROVE  Covers(mem[f][n], yaml[f][n])
      <3>1. Covers(pass[p].mem[f][n], yaml[f][n]) /\ pass[p].mem[f][n] \in Record
        BY <1>2, <2>1, RecordsOf DEF TakenOf
      <3> QED BY <1>5, <2>1, <3>1, RecordSwept DEF Covers
    <2>2. ASSUME NEW g \in took[p], <<g.file, g.name>> \notin crossed  PROVE Knows(mem, g)
      <3>1. g \in Fact /\ g.file \in File /\ g.name \in Name
        BY <1>1, FactTypes DEF NameStoreTypeOK
      <3>2. <<g.file, g.name>> \in pass[p].touched /\ Knows(pass[p].mem, g)
        BY <1>2, <2>2 DEF TakenOf
      <3> QED BY <1>2, <1>4, <1>5, <3>1, <3>2, SweptKnows
    <2>3. \A g \in took[p] : <<g.file, g.name>> \in pass[p].touched
      BY <1>2 DEF TakenOf
    <2> QED BY <1>6, <1>7, <1>8, <2>1, <2>2, <2>3 DEF TakenOf, Knows
  <1>15. ASSUME p \in Live' \ met'  PROVE LoneOf(p)'
    <2>1. LoneOf(p) /\ Others(p)' = {} /\ Loaded' = Loaded
      BY <1>7, <1>10, <1>15 DEF Loaded
    <2>2. ASSUME NEW f \in File, NEW n \in Name  PROVE mem[f][n] = Swept(Loaded[f][n])
      <3>1. /\ pass[p].seen = yaml /\ pass[p].mem[f][n] = Loaded[f][n]
            /\ <<f, n>> \notin pass[p].touched => pass[p].mem[f][n] = yaml[f][n]
        BY <1>1, <2>1 DEF LoneOf, MemoryOf
      <3>2. Swept(yaml[f][n]) = yaml[f][n]
        BY <1>1 DEF FilesAreSwept
      <3> QED BY <1>5, <3>1, <3>2
    <2>3. \A f \in File : pass[p].handle[f] # "orphan"
      BY <2>1 DEF LoneOf
    <2> QED BY <1>6, <1>8, <2>1, <2>2, <2>3 DEF LoneOf
  <1> QED BY <1>6, <1>7, <1>8, <1>10, <1>11, <1>12, <1>13, <1>14, <1>15, DiskRests

LEMMA LearnKeeps ==
    ASSUME NInv, NEW p \in Pass, NEW g \in Fact, Learn(p, g)
    PROVE  NInv'
  <1> DEFINE x == <<g.file, g.name>>
             h == pass[p].handle[g.file]
             mem == ApplyTo(pass[p].mem, g)
             touched == pass[p].touched \union {x}
             handle == [pass[p].handle EXCEPT ![g.file] = IF @ = "closed" THEN "open" ELSE @]
             r == [pass[p] EXCEPT !.mem = mem, !.touched = touched, !.handle = handle]
  <1>1. /\ NameStoreTypeOK /\ pass[p].at = "running" /\ MemoryOf(p)
        /\ g.file \in File /\ g.name \in Name /\ TakenIsKnown /\ LinesAreTheirs /\ LoadIsOfDisk
    BY FactTypes DEF NInv, KInv, MemoryIsSeen, Learn
  <1>2. pass[p] \in Process /\ p \in Live /\ TakenOf(p)
    BY <1>1, AtWork DEF TakenIsKnown
  <1>3. /\ pass[p].mem \in Records /\ pass[p].touched \subseteq File \X Name
        /\ pass[p].handle \in [File -> {"closed", "open", "orphan"}]
        /\ x \in File \X Name
    BY <1>1, <1>2 DEF Process
  <1>4. /\ mem \in Records
        /\ \A f \in File, n \in Name :
              mem[f][n] = IF g.file = f /\ g.name = n THEN Apply(pass[p].mem[f][n], g)
                          ELSE pass[p].mem[f][n]
    BY <1>3, ApplyToRecords
  <1>5. touched \subseteq File \X Name
    BY <1>3
  <1>6. /\ handle \in [File -> {"closed", "open", "orphan"}]
        /\ \A f \in File : handle[f] = "orphan" <=> pass[p].handle[f] = "orphan"
    BY <1>1, <1>3
  <1>7. pass' = [pass EXCEPT ![p] = r]
    BY <1>1, <1>2 DEF Learn, NameStoreTypeOK, Process
  <1>8. /\ journal' = IF h = "orphan" THEN journal
                      ELSE [journal EXCEPT ![g.file] = Append(@, g)]
        /\ unlinked' = IF h = "orphan" THEN unlinked \union {g} ELSE unlinked
        /\ learned' = learned \union {g} /\ took' = [took EXCEPT ![p] = @ \union {g}]
        /\ crossed' = IF Crosses(p, g.file, g.name) THEN crossed \union {x} ELSE crossed
        /\ UNCHANGED <<yaml, lock, landed, met>>
    BY DEF Learn, Noted
  <1>9. Knows(mem, g) /\ \A l \in Fact : Knows(pass[p].mem, l) => Knows(mem, l)
    BY <1>3, ApplyKnows
  <1>10. /\ Covers(Apply(pass[p].mem[g.file][g.name], g), pass[p].mem[g.file][g.name])
         /\ pass[p].mem[g.file][g.name] \in Record
    <2>1. /\ pass[p].mem[g.file][g.name] \in Record
          /\ pass[p].mem[g.file][g.name].held \in Fact \union {None} /\ g # None
      BY <1>1, <1>3, RecordsOf, FactTypes DEF Record
    <2> QED BY <2>1, RecordApplied DEF Covers, Adopted
  <1> HIDE DEF mem, handle
  <1>11. /\ r \in Process /\ r.at = "running" /\ r.next = pass[p].next /\ r.mem = mem
         /\ r.touched = touched /\ r.seen = pass[p].seen /\ r.handle = handle
    BY <1>1, <1>2, <1>4, <1>5, <1>6 DEF Process
  <1> HIDE DEF r
  <1>12. pass'[p] = r /\ \A q \in Pass \ {p} : pass'[q] = pass[q]
    BY <1>1, <1>7, Moved
  <1>13. r # NoPass /\ r.at \notin {"off", "reading", "replaying", "merging", "writing", "unlinking"}
    BY <1>11 DEF NoPass
  <1>14. /\ p \in Live' /\ Live' \ met' \subseteq {p}
         /\ p \in Live' \ met' => LoneOf(p) /\ Others(p)' = {}
         /\ \A q \in Live \ {p} : pass[p].touched \cap pass[q].touched \subseteq crossed
    BY <1>2, <1>8, <1>12, <1>13, StepsOn
  <1>15. \A f \in File : journal[f] \in Seq(Fact)
    BY <1>1 DEF NameStoreTypeOK
  <1>16. /\ \A f \in File \ {g.file} : journal'[f] = journal[f]
         /\ h = "orphan" => journal'[g.file] = journal[g.file]
         /\ h # "orphan" => journal'[g.file] = Append(journal[g.file], g)
         /\ journal' \in [File -> Seq(Fact)]
    BY <1>1, <1>8, <1>15, ReplayMore DEF NameStoreTypeOK
  <1>17. /\ \A f \in File : ToSet(journal[f]) \subseteq ToSet(journal'[f])
         /\ \A f \in File : \A l \in ToSet(journal'[f]) :
                l \in ToSet(journal[f]) \/ (l = g /\ f = g.file)
         /\ h # "orphan" => g \in ToSet(journal'[g.file])
    <2>1. ToSet(Append(journal[g.file], g)) = ToSet(journal[g.file]) \union {g}
      BY <1>1, <1>15, LinesOfAppend
    <2>2. \A f \in File : journal'[f] = IF f = g.file /\ h # "orphan"
                                       THEN Append(journal[f], g) ELSE journal[f]
      BY <1>16
    <2>3. \A f \in File : ToSet(journal'[f]) = IF f = g.file /\ h # "orphan"
                                       THEN ToSet(journal[f]) \union {g} ELSE ToSet(journal[f])
      BY <2>1, <2>2
    <2> HIDE DEF h
    <2>4. h # "orphan" => g \in ToSet(journal'[g.file])
      BY <1>1, <2>3
    <2>5. ASSUME NEW f \in File
          PROVE  /\ ToSet(journal[f]) \subseteq ToSet(journal'[f])
                 /\ \A l \in ToSet(journal'[f]) : l \in ToSet(journal[f]) \/ (l = g /\ f = g.file)
      <3>1. CASE f = g.file /\ h # "orphan"
        <4>1. ToSet(journal'[f]) = ToSet(journal[f]) \union {g}
          BY <2>3, <3>1
        <4> QED BY <3>1, <4>1
      <3>2. CASE ~(f = g.file /\ h # "orphan")
        <4>1. ToSet(journal'[f]) = ToSet(journal[f])
          BY <2>3, <3>2
        <4> QED BY <4>1
      <3> QED BY <3>1, <3>2
    <2> QED BY <2>4, <2>5
  <1>18. LinesAreTheirs'
    BY <1>1, <1>8, <1>17 DEF LinesAreTheirs
  <1>19. /\ took'[p] = took[p] \union {g} /\ took'[p] \subseteq learned' /\ took[p] \subseteq Fact
         /\ \A q \in Pass \ {p} : took'[q] = took[q] /\ took'[q] \subseteq learned'
    BY <1>1, <1>8 DEF NameStoreTypeOK
  <1>20. NameStoreTypeOK'
    <2>1. \A q \in Pass : lock' = q <=> pass'[q].at \in {"merging", "writing", "unlinking"}
      BY <1>1, <1>8, <1>12, <1>13 DEF NameStoreTypeOK
    <2>2. met' \subseteq {q \in Pass : pass'[q] # NoPass}
      BY <1>1, <1>8, <1>12, <1>13 DEF NameStoreTypeOK
    <2>3. took' \in [Pass -> SUBSET learned'] /\ crossed' \subseteq File \X Name
      <3>1. crossed \subseteq File \X Name /\ took' = [q \in Pass |-> took'[q]]
        BY <1>1, <1>8 DEF NameStoreTypeOK
      <3>2. crossed' \subseteq File \X Name
        BY <1>3, <1>8, <3>1
      <3> QED BY <1>19, <3>1, <3>2
    <2>4. learned' \subseteq Fact /\ landed' \subseteq learned' /\ unlinked' \subseteq learned'
      BY <1>1, <1>8 DEF NameStoreTypeOK
    <2> QED BY <1>1, <1>7, <1>8, <1>11, <1>16, <2>1, <2>2, <2>3, <2>4 DEF NameStoreTypeOK
  <1>21. \A l \in learned' \ learned :
             l \notin landed /\ (l \in unlinked' \/ l \in ToSet(journal'[l.file]))
    BY <1>1, <1>8, <1>17 DEF NameStoreTypeOK
  <1>22. MemoryOf(p)'
    <2> SUFFICES ASSUME NEW f \in File, NEW n \in Name, <<f, n>> \notin touched
                 PROVE  mem[f][n] = pass[p].seen[f][n]
      BY <1>1, <1>11, <1>12 DEF MemoryOf
    <2>1. <<f, n>> \notin pass[p].touched /\ ~(g.file = f /\ g.name = n)
      OBVIOUS
    <2> QED BY <1>1, <1>4, <2>1 DEF MemoryOf
  <1>23. ASSUME NEW f \in File, NEW n \in Name, <<f, n>> \in touched \ crossed'
         PROVE  Covers(mem[f][n], yaml[f][n])
    <2>1. CASE <<f, n>> = x
      <3>1. f = g.file /\ n = g.name
        BY <2>1
      <3>2. Covers(pass[p].mem[f][n], yaml[f][n])
        <4>1. CASE x \in pass[p].touched
          BY <1>2, <1>8, <1>23, <2>1, <4>1 DEF TakenOf
        <4>2. CASE x \notin pass[p].touched
          <5>1. pass[p].mem[f][n] = Loaded[f][n]
            BY <1>8, <1>23, <3>1, <4>2 DEF Crosses
          <5> QED BY <1>1, <5>1, LoadedCovers
        <4> QED BY <4>1, <4>2
      <3> QED BY <1>4, <1>10, <3>1, <3>2 DEF Covers
    <2>2. CASE <<f, n>> # x
      <3>1. <<f, n>> \in pass[p].touched \ crossed /\ ~(g.file = f /\ g.name = n)
        BY <1>8, <1>23, <2>2
      <3> QED BY <1>2, <1>4, <3>1 DEF TakenOf
    <2> QED BY <2>1, <2>2
  <1>24. TakenOf(p)'
    <2>1. ASSUME NEW l \in took'[p]
          PROVE  /\ <<l.file, l.name>> \in touched
                 /\ <<l.file, l.name>> \notin crossed' => Knows(mem, l)
      <3>1. CASE l = g
        BY <1>9, <3>1
      <3>2. CASE l \in took[p]
        BY <1>2, <1>8, <1>9, <1>19, <3>2 DEF TakenOf
      <3> QED BY <1>19, <3>1, <3>2
    <2> QED BY <1>8, <1>11, <1>12, <1>23, <2>1 DEF TakenOf, Knows
  <1>25. ASSUME NEW q \in Live \ {p}
         PROVE  pass'[p].touched \cap pass[q].touched \subseteq crossed'
    <2> SUFFICES ASSUME NEW y \in touched \cap pass[q].touched  PROVE y \in crossed'
      BY <1>11, <1>12
    <2>1. CASE y \in pass[p].touched
      BY <1>8, <1>14, <2>1
    <2>2. CASE y = x
      <3>1. q \in Others(p)
        BY DEF Others, Live
      <3>2. Crosses(p, g.file, g.name)
        BY <2>2, <3>1 DEF Crosses, TouchedBeside
      <3> QED BY <1>8, <2>2, <3>2
    <2> QED BY <2>1, <2>2
  <1>26. ASSUME p \in Live' \ met'  PROVE LoneOf(p)'
    <2>1. LoneOf(p) /\ Others(p)' = {} /\ h # "orphan"
      BY <1>1, <1>14, <1>26 DEF LoneOf
    <2>2. ASSUME NEW f \in File, NEW n \in Name  PROVE mem[f][n] = Loaded'[f][n]
      <3>1. pass[p].mem[f][n] = Loaded[f][n]
        BY <1>1, <2>1 DEF LoneOf
      <3>2. /\ Loaded[f][n] = Replay(yaml, journal[f])[f][n]
            /\ Loaded'[f][n] = Replay(yaml, journal'[f])[f][n]
        BY <1>8 DEF Loaded
      <3>3. journal'[f] = IF g.file = f THEN Append(journal[f], g) ELSE journal[f]
        BY <1>16, <2>1
      <3>4. yaml \in Records /\ journal[f] \in Seq(Fact)
        BY <1>1 DEF NameStoreTypeOK
      <3> QED BY <1>4, <3>1, <3>2, <3>3, <3>4, ReplayMore
    <2>3. \A f \in File : handle[f] # "orphan"
      BY <1>6, <2>1 DEF LoneOf
    <2>4. pass[p].seen = yaml
      BY <1>1, <2>1 DEF LoneOf
    <2> QED BY <1>8, <1>11, <1>12, <1>13, <2>1, <2>2, <2>3, <2>4 DEF LoneOf
  <1>27. \A q \in Pass \ {p} : pass[q].at \in {"reading", "replaying"} => lock' = None
    BY <1>1, <1>8 DEF LoadIsOfDisk, LoadOf
  <1>28. unlinked \subseteq unlinked' /\ crossed \subseteq crossed'
    BY <1>8
  <1> QED BY <1>8, <1>12, <1>11, <1>13, <1>14, <1>17, <1>18, <1>19, <1>20, <1>21, <1>22,
             <1>24, <1>25, <1>26, <1>27, <1>28, FilesRest

-----------------------------------------------------------------------------
(* Steps under the lock.                                                   *)

LEMMA Locked ==
    ASSUME NInv, NEW p \in Pass, pass[p].at \in {"merging", "writing", "unlinking"}
    PROVE  /\ lock = p /\ p # None
           /\ \A q \in Pass \ {p} : pass[q].at \in {"off", "running"}
  <1>1. NameStoreTypeOK /\ LoadIsOfDisk /\ p # None
    BY StoreAssumption DEF NInv, KInv
  <1>2. lock = p
    BY <1>1 DEF NameStoreTypeOK
  <1>3. ASSUME NEW q \in Pass \ {p}
        PROVE  pass[q].at \in {"off", "running"}
    <2>1. pass[q].at \notin {"reading", "replaying"}
      BY <1>1, <1>2 DEF LoadIsOfDisk, LoadOf
    <2>2. pass[q].at \notin {"merging", "writing", "unlinking"}
      BY <1>1, <1>2 DEF NameStoreTypeOK
    <2>3. pass[q] \in {NoPass} \union Process
      BY <1>1 DEF NameStoreTypeOK
    <2> QED BY <2>1, <2>2, <2>3 DEF NoPass, Process
  <1> QED BY <1>1, <1>2, <1>3

LEMMA OrphanedIs ==
    ASSUME NameStoreTypeOK, NEW q \in Pass, pass[q].at \in {"off", "running"},
           NEW f \in File, NEW r, r = Orphaned(pass[q], f)
    PROVE  /\ r \in {NoPass} \union Process
           /\ r.at = pass[q].at /\ (r = NoPass <=> pass[q] = NoPass)
           /\ pass[q].at = "running" =>
                 /\ r.next = pass[q].next /\ r.mem = pass[q].mem
                 /\ r.touched = pass[q].touched /\ r.seen = pass[q].seen
                 /\ \A g \in File \ {f} : r.handle[g] = pass[q].handle[g]
                 /\ r.handle[f] # "orphan" => pass[q].handle[f] = "closed"
  <1>1. pass[q] \in {NoPass} \union Process /\ NoPass.at = "off"
    BY DEF NameStoreTypeOK, NoPass
  <1>2. CASE pass[q].at = "off"
    <2>1. r = pass[q]
      BY <1>2 DEF Orphaned
    <2> QED BY <1>1, <1>2, <2>1 DEF NoPass, Process
  <1>3. CASE pass[q].at = "running"
    <2>1. pass[q] \in Process /\ pass[q].handle \in [File -> {"closed", "open", "orphan"}]
      BY <1>1, <1>3 DEF NoPass, Process
    <2>2. CASE pass[q].handle[f] = "open"
      <3>1. r = [pass[q] EXCEPT !.handle[f] = "orphan"]
        BY <1>3, <2>2 DEF Orphaned
      <3>2. r.handle = [pass[q].handle EXCEPT ![f] = "orphan"]
        BY <2>1, <3>1 DEF Process
      <3>3. r \in Process
        BY <2>1, <3>1 DEF Process
      <3>4. /\ r.at = pass[q].at /\ r.next = pass[q].next /\ r.mem = pass[q].mem
            /\ r.touched = pass[q].touched /\ r.seen = pass[q].seen
        BY <2>1, <3>1 DEF Process
      <3> QED BY <1>1, <1>3, <2>1, <3>2, <3>3, <3>4
    <2>3. CASE pass[q].handle[f] # "open"
      <3>1. r = pass[q]
        BY <2>3 DEF Orphaned
      <3> QED BY <1>1, <1>3, <2>1, <2>3, <3>1
    <2> QED BY <2>2, <2>3
  <1> QED BY <1>2, <1>3

\* What the file says of a name, and what is on its way there, stays known.
LEMMA WriteYamlKeeps ==
    ASSUME NInv, NEW p \in Pass, WriteYaml(p)
    PROVE  NInv'
  <1> DEFINE k == pass[p].next
             f == Files[k]
             mem == pass[p].mem
             then == Onward(p, pass[p], "unlinking")
             r == IF then.at = "unlinking"
                  THEN [then EXCEPT !.handle = [g \in File |-> "closed"]] ELSE then
  <1>1. /\ NameStoreTypeOK /\ KInv /\ pass[p].at = "writing" /\ WrittenOf(p) /\ FilesAreSwept
        /\ TakenIsKnown /\ TouchedApart
    BY DEF NInv, KInv, WrittenIsMemory, WriteYaml
  <1>2. /\ pass[p] \in Process /\ p \in Live /\ lock = p /\ TakenOf(p)
        /\ \A q \in Pass \ {p} : pass[q].at \in {"off", "running"}
    BY <1>1, AtWork, Locked DEF TakenIsKnown
  <1>3. k \in DOMAIN Files /\ DOMAIN Files = 1 .. Len(Files) /\ f \in File /\ k \in Nat
    BY <1>2, FileFacts DEF Process
  <1>4. /\ yaml \in Records /\ mem \in Records
        /\ \A g \in File : journal[g] \in Seq(Fact)
    BY <1>1, <1>2 DEF NameStoreTypeOK, Process
  <1>5. /\ yaml' = [yaml EXCEPT ![f] = mem[f]] /\ pass' = [pass EXCEPT ![p] = r]
        /\ UNCHANGED <<journal, lock, learned, landed, took, unlinked, crossed, met>>
    BY DEF WriteYaml, traces
  <1>6. /\ yaml' \in Records /\ yaml'[f] = mem[f]
        /\ \A g \in File \ {f} : yaml'[g] = yaml[g]
    BY <1>3, <1>4, <1>5 DEF Records
  <1>7. \A g \in File, n \in Name :
            /\ Swept(mem[g][n]) = mem[g][n]
            /\ <<g, n>> \notin pass[p].touched => mem[g][n] = yaml[g][n]
    BY <1>1 DEF WrittenOf
  <1>8. \A i \in DOMAIN Files, n \in Name : i < k => mem[Files[i]][n] = yaml[Files[i]][n]
    BY <1>1 DEF WrittenOf
  <1>9. /\ r \in Process /\ r.mem = mem /\ r.touched = pass[p].touched
        /\ \/ r.at = "unlinking" /\ r.next = 1 /\ k = Len(Files)
              /\ r.handle = [g \in File |-> "closed"]
           \/ r.at = "writing" /\ r.next = k + 1 /\ k # Len(Files)
              /\ r.handle = pass[p].handle
    <2>1. CASE k = Len(Files)
      <3>1. then \in Process /\ then = [pass[p] EXCEPT !.at = "unlinking", !.next = 1]
        BY <1>2, <1>3, <2>1, OnwardIs
      <3>2. r = [then EXCEPT !.handle = [g \in File |-> "closed"]]
        BY <1>2, <3>1 DEF Process
      <3>3. r \in Process
        BY <3>1, <3>2 DEF Process
      <3> QED BY <1>2, <2>1, <3>1, <3>2, <3>3 DEF Process
    <2>2. CASE k # Len(Files)
      <3>1. then \in Process /\ then = [pass[p] EXCEPT !.next = k + 1]
        BY <1>2, <1>3, <2>2, OnwardIs
      <3>2. /\ then.at = "writing" /\ then.mem = mem /\ then.touched = pass[p].touched
            /\ then.handle = pass[p].handle /\ then.next = k + 1
        BY <1>1, <1>2, <3>1 DEF Process
      <3> QED BY <2>2, <3>1, <3>2
    <2> QED BY <2>1, <2>2
  <1> HIDE DEF r, then
  <1>10. pass'[p] = r /\ \A q \in Pass \ {p} : pass'[q] = pass[q]
    BY <1>1, <1>5, Moved
  <1>11. r # NoPass /\ r.at \notin {"off", "reading", "replaying", "running", "merging"}
    BY <1>9 DEF NoPass
  <1>12. /\ Live' = Live /\ p \in Live' /\ Live' \ met' \subseteq {p}
         /\ p \in Live' \ met' => LoneOf(p) /\ Others(p)' = {}
    BY <1>2, <1>5, <1>10, <1>11, StepsOn
  <1>13. NameStoreTypeOK'
    <2>1. \A q \in Pass : lock' = q <=> pass'[q].at \in {"merging", "writing", "unlinking"}
      BY <1>1, <1>2, <1>5, <1>9, <1>10 DEF NameStoreTypeOK
    <2>2. met' \subseteq {q \in Pass : pass'[q] # NoPass}
      BY <1>1, <1>5, <1>10, <1>11 DEF NameStoreTypeOK
    <2> QED BY <1>1, <1>5, <1>6, <1>9, <2>1, <2>2 DEF NameStoreTypeOK
  <1> HIDE DEF f, mem
  <1>14. ASSUME NEW g \in File, NEW n \in Name
         PROVE  /\ yaml'[g][n] = IF g = f THEN mem[g][n] ELSE yaml[g][n]
                /\ <<g, n>> \notin pass[p].touched => yaml'[g][n] = yaml[g][n]
                /\ <<g, n>> \notin crossed => Covers(yaml'[g][n], yaml[g][n])
    <2>1. yaml'[g][n] = IF g = f THEN mem[g][n] ELSE yaml[g][n]
      BY <1>6
    <2>2. <<g, n>> \notin pass[p].touched => yaml'[g][n] = yaml[g][n]
      BY <1>7, <2>1
    <2>3. Covers(yaml[g][n], yaml[g][n])
      BY DEF Covers
    <2>4. <<g, n>> \in pass[p].touched \ crossed => Covers(mem[g][n], yaml[g][n])
      BY <1>2 DEF TakenOf, mem
    <2> QED BY <2>1, <2>2, <2>3, <2>4
  <1>15. ASSUME NEW g \in Fact, Knows(yaml, g), <<g.file, g.name>> \notin crossed
         PROVE  Knows(yaml', g)
    <2>1. g.file \in File /\ g.name \in Name
      BY FactTypes
    <2>2. Covers(yaml'[g.file][g.name], yaml[g.file][g.name])
      BY <1>14, <1>15, <2>1
    <2> QED BY <1>15, <2>2 DEF Covers, Knows, Values
  <1>16. FilesAreSwept'
    BY <1>1, <1>7, <1>14 DEF FilesAreSwept
  <1>17. LinesAreTheirs'
    BY <1>1, <1>5 DEF KInv, LinesAreTheirs
  <1>18. LoadIsOfDisk'
    <2>1. \A q \in Pass : pass'[q].at \notin {"reading", "replaying"}
      BY <1>2, <1>10, <1>11
    <2> QED BY <2>1 DEF LoadIsOfDisk
  <1>19. MemoryIsSeen'
    <2> SUFFICES ASSUME NEW q \in Pass, pass'[q].at \in {"running", "merging"}
                 PROVE  MemoryOf(q)'
      BY DEF MemoryIsSeen
    <2>1. q # p /\ pass'[q] = pass[q]
      BY <1>10, <1>11
    <2>2. MemoryOf(q)
      BY <1>1, <2>1 DEF KInv, MemoryIsSeen
    <2> QED BY <2>1, <2>2 DEF MemoryOf
  <1>20. \A i \in DOMAIN Files, n \in Name : i <= k => mem[Files[i]][n] = yaml'[Files[i]][n]
    <2> SUFFICES ASSUME NEW i \in DOMAIN Files, NEW n \in Name, i <= k
                 PROVE  mem[Files[i]][n] = yaml'[Files[i]][n]
      OBVIOUS
    <2>1. Files[i] \in File /\ (i # k => i < k)
      BY <1>3, FileFacts
    <2>2. i = k => Files[i] = f
      BY DEF f
    <2> QED BY <1>8, <1>14, <2>1, <2>2
  <1>21. WrittenIsMemory'
    <2> SUFFICES ASSUME NEW q \in Pass, pass'[q].at \in {"writing", "unlinking"}
                 PROVE  WrittenOf(q)'
      BY DEF WrittenIsMemory
    <2>1. q = p
      BY <1>2, <1>10
    <2>2. \A i \in DOMAIN Files : (k = Len(Files) => i <= k) /\ (i < k + 1 => i <= k)
      BY <1>3
    <2>3. \A i \in DOMAIN Files, n \in Name : r.at = "unlinking" \/ i < r.next =>
              mem[Files[i]][n] = yaml'[Files[i]][n]
      BY <1>9, <1>20, <2>2
    <2>4. \A g \in File, n \in Name :
              <<g, n>> \notin pass[p].touched => mem[g][n] = yaml'[g][n]
      BY <1>7, <1>14
    <2> QED BY <1>7, <1>9, <1>10, <2>1, <2>3, <2>4 DEF WrittenOf, mem
  <1>22. TakenIsKnown'
    <2>1. ASSUME NEW q \in Live, NEW g \in File, NEW n \in Name,
                 <<g, n>> \in pass[q].touched \ crossed
          PROVE  Covers(pass[q].mem[g][n], yaml'[g][n])
      <3>1. TakenOf(q)
        BY <1>1 DEF TakenIsKnown
      <3>2. Covers(pass[q].mem[g][n], yaml[g][n])
        BY <2>1, <3>1 DEF TakenOf
      <3>3. CASE q = p
        <4>1. yaml'[g][n] \in {mem[g][n], yaml[g][n]} /\ Covers(mem[g][n], mem[g][n])
          BY <1>14 DEF Covers
        <4> QED BY <3>2, <3>3, <4>1 DEF mem
      <3>4. CASE q # p
        <4>1. <<g, n>> \notin pass[p].touched
          BY <1>1, <1>2, <2>1, <3>4 DEF TouchedApart
        <4> QED BY <1>14, <3>2, <4>1
      <3> QED BY <3>3, <3>4
    <2>2. ASSUME NEW q \in Live  PROVE TakenOf(q)'
      <3>1. /\ pass'[q].mem = pass[q].mem /\ pass'[q].touched = pass[q].touched
            /\ took'[q] = took[q] /\ TakenOf(q)
        BY <1>1, <1>5, <1>9, <1>10 DEF TakenIsKnown, Live, mem
      <3> QED BY <1>5, <2>1, <3>1 DEF TakenOf, Knows
    <2>3. \A q \in Pass \ Live : took'[q] = {}
      BY <1>1, <1>5 DEF TakenIsKnown
    <2> QED BY <1>12, <2>2, <2>3 DEF TakenIsKnown
  <1>23. TouchedApart'
    <2>1. \A q \in Live : pass'[q].touched = pass[q].touched
      BY <1>9, <1>10 DEF Live
    <2> QED BY <1>1, <1>5, <1>12, <2>1 DEF TouchedApart
  <1>24. LearnedIsPlaced'
    <2> SUFFICES ASSUME NEW g \in learned, <<g.file, g.name>> \notin crossed
                 PROVE  Placed(g)'
      BY <1>5 DEF LearnedIsPlaced
    <2>1. Placed(g) /\ g \in Fact
      BY <1>1 DEF KInv, LearnedIsPlaced, NameStoreTypeOK
    <2> QED BY <1>5, <1>15, <2>1 DEF Placed
  <1>25. LandedIsKept'
    <2>1. landed \subseteq Fact
      BY <1>1 DEF NameStoreTypeOK
    <2>2. \A g \in landed : <<g.file, g.name>> \in crossed \/ Knows(yaml', g)
      BY <1>1, <1>15, <2>1 DEF KInv, LandedIsKept
    <2> QED BY <1>5, <2>2 DEF LandedIsKept, Knows
  <1>26. LoneIsExact'
    <2> SUFFICES ASSUME p \in Live' \ met'  PROVE LoneOf(p)'
      BY <1>12 DEF LoneIsExact
    <2>1. LoneOf(p) /\ Others(p)' = {}
      BY <1>12
    <2>2. ASSUME NEW g \in File, NEW n \in Name  PROVE Swept(Loaded'[g][n]) = mem[g][n]
      <3>1. mem[g][n] = Swept(Replay(yaml, journal[g])[g][n])
        BY <1>1, <2>1 DEF LoneOf, Loaded, mem
      <3>2. Loaded'[g][n] = Replay(yaml', journal[g])[g][n]
        BY <1>5 DEF Loaded
      <3>3. CASE g = f
        <4>1. yaml'[g][n] = Swept(Replay(yaml, journal[g])[g][n])
          BY <1>14, <3>1, <3>3
        <4>2. Swept(Replay(yaml', journal[g])[g][n]) = yaml'[g][n]
          BY <1>4, <1>6, <4>1, CompactedAgain
        <4> QED BY <3>1, <3>2, <4>1, <4>2
      <3>4. CASE g # f
        <4>1. yaml'[g][n] = yaml[g][n]
          BY <1>14, <3>4
        <4>2. Replay(yaml', journal[g])[g][n] = Replay(yaml, journal[g])[g][n]
          BY <1>4, <1>6, <4>1, ReplayIsLocal
        <4> QED BY <3>1, <3>2, <4>2
      <3> QED BY <3>3, <3>4
    <2>3. \A g \in File : r.handle[g] # "orphan"
      BY <1>9, <2>1 DEF LoneOf
    <2>4. \A i \in DOMAIN Files : ~(i < 1)
      BY FileFacts
    <2>5. r.at = "unlinking" => r.next = 1
      BY <1>9
    <2> QED BY <1>9, <1>10, <1>11, <2>1, <2>2, <2>3, <2>4, <2>5 DEF LoneOf
  <1> QED BY <1>13, <1>16, <1>17, <1>18, <1>19, <1>21, <1>22, <1>23, <1>24, <1>25, <1>26
          DEF NInv, KInv


\* A journal goes, and what only it held of a pass that never took it.
LEMMA UnlinkKeeps ==
    ASSUME NInv, NEW p \in Pass, Unlink(p)
    PROVE  NInv'
  <1> DEFINE k == pass[p].next
             f == Files[k]
             mem == pass[p].mem
             clear == Others(p) = {} /\ \A g \in File : journal'[g] = <<>>
  <1>1. /\ NameStoreTypeOK /\ KInv /\ pass[p].at = "unlinking" /\ WrittenOf(p) /\ FilesAreSwept
        /\ TakenIsKnown /\ LandedIsKept
    BY DEF NInv, KInv, WrittenIsMemory, Unlink
  <1>2. /\ pass[p] \in Process /\ p \in Live /\ lock = p /\ p # None /\ TakenOf(p)
        /\ \A q \in Pass \ {p} : pass[q].at \in {"off", "running"}
    BY <1>1, AtWork, Locked DEF TakenIsKnown
  <1>3. k \in DOMAIN Files /\ DOMAIN Files = 1 .. Len(Files) /\ f \in File /\ k \in Nat
    BY <1>2, FileFacts DEF Process
  <1>4. /\ yaml \in Records /\ mem \in Records
        /\ pass[p].handle = [g \in File |-> "closed"]
        /\ journal \in [File -> Seq(Fact)]
    BY <1>1, <1>2 DEF NameStoreTypeOK, Process, WrittenOf
  <1>5. \A g \in File, n \in Name :
            mem[g][n] = yaml[g][n] /\ Swept(yaml[g][n]) = yaml[g][n]
    <2> SUFFICES ASSUME NEW g \in File, NEW n \in Name
                 PROVE  mem[g][n] = yaml[g][n] /\ Swept(yaml[g][n]) = yaml[g][n]
      OBVIOUS
    <2>1. PICK i \in DOMAIN Files : Files[i] = g
      BY FileFacts
    <2> QED BY <1>1, <2>1 DEF WrittenOf, FilesAreSwept
  <1>6. PICK r : /\ pass' = [q \in Pass |-> IF q = p THEN r ELSE Orphaned(pass[q], f)]
                 /\ r = NoPass \/ r \in Process
                 /\ \/ r = NoPass /\ k = Len(Files) /\ lock' = None
                       /\ landed' = landed \union took[p]
                       /\ took' = [took EXCEPT ![p] = {}] /\ met' = met \ {p}
                    \/ r \in Process /\ r.at = "running" /\ r.next = 1 /\ r.mem = mem
                       /\ r.touched = pass[p].touched /\ r.seen = yaml
                       /\ r.handle = pass[p].handle /\ k = Len(Files) /\ lock' = None
                       /\ landed' = landed \union took[p] /\ took' = took
                       /\ met' = IF clear THEN met \ {p} ELSE met
                    \/ r \in Process /\ r.at = "unlinking" /\ r.next = k + 1 /\ r.mem = mem
                       /\ r.touched = pass[p].touched /\ r.handle = pass[p].handle
                       /\ k # Len(Files) /\ lock' = p /\ landed' = landed
                       /\ took' = took /\ met' = met
    <2> DEFINE then == Onward(p, pass[p], "running")
               last == then.at = "running"
               mine(end) == IF last /\ end THEN NoPass
                            ELSE IF last THEN [then EXCEPT !.seen = yaml] ELSE then
    <2>1. PICK end \in BOOLEAN :
              /\ pass' = [q \in Pass |-> IF q = p THEN mine(end) ELSE Orphaned(pass[q], f)]
              /\ lock' = IF last THEN None ELSE p
              /\ landed' = IF last THEN landed \union took[p] ELSE landed
              /\ took' = IF last /\ end THEN [took EXCEPT ![p] = {}] ELSE took
              /\ met' = IF last /\ (end \/ clear) THEN met \ {p} ELSE met
      BY DEF Unlink
    <2> HIDE DEF clear
    <2>2. CASE k = Len(Files)
      <3>1. then \in Process /\ then = [pass[p] EXCEPT !.at = "running", !.next = 1]
        BY <1>2, <1>3, <2>2, OnwardIs
      <3>2. /\ then.at = "running" /\ then.mem = mem /\ then.touched = pass[p].touched
            /\ then.handle = pass[p].handle /\ then.next = 1
        BY <1>2, <3>1 DEF Process
      <3> HIDE DEF then
      <3>3. CASE end
        BY <2>1, <2>2, <3>2, <3>3
      <3>4. CASE ~end
        <4>1. [then EXCEPT !.seen = yaml] \in Process
          BY <1>4, <3>1 DEF Process
        <4> DEFINE x == [then EXCEPT !.seen = yaml]
        <4>2. /\ x.at = "running" /\ x.mem = mem /\ x.touched = pass[p].touched
              /\ x.handle = pass[p].handle /\ x.next = 1 /\ x.seen = yaml
          BY <3>1, <3>2 DEF Process
        <4>3. mine(end) = x
          BY <3>2, <3>4
        <4> HIDE DEF x, mine
        <4> QED BY <2>1, <2>2, <3>2, <3>4, <4>1, <4>2, <4>3 DEF x
      <3> QED BY <3>3, <3>4
    <2>3. CASE k # Len(Files)
      <3>1. then \in Process /\ then = [pass[p] EXCEPT !.next = k + 1]
        BY <1>2, <1>3, <2>3, OnwardIs
      <3>2. /\ then.at = "unlinking" /\ then.mem = mem /\ then.touched = pass[p].touched
            /\ then.handle = pass[p].handle /\ then.next = k + 1
        BY <1>1, <1>2, <3>1 DEF Process
      <3> HIDE DEF then
      <3> QED BY <2>1, <2>3, <3>1, <3>2
    <2> QED BY <2>2, <2>3
  <1>7. /\ journal' = [journal EXCEPT ![f] = <<>>] /\ UNCHANGED <<yaml, learned, crossed>>
        /\ unlinked' = unlinked \union (ToSet(journal[f]) \ took[p])
    BY DEF Unlink
  <1> HIDE DEF f, mem, clear
  <1>8. /\ journal' \in [File -> Seq(Fact)] /\ journal'[f] = <<>>
        /\ \A g \in File \ {f} : journal'[g] = journal[g]
        /\ ToSet(journal'[f]) = {}
        /\ \A g \in File : ToSet(journal'[g]) \subseteq ToSet(journal[g])
    <2>1. /\ journal' \in [File -> Seq(Fact)] /\ journal'[f] = <<>>
          /\ \A g \in File \ {f} : journal'[g] = journal[g]
      BY <1>3, <1>4, <1>7, EmptySeq
    <2>2. ToSet(journal'[f]) = {}
      BY <2>1, NoLines
    <2> QED BY <2>1, <2>2
  <1>9. pass'[p] = r /\ \A q \in Pass \ {p} : pass'[q] = Orphaned(pass[q], f)
    BY <1>6
  <1>10. ASSUME NEW q \in Pass \ {p}
         PROVE  /\ pass'[q] \in {NoPass} \union Process /\ pass'[q].at = pass[q].at
                /\ (pass'[q] = NoPass <=> pass[q] = NoPass) /\ took'[q] = took[q]
                /\ pass[q] # NoPass =>
                      /\ pass'[q].next = pass[q].next /\ pass'[q].mem = pass[q].mem
                      /\ pass'[q].touched = pass[q].touched /\ pass'[q].seen = pass[q].seen
    <2>1. pass[q] # NoPass => pass[q].at = "running"
      BY <1>1, <1>2 DEF NameStoreTypeOK, Process, NoPass
    <2>2. took'[q] = took[q]
      BY <1>1, <1>6 DEF NameStoreTypeOK
    <2> QED BY <1>1, <1>2, <1>3, <1>9, <2>1, <2>2, OrphanedIs
  <1>11. r.at \notin {"reading", "replaying", "merging", "writing"}
    BY <1>6 DEF NoPass
  <1>12. /\ \A q \in Pass \ {p} : q \in Live' <=> q \in Live
         /\ p \in Live' <=> r # NoPass
         /\ Others(p)' = Others(p)
    BY <1>9, <1>10 DEF Live, Others
  <1>13. /\ p \in Live' => r \in Process /\ r.mem = mem /\ r.touched = pass[p].touched
                           /\ r.handle = pass[p].handle /\ took'[p] = took[p]
         /\ p \notin Live' => took'[p] = {}
    <2>1. CASE r = NoPass
      BY <1>1, <1>6, <1>12, <2>1 DEF NameStoreTypeOK, NoPass
    <2>2. CASE r # NoPass
      BY <1>6, <1>12, <2>2
    <2> QED BY <2>1, <2>2
  <1>14. ASSUME NEW g \in took[p], <<g.file, g.name>> \notin crossed  PROVE Knows(yaml, g)
    <2>1. g \in Fact /\ g.file \in File /\ g.name \in Name
      BY <1>1, FactTypes DEF NameStoreTypeOK
    <2>2. Knows(mem, g)
      BY <1>2, <1>14 DEF TakenOf, mem
    <2> QED BY <1>5, <2>1, <2>2 DEF Knows
  <1>15. landed' \subseteq landed \union took[p] /\ landed \subseteq landed'
    BY <1>6
  <1>16. NameStoreTypeOK'
    <2>1. pass' \in [Pass -> {NoPass} \union Process]
      BY <1>6, <1>9, <1>10
    <2>2. \A q \in Pass : lock' = q <=> pass'[q].at \in {"merging", "writing", "unlinking"}
      <3>1. lock' = p <=> r.at \in {"merging", "writing", "unlinking"}
        BY <1>2, <1>6, <1>11 DEF NoPass
      <3>2. \A q \in Pass \ {p} : lock' # q
        BY <1>2, <1>6, StoreAssumption
      <3>3. \A q \in Pass \ {p} : pass'[q].at \in {"off", "running"}
        BY <1>2, <1>10
      <3> QED BY <1>9, <3>1, <3>2, <3>3
    <2>3. lock' \in Pass \union {None}
      BY <1>6
    <2>4. /\ took' \in [Pass -> SUBSET learned] /\ landed' \subseteq learned
          /\ unlinked' \subseteq learned
      <3>1. took \in [Pass -> SUBSET learned]
        BY <1>1 DEF NameStoreTypeOK
      <3>2. took' \in [Pass -> SUBSET learned]
        BY <1>6, <3>1
      <3>3. landed' \subseteq learned
        BY <1>1, <1>15, <3>1 DEF NameStoreTypeOK
      <3>4. ToSet(journal[f]) \subseteq learned
        BY <1>1, <1>3 DEF KInv, LinesAreTheirs
      <3> QED BY <1>1, <1>7, <3>2, <3>3, <3>4 DEF NameStoreTypeOK
    <2>5. met' \subseteq {q \in Pass : pass'[q] # NoPass}
      <3>1. ASSUME NEW q \in met'  PROVE q \in Pass /\ pass'[q] # NoPass
        <4>1. q \in met /\ q \in Pass /\ pass[q] # NoPass
          BY <1>1, <1>6, <3>1 DEF NameStoreTypeOK
        <4>2. CASE q = p
          BY <1>6, <1>9, <3>1, <4>1, <4>2 DEF NoPass
        <4>3. CASE q # p
          BY <1>10, <4>1, <4>3
        <4> QED BY <4>2, <4>3
      <3> QED BY <3>1
    <2> QED BY <1>1, <1>7, <1>8, <2>1, <2>2, <2>3, <2>4, <2>5 DEF NameStoreTypeOK
  <1>17. FilesAreSwept' /\ LinesAreTheirs'
    BY <1>1, <1>7, <1>8 DEF KInv, FilesAreSwept, LinesAreTheirs
  <1>18. LoadIsOfDisk'
    <2>1. \A q \in Pass : pass'[q].at \notin {"reading", "replaying"}
      BY <1>2, <1>9, <1>10, <1>11
    <2> QED BY <2>1 DEF LoadIsOfDisk
  <1>19. MemoryIsSeen'
    <2> SUFFICES ASSUME NEW q \in Pass, pass'[q].at \in {"running", "merging"}
                 PROVE  MemoryOf(q)'
      BY DEF MemoryIsSeen
    <2>1. CASE q = p
      <3>1. r.next = 1 /\ r.seen = yaml /\ r.mem = mem
        BY <1>6, <1>9, <2>1 DEF NoPass
      <3> QED BY <1>5, <1>9, <2>1, <3>1 DEF MemoryOf
    <2>2. CASE q # p
      <3>1. pass[q].at = "running" /\ MemoryOf(q) /\ pass[q] # NoPass
        BY <1>1, <1>2, <1>10, <2>2 DEF KInv, MemoryIsSeen, NoPass
      <3> QED BY <1>10, <2>2, <3>1 DEF MemoryOf
    <2> QED BY <2>1, <2>2
  <1>20. WrittenIsMemory'
    <2> SUFFICES ASSUME NEW q \in Pass, pass'[q].at \in {"writing", "unlinking"}
                 PROVE  WrittenOf(q)'
      BY DEF WrittenIsMemory
    <2>1. q = p
      BY <1>2, <1>10
    <2>2. r.mem = mem /\ r.handle = pass[p].handle
      BY <1>6, <1>9, <2>1 DEF NoPass
    <2>3. \A i \in DOMAIN Files, n \in Name : mem[Files[i]][n] = yaml[Files[i]][n]
      BY <1>5, FileFacts
    <2> QED BY <1>4, <1>5, <1>7, <1>9, <2>1, <2>2, <2>3 DEF WrittenOf
  <1>21. TakenIsKnown'
    <2>1. ASSUME NEW q \in Live'  PROVE TakenOf(q)'
      <3>1. /\ pass'[q].mem = pass[q].mem /\ pass'[q].touched = pass[q].touched
            /\ took'[q] = took[q] /\ q \in Live
        <4>1. CASE q = p
          BY <1>2, <1>9, <1>13, <2>1, <4>1 DEF mem
        <4>2. CASE q # p
          <5>1. q \in Pass \ {p} /\ pass[q] # NoPass /\ q \in Live
            BY <1>12, <2>1, <4>2 DEF Live
          <5> QED BY <1>10, <5>1
        <4> QED BY <4>1, <4>2
      <3>2. TakenOf(q)
        BY <1>1, <3>1 DEF TakenIsKnown
      <3> QED BY <1>7, <3>1, <3>2 DEF TakenOf, Knows
    <2>2. ASSUME NEW q \in Pass \ Live'  PROVE took'[q] = {}
      BY <1>1, <1>10, <1>12, <1>13 DEF TakenIsKnown
    <2> QED BY <2>1, <2>2 DEF TakenIsKnown
  <1>22. TouchedApart'
    <2>1. \A q \in Live' : q \in Live /\ pass'[q].touched = pass[q].touched
      <3> SUFFICES ASSUME NEW q \in Live'
                   PROVE  q \in Live /\ pass'[q].touched = pass[q].touched
        OBVIOUS
      <3>1. CASE q = p
        BY <1>2, <1>9, <1>13, <3>1
      <3>2. CASE q # p
        <4>1. q \in Pass \ {p} /\ pass[q] # NoPass /\ q \in Live
          BY <1>12, <3>2 DEF Live
        <4> QED BY <1>10, <4>1
      <3> QED BY <3>1, <3>2
    <2>2. TouchedApart
      BY <1>1 DEF KInv
    <2> QED BY <1>7, <2>1, <2>2 DEF TouchedApart
  <1>23. ASSUME NEW g \in landed', <<g.file, g.name>> \notin crossed  PROVE Knows(yaml, g)
    BY <1>1, <1>14, <1>15, <1>23 DEF LandedIsKept
  <1>24. LandedIsKept'
    BY <1>7, <1>23 DEF LandedIsKept, Knows
  <1>25. LearnedIsPlaced'
    <2> SUFFICES ASSUME NEW g \in learned, <<g.file, g.name>> \notin crossed
                 PROVE  Knows(yaml, g) \/ g \in ToSet(journal'[g.file]) \/ g \in unlinked' \ landed'
      BY <1>7 DEF LearnedIsPlaced, Placed, Knows
    <2>1. Placed(g) /\ g.file \in File
      BY <1>1, FactTypes DEF KInv, LearnedIsPlaced, NameStoreTypeOK
    <2>2. CASE g \in landed'
      BY <1>23, <2>2
    <2>3. CASE g \in unlinked /\ g \notin landed'
      BY <1>7, <2>3
    <2>4. CASE g \in ToSet(journal[g.file]) /\ g \notin landed'
      <3>1. CASE g.file # f
        BY <1>8, <2>1, <2>4, <3>1
      <3>2. CASE g.file = f /\ g \in took[p]
        BY <1>14, <3>2
      <3>3. CASE g.file = f /\ g \notin took[p]
        BY <1>7, <2>4, <3>3
      <3> QED BY <3>1, <3>2, <3>3
    <2> QED BY <2>1, <2>2, <2>3, <2>4 DEF Placed
  <1>26. LoneIsExact'
    <2>1. Live' \ met' \subseteq {p}
      <3> SUFFICES ASSUME NEW q \in Live', q # p  PROVE q \in met'
        OBVIOUS
      <3>1. q \in Live
        BY <1>12 DEF Live
      <3>2. q \in met
        BY <1>2, <3>1, Beside
      <3> QED BY <1>6, <3>2
    <2> SUFFICES ASSUME p \in Live' \ met'  PROVE LoneOf(p)'
      BY <2>1 DEF LoneIsExact
    <2>2. p \notin met => LoneOf(p)
      BY <1>2 DEF NInv, LoneIsExact
    <2>3. p \notin met => \A i \in DOMAIN Files : i <= k => journal'[Files[i]] = <<>>
      <3> SUFFICES ASSUME p \notin met, NEW i \in DOMAIN Files, i <= k
                   PROVE  journal'[Files[i]] = <<>>
        OBVIOUS
      <3>1. CASE i = k
        BY <1>8, <3>1 DEF f
      <3>2. CASE i # k
        <4>1. i < k /\ Files[i] \in File
          BY <1>3, <3>2, FileFacts
        <4>2. journal[Files[i]] = <<>>
          BY <1>1, <2>2, <4>1 DEF LoneOf
        <4> QED BY <1>8, <4>1, <4>2
      <3> QED BY <3>1, <3>2
    <2>4. \A g \in File, n \in Name : Loaded'[g][n] = Replay(yaml, journal'[g])[g][n]
      BY <1>7 DEF Loaded
    <2>5. \A g \in File, n \in Name : journal'[g] = <<>> => Loaded'[g][n] = mem[g][n]
      BY <1>5, <2>4, ReplayNothing
    <2>6. \A g \in File : r.handle[g] # "orphan"
      BY <1>4, <1>13
    <2>7. CASE r.at = "running"
      <3>1. r.seen = yaml /\ r.mem = mem /\ k = Len(Files) /\ (p \in met => clear)
        BY <1>2, <1>6, <2>7 DEF NoPass
      <3>2. Others(p)' = {} /\ \A g \in File : journal'[g] = <<>>
        <4>1. CASE p \in met
          BY <1>12, <3>1, <4>1 DEF clear
        <4>2. CASE p \notin met
          <5>1. \A i \in DOMAIN Files : i <= k
            BY <1>3, <3>1
          <5>2. \A g \in File : journal'[g] = <<>>
            BY <2>3, <4>2, <5>1, FileFacts
          <5> QED BY <1>12, <2>2, <4>2, <5>2 DEF LoneOf
        <4> QED BY <4>1, <4>2
      <3> QED BY <1>7, <1>9, <2>5, <2>6, <2>7, <3>1, <3>2 DEF LoneOf
    <2>8. CASE r.at = "unlinking"
      <3>1. r.next = k + 1 /\ r.mem = mem /\ p \notin met
        BY <1>6, <2>8 DEF NoPass
      <3>2. ASSUME NEW g \in File, NEW n \in Name  PROVE Swept(Loaded'[g][n]) = mem[g][n]
        <4>1. CASE g = f
          BY <1>5, <1>8, <2>5, <4>1
        <4>2. CASE g # f
          <5>1. Loaded'[g][n] = Loaded[g][n]
            BY <1>8, <2>4, <4>2 DEF Loaded
          <5> QED BY <1>1, <2>2, <3>1, <5>1 DEF LoneOf, mem
        <4> QED BY <4>1, <4>2
      <3>3. \A i \in DOMAIN Files : i < k + 1 => i <= k
        BY <1>3
      <3>4. Others(p)' = {}
        BY <1>12, <2>2, <3>1 DEF LoneOf
      <3> QED BY <1>9, <2>3, <2>6, <2>8, <3>1, <3>2, <3>3, <3>4 DEF LoneOf
    <2>9. r.at \in {"running", "unlinking"}
      BY <1>6, <1>12
    <2> QED BY <2>7, <2>8, <2>9
  <1> QED BY <1>16, <1>17, <1>18, <1>19, <1>20, <1>21, <1>22, <1>24, <1>25, <1>26 DEF NInv, KInv

LEMMA InitHolds == ASSUME Init PROVE NInv
  <1>1. Empty \in Records /\ \A f \in File, n \in Name : Empty[f][n] = Blank
    BY DEF Empty, Records, Record, Blank
  <1>2. \A f \in File : journal[f] = <<>> /\ ToSet(journal[f]) = {}
    BY NoLines DEF Init
  <1>3. \A p \in Pass : pass[p] = NoPass /\ pass[p].at = "off" /\ took[p] = {}
    BY DEF Init, NoPass
  <1>4. NameStoreTypeOK
    <2>1. <<>> \in Seq(Fact) /\ \A p \in Pass : p # None
      BY EmptySeq, StoreAssumption
    <2>2. journal \in [File -> Seq(Fact)] /\ pass \in [Pass -> {NoPass} \union Process]
      BY <2>1 DEF Init
    <2>3. \A p \in Pass : lock = p <=> pass[p].at \in {"merging", "writing", "unlinking"}
      BY <1>3, <2>1 DEF Init
    <2> QED BY <1>1, <2>2, <2>3 DEF Init, NameStoreTypeOK
  <1>5. FilesAreSwept
    BY <1>1 DEF Init, FilesAreSwept, Swept, Blank
  <1>6. LinesAreTheirs /\ LearnedIsPlaced /\ LandedIsKept
    BY <1>2 DEF Init, LinesAreTheirs, LearnedIsPlaced, LandedIsKept
  <1>7. Live = {}
    BY <1>3 DEF Live
  <1>8. TakenIsKnown /\ TouchedApart /\ LoneIsExact
    BY <1>3, <1>7 DEF TakenIsKnown, TouchedApart, LoneIsExact
  <1>9. LoadIsOfDisk /\ MemoryIsSeen /\ WrittenIsMemory
    BY <1>3 DEF LoadIsOfDisk, MemoryIsSeen, WrittenIsMemory
  <1> QED BY <1>4, <1>5, <1>6, <1>8, <1>9 DEF NInv, KInv

LEMMA ApartStepKeeps ==
    ASSUME NInv, [ApartNext]_vars
    PROVE  NInv'
  <1>1. CASE UNCHANGED vars
    <2>1. /\ UNCHANGED <<yaml, journal, lock, pass, learned, landed, took, unlinked, crossed, met>>
          /\ Loaded' = Loaded
      BY <1>1 DEF vars, disk, traces, Loaded
    <2>2. NameStoreTypeOK' /\ FilesAreSwept' /\ LinesAreTheirs' /\ LandedIsKept'
      BY <2>1 DEF NInv, KInv, NameStoreTypeOK, FilesAreSwept, LinesAreTheirs, LandedIsKept, Knows
    <2>3. LoadIsOfDisk'
      BY <2>1 DEF NInv, KInv, LoadIsOfDisk, LoadOf
    <2>4. MemoryIsSeen' /\ WrittenIsMemory'
      BY <2>1 DEF NInv, KInv, MemoryIsSeen, MemoryOf, WrittenIsMemory, WrittenOf
    <2>5. TakenIsKnown' /\ TouchedApart'
      BY <2>1 DEF NInv, KInv, TakenIsKnown, TakenOf, TouchedApart, Live, Knows
    <2>6. LearnedIsPlaced'
      BY <2>1 DEF NInv, KInv, LearnedIsPlaced, Placed, Knows
    <2>7. LoneIsExact'
      BY <2>1 DEF NInv, LoneIsExact, LoneOf, Others, Live
    <2> QED BY <2>2, <2>3, <2>4, <2>5, <2>6, <2>7 DEF NInv, KInv
  <1>2. CASE ApartNext
    <2>1. PICK p \in Pass :
              \/ lock = None /\ Start(p)
              \/ Load(p) \/ (\E f \in Fact : Learn(p, f))
              \/ At({"reading", "replaying"}) = {} /\ Lock(p)
              \/ Compact(p) \/ Kill(p)
      BY <1>2 DEF ApartNext
    <2>2. CASE lock = None /\ Start(p)
      BY <2>2, StartKeeps
    <2>3. CASE Load(p)
      BY <2>3, ReadYamlKeeps, ReplayJournalKeeps DEF Load
    <2>4. CASE \E f \in Fact : Learn(p, f)
      BY <2>4, LearnKeeps
    <2>5. CASE At({"reading", "replaying"}) = {} /\ Lock(p)
      BY <2>5, LockKeeps
    <2>6. CASE Compact(p)
      BY <2>6, MergeFromDiskKeeps, WriteYamlKeeps, UnlinkKeeps DEF Compact
    <2>7. CASE Kill(p)
      BY <2>7, KillKeeps
    <2> QED BY <2>1, <2>2, <2>3, <2>4, <2>5, <2>6, <2>7
  <1> QED BY <1>1, <1>2

\* The inductive invariant: every step of every pass keeps it.
THEOREM NameStoreInvariance == ApartSpec => []NInv
  <1>1. NInv /\ [ApartNext]_vars => NInv'
    BY ApartStepKeeps
  <1> QED BY <1>1, InitHolds, PTL DEF ApartSpec

-----------------------------------------------------------------------------
(* What it gives.                                                          *)

\* Files, journals, passes and their memories keep their types, and the lock is
\* held by the pass that compacts and by no other.
THEOREM NameStoreTypeCorrectness == ApartSpec => []NameStoreTypeOK
  <1>1. NInv => NameStoreTypeOK
    BY DEF NInv
  <1> QED BY <1>1, NameStoreInvariance, PTL

\* What a pass that is alone writes is what a load finds.
LEMMA LoneWrites ==
    ASSUME NInv, NEW p \in Pass, Undisturbed(p), pass[p].at \in {"writing", "unlinking"},
           NEW f \in File, NEW n \in Name
    PROVE  /\ Swept(Loaded[f][n]) = pass[p].mem[f][n]
           /\ Swept(pass[p].mem[f][n]) = pass[p].mem[f][n]
           /\ pass[p].mem[f][n].held = Loaded[f][n].held
  <1>1. NameStoreTypeOK /\ WrittenOf(p)
    BY DEF NInv, KInv, WrittenIsMemory
  <1>2. LoneOf(p)
    BY <1>1, AtWork DEF NInv, LoneIsExact, Undisturbed
  <1>3. Loaded[f][n] \in Record
    BY <1>1, LoadedIs, RecordsOf
  <1>4. Swept(Loaded[f][n]) = pass[p].mem[f][n]
    BY <1>2 DEF LoneOf
  <1> QED BY <1>1, <1>3, <1>4, RecordSwept DEF WrittenOf

\* Killed at any step, inside a compaction too, a pass that was alone leaves
\* behind what it knew.
THEOREM KilledAnywhere == ApartSpec => []LoadGivesMemory
  <1>1. ASSUME NInv  PROVE LoadGivesMemory
    <2> SUFFICES ASSUME NEW p \in At({"running", "writing", "unlinking"}), Undisturbed(p)
                 PROVE  Sweep(Loaded) = Sweep(pass[p].mem)
      BY DEF LoadGivesMemory
    <2>1. p \in Pass /\ pass[p].at \in {"running", "writing", "unlinking"} /\ NameStoreTypeOK
      BY <1>1 DEF At, NInv
    <2>2. LoneOf(p)
      BY <1>1, <2>1, AtWork DEF NInv, LoneIsExact, Undisturbed
    <2>3. ASSUME NEW f \in File, NEW n \in Name
          PROVE  Swept(Loaded[f][n]) = Swept(pass[p].mem[f][n])
      <3>1. CASE pass[p].at = "running"
        BY <2>2, <3>1 DEF LoneOf
      <3>2. CASE pass[p].at \in {"writing", "unlinking"}
        BY <1>1, <2>1, <3>2, LoneWrites
      <3> QED BY <2>1, <3>1, <3>2
    <2>4. /\ Sweep(Loaded) = [f \in File |-> [n \in Name |-> Swept(Loaded[f][n])]]
          /\ Sweep(pass[p].mem) = [f \in File |-> [n \in Name |-> Swept(pass[p].mem[f][n])]]
      BY DEF Sweep, Swept
    <2> QED BY <2>3, <2>4
  <1> QED BY <1>1, NameStoreInvariance, PTL

\* What any pass recorded is known to a load, or to a pass at work that took it,
\* whoever is killed and whoever compacts: but for a line that was unlinked by a
\* pass that had not taken it and that no pass has any more, and a name two
\* passes were at.
THEOREM RecordedIsKept == ApartSpec => []NothingRecordedIsLost
  <1>1. ASSUME NInv  PROVE NothingRecordedIsLost
    <2> SUFFICES ASSUME NEW f \in learned, <<f.file, f.name>> \notin crossed, ~Knows(Loaded, f),
                        ~(f \in unlinked \ landed /\ \A p \in Pass : f \notin took[p])
                 PROVE  \E p \in At({"running", "merging", "writing", "unlinking"}) :
                            f \in took[p] /\ Knows(pass[p].mem, f)
      BY DEF NothingRecordedIsLost
    <2>1. NameStoreTypeOK /\ f \in Fact /\ f.file \in File /\ Placed(f) /\ TakenIsKnown
      BY <1>1, FactTypes DEF NInv, KInv, LearnedIsPlaced, NameStoreTypeOK
    <2>2. ~(Knows(yaml, f) \/ f \in ToSet(journal[f.file]))
      <3> SUFFICES ASSUME Knows(yaml, f) \/ f \in ToSet(journal[f.file])  PROVE FALSE
        OBVIOUS
      <3>1. yaml \in Records /\ journal[f.file] \in Seq(Fact)
        BY <2>1 DEF NameStoreTypeOK
      <3>2. Knows(Replay(yaml, journal[f.file]), f)
        BY <2>1, <3>1, ReplayKnows
      <3> QED BY <2>1, <3>2, LoadedIs DEF Knows
    <2>3. PICK p \in Pass : f \in took[p]
      BY <2>1, <2>2 DEF Placed
    <2>4. p \in Live /\ TakenOf(p)
      BY <2>1, <2>3 DEF TakenIsKnown
    <2>5. pass[p].at \notin {"reading", "replaying"}
      BY <1>1, <2>2, <2>3 DEF NInv, KInv, LoadIsOfDisk, LoadOf
    <2>6. pass[p].at \in {"running", "merging", "writing", "unlinking"}
      BY <2>1, <2>4, <2>5, NotLive DEF Process
    <2> QED BY <2>3, <2>4, <2>6 DEF TakenOf, At
  <1> QED BY <1>1, NameStoreInvariance, PTL

\* What a compaction wrote for its pass stays in the files, whoever compacts
\* next, until two passes are at the name.
THEOREM LandedStays == ApartSpec => []LandedIsKept
  <1>1. NInv => LandedIsKept
    BY DEF NInv, KInv
  <1> QED BY <1>1, NameStoreInvariance, PTL

-----------------------------------------------------------------------------
(* What answers.                                                           *)

\* A step of a store where one pass is alone changes what a load would answer
\* by a line only, and by the rank rule.
LEMMA LoneStep ==
    ASSUME NInv, NInv', ApartNext, NEW u \in Pass, Undisturbed(u),
           NEW f \in File, NEW n \in Name
    PROVE  \/ Loaded'[f][n].held = Loaded[f][n].held
           \/ \E g \in Fact : Loaded'[f][n].held = Adopted(Loaded[f][n].held, g)
  <1>1. /\ NameStoreTypeOK /\ yaml \in Records /\ yaml' \in Records
        /\ \A g \in File : journal[g] \in Seq(Fact)
    BY DEF NInv, NameStoreTypeOK
  <1>2. /\ Loaded[f][n] = Replay(yaml, journal[f])[f][n]
        /\ Loaded'[f][n] = Replay(yaml', journal'[f])[f][n]
    BY DEF Loaded
  <1>3. PICK p \in Pass : \/ Start(p) \/ Load(p) \/ (\E g \in Fact : Learn(p, g))
                       \/ Lock(p) \/ Compact(p) \/ Kill(p)
    BY DEF ApartNext
  <1>4. CASE UNCHANGED <<yaml, journal>>
    BY <1>2, <1>4
  <1>5. pass[p].at # "off" => p = u /\ p \in Live \ met /\ Undisturbed(p) /\ LoneOf(p)
    <2> SUFFICES ASSUME pass[p].at # "off"  PROVE p = u /\ p \in Live \ met /\ LoneOf(p)
      OBVIOUS
    <2>1. p \in Live
      BY <1>1, AtWork
    <2>2. p = u
      BY <2>1 DEF Undisturbed, Others, Live
    <2> QED BY <2>1, <2>2 DEF Undisturbed, NInv, LoneIsExact
  <1>6. ASSUME NEW g \in Fact, Learn(p, g)
        PROVE  \/ Loaded'[f][n].held = Loaded[f][n].held
               \/ Loaded'[f][n].held = Adopted(Loaded[f][n].held, g)
    <2>1. g.file \in File /\ pass[p].handle[g.file] # "orphan"
      BY <1>5, <1>6, FactTypes DEF Learn, LoneOf
    <2>2. journal' = [journal EXCEPT ![g.file] = Append(@, g)] /\ yaml' = yaml
      BY <1>6, <2>1 DEF Learn
    <2>3. journal'[f] = IF g.file = f THEN Append(journal[f], g) ELSE journal[f]
      BY <1>1, <2>1, <2>2 DEF NameStoreTypeOK
    <2> QED BY <1>1, <1>2, <2>2, <2>3, ReplayMore
  <1>7. ASSUME WriteYaml(p)
        PROVE  Loaded'[f][n].held = Loaded[f][n].held
    <2>1. /\ pass[p].at = "writing" /\ journal' = journal
          /\ yaml' = [yaml EXCEPT ![Files[pass[p].next]] = pass[p].mem[Files[pass[p].next]]]
      BY <1>7 DEF WriteYaml
    <2>2. yaml'[f][n] \in {yaml[f][n], pass[p].mem[f][n]}
      BY <1>1, <2>1 DEF Records
    <2>3. pass[p].mem[f][n].held = Loaded[f][n].held
      BY <1>5, <2>1, LoneWrites
    <2>4. CASE yaml'[f][n] = yaml[f][n]
      BY <1>1, <1>2, <2>1, <2>4, ReplayIsLocal
    <2>5. CASE yaml'[f][n] = pass[p].mem[f][n]
      <3>1. Replay(yaml', journal[f])[f][n].held = yaml'[f][n].held
        BY <1>1, <1>2, <2>3, <2>5, ReplayedAgain
      <3> QED BY <1>2, <2>1, <2>3, <2>5, <3>1
    <2> QED BY <2>2, <2>4, <2>5
  <1>8. ASSUME Unlink(p)
        PROVE  Loaded'[f][n].held = Loaded[f][n].held
    <2>1. /\ pass[p].at = "unlinking" /\ yaml' = yaml
          /\ journal' = [journal EXCEPT ![Files[pass[p].next]] = <<>>]
      BY <1>8 DEF Unlink
    <2>2. journal'[f] \in {journal[f], <<>>}
      BY <1>1, <2>1 DEF NameStoreTypeOK
    <2>3. pass[p].mem[f][n].held = Loaded[f][n].held
      BY <1>5, <2>1, LoneWrites
    <2>4. pass[p].mem[f][n] = yaml[f][n]
      <3>1. PICK i \in DOMAIN Files : Files[i] = f
        BY FileFacts
      <3> QED BY <2>1, <3>1 DEF NInv, KInv, WrittenIsMemory, WrittenOf
    <2>5. Replay(yaml, <<>>)[f][n] = yaml[f][n]
      BY ReplayNothing
    <2> QED BY <1>2, <2>1, <2>2, <2>3, <2>4, <2>5
  <1>9. \/ UNCHANGED <<yaml, journal>>
        \/ \E g \in Fact : Learn(p, g)
        \/ WriteYaml(p) \/ Unlink(p)
    BY <1>3 DEF Start, Load, ReadYaml, ReplayJournal, Lock, Compact, MergeFromDisk, Kill, disk
  <1> QED BY <1>4, <1>6, <1>7, <1>8, <1>9

\* While one pass is alone, what answers for a name gives way to a better stated
\* claim or to one a reviewer says supersedes it, through compactions, kills and
\* restarts: never to a worse one.
THEOREM StatedClaimsStand == ApartSpec => StatedIsNotOverwritten
  <1>1. ASSUME NInv, NInv', [ApartNext]_vars, \E p \in Pass : Undisturbed(p),
               NEW f \in File, NEW n \in Name,
               Loaded[f][n].held # None, Loaded'[f][n].held # Loaded[f][n].held
        PROVE  /\ Loaded'[f][n].held # None
               /\ \/ Loaded'[f][n].held.supersede
                  \/ Loaded'[f][n].held.rank > Loaded[f][n].held.rank
    <2>1. Loaded' = Loaded \/ ApartNext
      BY <1>1 DEF vars, disk, Loaded
    <2>2. PICK g \in Fact : Loaded'[f][n].held = Adopted(Loaded[f][n].held, g)
      BY <1>1, <2>1, LoneStep
    <2>3. Loaded'[f][n].held = g /\ (g.supersede \/ Outranks(g, Loaded[f][n].held))
      BY <1>1, <2>2 DEF Adopted
    <2> QED BY <2>3, FactTypes DEF Outranks
  <1>2. NInv /\ NInv' /\ [ApartNext]_vars =>
            [(\E p \in Pass : Undisturbed(p)) => \A f \in File, n \in Name :
                LET before == Loaded[f][n].held
                    after == Loaded'[f][n].held
                IN before # None /\ after # before =>
                    after # None /\ (after.supersede \/ after.rank > before.rank)]_vars
    BY <1>1
  <1> QED BY <1>2, NameStoreInvariance, PTL DEF ApartSpec, StatedIsNotOverwritten
=============================================================================
