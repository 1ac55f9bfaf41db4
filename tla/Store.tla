-------------------------------- MODULE Store --------------------------------
(***************************************************************************)
(* The relational store, adapters/relational, as a build brings it up to   *)
(* date: the capture is compiled into a scratch store in memory, and the   *)
(* file is reconciled with it table by table in one transaction, or, where *)
(* there is no file or the delta is refused, replaced by it.               *)
(*                                                                         *)
(* Rows that an insert numbered have other numbers in the scratch than in  *)
(* the file, and their children point at the numbers.  Four tables stand   *)
(* for the shapes apply meets: publisher (an id that is stated, under a    *)
(* name that is the key), surface (a number, and a reference to the table  *)
(* itself), claim (a number, and a key that holds a surface's number) and  *)
(* claim_record (a claim's number).                                        *)
(***************************************************************************)
EXTENDS Integers, FiniteSets, Functions, FiniteSetsExt

CONSTANTS
    House,    \* identifiers of publishers, in the registry's order
    Label,    \* their names
    Name,     \* the spellings surfaces stand for
    Value,    \* what may be claimed of one
    Row,      \* rows the schema refuses
    Capture,  \* what a run may find
    MaxId     \* bound: no build starts from numbers it could pass

Statement == [house : SUBSET (House \X Label), names : SUBSET Name,
              alias : SUBSET (Name \X Name), claims : SUBSET (Name \X Value),
              cited : SUBSET (Name \X Value)]

\* What the registries and the loader hand over: one name for a publisher, an
\* alias of a name that is none, claims about names that are there.
Sound(c) ==
    /\ \A g, h \in c.house : g[1] = h[1] <=> g[2] = h[2]
    /\ \A a \in c.alias : /\ {a[1], a[2]} \subseteq c.names
                          /\ \A b \in c.alias : a[2] # b[1] /\ (a[1] = b[1] => a = b)
    /\ \A k \in c.claims : k[1] \in c.names
    /\ c.cited \subseteq c.claims

ASSUME StoreAssumption ==
    /\ House \subseteq Nat /\ MaxId \in Nat
    /\ IsFiniteSet(Name) /\ IsFiniteSet(Value)
    /\ Capture \subseteq {c \in Statement : Sound(c)}

VARIABLES
    file,   \* the tables of data/relational.db, or NoFile
    build   \* the build that runs, or NoBuild

vars == <<file, build>>

Number == Nat \ {0}
Surface == [id : Number, name : Name, alias : Nat]
Claim == [id : Number, surface : Number, value : Value]
Tables == [house : SUBSET (House \X Label), surface : SUBSET Surface,
           claim : SUBSET Claim, cite : SUBSET Number, quarantine : SUBSET Row]

Blank == [house |-> {}, surface |-> {}, claim |-> {}, cite |-> {}, quarantine |-> {}]
NoFile == [at |-> "nowhere"]
NoBuild == [at |-> "idle"]

Stage == {"publisher", "surface", "alias", "claim", "claim_record", "commit",
          "unlink", "copy"}

-----------------------------------------------------------------------------
(* What a store says: every number read as what it means.                  *)

NameAt(db, id) == (CHOOSE s \in db.surface : s.id = id).name
TextOf(db, c) == <<NameAt(db, c.surface), c.value>>

Said(db) ==
    [house  |-> db.house,
     names  |-> {s.name : s \in db.surface},
     alias  |-> {<<s.name, NameAt(db, s.alias)>> : s \in {t \in db.surface : t.alias # 0}},
     claims |-> {TextOf(db, c) : c \in db.claim},
     cited  |-> {TextOf(db, c) : c \in {d \in db.claim : d.id \in db.cite}}]

Nothing == Said(Blank)
Says(f) == IF f = NoFile THEN Nothing ELSE Said(f)

\* What the schema holds a committed store to.
Keyed(db) ==
    /\ \A g, h \in db.house : g[1] = h[1] <=> g[2] = h[2]
    /\ \A s, t \in db.surface : s # t => s.id # t.id /\ s.name # t.name
    /\ \A s \in db.surface : s.alias # 0 =>
            \E t \in db.surface : t.id = s.alias /\ t # s /\ t.alias = 0
    /\ \A c, d \in db.claim :
            c.id = d.id <=> <<c.surface, c.value>> = <<d.surface, d.value>>
    /\ \A c \in db.claim : \E s \in db.surface : s.id = c.surface
    /\ \A i \in db.cite : \E c \in db.claim : c.id = i

(* The committed file passes every constraint of the schema: keys are      *)
(* unique, an alias leads to a row that is no alias and not itself, and no *)
(* number leads nowhere.                                                   *)
StoreTypeOK ==
    /\ file = NoFile \/ (file \in Tables /\ Keyed(file))
    /\ \/ build = NoBuild
       \/ /\ build.at \in Stage /\ build.capture \in Capture
          /\ build.scratch \in Tables /\ build.db \in Tables
          /\ Keyed(build.scratch) /\ build.unwritten \subseteq build.scratch.house

-----------------------------------------------------------------------------
(* The compile.                                                            *)

Numberings(S) == Bijection(S, 1 .. Cardinality(S))

\* The scratch numbers its rows in the order the loader met them.
Scratch(c, number, claimNumber, refused) ==
    LET AliasOf(n) == LET to == {a[2] : a \in {b \in c.alias : b[1] = n}}
                      IN IF to = {} THEN 0 ELSE number[CHOOSE t \in to : TRUE]
    IN [house |-> c.house,
        surface |-> {[id |-> number[n], name |-> n, alias |-> AliasOf(n)] : n \in c.names},
        claim |-> {[id |-> claimNumber[k], surface |-> number[k[1]], value |-> k[2]]
                     : k \in c.claims},
        cite |-> {claimNumber[k] : k \in c.cited},
        quarantine |-> refused]

\* Under --unattended what the schema refuses is put aside in the scratch.
Compile ==
    /\ build = NoBuild
    /\ file # NoFile => \A r \in file.surface \union file.claim :
                            r.id + Cardinality(Name \X Value) <= MaxId
    /\ \E c \in Capture, refused \in SUBSET Row :
       \E number \in Numberings(c.names), claimNumber \in Numberings(c.claims) :
           build' = [at |-> IF file = NoFile THEN "unlink" ELSE "publisher",
                     capture |-> c,
                     scratch |-> Scratch(c, number, claimNumber, refused),
                     db |-> IF file = NoFile THEN Blank ELSE file,
                     unwritten |-> c.house, surfaces |-> <<>>, claims |-> <<>>]
    /\ UNCHANGED file

-----------------------------------------------------------------------------
(* apply: one table after another, parents first.                          *)

\* Rows that are written are written before any is dropped, one by one in their
\* order: the name is the key, the id is what the row states, and both are unique.
\* Where another row has the id the delta is refused.
WritePublisher(row) ==
    /\ build.at = "publisher"
    /\ row \in build.unwritten /\ \A g \in build.unwritten : row[1] <= g[1]
    /\ LET others == {h \in build.db.house : h[2] # row[2]}
       IN build' = IF \E h \in others : h[1] = row[1] THEN [build EXCEPT !.at = "unlink"]
                   ELSE [build EXCEPT !.db.house = others \union {row},
                                      !.unwritten = @ \ {row}]
    /\ UNCHANGED file

DropPublishers ==
    /\ build.at = "publisher"
    /\ build.unwritten = {}
    /\ build' = [build EXCEPT !.at = "surface", !.db.house = @ \intersect build.scratch.house]
    /\ UNCHANGED file

\* The numbers inserts hand out to the rows the file lacks, in the scratch's order.
Numbers(table, missing) ==
    LET highest == Max({0} \union {r.id : r \in table})
    IN [r \in missing |-> highest + Cardinality({s \in missing : s.id <= r.id})]

\* Where a scratch number is not in the map it is taken as it is.
Through(map, id) == IF id \in DOMAIN map THEN map[id] ELSE id

SameName(table, r) == {s \in table : s.name = r.name}

\* Mutant: a surface is known by the number the scratch gave it.
ReconcileSurfaceByNumber ==
    /\ build.at = "surface"
    /\ build' = [build EXCEPT !.at = "alias",
            !.db.surface = {[r EXCEPT !.alias = 0] : r \in build.scratch.surface},
            !.db.claim = {}, !.db.cite = {},
            !.surfaces = [i \in {r.id : r \in build.scratch.surface} |-> i]]
    /\ UNCHANGED file

ReconcileSurface ==
    /\ build.at = "surface"
    /\ LET db == build.db
           rows == build.scratch.surface
           missing == {r \in rows : SameName(db.surface, r) = {}}
           number == Numbers(db.surface, missing)
           new == {[id |-> number[r], name |-> r.name, alias |-> 0] : r \in missing}
           held == {s \in db.surface : SameName(rows, s) # {}}
           ids == {s.id : s \in held}
           \* ON DELETE: an alias of a dropped row is none, its claims go with it.
           kept == {IF s.alias \in ids THEN s ELSE [s EXCEPT !.alias = 0] : s \in held}
           claims == {c \in db.claim : c.surface \in ids}
       IN build' = [build EXCEPT
            !.at = "alias",
            !.db.surface = kept \union new,
            !.db.claim = claims,
            !.db.cite = @ \intersect {c.id : c \in claims},
            !.surfaces = [i \in {r.id : r \in rows} |->
                (CHOOSE s \in kept \union new :
                    \E r \in rows : r.id = i /\ r.name = s.name).id]]
    /\ UNCHANGED file

\* The reference of the table to itself, once every row has a number here.
\* Mutant: a reference is set and never cleared.
AliasNeverCleared(s, r) == IF r.alias = 0 THEN s.alias ELSE build.surfaces[r.alias]

\* Mutant: the scratch's number is written as it stands.
AliasUntranslated(s, r) == r.alias

AliasFor(s, r) == IF r.alias = 0 THEN 0 ELSE build.surfaces[r.alias]

SetAliases ==
    /\ build.at = "alias"
    /\ build' = [build EXCEPT
            !.at = "claim",
            !.db.surface = {[s EXCEPT !.alias =
                AliasFor(s, CHOOSE r \in build.scratch.surface : r.name = s.name)] : s \in @}]
    /\ UNCHANGED file

\* A claim's key holds its surface's number, which is translated before the key
\* is looked up.
\* Mutant: it is looked up under the number the scratch has.
ClaimKeyUntranslated(c) == <<c.surface, c.value>>

ClaimKey(c) == <<Through(build.surfaces, c.surface), c.value>>

KeyHere(c) == <<c.surface, c.value>>

\* Each row is written under the key it has here; then the map of the numbers
\* is made, for the tables that point at this one.
ReconcileClaim ==
    /\ build.at = "claim"
    /\ LET rows == build.scratch.claim
           Here(c) == <<Through(build.surfaces, c.surface), c.value>>
           missing == {c \in rows : \A d \in build.db.claim : KeyHere(d) # Here(c)}
           number == Numbers(build.db.claim, missing)
           new == {[id |-> number[c], surface |-> Here(c)[1], value |-> c.value]
                     : c \in missing}
           kept == {d \in build.db.claim : \E c \in rows : KeyHere(d) = Here(c)}
           now == kept \union new
           known == {c \in rows : \E d \in now : KeyHere(d) = ClaimKey(c)}
       IN build' = [build EXCEPT
            !.at = "claim_record",
            !.db.claim = now,
            !.db.cite = @ \intersect {d.id : d \in now},
            !.claims = [i \in {c.id : c \in known} |->
                (CHOOSE d \in now : \E c \in known : c.id = i /\ KeyHere(d) = ClaimKey(c)).id]]
    /\ UNCHANGED file

ReconcileClaimRecord ==
    /\ build.at = "claim_record"
    /\ build' = [build EXCEPT !.at = "commit",
            !.db.cite = {Through(build.claims, i) : i \in build.scratch.cite}]
    /\ UNCHANGED file

\* The quarantine is the store's own memory, which the delta leaves alone.
Commit ==
    /\ build.at = "commit"
    /\ file' = build.db
    /\ build' = NoBuild

-----------------------------------------------------------------------------
(* save: the file goes, and the scratch is copied to its place.            *)

Unlink ==
    /\ build.at = "unlink"
    /\ file' = NoFile
    /\ build' = [build EXCEPT !.at = "copy"]

Copy ==
    /\ build.at = "copy"
    /\ file' = build.scratch
    /\ build' = NoBuild

\* The process is killed: the transaction is rolled back, a copy half made is
\* a file with nothing in it.
Crash ==
    /\ build # NoBuild
    /\ build' = NoBuild
    /\ file' \in IF build.at = "copy" THEN {NoFile, Blank} ELSE {file}

Init == file = NoFile /\ build = NoBuild

Apply ==
    \/ \E row \in House \X Label : WritePublisher(row)
    \/ DropPublishers \/ ReconcileSurface \/ SetAliases
    \/ ReconcileClaim \/ ReconcileClaimRecord \/ Commit

Save == Unlink \/ Copy

Next == Compile \/ Apply \/ Save \/ Crash

Spec == Init /\ [][Next]_vars

-----------------------------------------------------------------------------
(* Whatever store a build starts from, and however the scratch and the     *)
(* file number their rows, the file then says what the capture says, or,   *)
(* when the build is killed, what it said before or nothing: "an           *)
(* idempotent write plus a pure derivation converges on the fixed point a  *)
(* rebuild produces".                                                      *)
Compiled == INSTANCE CompiledStore WITH
    says <- Says(file),
    building <- IF build = NoBuild THEN {} ELSE {build.capture}

StoreIsCompiled == Compiled!Spec

(* A row the capture did not change is not written: a delta that leaves    *)
(* the store saying what it said leaves the file as it was, its numbers    *)
(* included.                                                               *)
UnmovedIsUntouched ==
    [][build.at = "commit" /\ file' # file => Says(file') # Says(file)]_vars

(* "A row stays quarantined until something admits it or a ruling does,    *)
(* and a rebuild is not either of those": no build takes a row out.        *)
QuarantineIsKept ==
    [][build.at \in {"commit", "copy"} /\ file' \in {build.db, build.scratch}
        => build.db.quarantine \subseteq file'.quarantine]_vars
=============================================================================
