------------------------------ MODULE NameStore ------------------------------
(***************************************************************************)
(* The store of name readings, adapters/names/store.py, as the passes that *)
(* share one checkout use it: YAML files written whole, an append-only     *)
(* journal per file in front of them, and a lock held across a compaction  *)
(* and nothing else.                                                       *)
(*                                                                         *)
(* A pass is a process.  It loads the files, then the journals; it learns  *)
(* facts, each a journal line and then a change in memory; now and then,   *)
(* and at its end, it compacts.  It may be killed at any step.             *)
(***************************************************************************)
EXTENDS Integers, Sequences, SequencesExt

CONSTANTS
    Pass,       \* the processes
    Files,      \* the files of the store, in the order they are read and written
    Name,       \* the names the files hold records of
    Value,      \* the readings a name may be given
    Fact,       \* what may be learned: about which name, and how well stated
    Learns,     \* Learns[p]: the facts pass p may learn
    MaxJournal, \* bound on the lines a journal file holds
    None

File == ToSet(Files)

ASSUME StoreAssumption ==
    /\ Files \in Seq(STRING) /\ Files # <<>>
    /\ \A i, j \in DOMAIN Files : Files[i] = Files[j] => i = j
    /\ Fact \subseteq [file : File, name : Name, value : Value, rank : Nat,
                       supersede : BOOLEAN]
    /\ Learns \in [Pass -> SUBSET Fact]
    /\ MaxJournal \in Nat
    /\ None \notin Fact /\ None \notin Pass

VARIABLES
    yaml,     \* yaml[f]: the records file f holds
    journal,  \* journal[f]: the lines of the journal file of f, as a load finds it
    lock,     \* the pass that holds .lock, or None
    pass,     \* pass[p]: the process
    learned,  \* the facts some pass recorded (history)
    landed,   \* the facts a compaction wrote, of a pass that took them (history)
    took,     \* took[p]: the facts p recorded or replayed since it started (history)
    unlinked, \* the facts whose line a pass that had not taken them unlinked (history)
    crossed,  \* the names two passes touched across each other (history)
    met       \* the passes that have run beside another (history)

disk == <<yaml, journal, lock>>
traces == <<unlinked, crossed, met>>
vars == <<disk, pass, learned, landed, took, traces>>

\* A record: the fact that answers, and the values kept beside it.
Record == [held : Fact \union {None}, kept : SUBSET Value]
Blank == [held |-> None, kept |-> {}]
Records == [File -> [Name -> Record]]
Empty == [f \in File |-> [n \in Name |-> Blank]]

NoPass == [at |-> "off"]
At(S) == {p \in Pass : pass[p].at \in S}

Process == [at : {"reading", "replaying", "running", "merging", "writing", "unlinking"},
            next : 1 .. Len(Files), mem : Records, touched : SUBSET (File \X Name),
            seen : Records, handle : [File -> {"closed", "open", "orphan"}]]

NameStoreTypeOK ==
    /\ yaml \in Records
    /\ journal \in [File -> Seq(Fact)]
    /\ lock \in Pass \union {None}
    /\ pass \in [Pass -> {NoPass} \union Process]
    /\ \A p \in Pass : lock = p <=> pass[p].at \in {"merging", "writing", "unlinking"}
    /\ learned \subseteq Fact /\ landed \subseteq learned /\ unlinked \subseteq learned
    /\ took \in [Pass -> SUBSET learned] /\ crossed \subseteq File \X Name
    /\ met \subseteq {p \in Pass : pass[p] # NoPass}

-----------------------------------------------------------------------------
(* The rank rule.                                                          *)

\* Mutant: of two facts of one rank the newer answers.
OutranksOrTies(f, g) == f.rank >= g.rank

Outranks(f, g) == f.rank > g.rank

\* A fact that outranks the one held, or that a reviewer says supersedes it,
\* answers; whichever of two that differ does not answer is kept.
Apply(r, f) ==
    LET adopted == r.held = None \/ f.supersede \/ Outranks(f, r.held)
        loser == IF r.held = None \/ f.value = r.held.value THEN {}
                 ELSE IF adopted THEN {r.held.value} ELSE {f.value}
        kept == r.kept \union loser
    IN [held |-> IF adopted THEN f ELSE r.held,
        kept |-> IF f.supersede THEN kept \ {f.value} ELSE kept]

ApplyTo(records, f) ==
    [records EXCEPT ![f.file][f.name] = Apply(@, f)]

\* drop_spacing_conflicts: a claim kept beside one it agrees with.
Sweep(records) ==
    [f \in File |-> [n \in Name |->
        LET r == records[f][n]
        IN IF r.held = None THEN r ELSE [r EXCEPT !.kept = @ \ {r.held.value}]]]

\* The journal is replayed over the file, oldest line first.
Replay(records, lines) == FoldLeft(ApplyTo, records, lines)

-----------------------------------------------------------------------------
(* Loading, without the lock.                                              *)

\* What a load would give now, if nothing moved under it: each file, and its
\* journal over it.
Loaded == [f \in File |-> Replay(yaml, journal[f])[f]]

Others(p) == {q \in Pass \ {p} : pass[q] # NoPass}

\* Of some names, those another running pass has touched.
TouchedBeside(p, names) == {n \in names : \E q \in Others(p) : n \in pass[q].touched}

Start(p) ==
    /\ pass[p] = NoPass
    /\ met' = IF Others(p) = {} THEN met ELSE met \union Others(p) \union {p}
    /\ pass' = [pass EXCEPT ![p] =
            [at |-> "reading", next |-> 1, mem |-> Empty, touched |-> {},
             seen |-> Empty, handle |-> [f \in File |-> "closed"]]]
    /\ UNCHANGED <<disk, learned, landed, took, unlinked, crossed>>

\* The step of p that deals with the next file, and what it leads to when
\* there is none left.
Onward(p, now, then) ==
    LET next == pass[p].next + 1
    IN IF next > Len(Files) THEN [now EXCEPT !.at = then, !.next = 1]
       ELSE [now EXCEPT !.next = next]

ReadYaml(p) ==
    /\ pass[p].at = "reading"
    /\ LET f == Files[pass[p].next]
           now == [pass[p] EXCEPT !.mem[f] = yaml[f]]
       IN pass' = [pass EXCEPT ![p] = Onward(p, now, "replaying")]
    /\ UNCHANGED <<disk, learned, landed, took, traces>>

\* Whatever is replayed counts as touched by this pass; the last step takes
\* the digest of the files.
ReplayJournal(p) ==
    /\ pass[p].at = "replaying"
    /\ LET f == Files[pass[p].next]
           names == {<<g.file, g.name>> : g \in ToSet(journal[f])}
           now == [pass[p] EXCEPT !.mem = Replay(@, journal[f]), !.touched = @ \union names]
           then == Onward(p, now, "running")
       IN /\ pass' = [pass EXCEPT ![p] =
                IF then.at = "running" THEN [then EXCEPT !.seen = yaml] ELSE then]
          /\ took' = [took EXCEPT ![p] = @ \union ToSet(journal[f])]
          /\ crossed' = crossed \union TouchedBeside(p, names)
    /\ UNCHANGED <<disk, learned, landed, unlinked, met>>

-----------------------------------------------------------------------------
(* Learning.                                                               *)

\* A name two passes are at: another has touched it, or it is touched for the
\* first time by a pass that remembers something else than is there.
Crosses(p, f, n) ==
    \/ TouchedBeside(p, {<<f, n>>}) # {}
    \/ <<f, n>> \notin pass[p].touched /\ pass[p].mem[f][n] # Loaded[f][n]

Noted(p, f) ==
    /\ learned' = learned \union {f} /\ took' = [took EXCEPT ![p] = @ \union {f}]
    /\ crossed' = IF Crosses(p, f.file, f.name) THEN crossed \union {<<f.file, f.name>>}
                  ELSE crossed

\* Mutant: the record changes and the line is left for the compaction.
LearnInMemory(p, f) ==
    /\ pass[p].at = "running"
    /\ f \in Learns[p]
    /\ pass' = [pass EXCEPT ![p].mem = ApplyTo(@, f),
                            ![p].touched = @ \union {<<f.file, f.name>>}]
    /\ Noted(p, f)
    /\ UNCHANGED <<disk, landed, unlinked, met>>

\* One line, flushed and synced, and then the record in memory.  The line goes
\* to the file the pass has open, which a compaction may have unlinked.
Learn(p, f) ==
    /\ pass[p].at = "running"
    /\ f \in Learns[p]
    /\ Len(journal[f.file]) < MaxJournal
    /\ pass' = [pass EXCEPT
            ![p].mem = ApplyTo(@, f),
            ![p].touched = @ \union {<<f.file, f.name>>},
            ![p].handle[f.file] = IF @ = "closed" THEN "open" ELSE @]
    /\ IF pass[p].handle[f.file] = "orphan"
       THEN journal' = journal /\ unlinked' = unlinked \union {f}
       ELSE journal' = [journal EXCEPT ![f.file] = Append(@, f)] /\ unlinked' = unlinked
    /\ Noted(p, f)
    /\ UNCHANGED <<yaml, lock, landed, met>>

-----------------------------------------------------------------------------
(* Compacting, under the lock.                                             *)

Lock(p) ==
    /\ pass[p].at = "running"
    /\ lock = None
    /\ lock' = p
    /\ pass' = [pass EXCEPT ![p].at = "merging"]
    /\ UNCHANGED <<yaml, journal, learned, landed, took, traces>>

\* Mutant: what is in memory is written, whoever wrote since.
MergedNothing(p) == pass[p].mem

\* Where the files are not what this pass saw, they are read again and the
\* records of the names it touched are put back over them.
Merged(p) ==
    IF pass[p].seen = yaml THEN pass[p].mem
    ELSE [f \in File |-> [n \in Name |->
            IF <<f, n>> \in pass[p].touched THEN pass[p].mem[f][n] ELSE yaml[f][n]]]

\* Mutant: the journals go first.
MergeFromDiskAndUnlink(p) ==
    /\ pass[p].at = "merging"
    /\ pass' = [pass EXCEPT ![p].mem = Sweep(Merged(p)), ![p].at = "writing"]
    /\ journal' = [f \in File |-> <<>>]
    /\ UNCHANGED <<yaml, lock, learned, landed, took, traces>>

MergeFromDisk(p) ==
    /\ pass[p].at = "merging"
    /\ pass' = [pass EXCEPT ![p].mem = Sweep(Merged(p)), ![p].at = "writing"]
    /\ UNCHANGED <<disk, learned, landed, took, traces>>

\* Each file is replaced whole, at once.  After the last the journal files
\* this pass has open are closed.
WriteYaml(p) ==
    /\ pass[p].at = "writing"
    /\ LET f == Files[pass[p].next]
           then == Onward(p, pass[p], "unlinking")
       IN /\ yaml' = [yaml EXCEPT ![f] = pass[p].mem[f]]
          /\ pass' = [pass EXCEPT ![p] =
                IF then.at = "unlinking"
                THEN [then EXCEPT !.handle = [g \in File |-> "closed"]] ELSE then]
    /\ UNCHANGED <<journal, lock, learned, landed, took, traces>>

\* The journal file is unlinked, and whoever has it open goes on writing to a
\* file nobody will find.
Orphaned(q, f) ==
    IF q.at # "off" /\ q.handle[f] = "open" THEN [q EXCEPT !.handle[f] = "orphan"] ELSE q

\* After the last journal the digest is taken and the lock released, and the
\* pass goes on or is over.
Unlink(p) ==
    /\ pass[p].at = "unlinking"
    /\ \E end \in BOOLEAN :
        LET f == Files[pass[p].next]
            then == Onward(p, pass[p], "running")
            last == then.at = "running"
            mine == IF last /\ end THEN NoPass
                    ELSE IF last THEN [then EXCEPT !.seen = yaml] ELSE then
            clear == Others(p) = {} /\ \A g \in File : journal'[g] = <<>>
        IN /\ journal' = [journal EXCEPT ![f] = <<>>]
           /\ pass' = [q \in Pass |-> IF q = p THEN mine ELSE Orphaned(pass[q], f)]
           /\ lock' = IF last THEN None ELSE p
           /\ landed' = IF last THEN landed \union took[p] ELSE landed
           /\ took' = IF last /\ end THEN [took EXCEPT ![p] = {}] ELSE took
           /\ unlinked' = unlinked \union (ToSet(journal[f]) \ took[p])
           /\ met' = IF last /\ (end \/ clear) THEN met \ {p} ELSE met
    /\ UNCHANGED <<yaml, learned, crossed>>

\* Mutant: the lock outlives its process.
KillHoldingLock(p) ==
    /\ pass[p] # NoPass
    /\ pass' = [pass EXCEPT ![p] = NoPass]
    /\ took' = [took EXCEPT ![p] = {}] /\ met' = met \ {p}
    /\ UNCHANGED <<disk, learned, landed, unlinked, crossed>>

\* The process is gone, its memory and its lock with it.
Kill(p) ==
    /\ pass[p] # NoPass
    /\ pass' = [pass EXCEPT ![p] = NoPass]
    /\ lock' = IF lock = p THEN None ELSE lock
    /\ took' = [took EXCEPT ![p] = {}] /\ met' = met \ {p}
    /\ UNCHANGED <<yaml, journal, learned, landed, unlinked, crossed>>

-----------------------------------------------------------------------------
Init ==
    /\ yaml = Empty
    /\ journal = [f \in File |-> <<>>]
    /\ lock = None
    /\ pass = [p \in Pass |-> NoPass]
    /\ learned = {} /\ landed = {} /\ took = [p \in Pass |-> {}]
    /\ unlinked = {} /\ crossed = {} /\ met = {}

Load(p) == ReadYaml(p) \/ ReplayJournal(p)
Compact(p) == MergeFromDisk(p) \/ WriteYaml(p) \/ Unlink(p)

Next ==
    \E p \in Pass :
        \/ Start(p) \/ Load(p) \/ (\E f \in Fact : Learn(p, f))
        \/ Lock(p) \/ Compact(p) \/ Kill(p)

Spec == Init /\ [][Next]_vars

\* Passes of which none loads while another compacts: one starts where no
\* compaction is under way, and a compaction waits until the others have loaded.
ApartNext ==
    \E p \in Pass :
        \/ lock = None /\ Start(p)
        \/ Load(p) \/ (\E f \in Fact : Learn(p, f))
        \/ At({"reading", "replaying"}) = {} /\ Lock(p)
        \/ Compact(p) \/ Kill(p)

ApartSpec == Init /\ [][ApartNext]_vars

-----------------------------------------------------------------------------
\* Whether a record still answers a fact, or keeps it.
Knows(records, f) ==
    LET r == records[f.file][f.name]
    IN r.held # None /\ f.value \in {r.held.value} \union r.kept

\* A pass that has been alone since it started, or since a compaction that left
\* no line behind.
Undisturbed(p) == Others(p) = {} /\ p \notin met

\* Such a pass may be killed between any two of its steps, inside a compaction
\* too: the next one loads what it held, and replaying a journal over a file that
\* already has it changes nothing the sweep does not drop ("Killing the process
\* at any instant loses at most the name in flight", store.py).
LoadGivesMemory ==
    \A p \in At({"running", "writing", "unlinking"}) :
        Undisturbed(p) => Sweep(Loaded) = Sweep(pass[p].mem)

\* What was recorded is known to a load or to a pass at work, whoever was killed
\* and whoever compacts.  There are two ways to lose it.  A pass that never took
\* the line unlinks it with its journal, and the one that wrote it is killed
\* before it compacts; or two passes are at one name.
NothingRecordedIsLost ==
    \A f \in learned :
        \/ Knows(Loaded, f)
        \/ \E p \in At({"running", "merging", "writing", "unlinking"}) :
              f \in took[p] /\ Knows(pass[p].mem, f)
        \/ f \in unlinked \ landed /\ \A p \in Pass : f \notin took[p]
        \/ <<f.file, f.name>> \in crossed

\* While one pass is alone, a better stated claim is never displaced by a worse
\* one, in the files or across a restart, except where a reviewer supersedes it
\* ("a stated preference must never be silently overwritten", store.py).
StatedIsNotOverwritten ==
    [][(\E p \in Pass : Undisturbed(p)) => \A f \in File, n \in Name :
        LET before == Loaded[f][n].held
            after == Loaded'[f][n].held
        IN before # None /\ after # before =>
            after # None /\ (after.supersede \/ after.rank > before.rank)]_vars

\* What a pass wrote stays written, through the compactions of the other passes,
\* until two are at one name ("A pass that landed while we worked is kept",
\* compact).
LandedIsKept == \A f \in landed : <<f.file, f.name>> \in crossed \/ Knows(yaml, f)
=============================================================================
