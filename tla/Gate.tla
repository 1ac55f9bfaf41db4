-------------------------------- MODULE Gate --------------------------------
(***************************************************************************)
(* The check-in gate: check.py --gate, test.py --changed, the driver that  *)
(* runs the two at once (cycle.py), the green-tree token                   *)
(* (adapters/greentree.py) and the hook that asks it (.githooks/pre-push). *)
(*                                                                         *)
(* Each half remembers what passed and skips it on the same inputs, and    *)
(* the token lets a push skip both halves.  The question is whether an     *)
(* answer given from memory is the one a full run would give.  The checks  *)
(* read the compiled store (data/relational.db), and what they remember is *)
(* kept under a digest of the source and of data/build.                    *)
(***************************************************************************)
EXTENDS Integers, FiniteSets

CONSTANTS
    File,         \* the files a person writes: code, data, fixtures
    Version,      \* contents a file, or what a build compiled, may have
    Sources,      \* the states the files are edited between
    Minute,       \* what the clock may read
    Count,        \* Count[in]: what the one budget measures on inputs `in`
    Check,        \* the invariants check.py asks
    Suite,        \* the suites test.py runs
    Proof,        \* the suite proving the checks can fail: check.py --self-test
    Names,        \* Names[s]: the files suite s names, and "build" if it does
    Broken,       \* Broken[c]: the inputs on which a check or a suite fails
    None

\* None is the content of a file that is not there.
Files == [File -> Version \union {None}]

\* The files as they are, and those git tracks.
Source == [file : Files, tracked : SUBSET File]

\* What a check or a suite may read.
Inputs == [file : Files, store : Version \union {None}]

\* What a digest covers.
Keys == [file : Files, build : Version \union {None}]

\* What the token covers.
Covers == [file : Files, build : Version \union {None}, budget : Nat, tracker : Minute]

ASSUME GateAssumption ==
    /\ "build" \notin File
    /\ Sources \subseteq Source
    /\ Check \cap Suite = {} /\ Proof \in Suite
    /\ Count \in [Inputs -> Nat]
    /\ Names \in [Suite -> SUBSET (File \union {"build"})]
    /\ Broken \in [Check \union Suite -> SUBSET Inputs]
    /\ \A in \in Broken[Proof] : in.store # None   \* nothing to plant a canary in
    /\ None \notin Inputs \union Keys \union Version \union Sources /\ None \notin Int
    /\ \A s \in Suite : None \notin [Names[s] -> Version \union {None}]
    /\ None \notin Covers

\* The suites that read only what they name.  Nothing makes a suite one: "a suite
\* that reads a data file or a module it does not name [...] passes on a tree
\* where its real subject moved" (test.py, freshness).  A suite that names
\* nothing is always run.
Declaring ==
    {s \in Suite :
        Names[s] # {} =>
            \A p, q \in Inputs :
                /\ \A f \in Names[s] \ {"build"} : p.file[f] = q.file[f]
                /\ "build" \in Names[s] => p.store = q.store
                => (p \in Broken[s] <=> q \in Broken[s])}

VARIABLES
    tree,      \* the files of the working tree
    verified,  \* verified[c]: the digest check c is remembered to pass on
    counted,   \* the digest and the number the budget is remembered with
    proven,    \* the digest the proof is remembered to pass on
    passed,    \* passed[s]: what suite s names, as it last passed
    token,     \* the files the green-tree token vouches for
    gate,      \* the check.py process
    tests,     \* the test.py process
    cycle,     \* the driver: not running, fast, or --full
    pushing,   \* the hook waits for the driver
    pushed,    \* the source as it stands was pushed (history)
    beside,    \* the source as it was when the token was written (history)
    unseen     \* some build so far wrote the store alone (history)

memory == <<verified, counted, proven, passed>>
history == <<beside, unseen>>
vars == <<tree, memory, token, gate, tests, cycle, pushing, pushed, history>>

Tree == [source : Sources,
         store : Version \union {None},    \* data/relational.db
         build : Version \union {None},    \* the corpus JSON of data/build
         budget : Nat, tracker : Minute]   \* two tracked files a run writes

Read(t) == [file |-> t.source.file, store |-> t.store]

\* The digest a pass is remembered under: the tracked and the newly written files
\* both.  What a run writes is left out of it, and so is the store, which is
\* neither one of these nor in data/build.
Key(t) == [file |-> t.source.file, build |-> t.build]

\* Mutant: the key of a suite is the whole digest.
NamedWhole(s, key) == key

\* What suite s names, of a digest; a suite naming nothing has no key.
Named(s, key) == [f \in Names[s] |-> IF f = "build" THEN key.build ELSE key.file[f]]

\* What the token hashes: the tracked files that are there, and data/build.
Covered(t) ==
    [file |-> [f \in File |-> IF f \in t.source.tracked THEN t.source.file[f] ELSE None],
     build |-> t.build, budget |-> t.budget, tracker |-> t.tracker]

NoRun == [at |-> "idle"]

GateRuns == [at : {"proving", "reading", "checking", "done"},
             mode : {"gate", "runtime"}, full : BOOLEAN, provedBy : BOOLEAN,
             keys : Keys, context : Version \union {None},
             todo : SUBSET Check, bad : SUBSET Check, ok : BOOLEAN]
TestRuns == [at : {"running", "done"}, changed : BOOLEAN, keys : Keys,
             ran : SUBSET Suite, todo : SUBSET Suite, bad : SUBSET Suite]

GateTypeOK ==
    /\ tree \in Tree
    /\ verified \in [Check -> Keys \union {None}]
    /\ counted = None \/ counted \in [on : Keys, n : Nat]
    /\ proven \in Keys \union {None}
    /\ \A s \in Suite :
          passed[s] = None \/ passed[s] \in [Names[s] -> Version \union {None}]
    /\ token \in Covers \union {None}
    /\ gate = NoRun \/ gate \in GateRuns
    /\ tests = NoRun \/ tests \in TestRuns
    /\ cycle \in {"none", "fast", "full"} /\ pushing \in BOOLEAN
    /\ pushed \in BOOLEAN
    /\ beside \in Sources \union {None} /\ unseen \in BOOLEAN

Idle == gate = NoRun /\ tests = NoRun /\ cycle = "none"

-----------------------------------------------------------------------------
(* check.py                                                                *)

GateRun(mode, full, provedBy) ==
    [at |-> IF mode = "gate" /\ ~provedBy THEN "proving" ELSE "reading",
     mode |-> mode, full |-> full, provedBy |-> provedBy,
     keys |-> Key(tree), context |-> None,
     todo |-> Check, bad |-> {}, ok |-> FALSE]

\* A person runs the gate, or a build runs the checks without failing.
StartGate(mode, full) ==
    /\ Idle
    /\ mode = "runtime" => ~full
    /\ gate' = GateRun(mode, full, FALSE)
    /\ UNCHANGED <<tree, memory, token, tests, cycle, pushing, pushed, history>>

\* The gate proves its checks can fail before it passes anything, unless that
\* was proved on these inputs, and answers nothing at all if they cannot.
Prove ==
    /\ gate.at = "proving"
    /\ LET remembered == ~gate.full /\ proven = gate.keys
           holds == remembered \/ Read(tree) \notin Broken[Proof]
       IN gate' = [gate EXCEPT !.at = IF holds THEN "reading" ELSE "done"]
    /\ UNCHANGED <<tree, memory, token, tests, cycle, pushing, pushed, history>>

\* The compiled collections, read once; with no store there is nothing to ask,
\* and nothing is remembered.
ReadBuild ==
    /\ gate.at = "reading"
    /\ gate' = IF tree.store = None
               THEN [gate EXCEPT !.at = "done", !.ok = (gate.mode = "runtime")]
               ELSE [gate EXCEPT !.at = "checking", !.context = tree.store]
    /\ UNCHANGED <<tree, memory, token, tests, cycle, pushing, pushed, history>>

\* What a check reads: the source as it is, the store as it was read.
Context == [file |-> tree.source.file, store |-> gate.context]

RunCheck(c) ==
    /\ gate.at = "checking"
    /\ c \in gate.todo
    /\ LET remembered == ~gate.full /\ verified[c] = gate.keys
           clean == remembered \/ Context \notin Broken[c]
       IN gate' = [gate EXCEPT !.todo = @ \ {c},
                               !.bad = IF clean THEN @ ELSE @ \union {c}]
    /\ UNCHANGED <<tree, memory, token, tests, cycle, pushing, pushed, history>>

\* Mutant: whatever was counted last.
MeasuredBefore ==
    IF ~gate.full /\ counted # None /\ counted.n <= tree.budget
    THEN counted.n ELSE Count[Context]

\* The number the budget has: a remembered one that is within what is
\* recorded, and otherwise measured again.
Measured ==
    IF ~gate.full /\ counted # None
       /\ counted.on = gate.keys /\ counted.n <= tree.budget
    THEN counted.n ELSE Count[Context]

\* Everything this run established, and nothing it did not: a pass is
\* remembered against the digest taken at the start, a failure never is.
Remember(n) ==
    IF gate.full THEN UNCHANGED <<verified, counted, proven>>
    ELSE /\ verified' = [c \in Check |-> IF c \in gate.bad THEN None ELSE gate.keys]
         /\ counted' = [on |-> gate.keys, n |-> n]
         /\ proven' = IF gate.mode = "gate" /\ ~gate.provedBy THEN gate.keys ELSE None

\* The ratchet, the memory, the answer; then, where the gate passed, the token
\* over the tree as it stands and the tracker page with the time on it.
GateAnswers ==
    /\ gate.at = "checking" /\ gate.todo = {}
    /\ LET n == Measured
           ok == gate.bad = {} /\ n <= tree.budget
           after == IF gate.mode = "gate" /\ n < tree.budget
                    THEN [tree EXCEPT !.budget = n] ELSE tree
       IN /\ Remember(n)
          /\ gate' = [gate EXCEPT !.at = "done", !.ok = ok]
          /\ IF gate.mode = "gate" /\ ok
             THEN /\ token' = Covered(after) /\ beside' = tree.source
                  /\ \E now \in Minute : tree' = [after EXCEPT !.tracker = now]
             ELSE token' = token /\ beside' = beside /\ tree' = after
    /\ UNCHANGED <<passed, tests, cycle, pushing, pushed, unseen>>

EndGate ==
    /\ gate.at = "done" /\ cycle = "none"
    /\ gate' = NoRun
    /\ UNCHANGED <<tree, memory, token, tests, cycle, pushing, pushed, history>>

-----------------------------------------------------------------------------
(* test.py                                                                 *)

\* A suite is skipped when everything it names is what it was at its last pass.
Fresh(s) == Names[s] # {} /\ passed[s] = Named(s, Key(tree))

TestRun(changed) ==
    LET wanted == IF changed THEN {s \in Suite : ~Fresh(s)} ELSE Suite
    IN [at |-> "running", changed |-> changed, keys |-> Key(tree),
        ran |-> wanted, todo |-> wanted, bad |-> {}]

TestsAlone(changed) ==
    /\ Idle
    /\ tests' = TestRun(changed)
    /\ UNCHANGED <<tree, memory, token, gate, cycle, pushed, history>>

\* A person runs the tests.
StartTests(changed) == TestsAlone(changed) /\ UNCHANGED pushing

RunSuite(s) ==
    /\ tests.at = "running"
    /\ s \in tests.todo
    /\ tests' = [tests EXCEPT !.todo = @ \ {s},
                              !.bad = IF Read(tree) \in Broken[s] THEN @ \union {s} ELSE @]
    /\ UNCHANGED <<tree, memory, token, gate, cycle, pushing, pushed, history>>

\* Mutant: every suite that ran.
RanNow == tests.ran

\* The suites this run is a reason to skip next time.
PassedNow == tests.ran \ tests.bad

\* Only a suite that passed is remembered, under what it named at the start.
TestsAnswer ==
    /\ tests.at = "running" /\ tests.todo = {}
    /\ passed' = [s \in Suite |->
                    IF tests.changed /\ Names[s] # {} /\ s \in PassedNow
                    THEN Named(s, tests.keys) ELSE passed[s]]
    /\ tests' = [tests EXCEPT !.at = "done"]
    /\ UNCHANGED <<tree, verified, counted, proven, token, gate, cycle,
                   pushing, pushed, history>>

EndTests ==
    /\ tests.at = "done" /\ cycle = "none"
    /\ pushed' = (pushed \/ (pushing /\ tests.bad = {}))
    /\ tests' = NoRun /\ pushing' = FALSE
    /\ UNCHANGED <<tree, memory, token, gate, cycle, history>>

-----------------------------------------------------------------------------
(* cycle.py, the token and the hook                                        *)

\* Both halves at once.  The fast cycle leaves the proof to the tests, which
\* run only what moved; --full takes nothing from memory and sets it aside.
StartBoth(full) ==
    /\ Idle
    /\ gate' = GateRun("gate", full, ~full)
    /\ tests' = TestRun(~full)
    /\ cycle' = IF full THEN "full" ELSE "fast"
    /\ IF full
       THEN /\ verified' = [c \in Check |-> None]
            /\ passed' = [s \in Suite |-> None]
            /\ counted' = None /\ proven' = None
       ELSE UNCHANGED memory
    /\ UNCHANGED <<tree, token, pushed, history>>

StartCycle(full) == StartBoth(full) /\ UNCHANGED pushing

\* Mutant: the token does not cover what a build writes.
HeldSource ==
    token # None /\ token.file = Covered(tree).file /\ token.budget = tree.budget
    /\ token.tracker = tree.tracker

\* greentree.held: every covered file is what it was when the token was written.
Held == token = Covered(tree)

\* The hook pushes on the token's word.  Otherwise it runs the fast cycle where
\* the corpus JSON shows that something was built, and else every test alone.
Push ==
    /\ Idle
    /\ \/ /\ Held
          /\ pushed' = TRUE
          /\ UNCHANGED <<tree, memory, token, gate, tests, cycle, pushing, history>>
       \/ ~Held /\ tree.build # None /\ StartBoth(FALSE) /\ pushing' = TRUE
       \/ ~Held /\ tree.build = None /\ TestsAlone(FALSE) /\ pushing' = TRUE

\* Mutant: the driver answers for its tests alone.
EndCycleOnTests ==
    /\ cycle # "none" /\ gate.at = "done" /\ tests.at = "done"
    /\ pushed' = (pushed \/ (pushing /\ tests.bad = {}))
    /\ gate' = NoRun /\ tests' = NoRun /\ cycle' = "none" /\ pushing' = FALSE
    /\ UNCHANGED <<tree, memory, token, history>>

EndCycle ==
    /\ cycle # "none" /\ gate.at = "done" /\ tests.at = "done"
    /\ pushed' = (pushed \/ (pushing /\ gate.ok /\ tests.bad = {}))
    /\ gate' = NoRun /\ tests' = NoRun /\ cycle' = "none" /\ pushing' = FALSE
    /\ UNCHANGED <<tree, memory, token, history>>

-----------------------------------------------------------------------------
(* The person at the keyboard, between runs, and the build.                *)

\* A file is written, removed, or put under git.
Edit(t) ==
    /\ Idle
    /\ t # tree
    /\ tree' = t
    /\ pushed' = FALSE
    /\ UNCHANGED <<memory, token, gate, tests, cycle, pushing, history>>

\* A build writes the store, and the corpus JSON only where it is asked to.
Build(v, emit) ==
    /\ Idle
    /\ tree' = [tree EXCEPT !.store = v, !.build = IF emit THEN v ELSE @]
    /\ unseen' = (unseen \/ tree'.store # tree'.build)
    /\ UNCHANGED <<memory, token, gate, tests, cycle, pushing, pushed, beside>>

Budgets == {Count[in] : in \in Inputs}

Edited == {[tree EXCEPT !.source = v] : v \in Sources}
          \union {[tree EXCEPT !.budget = b] : b \in Budgets}

\* A fresh checkout: nothing built, nothing remembered.
Init ==
    /\ tree \in [source : Sources, store : {None}, build : {None},
                 budget : Budgets, tracker : Minute]
    /\ \A f \in File \ tree.source.tracked : tree.source.file[f] = None
    /\ verified = [c \in Check |-> None] /\ passed = [s \in Suite |-> None]
    /\ counted = None /\ proven = None
    /\ token = None /\ beside = None /\ unseen = FALSE
    /\ gate = NoRun /\ tests = NoRun /\ cycle = "none" /\ pushing = FALSE
    /\ pushed = FALSE

Next ==
    \/ \E mode \in {"gate", "runtime"}, full \in BOOLEAN : StartGate(mode, full)
    \/ Prove \/ ReadBuild \/ (\E c \in Check : RunCheck(c)) \/ GateAnswers \/ EndGate
    \/ (\E changed \in BOOLEAN : StartTests(changed)) \/ (\E s \in Suite : RunSuite(s))
    \/ TestsAnswer \/ EndTests
    \/ (\E full \in BOOLEAN : StartCycle(full)) \/ EndCycle \/ Push
    \/ (\E t \in Edited : Edit(t))
    \/ \E v \in Version, emit \in BOOLEAN : Build(v, emit)

Spec == Init /\ [][Next]_vars

-----------------------------------------------------------------------------
\* What a full gate would say, and what a full cycle would, of a tree.
ChecksPass(t) ==
    /\ t.store # None
    /\ \A c \in Check : Read(t) \notin Broken[c]
    /\ Count[Read(t)] <= t.budget
SuitesPass(t) == \A s \in Suite : Read(t) \notin Broken[s]

\* The suites whose key says all they read: they read what they name, and where
\* that is the build output, no build wrote a store it does not show.
Trusted == {s \in Declaring : "build" \in Names[s] => ~unseen}

\* A remembered pass is a pass: whatever would be skipped now says nothing now
\* ("the cache can only ever hold 'this said nothing on exactly these inputs'",
\* check.py), and the remembered number is the one there is.  Of the checks that
\* holds until a build writes the store alone, and of a suite while its key says
\* all it reads.
RememberedIsTrue ==
    /\ ~unseen =>
          /\ \A c \in Check : verified[c] = Key(tree) => Read(tree) \notin Broken[c]
          /\ counted # None /\ counted.on = Key(tree) => counted.n = Count[Read(tree)]
          /\ proven = Key(tree) => Read(tree) \notin Broken[Proof]
    /\ \A s \in Trusted : Fresh(s) => Read(tree) \notin Broken[s]

\* A run answers what a run without memory would.  No memory makes a clean tree
\* fail, and --full says all right exactly where the checks pass and can fail
\* and, in the cycle, the suites pass.  From memory the gate is as exact until a
\* build writes the store alone, and the cycle as far as a suite is trusted.  A
\* budget the run tightened still holds.
VerdictIsRight ==
    gate.at = "done" /\ gate.mode = "gate" =>
        /\ cycle = "none" =>
              /\ ChecksPass(tree) /\ Read(tree) \notin Broken[Proof] => gate.ok
              /\ gate.ok /\ (gate.full \/ ~unseen) =>
                    ChecksPass(tree) /\ Read(tree) \notin Broken[Proof]
        /\ cycle # "none" /\ tests.at = "done" =>
              /\ ChecksPass(tree) /\ SuitesPass(tree) => gate.ok /\ tests.bad = {}
              /\ gate.ok /\ tests.bad = {} =>
                    /\ cycle = "full" => ChecksPass(tree) /\ SuitesPass(tree)
                    /\ ~unseen => ChecksPass(tree)
                    /\ \A s \in Trusted : Read(tree) \notin Broken[s]

\* The files the token does not hash, then or now, are what they were.
NewFilesStay(t) ==
    \A f \in File : f \notin t.source.tracked \cap beside.tracked =>
        t.source.file[f] = beside.file[f]

\* A tree the token vouches for is one the checks pass on, whatever was edited,
\* built and put back since: unless a build wrote the store alone, or a file
\* nobody put under git, which the checks read and the token does not, moved.
HeldTreePassesChecks == Held /\ ~unseen /\ NewFilesStay(tree) => ChecksPass(tree)

\* "Invariants must hold and no budget may have loosened" (.githooks/pre-push):
\* a push on the token's word is one of a tree the token vouches for, one the
\* cycle let by passes the checks and the suites as far as a cycle knows, and
\* one the tests let by, where nothing is built, passes every suite.
PushedChecksPass ==
    [][pushed' /\ ~pushed =>
          /\ tests = NoRun => unseen \/ ~NewFilesStay(tree) \/ ChecksPass(tree')
          /\ cycle # "none" =>
                /\ unseen \/ ChecksPass(tree')
                /\ \A s \in Trusted : Read(tree') \notin Broken[s]
          /\ tests # NoRun /\ cycle = "none" => SuitesPass(tree')]_vars

-----------------------------------------------------------------------------
(* What a comment says and the code does not do.                           *)

\* "the checks were proved able to fail on exactly this code and build"
\* (check.py, main): a gate that says all right says it of the store as it is.
GateAnswersForTheStore ==
    gate.at = "done" /\ gate.mode = "gate" /\ gate.ok => ChecksPass(tree)
=============================================================================
