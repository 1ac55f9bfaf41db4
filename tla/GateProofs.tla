------------------------------ MODULE GateProofs ------------------------------
(***************************************************************************)
(* Proofs about the gate, for any checks, suites, versions and budgets:    *)
(* where an answer given from memory is the one a full run would give.     *)
(* What is remembered is kept under a digest, so the invariant says what   *)
(* is true of every tree with that digest, not of the tree there is.       *)
(***************************************************************************)
EXTENDS Gate, TLAPS

\* What a digest says of the inputs, when the corpus JSON is the store's.
Told(key) == [file |-> key.file, store |-> key.build]

Synced == ~unseen => tree.store = tree.build

\* Whatever is remembered is true of every tree that has its digest: of the
\* checks until a build writes the store alone, of a suite while it is trusted.
MemoryIsTrue ==
    /\ ~unseen =>
          /\ \A c \in Check : verified[c] # None => Told(verified[c]) \notin Broken[c]
          /\ counted # None => counted.n = Count[Told(counted.on)]
          /\ proven # None => Told(proven) \notin Broken[Proof]
          /\ \A t \in Tree :
                t.store = t.build /\ token = Covered(t) /\ NewFilesStay(t) => ChecksPass(t)
    /\ \A s \in Trusted, k \in Keys :
            Names[s] # {} /\ passed[s] = Named(s, k) => Told(k) \notin Broken[s]

\* The gate takes nothing from a memory that may be wrong.
Exact == gate.full \/ ~unseen

\* A gate under way asks about the tree as it is.  It faults nothing that
\* passes, and lets by nothing that fails where its memory is right.
GateIsTrue ==
    gate # NoRun =>
        /\ gate.keys = Key(tree)
        /\ gate.at # "done" => ~gate.ok
        /\ gate.at = "proving" => gate.mode = "gate" /\ ~gate.provedBy
        /\ gate.at \in {"proving", "reading"} => gate.todo = Check /\ gate.bad = {}
        /\ gate.at = "checking" =>
              /\ gate.context = tree.store /\ tree.store # None
              /\ gate.bad \subseteq {c \in Check \ gate.todo : Read(tree) \in Broken[c]}
              /\ Exact => {c \in Check \ gate.todo : Read(tree) \in Broken[c]} \subseteq gate.bad
        /\ gate.at \in {"reading", "checking"} /\ gate.mode = "gate" /\ ~gate.provedBy /\ Exact =>
              Read(tree) \notin Broken[Proof]
        /\ gate.at = "done" /\ gate.mode = "gate" =>
              /\ ChecksPass(tree) /\ (gate.provedBy \/ Read(tree) \notin Broken[Proof]) => gate.ok
              /\ gate.ok /\ Exact =>
                    ChecksPass(tree) /\ (gate.provedBy \/ Read(tree) \notin Broken[Proof])

\* And so do the tests, which pass over no trusted suite that would fail.
TestsAreTrue ==
    tests # NoRun =>
        /\ tests.keys = Key(tree)
        /\ tests.todo \subseteq tests.ran
        /\ tests.at = "done" => tests.todo = {}
        /\ tests.bad = {s \in tests.ran \ tests.todo : Read(tree) \in Broken[s]}
        /\ \A s \in Trusted \ tests.ran : Read(tree) \notin Broken[s]
        /\ ~tests.changed => tests.ran = Suite

\* What runs together: the proof is left out only in a cycle, whose tests run
\* it, and a cycle with --full leaves nothing out.
RunsTogether ==
    /\ cycle # "none" => gate # NoRun /\ gate.mode = "gate" /\ tests # NoRun
    /\ cycle = "full" => gate.full /\ ~tests.changed
    /\ gate # NoRun /\ gate.provedBy => cycle # "none"
    /\ pushing => tests # NoRun /\ (cycle = "none" => ~tests.changed)

GateIInv == GateTypeOK /\ Synced /\ MemoryIsTrue /\ GateIsTrue /\ TestsAreTrue /\ RunsTogether

-----------------------------------------------------------------------------
(* Digests.                                                                *)

LEMMA ToldIsRead == Synced /\ ~unseen => Told(Key(tree)) = Read(tree)
  BY DEF Synced, Told, Key, Read

LEMMA KeyIsKey == GateTypeOK => Key(tree) \in Keys /\ Read(tree) \in Inputs
  <1>. SUFFICES ASSUME GateTypeOK PROVE Key(tree) \in Keys /\ Read(tree) \in Inputs
    OBVIOUS
  <1>1. tree \in Tree /\ tree.source \in Source
    BY GateAssumption DEF GateTypeOK, Tree
  <1>. QED  BY <1>1 DEF Key, Keys, Read, Inputs, Tree, Source

LEMMA ToldIsInputs == \A k \in Keys : Told(k) \in Inputs
  BY DEF Keys, Told, Inputs

LEMMA NamedIsTyped ==
    ASSUME NEW s \in Suite, NEW k \in Keys
    PROVE  Named(s, k) \in [Names[s] -> Version \union {None}] /\ Named(s, k) # None
  <1>1. Names[s] \subseteq File \union {"build"}
    BY GateAssumption
  <1>2. \A f \in Names[s] :
           (IF f = "build" THEN k.build ELSE k.file[f]) \in Version \union {None}
    BY <1>1 DEF Keys, Files
  <1>3. Named(s, k) \in [Names[s] -> Version \union {None}]
    BY <1>2 DEF Named
  <1>. QED  BY <1>3, GateAssumption

LEMMA CoveredIsTyped ==
    ASSUME NEW t \in Tree
    PROVE  Covered(t) \in Covers /\ Covered(t) # None
  <1>1. t.source \in Source
    BY GateAssumption DEF Tree
  <1>2. [f \in File |-> IF f \in t.source.tracked THEN t.source.file[f] ELSE None] \in Files
    BY <1>1 DEF Source, Files
  <1>3. Covered(t) \in Covers
    BY <1>2 DEF Covered, Covers, Tree
  <1>. QED  BY <1>3, GateAssumption

(* A trusted suite that names something says the same of a tree and of a   *)
(* digest that agree on what it names.                                     *)
LEMMA NamedDecides ==
    ASSUME GateTypeOK, Synced, NEW s \in Trusted, Names[s] # {}, NEW k \in Keys,
           Named(s, k) = Named(s, Key(tree))
    PROVE  Told(k) \in Broken[s] <=> Read(tree) \in Broken[s]
  <1>1. \A f \in Names[s] : (IF f = "build" THEN k.build ELSE k.file[f])
                          = (IF f = "build" THEN tree.build ELSE tree.source.file[f])
    BY DEF Named, Key
  <1>2. \A f \in Names[s] \ {"build"} : Told(k).file[f] = Read(tree).file[f]
    BY <1>1 DEF Told, Read
  <1>3. "build" \in Names[s] => Told(k).store = Read(tree).store
    BY <1>1 DEF Told, Read, Trusted, Synced
  <1>4. Told(k) \in Inputs /\ Read(tree) \in Inputs
    BY ToldIsInputs, KeyIsKey
  <1>. QED  BY <1>2, <1>3, <1>4 DEF Trusted, Declaring

-----------------------------------------------------------------------------
(* What a step leaves alone.                                               *)

GateTyped == gate = NoRun \/ gate \in GateRuns
TestsTyped == tests = NoRun \/ tests \in TestRuns

LEMMA InitIInv == Init => GateIInv
  <1>. SUFFICES ASSUME Init PROVE GateIInv
    OBVIOUS
  <1>. USE GateAssumption
  <1>1. tree \in Tree
    BY DEF Init, Tree, Budgets
  <1>2. GateTypeOK
    BY <1>1 DEF Init, GateTypeOK
  <1>3. Synced
    BY DEF Init, Synced
  <1>4. MemoryIsTrue
    <2>1. \A s \in Trusted, k \in Keys : passed[s] # Named(s, k)
      BY NamedIsTyped DEF Init, Trusted, Declaring
    <2>2. \A t \in Tree : token # Covered(t)
      BY CoveredIsTyped DEF Init
    <2>. QED  BY <2>1, <2>2 DEF Init, MemoryIsTrue
  <1>. QED  BY <1>2, <1>3, <1>4 DEF GateIInv, Init, GateIsTrue, TestsAreTrue, RunsTogether

(* What is remembered stays true while nothing is remembered or forgotten.  *)
LEMMA StillTrue ==
    ASSUME MemoryIsTrue, UNCHANGED <<memory, token, history>>
    PROVE  MemoryIsTrue'
  <1>1. Trusted' = Trusted
    BY DEF Trusted, history
  <1>2. \A t \in Tree : NewFilesStay(t)' <=> NewFilesStay(t)
    BY DEF NewFilesStay, history
  <1>. QED  BY <1>1, <1>2 DEF MemoryIsTrue, memory, history, NewFilesStay

(* A step of the gate by itself.                                           *)
LEMMA GateAlone ==
    ASSUME GateIInv,
           UNCHANGED <<tree, memory, token, tests, cycle, pushing, pushed, history>>,
           GateTyped', GateIsTrue', RunsTogether'
    PROVE  GateIInv'
  <1>1. GateTypeOK'
    BY DEF GateIInv, GateTypeOK, GateTyped, memory, history
  <1>2. Synced' /\ MemoryIsTrue'
    BY StillTrue DEF GateIInv, Synced, history
  <1>3. TestsAreTrue'
    BY DEF GateIInv, TestsAreTrue, Trusted, history
  <1>. QED  BY <1>1, <1>2, <1>3 DEF GateIInv

(* And of the tests.                                                       *)
LEMMA TestsAlones ==
    ASSUME GateIInv, UNCHANGED <<tree, memory, token, gate, cycle, history>>,
           pushing' \in BOOLEAN, pushed' \in BOOLEAN,
           TestsTyped', TestsAreTrue', RunsTogether'
    PROVE  GateIInv'
  <1>1. GateTypeOK'
    BY DEF GateIInv, GateTypeOK, TestsTyped, memory, history
  <1>2. Synced' /\ MemoryIsTrue'
    BY StillTrue DEF GateIInv, Synced, history
  <1>3. GateIsTrue'
    BY DEF GateIInv, GateIsTrue, Exact, history
  <1>. QED  BY <1>1, <1>2, <1>3 DEF GateIInv

-----------------------------------------------------------------------------
(* check.py                                                                *)

LEMMA GateRunTyped ==
    ASSUME GateTypeOK, NEW mode \in {"gate", "runtime"}, NEW full \in BOOLEAN,
           NEW by \in BOOLEAN
    PROVE  GateRun(mode, full, by) \in GateRuns
  <1>1. Key(tree) \in Keys
    BY KeyIsKey
  <1>. QED  BY <1>1 DEF GateRun, GateRuns

LEMMA StartGateKeeps ==
    ASSUME GateIInv, NEW mode \in {"gate", "runtime"}, NEW full \in BOOLEAN,
           StartGate(mode, full)
    PROVE  GateIInv'
  <1>1. GateTyped'
    BY GateRunTyped DEF StartGate, GateTyped, GateIInv
  <1>2. gate' # NoRun
    BY DEF StartGate, GateRun, NoRun
  <1>3. /\ gate'.keys = Key(tree) /\ gate'.ok = FALSE /\ gate'.mode = mode
        /\ gate'.provedBy = FALSE
        /\ gate'.at = IF mode = "gate" THEN "proving" ELSE "reading"
        /\ gate'.todo = Check /\ gate'.bad = {}
    BY DEF StartGate, GateRun
  <1>4. GateIsTrue'
    BY <1>2, <1>3 DEF GateIsTrue, StartGate, Key
  <1>5. RunsTogether'
    BY <1>3 DEF RunsTogether, StartGate, Idle, GateIInv
  <1>. QED  BY <1>1, <1>4, <1>5, GateAlone DEF StartGate

LEMMA GateUnderWay ==
    ASSUME GateIInv, gate.at # "idle"
    PROVE  /\ gate # NoRun /\ gate \in GateRuns
           /\ ~unseen => Told(gate.keys) = Read(tree)
           /\ Read(tree) \in Inputs
           /\ gate.keys = Key(tree) /\ gate.keys \in Keys /\ gate.keys # None
  BY ToldIsRead, KeyIsKey, GateAssumption DEF GateIInv, GateIsTrue, GateTypeOK, NoRun

LEMMA ProveKeeps ==
    ASSUME GateIInv, Prove
    PROVE  GateIInv'
  <1>1. gate \in GateRuns /\ gate # NoRun /\ gate.keys = Key(tree)
    BY GateUnderWay DEF Prove
  <1>2. PICK at \in {"reading", "done"} :
           /\ gate' = [gate EXCEPT !.at = at]
           /\ (at = "reading") <=> \/ (~gate.full /\ proven = gate.keys)
                                   \/ Read(tree) \notin Broken[Proof]
    BY DEF Prove
  <1>3. /\ gate' \in GateRuns /\ gate'.at = at /\ gate'.keys = gate.keys
        /\ gate'.ok = gate.ok /\ gate'.mode = gate.mode /\ gate'.provedBy = gate.provedBy
        /\ gate'.todo = gate.todo /\ gate'.bad = gate.bad /\ gate'.full = gate.full
    BY <1>1, <1>2 DEF GateRuns
  <1>4. gate.mode = "gate" /\ ~gate.provedBy /\ ~gate.ok
        /\ gate.todo = Check /\ gate.bad = {}
    BY <1>1 DEF GateIInv, GateIsTrue, Prove
  <1>5. /\ Read(tree) \notin Broken[Proof] => at = "reading"
        /\ Exact /\ at = "reading" => Read(tree) \notin Broken[Proof]
    <2>1. ~unseen /\ proven = gate.keys => Read(tree) \notin Broken[Proof]
      BY GateUnderWay DEF GateIInv, MemoryIsTrue, Prove
    <2>. QED  BY <1>2, <2>1 DEF Exact
  <1>6. GateIsTrue'
    BY <1>1, <1>3, <1>4, <1>5 DEF GateIsTrue, Prove, Key, Read, ChecksPass, Exact, history
  <1>7. RunsTogether'
    <2>1. gate' # NoRun
      BY <1>3 DEF NoRun
    <2>. QED  BY <1>1, <1>3, <2>1 DEF RunsTogether, Prove, GateIInv, NoRun
  <1>. QED  BY <1>3, <1>6, <1>7, GateAlone DEF Prove, GateTyped

LEMMA ReadBuildKeeps ==
    ASSUME GateIInv, ReadBuild
    PROVE  GateIInv'
  <1>1. gate \in GateRuns /\ gate # NoRun /\ gate.keys = Key(tree) /\ ~gate.ok
    BY GateUnderWay DEF ReadBuild, GateIInv, GateIsTrue
  <1>2. tree.store \in Version \union {None}
    BY DEF GateIInv, GateTypeOK, Tree
  <1>3. RunsTogether' /\ gate' # NoRun /\ gate'.keys = Key(tree)
    BY <1>1 DEF RunsTogether, ReadBuild, GateIInv, NoRun, GateRuns
  <1>4. CASE tree.store = None
    <2>1. gate' = [gate EXCEPT !.at = "done", !.ok = (gate.mode = "runtime")]
      BY <1>4 DEF ReadBuild
    <2>2. /\ gate' \in GateRuns /\ gate'.at = "done" /\ gate'.mode = gate.mode
          /\ gate.mode = "gate" => gate'.ok = FALSE
      BY <1>1, <2>1 DEF GateRuns
    <2>3. ~ChecksPass(tree)
      BY <1>4 DEF ChecksPass
    <2>4. GateIsTrue'
      BY <1>3, <2>2, <2>3 DEF GateIsTrue, ReadBuild, Key, Read, ChecksPass, Exact, history
    <2>. QED  BY <1>3, <2>2, <2>4, GateAlone DEF ReadBuild, GateTyped
  <1>5. CASE tree.store # None
    <2>1. gate' = [gate EXCEPT !.at = "checking", !.context = tree.store]
      BY <1>5 DEF ReadBuild
    <2>2. /\ gate' \in GateRuns /\ gate'.at = "checking" /\ gate'.mode = gate.mode
          /\ gate'.context = tree.store /\ gate'.ok = gate.ok
          /\ gate'.todo = gate.todo /\ gate'.bad = gate.bad /\ gate'.provedBy = gate.provedBy
          /\ gate'.full = gate.full
      BY <1>1, <1>2, <2>1 DEF GateRuns
    <2>3. gate.todo = Check /\ gate.bad = {}
      BY <1>1 DEF GateIInv, GateIsTrue, ReadBuild
    <2>4. GateIsTrue'
      BY <1>1, <1>3, <1>5, <2>2, <2>3 DEF GateIsTrue, ReadBuild, Key, Read, GateIInv, Exact, history
    <2>. QED  BY <1>3, <2>2, <2>4, GateAlone DEF ReadBuild, GateTyped
  <1>. QED  BY <1>4, <1>5

LEMMA ContextIsRead ==
    ASSUME GateIInv, gate.at = "checking"
    PROVE  Context = Read(tree)
  BY GateUnderWay DEF GateIInv, GateIsTrue, Context, Read

LEMMA RunCheckKeeps ==
    ASSUME GateIInv, NEW c \in Check, RunCheck(c)
    PROVE  GateIInv'
  <1>1. gate \in GateRuns /\ gate # NoRun /\ gate.keys = Key(tree) /\ ~gate.ok
        /\ gate.at = "checking" /\ c \in gate.todo /\ UNCHANGED <<tree, history>>
    BY GateUnderWay DEF RunCheck, GateIInv, GateIsTrue
  <1>. DEFINE clean == (~gate.full /\ verified[c] = gate.keys) \/ Read(tree) \notin Broken[c]
             bad == IF clean THEN gate.bad ELSE gate.bad \union {c}
  <1>2. bad \in SUBSET Check /\ gate' = [gate EXCEPT !.todo = @ \ {c}, !.bad = bad]
    <2>1. Context = Read(tree)
      BY ContextIsRead DEF RunCheck
    <2>. QED  BY <1>1, <2>1 DEF RunCheck, GateRuns
  <1>3. /\ gate' \in GateRuns /\ gate'.at = "checking" /\ gate'.keys = gate.keys
        /\ gate'.ok = gate.ok /\ gate'.mode = gate.mode /\ gate'.provedBy = gate.provedBy
        /\ gate'.context = gate.context /\ gate'.todo = gate.todo \ {c} /\ gate'.bad = bad
        /\ gate'.full = gate.full
    <2>. HIDE DEF bad
    <2>. QED  BY <1>1, <1>2 DEF GateRuns
  <1>4. Exact /\ clean => Read(tree) \notin Broken[c]
    <2>1. ~unseen /\ verified[c] = gate.keys => Read(tree) \notin Broken[c]
      BY <1>1, GateUnderWay DEF GateIInv, MemoryIsTrue
    <2>. QED  BY <2>1 DEF Exact
  <1>5. /\ gate.bad \subseteq {d \in Check \ gate.todo : Read(tree) \in Broken[d]}
        /\ Exact => {d \in Check \ gate.todo : Read(tree) \in Broken[d]} \subseteq gate.bad
        /\ gate.context = tree.store /\ tree.store # None
        /\ gate.mode = "gate" /\ ~gate.provedBy /\ Exact => Read(tree) \notin Broken[Proof]
    BY <1>1 DEF GateIInv, GateIsTrue
  <1>6. /\ bad \subseteq {d \in Check \ gate'.todo : Read(tree) \in Broken[d]}
        /\ Exact => {d \in Check \ gate'.todo : Read(tree) \in Broken[d]} \subseteq bad
    BY <1>1, <1>3, <1>4, <1>5
  <1>7. Exact' <=> Exact
    BY <1>1, <1>3 DEF Exact, history
  <1>. HIDE DEF bad
  <1>8. GateIsTrue'
    BY <1>1, <1>3, <1>5, <1>6, <1>7 DEF GateIsTrue, Key, Read
  <1>9. RunsTogether'
    <2>1. gate' # NoRun
      BY <1>3 DEF NoRun
    <2>. QED  BY <1>1, <1>3, <2>1 DEF RunsTogether, RunCheck, GateIInv
  <1>. QED  BY <1>3, <1>8, <1>9, GateAlone DEF RunCheck, GateTyped

LEMMA EndGateKeeps ==
    ASSUME GateIInv, EndGate
    PROVE  GateIInv'
  <1>1. GateTyped' /\ GateIsTrue'
    BY DEF EndGate, GateTyped, GateIsTrue
  <1>2. RunsTogether'
    BY DEF EndGate, RunsTogether, GateIInv
  <1>. QED  BY <1>1, <1>2, GateAlone DEF EndGate

-----------------------------------------------------------------------------
(* test.py                                                                 *)

\* A trusted suite left out because it passed on these inputs would pass now.
LEMMA FreshPasses ==
    ASSUME GateIInv, NEW s \in Trusted, Fresh(s)
    PROVE  Read(tree) \notin Broken[s]
  <1>1. Names[s] # {} /\ passed[s] = Named(s, Key(tree)) /\ Key(tree) \in Keys
    BY KeyIsKey DEF Fresh, GateIInv
  <1>2. Told(Key(tree)) \notin Broken[s]
    BY <1>1 DEF GateIInv, MemoryIsTrue
  <1>. QED  BY <1>1, <1>2, NamedDecides DEF GateIInv

LEMMA TestRunTrue ==
    ASSUME GateIInv, NEW changed \in BOOLEAN
    PROVE  LET run == TestRun(changed)
           IN /\ run \in TestRuns /\ run # NoRun
              /\ run.keys = Key(tree) /\ run.todo \subseteq run.ran /\ run.at = "running"
              /\ run.bad = {s \in run.ran \ run.todo : Read(tree) \in Broken[s]}
              /\ \A s \in Trusted \ run.ran : Read(tree) \notin Broken[s]
              /\ run.changed = changed /\ (~changed => run.ran = Suite)
  <1>1. Key(tree) \in Keys
    BY KeyIsKey DEF GateIInv
  <1>2. \A s \in Suite \ TestRun(changed).ran : Fresh(s)
    BY DEF TestRun
  <1>3. Trusted \subseteq Suite
    BY DEF Trusted, Declaring
  <1>. QED  BY <1>1, <1>2, <1>3, FreshPasses DEF TestRun, TestRuns, NoRun

LEMMA StartTestsKeeps ==
    ASSUME GateIInv, NEW changed \in BOOLEAN, StartTests(changed)
    PROVE  GateIInv'
  <1>1. tests' = TestRun(changed) /\ UNCHANGED <<tree, history>>
    BY DEF StartTests, TestsAlone
  <1>2. TestsTyped' /\ TestsAreTrue' /\ tests' # NoRun
    BY <1>1, TestRunTrue DEF TestsTyped, TestsAreTrue, Key, Read, Trusted, history
  <1>3. RunsTogether'
    BY <1>2 DEF RunsTogether, StartTests, TestsAlone, Idle, GateIInv
  <1>4. pushing' \in BOOLEAN /\ pushed' \in BOOLEAN
    BY DEF StartTests, TestsAlone, GateIInv, GateTypeOK
  <1>. QED  BY <1>2, <1>3, <1>4, TestsAlones DEF StartTests, TestsAlone

LEMMA RunSuiteKeeps ==
    ASSUME GateIInv, NEW s \in Suite, RunSuite(s)
    PROVE  GateIInv'
  <1>1. tests \in TestRuns /\ tests # NoRun /\ s \in tests.todo /\ tests.at = "running"
        /\ UNCHANGED <<tree, history>>
    BY DEF RunSuite, GateIInv, GateTypeOK, NoRun
  <1>2. /\ tests.keys = Key(tree) /\ tests.todo \subseteq tests.ran
        /\ tests.bad = {r \in tests.ran \ tests.todo : Read(tree) \in Broken[r]}
        /\ \A r \in Trusted \ tests.ran : Read(tree) \notin Broken[r]
        /\ ~tests.changed => tests.ran = Suite
    BY <1>1 DEF GateIInv, TestsAreTrue
  <1>3. /\ tests' \in TestRuns /\ tests'.at = "running" /\ tests'.keys = tests.keys
        /\ tests'.ran = tests.ran /\ tests'.todo = tests.todo \ {s}
        /\ tests'.changed = tests.changed
        /\ tests'.bad = IF Read(tree) \in Broken[s] THEN tests.bad \union {s} ELSE tests.bad
    BY <1>1 DEF RunSuite, TestRuns
  <1>4. tests'.bad = {r \in tests'.ran \ tests'.todo : Read(tree) \in Broken[r]}
    BY <1>1, <1>2, <1>3
  <1>5. TestsAreTrue'
    BY <1>1, <1>2, <1>3, <1>4 DEF TestsAreTrue, Key, Read, Trusted, history
  <1>6. RunsTogether'
    <2>1. tests' # NoRun
      BY <1>3 DEF NoRun
    <2>. QED  BY <1>1, <1>3, <2>1 DEF RunsTogether, RunSuite, GateIInv
  <1>7. TestsTyped' /\ pushing' \in BOOLEAN /\ pushed' \in BOOLEAN
    BY <1>3 DEF TestsTyped, RunSuite, GateIInv, GateTypeOK
  <1>. QED  BY <1>5, <1>6, <1>7, TestsAlones DEF RunSuite

LEMMA EndTestsKeeps ==
    ASSUME GateIInv, EndTests
    PROVE  GateIInv'
  <1>1. TestsTyped' /\ TestsAreTrue' /\ RunsTogether'
    BY DEF EndTests, TestsTyped, TestsAreTrue, RunsTogether, GateIInv
  <1>2. pushing' \in BOOLEAN /\ pushed' \in BOOLEAN
    BY DEF EndTests, GateIInv, GateTypeOK
  <1>. QED  BY <1>1, <1>2, TestsAlones DEF EndTests

LEMMA TestsAnswerKeeps ==
    ASSUME GateIInv, TestsAnswer
    PROVE  GateIInv'
  <1>1. tests \in TestRuns /\ tests # NoRun /\ tests.todo = {}
        /\ UNCHANGED <<tree, verified, counted, proven, token, gate, cycle,
                       pushing, pushed, history>>
    BY DEF TestsAnswer, GateIInv, GateTypeOK, NoRun
  <1>2. /\ tests.keys = Key(tree) /\ tests.todo \subseteq tests.ran
        /\ tests.bad = {r \in tests.ran \ tests.todo : Read(tree) \in Broken[r]}
        /\ \A r \in Trusted \ tests.ran : Read(tree) \notin Broken[r]
        /\ ~tests.changed => tests.ran = Suite
    BY <1>1 DEF GateIInv, TestsAreTrue
  <1>3. tests' = [tests EXCEPT !.at = "done"]
    BY DEF TestsAnswer
  <1>4. /\ tests' \in TestRuns /\ tests'.at = "done" /\ tests'.keys = tests.keys
        /\ tests'.ran = tests.ran /\ tests'.todo = tests.todo /\ tests'.bad = tests.bad
        /\ tests'.changed = tests.changed
    BY <1>1, <1>3 DEF TestRuns
  <1>5. tests' # NoRun
    BY <1>4 DEF NoRun
  <1>6. TestsAreTrue'
    BY <1>1, <1>2, <1>4 DEF TestsAreTrue, Key, Read, Trusted, history
  <1>7. \A s \in Suite :
           passed'[s] = IF tests.changed /\ Names[s] # {} /\ s \in PassedNow
                        THEN Named(s, Key(tree)) ELSE passed[s]
    BY <1>2 DEF TestsAnswer
  <1>8. \A s \in Suite : Named(s, Key(tree)) \in [Names[s] -> Version \union {None}]
    BY NamedIsTyped, KeyIsKey DEF GateIInv
  <1>9. GateTypeOK'
    <2>1. \A s \in Suite :
             passed'[s] = None \/ passed'[s] \in [Names[s] -> Version \union {None}]
      BY <1>7, <1>8 DEF GateIInv, GateTypeOK
    <2>. QED  BY <1>1, <1>4, <2>1 DEF GateIInv, GateTypeOK, history
  <1>10. MemoryIsTrue'
    <2>1. ASSUME NEW s \in Trusted, NEW k \in Keys, Names[s] # {}, passed'[s] = Named(s, k)
          PROVE  Told(k) \notin Broken[s]
      <3>. s \in Suite
        BY DEF Trusted, Declaring
      <3>1. CASE tests.changed /\ s \in PassedNow
        <4>1. Named(s, k) = Named(s, Key(tree))
          BY <1>7, <2>1, <3>1
        <4>2. Read(tree) \notin Broken[s]
          BY <1>1, <1>2, <3>1 DEF PassedNow
        <4>. QED  BY <2>1, <4>1, <4>2, NamedDecides DEF GateIInv
      <3>2. CASE ~(tests.changed /\ s \in PassedNow)
        BY <1>7, <2>1, <3>2 DEF GateIInv, MemoryIsTrue
      <3>. QED  BY <3>1, <3>2
    <2>2. Trusted' = Trusted
      BY <1>1 DEF Trusted, history
    <2>3. \A t \in Tree : NewFilesStay(t)' <=> NewFilesStay(t)
      BY <1>1 DEF NewFilesStay, history
    <2>. QED  BY <1>1, <2>1, <2>2, <2>3 DEF GateIInv, MemoryIsTrue, history, NewFilesStay
  <1>11. Synced' /\ GateIsTrue'
    BY <1>1 DEF GateIInv, Synced, GateIsTrue, Exact, history
  <1>12. RunsTogether'
    BY <1>1, <1>4, <1>5 DEF GateIInv, RunsTogether
  <1>. QED  BY <1>6, <1>9, <1>10, <1>11, <1>12 DEF GateIInv

-----------------------------------------------------------------------------
(* The answer of the gate.                                                 *)

\* The number the ratchet sees is the one there is, or one within the budget
\* remembered of a store no digest shows.
LEMMA MeasuredIsCount ==
    ASSUME GateIInv, gate.at = "checking"
    PROVE  /\ Measured \in Nat
           /\ Exact => Measured = Count[Read(tree)]
           /\ Count[Read(tree)] <= tree.budget => Measured <= tree.budget
  <1>1. Context = Read(tree)
    BY ContextIsRead
  <1>2. (~unseen => Told(gate.keys) = Read(tree)) /\ Read(tree) \in Inputs
    BY GateUnderWay
  <1>3. ~unseen /\ counted # None /\ counted.on = gate.keys => counted.n = Count[Read(tree)]
    BY <1>2 DEF GateIInv, MemoryIsTrue
  <1>4. counted # None => counted.n \in Nat
    BY DEF GateIInv, GateTypeOK
  <1>. QED  BY <1>1, <1>2, <1>3, <1>4, GateAssumption DEF Measured, Exact

\* A tree the gate passed is told from every other by what the token covers and
\* by the files it does not cover.
LEMMA CoveredDecides ==
    ASSUME NEW t \in Tree, NEW u \in Tree, t.store = t.build, u.store = u.build,
           Covered(t) = Covered(u), ChecksPass(t),
           \A f \in File : f \notin u.source.tracked \cap t.source.tracked =>
               u.source.file[f] = t.source.file[f]
    PROVE  ChecksPass(u)
  <1>1. t.source \in Source /\ u.source \in Source
    BY GateAssumption DEF Tree
  <1>2. /\ \A f \in File : (IF f \in t.source.tracked THEN t.source.file[f] ELSE None)
                         = (IF f \in u.source.tracked THEN u.source.file[f] ELSE None)
        /\ t.build = u.build /\ t.budget = u.budget
    BY DEF Covered
  <1>3. \A f \in File : u.source.file[f] = t.source.file[f]
    BY <1>2
  <1>4. t.source.file = u.source.file
    BY <1>1, <1>3 DEF Source, Files
  <1>5. Read(t) = Read(u) /\ t.store = u.store
    BY <1>2, <1>4 DEF Read
  <1>. QED  BY <1>2, <1>5 DEF ChecksPass

LEMMA GateAnswersKeeps ==
    ASSUME GateIInv, GateAnswers
    PROVE  GateIInv'
  <1>. DEFINE n == Measured
              ok == gate.bad = {} /\ n <= tree.budget
              after == IF gate.mode = "gate" /\ n < tree.budget
                       THEN [tree EXCEPT !.budget = n] ELSE tree
  <1>1. /\ gate \in GateRuns /\ gate # NoRun /\ gate.keys = Key(tree) /\ gate.keys \in Keys
        /\ ~unseen => Told(gate.keys) = Read(tree)
        /\ Read(tree) \in Inputs
        /\ gate.at = "checking" /\ gate.todo = {}
    BY GateUnderWay DEF GateAnswers
  <1>2. /\ gate.bad \subseteq {c \in Check : Read(tree) \in Broken[c]} /\ tree.store # None
        /\ Exact => {c \in Check : Read(tree) \in Broken[c]} \subseteq gate.bad
        /\ gate.mode = "gate" /\ ~gate.provedBy /\ Exact => Read(tree) \notin Broken[Proof]
    BY <1>1 DEF GateIInv, GateIsTrue
  <1>3. /\ n \in Nat
        /\ Exact => n = Count[Read(tree)]
        /\ Count[Read(tree)] <= tree.budget => n <= tree.budget
    BY <1>1, MeasuredIsCount
  <1>4. /\ Remember(n) /\ gate' = [gate EXCEPT !.at = "done", !.ok = ok]
        /\ IF gate.mode = "gate" /\ ok
           THEN /\ token' = Covered(after) /\ beside' = tree.source
                /\ \E now \in Minute : tree' = [after EXCEPT !.tracker = now]
           ELSE token' = token /\ beside' = beside /\ tree' = after
        /\ UNCHANGED <<passed, tests, cycle, pushing, pushed, unseen>>
    BY DEF GateAnswers
  <1>5. tree \in Tree /\ tree.budget \in Nat /\ (~unseen => tree.store = tree.build)
        /\ Count[Read(tree)] \in Nat
    BY <1>1, GateAssumption DEF GateIInv, GateTypeOK, Synced, Tree
  <1>. HIDE DEF n
  <1>6. /\ after \in Tree /\ after.source = tree.source /\ after.store = tree.store
        /\ after.build = tree.build /\ after.tracker = tree.tracker
        /\ after.budget = IF gate.mode = "gate" /\ n < tree.budget THEN n ELSE tree.budget
    BY <1>3, <1>5 DEF Tree
  <1>7. /\ ok \in BOOLEAN
        /\ ChecksPass(after) => ok
        /\ ok /\ Exact => ChecksPass(after)
    <2>1. Read(after) = Read(tree)
      BY <1>6 DEF Read
    <2>2. ASSUME ChecksPass(after) PROVE ok
      <3>1. Count[Read(tree)] <= after.budget /\ \A c \in Check : Read(tree) \notin Broken[c]
        BY <2>1, <2>2 DEF ChecksPass
      <3>2. after.budget <= tree.budget /\ after.budget \in Nat
        BY <1>3, <1>5, <1>6 DEF Tree
      <3>3. Count[Read(tree)] <= tree.budget
        BY <1>5, <3>1, <3>2
      <3>4. gate.bad = {}
        BY <1>2, <3>1
      <3>. QED  BY <1>3, <3>3, <3>4
    <2>3. ASSUME ok, Exact PROVE ChecksPass(after)
      <3>1. \A c \in Check : Read(tree) \notin Broken[c]
        BY <1>2, <2>3
      <3>2. Count[Read(tree)] <= after.budget
        BY <1>3, <1>5, <1>6, <2>3
      <3>. QED  BY <1>2, <1>6, <2>1, <3>1, <3>2 DEF ChecksPass
    <2>. QED  BY <2>2, <2>3
  <1>. HIDE DEF ok, after
  <1>8. /\ tree' \in Tree /\ tree'.source = tree.source /\ tree'.store = tree.store
        /\ tree'.build = tree.build /\ tree'.budget = after.budget
    BY <1>4, <1>5, <1>6 DEF Tree
  <1>9. Key(tree') = Key(tree) /\ Read(tree') = Read(tree)
    BY <1>8 DEF Key, Read
  <1>10. ChecksPass(tree') <=> ChecksPass(after)
    BY <1>6, <1>8 DEF ChecksPass, Read
  <1>11. /\ gate' \in GateRuns /\ gate'.at = "done" /\ gate'.ok = ok /\ gate'.keys = gate.keys
         /\ gate'.mode = gate.mode /\ gate'.provedBy = gate.provedBy /\ gate'.full = gate.full
    BY <1>1, <1>4, <1>7 DEF GateRuns
  <1>12. gate' # NoRun /\ (Exact' <=> Exact)
    BY <1>4, <1>11 DEF NoRun, Exact
  <1>13. /\ verified' \in [Check -> Keys \union {None}]
         /\ counted' = None \/ counted' \in [on : Keys, n : Nat]
         /\ proven' \in Keys \union {None}
    BY <1>1, <1>3, <1>4 DEF Remember, GateIInv, GateTypeOK
  <1>14. \/ token' = token /\ beside' = beside
         \/ ok /\ token' = Covered(after) /\ beside' = tree.source
    BY <1>4
  <1>15. GateTypeOK'
    <2>1. token' \in Covers \union {None} /\ beside' \in Sources \union {None}
      BY <1>5, <1>6, <1>14, CoveredIsTyped DEF GateIInv, GateTypeOK, Tree
    <2>. QED  BY <1>4, <1>8, <1>11, <1>13, <2>1 DEF GateIInv, GateTypeOK
  <1>16. Synced'
    BY <1>4, <1>5, <1>8 DEF Synced
  <1>17. MemoryIsTrue'
    <2>1. ~unseen => \A c \in Check : verified'[c] # None => Told(verified'[c]) \notin Broken[c]
      BY <1>1, <1>2, <1>4 DEF Remember, GateIInv, MemoryIsTrue, Exact
    <2>2. ~unseen => (counted' # None => counted'.n = Count[Told(counted'.on)])
      BY <1>1, <1>3, <1>4 DEF Remember, GateIInv, MemoryIsTrue, Exact
    <2>3. ~unseen => (proven' # None => Told(proven') \notin Broken[Proof])
      BY <1>1, <1>2, <1>4 DEF Remember, GateIInv, MemoryIsTrue, Exact
    <2>4. ASSUME ~unseen, NEW t \in Tree, t.store = t.build, token' = Covered(t),
                 \A f \in File : f \notin t.source.tracked \cap beside'.tracked =>
                     t.source.file[f] = beside'.file[f]
          PROVE  ChecksPass(t)
      <3>1. CASE token' = token /\ beside' = beside
        BY <2>4, <3>1 DEF GateIInv, MemoryIsTrue, NewFilesStay
      <3>2. CASE ok /\ token' = Covered(after) /\ beside' = tree.source
        <4>1. ChecksPass(after)
          BY <1>7, <2>4, <3>2 DEF Exact
        <4>2. \A f \in File : f \notin t.source.tracked \cap after.source.tracked =>
                  t.source.file[f] = after.source.file[f]
          BY <1>6, <2>4, <3>2
        <4>. QED  BY <1>5, <1>6, <2>4, <3>2, <4>1, <4>2, CoveredDecides
      <3>. QED  BY <1>14, <3>1, <3>2
    <2>5. \A s \in Trusted, k \in Keys :
             Names[s] # {} /\ passed'[s] = Named(s, k) => Told(k) \notin Broken[s]
      BY <1>4 DEF GateIInv, MemoryIsTrue
    <2>6. Trusted' = Trusted /\ unseen' = unseen
      BY <1>4 DEF Trusted
    <2>. QED  BY <2>1, <2>2, <2>3, <2>4, <2>5, <2>6 DEF MemoryIsTrue, NewFilesStay
  <1>18. GateIsTrue'
    <2>1. Exact /\ gate.mode = "gate" => gate.provedBy \/ Read(tree) \notin Broken[Proof]
      BY <1>2
    <2>. QED  BY <1>1, <1>7, <1>9, <1>10, <1>11, <1>12, <2>1 DEF GateIsTrue
  <1>19. TestsAreTrue'
    BY <1>4, <1>9 DEF GateIInv, TestsAreTrue, Trusted
  <1>20. RunsTogether'
    BY <1>1, <1>4, <1>8, <1>11, <1>12 DEF GateIInv, RunsTogether
  <1>. QED  BY <1>15, <1>16, <1>17, <1>18, <1>19, <1>20 DEF GateIInv

-----------------------------------------------------------------------------
(* cycle.py, the hook, the person, the build and the clock.                *)

LEMMA StartBothKeeps ==
    ASSUME GateIInv, NEW full \in BOOLEAN, StartBoth(full), pushing' \in BOOLEAN
    PROVE  GateIInv'
  <1>1. /\ gate' = GateRun("gate", full, ~full) /\ tests' = TestRun(~full)
        /\ cycle' = IF full THEN "full" ELSE "fast"
        /\ UNCHANGED <<tree, token, pushed, history>>
    BY DEF StartBoth
  <1>2. gate' \in GateRuns
    BY <1>1, GateRunTyped DEF GateIInv
  <1>3. /\ gate' # NoRun /\ gate'.keys = Key(tree) /\ gate'.ok = FALSE /\ gate'.mode = "gate"
        /\ gate'.full = full /\ gate'.provedBy = ~full /\ gate'.at = IF full THEN "proving" ELSE "reading"
        /\ gate'.todo = Check /\ gate'.bad = {}
    BY <1>1 DEF GateRun, NoRun
  <1>4. TestsAreTrue' /\ tests' # NoRun /\ TestsTyped' /\ tests'.changed = ~full
    BY <1>1, TestRunTrue DEF TestsAreTrue, TestsTyped, Key, Read, Trusted, history
  <1>5. GateIsTrue'
    BY <1>1, <1>3 DEF GateIsTrue, Key
  <1>6. RunsTogether'
    BY <1>1, <1>3, <1>4 DEF RunsTogether
  <1>7. \/ UNCHANGED memory
        \/ /\ verified' = [c \in Check |-> None] /\ passed' = [s \in Suite |-> None]
           /\ counted' = None /\ proven' = None
    BY DEF StartBoth
  <1>8. GateTypeOK'
    BY <1>1, <1>2, <1>4, <1>7 DEF GateTypeOK, GateIInv, TestsTyped, memory, history
  <1>9. MemoryIsTrue'
    <2>1. CASE UNCHANGED memory
      BY <1>1, <2>1, StillTrue DEF GateIInv
    <2>2. CASE /\ verified' = [c \in Check |-> None] /\ passed' = [s \in Suite |-> None]
               /\ counted' = None /\ proven' = None
      <3>1. \A s \in Suite, k \in Keys : passed'[s] # Named(s, k)
        BY <2>2, NamedIsTyped
      <3>2. Trusted \subseteq Suite /\ Trusted' = Trusted
        BY <1>1 DEF Trusted, Declaring, history
      <3>3. \A t \in Tree : NewFilesStay(t)' <=> NewFilesStay(t)
        BY <1>1 DEF NewFilesStay, history
      <3>. QED  BY <1>1, <2>2, <3>1, <3>2, <3>3 DEF GateIInv, MemoryIsTrue, history, NewFilesStay
    <2>. QED  BY <1>7, <2>1, <2>2
  <1>10. Synced'
    BY <1>1 DEF GateIInv, Synced, history
  <1>. QED  BY <1>4, <1>5, <1>6, <1>8, <1>9, <1>10 DEF GateIInv

LEMMA EndCycleKeeps ==
    ASSUME GateIInv, EndCycle
    PROVE  GateIInv'
  <1>1. GateTypeOK'
    BY DEF EndCycle, GateIInv, GateTypeOK, memory, history
  <1>2. Synced' /\ MemoryIsTrue'
    BY StillTrue DEF EndCycle, GateIInv, Synced, history
  <1>3. GateIsTrue' /\ TestsAreTrue' /\ RunsTogether'
    BY DEF EndCycle, GateIsTrue, TestsAreTrue, RunsTogether
  <1>. QED  BY <1>1, <1>2, <1>3 DEF GateIInv

LEMMA PushKeeps ==
    ASSUME GateIInv, Push
    PROVE  GateIInv'
  <1>1. CASE Held /\ pushed' = TRUE
             /\ UNCHANGED <<tree, memory, token, gate, tests, cycle, pushing, history>>
    <2>1. GateTypeOK'
      BY <1>1 DEF GateIInv, GateTypeOK, memory, history
    <2>2. Synced' /\ MemoryIsTrue'
      BY <1>1, StillTrue DEF GateIInv, Synced, history
    <2>3. GateIsTrue' /\ TestsAreTrue' /\ RunsTogether'
      BY <1>1 DEF GateIInv, GateIsTrue, TestsAreTrue, RunsTogether, Exact, Trusted, history
    <2>. QED  BY <2>1, <2>2, <2>3 DEF GateIInv
  <1>2. CASE StartBoth(FALSE) /\ pushing' = TRUE
    BY <1>2, StartBothKeeps
  <1>3. CASE TestsAlone(FALSE) /\ pushing' = TRUE
    <2>1. tests' = TestRun(FALSE)
          /\ UNCHANGED <<tree, memory, token, gate, cycle, pushed, history>>
      BY <1>3 DEF TestsAlone
    <2>2. TestsTyped' /\ TestsAreTrue' /\ tests' # NoRun /\ ~tests'.changed
      BY <2>1, TestRunTrue DEF TestsTyped, TestsAreTrue, Key, Read, Trusted, history
    <2>3. gate = NoRun /\ cycle = "none"
      BY <1>3 DEF Push, Idle
    <2>4. RunsTogether'
      BY <2>1, <2>2, <2>3 DEF RunsTogether
    <2>5. pushing' \in BOOLEAN /\ pushed' \in BOOLEAN
      BY <1>3, <2>1 DEF GateIInv, GateTypeOK
    <2>. QED  BY <2>1, <2>2, <2>4, <2>5, TestsAlones
  <1>. QED  BY <1>1, <1>2, <1>3 DEF Push

\* The tree is edited and built between runs, and digests are about any tree.
\* What a build that writes the store alone takes away is not claimed.
LEMMA TreeMoves ==
    ASSUME GateIInv, Idle, tree' \in Tree, Synced', pushed' \in BOOLEAN,
           unseen' \in BOOLEAN, unseen => unseen',
           UNCHANGED <<memory, token, gate, tests, cycle, pushing, beside>>
    PROVE  GateIInv'
  <1>1. GateTypeOK'
    BY DEF GateIInv, GateTypeOK, memory
  <1>2. MemoryIsTrue'
    <2>1. Trusted' \subseteq Trusted
      BY DEF Trusted
    <2>2. \A t \in Tree : NewFilesStay(t)' <=> NewFilesStay(t)
      BY DEF NewFilesStay
    <2>. QED  BY <2>1, <2>2 DEF GateIInv, MemoryIsTrue, memory, NewFilesStay
  <1>3. GateIsTrue' /\ TestsAreTrue' /\ RunsTogether'
    BY DEF GateIInv, GateIsTrue, TestsAreTrue, RunsTogether, Idle
  <1>. QED  BY <1>1, <1>2, <1>3 DEF GateIInv

LEMMA EditKeeps ==
    ASSUME GateIInv, NEW t \in Edited, Edit(t)
    PROVE  GateIInv'
  <1>1. tree \in Tree /\ (~unseen => tree.store = tree.build) /\ unseen \in BOOLEAN
    BY DEF GateIInv, GateTypeOK, Synced
  <1>2. Budgets \subseteq Nat
    BY GateAssumption DEF Budgets
  <1>3. t \in Tree /\ t.store = tree.store /\ t.build = tree.build
    BY <1>1, <1>2 DEF Edited, Tree
  <1>4. Synced'
    BY <1>1, <1>3 DEF Edit, Synced, history
  <1>. QED  BY <1>1, <1>3, <1>4, TreeMoves DEF Edit, history

LEMMA BuildKeeps ==
    ASSUME GateIInv, NEW v \in Version, NEW emit \in BOOLEAN, Build(v, emit)
    PROVE  GateIInv'
  <1>1. tree \in Tree /\ pushed \in BOOLEAN /\ unseen \in BOOLEAN
    BY DEF GateIInv, GateTypeOK
  <1>2. tree' = [tree EXCEPT !.store = v, !.build = IF emit THEN v ELSE @]
        /\ unseen' = (unseen \/ tree'.store # tree'.build)
    BY DEF Build
  <1>3. tree' \in Tree
    BY <1>1, <1>2 DEF Tree
  <1>4. Synced' /\ unseen' \in BOOLEAN /\ (unseen => unseen')
    BY <1>1, <1>2 DEF Synced
  <1>. QED  BY <1>1, <1>3, <1>4, TreeMoves DEF Build

LEMMA StepKeeps == GateIInv /\ [Next]_vars => GateIInv'
  <1>. SUFFICES ASSUME GateIInv, [Next]_vars PROVE GateIInv'
    OBVIOUS
  <1>1. ASSUME NEW mode \in {"gate", "runtime"}, NEW full \in BOOLEAN, StartGate(mode, full)
        PROVE  GateIInv'
    BY <1>1, StartGateKeeps
  <1>2. CASE Prove
    BY <1>2, ProveKeeps
  <1>3. CASE ReadBuild
    BY <1>3, ReadBuildKeeps
  <1>4. ASSUME NEW c \in Check, RunCheck(c) PROVE GateIInv'
    BY <1>4, RunCheckKeeps
  <1>5. CASE GateAnswers
    BY <1>5, GateAnswersKeeps
  <1>6. CASE EndGate
    BY <1>6, EndGateKeeps
  <1>7. ASSUME NEW changed \in BOOLEAN, StartTests(changed) PROVE GateIInv'
    BY <1>7, StartTestsKeeps
  <1>8. ASSUME NEW s \in Suite, RunSuite(s) PROVE GateIInv'
    BY <1>8, RunSuiteKeeps
  <1>9. CASE TestsAnswer
    BY <1>9, TestsAnswerKeeps
  <1>10. CASE EndTests
    BY <1>10, EndTestsKeeps
  <1>11. ASSUME NEW full \in BOOLEAN, StartCycle(full) PROVE GateIInv'
    <2>1. pushing' \in BOOLEAN
      BY <1>11 DEF StartCycle, GateIInv, GateTypeOK
    <2>. QED  BY <1>11, <2>1, StartBothKeeps DEF StartCycle
  <1>12. CASE EndCycle
    BY <1>12, EndCycleKeeps
  <1>13. CASE Push
    BY <1>13, PushKeeps
  <1>14. ASSUME NEW t \in Edited, Edit(t) PROVE GateIInv'
    BY <1>14, EditKeeps
  <1>15. ASSUME NEW v \in Version, NEW emit \in BOOLEAN, Build(v, emit) PROVE GateIInv'
    BY <1>15, BuildKeeps
  <1>16. CASE UNCHANGED vars
    <2>1. GateTypeOK'
      BY <1>16 DEF vars, GateIInv, GateTypeOK, memory, history
    <2>2. Synced' /\ MemoryIsTrue'
      BY <1>16, StillTrue DEF vars, GateIInv, Synced, history
    <2>3. GateIsTrue' /\ TestsAreTrue' /\ RunsTogether'
      BY <1>16 DEF vars, GateIInv, GateIsTrue, TestsAreTrue, RunsTogether, Exact, Trusted, history
    <2>. QED  BY <2>1, <2>2, <2>3 DEF GateIInv
  <1>. QED  BY <1>1, <1>2, <1>3, <1>4, <1>5, <1>6, <1>7, <1>8, <1>9, <1>10, <1>11, <1>12,
               <1>13, <1>14, <1>15, <1>16 DEF Next

LEMMA Inductive == Spec => []GateIInv
  BY InitIInv, StepKeeps, PTL DEF Spec

-----------------------------------------------------------------------------
(* The theorems.                                                           *)

\* The gate's memories, token and processes keep their types.
THEOREM TypeCorrectness == Spec => []GateTypeOK
  <1>1. GateIInv => GateTypeOK
    BY DEF GateIInv
  <1>. QED  BY <1>1, Inductive, PTL

\* What check.py and test.py remember to have passed passes on the tree as it is,
\* of the checks until a build writes the store alone and of a trusted suite.
THEOREM MemoryHolds == Spec => []RememberedIsTrue
  <1>1. GateIInv => RememberedIsTrue
    <2>. SUFFICES ASSUME GateIInv PROVE RememberedIsTrue
      OBVIOUS
    <2>1. Key(tree) # None /\ (~unseen => Told(Key(tree)) = Read(tree))
      BY ToldIsRead, KeyIsKey, GateAssumption DEF GateIInv
    <2>. QED  BY <2>1, FreshPasses DEF RememberedIsTrue, GateIInv, MemoryIsTrue
  <1>. QED  BY <1>1, Inductive, PTL

\* The gate faults no clean tree, and with --full, or from memory until a build
\* writes the store alone, lets by no other; the same of the cycle, which from
\* memory speaks for the trusted suites.
THEOREM VerdictHolds == Spec => []VerdictIsRight
  <1>1. GateIInv => VerdictIsRight
    <2>. SUFFICES ASSUME GateIInv, gate.at = "done", gate.mode = "gate"
                  PROVE  VerdictIsRight
      BY DEF VerdictIsRight
    <2>1. gate # NoRun
      BY DEF NoRun
    <2>2. /\ ChecksPass(tree) /\ (gate.provedBy \/ Read(tree) \notin Broken[Proof]) => gate.ok
          /\ gate.ok /\ (gate.full \/ ~unseen) =>
                ChecksPass(tree) /\ (gate.provedBy \/ Read(tree) \notin Broken[Proof])
      BY <2>1 DEF GateIInv, GateIsTrue, Exact
    <2>3. cycle = "none" => ~gate.provedBy
      BY <2>1 DEF GateIInv, RunsTogether
    <2>4. ASSUME cycle # "none", tests.at = "done"
          PROVE  /\ SuitesPass(tree) => tests.bad = {}
                 /\ tests.bad = {} => \A s \in Trusted : Read(tree) \notin Broken[s]
                 /\ tests.bad = {} /\ cycle = "full" => SuitesPass(tree)
      <3>1. tests # NoRun
        BY <2>4 DEF NoRun
      <3>2. /\ tests.todo = {} /\ tests.ran \subseteq Suite
            /\ tests.bad = {s \in tests.ran \ tests.todo : Read(tree) \in Broken[s]}
            /\ \A s \in Trusted \ tests.ran : Read(tree) \notin Broken[s]
            /\ cycle = "full" => tests.ran = Suite
        BY <2>4, <3>1 DEF GateIInv, TestsAreTrue, GateTypeOK, TestRuns, RunsTogether
      <3>3. Trusted \subseteq Suite
        BY DEF Trusted, Declaring
      <3>. QED  BY <3>2, <3>3 DEF SuitesPass
    <2>5. SuitesPass(tree) => Read(tree) \notin Broken[Proof]
      BY GateAssumption DEF SuitesPass
    <2>6. cycle = "full" => gate.full
      BY DEF GateIInv, RunsTogether
    <2>. QED  BY <2>2, <2>3, <2>4, <2>5, <2>6 DEF VerdictIsRight
  <1>. QED  BY <1>1, Inductive, PTL

\* The green-tree token vouches for no tree the gate would refuse, unless a build
\* wrote the store alone or a file that is not under git moved.
THEOREM TokenHolds == Spec => []HeldTreePassesChecks
  <1>1. GateIInv => HeldTreePassesChecks
    BY DEF HeldTreePassesChecks, Held, GateIInv, MemoryIsTrue, Synced, GateTypeOK
  <1>. QED  BY <1>1, Inductive, PTL

\* What goes past the hook on the token's word is what the token vouches for,
\* what the cycle let by passes the checks and the trusted suites, and what the
\* tests let by, where nothing is built, passes every suite.
THEOREM PushHolds == Spec => PushedChecksPass
  <1>. DEFINE Good ==
          /\ tests = NoRun => unseen \/ ~NewFilesStay(tree) \/ ChecksPass(tree')
          /\ cycle # "none" =>
                /\ unseen \/ ChecksPass(tree')
                /\ \A s \in Trusted : Read(tree') \notin Broken[s]
          /\ tests # NoRun /\ cycle = "none" => SuitesPass(tree')
  <1>1. GateIInv /\ [Next]_vars => [pushed' /\ ~pushed => Good]_vars
    <2>. SUFFICES ASSUME GateIInv, Next, pushed', ~pushed PROVE Good
      BY DEF vars
    <2>1. CASE EndTests
      <3>1. pushing /\ cycle = "none" /\ tests.bad = {} /\ tests.at = "done" /\ UNCHANGED tree
        BY <2>1 DEF EndTests
      <3>2. tests # NoRun
        BY <3>1 DEF NoRun
      <3>3. tests.todo = {} /\ tests.ran = Suite
            /\ tests.bad = {s \in tests.ran \ tests.todo : Read(tree) \in Broken[s]}
        BY <3>1, <3>2 DEF GateIInv, TestsAreTrue, RunsTogether
      <3>4. SuitesPass(tree')
        BY <3>1, <3>3 DEF SuitesPass
      <3>. QED  BY <3>1, <3>2, <3>4
    <2>2. CASE EndCycle
      <3>1. gate.ok /\ gate.at = "done" /\ cycle # "none" /\ tests.bad = {}
            /\ tests.at = "done" /\ UNCHANGED tree
        BY <2>2 DEF EndCycle
      <3>2. gate # NoRun /\ gate.mode = "gate" /\ tests # NoRun
        BY <3>1 DEF GateIInv, RunsTogether
      <3>3. unseen \/ ChecksPass(tree)
        BY <3>1, <3>2 DEF GateIInv, GateIsTrue, Exact
      <3>4. /\ tests.todo = {} /\ tests.bad = {s \in tests.ran \ tests.todo : Read(tree) \in Broken[s]}
            /\ \A s \in Trusted \ tests.ran : Read(tree) \notin Broken[s]
        BY <3>1, <3>2 DEF GateIInv, TestsAreTrue
      <3>5. \A s \in Trusted : Read(tree) \notin Broken[s]
        BY <3>1, <3>4
      <3>. QED  BY <3>1, <3>2, <3>3, <3>5
    <2>3. CASE Push
      <3>1. Held /\ Idle /\ UNCHANGED tree
        BY <2>3 DEF Push, StartBoth, TestsAlone
      <3>2. unseen \/ ~NewFilesStay(tree) \/ ChecksPass(tree)
        BY <3>1 DEF Held, GateIInv, MemoryIsTrue, Synced, GateTypeOK
      <3>. QED  BY <3>1, <3>2 DEF Idle
    <2>4. EndTests \/ EndCycle \/ Push \/ pushed' = pushed \/ pushed' = FALSE
      BY DEF Next, StartGate, Prove, ReadBuild, RunCheck, GateAnswers, EndGate,
             StartTests, TestsAlone, RunSuite, TestsAnswer, StartCycle, StartBoth, Edit, Build
    <2>. QED  BY <2>1, <2>2, <2>3, <2>4
  <1>. QED  BY <1>1, Inductive, PTL DEF Spec, PushedChecksPass
=============================================================================
