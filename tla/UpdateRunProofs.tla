--------------------------- MODULE UpdateRunProofs ---------------------------
(***************************************************************************)
(* Proofs about the update run, for any commands, platforms and names: the *)
(* types, that what is published the branch holds, and that runs do not    *)
(* work against each other in the tracker.                                 *)
(***************************************************************************)
EXTENDS UpdateRun, TLAPS

Good(capture) == \A p \in Own : capture[p] = "good"

\* What the branch holds, and the release beside it.
BranchIsGood == Good(remote.capture) /\ Good(published.capture)
                /\ published.names \subseteq remote.names

Before(at) == at \in {"stages", "compile", "audit", "recompile", "record", "push", "naming"}

\* The names a run has: those of the branch up to the naming job, more after
\* it, and in its store no more than in its tree once they are judged in.
RunNames ==
    /\ remote.names \subseteq run.tree.names
    /\ Before(run.at) => run.tree.names = remote.names /\ run.store.names \subseteq remote.names
    /\ run.at = "landing" /\ run.verdict = "committed" => run.store.names \subseteq run.tree.names
    /\ run.pushed => run.at \in {"putback", "publish", "sync"}
    /\ run.at = "putback" /\ NamesLanded => run.store.names \subseteq remote.names
    /\ run.kept # NoStore => run.kept.names \subseteq remote.names

\* The captures: a run that has not failed has a good tree and a good store
\* once the audit has set back what moved and the store is compiled again.
RunCaptures ==
    /\ Good(run.head.capture)
    /\ run.at = "audit" => run.store.capture = run.tree.capture
    /\ run.at = "recompile" => Good(run.tree.capture)
    /\ ~run.failed /\ run.at \in {"record", "push", "naming", "landing", "putback"} =>
            Good(run.tree.capture) /\ Good(run.store.capture)
    /\ run.kept # NoStore => Good(run.kept.capture)

\* How far a run that failed goes.
RunOrder ==
    /\ run.at \in {"push", "naming", "landing", "publish"} => ~run.failed
    /\ run.at \in {"naming", "landing", "publish"} => run.kept # NoStore
    /\ run.at = "putback" /\ ~run.failed => run.kept # NoStore
    /\ run.at = "publish" => Good(run.store.capture) /\ run.store.names \subseteq remote.names

UpdateIInv ==
    /\ UpdateTypeOK /\ BranchIsGood
    /\ run # NoRun => RunNames /\ RunCaptures /\ RunOrder

-----------------------------------------------------------------------------
(* A run under way is a run, and the one there is not has no stage of one. *)
LEMMA RunIsTyped ==
    ASSUME UpdateTypeOK, run.at # "off"
    PROVE  run \in Run /\ run # NoRun
  BY DEF UpdateTypeOK, NoRun

LEMMA NoRunIsNoRun == \A r \in Run : r # NoRun /\ r.at # "off"
  BY DEF Run, NoRun, Stage

LEMMA StoreIsNoNoStore == \A s \in Store : s # NoStore
  <1>. SUFFICES ASSUME NEW s \in Store, s = NoStore PROVE FALSE
    OBVIOUS
  <1>1. "capture" \in DOMAIN s
    BY DEF Store
  <1>2. "capture" \notin DOMAIN NoStore
    BY DEF NoStore
  <1>. QED  BY <1>1, <1>2

LEMMA InitIInv == Init => UpdateIInv
  BY UpdateAssumption DEF Init, UpdateIInv, UpdateTypeOK, BranchIsGood, Good, NoRun,
     CompiledFrom, Tree, Store, Ledger, Capture

(* Each step keeps the invariant: first that the run it leaves is a run,   *)
(* then the names and the captures it has there.                           *)
LEMMA StartKeeps == UpdateIInv /\ Start => UpdateIInv'
  <1>. SUFFICES ASSUME UpdateIInv, Start PROVE UpdateIInv'
    OBVIOUS
  <1>1. run' \in Run
    BY DEF UpdateIInv, UpdateTypeOK, Start, Run, Stage, Unseen
  <1>. QED
    BY <1>1 DEF UpdateIInv, UpdateTypeOK, BranchIsGood, Start, RunNames,
       RunCaptures, RunOrder,
       Before, NamesLanded, Good

LEMMA FailKeeps == UpdateIInv /\ Fail => UpdateIInv'
  <1>. SUFFICES ASSUME UpdateIInv, Fail PROVE UpdateIInv'
    OBVIOUS
  <1>1. run \in Run /\ NextAlways(run.at) \in {"record", "putback", "sync"}
    BY DEF UpdateIInv, UpdateTypeOK, Fail, NextAlways
  <1>2. /\ run' = [run EXCEPT !.failed = TRUE, !.at = NextAlways(run.at)]
        /\ run' \in Run
    BY <1>1 DEF Fail, Fails, Run, Stage
  <1>3. /\ run'.at = NextAlways(run.at) /\ run'.failed
        /\ run'.head = run.head /\ run'.tree = run.tree /\ run'.store = run.store
        /\ run'.kept = run.kept /\ run'.verdict = run.verdict /\ run'.pushed = run.pushed
    BY <1>1, <1>2 DEF Run
  <1>4. run.at \in Stage /\ run.at \notin {"naming", "landing", "sync"}
    BY <1>1 DEF Run, Fail
  <1>. QED
    BY <1>1, <1>2, <1>3, <1>4 DEF UpdateIInv, UpdateTypeOK, BranchIsGood, Fail,
       RunNames,
       RunCaptures, RunOrder, Before, NamesLanded, NextAlways, Stage

LEMMA LoseKeeps == UpdateIInv /\ (Lose \/ Finish) => UpdateIInv'
  BY DEF UpdateIInv, UpdateTypeOK, BranchIsGood, Lose, Finish, NoRun

LEMMA StagesKeeps == UpdateIInv /\ Stages => UpdateIInv'
  <1>. SUFFICES ASSUME UpdateIInv, Stages PROVE UpdateIInv'
    OBVIOUS
  <1>1. run \in Run /\ run # NoRun
    BY RunIsTyped, NoRunIsNoRun DEF UpdateIInv, Stages, NoRun
  <1>2. run' \in Run
    <2>1. PICK outcome \in [Adapter -> {"none", "ok", "fail"}], capture \in Capture :
            run' = [run EXCEPT
                !.outcome = [s \in Source |-> IF s \in Adapter THEN outcome[s] ELSE "none"],
                !.tree.capture = [p \in Platform |->
                    IF capture[p] = "moved" THEN "moved" ELSE @[p]],
                !.at = "compile"]
      BY DEF Stages
    <2>. DEFINE now == [s \in Source |-> IF s \in Adapter THEN outcome[s] ELSE "none"]
                found == [p \in Platform |-> IF capture[p] = "moved" THEN "moved"
                                             ELSE run.tree.capture[p]]
                tree == [run.tree EXCEPT !.capture = found]
    <2>2. now \in [Source -> {"none", "ok", "fail"}]
      BY <2>1
    <2>3. run.tree \in Tree /\ run.tree.capture \in Capture
      BY <1>1 DEF Run, Tree
    <2>4. found \in Capture
      BY <2>3 DEF Capture
    <2>5. tree \in Tree
      BY <2>3, <2>4 DEF Tree
    <2>6. run' = [run EXCEPT !.outcome = now, !.tree = tree, !.at = "compile"]
      BY <1>1, <2>1, <2>3 DEF Run
    <2>. HIDE DEF now, found, tree
    <2>. QED  BY <1>1, <2>2, <2>5, <2>6 DEF Run, Stage
  <1>3. /\ run'.head = run.head /\ run'.kept = run.kept /\ run'.verdict = run.verdict
        /\ run'.pushed = run.pushed /\ run'.failed = run.failed
        /\ run'.tree.names = run.tree.names /\ run'.store = run.store /\ run'.at = "compile"
    BY <1>1 DEF Stages, Run, Tree, Capture, Ledger
  <1>. QED
    BY <1>1, <1>2, <1>3 DEF Stages,
       UpdateIInv, UpdateTypeOK, BranchIsGood, RunNames,
       RunCaptures, RunOrder, Before, NamesLanded, Good

LEMMA CompileKeeps == UpdateIInv /\ Compile => UpdateIInv'
  <1>. SUFFICES ASSUME UpdateIInv, Compile PROVE UpdateIInv'
    OBVIOUS
  <1>1. run \in Run /\ run # NoRun
    BY RunIsTyped, NoRunIsNoRun DEF UpdateIInv, Compile, NoRun
  <1>2. run' \in Run
    BY <1>1 DEF UpdateIInv, UpdateTypeOK, Compile, Run, Stage, CompiledFrom, Tree,
       Store
  <1>3. /\ run'.head = run.head /\ run'.kept = run.kept /\ run'.verdict = run.verdict
        /\ run'.pushed = run.pushed /\ run'.failed = run.failed
        /\ run'.tree = run.tree /\ run'.at = "audit"
        /\ run'.store.capture = run.tree.capture /\ run'.store.names = run.tree.names
    BY <1>1 DEF Compile, Run, CompiledFrom, Tree, Store
  <1>. QED
    BY <1>1, <1>2, <1>3 DEF Compile,
       UpdateIInv, UpdateTypeOK, BranchIsGood, RunNames,
       RunCaptures, RunOrder, Before, NamesLanded, Good

LEMMA FieldAuditKeeps == UpdateIInv /\ FieldAudit => UpdateIInv'
  <1>. SUFFICES ASSUME UpdateIInv, FieldAudit PROVE UpdateIInv'
    OBVIOUS
  <1>1. run \in Run /\ run # NoRun
    BY RunIsTyped, NoRunIsNoRun DEF UpdateIInv, FieldAudit, NoRun
  <1>2. run' \in Run
    <2>. DEFINE back == Moved(run.store) \intersect Own
                kept == [p \in Platform |-> IF p \in back THEN run.head.capture[p]
                                            ELSE run.tree.capture[p]]
                seen == [s \in Source |-> IF s \in Adapter THEN run.outcome[s]
                             ELSE IF s \in Moved(run.store) THEN "fail" ELSE "ok"]
                tree == [run.tree EXCEPT !.capture = kept]
                next == IF back # {} THEN "recompile" ELSE "record"
    <2>1. /\ run.tree \in Tree /\ run.tree.capture \in Capture
          /\ run.head \in Tree /\ run.head.capture \in Capture
          /\ run.outcome \in [Source -> {"none", "ok", "fail"}]
      BY <1>1 DEF Run, Tree
    <2>2. kept \in Capture
      BY <2>1 DEF Capture
    <2>3. tree \in Tree
      BY <2>1, <2>2 DEF Tree
    <2>4. seen \in [Source -> {"none", "ok", "fail"}]
      BY <2>1
    <2>5. run' = [run EXCEPT !.tree = tree, !.outcome = seen, !.at = next]
      BY <1>1, <2>1 DEF FieldAudit, Run
    <2>6. next \in Stage
      BY DEF Stage
    <2>. HIDE DEF kept, seen, tree, next
    <2>. QED  BY <1>1, <2>3, <2>4, <2>5, <2>6 DEF Run
  <1>3. /\ run'.head = run.head /\ run'.kept = run.kept /\ run'.verdict = run.verdict
        /\ run'.pushed = run.pushed /\ run'.failed = run.failed
        /\ run'.tree.names = run.tree.names /\ run'.store = run.store
        /\ run'.at \in {"recompile", "record"}
        /\ run'.at = "record" => Moved(run.store) \intersect Own = {}
        /\ \A p \in Platform : run'.tree.capture[p] =
              IF p \in Moved(run.store) \intersect Own THEN run.head.capture[p]
              ELSE run.tree.capture[p]
    BY <1>1 DEF FieldAudit, Run, Tree, Store, Capture, Moved
  <1>4. UNCHANGED <<remote, published, issues>> /\ run.at = "audit"
    BY DEF FieldAudit
  <1>5. UpdateTypeOK' /\ BranchIsGood'
    BY <1>1, <1>2, <1>3, <1>4 DEF UpdateIInv, UpdateTypeOK, BranchIsGood
  <1>6. RunNames' /\ RunOrder'
    BY <1>1, <1>2, <1>3, <1>4 DEF UpdateIInv, RunNames, RunOrder, Before, NamesLanded
  <1>7. Own \subseteq Platform /\ run.store.capture = run.tree.capture
    BY <1>1, <1>4, UpdateAssumption DEF UpdateIInv, RunCaptures
  <1>8. Good(run.head.capture) /\ (run.kept # NoStore => Good(run.kept.capture))
    BY <1>1 DEF UpdateIInv, RunCaptures
  <1>9. run.tree.capture \in Capture
    BY <1>1 DEF Run, Tree
  <1>10. Good(run'.tree.capture)
    BY <1>3, <1>7, <1>8, <1>9 DEF Good, Moved, Capture
  <1>11. run'.at = "record" => Good(run'.store.capture)
    BY <1>3, <1>7, <1>9 DEF Good, Moved, Capture
  <1>12. RunCaptures'
    BY <1>3, <1>8, <1>10, <1>11 DEF RunCaptures, Good
  <1>. QED  BY <1>5, <1>6, <1>12 DEF UpdateIInv

LEMMA RecompileKeeps == UpdateIInv /\ Recompile => UpdateIInv'
  <1>. SUFFICES ASSUME UpdateIInv, Recompile PROVE UpdateIInv'
    OBVIOUS
  <1>1. run \in Run /\ run # NoRun
    BY RunIsTyped, NoRunIsNoRun DEF UpdateIInv, Recompile, NoRun
  <1>2. run' \in Run
    BY <1>1 DEF UpdateIInv, UpdateTypeOK, Recompile, Run, Stage, CompiledFrom, Tree,
       Store
  <1>3. /\ run'.head = run.head /\ run'.kept = run.kept /\ run'.verdict = run.verdict
        /\ run'.pushed = run.pushed /\ run'.failed = run.failed
        /\ run'.tree = run.tree /\ run'.at = "record"
        /\ run'.store.capture = run.tree.capture /\ run'.store.names = run.tree.names
    BY <1>1 DEF Recompile, Run, CompiledFrom, Tree, Store
  <1>. QED
    BY <1>1, <1>2, <1>3 DEF Recompile,
       UpdateIInv, UpdateTypeOK, BranchIsGood, RunNames,
       RunCaptures, RunOrder, Before, NamesLanded, Good

(* The counts of the ledger stay within what it holds.                     *)
LEMMA RecordedLedger ==
    ASSUME NEW ledger \in Ledger, NEW outcome \in [Source -> {"none", "ok", "fail"}]
    PROVE  Recorded(ledger, outcome) \in Ledger
  BY UpdateAssumption DEF Recorded, Ledger

LEMMA RecordKeeps == UpdateIInv /\ Record => UpdateIInv'
  <1>. SUFFICES ASSUME UpdateIInv, Record PROVE UpdateIInv'
    OBVIOUS
  <1>1. run \in Run /\ run # NoRun
    BY RunIsTyped, NoRunIsNoRun DEF UpdateIInv, Record, NoRun
  <1>2. run' \in Run
    BY <1>1, RecordedLedger DEF UpdateIInv, UpdateTypeOK, Record, Run, Stage, Tree,
       Unseen
  <1>3. /\ run'.head = run.head /\ run'.kept = run.kept /\ run'.verdict = run.verdict
        /\ run'.pushed = run.pushed /\ run'.failed = run.failed
        /\ run'.tree.names = run.tree.names /\ run'.store = run.store
        /\ run'.tree.capture = run.tree.capture
        /\ run'.at = IF run.failed THEN "putback" ELSE "push"
    BY <1>1, RecordedLedger DEF Record, Run, Tree, Unseen
  <1>. QED
    BY <1>1, <1>2, <1>3 DEF Record,
       UpdateIInv, UpdateTypeOK, BranchIsGood, RunNames,
       RunCaptures, RunOrder, Before, NamesLanded, Good

LEMMA PushKeeps == UpdateIInv /\ Push => UpdateIInv'
  <1>. SUFFICES ASSUME UpdateIInv, Push PROVE UpdateIInv'
    OBVIOUS
  <1>1. run \in Run /\ run # NoRun
    BY RunIsTyped, NoRunIsNoRun DEF UpdateIInv, Push, NoRun
  <1>2. run' \in Run
    BY <1>1 DEF UpdateIInv, UpdateTypeOK, Push, Run, Stage
  <1>3. /\ run'.head = run.tree /\ run'.kept = run.store /\ run'.tree = run.tree
        /\ run'.store = run.store /\ run'.at = "naming" /\ run'.pushed = run.pushed
        /\ run'.failed = run.failed
    BY <1>1 DEF Push, Run
  <1>4. UpdateTypeOK'
    BY <1>1, <1>2, <1>3 DEF Push, Run, UpdateIInv, UpdateTypeOK, RunOrder
  <1>5. BranchIsGood'
    BY <1>1, <1>2, <1>3 DEF Push, UpdateIInv, BranchIsGood, Good, RunOrder,
       RunCaptures, RunNames
  <1>6. RunNames'
    BY <1>1, <1>2, <1>3 DEF Push, UpdateIInv, RunNames, RunOrder, Before, NamesLanded
  <1>7. RunCaptures'
    BY <1>1, <1>2, <1>3 DEF Push, UpdateIInv, RunCaptures, RunOrder, Good
  <1>8. RunOrder'
    BY <1>1, <1>2, <1>3, StoreIsNoNoStore DEF Push, Run, UpdateIInv, RunOrder,
       RunNames, RunCaptures, NamesLanded, Good
  <1>. QED  BY <1>4, <1>5, <1>6, <1>7, <1>8 DEF UpdateIInv

LEMMA NamingIdleKeeps == UpdateIInv /\ NamingIdle => UpdateIInv'
  <1>. SUFFICES ASSUME UpdateIInv, NamingIdle PROVE UpdateIInv'
    OBVIOUS
  <1>1. run \in Run /\ run # NoRun
    BY RunIsTyped, NoRunIsNoRun DEF UpdateIInv, NamingIdle, NoRun
  <1>2. run' \in Run
    BY <1>1 DEF UpdateIInv, UpdateTypeOK, NamingIdle, Run, Stage
  <1>3. /\ run'.head = run.head /\ run'.kept = run.kept
        /\ run'.tree = run.tree /\ run'.store = run.store /\ run'.failed = run.failed
        /\ run'.pushed = run.pushed
        /\ \/ run'.at = "putback" \/ (run'.at = "landing" /\ run'.verdict = "refused")
    BY <1>1 DEF NamingIdle, Run
  <1>4. UpdateTypeOK'
    BY <1>1, <1>2, <1>3 DEF NamingIdle, UpdateIInv, UpdateTypeOK, RunOrder
  <1>5. BranchIsGood'
    BY <1>1, <1>2, <1>3 DEF NamingIdle, UpdateIInv, BranchIsGood, Good, RunOrder,
       RunCaptures, RunNames
  <1>6. RunNames'
    BY <1>1, <1>2, <1>3 DEF NamingIdle, UpdateIInv, RunNames, RunOrder, Before,
       NamesLanded
  <1>7. RunCaptures'
    BY <1>1, <1>2, <1>3 DEF NamingIdle, UpdateIInv, RunCaptures, RunOrder, Good
  <1>8. RunOrder'
    BY <1>1, <1>2, <1>3 DEF NamingIdle, UpdateIInv, RunOrder, RunNames, RunCaptures,
       NamesLanded, Good
  <1>. QED  BY <1>4, <1>5, <1>6, <1>7, <1>8 DEF UpdateIInv

LEMMA JudgeKeeps == UpdateIInv /\ Judge => UpdateIInv'
  <1>. SUFFICES ASSUME UpdateIInv, Judge PROVE UpdateIInv'
    OBVIOUS
  <1>1. run \in Run /\ run # NoRun
    BY RunIsTyped, NoRunIsNoRun DEF UpdateIInv, Judge, NoRun
  <1>2. run' \in Run
    <2>1. PICK a \in Answer \ run.tree.names, verdict \in {"refused", "committed"} :
            run' = [run EXCEPT !.store.names = @ \union {a},
                               !.tree.names = IF verdict = "committed" THEN @ \union {a} ELSE @,
                               !.verdict = verdict, !.at = "landing"]
      BY DEF Judge
    <2>. DEFINE store == [run.store EXCEPT !.names = @ \union {a}]
                tree == [run.tree EXCEPT !.names =
                             IF verdict = "committed" THEN @ \union {a} ELSE @]
    <2>2. run.store \in Store /\ run.tree \in Tree
      BY <1>1 DEF Run
    <2>3. store \in Store /\ tree \in Tree
      BY <2>1, <2>2 DEF Store, Tree
    <2>4. run' = [run EXCEPT !.store = store, !.tree = tree, !.verdict = verdict, !.at = "landing"]
      BY <1>1, <2>1, <2>2 DEF Run
    <2>. HIDE DEF store, tree
    <2>. QED  BY <1>1, <2>1, <2>3, <2>4 DEF Run, Stage
  <1>3. /\ run'.head = run.head /\ run'.kept = run.kept
        /\ run'.tree.capture = run.tree.capture /\ run'.store.capture = run.store.capture
        /\ run'.failed = run.failed /\ run'.pushed = run.pushed /\ run'.at = "landing"
        /\ run.tree.names \subseteq run'.tree.names
        /\ run'.verdict = "committed" => \E a \in Answer :
              /\ run'.tree.names = run.tree.names \union {a}
              /\ run'.store.names = run.store.names \union {a}
    BY <1>1 DEF Judge, Run, Tree, Store
  <1>4. UpdateTypeOK'
    BY <1>1, <1>2, <1>3 DEF Judge, UpdateIInv, UpdateTypeOK, RunOrder
  <1>5. BranchIsGood'
    BY <1>1, <1>2, <1>3 DEF Judge, UpdateIInv, BranchIsGood, Good, RunOrder,
       RunCaptures, RunNames
  <1>6. RunNames'
    BY <1>1, <1>2, <1>3 DEF Judge, UpdateIInv, RunNames, RunOrder, Before, NamesLanded
  <1>7. RunCaptures'
    <2>1. run.at = "naming" /\ RunCaptures /\ RunOrder
      BY <1>1 DEF Judge, UpdateIInv
    <2>2. Good(run.tree.capture) /\ Good(run.store.capture)
      BY <2>1 DEF RunCaptures, RunOrder
    <2>. QED  BY <1>3, <2>1, <2>2 DEF RunCaptures, Good
  <1>8. RunOrder'
    BY <1>1, <1>2, <1>3 DEF Judge, UpdateIInv, RunOrder, RunNames, RunCaptures,
       NamesLanded, Good
  <1>. QED  BY <1>4, <1>5, <1>6, <1>7, <1>8 DEF UpdateIInv

LEMMA LandKeeps == UpdateIInv /\ Land => UpdateIInv'
  <1>. SUFFICES ASSUME UpdateIInv, Land PROVE UpdateIInv'
    OBVIOUS
  <1>1. run \in Run /\ run # NoRun
    BY RunIsTyped, NoRunIsNoRun DEF UpdateIInv, Land, NoRun
  <1>2. run' \in Run
    BY <1>1 DEF UpdateIInv, UpdateTypeOK, Land, Run, Stage, Tree
  <1>3. /\ run'.head = run.head /\ run'.kept = run.kept
        /\ run'.tree = run.tree /\ run'.store = run.store /\ run'.failed = run.failed
        /\ run'.verdict = run.verdict /\ run'.at = "putback"
        /\ remote'.names = run.tree.names /\ remote'.capture = remote.capture
    BY <1>1 DEF Land, Run, UpdateIInv, UpdateTypeOK, Tree
  <1>4. UpdateTypeOK'
    BY <1>1, <1>2, <1>3 DEF Land, Run, Tree, UpdateIInv, UpdateTypeOK, RunOrder
  <1>5. BranchIsGood'
    BY <1>1, <1>2, <1>3 DEF Land, UpdateIInv, BranchIsGood, Good, RunOrder,
       RunCaptures, RunNames
  <1>6. RunNames'
    BY <1>1, <1>2, <1>3 DEF Land, UpdateIInv, RunNames, RunOrder, Before, NamesLanded
  <1>7. RunCaptures'
    BY <1>1, <1>2, <1>3 DEF Land, UpdateIInv, RunCaptures, RunOrder, Good
  <1>8. RunOrder'
    BY <1>1, <1>2, <1>3 DEF Land, UpdateIInv, RunOrder, RunNames, RunCaptures,
       NamesLanded, Good
  <1>. QED  BY <1>4, <1>5, <1>6, <1>7, <1>8 DEF UpdateIInv

LEMMA NamingStopsKeeps == UpdateIInv /\ NamingStops => UpdateIInv'
  <1>. SUFFICES ASSUME UpdateIInv, NamingStops PROVE UpdateIInv'
    OBVIOUS
  <1>1. run \in Run /\ run # NoRun
    BY RunIsTyped, NoRunIsNoRun DEF UpdateIInv, NamingStops, NoRun
  <1>2. run' \in Run
    <2>1. PICK store \in {run.store} \union
                    {[run.store EXCEPT !.names = @ \union {a}] : a \in Answer},
               cancelled \in BOOLEAN :
            run' = [run EXCEPT !.store = store, !.at = "putback", !.failed = cancelled]
      BY DEF NamingStops
    <2>2. run.store \in Store
      BY <1>1 DEF Run
    <2>3. store \in Store
      BY <2>1, <2>2 DEF Store
    <2>. QED  BY <1>1, <2>1, <2>3 DEF Run, Stage
  <1>3. /\ run'.head = run.head /\ run'.kept = run.kept
        /\ run'.tree = run.tree /\ run'.store.capture = run.store.capture
        /\ run'.verdict = run.verdict /\ run'.at = "putback" /\ run'.pushed = run.pushed
        /\ remote'.names \in {remote.names, run.tree.names}
        /\ remote'.capture = remote.capture
    BY <1>1 DEF NamingStops, Run, UpdateIInv, UpdateTypeOK, Tree, Store
  <1>4. UpdateTypeOK'
    BY <1>1, <1>2, <1>3 DEF NamingStops, Run, Tree, UpdateIInv, UpdateTypeOK, RunOrder
  <1>5. BranchIsGood'
    BY <1>1, <1>2, <1>3 DEF NamingStops, UpdateIInv, BranchIsGood, Good, RunOrder,
       RunCaptures, RunNames
  <1>6. RunNames'
    BY <1>1, <1>2, <1>3 DEF NamingStops, UpdateIInv, RunNames, RunOrder, Before,
       NamesLanded
  <1>7. RunCaptures'
    BY <1>1, <1>2, <1>3 DEF NamingStops, UpdateIInv, RunCaptures, RunOrder, Good
  <1>8. RunOrder'
    BY <1>1, <1>2, <1>3 DEF NamingStops, UpdateIInv, RunOrder, RunNames,
       RunCaptures, NamesLanded, Good
  <1>. QED  BY <1>4, <1>5, <1>6, <1>7, <1>8 DEF UpdateIInv

LEMMA PutBackKeeps == UpdateIInv /\ PutBack => UpdateIInv'
  <1>. SUFFICES ASSUME UpdateIInv, PutBack PROVE UpdateIInv'
    OBVIOUS
  <1>1. run \in Run /\ run # NoRun
    BY RunIsTyped, NoRunIsNoRun DEF UpdateIInv, PutBack, NoRun
  <1>2. run' \in Run
    BY <1>1 DEF UpdateIInv, UpdateTypeOK, PutBack, Run, Stage
  <1>3. /\ run'.head = run.head /\ run'.kept = run.kept
        /\ run'.tree = run.tree /\ run'.failed = run.failed /\ run'.pushed = run.pushed
        /\ run'.store = IF NamesLanded \/ run.kept = NoStore THEN run.store ELSE run.kept
        /\ run'.at = IF run.failed THEN "sync" ELSE "publish"
    BY <1>1 DEF PutBack, Run
  <1>4. UpdateTypeOK'
    BY <1>1, <1>2, <1>3 DEF PutBack, UpdateIInv, UpdateTypeOK, RunOrder
  <1>5. BranchIsGood'
    BY <1>1, <1>2, <1>3 DEF PutBack, UpdateIInv, BranchIsGood, Good, RunOrder,
       RunCaptures, RunNames
  <1>6. RunNames'
    BY <1>1, <1>2, <1>3 DEF PutBack, UpdateIInv, RunNames, RunOrder, Before,
       NamesLanded
  <1>7. RunCaptures'
    BY <1>1, <1>2, <1>3 DEF PutBack, UpdateIInv, RunCaptures, RunOrder, Good
  <1>8. RunOrder'
    BY <1>1, <1>2, <1>3 DEF PutBack, UpdateIInv, RunOrder, RunNames, RunCaptures,
       NamesLanded, Good
  <1>. QED  BY <1>4, <1>5, <1>6, <1>7, <1>8 DEF UpdateIInv

LEMMA PublishKeeps == UpdateIInv /\ Publish => UpdateIInv'
  <1>. SUFFICES ASSUME UpdateIInv, Publish PROVE UpdateIInv'
    OBVIOUS
  <1>1. run \in Run /\ run # NoRun
    BY RunIsTyped, NoRunIsNoRun DEF UpdateIInv, Publish, NoRun
  <1>2. run' \in Run
    BY <1>1 DEF UpdateIInv, UpdateTypeOK, Publish, Run, Stage, Proceed
  <1>3. /\ run'.head = run.head /\ run'.kept = run.kept
        /\ run'.tree = run.tree /\ run'.store = run.store /\ run'.at = "sync"
    BY <1>1 DEF Publish, Run, Proceed
  <1>4. UpdateTypeOK'
    BY <1>1, <1>2, <1>3 DEF Publish, Run, UpdateIInv, UpdateTypeOK, RunOrder
  <1>5. BranchIsGood'
    BY <1>1, <1>2, <1>3 DEF Publish, UpdateIInv, BranchIsGood, Good, RunOrder,
       RunCaptures, RunNames
  <1>6. RunNames'
    BY <1>1, <1>2, <1>3 DEF Publish, UpdateIInv, RunNames, RunOrder, Before,
       NamesLanded
  <1>7. RunCaptures'
    BY <1>1, <1>2, <1>3 DEF Publish, UpdateIInv, RunCaptures, RunOrder, Good
  <1>8. RunOrder'
    BY <1>1, <1>2, <1>3 DEF Publish, UpdateIInv, RunOrder, RunNames, RunCaptures,
       NamesLanded, Good
  <1>. QED  BY <1>4, <1>5, <1>6, <1>7, <1>8 DEF UpdateIInv

LEMMA PlanKeeps == UpdateIInv /\ Plan => UpdateIInv'
  <1>. SUFFICES ASSUME UpdateIInv, Plan PROVE UpdateIInv'
    OBVIOUS
  <1>1. run \in Run /\ run # NoRun
    BY RunIsTyped, NoRunIsNoRun DEF UpdateIInv, Plan, NoRun
  <1>2. run' \in Run
    BY <1>1 DEF UpdateIInv, UpdateTypeOK, Plan, Run, Stage, Failing
  <1>3. /\ run'.head = run.head /\ run'.kept = run.kept /\ run'.tree = run.tree
        /\ run'.at = "sync"
    BY <1>1 DEF Plan, Run, Failing
  <1>4. UpdateTypeOK'
    BY <1>1, <1>2, <1>3 DEF Plan, UpdateIInv, UpdateTypeOK, RunOrder
  <1>5. BranchIsGood'
    BY <1>1, <1>2, <1>3 DEF Plan, UpdateIInv, BranchIsGood, Good, RunOrder,
       RunCaptures, RunNames
  <1>6. RunNames'
    BY <1>1, <1>2, <1>3 DEF Plan, UpdateIInv, RunNames, RunOrder, Before, NamesLanded
  <1>7. RunCaptures'
    BY <1>1, <1>2, <1>3 DEF Plan, UpdateIInv, RunCaptures, RunOrder, Good
  <1>8. RunOrder'
    BY <1>1, <1>2, <1>3 DEF Plan, UpdateIInv, RunOrder, RunNames, RunCaptures,
       NamesLanded, Good
  <1>. QED  BY <1>4, <1>5, <1>6, <1>7, <1>8 DEF UpdateIInv

LEMMA OpenOrUpdateKeeps == UpdateIInv /\ (\E s \in Source : OpenOrUpdate(s)) => UpdateIInv'
  <1>. SUFFICES ASSUME UpdateIInv, NEW s \in Source, OpenOrUpdate(s) PROVE UpdateIInv'
    OBVIOUS
  <1>1. run \in Run /\ run # NoRun
    BY RunIsTyped, NoRunIsNoRun DEF UpdateIInv, OpenOrUpdate, NoRun
  <1>2. run' \in Run
    BY <1>1 DEF UpdateIInv, UpdateTypeOK, OpenOrUpdate, Run, Stage
  <1>3. /\ run'.head = run.head /\ run'.kept = run.kept /\ run'.tree = run.tree
        /\ run'.at = "sync"
    BY <1>1 DEF OpenOrUpdate, Run
  <1>4. UpdateTypeOK'
    BY <1>1, <1>2, <1>3 DEF OpenOrUpdate, NextIn, UpdateIInv, UpdateTypeOK, RunOrder
  <1>5. BranchIsGood'
    BY <1>1, <1>2, <1>3 DEF OpenOrUpdate, NextIn, UpdateIInv, BranchIsGood, Good,
       RunOrder, RunCaptures, RunNames
  <1>6. RunNames'
    BY <1>1, <1>2, <1>3 DEF OpenOrUpdate, NextIn, UpdateIInv, RunNames, RunOrder,
       Before, NamesLanded
  <1>7. RunCaptures'
    BY <1>1, <1>2, <1>3 DEF OpenOrUpdate, NextIn, UpdateIInv, RunCaptures, RunOrder,
       Good
  <1>8. RunOrder'
    BY <1>1, <1>2, <1>3 DEF OpenOrUpdate, NextIn, UpdateIInv, RunOrder, RunNames,
       RunCaptures, NamesLanded, Good
  <1>. QED  BY <1>4, <1>5, <1>6, <1>7, <1>8 DEF UpdateIInv

LEMMA CloseKeeps == UpdateIInv /\ (\E s \in Source : Close(s)) => UpdateIInv'
  <1>. SUFFICES ASSUME UpdateIInv, NEW s \in Source, Close(s) PROVE UpdateIInv'
    OBVIOUS
  <1>1. run \in Run /\ run # NoRun
    BY RunIsTyped, NoRunIsNoRun DEF UpdateIInv, Close, NoRun
  <1>2. run' \in Run
    BY <1>1 DEF UpdateIInv, UpdateTypeOK, Close, Run, Stage
  <1>3. /\ run'.head = run.head /\ run'.kept = run.kept /\ run'.tree = run.tree
        /\ run'.at = "sync"
    BY <1>1 DEF Close, Run
  <1>4. UpdateTypeOK'
    BY <1>1, <1>2, <1>3 DEF Close, NextIn, UpdateIInv, UpdateTypeOK, RunOrder
  <1>5. BranchIsGood'
    BY <1>1, <1>2, <1>3 DEF Close, NextIn, UpdateIInv, BranchIsGood, Good, RunOrder,
       RunCaptures, RunNames
  <1>6. RunNames'
    BY <1>1, <1>2, <1>3 DEF Close, NextIn, UpdateIInv, RunNames, RunOrder, Before,
       NamesLanded
  <1>7. RunCaptures'
    BY <1>1, <1>2, <1>3 DEF Close, NextIn, UpdateIInv, RunCaptures, RunOrder, Good
  <1>8. RunOrder'
    BY <1>1, <1>2, <1>3 DEF Close, NextIn, UpdateIInv, RunOrder, RunNames,
       RunCaptures, NamesLanded, Good
  <1>. QED  BY <1>4, <1>5, <1>6, <1>7, <1>8 DEF UpdateIInv

LEMMA StepIInv == UpdateIInv /\ [Next]_vars => UpdateIInv'
  <1>1. UpdateIInv /\ UNCHANGED vars => UpdateIInv'
    BY DEF UpdateIInv, UpdateTypeOK, BranchIsGood, RunNames, RunCaptures, RunOrder,
       NamesLanded, vars
  <1>. QED
    BY <1>1, StartKeeps, FailKeeps, LoseKeeps, StagesKeeps, CompileKeeps, FieldAuditKeeps,
       RecompileKeeps, RecordKeeps, PushKeeps, NamingIdleKeeps, JudgeKeeps, LandKeeps,
       NamingStopsKeeps, PutBackKeeps, PublishKeeps, PlanKeeps, OpenOrUpdateKeeps, CloseKeeps
    DEF Next, Step, Naming

LEMMA UpdateInvariant == Spec => []UpdateIInv
  BY InitIInv, StepIInv, PTL DEF Spec

(* A run keeps its types, and publishes only a store it kept after its     *)
(* commit was pushed.                                                      *)
THEOREM TypeCorrectness == Spec => []UpdateTypeOK
  BY UpdateInvariant, PTL DEF UpdateIInv

(* However a naming job ends and whatever fails, the release holds no name *)
(* the branch lacks and no capture of a platform's own that has moved.     *)
THEOREM PublishedFromBranch == Spec => []PublishedIsBacked
  <1>1. UpdateIInv => PublishedIsBacked
    BY DEF UpdateIInv, BranchIsGood, Good, PublishedIsBacked
  <1>. QED  BY <1>1, UpdateInvariant, PTL

-----------------------------------------------------------------------------
(* What IssuesFollowLedger rests on besides fairness, for any sources and  *)
(* threshold.                                                              *)

\* A source the branch counts as failing and that has not worked in this run,
\* and one it counts as well and that has not failed in it.
Down(s) == s \in Failing(remote.ledger) /\ ~Out(s, "ok")
Well(s) == s \notin Failing(remote.ledger) /\ ~Out(s, "fail")

\* What the run under way does about s is right: once its calls are planned
\* the one about s is still to be made, or is done, and none undoes it (sync).
Opening(s) ==
    run # NoRun => /\ s \in Failing(run.tree.ledger) /\ s \notin run.closes
                   /\ run.planned => s \in run.opens \union issues

Closing(s) ==
    run # NoRun => /\ s \notin Failing(run.tree.ledger) /\ s \notin run.opens
                   /\ run.planned /\ s \in issues => s \in run.closes

\* From the first run that begins while a source stays as the branch has it, no
\* run does anything but what its issue needs, and a call that got through stays
\* done, whatever fails and however the runs end.
IssuesAreNotUndone ==
    [][\A s \in Source :
        /\ Opening(s) /\ Down(s) /\ Down(s)' =>
               Opening(s)' /\ (s \in issues => s \in issues')
        /\ Closing(s) /\ Well(s) /\ Well(s)' =>
               Closing(s)' /\ (s \notin issues => s \notin issues')]_vars

\* The steps that touch neither the ledger of the run nor its calls.
LEMMA CallsRest ==
    ASSUME UpdateIInv,
           \/ Fail \/ Stages \/ Compile \/ FieldAudit \/ Recompile \/ Push
           \/ Naming \/ PutBack \/ Publish
    PROVE  /\ run # NoRun /\ issues' = issues
           /\ run'.tree.ledger = run.tree.ledger /\ run'.opens = run.opens
           /\ run'.closes = run.closes /\ run'.planned = run.planned
  <1>1. run # NoRun
    <2>1. CASE Fail
      BY <2>1 DEF Fail, NoRun
    <2>2. CASE Stages
      <3>1. run.at = "stages"
        BY <2>2 DEF Stages
      <3>. QED  BY <3>1 DEF NoRun
    <2>3. CASE Compile
      BY <2>3 DEF Compile, NoRun
    <2>4. CASE FieldAudit
      BY <2>4 DEF FieldAudit, NoRun
    <2>5. CASE Recompile
      BY <2>5 DEF Recompile, NoRun
    <2>6. CASE Push
      BY <2>6 DEF Push, NoRun
    <2>7. CASE NamingIdle
      BY <2>7 DEF NamingIdle, NoRun
    <2>8. CASE Judge
      BY <2>8 DEF Judge, NoRun
    <2>9. CASE Land
      BY <2>9 DEF Land, NoRun
    <2>10. CASE NamingStops
      BY <2>10 DEF NamingStops, NoRun
    <2>11. CASE PutBack
      BY <2>11 DEF PutBack, NoRun
    <2>12. CASE Publish
      BY <2>12 DEF Publish, NoRun
    <2>. QED
      BY <2>1, <2>2, <2>3, <2>4, <2>5, <2>6, <2>7, <2>8, <2>9, <2>10, <2>11, <2>12
      DEF Naming
  <1>2. run \in Run
    BY <1>1 DEF UpdateIInv, UpdateTypeOK
  <1>3. CASE Fail
    BY <1>1, <1>2, <1>3 DEF Fail, Fails, Run
  <1>4. CASE Stages
    <2>1. PICK capture, outcome :
              run' = [run EXCEPT !.outcome = outcome, !.tree.capture = capture,
                                 !.at = "compile"]
      BY <1>4 DEF Stages
    <2>. QED  BY <1>1, <1>2, <1>4, <2>1 DEF Stages, Run, Tree
  <1>5. CASE Compile
    BY <1>1, <1>2, <1>5 DEF Compile, Run
  <1>6. CASE FieldAudit
    <2>1. PICK capture, outcome, at :
              run' = [run EXCEPT !.tree.capture = capture, !.outcome = outcome, !.at = at]
      BY <1>6 DEF FieldAudit
    <2>. QED  BY <1>1, <1>2, <1>6, <2>1 DEF FieldAudit, Run, Tree
  <1>7. CASE Recompile
    BY <1>1, <1>2, <1>7 DEF Recompile, Run
  <1>8. CASE Push
    BY <1>1, <1>2, <1>8 DEF Push, Run
  <1>9. CASE NamingIdle
    BY <1>1, <1>2, <1>9 DEF NamingIdle, Run
  <1>10. CASE Judge
    BY <1>1, <1>2, <1>10 DEF Judge, Run, Tree, Store
  <1>11. CASE Land
    BY <1>1, <1>2, <1>11 DEF Land, Run
  <1>12. CASE NamingStops
    BY <1>1, <1>2, <1>12 DEF NamingStops, Run
  <1>13. CASE PutBack
    BY <1>1, <1>2, <1>13 DEF PutBack, Run
  <1>14. CASE Publish
    BY <1>1, <1>2, <1>14 DEF Publish, Proceed, Run
  <1>. QED
    BY <1>3, <1>4, <1>5, <1>6, <1>7, <1>8, <1>9, <1>10, <1>11, <1>12, <1>13, <1>14
    DEF Naming

\* What is recorded of a source that has not worked, and of one that has not
\* failed.
LEMMA RecordedStays ==
    ASSUME NEW ledger \in Ledger, NEW outcome \in [Source -> {"none", "ok", "fail"}],
           NEW s \in Source
    PROVE  /\ s \in Failing(ledger) /\ outcome[s] # "ok" =>
                  s \in Failing(Recorded(ledger, outcome))
           /\ s \notin Failing(ledger) /\ outcome[s] # "fail" =>
                  s \notin Failing(Recorded(ledger, outcome))
  BY UpdateAssumption DEF Failing, Recorded, Ledger

\* A source that stays as it is keeps its side of every plan.
LEMMA SideStays ==
    ASSUME UpdateIInv, [Next]_vars, NEW s \in Source
    PROVE  /\ Opening(s) /\ Down(s) /\ Down(s)' =>
                  Opening(s)' /\ (s \in issues => s \in issues')
           /\ Closing(s) /\ Well(s) /\ Well(s)' =>
                  Closing(s)' /\ (s \notin issues => s \notin issues')
  <1>. DEFINE Goal ==
         /\ Opening(s) /\ Down(s) /\ Down(s)' =>
                Opening(s)' /\ (s \in issues => s \in issues')
         /\ Closing(s) /\ Well(s) /\ Well(s)' =>
                Closing(s)' /\ (s \notin issues => s \notin issues')
  <1>1. run.at # "off" => run \in Run /\ run # NoRun
    BY RunIsTyped DEF UpdateIInv
  <1>2. CASE Start
    <2>1. run'.tree = remote /\ run'.opens = {} /\ run'.closes = {} /\ ~run'.planned
      BY <1>2 DEF Start
    <2>. QED  BY <1>2, <2>1 DEF Start, Opening, Closing, Down, Well
  <1>3. CASE Record
    <2>1. run \in Run /\ run # NoRun
      BY <1>1, <1>3 DEF Record
    <2>2. /\ run'.tree.ledger = Recorded(run.tree.ledger, run.outcome)
          /\ run'.opens = run.opens /\ run'.closes = run.closes
          /\ run'.planned = run.planned /\ issues' = issues
      BY <1>3, <2>1 DEF Record, Run, Tree
    <2>3. run.tree.ledger \in Ledger /\ run.outcome \in [Source -> {"none", "ok", "fail"}]
      BY <2>1 DEF Run, Tree
    <2>. QED
      BY <2>1, <2>2, <2>3, RecordedStays DEF Opening, Closing, Down, Well, Out
  <1>4. CASE Plan
    <2>1. run \in Run /\ run # NoRun
      BY <1>1, <1>4 DEF Plan
    <2>2. /\ run'.tree = run.tree /\ run'.opens = Failing(run.tree.ledger)
          /\ run'.closes = issues \ Failing(run.tree.ledger) /\ issues' = issues
      BY <1>4, <2>1 DEF Plan, Run
    <2>. QED  BY <2>1, <2>2 DEF Opening, Closing
  <1>5. ASSUME NEW t \in Source, OpenOrUpdate(t) PROVE Goal
    <2>1. run \in Run /\ run # NoRun
      BY <1>1, <1>5 DEF OpenOrUpdate
    <2>2. /\ run'.tree = run.tree /\ run'.opens = run.opens \ {t} /\ t \in run.opens
          /\ run'.closes = run.closes /\ run'.planned = run.planned
          /\ issues' = issues \union {t}
      BY <1>5, <2>1 DEF OpenOrUpdate, NextIn, Run
    <2>. QED  BY <2>1, <2>2 DEF Opening, Closing
  <1>6. ASSUME NEW t \in Source, Close(t) PROVE Goal
    <2>1. run \in Run /\ run # NoRun
      BY <1>1, <1>6 DEF Close
    <2>2. /\ run'.tree = run.tree /\ run'.closes = run.closes \ {t} /\ t \in run.closes
          /\ run'.opens = run.opens /\ run'.planned = run.planned
          /\ issues' = issues \ {t}
      BY <1>6, <2>1 DEF Close, NextIn, Run
    <2>. QED  BY <2>1, <2>2 DEF Opening, Closing
  <1>7. CASE Lose \/ Finish
    BY <1>7 DEF Lose, Finish, Opening, Closing
  <1>8. CASE UNCHANGED vars
    BY <1>8 DEF vars, Opening, Closing
  <1>9. CASE \/ Fail \/ Stages \/ Compile \/ FieldAudit \/ Recompile \/ Push
             \/ Naming \/ PutBack \/ Publish
    BY <1>9, CallsRest DEF Opening, Closing
  <1>. QED
    BY <1>2, <1>3, <1>4, <1>5, <1>6, <1>7, <1>8, <1>9 DEF Next, Step

(* Runs that come one after another do not work against each other in the  *)
(* tracker: a source that stays down is on nobody's list to close, a       *)
(* source that stays well on nobody's to open, and what a call did stands. *)
THEOREM IssuesKeepTheirSide == Spec => IssuesAreNotUndone
  <1>. DEFINE Sides ==
         \A s \in Source :
            /\ Opening(s) /\ Down(s) /\ Down(s)' =>
                   Opening(s)' /\ (s \in issues => s \in issues')
            /\ Closing(s) /\ Well(s) /\ Well(s)' =>
                   Closing(s)' /\ (s \notin issues => s \notin issues')
  <1>1. UpdateIInv /\ [Next]_vars => Sides
    BY SideStays
  <1>. QED  BY <1>1, UpdateInvariant, PTL DEF Spec, IssuesAreNotUndone
=============================================================================
