------------------------------ MODULE UpdateRun ------------------------------
(***************************************************************************)
(* One scheduled update after another, .github/workflows/update.yml: the   *)
(* stages fetch, the compile makes a store, the field audit sets a         *)
(* platform back whose selector moved, runhealth.py records how each       *)
(* source fared, the run is committed and pushed, the naming job may add   *)
(* names, the store is published, and an issue is opened, updated or       *)
(* closed for each source that keeps failing.                              *)
(*                                                                         *)
(* A step that fails ends the run but for the steps that run always: the   *)
(* record, the compile's store put back, and the issues.  Two runs never   *)
(* overlap (concurrency: update).                                          *)
(***************************************************************************)
EXTENDS Integers, FiniteSets

CONSTANTS
    Adapter,    \* the commands of the stages
    Platform,   \* the platforms the field audit looks at
    Own,        \* those whose rows are in a file of their own
    Answer,     \* the names the naming job may come back with
    Title,      \* Title[s]: where the title of a source's issue sorts
    Threshold   \* runs in a row before a source is an issue

ASSUME UpdateAssumption ==
    /\ Own \subseteq Platform /\ Adapter \intersect Platform = {}
    /\ Title \in [Adapter \union Platform -> Nat]
    /\ \A s, t \in Adapter \union Platform : Title[s] = Title[t] => s = t
    /\ Threshold \in Nat \ {0}

Source == Adapter \union Platform

VARIABLES
    remote,     \* what the branch on the remote holds
    published,  \* what the last release holds
    issues,     \* the sources with an open issue
    run         \* the run under way, or NoRun

vars == <<remote, published, issues, run>>

\* The ledger counts the runs in a row each source has failed; past the
\* threshold the count says no more, and is kept there.
Ledger == [Source -> 0 .. Threshold]
Capture == [Platform -> {"good", "moved"}]
Tree == [ledger : Ledger, capture : Capture, names : SUBSET Answer]
Store == [capture : Capture, names : SUBSET Answer]

NoRun == [at |-> "off"]
NoStore == [names |-> {}]
Stage == {"stages", "compile", "audit", "recompile", "record", "push", "naming",
          "landing", "putback", "publish", "sync"}
Unseen == [s \in Source |-> "none"]

CompiledFrom(tree) == [capture |-> tree.capture, names |-> tree.names]

Run == [at : Stage, failed : BOOLEAN, head : Tree, tree : Tree,
        store : Store, kept : Store \union {NoStore},
        outcome : [Source -> {"none", "ok", "fail"}],
        verdict : {"none", "refused", "committed"}, pushed : BOOLEAN,
        opens : SUBSET Source, closes : SUBSET Source, planned : BOOLEAN]

(* The types, and that a run publishes only a store it kept after its push.*)
UpdateTypeOK ==
    /\ remote \in Tree /\ published \in Store
    /\ issues \subseteq Source
    /\ run = NoRun \/ run \in Run
    /\ run.at = "publish" => run.kept # NoStore

-----------------------------------------------------------------------------
(* How the steps follow one another.                                       *)

\* The next step that runs always, from where a run stands.
NextAlways(at) ==
    CASE at \in {"stages", "compile", "audit", "recompile"} -> "record"
      [] at \in {"record", "push", "naming", "landing"} -> "putback"
      [] OTHER -> "sync"

Proceed(to) == run' = [run EXCEPT !.at = to]
Fails(r) == [r EXCEPT !.failed = TRUE, !.at = NextAlways(r.at)]

\* A checkout of the remote.
Start ==
    /\ run = NoRun
    /\ run' = [at |-> "stages", failed |-> FALSE, head |-> remote, tree |-> remote,
               store |-> published, kept |-> NoStore, outcome |-> Unseen,
               verdict |-> "none", pushed |-> FALSE,
               opens |-> {}, closes |-> {}, planned |-> FALSE]
    /\ UNCHANGED <<remote, published, issues>>

\* A step fails, or the job is cancelled or out of time, in the middle of one.
Fail ==
    /\ run # NoRun /\ run.at \notin {"naming", "landing", "sync"}
    /\ run' = Fails(run)
    /\ UNCHANGED <<remote, published, issues>>

\* The runner is lost, and what it had not pushed with it.
Lose ==
    /\ run # NoRun
    /\ run' = NoRun
    /\ UNCHANGED <<remote, published, issues>>

-----------------------------------------------------------------------------
(* Fetch, compile, audit.                                                  *)

\* Each command that is due and reached works or fails; a platform's page may
\* have moved under its selector.
Stages ==
    /\ run.at = "stages"
    /\ \E outcome \in [Adapter -> {"none", "ok", "fail"}], capture \in Capture :
           run' = [run EXCEPT
               !.outcome = [s \in Source |-> IF s \in Adapter THEN outcome[s] ELSE "none"],
               !.tree.capture = [p \in Platform |->
                   IF capture[p] = "moved" THEN "moved" ELSE @[p]],
               !.at = "compile"]
    /\ UNCHANGED <<remote, published, issues>>

Compile ==
    /\ run.at = "compile"
    /\ run' = [run EXCEPT !.store = CompiledFrom(run.tree), !.at = "audit"]
    /\ UNCHANGED <<remote, published, issues>>

Moved(store) == {p \in Platform : store.capture[p] = "moved"}

\* A platform's own file goes back to the last commit; one that several share
\* does not.  The store was built from what has gone: compile again.
FieldAudit ==
    /\ run.at = "audit"
    /\ LET back == Moved(run.store) \intersect Own
       IN run' = [run EXCEPT
            !.tree.capture = [p \in Platform |->
                IF p \in back THEN run.head.capture[p] ELSE @[p]],
            !.outcome = [s \in Source |->
                IF s \in Adapter THEN @[s]
                ELSE IF s \in Moved(run.store) THEN "fail" ELSE "ok"],
            !.at = IF back # {} THEN "recompile" ELSE "record"]
    /\ UNCHANGED <<remote, published, issues>>

\* Mutant: the step is not run, as when nothing says rebuild.
RecompileSkipped ==
    /\ run.at = "recompile"
    /\ Proceed("record")
    /\ UNCHANGED <<remote, published, issues>>

Recompile ==
    /\ run.at = "recompile"
    /\ run' = [run EXCEPT !.store = CompiledFrom(run.tree), !.at = "record"]
    /\ UNCHANGED <<remote, published, issues>>

-----------------------------------------------------------------------------
(* runhealth.py record, the commit and the push.                           *)

\* A source not seen this run is left as it was.
\* Mutant: a source not seen is taken to be well.
RecordedUnseenWell(ledger, outcome) ==
    [s \in Source |-> IF outcome[s] # "fail" THEN 0
                      ELSE IF ledger[s] < Threshold THEN ledger[s] + 1 ELSE Threshold]

Recorded(ledger, outcome) ==
    [s \in Source |-> CASE outcome[s] = "none" -> ledger[s]
                        [] outcome[s] = "ok" -> 0
                        [] outcome[s] = "fail" ->
                              IF ledger[s] < Threshold THEN ledger[s] + 1 ELSE Threshold]

Record ==
    /\ run.at = "record"
    /\ run' = [run EXCEPT !.tree.ledger = Recorded(@, run.outcome),
                          !.outcome = Unseen,
                          !.at = IF run.failed THEN "putback" ELSE "push"]
    /\ UNCHANGED <<remote, published, issues>>

\* Tried three times, on top of whatever landed meanwhile.
Push ==
    /\ run.at = "push"
    /\ remote' = run.tree
    /\ run' = [run EXCEPT !.head = run.tree, !.kept = run.store, !.at = "naming"]
    /\ UNCHANGED <<published, issues>>

-----------------------------------------------------------------------------
(* The naming job, which may fail or run out of its time at any point.     *)

\* No answer, or one refused before the judge compiles: the store is as it was.
\* A refused run still commits, and pushes, its usage line.
NamingIdle ==
    /\ run.at = "naming"
    /\ \E verdict \in {"none", "refused"} :
           run' = [run EXCEPT !.verdict = verdict,
                              !.at = IF verdict = "none" THEN "putback" ELSE "landing"]
    /\ UNCHANGED <<remote, published, issues>>

\* The judge compiles with the answers in, and the gate decides.
Judge ==
    /\ run.at = "naming"
    /\ \E a \in Answer \ run.tree.names, verdict \in {"refused", "committed"} :
           run' = [run EXCEPT !.store.names = @ \union {a},
                              !.tree.names = IF verdict = "committed" THEN @ \union {a} ELSE @,
                              !.verdict = verdict, !.at = "landing"]
    /\ UNCHANGED <<remote, published, issues>>

Land ==
    /\ run.at = "landing"
    /\ remote' = [remote EXCEPT !.names = run.tree.names]
    /\ run' = [run EXCEPT !.pushed = TRUE, !.at = "putback"]
    /\ UNCHANGED <<published, issues>>

\* The job stops: before its commit, or with the commit not pushed or not known
\* to be.  What it wrote to the store stays there.
NamingStops ==
    /\ run.at \in {"naming", "landing"}
    /\ \E store \in {run.store} \union
                    {[run.store EXCEPT !.names = @ \union {a}] : a \in Answer},
          names \in {remote.names, run.tree.names}, cancelled \in BOOLEAN :
           /\ run' = [run EXCEPT !.store = store, !.at = "putback",
                                 !.failed = cancelled]
           /\ remote' = [remote EXCEPT !.names = names]
    /\ UNCHANGED <<published, issues>>

\* Mutant: the push is taken for the sign that the names landed.
NamesLandedPushed == run.pushed

NamesLanded == run.pushed /\ run.verdict = "committed"

\* Mutant: a run that failed goes on to publish.
PutBackPublishesAlways ==
    /\ run.at = "putback"
    /\ run' = [run EXCEPT !.store = IF NamesLanded \/ run.kept = NoStore THEN @
                                    ELSE run.kept,
                          !.at = "publish"]
    /\ UNCHANGED <<remote, published, issues>>

\* A run that stopped before the push has no store kept to put back.
PutBack ==
    /\ run.at = "putback"
    /\ run' = [run EXCEPT !.store = IF NamesLanded \/ run.kept = NoStore THEN @
                                    ELSE run.kept,
                          !.at = IF run.failed THEN "sync" ELSE "publish"]
    /\ UNCHANGED <<remote, published, issues>>

Publish ==
    /\ run.at = "publish"
    /\ published' = run.store
    /\ Proceed("sync")
    /\ UNCHANGED <<remote, issues>>

-----------------------------------------------------------------------------
(* runhealth.py sync: the open issues and the ledger are read, then one    *)
(* call after another is made, and the first that fails ends it.           *)

Failing(ledger) == {s \in Source : ledger[s] >= Threshold}

\* Mutant: what is no longer failing is left open.
PlanOpensOnly ==
    /\ run.at = "sync" /\ ~run.planned
    /\ run' = [run EXCEPT !.planned = TRUE, !.opens = Failing(run.tree.ledger), !.closes = {}]
    /\ UNCHANGED <<remote, published, issues>>

Plan ==
    /\ run.at = "sync" /\ ~run.planned
    /\ LET down == Failing(run.tree.ledger)
       IN run' = [run EXCEPT !.planned = TRUE, !.opens = down, !.closes = issues \ down]
    /\ UNCHANGED <<remote, published, issues>>

\* The calls are made in the order of the titles, those that close last.
NextIn(set, s) == s \in set /\ \A t \in set : Title[s] <= Title[t]

\* Opened where there is none, updated where there is one.
OpenOrUpdate(s) ==
    /\ run.at = "sync" /\ run.planned /\ NextIn(run.opens, s)
    /\ issues' = issues \union {s}
    /\ run' = [run EXCEPT !.opens = @ \ {s}]
    /\ UNCHANGED <<remote, published>>

Close(s) ==
    /\ run.at = "sync" /\ run.planned /\ run.opens = {} /\ NextIn(run.closes, s)
    /\ issues' = issues \ {s}
    /\ run' = [run EXCEPT !.closes = @ \ {s}]
    /\ UNCHANGED <<remote, published>>

\* All the calls are made, or one failed, the one that reads the issues included.
Finish ==
    /\ run.at = "sync"
    /\ run' = NoRun
    /\ UNCHANGED <<remote, published, issues>>

-----------------------------------------------------------------------------
Init ==
    /\ remote = [ledger |-> [s \in Source |-> 0],
                 capture |-> [p \in Platform |-> "good"], names |-> {}]
    /\ published = CompiledFrom(remote)
    /\ issues = {}
    /\ run = NoRun

Naming == NamingIdle \/ Judge \/ Land \/ NamingStops

Step == \/ Start \/ Stages \/ Compile \/ FieldAudit \/ Recompile \/ Record \/ Push
        \/ Naming \/ PutBack \/ Publish \/ Plan
        \/ \E s \in Source : OpenOrUpdate(s) \/ Close(s)
        \/ Finish

Next == Step \/ Fail \/ Lose

Spec == Init /\ [][Next]_vars

\* The call to GitHub about a source that is made in run after run succeeds in one.
Fairness == \A s \in Source : SF_vars(OpenOrUpdate(s)) /\ SF_vars(Close(s))

FairSpec == Spec /\ Fairness

-----------------------------------------------------------------------------
(* "It cannot publish half": however the naming job ends, whatever step    *)
(* fails and whichever run is lost, the release has no name the branch     *)
(* lacks, and neither holds a capture with a moved selector in a file that *)
(* is a platform's own.                                                    *)
PublishedIsBacked ==
    /\ published.names \subseteq remote.names
    /\ \A p \in Own : published.capture[p] = "good" /\ remote.capture[p] = "good"

(* "The open issues match the ledger": while runs go on to the point where *)
(* the issues are planned, a source the branch counts as failing, and that *)
(* works no more, has its issue for good in the end, and one it counts as  *)
(* well, and that fails no more, has none; though any call may fail and    *)
(* takes the later ones of its run with it.                                *)
Out(s, how) == run # NoRun /\ run.outcome[s] = how

IssuesFollowLedger ==
    \A s \in Source :
        /\ ([]<><<Plan>>_vars /\ <>[](s \in Failing(remote.ledger) /\ ~Out(s, "ok")))
                => <>[](s \in issues)
        /\ ([]<><<Plan>>_vars /\ <>[](s \notin Failing(remote.ledger) /\ ~Out(s, "fail")))
                => <>[](s \notin issues)
=============================================================================
