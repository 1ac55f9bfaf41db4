---------------------------- MODULE SurvivorWalk ----------------------------
(***************************************************************************)
(* The loop of survivor (adapters/facts/identity/__init__.py) beside the   *)
(* closed form IdentityRegistry has for what it answers, over every chain  *)
(* and every circle the merges of the command line can build.              *)
(***************************************************************************)
EXTENDS IdentityRegistry

\* survivor's while loop as it is written, over the links m: what it answers
\* once the identifiers of seen are seen, from the one it stands at.
Walk(m) ==
    LET answer[seen \in SUBSET Ids] ==
            [i \in Ids |-> IF i \in seen \/ m[i] = None THEN i
                           ELSE answer[seen \union {i}][m[i]]]
    IN  answer

\* The closed form the specification uses answers what the loop answers, for
\* every identifier: one that resolves, one on a circle and one that leads into
\* a circle (survivor, and the copy of its loop in attach).
SurvivorIsTheWalk == \A i \in Issued : Survivor(i) = Walk(mergedInto)[{}][i]
=============================================================================
