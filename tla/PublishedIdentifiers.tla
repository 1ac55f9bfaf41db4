------------------------ MODULE PublishedIdentifiers ------------------------
(***************************************************************************)
(* What the registry promises to somebody who holds a published address,   *)
(* with no file, no index and no assignment pass: an identifier is issued  *)
(* once, every issued identifier has a live home, two live identifiers may *)
(* be joined into one home for good, and a name, once registered, keeps    *)
(* its answer through everything but a release by hand.                    *)
(***************************************************************************)
EXTENDS Integers

CONSTANTS Name, MaxId

VARIABLES
    issued,  \* how many identifiers have been issued
    home,    \* home[i]: the live identifier the address of i leads to
    answer   \* answer[a]: the live identifier a registered name belongs to

pvars == <<issued, home, answer>>

Id == 1..MaxId
Nobody == 0

LiveHome(i) == i \in 1..issued /\ home[i] = i

Init ==
    /\ issued = 0
    /\ home = [i \in Id |-> i]
    /\ answer = [a \in Name |-> Nobody]

\* Names nobody held are registered to the live identifier i.
Register(i, names) ==
    /\ \A a \in names : answer[a] = Nobody
    /\ answer' = [a \in Name |-> IF a \in names THEN i ELSE answer[a]]

Issue(names) ==
    /\ issued < MaxId
    /\ issued' = issued + 1
    /\ Register(issued + 1, names)
    /\ UNCHANGED home

Claim(i, names) ==
    /\ LiveHome(i)
    /\ Register(i, names)
    /\ UNCHANGED <<issued, home>>

\* Everything that led to i leads to j from now on.
Join(i, j) ==
    /\ LiveHome(i) /\ LiveHome(j)
    /\ home' = [k \in Id |-> IF home[k] = i THEN j ELSE home[k]]
    /\ answer' = [a \in Name |-> IF answer[a] = i THEN j ELSE answer[a]]
    /\ UNCHANGED issued

Release(a) ==
    /\ answer' = [answer EXCEPT ![a] = Nobody]
    /\ UNCHANGED <<issued, home>>

Next ==
    \/ \E names \in SUBSET Name : Issue(names)
    \/ \E i \in Id, names \in SUBSET Name : Claim(i, names)
    \/ \E i, j \in Id : Join(i, j)
    \/ \E a \in Name : Release(a)

Spec == Init /\ [][Next]_pvars
=============================================================================
