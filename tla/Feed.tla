-------------------------------- MODULE Feed --------------------------------
(***************************************************************************)
(* The updates feed from one build to the next: build.py reads what the    *)
(* captures hold today, remembers in data/ledger/first-seen.yaml the day   *)
(* each release was first seen (adapters/sighting.py), decides from it the *)
(* day every release is filed under, and writes the window of recent days  *)
(* and a file for each month.                                              *)
(*                                                                         *)
(* The captures are overwritten on every run and the months are written    *)
(* again by every build; the ledger is what a build knows of the builds    *)
(* before it.                                                              *)
(*                                                                         *)
(* A row stands for a chapter of the web as it is once its copies are one, *)
(* and the rows of a work are spelled alike.                               *)
(***************************************************************************)
EXTENDS Integers, FiniteSetsExt

CONSTANTS
    Row, Work,
    WorkOf,       \* WorkOf[r]: the work r is a chapter of
    Platform,     \* the names a platform may be given
    Published,    \* Published[r]: the day the platform says r appeared
    Guessed,      \* the rows no page states a date of: the capture's own day
    Led,          \* the rows editorial coverage led to (discovered_via)
    OneShot,      \* those read as the one instalment of a one-shot
    DaysOfMonth,
    FeedDays, CurrentWindowDays, LedgerSeededOn, OneShotLateFrom, ArchiveFrom,
    MaxDay,       \* bound on the days that pass
    MaxAddress,   \* bound on the addresses a row is given
    MaxChanges    \* bound on the changes to what the captures say

ASSUME FeedAssumption ==
    /\ WorkOf \in [Row -> Work]
    /\ MaxDay \in Nat \ {0} /\ MaxAddress \in Nat \ {0} /\ MaxChanges \in Nat
    /\ DaysOfMonth \in Nat \ {0}
    /\ FeedDays \in Nat /\ CurrentWindowDays \in Nat
    /\ LedgerSeededOn \in Nat /\ OneShotLateFrom \in Nat /\ ArchiveFrom \in Nat
    /\ Published \in [Row -> 1 .. MaxDay]

VARIABLES
    today,
    listed,    \* the rows the captures hold
    stated,    \* stated[r]: the date the capture of r carries
    title,     \* title[w]: the spelling of w, cut short or in full
    platform,  \* platform[r]: where r is said to be
    address,   \* address[r]: which address of its own r has had, 0 for none
    state,     \* state[w]: whether w goes on
    ledger,    \* ledger[k]: the day key k was first seen, Never if it was not
    feed,      \* feed[r]: what the last build said of r, or NoRow
    built,     \* the day of the last build, or Never
    first,     \* first[r]: the first build that had r, at an address it could
               \* know again (history)
    changes

captures == <<listed, stated, title, platform, address, state, changes>>
vars == <<today, captures, ledger, feed, built, first>>

Never == 0
Day == 1 .. MaxDay
Month(d) == d \div DaysOfMonth
State == {"running", "completed", "oneshot"}
Spelling == {"short", "full"}

\* What the ledger knows a release by: its own address, or its work, its
\* chapter and its platform by their names.
UrlKey == {"url"} \X Row \X (1 .. MaxAddress)
LegacyKey == Spelling \X Row \X Platform
Key == UrlKey \union LegacyKey

NoRow == [filed |-> Never]
Told == [stated : Day, address : 0 .. MaxAddress, old : BOOLEAN,
         accompanied : BOOLEAN, ended : BOOLEAN, pub : Day, filed : Day]

FeedTypeOK ==
    /\ today \in Day
    /\ listed \subseteq Row
    /\ stated \in [Row -> Day]
    /\ title \in [Work -> Spelling]
    /\ platform \in [Row -> Platform]
    /\ address \in [Row -> 0 .. MaxAddress]
    /\ state \in [Work -> State]
    /\ ledger \in [Key -> {Never} \union 1 .. today]
    /\ feed \in [Row -> Told \union {NoRow}]
    /\ built \in {Never} \union 1 .. today
    /\ \A r \in Row : feed[r] # NoRow => feed[r].filed <= built
    /\ first \in [Row -> {Never} \union 1 .. today]
    /\ changes \in 0 .. MaxChanges

-----------------------------------------------------------------------------
(* Sightings.                                                              *)

LegacyOf(r) == <<title[WorkOf[r]], r, platform[r]>>

KeyOf(r) == IF address[r] = 0 THEN LegacyOf(r) ELSE <<"url", r, address[r]>>

\* Every day the chapter was seen under some spelling of its work and some
\* platform.
Remembered(r) == {ledger[k] : k \in Spelling \X {r} \X Platform} \ {Never}

\* Mutants: a chapter nobody has seen is given no date, and a key the ledger does
\* not hold is a sighting of today.
SeenOrNever(r) ==
    IF ledger[KeyOf(r)] # Never THEN ledger[KeyOf(r)]
    ELSE IF Remembered(r) # {} THEN Min(Remembered(r))
    ELSE Never

SeenNoCarry(r) == IF ledger[KeyOf(r)] # Never THEN ledger[KeyOf(r)] ELSE today

Seen(r) ==
    IF ledger[KeyOf(r)] # Never THEN ledger[KeyOf(r)]
    ELSE IF Remembered(r) # {} THEN Min(Remembered(r))
    ELSE today

-----------------------------------------------------------------------------
(* One build.                                                              *)

Wcut == today - FeedDays
Old(r) == stated[r] < Wcut

\* A date to come is a schedule.  One past the window is let in for a row that
\* was old when it was found.
Held == {r \in listed : /\ stated[r] <= today
                        /\ Old(r) => r \in Led \union OneShot}

\* The one-shots the captures held when late ones began to be let in, and those
\* whose find is past the window itself, are not news.
Backlog == {r \in Held : /\ r \notin Led /\ Old(r)
                         /\ Seen(r) = OneShotLateFrom \/ Seen(r) < Wcut}

Kept == Held \ Backlog

\* Mutant: the page is believed.
PubAsStated(r) == stated[r]

\* A date nobody stated is held at the day the row was first seen.
Pub(r) == IF r \in Guessed /\ Seen(r) < stated[r] THEN Seen(r) ELSE stated[r]

\* Past the window, or found in a later month than it appeared in; of which the
\* day the ledger was seeded is no evidence.
Late(r) ==
    \/ Old(r)
    \/ Seen(r) > LedgerSeededOn /\ Month(Seen(r)) > Month(Pub(r))

\* The work has another chapter, and one that is news in its own month.
Accompanied(r) == \E k \in Kept \ {r} : WorkOf[k] = WorkOf[r] /\ ~Late(k)

\* The work is over, and is not a one-shot found inside the window.
Ended(r) ==
    \/ state[WorkOf[r]] = "completed"
    \/ state[WorkOf[r]] = "oneshot" /\ Seen(r) < Wcut

\* A late row is filed under the day it was found, unless its work is in the
\* feed already or is over.
Filed(r) == IF Late(r) /\ ~Accompanied(r) /\ ~Ended(r) THEN Seen(r) ELSE Pub(r)

\* The ledger is written before the feed is: a build cut off in between leaves
\* the one and not the other.
Remember ==
    /\ ledger' = [k \in Key |-> IF k[2] \in Held /\ k = KeyOf(k[2])
                                THEN Seen(k[2]) ELSE ledger[k]]
    /\ first' = [r \in Row |-> IF r \in Held /\ first[r] = Never THEN today
                               ELSE first[r]]

BuildCut ==
    /\ Remember
    /\ UNCHANGED <<today, captures, feed, built>>

Build ==
    /\ Remember
    /\ feed' = [r \in Row |->
            IF r \in Kept
            THEN [stated |-> stated[r], address |-> address[r], old |-> Old(r),
                  accompanied |-> Accompanied(r), ended |-> Ended(r), pub |-> Pub(r),
                  filed |-> Filed(r)]
            ELSE NoRow]
    /\ built' = today
    /\ UNCHANGED <<today, captures>>

\* The files the site serves.  Mutant: a month has one once it is over.
ArchivedOnceOver(m) == ArchiveFrom <= m /\ m < Month(built)

Archived(m) == ArchiveFrom <= m /\ m <= Month(built)

MonthFile(m) == {r \in Row : /\ Archived(m) /\ feed[r] # NoRow
                             /\ Month(feed[r].filed) = m}

CurrentFile == {r \in Row : /\ feed[r] # NoRow
                            /\ feed[r].filed > built - CurrentWindowDays}

-----------------------------------------------------------------------------
(* What goes on around it.                                                 *)

NextDay ==
    /\ today < MaxDay
    /\ today' = today + 1
    /\ UNCHANGED <<captures, ledger, feed, built, first>>

World == UNCHANGED <<today, ledger, feed, built>>

\* A capture is written anew.  A page without a date shows the day it is read.
Capture(r) ==
    /\ listed' = listed \union {r}
    /\ stated' = [stated EXCEPT ![r] = IF r \in Guessed THEN today ELSE @]
    /\ World /\ UNCHANGED <<title, platform, address, state, changes, first>>

Change ==
    /\ changes < MaxChanges
    /\ changes' = changes + 1
    /\ World

Withdraw(r) ==
    /\ r \in listed
    /\ listed' = listed \ {r}
    /\ Change /\ UNCHANGED <<stated, title, platform, address, state, first>>

\* Where a chapter is said to be is put right.
Correct(r, p) ==
    /\ p # platform[r]
    /\ platform' = [platform EXCEPT ![r] = p]
    /\ Change /\ UNCHANGED <<listed, stated, title, address, state, first>>

\* A capture gives a title in full.
Lengthen(w) ==
    /\ title[w] = "short"
    /\ title' = [title EXCEPT ![w] = "full"]
    /\ Change /\ UNCHANGED <<listed, stated, platform, address, state, first>>

\* A row is given an address of its own, or another one, under which nothing
\* knows it.
Readdress(r) ==
    /\ address[r] < MaxAddress
    /\ address' = [address EXCEPT ![r] = @ + 1]
    /\ first' = [first EXCEPT ![r] = IF address[r] = 0 THEN @ ELSE Never]
    /\ Change /\ UNCHANGED <<listed, stated, title, platform, state>>

Turn(w, s) ==
    /\ s # state[w]
    /\ state' = [state EXCEPT ![w] = s]
    /\ Change /\ UNCHANGED <<listed, stated, title, platform, address, first>>

-----------------------------------------------------------------------------
Start ==
    /\ today = 1
    /\ listed \in SUBSET Row
    /\ stated = Published
    /\ title = [w \in Work |-> "short"]
    /\ \E p \in Platform : platform = [r \in Row |-> p]
    /\ address = [r \in Row |-> 0]
    /\ ledger = [k \in Key |-> Never]
    /\ feed = [r \in Row |-> NoRow]
    /\ built = Never
    /\ first = [r \in Row |-> Never]
    /\ changes = 0

Init == Start /\ state = [w \in Work |-> "running"]

Rederive == NextDay \/ Build \/ BuildCut

Next ==
    \/ Rederive
    \/ \E r \in Row :
        \/ Capture(r) \/ Withdraw(r) \/ Readdress(r)
        \/ \E p \in Platform : Correct(r, p)
    \/ \E w \in Work : Lengthen(w) \/ \E s \in State : Turn(w, s)

Spec == Init /\ [][Next]_vars

\* Builds over captures that say the same from the first day to the last.
RederiveSpec == Start /\ state \in [Work -> State] /\ [][Rederive]_vars

-----------------------------------------------------------------------------
\* A row whose date no page states, or that is filed under the day it was
\* found, is never filed after the day a build first had it, through
\* corrected platforms, titles in full and pages that say today every day ("a
\* reader who had already read it was told twice that it was new", build.py).
NeverNewsAgain ==
    \A r \in Row :
        /\ feed[r] # NoRow /\ first[r] # Never
        /\ r \in Guessed \/ feed[r].filed # feed[r].pub
        => feed[r].filed <= first[r]

Shown(r) == r \in CurrentFile \union MonthFile(Month(feed[r].filed))

\* A row that was shown stays in the file of the month it was filed under in the
\* next build that has it, unless the date its page states changed or fell out
\* of the days the feed looks back, it moved to another address, its work gained
\* or lost its other news, or it came to count as over: its work ended, or it is
\* a one-shot whose find left the window ("no published update leaves its month",
\* build.py).
ShownStaysInItsMonth ==
    [][\A r \in Row :
        /\ feed[r] # NoRow /\ Shown(r) /\ feed'[r] # NoRow
        /\ Month(feed[r].filed) >= ArchiveFrom
        /\ feed[r].stated = feed'[r].stated
        /\ feed[r].address \in {0, feed'[r].address}
        /\ feed[r].old = feed'[r].old
        /\ feed[r].accompanied = feed'[r].accompanied
        /\ feed[r].ended = feed'[r].ended
        => /\ Month(feed'[r].filed) = Month(feed[r].filed)
           /\ r \in MonthFile(Month(feed[r].filed))']_feed

\* A row's month is decided by the ledger, so deriving it again cannot move it
\* (docs/FEATURES-INTERFACE.md).
MonthIsKept ==
    [][\A r \in Row : feed[r] # NoRow /\ feed'[r] # NoRow =>
            Month(feed'[r].filed) = Month(feed[r].filed)]_vars
=============================================================================
