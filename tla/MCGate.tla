------------------------------- MODULE MCGate -------------------------------
EXTENDS Gate

CONSTANTS prose, credits, parser, reader, code, page

MCCheck == {prose, credits}
MCSuite == {Proof, parser, reader}

\* The module is edited between two contents.  Beside the first a page is added,
\* which git tracks only from when it is told to.
Holds(a, b) == [f \in File |-> IF f = code THEN a ELSE b]
MCSources == {[file |-> Holds(1, None), tracked |-> {code}],
              [file |-> Holds(2, None), tracked |-> {code}],
              [file |-> Holds(1, 1), tracked |-> {code}],
              [file |-> Holds(1, 1), tracked |-> {code, page}]}

\* The second store breaks a data invariant, and so does the page with the
\* first.  With the second content of the module the parser is wrong, which no
\* invariant sees, and on the first store the checks can no longer fail.  The
\* parser reads the page as well, which its suite does not name.
MCBroken ==
    [c \in MCCheck \union MCSuite |->
        CASE c = prose   -> {in \in Inputs : in.file[code] = 2 /\ in.store = 2}
          [] c = credits -> {in \in Inputs : in.store = 2 \/ (in.store = 1 /\ in.file[page] = 1)}
          [] c = Proof   -> {in \in Inputs : in.file[code] = 2 /\ in.store = 1}
          [] c = parser  -> {in \in Inputs : in.file[code] = 2 \/ in.file[page] = 1}
          [] c = reader  -> {in \in Inputs : in.file[code] = 1 /\ in.store = 2}]

\* One suite names its module, one names nothing, and the proof names both the
\* module and the build output.
MCNames ==
    [s \in MCSuite |->
        CASE s = Proof -> {code, "build"} [] s = parser -> {code} [] s = reader -> {}]

MCCount == [in \in Inputs |-> IF in.store = 1 /\ in.file[code] = 1 THEN 1 ELSE 0]
=============================================================================
