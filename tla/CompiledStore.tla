---------------------------- MODULE CompiledStore ----------------------------
(***************************************************************************)
(* What the store promises whoever reads it: that it says what some run's  *)
(* capture said, the whole of it and nothing besides, or nothing at all.   *)
(***************************************************************************)
CONSTANTS
    Capture,  \* what a run may find
    Nothing   \* what a store that is missing or empty says

VARIABLES
    says,     \* what the store says
    building  \* the capture a build is writing, or Nothing

Init == says = Nothing /\ building = {}

Begin == building = {} /\ \E c \in Capture : building' = {c} /\ UNCHANGED says

Finish == \E c \in building : says' = c /\ building' = {}

\* A build that cannot bring the file up to date replaces it, and has nothing
\* to show between the two.
Replace == building # {} /\ says' = Nothing /\ UNCHANGED building

Abandon == building # {} /\ building' = {} /\ UNCHANGED says

Next == Begin \/ Finish \/ Replace \/ Abandon

Spec == Init /\ [][Next]_<<says, building>>
=============================================================================
