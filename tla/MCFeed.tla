------------------------------- MODULE MCFeed -------------------------------
EXTENDS Feed, TLC

CONSTANTS found, page, work

\* A chapter that coverage led to, and a one-shot of that title whose page
\* states no date.
MCWorkOf == [r \in Row |-> work]
MCPublished == [r \in Row |-> 1]
PlatformNames == Permutations(Platform)
=============================================================================
