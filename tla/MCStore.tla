------------------------------- MODULE MCStore -------------------------------
EXTENDS Store

\* Every sound statement about two names, one claim each, under three states of
\* the publishers: one, the same under a new name, and two.
MCHouses == {{<<1, "x">>}, {<<1, "y">>}, {<<1, "x">>, <<2, "y">>}}
MCCapture ==
    {c \in [house : MCHouses, names : SUBSET Name, alias : SUBSET (Name \X Name),
            claims : SUBSET (Name \X Value), cited : SUBSET (Name \X Value)] : Sound(c)}
=============================================================================
