---------------------------- MODULE MCUpdateRun ----------------------------
EXTENDS UpdateRun

CONSTANTS shelf, site, name

\* One command, and one platform with a file of its own.
MCTitle == [s \in {shelf, site} |-> IF s = shelf THEN 1 ELSE 2]
=============================================================================
