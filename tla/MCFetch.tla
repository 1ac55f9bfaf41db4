------------------------------- MODULE MCFetch -------------------------------
EXTENDS Fetch

CONSTANTS w1, w2, page, image, host

\* A page and an image of one host, which is where the workers meet.
MCHostOf == [u \in {page, image} |-> host]
MCPause == [h \in {host} |-> 1]
=============================================================================
