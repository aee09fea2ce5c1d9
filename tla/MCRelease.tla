----------------------------- MODULE MCRelease -----------------------------
EXTENDS Release, TLC
CONSTANTS c1, c2, c3, v1

\* Three revisions with the same version number: the version was not raised.
MCVersion == [c \in Commits |-> v1]
=============================================================================
