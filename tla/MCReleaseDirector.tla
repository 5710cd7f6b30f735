-------------------------- MODULE MCReleaseDirector --------------------------
EXTENDS ReleaseDirector

MCVisibleAt == [ticket \in Tickets |-> 2]
=============================================================================
