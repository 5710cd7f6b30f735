-------------------------- MODULE MCIncidentDirector --------------------------
EXTENDS IncidentDirector

MCVisibleAt == [ticket \in Tickets |-> 2]
MCPhaseAt == [n \in 0..Horizon |-> IF n < 3 THEN "triage" ELSE "recovery"]
=============================================================================
