SPECIFICATION Spec
CONSTANTS
    Bad = bad
    Good = good
    Clean = clean
    Wrong = wrong
    Views = {v1}
    Tickets = {t1}
    VisibleAt <- MCVisibleAt
    Catalogue = {"pause_rollout", "quarantine_digest", "clean_rebuild", "promote_digest", "retag_in_place"}
    Checks = {"baseline", "provenance", "canary", "replay", "soak"}
    Horizon = 9
    MinTicks = 8
    MinObservations = 1
    ReplayAfter = 1
    SoakAfter = 2
    SoakMin = 7
    SnapshotBudget = 1
    RebuildBudget = 1
    ActionBudget = 4
INVARIANTS VerifiedRestsOnChain VerifiedStaysRecovered CompleteMeansVerified
PROPERTIES ReadinessIsKept LadderSpec
