\* Checked: two turns of a conversation; the last one may be final.
SPECIFICATION FairSpec
CONSTANTS
    NDomains = 3
    Askable <- MCAskable
    MaxDomains = 2
    ClarifyLimit = 2
    Steps = 2
    Checkpointed = TRUE
    MaxTurns = 2
CHECK_DEADLOCK FALSE
INVARIANTS
    EveryReplyIsScreened
    HonestStatus
    AsksAreBounded
    FreshOutcomes
PROPERTIES
    ConcludedDomainsStay
    EveryTurnEnds
