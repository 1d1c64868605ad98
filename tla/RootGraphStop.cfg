\* Checked: a stop while several experts work.
SPECIFICATION FairSpec
CONSTANTS
    NDomains = 3
    Askable <- MCAskable
    MaxDomains = 2
    ClarifyLimit = 1
    Steps = 2
    Checkpointed = TRUE
    MaxTurns = 1
CHECK_DEADLOCK FALSE
PROPERTY
    StopReachesExperts
