SPECIFICATION FairSpec
CONSTANTS
    Requests = {r1, r2}
INVARIANTS
    ExclusiveJobs
    ActiveUntouched
PROPERTIES
    LocalRowsKept
    FinalizedOnce
    ClaimsReleased
