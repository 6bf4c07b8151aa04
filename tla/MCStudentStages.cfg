\* Two variants, a crash or a change of recipe or admission, sources that expire.
SPECIFICATION FairSpec
CONSTANTS
    teacher = teacher
    Admissions = {1, 2}
    Recipes = {"old", "new"}
    Teachers = {teacher}
    Sources <- OneSource
    ExpiresAt <- Expiry
    Variants = {"bf16", "fp8"}
    StageSpan = 1
    MaxTime = 2
    MaxFaults = 1
INVARIANTS ReservedInFlight JoinMatchesStages
PROPERTIES ImplementsPipeline TrainAdvances StagesJoined
CHECK_DEADLOCK FALSE
