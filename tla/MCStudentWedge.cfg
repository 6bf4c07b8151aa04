\* One admission, no crash: a finished student and its restored sources.
SPECIFICATION FairSpec
CONSTANTS
    teacher = teacher
    Admissions = {1}
    Recipes = {"old"}
    Teachers = {teacher}
    Sources <- OneSource
    ExpiresAt <- Expiry
    Variants = {"bf16"}
    StageSpan = 1
    MaxTime = 1
    MaxFaults = 0
PROPERTY PendingIntentsRepaired
CHECK_DEADLOCK FALSE
