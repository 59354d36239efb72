CONSTANTS
    Faults = {"good", "auth", "hash"}
    AuthEnabled = TRUE
    SblImages = TRUE
    AppFde = {TRUE, FALSE}
    ReadErrors = FALSE
SPECIFICATION FairSpec
INVARIANT RunsVerifiedImage
INVARIANT FdeNamesRunningImage
 
