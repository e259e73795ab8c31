SPECIFICATION FairSpec
CONSTANTS
    Services = {"search"}
    MaxFailures = 1
PROPERTIES FatalEnds
CHECK_DEADLOCK FALSE
