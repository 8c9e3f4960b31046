CONSTANTS
    MaxSessions = 1
    NoCommand = NoCommand
    Commands <- MCCommands
    Envs <- MCEnvs
SPECIFICATION CliSpec
INVARIANTS
    CliTypeOK
    ResultsOrNothing
    ReleasedBeforeOutput
    CodeTellsFault
    InterruptIsNoFailure
    FlagsHonoured
CHECK_DEADLOCK FALSE
