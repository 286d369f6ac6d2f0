CONSTANTS
    MaxClients = 2
    Frags = {f1, f2}
    MaxSplits = 2
    Silence = 1
    Loads <- Loads3
SPECIFICATION RawSpec
INVARIANTS RawInv DeniedWithheld
PROPERTY ClientsSettle
CHECK_DEADLOCK FALSE
