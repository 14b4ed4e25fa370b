\* Two processes start while an older release still writes; one fault.
SPECIFICATION StartupFairSpec
CONSTANTS
    c1 = c1
    u1 = u1
    Codes = {c1}
    Procs = {p1, p2}
    Ids = {b1}
    Subjects = {u1}
    NoOwner = NoOwner
    Dev = Dev
    Envs <- SomeEnvs
    Tokens <- SomeTokens
    LegacyTexts <- OldTexts
    Inputs <- SomeInputs
    MaxFaults = 1
INVARIANTS
    StartupTypeOK
    NeverSilentlyOpen
    AcceptedIsStorable
PROPERTIES
    OnlyGhostsDeleted
    PreAuthRowsUntouched
    ComesUp
