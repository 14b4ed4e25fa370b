\* ClientTimeout exceeds SearchTimeout, which exceeds the sum of the backoffs, as in the code.
SPECIFICATION ProviderFairSpec
CONSTANTS
    ClientTimeout = 7
    BackoffUnit = 1
    SearchTimeout = 6
INVARIANTS
    ProviderTypeOK
    FindsWhatIsHeld
    VerdictIsReal
    BoundedEffort
PROPERTIES
    CallReturns
