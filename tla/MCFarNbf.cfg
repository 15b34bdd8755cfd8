CONSTANTS
    None = None
    Malformed = Malformed
    Tags <- MCTags
    TrustDomains <- MCTrustDomains
    UpperNames = {}
    BadCharNames = {}
    LongNames = {}
    MaxSec = 31
    Epoch = 8
    Leeway = 1
    StartTimes = {4, 5}
    MaxClock = 7
    Invocations <- FarNbf
SPECIFICATION Spec
INVARIANT PassedNbfIsNotInFuture
