CONSTANTS
    None = None
    Tags <- MCTags
    TrustDomains <- MCTrustDomains
    UpperNames <- MCUpperNames
    BadCharNames <- MCBadCharNames
    LongNames <- MCLongNames
    Invocations <- AllInvocations
SPECIFICATION Spec
INVARIANTS
    TypeOK
    ReportIsTruthful
    ExitIsCompliance
    NothingLeftOut
    OneLinePerClause
