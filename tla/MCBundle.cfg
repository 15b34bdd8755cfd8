CONSTANTS
    None = None
    Tags <- MCTags
    TrustDomains <- MCTrustDomains
    UpperNames <- MCUpperNames
    BadCharNames <- MCBadCharNames
    LongNames <- MCLongNames
    Folded <- MCFolded
    Kids <- MCKids
    KeyTag <- MCKeyTag
    NameTag <- MCNameTag
    Invocations <- MCInvocations
SPECIFICATION Spec
INVARIANTS
    TypeOK
    ExitIsVerdict
    KidVerdictIsExact
    EveryEntryJudged
    OneLinePerPart
    ReadsLikeTheFile
