CONSTANTS
    None = None
    Tags <- MCTags
    TrustDomains <- MCTrustDomains
    UpperNames <- MCUpperNames
    BadCharNames <- MCBadCharNames
    LongNames <- MCLongNames
    Invocations <- FewInvocations
SPECIFICATION Spec
INVARIANT FragmentIsSeen
