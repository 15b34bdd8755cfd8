CONSTANTS
    None = None
    Tags <- MCTags
    TrustDomains <- MCTrustDomains
    UpperNames <- MCUpperNames
    BadCharNames <- MCBadCharNames
    LongNames <- MCLongNames
    CredentialBundleName = "cred"
    TrustDomainOf <- MCTrustDomainOf
    Body <- MCBody
    Cert <- MCCert
    Key <- MCKey
    NameOrder <- MCNameOrder
    Timelines <- SingleFolders
SPECIFICATION Spec
INVARIANTS
    TypeOK
    SnapshotVerdict
    EveryBundleJudged
    OneLinePerFile
