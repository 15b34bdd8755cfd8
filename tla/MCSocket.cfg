CONSTANTS
    None = None
    Tags <- MCTags
    PortBits = 3
    Invocations <- MCInvocations
SPECIFICATION Spec
INVARIANTS
    TypeOK
    ReportIsTruthful
    EveryRuleOnce
    ExitIsCompliance
    SameShape
