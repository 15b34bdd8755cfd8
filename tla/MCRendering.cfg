CONSTANTS
    None = None
    Tags <- MCTags
    Cited <- MCCited
    Citation <- MCCitation
    LowerCase <- MCLowerCase
    MaxAssertions = 4
SPECIFICATION Spec
INVARIANTS
    TypeOK
    RulesResolve
    LevelsAgree
    NothingHidden
    ExitIsShown
