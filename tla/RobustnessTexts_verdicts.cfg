SPECIFICATION Spec
CONSTANTS
    None = None
    MaxLength = 5
    Seeds = {0, 1}
    Families <- MCFamilies
    Synonyms <- MCSynonyms
    Contractions <- MCContractions
    Choice <- MCChoice
INVARIANTS
    VerdictKept
    NoNewArtefacts
    NormalFormsAreStable
CHECK_DEADLOCK FALSE
