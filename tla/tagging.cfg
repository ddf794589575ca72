SPECIFICATION Spec
CONSTANTS
    Names <- MCNames
    Lower <- MCLower
    Capital <- MCCapital
    Abbreviates <- MCAbbreviates
    Inside <- MCInside
    Roots = {"/a"}
    Cameras <- MCCameras
    Lenses = {"wide", "35"}
    Numbers = {"35"}
    MaxListed = 1
    Statuses = {"accepted", "undecided", "rejected", "new"}
    LastDay = 3
    Catalogues <- MCCatalogues
    Texts <- MCTexts
    Turns <- MCTurns
    Found <- MCFound
    MaxSteps = 6
CHECK_DEADLOCK FALSE
INVARIANTS NamesFindTags
PROPERTIES EnterApplies ReopensAsLeft
