CONSTANTS
    a = a
    b = b
    c = c
    t1 = t1
    t2 = t2
    Mask = Mask
    None = None
    Char <- Runes
    Thread = {t1, t2}
    Scripts <- SomeScripts
    MaxNode = 9
    Texts <- AllTexts
    Lists <- SomeLists
SPECIFICATION Spec
INVARIANTS TypeOK QuerySound QueryComplete ListsSpare
PROPERTY SetRefinement
CHECK_DEADLOCK FALSE
