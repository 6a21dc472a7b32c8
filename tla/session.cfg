\* Two tabs and every kind of page.
SPECIFICATION Spec
CONSTANTS
    t1 = t1
    t2 = t2
    jump = jump
    leap = leap
    NotFound = NotFound
    Tabs = {t1, t2}
    Cards = {jump, leap}
    Quizzes = {"notebook", "reverse", "freeform", "grammar", "relearn", "detail"}
    DbNotes <- MCDbNotes
    RelearnID <- MCRelearnID
    MaxDeck = 2
    MaxStarts = 2
    MaxCalls = 3
SYMMETRY Symmetric
\* The learners may stop, and the bounds make them.
CHECK_DEADLOCK FALSE
INVARIANTS BatchFromOneSession RelearnActsOnShown StoredExactlyOnce LatestNotebookClicks
