\* Two requests at a time on one notebook.
SPECIFICATION Spec
CONSTANTS
    c1 = c1
    c2 = c2
    jump = jump
    leap = leap
    run = run
    Clients = {c1, c2}
    Words = {jump, leap}
    QuizTypes = {"freeform"}
    Concept <- MCConcept
    Offered = {"answer", "skip", "resume", "override"}
    MaxCalls = 3
    MaxClock = 3
SYMMETRY ClientSymmetry
INVARIANTS NewestFirst FreeformInBothLists SkipUnion StoredOnce
