\* One request at a time.
SPECIFICATION Spec
CONSTANTS
    c1 = c1
    c2 = c2
    jump = jump
    leap = leap
    run = run
    Clients = {c1}
    Words = {jump, leap}
    QuizTypes = {"notebook", "reverse", "freeform"}
    Concept <- MCConcept
    Offered = {"answer", "skip", "resume", "override"}
    MaxCalls = 3
    MaxClock = 2
INVARIANTS OwedKept MirrorNeverAhead
PROPERTY ImplementsLedger
