\* Overrides addressed by date, the way the pages address them.
SPECIFICATION Spec
CONSTANTS
    FixedIntervals <- MCFixed
    TicksPerDay = 2
    SecondTicks = 1
    Calculators = {"sm2"}
    QuizTypes <- MCQuizTypes
    Outcomes <- MCOutcomes
    ResponseTimes = {1}
    Waits = {}
    Overrides = TRUE
    KeyKinds = {"day"}
    Spacing = 1
    LegacySkip = 3650
    MaxLogs = 3
    MaxClock = 12
INVARIANT OverrideHitsClicked
