\* Overrides addressed by full timestamp and their undoing, between answers and
\* fixes.
SPECIFICATION Spec
CONSTANTS
    FixedIntervals <- MCFixed
    TicksPerDay = 2
    SecondTicks = 1
    Calculators = {"sm2"}
    QuizTypes <- MCQuizTypes
    Outcomes <- MCOutcomes
    ResponseTimes = {1}
    Waits = {}
    Overrides = TRUE
    KeyKinds = {"instant"}
    Spacing = 1
    LegacySkip = 3650
    MaxLogs = 3
    MaxClock = 12
INVARIANTS OverrideHitsClicked UndoRestoresLog HalvesAgree ReportsAgree CardTellsHistory
