\* The live quiz and validate --fix, without overrides: SM-2 with
\* recognition and free-form answers, fixed levels with recall answers.
SPECIFICATION Spec
CONSTANTS
    Calculators = {"sm2", "fixed"}
    FixedIntervals <- MCFixed
    TicksPerDay = 2
    SecondTicks = 1
    QuizTypes <- MCQuizTypes
    Outcomes <- MCOutcomes
    ResponseTimes = {1}
    Waits = {1}
    Overrides = FALSE
    KeyKinds = {"day"}
    Spacing = 1
    LegacySkip = 3650
    MaxLogs = 3
    MaxClock = 30
INVARIANT StoredIsReplay
PROPERTIES DueAnswerAdvances IntervalFollowsGrade
