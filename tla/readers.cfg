\* Notebooks of every kind, answers in the three quizzes, exclusions and days.
SPECIFICATION Spec
CONSTANTS
    Books <- MCBooks
    Intervals = {2}
    Thresholds <- MCThresholds
    MaxCalls = 3
    MaxDays = 2
    None = None
    Window = 1
    MaxWindow = 7
INVARIANTS   MissesComeBack ExcludedStayOut RelearnAsksMisses
\* The days are over.
CHECK_DEADLOCK FALSE
