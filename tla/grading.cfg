\* Batches of every quiz, lost replies, retries and failures of the model.
SPECIFICATION Spec
CONSTANTS
    Quizzes = {"notebook", "reverse", "freeform", "grammar", "relearn"}
    BatchSize = 2
    Shapes = {"typed", "empty", "fix", "unknown", "circular"}
    MaxRetryAttempts = 1
    Concurrency = 1
    MaxSendings = 2
    None = None
INVARIANTS OwnGrades ShownIsStored
PROPERTY EverySendingEnds
\* The page keeps its results.
CHECK_DEADLOCK FALSE
