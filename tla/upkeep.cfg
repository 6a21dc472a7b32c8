\* The commands between answers, exclusions and edits of the notebook.
SPECIFICATION Spec
CONSTANTS
    Notebooks <- MCNotebooks
    Straight <- MCStraight
    OldKeys <- MCOldKeys
    MaxAnswers = 3
    MaxClicks = 2
    None = None
INVARIANTS FixedIsRead FixSettles FixedIsClean
PROPERTY AnswersKept
CHECK_DEADLOCK FALSE
