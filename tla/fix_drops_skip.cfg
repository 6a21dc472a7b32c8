\* A word excluded in one scene and answered in the one it moved to.
SPECIFICATION Spec
CONSTANTS
    Notebooks <- MovingNotebooks
    Straight <- MCStraight
    OldKeys <- MCOldKeys
    MaxAnswers = 2
    MaxClicks = 2
    None = None
INVARIANT SkipsOutliveFixes
CHECK_DEADLOCK FALSE
