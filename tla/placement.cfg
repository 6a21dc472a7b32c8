\* Homographs, words with two forms and files from before ids.
SPECIFICATION Spec
CONSTANTS
    None = None
    Cards <- Words5
    Spellings <- MCSpellings
    Scenes <- MCScenes
    Name <- MCName
    Original <- MCOriginal
    Sense <- MCSense
    Place <- MCPlace
    OldFiles <- MCOldFiles
INVARIANTS NoForks SensesApart AnswersAreSeen PlainSkipsAreRead
