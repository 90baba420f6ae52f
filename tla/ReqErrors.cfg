CONSTANTS
    Callers = {c1, c2}
    MaxIds = 2
    MaxAnswers = 1
SPECIFICATION Spec
INVARIANTS
    OnlyLibraryErrors
