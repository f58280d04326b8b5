SPECIFICATION Spec
CONSTANTS
    Runs = {w1, w2}
    MaxMonth = 2
    MaxVersion = 2
    Parented = {1}
    MaxFailures = 1
INVARIANTS
    StoredTogether
    AnswerIsOneLayout
PROPERTIES
    LayoutIsFinal
