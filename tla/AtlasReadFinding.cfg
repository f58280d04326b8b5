SPECIFICATION Spec
CONSTANTS
    Runs = {w1}
    MaxMonth = 1
    MaxVersion = 2
    Parented = {1, 2}
    MaxFailures = 0
INVARIANTS
    AnswerIsOneSnapshot
