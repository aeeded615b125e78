SPECIFICATION RequestsSpec
CONSTANTS
    Levels = {0, 1}
    Titles = {"Yard", "Yard!", "?"}
    MaxSaves = 1
    MaxTime = 2
INVARIANTS
    AnswerWasCurrent
    SessionTells
    StationRecognised
    RealFileWins
    ListedPageFound
