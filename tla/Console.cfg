CONSTANTS
    Letters = {"a", "b"}
    LINE_MAX = 3
    HISTORY_MAX = 2
    Cols = 2
    Rows = 3
    MaxCrossings = 1
SPECIFICATION Spec
INVARIANTS ScreenShowsLine NoGhost HistoryRecalls
