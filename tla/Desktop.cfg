CONSTANTS
    WIDTH = 8
    HEIGHT = 7
    Motions <- MCMotions
    Points <- MCPoints
    WM_MAX_WINDOWS = 2
    TASKBAR_H = 1
    TITLEBAR_H = 1
    CHROME_BTN = 1
    BtnArea = 3
    W = 6
    H = 5
    Places <- MCPlaces
SPECIFICATION Spec
INVARIANTS StackSound ShownIsCurrent
PROPERTY CursorSettles
