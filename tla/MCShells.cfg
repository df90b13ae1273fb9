SPECIFICATION Spec
CONSTANTS
    Screens <- MCScreens
    FontWidth = 8
    FontHeight = 16
    Word = 1048576
    Limit = 4
    Keys = {"a", "tab"}
    MaxKeys = 4
INVARIANTS CursorOnScreen DrawnInside ScreenShowsLine PromptVisible PanicReadable
PROPERTIES UsesConsole PromptReturns
CHECK_DEADLOCK FALSE
