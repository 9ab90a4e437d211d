SPECIFICATION Spec
CONSTANTS
    a = a
    b = b
    Words = {a, b}
    Style = style
    Open = open
    Close = close
    Space = space
    Mark = mark
    Empty = empty
    Pages <- MCPages
    Requests <- MCRequests
    Limit = 2
    ErrorPage <- MCErrorPage
INVARIANTS
    TypeOK
    HitsHaveAllWords
    NoKnownFileMissed
    SearchBest
CHECK_DEADLOCK FALSE
