SPECIFICATION Spec
CONSTANTS
    Reports <- MCReports
    Contents <- MCContents
    Uris <- MCUris
    GroupUri <- MCGroupUri
    Answers <- MCAnswers
    InitBuf = 8
    ClientBuf = 4
    ServerBuf = 8
INVARIANTS
    TypeOK
    RequestWhole
    ReplyWhole
    ReplyBegins
    NeverBothWait
    ReportWhole
CHECK_DEADLOCK FALSE
