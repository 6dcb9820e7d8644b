\* Three lines, cut anywhere, and reads that cannot take all that has arrived.
CONSTANTS
    Token <- MCToken
    Sep <- MCSep
    Crlf <- MCCrlf
    Messages <- MCMessages
    MaxLines = 3
    BufSize = 26
SPECIFICATION Spec
INVARIANTS TypeOK WholeLinesHandled OneAnswerPerLine HonestClientStays
CHECK_DEADLOCK FALSE
