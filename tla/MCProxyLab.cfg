CONSTANTS
    Main = main
    Workers = {t1, t2}
    Fds = {f1, f2, f3}
    NoFd = NoFd
    N = 2
    MaxConns = 5
    RIO_BUFSIZE = 3
    MaxStream = 4
    MaxWant = 4
    Uris <- MCUris
    Files <- MCFiles
    Tty = FALSE
    MaxHeaders = 1
    Paths <- MCPaths
    Lines <- MCLines
    MAXLINE = 16
    MAXBUF = 48
    MaxLines = 3
    LongBits = 8
    Numbers <- MCNumbers
    MaxAddresses = 2
SPECIFICATION ProxyLabSpec
INVARIANTS
    ServesOwnFd
    RioKeepsTheStream
    TinyAnswers
    ForwardsAsMeant
    CsappKeepsItsWord
    PrintsTheNumber
PROPERTIES
    IsChannel
    EveryConnServed
    ConnectionsEnd
CHECK_DEADLOCK FALSE
