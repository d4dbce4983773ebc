\* The mapping stays: a request opens the session, which loses its device and reconnects.
CONSTANTS
    HttpClients = {h1}
    SshClients = {}
    QueueCap = 1
    DiscardInput = TRUE
    MayClose = FALSE
    MaxOpens = 2
    MaxUnplugs = 1
    MaxLines = 3
    MaxReqs = 1
SPECIFICATION FairSpec
INVARIANTS Served Recovering LinesInOrder
PROPERTIES Reconnects QueuedIsAnswered
CHECK_DEADLOCK FALSE
