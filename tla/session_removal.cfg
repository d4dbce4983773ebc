\* A terminal that types twice while the device is unplugged and the mapping removed.
CONSTANTS
    HttpClients = {}
    SshClients = {s1}
    QueueCap = 1
    DiscardInput = TRUE
    MayClose = TRUE
    MaxOpens = 3
    MaxUnplugs = 1
    MaxLines = 0
    MaxReqs = 2
SPECIFICATION Spec
INVARIANTS NoRequestLost HandleAccounting OldStopsClosed VerdictIsTrue
PROPERTIES ImplementsWriteService
CHECK_DEADLOCK FALSE
