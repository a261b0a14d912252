CONSTANTS
    Attachments = {a1, a2}
    Servers = {s1}
    Requests = {r1, r2}
    ScanRuns = {j1, j2}
    PurgeRuns = {}
    SerialUploads = {a1}
    ScanLimit = 2
    PurgeLimit = 1
    MaxPuts = 1
    MaxFaults = 0
    NoServer = NoServer
    NoAttachment = NoAttachment
SPECIFICATION Spec
SYMMETRY Symmetry
INVARIANT SharedWasVetted
INVARIANT DownloadableHasObject
INVARIANT AnnouncedOnce
PROPERTY VerdictStands
CHECK_DEADLOCK FALSE
