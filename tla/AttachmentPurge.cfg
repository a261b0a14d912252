CONSTANTS
    Attachments = {a1}
    Servers = {s1}
    Requests = {r1}
    ScanRuns = {j1, j2}
    PurgeRuns = {p1}
    SerialUploads = {}
    ScanLimit = 2
    PurgeLimit = 1
    MaxPuts = 2
    MaxFaults = 1
    NoServer = NoServer
    NoAttachment = NoAttachment
SPECIFICATION FairSpec
INVARIANT DownloadedIsVetted
INVARIANT PurgedHasNoObject
PROPERTY PurgedForGood
PROPERTY UploadIsJudged
PROPERTY DeletionPropagates
CHECK_DEADLOCK FALSE
