CONSTANTS
    w1 = w1  p1 = p1  p2 = p2
    Clients = {p1, p2}
    Workers = {w1}
    Files <- MCFiles
    NoFile = NoFile
    AllowedMimeTypes = {"application/pdf", "image/png", "image/jpeg"}
    MaxUploadSize = 2
    BodySlack = 2
    FormOverhead = 1
    MaxDocuments = 2
    MaxFaults = 1
    MaxGets = 1
SPECIFICATION PageFairSpec
INVARIANTS UploadsTypeOK DocumentHasItsFile SameBytesProcessedOnce
PROPERTIES PageMovesForward UploadButtonComesBack
CHECK_DEADLOCK FALSE
