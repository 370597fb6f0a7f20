SPECIFICATION FunctionsSpec
CONSTANTS
    None = None
    Missing = Missing
    Raised = Raised
    MaxLines = 3
    MaxBytes = 6
    DownloadRetries = 1
    MaxAttachment = 2
    MaxTotal = 3
    MaxDelta = 9
    MaxSize = 5
    FileLines = 4
    TextLen = 4
INVARIANTS
    WindowsCover FilesServeRun SessionsDecide ContextKeepsHistory RecallIsBest
