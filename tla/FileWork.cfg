SPECIFICATION WorkSpec
CHECK_DEADLOCK FALSE
CONSTANTS
    Protocols = {"xmodem", "ymodem", "tftp"}
    Cancels = TRUE
    LinkFails = TRUE
    Setups = {"manual", "auto", "load", "baud"}
    Directions = {"send", "receive"}
    Sources <- MCSources
    BlockSize = 2
    BlockMod = 3
    MaxRetries = 2
    FinishTries = 1
    MaxFaults = 1
    Sizes = {0, 6, 7}
    Offers <- MCOffers
    MinBlock = 2
    DefaultBlock = 2
    MaxBlock = 3
    NumberMod = 3
    CommandLines = 2
    MaxRestarts = 1
    Methods = {"local", "sftpDownload", "scpDownload", "sftpUpload", "sftpCopy", "scpUpload", "scpCopy"}
    Contents <- MCContents
    Leftovers <- MCLeftovers
    MaxAttempts = 2
    MaxEdits = 1
    ExportKinds = {"text", "replace", "archive", "bundle"}
    MaxExportFaults = 3
    MoveRequests <- MCRequests
    Paths <- MCPaths
    Folders = {"x/d"}
    NameOf <- MCNameOf
    Parent <- MCParent
    Walks = {"localPlan", "remotePlan", "remoteDelete"}
    EntryLimits = {3, 4}
    BatchFiles <- MCFiles
    BatchFolders <- MCFolders
    Standing <- MCStanding
    MaxSuffix = 3
    Capacity = 2
INVARIANTS FilesAreIntact DeviceLeftAlone
PROPERTY TransferEnds
