SPECIFICATION Spec
CONSTANTS
    Photos = {1, 2, 3, 4}
    CaptureDate <- MCCaptureDate
    FolderOf <- MCFolderOf
    SubFolders <- MCSubFolders
    Folders <- MCFolders
    Width <- MCWidth
    MaxDirect = 3
    Threshold = 2
    PerRow = 2
    Forever = 1000
    Statuses = {"undecided", "rejected"}
    Wanted <- MCWanted
    Default <- MCDefault
    Layouts = {"FullGrid", "VGrid", "HLine", "VLine", "FullPhoto"}
    MaxEdits = 4
CHECK_DEADLOCK FALSE
INVARIANTS ShowsFilter MainSlideIsCurrent ExpandedIsRecorded
PROPERTIES NextIsNext FilterKeepsCurrent PurgeSparesTheKept
