CONSTANTS
    Configs <- MCConfigs
    Requests <- MCRequests
    Replies <- MCReplies
    Nodes <- MCNodes
    Size <- MCSize
    Models <- MCModels
    Read <- Parse
    Write <- String
    Amounts <- MCAmounts
    Calendar <- MCCalendar
    Unparsable = Unparsable
    None = None
    DefaultLimit = 30
    DefaultWindow = "9d"
    DefaultField <- at
SPECIFICATION Spec
INVARIANT ForbiddenRejected
