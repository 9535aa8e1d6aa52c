CONSTANTS
    MaxHeaderLines = 6
    Urls = {"ws", "invalid", "encoded", "ftp"}
    Responses <- MCResponses
    Origins = {"", "break"}
    Owners = {"cpp", "qml", "echo", "sslecho"}
    MaxOpens = 3
SPECIFICATION ClientFairSpec
INVARIANTS RightAnswerConnects OpenMeansOpen
PROPERTIES ConnectedByOwnAnswer ProgramsEnd
CHECK_DEADLOCK FALSE
