SPECIFICATION Spec
CONSTANTS
    Urls = {"a", "b"}
    Worlds <- MCWorlds
    N = 2
    Ntry = 3
    MaxRedirect = 1
    MaxKills = 1
    Backups = FALSE
INVARIANTS
    TypeOK
    SavedIsPrefix
    ReuseIsQuiet
    SocketsAccounted
    ExitTells
PROPERTIES
    DownloadKept
    Terminates
