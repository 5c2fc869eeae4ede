SPECIFICATION Spec
CONSTANTS
    Urls = {"a", "b"}
    Worlds <- LooseWorlds
    N = 2
    Ntry = 2
    MaxRedirect = 1
    MaxKills = 0
    Backups = FALSE
INVARIANT ReuseIsQuiet
