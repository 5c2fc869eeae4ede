SPECIFICATION Spec
CONSTANTS
    Urls = {"a", "b"}
    Worlds <- BackupWorlds
    N = 2
    Ntry = 2
    MaxRedirect = 1
    MaxKills = 0
    Backups = TRUE
INVARIANT SavedIsPrefix
