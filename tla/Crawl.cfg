SPECIFICATION Spec
CONSTANTS
    Urls <- MCUrls
    FileOf <- MCFileOf
    DirOf <- MCDirOf
    Index <- MCIndex
    Directories <- MCDirectories
    Hash <- MCHash
    Primes <- MCPrimes
    Worlds <- MCWorlds
INVARIANTS
    TypeOK
    MapsTrue
    NothingMissed
    Browsable
PROPERTY Ends
