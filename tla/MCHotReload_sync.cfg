SPECIFICATION FairSpec
CONSTANTS
    NumRules = 2
    Names <- MCNames
    Wildcard <- MCWildcard
    NginxSites <- MCNginxSites
    ApacheSites <- MCApacheSites
    Autocert = {"_"}
    PemFiles = {"c1", "k1", "c2", "k2"}
    SyncEnabled = TRUE
    DeepLists = TRUE
    MaxEdits = 2
INVARIANTS
    TypeOK
    BadFilesAlone
PROPERTIES
    Converges
