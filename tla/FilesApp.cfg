SPECIFICATION FilesFairSpec
CONSTANTS
    Dirs = {"/", "/d"}
    Files = {"/f", "/d/.keep"}
    Root = "/"
    Parent <- MCParent
    Keep <- MCKeep
    Others = {"/d"}
    NoEntry = NoEntry
    FilesOut = 2
    MaxHist = 1
    MaxWins = 2
INVARIANTS
    SelectionIsShown
    RestIsCurrent
PROPERTY
    LoadingEnds
