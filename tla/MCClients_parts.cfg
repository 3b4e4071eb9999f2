\* The pages over the query cache, and the parts with a state of their own.
SPECIFICATION PartsSpec
CONSTANTS
    Areas <- MCAreas
    MaxMoves = 2
    MaxRequests <- Requests
    MaxTroubles = 1
    DropPage = "files"
    DropViews <- MCDropViews
    Listed <- MCListed
    Invalidates <- MCInvalidates
    Tabs = {"a", "b"}
    Idle = 2
    Warning = 2
    MaxSignals = 6
    Catalog <- MCCatalog
    Granted = {"view", "gone"}
    RootOnly = {"root"}
    Matches <- MCMatches
    MaxEdits = 4
    Searches = {"", "x"}
    Values = {"any", "c"}
    PagesOf <- MCPagesOf
    MaxClicks = 4
    Palettes = {"indigo"}
    Specs = {1, 2}
    MaxSwitches = 5
INVARIANTS OwnWritesShow ControlsTell EditorTells TrailTells ThemeShows
PROPERTIES StagedEditsKept PagesCatchUp GuardKeepsItsWord
\* What a user may do is bounded.
CHECK_DEADLOCK FALSE
