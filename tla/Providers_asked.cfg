CONSTANTS
    FetcherLists <- MCFetcherLists
    Places <- MCPlaces
    Alike <- MCAlike
    Callers = {c1, c2}
    BanDuration = 1
    FetchTime = 2
    FetcherUpdates = 1
    Hosts = {h1, h2, h3}
    Lists <- MCLists
    Existing = {2, 6}
    Tenths = 8
    StoreProviders = {"p", "q"}
    Updates = 1
    StoreCrashes = 1
    WriteFaults = 1
    Releases = 1
    Marks = 1
    Catalogue <- MCCatalogue
    Wanted <- MCWanted
    Picks = 4
    PIAPorts = {1, 2}
    Validity = 2
    PIATime = 4
    PIACrashes = 2
    PIAFaults = 2
    Externals = {4, 5, 6, 7}
    NonSymmetric = 5
    PortsCounts = {1, 3}
    Tries = 3
    PMPTime = 7
    PMPLosses = 2
    Thefts = 1
    Handlers = {"h1", "h2"}
    Followed <- MCFollowed
    Rotations = 1
    Challenges = 2
    Period = 3
SPECIFICATION Spec
INVARIANTS AllAreAsked
CHECK_DEADLOCK FALSE
