SPECIFICATION MCSpec
CONSTANTS
    Halves = {"library", "watching", "cards", "likes", "words", "grid"}
    None = None
    sa = sa
    sb = sb
    r1 = r1
    Copies = {1, 2, 3}
    PageSize = 1
    MaxPages = 3
    CheckedFor = 1
    KeptFor = 1
    MaxTime = 1
    MaxChanges = 2
    film = film
    show = show
    Recent = 0
    AbandonedAfter = 1
    FewEpisodes = 1
    MaxDays = 2
    Plays = 3
    MaxFiles = 2
    netflix = netflix
    shop = shop
    Kept = 1
    MaxPatches = 1
    Numbers = {1, 2}
    asker = asker
    MaxSwipes = 3
    tab = tab
    Rewrites = 2
    Limit = 2
    Longest = 1
    MaxVerdicts = 1
    MaxSaves = 2
    Posters = {"a", "b", "c", "d", "e"}
    WallSize = 3
    Deepest = 2
    MaxWalls = 1
INVARIANTS
    WhatIsWatchedIsNotGivenUp
    CardsAreTrue
    ReadBackAsItIs
    WallsAskWidely
PROPERTIES
    ListingsAreWhole
CHECK_DEADLOCK FALSE
