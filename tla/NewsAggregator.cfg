CONSTANTS
    k1 = k1
    k2 = k2
    w1 = w1
    w2 = w2
    w3 = w3
    Keys = {k1, k2}
    Words = {w1, w2, w3}
    NumFeeds = 3
    ArticlesOf <- SomeArticles
    TokensOf <- SomeTokens
    NumFeedWorkers = 2
    NumArticleWorkers = 3
SPECIFICATION FairSpec
INVARIANTS FramesOutliveThunks MergesExact EveryUrlStored
PROPERTY BuildEnds
CHECK_DEADLOCK FALSE
