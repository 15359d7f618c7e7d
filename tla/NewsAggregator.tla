--------------------------- MODULE NewsAggregator ---------------------------
(***************************************************************************)
(* assign5/news-aggregator.cc: processAllFeeds() runs one thunk per feed on*)
(* a pool, each feed one thunk per article on a second pool.  Both levels  *)
(* wait for their thunks on a semaphore of their own stack frame.  Articles*)
(* with the same server and title are merged: the tokens they have in      *)
(* common, under the smallest URL.                                         *)
(*                                                                         *)
(* The pools are WorkPools: they take, run and finish thunks as that module*)
(* says, which ThreadPool is shown to implement.  Tokens are a set; how    *)
(* often a token occurs is left out.                                       *)
(***************************************************************************)
EXTENDS Integers, Sequences, FiniteSets

CONSTANTS
    NumFeeds,               \* feeds in the list; a feed is its place in the map
    ArticlesOf,             \* per feed, the articles it lists: url and key
    TokensOf,               \* what a download of a URL yields
    Keys, Words,            \* the pairs of server and title, the tokens
    NumFeedWorkers, NumArticleWorkers

Feeds == 1..NumFeeds
Urls  == DOMAIN TokensOf    \* numbers, in the order of the strings
NoUrl == 0
Thunks == UNION {{<<f, k>> : k \in DOMAIN ArticlesOf[f]} : f \in Feeds}

ASSUME AggregatorAssumption ==
    /\ NumFeeds \in Nat /\ NumFeedWorkers \in Nat /\ NumArticleWorkers \in Nat
    /\ Urls \subseteq Nat \ {NoUrl} /\ TokensOf \in [Urls -> SUBSET Words]
    /\ ArticlesOf \in [Feeds -> Seq([url : Urls, key : Keys])]

VARIABLES
    mpc, nextFeed, allDone,             \* processAllFeeds(): pc, loop, semaphore
    feedQueue, feedBusy, feedDone,      \* feedPool
    fpc, nextArticle, completed,        \* processFeed(): pc, loop, semaphore
    articleQueue, articleBusy, articleDone, \* articlePool
    apc, tokens, mine, merged,          \* processArticle(): pc and locals
    articleUrls, articles, index,       \* the members of the aggregator
    torn,           \* thunks that read an entry while another one assigned it
    overlapped,     \* history: keys that were merged by two thunks at once
    contributed     \* history: thunks whose tokens went into the map

main     == <<mpc, nextFeed, allDone>>
feeds    == <<feedQueue, feedBusy, feedDone, fpc, nextArticle, completed>>
pool     == <<articleQueue, articleBusy, articleDone>>
locals   == <<tokens, mine, merged>>
members  == <<articleUrls, articles, index>>
history  == <<torn, overlapped, contributed>>
vars     == <<main, feeds, pool, apc, locals, members, history>>

\* Nobody waits for a pool itself, or destroys it, while the index is built.
FeedPool == INSTANCE WorkPool WITH
    Clients <- {}, Thunks <- Feeds, Limit <- NumFeedWorkers,
    backlog <- feedQueue, busy <- feedBusy, done <- feedDone,
    waiting <- {}, owed <- <<>>, stopped <- ~TRUE

ArticlePool == INSTANCE WorkPool WITH
    Clients <- {}, Limit <- NumArticleWorkers,
    backlog <- articleQueue, busy <- articleBusy, done <- articleDone,
    waiting <- {}, owed <- <<>>, stopped <- ~TRUE

Article(t) == ArticlesOf[t[1]][t[2]]

Init ==
    /\ mpc = "parse" /\ nextFeed = 1 /\ allDone = 0
    /\ feedQueue = <<>> /\ feedBusy = {} /\ feedDone = {}
    /\ fpc = [f \in Feeds |-> "none"] /\ nextArticle = [f \in Feeds |-> 1]
    /\ completed = [f \in Feeds |-> 0]
    /\ articleQueue = <<>> /\ articleBusy = {} /\ articleDone = {}
    /\ apc = [t \in Thunks |-> "none"]
    /\ tokens = [t \in Thunks |-> {}] /\ merged = [t \in Thunks |-> {}]
    /\ mine = [t \in Thunks |-> FALSE]
    /\ articleUrls = {} /\ index = {}
    /\ articles = [k \in Keys |-> [url |-> NoUrl, tokens |-> {}]]
    /\ torn = {} /\ overlapped = {} /\ contributed = {}

\* A read of tokens that are being assigned may take the process down.
Alive == \A t \in Thunks : apc[t] # "crashed"

MainGoto(from, to) == Alive /\ mpc = from /\ mpc' = to
FeedGoto(f, from, to) == Alive /\ fpc[f] = from /\ fpc' = [fpc EXCEPT ![f] = to]
Goto(t, from, to) == Alive /\ apc[t] = from /\ apc' = [apc EXCEPT ![t] = to]

-----------------------------------------------------------------------------
(* Mutations: definitions of this module with a bug, used by no            *)
(* specification.                                                          *)

\* The semaphore of a feed starts one too high, or one too low.
ParseFeed_TooHigh(f) ==
    /\ \/ /\ FeedGoto(f, "parse", "schedule")
          /\ completed' = [completed EXCEPT ![f] = 2 - Len(ArticlesOf[f])]
       \/ FeedGoto(f, "parse", "signal") /\ UNCHANGED completed
    /\ UNCHANGED <<main, feedQueue, feedBusy, feedDone, nextArticle, pool, apc, locals,
                   members, history>>

ParseFeed_TooLow(f) ==
    /\ \/ /\ FeedGoto(f, "parse", "schedule")
          /\ completed' = [completed EXCEPT ![f] = 0 - Len(ArticlesOf[f])]
       \/ FeedGoto(f, "parse", "signal") /\ UNCHANGED completed
    /\ UNCHANGED <<main, feedQueue, feedBusy, feedDone, nextArticle, pool, apc, locals,
                   members, history>>

\* A URL is inserted before it is looked up.
CheckUrl_AfterInsert(t) ==
    /\ Goto(t, "check", "signal")
    /\ articleUrls' = articleUrls \union {Article(t).url}
    /\ UNCHANGED <<main, feeds, pool, locals, articles, index, history>>

\* The comparison of URLs is the wrong way round.
Merge_Greatest(t) ==
    LET entry == articles[Article(t).key] IN
    /\ Goto(t, "merge", "store")
    /\ merged' = [merged EXCEPT ![t] = entry.tokens \intersect tokens[t]]
    /\ mine' = [mine EXCEPT ![t] = ~(Article(t).url < entry.url)]
    /\ UNCHANGED <<main, feeds, pool, tokens, members, history>>

-----------------------------------------------------------------------------
(* processAllFeeds()                                                       *)

\* A list that cannot be parsed ends the program, an empty one the call.
ParseList ==
    /\ \/ MainGoto("parse", "exited") /\ UNCHANGED allDone
       \/ /\ MainGoto("parse", IF NumFeeds = 0 THEN "returned" ELSE "schedule")
          /\ allDone' = 1 - NumFeeds
    /\ UNCHANGED <<nextFeed, feeds, pool, apc, locals, members, history>>

ScheduleFeed ==
    /\ nextFeed <= NumFeeds /\ nextFeed' = nextFeed + 1
    /\ MainGoto("schedule", IF nextFeed = NumFeeds THEN "wait" ELSE "schedule")
    /\ FeedPool!Schedule(nextFeed)
    /\ UNCHANGED <<allDone, fpc, nextArticle, completed, pool, apc, locals, members,
                   history>>

WaitForFeeds ==
    /\ allDone > 0 /\ allDone' = allDone - 1
    /\ MainGoto("wait", "index")
    /\ UNCHANGED <<nextFeed, feeds, pool, apc, locals, members, history>>

\* The loop over articles; index.add() of each word.
BuildIndex ==
    /\ MainGoto("index", "returned")
    /\ index' = UNION {{<<w, articles[k].url>> : w \in articles[k].tokens} : k \in Keys}
    /\ UNCHANGED <<nextFeed, allDone, feeds, pool, apc, locals, articleUrls, articles,
                   history>>

Main == ParseList \/ ScheduleFeed \/ WaitForFeeds \/ BuildIndex

-----------------------------------------------------------------------------
(* processFeed(), a thunk of feedPool.                                     *)

StartFeed(f) ==
    /\ FeedPool!Take /\ f = Head(feedQueue)
    /\ FeedGoto(f, "none", "parse")
    /\ UNCHANGED <<main, nextArticle, completed, pool, apc, locals, members, history>>

\* A feed that cannot be parsed has no articles and no semaphore.
ParseFeed(f) ==
    /\ \/ /\ FeedGoto(f, "parse", "schedule")
          /\ completed' = [completed EXCEPT ![f] = 1 - Len(ArticlesOf[f])]
       \/ FeedGoto(f, "parse", "signal") /\ UNCHANGED completed
    /\ UNCHANGED <<main, feedQueue, feedBusy, feedDone, nextArticle, pool, apc, locals,
                   members, history>>

ScheduleArticle(f) ==
    /\ nextArticle[f] <= Len(ArticlesOf[f])
    /\ FeedGoto(f, "schedule", "schedule")
    /\ nextArticle' = [nextArticle EXCEPT ![f] = @ + 1]
    /\ ArticlePool!Schedule(<<f, nextArticle[f]>>)
    /\ UNCHANGED <<main, feedQueue, feedBusy, feedDone, completed, apc, locals, members,
                   history>>

WaitForArticles(f) ==
    /\ nextArticle[f] > Len(ArticlesOf[f])
    /\ completed[f] > 0 /\ completed' = [completed EXCEPT ![f] = @ - 1]
    /\ FeedGoto(f, "schedule", "signal")
    /\ UNCHANGED <<main, feedQueue, feedBusy, feedDone, nextArticle, pool, apc, locals,
                   members, history>>

\* completed.signal() of processAllFeeds(), the last statement of the thunk.
SignalFeed(f) ==
    /\ FeedGoto(f, "signal", "done") /\ FeedPool!Finish(f)
    /\ allDone' = allDone + 1
    /\ UNCHANGED <<mpc, nextFeed, nextArticle, completed, pool, apc, locals, members,
                   history>>

Feed(f) ==
    \/ ParseFeed(f) \/ ScheduleArticle(f) \/ WaitForArticles(f) \/ SignalFeed(f)

-----------------------------------------------------------------------------
(* processArticle(), a thunk of articlePool.                               *)

StartArticle(t) ==
    /\ ArticlePool!Take /\ t = Head(articleQueue)
    /\ Goto(t, "none", "check")
    /\ UNCHANGED <<main, feeds, locals, members, history>>

CheckUrl(t) ==
    /\ Goto(t, "check", IF Article(t).url \in articleUrls THEN "signal" ELSE "insert")
    /\ UNCHANGED <<main, feeds, pool, locals, members, history>>

InsertUrl(t) ==
    /\ Goto(t, "insert", "download")
    /\ articleUrls' = articleUrls \union {Article(t).url}
    /\ UNCHANGED <<main, feeds, pool, locals, articles, index, history>>

\* downloadArticle() and the sort; a failure leaves the tokens empty.
Download(t) ==
    /\ Goto(t, "download", "find")
    /\ \E got \in {TokensOf[Article(t).url], {}} : tokens' = [tokens EXCEPT ![t] = got]
    /\ UNCHANGED <<main, feeds, pool, mine, merged, members, history>>

\* updateArticle(), first critical section: store a new article, or find the entry.
FindArticle(t) ==
    LET key == Article(t).key IN
    /\ IF articles[key].url = NoUrl
         THEN /\ Goto(t, "find", "signal")
              /\ articles' = [articles EXCEPT ![key] =
                                [url |-> Article(t).url, tokens |-> tokens[t]]]
              /\ contributed' = contributed \union {t}
         ELSE Goto(t, "find", "merge") /\ UNCHANGED <<articles, contributed>>
    /\ UNCHANGED <<main, feeds, pool, locals, articleUrls, index, torn, overlapped>>

\* Without a lock: set_intersection and the comparison of the URLs.  If the entry
\* was assigned meanwhile, the read is a race: any tokens of t's, either URL, or
\* the end of the process.
Merge(t) ==
    LET entry == articles[Article(t).key] IN
    /\ \/ /\ Goto(t, "merge", "store")
          /\ \E got \in SUBSET tokens[t], less \in BOOLEAN :
                /\ t \notin torn => /\ got = entry.tokens \intersect tokens[t]
                                    /\ less = (Article(t).url < entry.url)
                /\ merged' = [merged EXCEPT ![t] = got]
                /\ mine' = [mine EXCEPT ![t] = less]
       \/ /\ t \in torn
          /\ Goto(t, "merge", "crashed") /\ UNCHANGED <<merged, mine>>
    /\ UNCHANGED <<main, feeds, pool, tokens, members, history>>

\* The second critical section.  newArticle may refer to the entry as it is now.
StoreMerged(t) ==
    LET key == Article(t).key
        Others(pcs) == {u \in Thunks \ {t} : apc[u] \in pcs /\ Article(u).key = key}
    IN
    /\ Goto(t, "store", "signal")
    /\ articles' = [articles EXCEPT ![key] =
            [url |-> IF mine[t] THEN Article(t).url ELSE @.url, tokens |-> merged[t]]]
    /\ contributed' = contributed \union {t}
    /\ torn' = torn \union Others({"merge"})
    /\ overlapped' = IF Others({"merge", "store"}) = {} THEN overlapped
                     ELSE overlapped \union {key}
    /\ UNCHANGED <<main, feeds, pool, locals, articleUrls, index>>

\* completed.signal() of processFeed(), the last statement of the thunk.
SignalArticle(t) ==
    /\ Goto(t, "signal", "done") /\ ArticlePool!Finish(t)
    /\ completed' = [completed EXCEPT ![t[1]] = @ + 1]
    /\ UNCHANGED <<main, feedQueue, feedBusy, feedDone, fpc, nextArticle, locals,
                   members, history>>

ArticleStep(t) ==
    \/ CheckUrl(t) \/ InsertUrl(t) \/ Download(t) \/ FindArticle(t) \/ Merge(t)
    \/ StoreMerged(t) \/ SignalArticle(t)

-----------------------------------------------------------------------------
Pools == (\E f \in Feeds : StartFeed(f)) \/ \E t \in Thunks : StartArticle(t)

Next ==
    \/ Main \/ Pools
    \/ \E f \in Feeds : Feed(f)
    \/ \E t \in Thunks : ArticleStep(t)

Spec == Init /\ [][Next]_vars

\* Threads that can run do run; a download, like a parse, ends.
FairSpec ==
    /\ Spec /\ WF_vars(Main)
    /\ WF_vars(\E f \in Feeds : StartFeed(f)) /\ WF_vars(\E t \in Thunks : StartArticle(t))
    /\ \A f \in Feeds : WF_vars(Feed(f))
    /\ \A t \in Thunks : WF_vars(ArticleStep(t))

-----------------------------------------------------------------------------
\* The aggregator's members and locals keep their types; the semaphore of
\* processAllFeeds() stays within what its construction and its signals allow.
TypeOK ==
    /\ mpc \in {"parse", "exited", "schedule", "wait", "index", "returned"}
    /\ nextFeed \in 1..(NumFeeds + 1) /\ allDone \in {0} \union (1 - NumFeeds)..1
    /\ completed \in [Feeds -> Int]
    /\ fpc \in [Feeds -> {"none", "parse", "schedule", "signal", "done"}]
    /\ nextArticle \in [Feeds -> Nat \ {0}]
    /\ apc \in [Thunks -> {"none", "check", "insert", "download", "find", "merge",
                           "store", "signal", "done", "crashed"}]
    /\ tokens \in [Thunks -> SUBSET Words] /\ merged \in [Thunks -> SUBSET Words]
    /\ mine \in [Thunks -> BOOLEAN]
    /\ articleUrls \subseteq Urls
    /\ articles \in [Keys -> [url : Urls \union {NoUrl}, tokens : SUBSET Words]]
    /\ index \subseteq Words \X Urls
    /\ torn \subseteq Thunks /\ overlapped \subseteq Keys /\ contributed \subseteq Thunks

\* While a thunk waits in a pool or runs, the frame it refers to still exists: its
\* semaphore, its feed and its article (lines 252-259 and 283-290).
FramesOutliveThunks ==
    /\ \A f \in Feeds : mpc \in {"index", "returned"} => fpc[f] = "done"
    /\ \A t \in Thunks :
          fpc[t[1]] \in {"signal", "done"} => apc[t] \in {"none", "done"}
    /\ \A k \in DOMAIN articleQueue : fpc[articleQueue[k][1]] = "schedule"

\* The downloads that went into the entry of a key.
Merged(key) == {t \in contributed : Article(t).key = key}
Common(key) == {w \in Words : \A t \in Merged(key) : w \in tokens[t]}

\* In the end an entry holds the tokens that all downloads of its key have in
\* common, under the smallest of their URLs, unless two threads merged into it
\* at once (lines 181-212).
MergesExact ==
    mpc = "returned" =>
        \A k \in Keys \ overlapped : Merged(k) # {} =>
            /\ articles[k].tokens = Common(k)
            /\ \A t \in Merged(k) : articles[k].url <= Article(t).url
            /\ \E t \in Merged(k) : articles[k].url = Article(t).url

\* An article is skipped only if another thunk stores, or has stored, the same
\* URL: in the end no URL that a feed listed is missing (lines 220-229).
EveryUrlStored ==
    mpc = "returned" =>
        \A t \in Thunks : apc[t] = "done" =>
            \E u \in contributed : Article(u).url = Article(t).url

\* buildIndex() ends, however many articles a feed has: the thunks of one pool
\* that wait for those of the other do not block each other.
BuildEnds == <>(mpc \in {"exited", "returned"} \/ ~Alive)
=============================================================================
