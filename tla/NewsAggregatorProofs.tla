------------------------ MODULE NewsAggregatorProofs ------------------------
(***************************************************************************)
(* What the aggregator of NewsAggregator keeps true, for any list of feeds,*)
(* any articles and any number of workers.  The first invariant, FrameInv, *)
(* is about the two levels of thunks and their semaphores: each semaphore  *)
(* counts the thunks that have signalled it, so that whoever has passed it *)
(* knows that all of them are done.  The second, DataInv, is about the     *)
(* members that the thunks share, and rests on the first for the end.      *)
(***************************************************************************)
EXTENDS NewsAggregator, FiniteSetTheorems, TLAPS

Queued == {articleQueue[x] : x \in DOMAIN articleQueue}

FeedsDone == {f \in Feeds : fpc[f] = "done"}

\* The articles of f whose thunks have signalled.
DoneOf(f) == {i \in DOMAIN ArticlesOf[f] : apc[<<f, i>>] = "done"}

-----------------------------------------------------------------------------
(* The frames and their semaphores                                         *)

\* The types, but for the bounds of the semaphore, which FrameInv counts.
TypeInv ==
    /\ mpc \in {"parse", "exited", "schedule", "wait", "index", "returned"}
    /\ nextFeed \in 1..(NumFeeds + 1) /\ allDone \in Int
    /\ feedQueue \in Seq(Feeds) /\ articleQueue \in Seq(Thunks)
    /\ completed \in [Feeds -> Int]
    /\ fpc \in [Feeds -> {"none", "parse", "schedule", "signal", "done"}]
    /\ nextArticle \in [Feeds -> Nat \ {0}]
    /\ apc \in [Thunks -> {"none", "check", "insert", "download", "find", "merge",
                           "store", "signal", "done", "crashed"}]
    /\ tokens \in [Thunks -> SUBSET Words] /\ merged \in [Thunks -> SUBSET Words]
    /\ mine \in [Thunks -> BOOLEAN]
    /\ articleUrls \subseteq Urls
    /\ articles \in [Keys -> [url : Urls \union {NoUrl}, tokens : SUBSET Words]]
    /\ torn \subseteq Thunks /\ overlapped \subseteq Keys /\ contributed \subseteq Thunks

\* processAllFeeds() passes its semaphore when every feed has signalled it.
MainInv ==
    /\ mpc \in {"parse", "exited"} => feedQueue = <<>> /\ \A f \in Feeds : fpc[f] = "none"
    /\ mpc \in {"schedule", "wait"} => allDone = 1 - NumFeeds + Cardinality(FeedsDone)
    /\ mpc \in {"index", "returned"} => \A f \in Feeds : fpc[f] = "done"
    /\ mpc \in {"parse", "exited", "index", "returned"} => allDone \in {0} \union (1 - NumFeeds)..1

\* processFeed() passes its semaphore when every article has signalled it.
FeedInv(f) ==
    fpc[f] = "schedule" => completed[f] = 1 - Len(ArticlesOf[f]) + Cardinality(DoneOf(f))

\* A thunk of an article is scheduled, runs and signals while its frame is there.
ThunkInv(t) ==
    /\ apc[t] # "none" => t \in articleBusy \union articleDone /\ t \notin Queued
    /\ apc[t] # "none" \/ t \in Queued => fpc[t[1]] \in {"schedule", "signal", "done"}
    /\ fpc[t[1]] \in {"signal", "done"} => apc[t] \in {"none", "done"} /\ t \notin Queued

\* No thunk is scheduled twice.
QueueInv ==
    \A x, y \in DOMAIN articleQueue : articleQueue[x] = articleQueue[y] => x = y

FrameInv ==
    /\ TypeInv /\ MainInv /\ QueueInv
    /\ \A f \in Feeds : FeedInv(f)
    /\ \A t \in Thunks : ThunkInv(t)

-----------------------------------------------------------------------------
(* The members of the aggregator                                           *)

\* A URL is in the set because a thunk works on it, or has stored it.
UrlInv(u) ==
    u \in articleUrls => \E t \in Thunks :
        /\ Article(t).url = u
        /\ t \in contributed \/ apc[t] \in {"download", "find", "merge", "store", "crashed"}

\* What a thunk holds of an entry is what the entry still is, unless two threads
\* merge into it at once.
WorkInv(t) ==
    LET key == Article(t).key
        entry == articles[key]
    IN
    /\ apc[t] \in {"download", "find", "merge", "store", "signal", "done", "crashed"} =>
          Article(t).url \in articleUrls
    /\ apc[t] \in {"merge", "store"} => entry.url # NoUrl
    /\ t \in contributed => apc[t] \in {"signal", "done"}
    /\ t \in torn => key \in overlapped
    /\ apc[t] = "store" /\ key \notin overlapped =>
          /\ merged[t] = entry.tokens \intersect tokens[t]
          /\ mine[t] = (Article(t).url < entry.url)

\* An entry is what the downloads of its key have in common, under the smallest
\* of their URLs, unless two threads merged into it at once.
EntryInv(key) ==
    /\ articles[key].url = NoUrl <=> Merged(key) = {}
    /\ Merged(key) = {} => articles[key].tokens = {}
    /\ key \notin overlapped /\ Merged(key) # {} =>
          /\ articles[key].tokens = Common(key)
          /\ \A t \in Merged(key) : articles[key].url <= Article(t).url
          /\ \E t \in Merged(key) : articles[key].url = Article(t).url

DataInv ==
    /\ index \subseteq Words \X Urls
    /\ \A u \in Urls : UrlInv(u)
    /\ \A t \in Thunks : WorkInv(t)
    /\ \A key \in Keys : EntryInv(key)

-----------------------------------------------------------------------------
(* The operators                                                           *)

\* A thunk is a feed and the place of one of its articles.
LEMMA ThunkFacts ==
  /\ \A t \in Thunks : /\ t[1] \in Feeds /\ t[2] \in DOMAIN ArticlesOf[t[1]]
                       /\ t = <<t[1], t[2]>>
                       /\ Article(t) \in [url : Urls, key : Keys]
  /\ \A f \in Feeds : \A i \in DOMAIN ArticlesOf[f] : <<f, i>> \in Thunks
<1>1. \A f \in Feeds : ArticlesOf[f] \in Seq([url : Urls, key : Keys])
  BY AggregatorAssumption
<1>2. ASSUME NEW t \in Thunks
      PROVE  /\ t[1] \in Feeds /\ t[2] \in DOMAIN ArticlesOf[t[1]] /\ t = <<t[1], t[2]>>
             /\ Article(t) \in [url : Urls, key : Keys]
  <2>0. PICK f \in Feeds : \E i \in DOMAIN ArticlesOf[f] : t = <<f, i>>
    BY DEF Thunks
  <2>1. PICK i \in DOMAIN ArticlesOf[f] : t = <<f, i>>
    BY <2>0
  <2> DEFINE S == [url : Urls, key : Keys]
             s == ArticlesOf[f]
  <2>2. s[i] \in S
    <3>1. s \in Seq(S) /\ i \in DOMAIN s
      BY <1>1, <2>0, <2>1
    <3> HIDE DEF S, s
    <3> QED
      BY <3>1
  <2> QED
    BY <2>0, <2>1, <2>2 DEF Article
<1>3. ASSUME NEW f \in Feeds, NEW i \in DOMAIN ArticlesOf[f]
      PROVE  <<f, i>> \in Thunks
  BY DEF Thunks
<1> QED
  BY <1>2, <1>3

\* All feeds have signalled when as many have as there are.
LEMMA FeedsFinite ==
  /\ IsFiniteSet(Feeds) /\ Cardinality(Feeds) = NumFeeds
  /\ IsFiniteSet(FeedsDone) /\ Cardinality(FeedsDone) \in 0..NumFeeds
  /\ Cardinality(FeedsDone) = NumFeeds => FeedsDone = Feeds
<1>1. IsFiniteSet(Feeds) /\ Cardinality(Feeds) = NumFeeds
  BY FS_Interval, AggregatorAssumption DEF Feeds
<1>2. FeedsDone \subseteq Feeds
  BY DEF FeedsDone
<1>3. /\ IsFiniteSet(FeedsDone) /\ Cardinality(FeedsDone) <= NumFeeds
      /\ Cardinality(FeedsDone) = NumFeeds => FeedsDone = Feeds
  BY <1>1, <1>2, FS_Subset
<1>4. Cardinality(FeedsDone) \in Nat
  BY <1>3, FS_CardinalityType
<1> QED
  BY <1>1, <1>3, <1>4, AggregatorAssumption

\* All articles of a feed have signalled when as many have as there are.
LEMMA DoneFinite ==
  ASSUME NEW f \in Feeds
  PROVE  /\ Len(ArticlesOf[f]) \in Nat
         /\ IsFiniteSet(DoneOf(f)) /\ Cardinality(DoneOf(f)) \in 0..Len(ArticlesOf[f])
         /\ Cardinality(DoneOf(f)) = Len(ArticlesOf[f]) => DoneOf(f) = DOMAIN ArticlesOf[f]
<1> DEFINE n == Len(ArticlesOf[f])
<1>1. n \in Nat /\ DOMAIN ArticlesOf[f] = 1..n
  BY AggregatorAssumption
<1>2. DoneOf(f) \subseteq 1..n
  BY <1>1 DEF DoneOf
<1> HIDE DEF n
<1>3. IsFiniteSet(1..n) /\ Cardinality(1..n) = n
  BY <1>1, FS_Interval
<1>4. /\ IsFiniteSet(DoneOf(f)) /\ Cardinality(DoneOf(f)) <= n
      /\ Cardinality(DoneOf(f)) = n => DoneOf(f) = 1..n
  BY <1>2, <1>3, FS_Subset
<1>5. Cardinality(DoneOf(f)) \in Nat
  BY <1>4, FS_CardinalityType
<1> QED
  BY <1>1, <1>4, <1>5 DEF n

\* What the operations of a pool do to its queue.
LEMMA PushQueue ==
  ASSUME articleQueue \in Seq(Thunks), QueueInv, NEW t \in Thunks, ArticlePool!Schedule(t)
  PROVE  /\ articleQueue' \in Seq(Thunks) /\ QueueInv'
         /\ t \notin Queued \union articleBusy \union articleDone
         /\ Queued' = Queued \union {t} /\ UNCHANGED <<articleBusy, articleDone>>
<1>1. /\ articleQueue' = Append(articleQueue, t) /\ UNCHANGED <<articleBusy, articleDone>>
      /\ t \notin Queued \union articleBusy \union articleDone
  BY DEF ArticlePool!Schedule, ArticlePool!Scheduled, Queued
<1>2. /\ DOMAIN articleQueue' = DOMAIN articleQueue \union {Len(articleQueue) + 1}
      /\ articleQueue'[Len(articleQueue) + 1] = t
      /\ \A x \in DOMAIN articleQueue : articleQueue'[x] = articleQueue[x]
      /\ articleQueue' \in Seq(Thunks)
  BY <1>1
<1>3. \A x \in DOMAIN articleQueue : articleQueue[x] # t
  BY <1>1 DEF Queued
<1>4. QueueInv'
  BY <1>2, <1>3 DEF QueueInv
<1> QED
  BY <1>1, <1>2, <1>4 DEF Queued

\* A worker takes the first thunk, which is queued nowhere else.
LEMMA PopQueue ==
  ASSUME articleQueue \in Seq(Thunks), QueueInv, ArticlePool!Take
  PROVE  /\ articleQueue' \in Seq(Thunks) /\ QueueInv'
         /\ Head(articleQueue) \in Queued /\ Queued' = Queued \ {Head(articleQueue)}
         /\ articleBusy' = articleBusy \union {Head(articleQueue)}
         /\ articleDone' = articleDone
<1>1. /\ articleQueue # <<>> /\ articleQueue' = Tail(articleQueue)
      /\ articleBusy' = articleBusy \union {Head(articleQueue)}
      /\ articleDone' = articleDone
  BY DEF ArticlePool!Take
<1>2. /\ articleQueue' \in Seq(Thunks) /\ 1 \in DOMAIN articleQueue
      /\ Head(articleQueue) = articleQueue[1]
      /\ \A x \in DOMAIN articleQueue' : /\ x + 1 \in DOMAIN articleQueue /\ x \in Nat \ {0}
                                         /\ articleQueue'[x] = articleQueue[x + 1]
      /\ \A y \in DOMAIN articleQueue \ {1} : y - 1 \in DOMAIN articleQueue' /\ (y - 1) + 1 = y
  BY <1>1
<1>3. QueueInv'
  <2>1. SUFFICES ASSUME NEW x \in DOMAIN articleQueue', NEW y \in DOMAIN articleQueue',
                        articleQueue'[x] = articleQueue'[y]
                 PROVE  x = y
    BY DEF QueueInv
  <2>2. x + 1 = y + 1
    BY <1>2, <2>1 DEF QueueInv
  <2> QED
    BY <1>2, <2>2
<1>4. Queued' \subseteq Queued \ {Head(articleQueue)}
  <2>1. \A x \in DOMAIN articleQueue' : articleQueue[x + 1] # articleQueue[1]
    BY <1>2 DEF QueueInv
  <2> QED
    BY <1>2, <2>1 DEF Queued
<1>5. Queued \ {Head(articleQueue)} \subseteq Queued'
  <2>1. SUFFICES ASSUME NEW y \in DOMAIN articleQueue, articleQueue[y] # articleQueue[1]
                 PROVE  articleQueue[y] \in Queued'
    BY <1>2 DEF Queued
  <2>2. y # 1 /\ y - 1 \in DOMAIN articleQueue' /\ articleQueue'[y - 1] = articleQueue[y]
    BY <1>2, <2>1
  <2> QED
    BY <2>2 DEF Queued
<1> QED
  BY <1>1, <1>2, <1>3, <1>4, <1>5 DEF Queued
-----------------------------------------------------------------------------
(* FrameInv, step by step                                                  *)

\* The steps of the calling thread.
LEMMA MainFrames ==
  ASSUME FrameInv, Main
  PROVE  FrameInv'
<1>1. TypeInv /\ MainInv /\ QueueInv
  BY DEF FrameInv
<1>2. UNCHANGED <<fpc, nextArticle, completed, articleQueue, articleBusy, articleDone, apc, tokens,
                  mine, merged, articleUrls, articles, torn, overlapped, contributed>>
  BY DEF Main, ParseList, ScheduleFeed, WaitForFeeds, BuildIndex, main, feeds, pool, locals,
         members, history, FeedPool!Schedule
<1>3. /\ FeedsDone' = FeedsDone /\ Cardinality(FeedsDone)' = Cardinality(FeedsDone)
      /\ Queued' = Queued /\ QueueInv'
  BY <1>1, <1>2 DEF FeedsDone, Queued, QueueInv
<1>4. \A f \in Feeds : DoneOf(f)' = DoneOf(f) /\ Cardinality(DoneOf(f))' = Cardinality(DoneOf(f))
  BY <1>2 DEF DoneOf
<1>5. \A f \in Feeds : FeedInv(f)'
  BY <1>2, <1>4 DEF FrameInv, FeedInv
<1>6. \A t \in Thunks : ThunkInv(t)'
  BY <1>2, <1>3 DEF FrameInv, ThunkInv
<1>7. NumFeeds \in Nat
  BY AggregatorAssumption
<1>8. CASE ParseList
  <2>1. mpc = "parse" /\ UNCHANGED <<nextFeed, feedQueue>>
    BY <1>8 DEF ParseList, MainGoto, feeds
  <2>2. \/ mpc' = "exited" /\ allDone' = allDone
        \/ mpc' = (IF NumFeeds = 0 THEN "returned" ELSE "schedule") /\ allDone' = 1 - NumFeeds
    BY <1>8 DEF ParseList, MainGoto
  <2>3. FeedsDone = {} /\ Cardinality(FeedsDone) = 0
    BY <1>1, <2>1, FS_EmptySet DEF MainInv, FeedsDone
  <2>4. NumFeeds = 0 => Feeds = {}
    BY DEF Feeds
  <2>5. MainInv'
    BY <1>1, <1>2, <1>3, <1>7, <2>1, <2>2, <2>3, <2>4 DEF MainInv
  <2>6. TypeInv'
    BY <1>1, <1>2, <1>7, <2>1, <2>2 DEF TypeInv
  <2> QED
    BY <1>3, <1>5, <1>6, <2>5, <2>6 DEF FrameInv
<1>9. CASE ScheduleFeed
  <2>1. /\ mpc = "schedule" /\ mpc' \in {"schedule", "wait"} /\ allDone' = allDone
        /\ nextFeed <= NumFeeds /\ nextFeed' = nextFeed + 1
        /\ feedQueue' = Append(feedQueue, nextFeed)
    BY <1>9 DEF ScheduleFeed, MainGoto, FeedPool!Schedule
  <2>2. nextFeed \in Feeds
    BY <1>1, <1>7, <2>1 DEF TypeInv, Feeds
  <2>3. feedQueue' \in Seq(Feeds)
    BY <1>1, <2>1, <2>2 DEF TypeInv
  <2>4. TypeInv'
    BY <1>1, <1>2, <1>7, <2>1, <2>3 DEF TypeInv
  <2>5. MainInv'
    BY <1>1, <1>3, <2>1 DEF MainInv
  <2> QED
    BY <1>3, <1>5, <1>6, <2>4, <2>5 DEF FrameInv
<1>10. CASE WaitForFeeds
  <2>1. /\ mpc = "wait" /\ mpc' = "index" /\ allDone > 0 /\ allDone' = allDone - 1
        /\ UNCHANGED <<nextFeed, feedQueue>>
    BY <1>10 DEF WaitForFeeds, MainGoto, feeds
  <2>2. allDone = 1 - NumFeeds + Cardinality(FeedsDone)
    BY <1>1, <2>1 DEF MainInv
  <2>3. Cardinality(FeedsDone) = NumFeeds /\ allDone = 1
    BY <1>7, <2>1, <2>2, FeedsFinite
  <2>4. FeedsDone = Feeds
    BY <2>3, FeedsFinite
  <2>5. \A f \in Feeds : fpc[f] = "done"
    BY <2>4 DEF FeedsDone
  <2>6. MainInv' /\ TypeInv'
    BY <1>1, <1>2, <2>1, <2>3, <2>5 DEF MainInv, TypeInv
  <2> QED
    BY <1>3, <1>5, <1>6, <2>6 DEF FrameInv
<1>11. CASE BuildIndex
  <2>1. mpc = "index" /\ mpc' = "returned" /\ UNCHANGED <<nextFeed, allDone, feedQueue>>
    BY <1>11 DEF BuildIndex, MainGoto, feeds
  <2>2. MainInv' /\ TypeInv'
    BY <1>1, <1>2, <2>1 DEF MainInv, TypeInv
  <2> QED
    BY <1>3, <1>5, <1>6, <2>2 DEF FrameInv
<1> QED
  BY <1>8, <1>9, <1>10, <1>11 DEF Main

\* The thunk of a feed starts, parses, passes its semaphore, or signals: its last
\* signal is the one that processAllFeeds() may be waiting for.
LEMMA FeedFrames ==
  ASSUME FrameInv, NEW f \in Feeds,
         StartFeed(f) \/ ParseFeed(f) \/ WaitForArticles(f) \/ SignalFeed(f)
  PROVE  FrameInv'
<1>1. TypeInv /\ MainInv /\ QueueInv /\ FeedInv(f) /\ \A t \in Thunks : ThunkInv(t)
  BY DEF FrameInv
<1>2. UNCHANGED <<mpc, nextFeed, nextArticle, articleQueue, articleBusy, articleDone, apc, tokens,
                  mine, merged, articleUrls, articles, torn, overlapped, contributed>>
  BY DEF StartFeed, ParseFeed, WaitForArticles, SignalFeed, main, feeds, pool, locals, members,
         history, FeedPool!Take, FeedPool!Finish
<1>3. Queued' = Queued /\ QueueInv'
  BY <1>1, <1>2 DEF Queued, QueueInv
<1>4. \A g \in Feeds : DoneOf(g)' = DoneOf(g) /\ Cardinality(DoneOf(g))' = Cardinality(DoneOf(g))
  BY <1>2 DEF DoneOf
<1>5. NumFeeds \in Nat
  BY AggregatorAssumption
<1>6. \/ /\ fpc[f] = "none" /\ fpc' = [fpc EXCEPT ![f] = "parse"] /\ feedQueue # <<>>
         /\ feedQueue' = Tail(feedQueue) /\ UNCHANGED <<allDone, completed>>
      \/ /\ fpc[f] = "parse" /\ fpc' = [fpc EXCEPT ![f] = "schedule"]
         /\ completed' = [completed EXCEPT ![f] = 1 - Len(ArticlesOf[f])]
         /\ UNCHANGED <<allDone, feedQueue>>
      \/ /\ fpc[f] = "parse" /\ fpc' = [fpc EXCEPT ![f] = "signal"]
         /\ UNCHANGED <<allDone, completed, feedQueue>>
      \/ /\ fpc[f] = "schedule" /\ fpc' = [fpc EXCEPT ![f] = "signal"]
         /\ completed[f] > 0 /\ completed' = [completed EXCEPT ![f] = completed[f] - 1]
         /\ UNCHANGED <<allDone, feedQueue>>
      \/ /\ fpc[f] = "signal" /\ fpc' = [fpc EXCEPT ![f] = "done"]
         /\ allDone' = allDone + 1 /\ UNCHANGED <<completed, feedQueue>>
  BY DEF StartFeed, ParseFeed, WaitForArticles, SignalFeed, FeedGoto, main, feeds, pool, locals,
         members, history, FeedPool!Take, FeedPool!Finish
<1>7. /\ fpc' \in [Feeds -> {"none", "parse", "schedule", "signal", "done"}]
      /\ \A g \in Feeds : g # f => fpc'[g] = fpc[g] /\ completed'[g] = completed[g]
  BY <1>1, <1>6 DEF TypeInv
<1>8. Len(ArticlesOf[f]) \in Nat
  BY DoneFinite
<1>9. TypeInv'
  <2>1. completed' \in [Feeds -> Int] /\ allDone' \in Int
    BY <1>1, <1>6, <1>8 DEF TypeInv
  <2>2. feedQueue' \in Seq(Feeds)
    <3>1. feedQueue \in Seq(Feeds)
      BY <1>1 DEF TypeInv
    <3>2. feedQueue' = feedQueue \/ (feedQueue # <<>> /\ feedQueue' = Tail(feedQueue))
      BY <1>6
    <3> QED
      BY <3>1, <3>2
  <2> QED
    BY <1>1, <1>2, <1>7, <2>1, <2>2 DEF TypeInv
<1>10. mpc \in {"schedule", "wait"}
  BY <1>1, <1>6 DEF MainInv, TypeInv
<1>11. MainInv'
  <2>1. fpc'[f] # fpc[f]
    BY <1>1, <1>6 DEF TypeInv
  <2>2. CASE fpc[f] = "signal"
    <3>1. FeedsDone' = FeedsDone \union {f} /\ f \notin FeedsDone
      BY <1>1, <1>6, <1>7, <2>2 DEF FeedsDone, TypeInv
    <3>2. Cardinality(FeedsDone') = Cardinality(FeedsDone) + 1
      BY <3>1, FeedsFinite, FS_AddElement
    <3>3. Cardinality(FeedsDone) \in Nat
      BY <1>5, FeedsFinite
    <3> QED
      BY <1>1, <1>2, <1>5, <1>6, <1>10, <2>2, <3>2, <3>3 DEF MainInv, TypeInv
  <2>3. CASE fpc[f] # "signal"
    <3>1. FeedsDone' = FeedsDone /\ Cardinality(FeedsDone)' = Cardinality(FeedsDone)
      BY <1>1, <1>6, <1>7, <2>3 DEF FeedsDone, TypeInv
    <3> QED
      BY <1>1, <1>2, <1>6, <1>10, <2>3, <3>1 DEF MainInv
  <2> QED
    BY <2>2, <2>3
<1>12. fpc[f] = "parse" => DoneOf(f) = {} /\ Cardinality(DoneOf(f)) = 0
  BY <1>1, ThunkFacts, FS_EmptySet DEF ThunkInv, DoneOf
<1>13. ASSUME NEW g \in Feeds
       PROVE  FeedInv(g)'
  <2>1. CASE g = f
    <3>1. fpc'[f] = "schedule" => fpc[f] = "parse" /\ completed'[f] = 1 - Len(ArticlesOf[f])
      BY <1>1, <1>6 DEF TypeInv
    <3> QED
      BY <1>4, <1>8, <1>12, <2>1, <3>1 DEF FeedInv
  <2>2. CASE g # f
    BY <1>4, <1>7, <2>2 DEF FrameInv, FeedInv
  <2> QED
    BY <2>1, <2>2
<1>14. fpc[f] = "schedule" => DoneOf(f) = DOMAIN ArticlesOf[f]
  <2>1. SUFFICES ASSUME fpc[f] = "schedule" PROVE DoneOf(f) = DOMAIN ArticlesOf[f]
    OBVIOUS
  <2>2. completed[f] > 0
    BY <1>6, <2>1
  <2>3. completed[f] = 1 - Len(ArticlesOf[f]) + Cardinality(DoneOf(f))
    BY <1>1, <2>1 DEF FeedInv
  <2>4. Cardinality(DoneOf(f)) = Len(ArticlesOf[f])
    BY <1>8, <2>2, <2>3, DoneFinite
  <2> QED
    BY <2>4, DoneFinite
<1>15. ASSUME NEW t \in Thunks
       PROVE  ThunkInv(t)'
  <2>1. ThunkInv(t) /\ t[1] \in Feeds /\ t[2] \in DOMAIN ArticlesOf[t[1]] /\ t = <<t[1], t[2]>>
    BY <1>1, ThunkFacts
  <2>2. CASE t[1] # f
    BY <1>2, <1>3, <1>7, <2>1, <2>2 DEF ThunkInv
  <2>3. CASE t[1] = f
    <3>1. fpc[f] = "schedule" => apc[t] = "done"
      BY <1>14, <2>1, <2>3 DEF DoneOf
    <3>2. fpc[f] = "none" => fpc'[f] = "parse"
      BY <1>1, <1>6 DEF TypeInv
    <3>3. fpc[f] = "parse" => fpc'[f] \in {"schedule", "signal"}
      BY <1>1, <1>6 DEF TypeInv
    <3>4. fpc[f] = "schedule" => fpc'[f] = "signal"
      BY <1>1, <1>6 DEF TypeInv
    <3>5. fpc[f] = "signal" => fpc'[f] = "done"
      BY <1>1, <1>6 DEF TypeInv
    <3>6. fpc[f] \in {"none", "parse", "schedule", "signal"}
      BY <1>6
    <3> QED
      BY <1>2, <1>3, <2>1, <2>3, <3>1, <3>2, <3>3, <3>4, <3>5, <3>6 DEF ThunkInv
  <2> QED
    BY <2>2, <2>3
<1> QED
  BY <1>3, <1>9, <1>11, <1>13, <1>15 DEF FrameInv

\* A feed schedules one article more: its frame is there until it has signalled.
LEMMA ScheduleFrames ==
  ASSUME FrameInv, NEW f \in Feeds, ScheduleArticle(f)
  PROVE  FrameInv'
<1>1. TypeInv /\ MainInv /\ QueueInv /\ \A t \in Thunks : ThunkInv(t)
  BY DEF FrameInv
<1>2. /\ fpc[f] = "schedule" /\ fpc' = [fpc EXCEPT ![f] = "schedule"]
      /\ nextArticle[f] <= Len(ArticlesOf[f])
      /\ nextArticle' = [nextArticle EXCEPT ![f] = nextArticle[f] + 1]
      /\ ArticlePool!Schedule(<<f, nextArticle[f]>>)
      /\ UNCHANGED <<mpc, nextFeed, allDone, feedQueue, completed, apc, tokens, mine, merged,
                     articleUrls, articles, torn, overlapped, contributed>>
  BY DEF ScheduleArticle, FeedGoto, main, feeds, pool, locals, members, history
<1>3. fpc' = fpc
  BY <1>1, <1>2 DEF TypeInv
<1> DEFINE n == nextArticle[f]
           t == <<f, n>>
<1>4. t \in Thunks
  <2>1. n \in DOMAIN ArticlesOf[f]
    BY <1>1, <1>2, AggregatorAssumption DEF TypeInv
  <2> QED
    BY <2>1, ThunkFacts
<1>5. /\ articleQueue' \in Seq(Thunks) /\ QueueInv'
      /\ t \notin Queued \union articleBusy \union articleDone
      /\ Queued' = Queued \union {t} /\ UNCHANGED <<articleBusy, articleDone>>
  BY <1>1, <1>2, <1>4, PushQueue DEF TypeInv
<1>6. TypeInv'
  BY <1>1, <1>2, <1>3, <1>5 DEF TypeInv
<1>7. FeedsDone' = FeedsDone /\ Cardinality(FeedsDone)' = Cardinality(FeedsDone)
  BY <1>3 DEF FeedsDone
<1>8. MainInv'
  BY <1>1, <1>2, <1>3, <1>7 DEF MainInv
<1>9. \A g \in Feeds : DoneOf(g)' = DoneOf(g) /\ Cardinality(DoneOf(g))' = Cardinality(DoneOf(g))
  BY <1>2 DEF DoneOf
<1>10. \A g \in Feeds : FeedInv(g)'
  BY <1>2, <1>3, <1>9 DEF FrameInv, FeedInv
<1>11. ASSUME NEW u \in Thunks
       PROVE  ThunkInv(u)'
  <2>1. t[1] = f
    OBVIOUS
  <2> HIDE DEF t
  <2> QED
    BY <1>1, <1>2, <1>3, <1>5, <2>1 DEF ThunkInv
<1> QED
  BY <1>5, <1>6, <1>8, <1>10, <1>11 DEF FrameInv

\* A worker of the second pool takes the thunk of an article.
LEMMA StartFrames ==
  ASSUME FrameInv, NEW t \in Thunks, StartArticle(t)
  PROVE  FrameInv'
<1>1. TypeInv /\ MainInv /\ QueueInv /\ \A u \in Thunks : ThunkInv(u)
  BY DEF FrameInv
<1>2. /\ apc[t] = "none" /\ apc' = [apc EXCEPT ![t] = "check"]
      /\ ArticlePool!Take /\ t = Head(articleQueue)
      /\ UNCHANGED <<mpc, nextFeed, allDone, feedQueue, fpc, nextArticle, completed, tokens, mine,
                     merged, articleUrls, articles, torn, overlapped, contributed>>
  BY DEF StartArticle, Goto, main, feeds, pool, locals, members, history
<1>3. /\ articleQueue' \in Seq(Thunks) /\ QueueInv'
      /\ t \in Queued /\ Queued' = Queued \ {t}
      /\ articleBusy' = articleBusy \union {t} /\ articleDone' = articleDone
  BY <1>1, <1>2, PopQueue DEF TypeInv
<1>4. /\ apc'[t] = "check" /\ \A u \in Thunks : u # t => apc'[u] = apc[u]
      /\ apc' \in [Thunks -> {"none", "check", "insert", "download", "find", "merge",
                              "store", "signal", "done", "crashed"}]
  BY <1>1, <1>2 DEF TypeInv
<1>5. TypeInv'
  BY <1>1, <1>2, <1>3, <1>4 DEF TypeInv
<1>6. FeedsDone' = FeedsDone /\ Cardinality(FeedsDone)' = Cardinality(FeedsDone)
  BY <1>2 DEF FeedsDone
<1>7. MainInv'
  BY <1>1, <1>2, <1>6 DEF MainInv
<1>8. ASSUME NEW g \in Feeds
      PROVE  FeedInv(g)'
  <2>1. \A i \in DOMAIN ArticlesOf[g] : apc'[<<g, i>>] = "done" <=> apc[<<g, i>>] = "done"
    BY <1>2, <1>4, ThunkFacts
  <2>2. DoneOf(g)' = DoneOf(g) /\ Cardinality(DoneOf(g))' = Cardinality(DoneOf(g))
    BY <2>1 DEF DoneOf
  <2> QED
    BY <1>2, <2>2 DEF FrameInv, FeedInv
<1>9. ASSUME NEW u \in Thunks
      PROVE  ThunkInv(u)'
  BY <1>1, <1>2, <1>3, <1>4 DEF ThunkInv
<1> QED
  BY <1>3, <1>5, <1>7, <1>8, <1>9 DEF FrameInv

\* The thunk of an article works.
Works(t) ==
    CheckUrl(t) \/ InsertUrl(t) \/ Download(t) \/ FindArticle(t) \/ Merge(t) \/ StoreMerged(t)

\* None of that changes a queue, a semaphore or who has signalled.
LEMMA WorkFrames ==
  ASSUME FrameInv, NEW t \in Thunks, Works(t)
  PROVE  FrameInv'
<1>1. TypeInv /\ MainInv /\ QueueInv /\ \A u \in Thunks : ThunkInv(u)
  BY DEF FrameInv
<1>2. UNCHANGED <<mpc, nextFeed, allDone, feedQueue, fpc, nextArticle, completed, articleQueue,
                  articleBusy, articleDone>>
  BY DEF Works, CheckUrl, InsertUrl, Download, FindArticle, Merge, StoreMerged, main, feeds, pool,
         locals, members, history
<1>3. PICK to \in {"insert", "download", "find", "merge", "store", "signal", "crashed"} :
        apc[t] \notin {"none", "signal", "done"} /\ apc' = [apc EXCEPT ![t] = to]
  BY DEF Works, CheckUrl, InsertUrl, Download, FindArticle, Merge, StoreMerged, Goto
<1>4. /\ apc'[t] = to /\ \A u \in Thunks : u # t => apc'[u] = apc[u]
      /\ apc' \in [Thunks -> {"none", "check", "insert", "download", "find", "merge",
                              "store", "signal", "done", "crashed"}]
  BY <1>1, <1>3 DEF TypeInv
<1>5. Article(t).url \in Urls /\ Article(t).key \in Keys
  BY ThunkFacts
<1>6. TypeInv'
  <2>1. articleUrls' \subseteq Urls
    BY <1>1, <1>5 DEF TypeInv, Works, CheckUrl, InsertUrl, Download, FindArticle, Merge,
                      StoreMerged, members
  <2>2. tokens' \in [Thunks -> SUBSET Words]
    <3>1. TokensOf[Article(t).url] \in SUBSET Words
      BY <1>5, AggregatorAssumption
    <3>2. UNCHANGED tokens \/ \E got \in SUBSET Words : tokens' = [tokens EXCEPT ![t] = got]
      BY <3>1 DEF Works, CheckUrl, InsertUrl, Download, FindArticle, Merge, StoreMerged, locals
    <3> QED
      BY <1>1, <3>2 DEF TypeInv
  <2>3. merged' \in [Thunks -> SUBSET Words] /\ mine' \in [Thunks -> BOOLEAN]
    <3>1. tokens[t] \in SUBSET Words
      BY <1>1 DEF TypeInv
    <3>2. \/ UNCHANGED <<merged, mine>>
          \/ \E got \in SUBSET Words, less \in BOOLEAN :
               merged' = [merged EXCEPT ![t] = got] /\ mine' = [mine EXCEPT ![t] = less]
      BY <3>1 DEF Works, CheckUrl, InsertUrl, Download, FindArticle, Merge, StoreMerged, locals
    <3> QED
      BY <1>1, <3>2 DEF TypeInv
  <2>4. articles' \in [Keys -> [url : Urls \union {NoUrl}, tokens : SUBSET Words]]
    <3> DEFINE key == Article(t).key
               Entry == [url : Urls \union {NoUrl}, tokens : SUBSET Words]
    <3>1. articles[key].url \in Urls \union {NoUrl}
      BY <1>1, <1>5 DEF TypeInv
    <3>2. tokens[t] \in SUBSET Words /\ merged[t] \in SUBSET Words
      BY <1>1 DEF TypeInv
    <3>3. UNCHANGED articles \/ \E e \in Entry : articles' = [articles EXCEPT ![key] = e]
      <4>1. CASE CheckUrl(t) \/ InsertUrl(t) \/ Download(t) \/ Merge(t)
        BY <4>1 DEF CheckUrl, InsertUrl, Download, Merge, members
      <4>2. CASE FindArticle(t)
        <5>1. [url |-> Article(t).url, tokens |-> tokens[t]] \in Entry
          BY <1>5, <3>2
        <5> QED
          BY <4>2, <5>1 DEF FindArticle
      <4>3. CASE StoreMerged(t)
        <5> DEFINE e == [url |-> IF mine[t] THEN Article(t).url ELSE articles[key].url,
                         tokens |-> merged[t]]
        <5>1. articles' = [articles EXCEPT ![key] = e]
          BY <4>3 DEF StoreMerged
        <5>2. e \in Entry
          BY <1>5, <3>1, <3>2
        <5> QED
          BY <5>1, <5>2
      <4> QED
        BY <4>1, <4>2, <4>3 DEF Works
    <3> QED
      BY <1>1, <3>3 DEF TypeInv
  <2>5. torn' \subseteq Thunks /\ overlapped' \subseteq Keys /\ contributed' \subseteq Thunks
    <3>1. CASE CheckUrl(t) \/ InsertUrl(t) \/ Download(t) \/ Merge(t)
      BY <1>1, <3>1 DEF TypeInv, CheckUrl, InsertUrl, Download, Merge, history
    <3>2. CASE FindArticle(t)
      BY <1>1, <3>2 DEF TypeInv, FindArticle
    <3>3. CASE StoreMerged(t)
      BY <1>1, <1>5, <3>3 DEF TypeInv, StoreMerged
    <3> QED
      BY <3>1, <3>2, <3>3 DEF Works
  <2> QED
    BY <1>1, <1>2, <1>4, <2>1, <2>2, <2>3, <2>4, <2>5 DEF TypeInv
<1>7. /\ FeedsDone' = FeedsDone /\ Cardinality(FeedsDone)' = Cardinality(FeedsDone)
      /\ Queued' = Queued /\ QueueInv'
  BY <1>1, <1>2 DEF FeedsDone, Queued, QueueInv
<1>8. MainInv'
  BY <1>1, <1>2, <1>7 DEF MainInv
<1>9. ASSUME NEW g \in Feeds
      PROVE  FeedInv(g)'
  <2>1. \A i \in DOMAIN ArticlesOf[g] : apc'[<<g, i>>] = "done" <=> apc[<<g, i>>] = "done"
    BY <1>3, <1>4, ThunkFacts
  <2>2. DoneOf(g)' = DoneOf(g) /\ Cardinality(DoneOf(g))' = Cardinality(DoneOf(g))
    BY <2>1 DEF DoneOf
  <2> QED
    BY <1>2, <2>2 DEF FrameInv, FeedInv
<1>10. ASSUME NEW u \in Thunks
       PROVE  ThunkInv(u)'
  BY <1>1, <1>2, <1>3, <1>4, <1>7 DEF ThunkInv
<1> QED
  BY <1>6, <1>7, <1>8, <1>9, <1>10 DEF FrameInv

\* The thunk of an article signals the semaphore in the frame of its feed, which
\* is there: the feed cannot have passed the semaphore before.
LEMMA SignalFrames ==
  ASSUME FrameInv, NEW t \in Thunks, SignalArticle(t)
  PROVE  FrameInv'
<1>1. TypeInv /\ MainInv /\ QueueInv /\ \A u \in Thunks : ThunkInv(u)
  BY DEF FrameInv
<1>2. /\ apc[t] = "signal" /\ apc' = [apc EXCEPT ![t] = "done"]
      /\ completed' = [completed EXCEPT ![t[1]] = completed[t[1]] + 1]
      /\ articleBusy' = articleBusy \ {t} /\ articleDone' = articleDone \union {t}
      /\ UNCHANGED <<mpc, nextFeed, allDone, feedQueue, fpc, nextArticle, articleQueue, tokens,
                     mine, merged, articleUrls, articles, torn, overlapped, contributed>>
  BY DEF SignalArticle, Goto, ArticlePool!Finish, main, feeds, pool, locals, members, history
<1>3. /\ t[1] \in Feeds /\ t[2] \in DOMAIN ArticlesOf[t[1]] /\ t = <<t[1], t[2]>>
  BY ThunkFacts
<1>4. /\ apc'[t] = "done" /\ \A u \in Thunks : u # t => apc'[u] = apc[u]
      /\ apc' \in [Thunks -> {"none", "check", "insert", "download", "find", "merge",
                              "store", "signal", "done", "crashed"}]
  BY <1>1, <1>2 DEF TypeInv
<1>5. /\ completed'[t[1]] = completed[t[1]] + 1 /\ completed' \in [Feeds -> Int]
      /\ \A g \in Feeds : g # t[1] => completed'[g] = completed[g]
  BY <1>1, <1>2, <1>3 DEF TypeInv
<1>6. TypeInv'
  BY <1>1, <1>2, <1>4, <1>5 DEF TypeInv
<1>7. /\ FeedsDone' = FeedsDone /\ Cardinality(FeedsDone)' = Cardinality(FeedsDone)
      /\ Queued' = Queued /\ QueueInv'
  BY <1>1, <1>2 DEF FeedsDone, Queued, QueueInv
<1>8. MainInv'
  BY <1>1, <1>2, <1>7 DEF MainInv
<1>9. ASSUME NEW g \in Feeds
      PROVE  FeedInv(g)'
  <2>1. CASE g # t[1]
    <3>1. \A i \in DOMAIN ArticlesOf[g] : <<g, i>> \in Thunks /\ <<g, i>> # t
      BY <1>3, <2>1, ThunkFacts
    <3>2. DoneOf(g)' = DoneOf(g) /\ Cardinality(DoneOf(g))' = Cardinality(DoneOf(g))
      BY <1>4, <3>1 DEF DoneOf
    <3> QED
      BY <1>2, <1>5, <2>1, <3>2 DEF FrameInv, FeedInv
  <2>2. CASE g = t[1]
    <3>1. \A i \in DOMAIN ArticlesOf[g] : <<g, i>> \in Thunks /\ (<<g, i>> = t <=> i = t[2])
      BY <1>3, <2>2, ThunkFacts
    <3>2. DoneOf(g)' = DoneOf(g) \union {t[2]} /\ t[2] \notin DoneOf(g)
      BY <1>2, <1>3, <1>4, <2>2, <3>1 DEF DoneOf
    <3>3. Cardinality(DoneOf(g)') = Cardinality(DoneOf(g)) + 1
      BY <3>2, DoneFinite, FS_AddElement
    <3>4. Cardinality(DoneOf(g)) \in Nat /\ Len(ArticlesOf[g]) \in Nat
      BY DoneFinite
    <3>5. completed[g] \in Int /\ completed'[g] = completed[g] + 1 /\ fpc'[g] = fpc[g]
      BY <1>1, <1>2, <1>5, <2>2 DEF TypeInv
    <3>6. fpc[g] = "schedule" => completed[g] = 1 - Len(ArticlesOf[g]) + Cardinality(DoneOf(g))
      BY DEF FrameInv, FeedInv
    <3> QED
      BY <3>3, <3>4, <3>5, <3>6 DEF FeedInv
  <2> QED
    BY <2>1, <2>2
<1>10. ASSUME NEW u \in Thunks
       PROVE  ThunkInv(u)'
  BY <1>1, <1>2, <1>4, <1>7 DEF ThunkInv
<1> QED
  BY <1>6, <1>7, <1>8, <1>9, <1>10 DEF FrameInv
\* FrameInv holds at the start and in every step.
LEMMA InitFrames ==
  ASSUME Init
  PROVE  FrameInv
<1>1. NumFeeds \in Nat
  BY AggregatorAssumption
<1>2. TypeInv
  <2>1. feedQueue \in Seq(Feeds) /\ articleQueue \in Seq(Thunks)
    BY DEF Init
  <2> QED
    BY <1>1, <2>1 DEF Init, TypeInv
<1>3. MainInv
  BY DEF Init, MainInv
<1>4. QueueInv /\ Queued = {}
  BY DEF Init, QueueInv, Queued
<1>5. \A f \in Feeds : FeedInv(f)
  BY DEF Init, FeedInv
<1>6. \A t \in Thunks : ThunkInv(t)
  <2>1. \A t \in Thunks : apc[t] = "none" /\ fpc[t[1]] = "none"
    BY ThunkFacts DEF Init
  <2> QED
    BY <1>4, <2>1 DEF ThunkInv
<1> QED
  BY <1>2, <1>3, <1>4, <1>5, <1>6 DEF FrameInv

LEMMA NextFrames ==
  ASSUME FrameInv, [Next]_vars
  PROVE  FrameInv'
<1>1. CASE Main
  BY <1>1, MainFrames
<1>2. CASE Pools
  BY <1>2, FeedFrames, StartFrames DEF Pools
<1>3. ASSUME NEW f \in Feeds, Feed(f)
      PROVE  FrameInv'
  BY <1>3, FeedFrames, ScheduleFrames DEF Feed
<1>4. ASSUME NEW t \in Thunks, ArticleStep(t)
      PROVE  FrameInv'
  <2>1. Works(t) \/ SignalArticle(t)
    BY <1>4 DEF ArticleStep, Works
  <2> QED
    BY <2>1, WorkFrames, SignalFrames
<1>5. CASE UNCHANGED vars
  <2>1. UNCHANGED <<mpc, nextFeed, allDone, feedQueue, fpc, nextArticle, completed, articleQueue,
                    articleBusy, articleDone, apc, tokens, mine, merged, articleUrls, articles,
                    torn, overlapped, contributed>>
    BY <1>5 DEF vars, main, feeds, pool, locals, members, history
  <2>2. /\ FeedsDone' = FeedsDone /\ Cardinality(FeedsDone)' = Cardinality(FeedsDone)
        /\ Queued' = Queued
    BY <2>1 DEF FeedsDone, Queued
  <2>3. ASSUME NEW f \in Feeds
        PROVE  FeedInv(f)'
    <3>1. DoneOf(f)' = DoneOf(f) /\ Cardinality(DoneOf(f))' = Cardinality(DoneOf(f))
      BY <2>1 DEF DoneOf
    <3> QED
      BY <2>1, <3>1 DEF FrameInv, FeedInv
  <2>4. TypeInv' /\ MainInv' /\ QueueInv'
    BY <2>1, <2>2 DEF FrameInv, TypeInv, MainInv, QueueInv
  <2>5. \A t \in Thunks : ThunkInv(t)'
    BY <2>1, <2>2 DEF FrameInv, ThunkInv
  <2> QED
    BY <2>3, <2>4, <2>5 DEF FrameInv
<1> QED
  BY <1>1, <1>2, <1>3, <1>4, <1>5 DEF Next

\* FrameInv holds throughout.
THEOREM FrameInvariant == Spec => []FrameInv
<1>1. Init => FrameInv
  BY InitFrames
<1>2. FrameInv /\ [Next]_vars => FrameInv'
  BY NextFrames
<1> QED
  BY <1>1, <1>2, PTL DEF Spec

\* A frame of processAllFeeds() or processFeed() is there as long as a thunk that
\* refers to it is scheduled or runs, for any feeds, articles and workers.
THEOREM FramesCorrect == Spec => []FramesOutliveThunks
<1>1. ASSUME FrameInv
      PROVE  FramesOutliveThunks
  <2>1. TypeInv /\ MainInv /\ \A t \in Thunks : ThunkInv(t)
    BY <1>1 DEF FrameInv
  <2>2. \A f \in Feeds : mpc \in {"index", "returned"} => fpc[f] = "done"
    BY <2>1 DEF MainInv
  <2>3. \A t \in Thunks : fpc[t[1]] \in {"signal", "done"} => apc[t] \in {"none", "done"}
    BY <2>1 DEF ThunkInv
  <2>4. ASSUME NEW k \in DOMAIN articleQueue
        PROVE  fpc[articleQueue[k][1]] = "schedule"
    <3>1. articleQueue[k] \in Queued /\ articleQueue[k] \in Thunks
      BY <2>1 DEF Queued, TypeInv
    <3> QED
      BY <2>1, <3>1 DEF ThunkInv
  <2> QED
    BY <2>2, <2>3, <2>4 DEF FramesOutliveThunks
<1> QED
  BY <1>1, FrameInvariant, PTL
-----------------------------------------------------------------------------
(* DataInv, step by step                                                   *)

\* A thunk with one of these program counters has claimed its URL.
Claimed == {"download", "find", "merge", "store", "crashed"}

\* What the steps of t keep of the URLs, if it gives up its claim only by storing.
LEMMA UrlKeeps ==
  ASSUME NEW u \in Urls, UrlInv(u), NEW t \in Thunks,
         u \in articleUrls' => u \in articleUrls \/ (Article(t).url = u /\ apc'[t] \in Claimed),
         \A v \in Thunks : v # t => apc'[v] = apc[v],
         contributed \subseteq contributed',
         apc[t] \in Claimed => apc'[t] \in Claimed \/ t \in contributed'
  PROVE  UrlInv(u)'
<1>1. SUFFICES ASSUME u \in articleUrls'
               PROVE  \E v \in Thunks : /\ Article(v).url = u
                                        /\ v \in contributed' \/ apc'[v] \in Claimed
  BY DEF UrlInv, Claimed, Article
<1>2. CASE Article(t).url = u /\ apc'[t] \in Claimed
  BY <1>2
<1>3. CASE u \in articleUrls
  <2>1. PICK v \in Thunks : Article(v).url = u /\ (v \in contributed \/ apc[v] \in Claimed)
    BY <1>3 DEF UrlInv, Claimed
  <2> QED
    BY <2>1
<1> QED
  BY <1>1, <1>2, <1>3

\* What the other thunks hold, if the entries and the history stay.
LEMMA WorkKeeps ==
  ASSUME NEW u \in Thunks, WorkInv(u),
         apc'[u] = apc[u], tokens'[u] = tokens[u], merged'[u] = merged[u], mine'[u] = mine[u],
         articleUrls \subseteq articleUrls', UNCHANGED <<articles, torn, overlapped, contributed>>
  PROVE  WorkInv(u)'
BY DEF WorkInv, Article

\* An entry stays what it is if the tokens of those who went into it stay.
LEMMA EntryKeeps ==
  ASSUME NEW key \in Keys, EntryInv(key), contributed \subseteq Thunks,
         articles'[key] = articles[key], Merged(key)' = Merged(key),
         key \in overlapped => key \in overlapped',
         \A t \in contributed : tokens'[t] = tokens[t]
  PROVE  EntryInv(key)'
<1>1. Merged(key) \subseteq contributed
  BY DEF Merged
<1>2. Common(key)' = Common(key)
  BY <1>1 DEF Common
<1> QED
  BY <1>2 DEF EntryInv, Article

\* The steps that leave the thunks of the articles and what they share alone.
LEMMA OthersData ==
  ASSUME DataInv, index' \subseteq Words \X Urls,
         UNCHANGED <<apc, tokens, mine, merged, articleUrls, articles, torn, overlapped,
                     contributed>>
  PROVE  DataInv'
<1>1. \A u \in Urls : UrlInv(u)'
  BY DEF DataInv, UrlInv, Article
<1>2. \A t \in Thunks : WorkInv(t)'
  BY DEF DataInv, WorkInv, Article
<1>3. ASSUME NEW key \in Keys
      PROVE  EntryInv(key)'
  <2>1. Merged(key)' = Merged(key) /\ Common(key)' = Common(key)
    BY DEF Merged, Common, Article
  <2> QED
    BY <2>1 DEF DataInv, EntryInv, Article
<1> QED
  BY <1>1, <1>2, <1>3 DEF DataInv

\* The words of an entry are indexed under the URL of an article.
LEMMA MainData ==
  ASSUME FrameInv, DataInv, Main
  PROVE  DataInv'
<1>1. UNCHANGED <<apc, tokens, mine, merged, articleUrls, articles, torn, overlapped, contributed>>
  BY DEF Main, ParseList, ScheduleFeed, WaitForFeeds, BuildIndex, locals, members, history
<1>2. CASE BuildIndex
  <2>1. ASSUME NEW k \in Keys, NEW w \in articles[k].tokens
        PROVE  <<w, articles[k].url>> \in Words \X Urls
    <3>1. EntryInv(k) /\ articles[k] \in [url : Urls \union {NoUrl}, tokens : SUBSET Words]
      BY DEF DataInv, FrameInv, TypeInv
    <3>2. articles[k].url # NoUrl
      BY <2>1, <3>1 DEF EntryInv
    <3> QED
      BY <3>1, <3>2
  <2>2. index' \subseteq Words \X Urls
    BY <1>2, <2>1 DEF BuildIndex
  <2> QED
    BY <1>1, <2>2, OthersData
<1>3. CASE ParseList \/ ScheduleFeed \/ WaitForFeeds
  <2>1. index' \subseteq Words \X Urls
    BY <1>3 DEF ParseList, ScheduleFeed, WaitForFeeds, members, DataInv
  <2> QED
    BY <1>1, <2>1, OthersData
<1> QED
  BY <1>2, <1>3 DEF Main

\* The thunks of feeds do not touch the members.
LEMMA FeedData ==
  ASSUME DataInv, NEW f \in Feeds, StartFeed(f) \/ Feed(f)
  PROVE  DataInv'
<1>1. UNCHANGED <<apc, tokens, mine, merged, articleUrls, articles, torn, overlapped, contributed,
                  index>>
  BY DEF Feed, StartFeed, ParseFeed, ScheduleArticle, WaitForArticles, SignalFeed, locals,
         members, history
<1>2. index' \subseteq Words \X Urls
  BY <1>1 DEF DataInv
<1> QED
  BY <1>1, <1>2, OthersData

\* A thunk starts, claims its URL unless it is there, downloads, finds the entry,
\* reads it, or signals: no entry changes.
LEMMA ReadData ==
  ASSUME FrameInv, DataInv, NEW t \in Thunks,
         \/ StartArticle(t) \/ CheckUrl(t) \/ InsertUrl(t) \/ Download(t) \/ Merge(t)
         \/ SignalArticle(t) \/ (FindArticle(t) /\ articles[Article(t).key].url # NoUrl)
  PROVE  DataInv'
<1> DEFINE key == Article(t).key
           entry == articles[key]
<1>1. TypeInv /\ WorkInv(t) /\ \A u \in Thunks : WorkInv(u)
  BY DEF FrameInv, DataInv
<1>2. UNCHANGED <<articles, torn, overlapped, contributed, index>>
  BY DEF StartArticle, CheckUrl, InsertUrl, Download, Merge, SignalArticle, FindArticle, members,
         history
<1>3. \/ /\ apc[t] = "none" /\ apc' = [apc EXCEPT ![t] = "check"] /\ UNCHANGED articleUrls
      \/ /\ apc[t] = "check" /\ UNCHANGED articleUrls
         /\ \/ apc' = [apc EXCEPT ![t] = "signal"] /\ Article(t).url \in articleUrls
            \/ apc' = [apc EXCEPT ![t] = "insert"]
      \/ /\ apc[t] = "insert" /\ apc' = [apc EXCEPT ![t] = "download"]
         /\ articleUrls' = articleUrls \union {Article(t).url}
      \/ /\ apc[t] = "download" /\ apc' = [apc EXCEPT ![t] = "find"] /\ UNCHANGED articleUrls
      \/ /\ apc[t] = "find" /\ apc' = [apc EXCEPT ![t] = "merge"] /\ UNCHANGED articleUrls
         /\ entry.url # NoUrl
      \/ /\ apc[t] = "merge" /\ apc' = [apc EXCEPT ![t] = "store"] /\ UNCHANGED articleUrls
         /\ t \notin torn => /\ merged'[t] = entry.tokens \intersect tokens[t]
                             /\ mine'[t] = (Article(t).url < entry.url)
                             /\ tokens'[t] = tokens[t]
      \/ /\ apc[t] = "merge" /\ apc' = [apc EXCEPT ![t] = "crashed"] /\ UNCHANGED articleUrls
      \/ /\ apc[t] = "signal" /\ apc' = [apc EXCEPT ![t] = "done"] /\ UNCHANGED articleUrls
  <2>1. CASE StartArticle(t) \/ CheckUrl(t) \/ InsertUrl(t) \/ Download(t) \/ SignalArticle(t)
    BY <2>1 DEF StartArticle, CheckUrl, InsertUrl, Download, SignalArticle, members, Goto
  <2>2. CASE FindArticle(t) /\ entry.url # NoUrl
    BY <2>2 DEF FindArticle, Goto
  <2>3. CASE Merge(t)
    BY <1>1, <2>3 DEF Merge, Goto, members, TypeInv
  <2> QED
    BY <2>1, <2>2, <2>3
<1>4. \/ UNCHANGED <<tokens, merged, mine>>
      \/ /\ apc[t] = "download" /\ UNCHANGED <<merged, mine>>
         /\ \E got \in {TokensOf[Article(t).url], {}} : tokens' = [tokens EXCEPT ![t] = got]
      \/ /\ UNCHANGED tokens
         /\ \E got, less : /\ merged' = [merged EXCEPT ![t] = got]
                           /\ mine' = [mine EXCEPT ![t] = less]
  <2>1. CASE StartArticle(t) \/ CheckUrl(t) \/ InsertUrl(t) \/ SignalArticle(t) \/ FindArticle(t)
    BY <2>1 DEF StartArticle, CheckUrl, InsertUrl, FindArticle, SignalArticle, locals
  <2>2. CASE Download(t)
    BY <2>2 DEF Download, Goto
  <2>3. CASE Merge(t)
    BY <2>3 DEF Merge
  <2> QED
    BY <2>1, <2>2, <2>3
<1>5. \A u \in Thunks : u # t => /\ apc'[u] = apc[u] /\ tokens'[u] = tokens[u]
                                 /\ merged'[u] = merged[u] /\ mine'[u] = mine[u]
  <2>1. \A u \in Thunks : u # t => apc'[u] = apc[u]
    BY <1>1, <1>3 DEF TypeInv
  <2>2. \A u \in Thunks : u # t => /\ tokens'[u] = tokens[u]
                                   /\ merged'[u] = merged[u] /\ mine'[u] = mine[u]
    BY <1>1, <1>4 DEF TypeInv
  <2> QED
    BY <2>1, <2>2
<1>6. articleUrls \subseteq articleUrls'
  BY <1>3
<1>7. t \in contributed => apc[t] \in {"signal", "done"}
  BY <1>1 DEF WorkInv
<1>8. ASSUME NEW u \in Urls
      PROVE  UrlInv(u)'
  <2>1. UrlInv(u)
    BY DEF DataInv
  <2>2. u \in articleUrls' => u \in articleUrls \/ (Article(t).url = u /\ apc'[t] \in Claimed)
    BY <1>1, <1>3 DEF TypeInv, Claimed
  <2>3. apc[t] \in Claimed => apc'[t] \in Claimed
    BY <1>1, <1>3 DEF TypeInv, Claimed
  <2> QED
    BY <1>2, <1>5, <2>1, <2>2, <2>3, UrlKeeps
<1>9. WorkInv(t)'
  <2>1. /\ Article(t)' = Article(t)
        /\ t \in contributed => apc[t] \in {"signal", "done"}
        /\ t \in torn => key \in overlapped
        /\ apc[t] \in {"download", "find", "merge", "store", "signal", "done", "crashed"} =>
              Article(t).url \in articleUrls
        /\ apc[t] = "merge" => entry.url # NoUrl
    BY <1>1 DEF WorkInv, Article
  <2>2. apc'[t] \in {"download", "find", "merge", "store", "signal", "done", "crashed"} =>
              Article(t).url \in articleUrls'
    BY <1>1, <1>3, <2>1 DEF TypeInv
  <2>3. apc'[t] \in {"merge", "store"} => entry.url # NoUrl
    BY <1>1, <1>3, <2>1 DEF TypeInv
  <2>4. t \in contributed => apc'[t] \in {"signal", "done"}
    BY <1>1, <1>3, <2>1 DEF TypeInv
  <2>5. apc'[t] = "store" /\ t \notin torn =>
              /\ merged'[t] = entry.tokens \intersect tokens'[t]
              /\ mine'[t] = (Article(t).url < entry.url)
    BY <1>1, <1>3 DEF TypeInv
  <2> QED
    BY <1>2, <2>1, <2>2, <2>3, <2>4, <2>5 DEF WorkInv
<1>10. \A u \in Thunks : WorkInv(u)'
  BY <1>1, <1>2, <1>5, <1>6, <1>9, WorkKeeps
<1>11. ASSUME NEW k \in Keys
       PROVE  EntryInv(k)'
  <2>1. EntryInv(k) /\ contributed \subseteq Thunks
    BY <1>1 DEF DataInv, TypeInv
  <2>2. Merged(k)' = Merged(k)
    BY <1>2 DEF Merged, Article
  <2>3. t \in contributed => tokens'[t] = tokens[t]
    BY <1>4, <1>7
  <2>4. \A u \in contributed : tokens'[u] = tokens[u]
    BY <1>5, <2>1, <2>3
  <2> QED
    BY <1>2, <2>1, <2>2, <2>4, EntryKeeps
<1> QED
  BY <1>2, <1>8, <1>10, <1>11 DEF DataInv
\* The first thunk of a key stores what it downloaded.
LEMMA FindData ==
  ASSUME FrameInv, DataInv, NEW t \in Thunks, FindArticle(t),
         articles[Article(t).key].url = NoUrl
  PROVE  DataInv'
<1> DEFINE key == Article(t).key
           new == [url |-> Article(t).url, tokens |-> tokens[t]]
<1>1. TypeInv /\ \A u \in Thunks : WorkInv(u)
  BY DEF FrameInv, DataInv
<1>2. /\ apc[t] = "find" /\ apc' = [apc EXCEPT ![t] = "signal"]
      /\ articles' = [articles EXCEPT ![key] = new]
      /\ contributed' = contributed \union {t}
      /\ UNCHANGED <<tokens, mine, merged, articleUrls, torn, overlapped, index>>
  BY DEF FindArticle, Goto, locals
<1>3. /\ key \in Keys /\ Article(t).url \in Urls /\ Article(t).url # NoUrl
      /\ Article(t).url \in Nat
  BY ThunkFacts, AggregatorAssumption
<1> HIDE DEF new
<1>4. /\ articles'[key] = new /\ \A k \in Keys : k # key => articles'[k] = articles[k]
      /\ apc'[t] = "signal" /\ \A u \in Thunks : u # t => apc'[u] = apc[u]
  BY <1>1, <1>2, <1>3 DEF TypeInv
<1>5. ASSUME NEW u \in Urls
      PROVE  UrlInv(u)'
  <2>1. UrlInv(u)
    BY DEF DataInv
  <2> QED
    BY <1>2, <1>4, <2>1, UrlKeeps
<1>6. ASSUME NEW u \in Thunks
      PROVE  WorkInv(u)'
  <2>1. WorkInv(u) /\ Article(u)' = Article(u) /\ Article(u).key \in Keys
    BY <1>1, ThunkFacts DEF Article
  <2>2. CASE u = t
    BY <1>2, <1>4, <2>1, <2>2 DEF WorkInv
  <2>3. CASE u # t /\ Article(u).key # key
    BY <1>2, <1>4, <2>1, <2>3 DEF WorkInv
  <2>4. CASE u # t /\ Article(u).key = key
    <3>1. apc[u] \notin {"merge", "store"}
      BY <2>1, <2>4 DEF WorkInv
    <3> QED
      BY <1>2, <1>4, <2>1, <2>4, <3>1 DEF WorkInv
  <2> QED
    BY <2>2, <2>3, <2>4
<1>7. ASSUME NEW k \in Keys
      PROVE  EntryInv(k)'
  <2>1. EntryInv(k)
    BY DEF DataInv
  <2>2. CASE k # key
    <3>1. Merged(k)' = Merged(k)
      BY <1>2, <2>2 DEF Merged, Article
    <3>2. contributed \subseteq Thunks /\ \A u \in contributed : tokens'[u] = tokens[u]
      BY <1>1, <1>2 DEF TypeInv
    <3> QED
      BY <1>2, <1>4, <2>1, <2>2, <3>1, <3>2, EntryKeeps
  <2>3. CASE k = key
    <3>1. Merged(key) = {}
      BY <2>1, <2>3 DEF EntryInv
    <3>2. Merged(key)' = {t}
      BY <1>2, <3>1 DEF Merged, Article
    <3>3. Common(key)' = tokens[t]
      BY <1>1, <1>2, <3>2 DEF Common, TypeInv
    <3>4. articles'[key].url = Article(t).url /\ articles'[key].tokens = tokens[t]
      BY <1>4 DEF new
    <3>5. Article(t)' = Article(t) /\ Article(t).url <= Article(t).url
      BY <1>3 DEF Article
    <3> HIDE DEF key
    <3> QED
      BY <1>3, <2>3, <3>2, <3>3, <3>4, <3>5 DEF EntryInv
  <2> QED
    BY <2>2, <2>3
<1> QED
  BY <1>2, <1>5, <1>6, <1>7 DEF DataInv

\* A later thunk assigns the entry what it made of it: exact, if no other thunk of
\* the key reads or assigns the entry in between.
LEMMA StoreData ==
  ASSUME FrameInv, DataInv, NEW t \in Thunks, StoreMerged(t)
  PROVE  DataInv'
<1> DEFINE key == Article(t).key
           entry == articles[key]
           new == [url |-> IF mine[t] THEN Article(t).url ELSE entry.url,
                   tokens |-> merged[t]]
<1>1. TypeInv /\ WorkInv(t) /\ \A u \in Thunks : WorkInv(u)
  BY DEF FrameInv, DataInv
<1>2. /\ apc[t] = "store" /\ apc' = [apc EXCEPT ![t] = "signal"]
      /\ articles' = [articles EXCEPT ![key] = new]
      /\ contributed' = contributed \union {t}
      /\ UNCHANGED <<tokens, mine, merged, articleUrls, index>>
  BY DEF StoreMerged, Goto, locals
<1>3. /\ torn \subseteq torn' /\ overlapped \subseteq overlapped'
      /\ overlapped' \subseteq overlapped \union {key}
      /\ \A u \in torn' \ torn : Article(u).key = key /\ key \in overlapped'
      /\ \A u \in Thunks : u # t /\ apc[u] \in {"merge", "store"} /\ Article(u).key = key =>
            key \in overlapped'
  <2> DEFINE Others(pcs) == {u \in Thunks \ {t} : apc[u] \in pcs /\ Article(u).key = key}
  <2>1. /\ torn' = torn \union Others({"merge"})
        /\ overlapped' = IF Others({"merge", "store"}) = {} THEN overlapped
                         ELSE overlapped \union {key}
    BY DEF StoreMerged
  <2>2. Others({"merge"}) \subseteq Others({"merge", "store"})
    OBVIOUS
  <2>3. \A u \in Others({"merge", "store"}) : Article(u).key = key /\ key \in overlapped'
    BY <2>1
  <2> QED
    BY <2>1, <2>2, <2>3
<1>4. /\ key \in Keys /\ Article(t).url \in Urls /\ Article(t).url # NoUrl
      /\ Article(t).url \in Nat
  BY ThunkFacts, AggregatorAssumption
<1>5. /\ entry.url # NoUrl /\ t \notin contributed
      /\ entry \in [url : Urls \union {NoUrl}, tokens : SUBSET Words]
  BY <1>1, <1>2, <1>4 DEF WorkInv, TypeInv
<1>6. new.url # NoUrl /\ new.tokens = merged[t]
  BY <1>4, <1>5
<1>7. key \notin overlapped => /\ merged[t] = entry.tokens \intersect tokens[t]
                               /\ mine[t] = (Article(t).url < entry.url)
  BY <1>1, <1>2 DEF WorkInv
<1>8. entry.url \in Nat
  BY <1>5, AggregatorAssumption
<1>9. key \notin overlapped => /\ new.url <= entry.url /\ new.url <= Article(t).url
                               /\ new.url = Article(t).url \/ new.url = entry.url
  <2>1. new.url = IF mine[t] THEN Article(t).url ELSE entry.url
    OBVIOUS
  <2> HIDE DEF new, key, entry
  <2>2. key \notin overlapped => mine[t] = (Article(t).url < entry.url)
    BY <1>7
  <2>3. CASE Article(t).url < entry.url
    <3>1. key \notin overlapped => new.url = Article(t).url
      BY <2>1, <2>2, <2>3, Zenon
    <3> QED
      BY <1>4, <1>8, <2>3, <3>1
  <2>4. CASE ~(Article(t).url < entry.url)
    <3>1. key \notin overlapped => new.url = entry.url
      BY <2>1, <2>2, <2>4, Zenon
    <3> QED
      BY <1>4, <1>8, <2>4, <3>1
  <2> QED
    BY <2>3, <2>4
<1> HIDE DEF new
<1>10. /\ articles'[key] = new /\ \A k \in Keys : k # key => articles'[k] = articles[k]
       /\ apc'[t] = "signal" /\ \A u \in Thunks : u # t => apc'[u] = apc[u]
  BY <1>1, <1>2, <1>4 DEF TypeInv
<1>11. ASSUME NEW u \in Urls
       PROVE  UrlInv(u)'
  <2>1. UrlInv(u)
    BY DEF DataInv
  <2> QED
    BY <1>2, <1>10, <2>1, UrlKeeps
<1>12. ASSUME NEW u \in Thunks
       PROVE  WorkInv(u)'
  <2>1. WorkInv(u) /\ Article(u)' = Article(u) /\ Article(u).key \in Keys
    BY <1>1, ThunkFacts DEF Article
  <2>2. u \in torn' => Article(u).key \in overlapped'
    BY <1>3, <2>1 DEF WorkInv
  <2>3. CASE u = t
    BY <1>1, <1>2, <1>10, <2>1, <2>2, <2>3 DEF WorkInv
  <2>4. CASE u # t /\ Article(u).key # key
    BY <1>2, <1>3, <1>10, <2>1, <2>2, <2>4 DEF WorkInv
  <2>5. CASE u # t /\ Article(u).key = key
    <3>1. apc[u] = "store" => key \in overlapped'
      BY <1>3, <2>5
    <3> QED
      BY <1>2, <1>6, <1>10, <2>1, <2>2, <2>5, <3>1 DEF WorkInv
  <2> QED
    BY <2>3, <2>4, <2>5
<1>13. ASSUME NEW k \in Keys
       PROVE  EntryInv(k)'
  <2>1. EntryInv(k)
    BY DEF DataInv
  <2>2. CASE k # key
    <3>1. Merged(k)' = Merged(k)
      BY <1>2, <2>2 DEF Merged, Article
    <3>2. contributed \subseteq Thunks /\ \A u \in contributed : tokens'[u] = tokens[u]
      BY <1>1, <1>2 DEF TypeInv
    <3> QED
      BY <1>2, <1>3, <1>10, <2>1, <2>2, <3>1, <3>2, EntryKeeps
  <2>3. CASE k = key
    <3>1. Merged(key)' = Merged(key) \union {t} /\ Merged(key) # {}
      BY <1>2, <1>5, <2>1, <2>3 DEF Merged, Article, EntryInv
    <3>2. Common(key)' = Common(key) \intersect tokens[t]
      BY <1>2, <3>1 DEF Common
    <3>3. \A u \in Merged(key) : Article(u)' = Article(u) /\ Article(u).url \in Nat
      BY <1>1, ThunkFacts, AggregatorAssumption DEF Merged, Article, TypeInv
    <3>4. key \notin overlapped' =>
            /\ new.tokens = Common(key) \intersect tokens[t]
            /\ \A u \in Merged(key) : new.url <= Article(u).url
            /\ new.url <= Article(t).url
            /\ \E u \in Merged(key) \union {t} : new.url = Article(u).url
      <4>1. SUFFICES ASSUME key \notin overlapped'
                     PROVE  /\ new.tokens = Common(key) \intersect tokens[t]
                            /\ \A u \in Merged(key) : new.url <= Article(u).url
                            /\ new.url <= Article(t).url
                            /\ \E u \in Merged(key) \union {t} : new.url = Article(u).url
        OBVIOUS
      <4>2. /\ entry.tokens = Common(key)
            /\ \A u \in Merged(key) : entry.url <= Article(u).url
            /\ \E u \in Merged(key) : entry.url = Article(u).url
        BY <1>3, <2>1, <2>3, <3>1, <4>1 DEF EntryInv
      <4>3. new.tokens = Common(key) \intersect tokens[t]
        BY <1>3, <1>6, <1>7, <4>1, <4>2
      <4>4. /\ new.url <= entry.url /\ new.url <= Article(t).url
            /\ new.url = Article(t).url \/ new.url = entry.url
        BY <1>3, <1>9, <4>1
      <4>5. new.url \in Nat
        BY <1>4, <1>8, <4>4
      <4>6. \A u \in Merged(key) : new.url <= Article(u).url
        BY <1>8, <3>3, <4>2, <4>4, <4>5
      <4> QED
        BY <4>2, <4>3, <4>4, <4>6
    <3>5. Article(t)' = Article(t)
      BY DEF Article
    <3> HIDE DEF key
    <3> QED
      BY <1>6, <1>10, <2>3, <3>1, <3>2, <3>3, <3>4, <3>5 DEF EntryInv
  <2> QED
    BY <2>2, <2>3
<1> QED
  BY <1>2, <1>11, <1>12, <1>13 DEF DataInv
\* DataInv holds at the start and in every step.
LEMMA InitData ==
  ASSUME Init
  PROVE  DataInv
<1>1. index \subseteq Words \X Urls /\ \A u \in Urls : UrlInv(u)
  BY DEF Init, UrlInv
<1>2. \A t \in Thunks : WorkInv(t)
  BY DEF Init, WorkInv
<1>3. ASSUME NEW key \in Keys
      PROVE  EntryInv(key)
  <2>1. articles[key].url = NoUrl /\ articles[key].tokens = {} /\ Merged(key) = {}
    BY DEF Init, Merged
  <2> QED
    BY <2>1 DEF EntryInv
<1> QED
  BY <1>1, <1>2, <1>3 DEF DataInv

LEMMA NextData ==
  ASSUME FrameInv, DataInv, [Next]_vars
  PROVE  DataInv'
<1>1. CASE Main
  BY <1>1, MainData
<1>2. CASE Pools
  BY <1>2, FeedData, ReadData DEF Pools
<1>3. ASSUME NEW f \in Feeds, Feed(f)
      PROVE  DataInv'
  BY <1>3, FeedData
<1>4. ASSUME NEW t \in Thunks, ArticleStep(t)
      PROVE  DataInv'
  BY <1>4, ReadData, FindData, StoreData DEF ArticleStep
<1>5. CASE UNCHANGED vars
  <2>1. UNCHANGED <<apc, tokens, mine, merged, articleUrls, articles, torn, overlapped,
                    contributed, index>>
    BY <1>5 DEF vars, locals, members, history
  <2>2. index' \subseteq Words \X Urls
    BY <2>1 DEF DataInv
  <2> QED
    BY <2>1, <2>2, OthersData
<1> QED
  BY <1>1, <1>2, <1>3, <1>4, <1>5 DEF Next

\* DataInv holds throughout.
THEOREM DataInvariant == Spec => []DataInv
<1>1. Init => DataInv
  BY InitData
<1>2. FrameInv /\ DataInv /\ [Next]_vars => DataInv'
  BY NextData
<1> QED
  BY <1>1, <1>2, FrameInvariant, PTL DEF Spec

\* The aggregator's members and locals keep their types, and the semaphore of
\* processAllFeeds() its bounds, for any feeds, articles and workers.
THEOREM AggregatorTypeCorrect == Spec => []TypeOK
<1>1. ASSUME FrameInv, DataInv
      PROVE  TypeOK
  <2>1. TypeInv /\ MainInv /\ index \subseteq Words \X Urls
    BY <1>1 DEF FrameInv, DataInv
  <2>2. NumFeeds \in Nat /\ Cardinality(FeedsDone) \in 0..NumFeeds
    BY FeedsFinite, AggregatorAssumption
  <2>3. allDone \in {0} \union (1 - NumFeeds)..1
    <3>1. CASE mpc \in {"schedule", "wait"}
      <4>1. allDone = 1 - NumFeeds + Cardinality(FeedsDone)
        BY <2>1, <3>1 DEF MainInv
      <4> QED
        BY <2>2, <4>1
    <3>2. CASE mpc \in {"parse", "exited", "index", "returned"}
      BY <2>1, <3>2 DEF MainInv
    <3> QED
      BY <2>1, <3>1, <3>2 DEF TypeInv
  <2> QED
    BY <2>1, <2>3 DEF TypeInv, TypeOK
<1> QED
  BY <1>1, FrameInvariant, DataInvariant, PTL

\* An entry that no two threads merged into at once holds in the end what all the
\* downloads of its key have in common, under the smallest of their URLs: so does
\* updateArticle(), for any articles and any order of the threads.
THEOREM MergesCorrect == Spec => []MergesExact
<1>1. ASSUME DataInv
      PROVE  MergesExact
  BY <1>1 DEF DataInv, EntryInv, MergesExact
<1> QED
  BY <1>1, DataInvariant, PTL

\* In the end a thunk that found its URL claimed finds it stored, too: no URL of a
\* feed is missing, for any feeds, articles and workers.
THEOREM UrlsCorrect == Spec => []EveryUrlStored
<1>1. ASSUME FrameInv, DataInv
      PROVE  EveryUrlStored
  <2>1. SUFFICES ASSUME mpc = "returned", NEW t \in Thunks, apc[t] = "done"
                 PROVE  \E u \in contributed : Article(u).url = Article(t).url
    BY DEF EveryUrlStored
  <2>2. Article(t).url \in articleUrls /\ Article(t).url \in Urls
    BY <1>1, <2>1, ThunkFacts DEF DataInv, WorkInv
  <2>3. PICK u \in Thunks :
          /\ Article(u).url = Article(t).url
          /\ u \in contributed \/ apc[u] \in {"download", "find", "merge", "store", "crashed"}
    BY <1>1, <2>2 DEF DataInv, UrlInv
  <2>4. apc[u] \in {"none", "done"}
    BY <1>1, <2>1, ThunkFacts DEF FrameInv, MainInv, ThunkInv
  <2> QED
    BY <2>3, <2>4
<1> QED
  BY <1>1, FrameInvariant, DataInvariant, PTL
=============================================================================
