-------------------------- MODULE NewsAggregatorPools --------------------------
(***************************************************************************)
(* The news aggregator of assignment 5: main schedules a call of           *)
(* processarFeed for each feed on one thread pool, and these schedule a    *)
(* call of processarArtigo for each article on another. The pools are what *)
(* TaskPool says of them, which ThreadPool implements.                     *)
(***************************************************************************)
EXTENDS Integers, SequencesExt

CONSTANTS Articles, List,
          kFeedsPoolSize, kArticlesPoolSize

ASSUME PoolsAssumption ==
  /\ kFeedsPoolSize \in Nat \ {0} /\ kArticlesPoolSize \in Nat \ {0}
  /\ List \in Seq(Seq(Articles))

Feeds == DOMAIN List
Items == UNION {{f} \X DOMAIN List[f] : f \in Feeds}   \* structs Article, as listed
UrlOf(item) == List[item[1]][item[2]]

VARIABLES
  pc, next,                     \* processAllFeeds, and the next feed to schedule
  fpc, fnext,                   \* processarFeed, and the next article to schedule
  apc, words,                   \* processarArtigo, and what it read of the index
  index, mutexIndex,            \* is mutexIndex locked?
  heap,                         \* the structs Article allocated
  fpending, frunning, ffinished, fstate, fprior,        \* feedsPool
  apending, arunning, afinished, astate, aprior         \* articlesPool

feedsPool    == <<fpending, frunning, ffinished, fstate, fprior>>
articlesPool == <<apending, arunning, afinished, astate, aprior>>
pools        == <<feedsPool, articlesPool>>
shared       == <<index, mutexIndex, heap>>
vars         == <<pc, next, fpc, fnext, apc, words, shared, pools>>

FeedsPool == INSTANCE TaskPool WITH
  Tasks <- Feeds, numThreads <- kFeedsPoolSize, pending <- fpending,
  running <- frunning, finished <- ffinished, state <- fstate, prior <- fprior
ArticlesPool == INSTANCE TaskPool WITH
  Tasks <- Items, numThreads <- kArticlesPoolSize, pending <- apending,
  running <- arunning, finished <- afinished, state <- astate, prior <- aprior

MainPC == {"schedule", "waitFeeds", "joinFeeds", "waitArticles", "joinArticles",
           "destroy", "queryIndex", "undefined"}
FeedPC == {"idle", "parse", "schedule", "return", "done"}
ArticlePC == {"idle", "parse", "lock", "add", "free", "return", "done"}

TypeOK ==
  /\ pc \in MainPC /\ next \in Nat
  /\ fpc \in [Feeds -> FeedPC] /\ fnext \in [Feeds -> Nat]
  /\ apc \in [Items -> ArticlePC] /\ words \in [Items -> Nat]
  /\ index \in [Articles -> Nat] /\ mutexIndex \in BOOLEAN
  /\ heap \subseteq Items

Init ==
  /\ pc = "schedule" /\ next = 1
  /\ fpc = [f \in Feeds |-> "idle"] /\ fnext = [f \in Feeds |-> 1]
  /\ apc = [it \in Items |-> "idle"] /\ words = [it \in Items |-> 0]
  /\ index = [a \in Articles |-> 0] /\ mutexIndex = FALSE /\ heap = {}
  /\ FeedsPool!Init /\ ArticlesPool!Init

-------------------------------------------------------------------------------
(* processAllFeeds *)

Goto(from, to) == pc = from /\ pc' = to

Schedule ==
  /\ pc = "schedule"
  /\ \/ /\ next \in Feeds /\ FeedsPool!Submit(next)
        /\ next' = next + 1 /\ UNCHANGED pc
     \/ /\ next \notin Feeds /\ pc' = "waitFeeds"
        /\ UNCHANGED <<next, feedsPool>>
  /\ UNCHANGED <<fpc, fnext, apc, words, shared, articlesPool>>

\* Both waits: close the pool, then return. wait() on a pool that never got a
\* function may crash or block.
WaitArticlesFirst ==                                      \* mutant
  \/ Goto("waitFeeds", "joinFeeds") /\ ArticlesPool!Close /\ UNCHANGED feedsPool
  \/ Goto("joinFeeds", "waitArticles") /\ ArticlesPool!Return /\ UNCHANGED feedsPool
  \/ Goto("waitArticles", "joinArticles") /\ FeedsPool!Close /\ UNCHANGED articlesPool
  \/ Goto("joinArticles", "destroy") /\ FeedsPool!Return /\ UNCHANGED articlesPool
Waits ==
  \/ Goto("waitFeeds", "joinFeeds") /\ FeedsPool!Close /\ UNCHANGED articlesPool
  \/ Goto("joinFeeds", "waitArticles") /\ FeedsPool!Return /\ UNCHANGED articlesPool
  \/ Goto("waitArticles", "joinArticles") /\ ArticlesPool!Close /\ UNCHANGED feedsPool
  \/ Goto("joinArticles", "destroy") /\ ArticlesPool!Return /\ UNCHANGED feedsPool

Unused ==
  /\ <<pc, {}>> \in {<<"joinFeeds", fprior>>, <<"joinArticles", aprior>>}
  /\ pc' = "undefined"

Wait ==
  /\ Waits \/ (Unused /\ UNCHANGED pools)
  /\ UNCHANGED <<next, fpc, fnext, apc, words, shared>>

\* The mutexes are destroyed, and main goes on to queryIndex.
Destroy ==
  /\ Goto("destroy", "queryIndex")
  /\ UNCHANGED <<next, fpc, fnext, apc, words, shared, pools>>

ProcessAllFeeds == Schedule \/ Wait \/ Destroy

-------------------------------------------------------------------------------
(* processarFeed(f) *)

BeginFeed(f) ==
  /\ \E k \in DOMAIN fpending : fpending[k] = f /\ FeedsPool!Begin(k)
  /\ fpc' = [fpc EXCEPT ![f] = "parse"]
  /\ UNCHANGED <<pc, next, fnext, apc, words, shared, articlesPool>>

FGoto(f, from, to) == fpc[f] = from /\ fpc' = [fpc EXCEPT ![f] = to]

HasArticles(f) == List[f] # <<>>

Reschedule(f) ==                                          \* mutant
  /\ FGoto(f, "parse", "idle")
  /\ fpending' = Append(fpending, f) /\ frunning' = frunning \ {f}
  /\ UNCHANGED <<ffinished, fstate, fprior>>
\* A feed that cannot be parsed and one without articles return at once.
GiveUp(f) == FGoto(f, "parse", "return") /\ UNCHANGED feedsPool

ParseFeed(f) ==
  /\ \/ HasArticles(f) /\ FGoto(f, "parse", "schedule") /\ UNCHANGED feedsPool
     \/ GiveUp(f)
  /\ UNCHANGED <<pc, next, fnext, apc, words, shared, articlesPool>>

InVector(it) == heap' = heap                              \* mutant
Allocate(it) == heap' = heap \cup {it}

ScheduleArticle(f) ==
  /\ fpc[f] = "schedule"
  /\ Allocate(<<f, fnext[f]>>)
  /\ ArticlesPool!Submit(<<f, fnext[f]>>)
  /\ fnext' = [fnext EXCEPT ![f] = @ + 1]
  /\ fpc' = [fpc EXCEPT ![f] = IF fnext[f] = Len(List[f]) THEN "return" ELSE @]
  /\ UNCHANGED <<pc, next, apc, words, index, mutexIndex, feedsPool>>

ReturnFeed(f) ==
  /\ FGoto(f, "return", "done") /\ FeedsPool!Finish(f)
  /\ UNCHANGED <<pc, next, fnext, apc, words, shared, articlesPool>>

ProcessarFeed(f) == ParseFeed(f) \/ ScheduleArticle(f) \/ ReturnFeed(f)

-------------------------------------------------------------------------------
(* processarArtigo(it) *)

AGoto(it, from, to) == apc[it] = from /\ apc' = [apc EXCEPT ![it] = to]

BeginArticle(it) ==
  /\ \E k \in DOMAIN apending : apending[k] = it /\ ArticlesPool!Begin(k)
  /\ AGoto(it, "idle", "parse")
  /\ UNCHANGED <<pc, next, fpc, fnext, words, shared, feedsPool>>

\* An article that cannot be parsed returns without freeing its struct.
ParseArticle(it) ==
  /\ AGoto(it, "parse", "lock") \/ AGoto(it, "parse", "return")
  /\ UNCHANGED <<pc, next, fpc, fnext, words, shared, pools>>

LockForgotten == TRUE                                     \* mutant
LockFree == ~mutexIndex

\* index.add reads the counters of the index and writes them.
LockIndex(it) ==
  /\ LockFree /\ mutexIndex' = TRUE
  /\ AGoto(it, "lock", "add") /\ words' = [words EXCEPT ![it] = index[UrlOf(it)]]
  /\ UNCHANGED <<pc, next, fpc, fnext, index, heap, pools>>

AddToIndex(it) ==
  /\ AGoto(it, "add", "free")
  /\ index' = [index EXCEPT ![UrlOf(it)] = words[it] + 1]
  /\ mutexIndex' = FALSE
  /\ UNCHANGED <<pc, next, fpc, fnext, words, heap, pools>>

Free(it) ==
  /\ AGoto(it, "free", "return") /\ heap' = heap \ {it}
  /\ UNCHANGED <<pc, next, fpc, fnext, words, index, mutexIndex, pools>>

ReturnArticle(it) ==
  /\ AGoto(it, "return", "done") /\ ArticlesPool!Finish(it)
  /\ UNCHANGED <<pc, next, fpc, fnext, words, shared, feedsPool>>

ProcessarArtigo(it) ==
  \/ ParseArticle(it) \/ LockIndex(it) \/ AddToIndex(it)
  \/ Free(it) \/ ReturnArticle(it)

-------------------------------------------------------------------------------
Terminated == pc \in {"queryIndex", "undefined"} /\ UNCHANGED vars

Next ==
  \/ ProcessAllFeeds
  \/ \E f \in Feeds : BeginFeed(f) \/ ProcessarFeed(f)
  \/ \E it \in Items : BeginArticle(it) \/ ProcessarArtigo(it)
  \/ Terminated

Spec == Init /\ [][Next]_vars

\* What ThreadPool's PushedIsExecuted and WaitReturns give: functions begin, and
\* wait() returns; every download ends, with its page or with an error.
Fairness ==
  /\ WF_vars(ProcessAllFeeds)
  /\ \A f \in Feeds : WF_vars(BeginFeed(f)) /\ WF_vars(ProcessarFeed(f))
  /\ \A it \in Items :
       /\ WF_vars(BeginArticle(it)) /\ WF_vars(ParseArticle(it))
       /\ SF_vars(LockIndex(it))
       /\ WF_vars(AddToIndex(it) \/ Free(it) \/ ReturnArticle(it))

FairSpec == Spec /\ Fairness

-------------------------------------------------------------------------------
(* Properties *)

\* An article's struct outlives the call of processarFeed that found it, whose
\* vector is gone when processarArtigo runs (lines 228-236), until it is freed.
ArticlesAlive ==
  \A it \in Items :
    apc[it] \in {"parse", "lock", "add", "free"} \/ it \in Range(apending)
      => it \in heap

\* No article is scheduled on a pool that wait() has closed, where it might be
\* dropped: articlesPool.wait() follows feedsPool.wait() (lines 156-158). At the
\* end no function of either pool is left to use the mutexes that processAllFeeds
\* destroys, the feed's URL in its local map, or the index that main queries.
ArticlesScheduledInTime ==
  /\ TypeOK
  /\ astate # "open" => fpending = <<>> /\ frunning = {}
  /\ pc \in {"destroy", "queryIndex"} => apending = <<>> /\ arunning = {}

\* The index is complete and exact when main queries it, and no article is added
\* to it more often than feeds list it, although the threads share it.
Parsed(f) == fpc[f] \in {"schedule", "return", "done"}
Found(f)  == fpc[f] = "schedule" \/ fnext[f] > 1
Aggregator == INSTANCE NewsAggregator WITH
  todo  <- {<<f, 0>> : f \in {g \in Feeds : ~Parsed(g)}}
             \cup {it \in Items : Found(it[1]) /\ apc[it] \in {"idle", "parse"}},
  parsed <- {it \in Items : apc[it] \in {"lock", "add"}},
  phase <- IF pc = "queryIndex" THEN "querying" ELSE "indexing"
ImplementsAggregator == Aggregator!Spec

\* Main comes to query the index, if every pool was used.
Queries == <>(pc \in {"queryIndex", "undefined"})
===============================================================================
