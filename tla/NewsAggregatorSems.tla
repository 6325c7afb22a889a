--------------------------- MODULE NewsAggregatorSems ---------------------------
(***************************************************************************)
(* The news aggregator of assignment 4: a thread for each feed and for     *)
(* each article, limited by a semaphore for feeds, one for articles and    *)
(* one for the connections of each feed to its server. The latter are in a *)
(* map from servers to semaphores, which the threads share without a lock. *)
(***************************************************************************)
EXTENDS Integers, FiniteSets, SequencesExt

CONSTANTS Articles, List, Servers,
          FeedsDown, ArtigosDown, Conexoes,   \* 10, 32 and 6 in the code
          NULL

ASSUME SemsAssumption ==
  /\ {FeedsDown, ArtigosDown, Conexoes} \subseteq Nat \ {0}
  /\ List \in Seq(Seq(Articles))
  /\ NULL \notin DOMAIN List

Feeds == DOMAIN List
Items == UNION {{f} \X DOMAIN List[f] : f \in Feeds}

VARIABLES
  server,                       \* getURLServer of each article's URL
  pc, next,                     \* processAllFeeds, and the next feed
  fpc, fnext,                   \* processarFeed, and the next article
  apc, conexao,                 \* processarArtigo, and the semaphore it found
  sem_feedsDown, sem_artigosDown,
  sem_conexoes,                 \* the one each feed allocates
  servidorConexoes,             \* the map, to the feed whose semaphore it is
  index,
  undefined                     \* after undefined behaviour anything happens

main == <<server, undefined, pc, next>>
sems == <<sem_feedsDown, sem_artigosDown, sem_conexoes>>
vars == <<main, fpc, fnext, apc, conexao, sems, servidorConexoes, index>>

UrlOf(it)    == List[it[1]][it[2]]
Servidor(it) == server[UrlOf(it)]
ServidorOfFeed(f) == Servidor(<<f, 1>>)

Init ==
  /\ server \in [Articles -> Servers]
  /\ pc = "create" /\ next = 1
  /\ fpc = [f \in Feeds |-> "idle"] /\ fnext = [f \in Feeds |-> 1]
  /\ apc = [it \in Items |-> "idle"] /\ conexao = [it \in Items |-> NULL]
  /\ sem_feedsDown = FeedsDown /\ sem_artigosDown = ArtigosDown
  /\ sem_conexoes = [f \in Feeds |-> 0]
  /\ servidorConexoes = [s \in Servers |-> NULL]
  /\ index = [a \in Articles |-> 0] /\ undefined = FALSE

-------------------------------------------------------------------------------
(* processAllFeeds: a thread for each feed, all joined before the queries *)

CreateFeed ==
  /\ pc = "create" /\ next \in Feeds
  /\ sem_feedsDown > 0 /\ sem_feedsDown' = sem_feedsDown - 1
  /\ fpc' = [fpc EXCEPT ![next] = "parse"] /\ next' = next + 1
  /\ UNCHANGED <<server, undefined, pc, fnext, apc, conexao, sem_artigosDown,
                 sem_conexoes, servidorConexoes, index>>

LastNotJoined == \A f \in Feeds : f = Len(List) \/ fpc[f] = "done"   \* mutant
AllJoined == \A f \in Feeds : fpc[f] = "done"

JoinFeeds ==
  /\ pc = "create" /\ next \notin Feeds /\ AllJoined /\ pc' = "queryIndex"
  /\ UNCHANGED <<server, undefined, next, fpc, fnext, apc, conexao, sems,
                 servidorConexoes, index>>

ProcessAllFeeds == CreateFeed \/ JoinFeeds

-------------------------------------------------------------------------------
(* processarFeed(f) *)

FGoto(f, from, to) ==
  fpc[f] = from /\ fpc' = [fpc EXCEPT ![f] = to] /\ UNCHANGED <<main, conexao, index>>

ReturnAtOnce(f) == FGoto(f, "parse", "done")              \* mutant
\* A feed that cannot be parsed or is empty only posts sem_feedsDown.
GiveUp(f) == FGoto(f, "parse", "post")

ParseFeed(f) ==
  /\ (List[f] # <<>> /\ FGoto(f, "parse", "insert")) \/ GiveUp(f)
  /\ UNCHANGED <<fnext, apc, sems, servidorConexoes>>

\* insert() leaves an entry that is there already as it is.
Insert(f) ==
  /\ FGoto(f, "insert", "createArticles")
  /\ sem_conexoes' = [sem_conexoes EXCEPT ![f] = Conexoes]
  /\ servidorConexoes' =
       [servidorConexoes EXCEPT ![ServidorOfFeed(f)] = IF @ = NULL THEN f ELSE @]
  /\ UNCHANGED <<fnext, apc, sem_feedsDown, sem_artigosDown>>

WaitConexoes(f) ==
  /\ FGoto(f, "createArticles", "waitArtigos")
  /\ sem_conexoes[f] > 0 /\ sem_conexoes' = [sem_conexoes EXCEPT ![f] = @ - 1]
  /\ UNCHANGED <<fnext, apc, sem_feedsDown, sem_artigosDown, servidorConexoes>>

MoreArticles(f) == fnext[f] < Len(List[f])

CreateArticle(f) ==
  /\ FGoto(f, "waitArtigos", IF MoreArticles(f) THEN "createArticles" ELSE "join")
  /\ sem_artigosDown > 0 /\ sem_artigosDown' = sem_artigosDown - 1
  /\ apc' = [apc EXCEPT ![<<f, fnext[f]>>] = "parse"]
  /\ fnext' = [fnext EXCEPT ![f] = @ + 1]
  /\ UNCHANGED <<sem_feedsDown, sem_conexoes, servidorConexoes>>

JoinArticles(f) ==
  /\ FGoto(f, "join", "erase") /\ \A k \in DOMAIN List[f] : apc[<<f, k>>] = "done"
  /\ UNCHANGED <<fnext, apc, sems, servidorConexoes>>

DeleteFirst(f) ==                                         \* mutant
  \/ FGoto(f, "erase", "delete") /\ UNCHANGED servidorConexoes
  \/ /\ FGoto(f, "delete", "post")
     /\ servidorConexoes' = [servidorConexoes EXCEPT ![ServidorOfFeed(f)] = NULL]
\* The entry of the server is erased, whosever it is, then the feed's semaphore
\* is deleted.
EraseAndDelete(f) ==
  \/ /\ FGoto(f, "erase", "delete")
     /\ servidorConexoes' = [servidorConexoes EXCEPT ![ServidorOfFeed(f)] = NULL]
  \/ FGoto(f, "delete", "post") /\ UNCHANGED servidorConexoes

Release(f) ==
  /\ EraseAndDelete(f)
  /\ UNCHANGED <<fnext, apc, sems>>

PostFeed(f) ==
  /\ FGoto(f, "post", "done") /\ sem_feedsDown' = sem_feedsDown + 1
  /\ UNCHANGED <<fnext, apc, sem_artigosDown, sem_conexoes, servidorConexoes>>

ProcessarFeed(f) ==
  \/ ParseFeed(f) \/ Insert(f) \/ WaitConexoes(f) \/ CreateArticle(f)
  \/ JoinArticles(f) \/ Release(f) \/ PostFeed(f)

-------------------------------------------------------------------------------
(* processarArtigo(it) *)

AGoto(it, from, to) ==
  /\ apc[it] = from /\ apc' = [apc EXCEPT ![it] = to]
  /\ UNCHANGED <<main, fpc, fnext, sem_feedsDown, servidorConexoes>>

SkipPost(it) == AGoto(it, "parse", "postArtigos")         \* mutant
GiveUpArticle(it) == AGoto(it, "parse", "find")

ParseArticle(it) ==
  /\ AGoto(it, "parse", "add") \/ GiveUpArticle(it)
  /\ UNCHANGED <<conexao, sem_artigosDown, sem_conexoes, index>>

\* One step: nothing else is done under mut_index.
AddToIndex(it) ==
  /\ AGoto(it, "add", "find") /\ index' = [index EXCEPT ![UrlOf(it)] = @ + 1]
  /\ UNCHANGED <<conexao, sem_artigosDown, sem_conexoes>>

\* The first find: without an entry it reads what lies behind the map's end, and
\* goes on if that happens to be 0.
Find(it) ==
  /\ \/ AGoto(it, "find", "findAgain") /\ servidorConexoes[Servidor(it)] # NULL
     \/ AGoto(it, "find", "postArtigos") /\ servidorConexoes[Servidor(it)] = NULL
  /\ UNCHANGED <<conexao, sem_artigosDown, sem_conexoes, index>>

\* The second find, whose semaphore is posted.
FindAgain(it) ==
  /\ AGoto(it, "findAgain", "post") /\ servidorConexoes[Servidor(it)] # NULL
  /\ conexao' = [conexao EXCEPT ![it] = servidorConexoes[Servidor(it)]]
  /\ UNCHANGED <<sem_artigosDown, sem_conexoes, index>>

Deleted(f) == fpc[f] \in {"post", "done"}

PostConexao(it) ==
  /\ AGoto(it, "post", "postArtigos") /\ ~Deleted(conexao[it])
  /\ sem_conexoes' = [sem_conexoes EXCEPT ![conexao[it]] = @ + 1]
  /\ UNCHANGED <<conexao, sem_artigosDown, index>>

PostArtigos(it) ==
  /\ AGoto(it, "postArtigos", "done") /\ sem_artigosDown' = sem_artigosDown + 1
  /\ UNCHANGED <<conexao, sem_conexoes, index>>

ProcessarArtigo(it) ==
  \/ ParseArticle(it) \/ AddToIndex(it) \/ Find(it) \/ FindAgain(it)
  \/ PostConexao(it) \/ PostArtigos(it)

-------------------------------------------------------------------------------
(* Undefined behaviour *)

Undefined ==
  /\ undefined' = TRUE
  /\ UNCHANGED <<server, pc, next, fpc, fnext, apc, conexao, sems, servidorConexoes,
                 index>>

\* A thread inserts or erases while another inserts, erases or looks up.
DataRace ==
  /\ \E f \in Feeds :
       /\ fpc[f] \in {"insert", "erase"}
       /\ \/ \E g \in Feeds \ {f} : fpc[g] \in {"insert", "erase"}
          \/ \E it \in Items : apc[it] \in {"find", "findAgain"}
  /\ Undefined

\* What end() refers to is used as a semaphore, or a deleted one is posted.
WildPointer(it) ==
  /\ \/ apc[it] \in {"find", "findAgain"} /\ servidorConexoes[Servidor(it)] = NULL
     \/ apc[it] = "post" /\ Deleted(conexao[it])
  /\ Undefined

Ended == pc = "queryIndex" \/ undefined

Next ==
  \/ /\ ~undefined
     /\ \/ ProcessAllFeeds
        \/ \E f \in Feeds : ProcessarFeed(f)
        \/ \E it \in Items : ProcessarArtigo(it) \/ WildPointer(it)
        \/ DataRace
  \/ Ended /\ UNCHANGED vars

Spec == Init /\ [][Next]_vars

\* The kernel runs every thread that does not wait, and every download ends.
Fairness ==
  /\ WF_vars(~undefined /\ ProcessAllFeeds)
  /\ \A f \in Feeds : WF_vars(~undefined /\ ProcessarFeed(f))
  /\ \A it \in Items : WF_vars(~undefined /\ (ProcessarArtigo(it) \/ WildPointer(it)))

FairSpec == Spec /\ Fairness

-------------------------------------------------------------------------------
(* Properties *)

FeedPC == {"idle", "parse", "insert", "createArticles", "waitArtigos", "join",
           "erase", "delete", "post", "done"}
ArticlePC == {"idle", "parse", "add", "find", "findAgain", "post", "postArtigos",
              "done"}

TypeOK ==
  /\ server \in [Articles -> Servers]
  /\ pc \in {"create", "queryIndex"} /\ next \in 1 .. Len(List) + 1
  /\ fpc \in [Feeds -> FeedPC]
  /\ \A f \in Feeds : fnext[f] \in 1 .. Len(List[f]) + 1
  /\ apc \in [Items -> ArticlePC] /\ conexao \in [Items -> Feeds \cup {NULL}]
  /\ sem_feedsDown \in Nat /\ sem_artigosDown \in Nat
  /\ sem_conexoes \in [Feeds -> Nat]
  /\ servidorConexoes \in [Servers -> Feeds \cup {NULL}]
  /\ index \in [Articles -> Nat] /\ undefined \in BOOLEAN

FeedThreads    == {f \in Feeds : fpc[f] \notin {"idle", "done"}}
ArticleThreads == {it \in Items : apc[it] \notin {"idle", "done"}}

\* Whatever fails, each thread gives back its permit for feeds or for articles,
\* and only once.
PermitsConserved ==
  /\ sem_feedsDown + Cardinality(FeedThreads) = FeedsDown
  /\ sem_artigosDown + Cardinality(ArticleThreads) = ArtigosDown

\* What the code takes for granted: the articles of a feed are on one server, and
\* no other feed has articles there.
OwnServers ==
  \A it, jt \in Items : it[1] = jt[1] <=> Servidor(it) = Servidor(jt)

\* Then each feed's semaphore counts the articles it is connected for, so that
\* there are at most Conexoes, although they post it by way of the map.
Connected(f) == {it \in Items : it[1] = f /\ apc[it] \notin {"idle", "postArtigos", "done"}}
ConnectionsConserved ==
  OwnServers =>
    \A f \in Feeds :
      fpc[f] \in {"createArticles", "waitArtigos", "join"} =>
        sem_conexoes[f] + Cardinality(Connected(f))
          + (IF fpc[f] = "waitArtigos" THEN 1 ELSE 0) = Conexoes

\* The map never holds a deleted semaphore, even when feeds share a server and
\* one of them erases the entry of the other (lines 252-254).
MapHoldsLive ==
  \A f \in Range(servidorConexoes) \ {NULL} :
    fpc[f] \in {"createArticles", "waitArtigos", "join", "erase"}

\* The aggregator implements NewsAggregator, as long as it is defined: every
\* article that could be parsed is in the index once when main queries it.
Aggregator == INSTANCE NewsAggregator WITH
  todo   <- {<<f, 0>> : f \in {g \in Feeds : fpc[g] \in {"idle", "parse"}}}
              \cup {it \in Items : apc[it] = "parse"}
              \cup {it \in Items : apc[it] = "idle" /\
                     fpc[it[1]] \in {"insert", "createArticles", "waitArtigos"}},
  parsed <- {it \in Items : apc[it] = "add"},
  phase  <- IF pc = "queryIndex" THEN "querying" ELSE "indexing"
ImplementsAggregator == Aggregator!Spec

\* Main comes to query the index when feeds keep to their own servers.
Queries == OwnServers => <>Ended

\* news-aggregator.cc:4-7: it indexes every article "and then allows the user to
\* query the index": but not when two feeds share a server, each of them within
\* its own.
OneServerEach ==
  \A it, jt \in Items : it[1] = jt[1] => Servidor(it) = Servidor(jt)
QueriesSharedServer == OneServerEach => <>Ended
===============================================================================
