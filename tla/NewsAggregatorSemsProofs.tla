------------------------ MODULE NewsAggregatorSemsProofs ------------------------
(***************************************************************************)
(* Proofs about NewsAggregatorSems for any feeds, articles, servers and    *)
(* numbers of permits.                                                     *)
(***************************************************************************)
EXTENDS NewsAggregatorSems, FiniteSetTheorems, TLAPS

-------------------------------------------------------------------------------
(* Types *)

\* A feed has no thread before its turn, and its articles none before theirs.
Turns ==
  /\ \A f \in Feeds : f >= next => fpc[f] = "idle"
  /\ fnext \in [Feeds -> Nat]
  /\ \A f \in Feeds :
       /\ fpc[f] \in {"idle", "parse", "insert"} => fnext[f] = 1
       /\ fpc[f] \in {"insert", "createArticles", "waitArtigos"} =>
            fnext[f] \in DOMAIN List[f]
  /\ \A it \in Items : it[2] >= fnext[it[1]] => apc[it] = "idle"

TypeInv == TypeOK /\ Turns

LEMMA Lists ==
  /\ Feeds = 1 .. Len(List) /\ Len(List) \in Nat
  /\ \A f \in Feeds : /\ Len(List[f]) \in Nat /\ DOMAIN List[f] = 1 .. Len(List[f])
                      /\ List[f] \in Seq(Articles)
  BY SemsAssumption DEF Feeds

LEMMA ItemsOf ==
  /\ \A f \in Feeds : \A k \in DOMAIN List[f] : <<f, k>> \in Items
  /\ \A it \in Items : /\ it[1] \in Feeds /\ it[2] \in DOMAIN List[it[1]]
                       /\ it = <<it[1], it[2]>> /\ UrlOf(it) \in Articles
  <1>1. \A f \in Feeds : \A k \in DOMAIN List[f] : <<f, k>> \in Items
    BY DEF Items
  <1>2. ASSUME NEW it \in Items
        PROVE  /\ it[1] \in Feeds /\ it[2] \in DOMAIN List[it[1]]
               /\ it = <<it[1], it[2]>> /\ UrlOf(it) \in Articles
    <2>1. PICK f \in Feeds : it \in {f} \X DOMAIN List[f]
      BY DEF Items
    <2>2. it[1] = f /\ it[2] \in DOMAIN List[f] /\ it = <<it[1], it[2]>>
      BY <2>1
    <2> QED
      BY <2>2, Lists DEF UrlOf
  <1> QED
    BY <1>1, <1>2

LEMMA TypeInvInit == Init => TypeInv
  <1> SUFFICES ASSUME Init PROVE TypeOK /\ Turns
    BY DEF TypeInv
  <1>1. TypeOK
    <2>1. /\ fpc \in [Feeds -> FeedPC] /\ apc \in [Items -> ArticlePC]
          /\ pc \in {"create", "queryIndex"} /\ next \in 1 .. Len(List) + 1
      BY Lists DEF Init, FeedPC, ArticlePC
    <2>2. \A f \in Feeds : fnext[f] \in 1 .. Len(List[f]) + 1
      BY Lists DEF Init
    <2>3. /\ conexao \in [Items -> Feeds \cup {NULL}]
          /\ sem_feedsDown \in Nat /\ sem_artigosDown \in Nat
          /\ sem_conexoes \in [Feeds -> Nat]
          /\ servidorConexoes \in [Servers -> Feeds \cup {NULL}]
      BY SemsAssumption DEF Init
    <2> QED
      BY <2>1, <2>2, <2>3 DEF Init, TypeOK
  <1>2. Turns
    BY Lists DEF Init, Turns
  <1> QED
    BY <1>1, <1>2

LEMMA TypeInvFeed ==
  ASSUME TypeInv, NEW f \in Feeds, ProcessarFeed(f)
  PROVE  TypeInv'
  <1> USE DEF TypeInv, TypeOK, Turns, FeedPC, FGoto, main, sems
  <1>1. CASE ParseFeed(f)
    <2>1. List[f] # <<>> => 1 \in DOMAIN List[f]
      BY Lists
    <2> QED
      BY <1>1, <2>1 DEF ParseFeed, GiveUp
  <1>2. CASE Insert(f)
    BY <1>2, SemsAssumption DEF Insert
  <1>3. CASE WaitConexoes(f)
    BY <1>3 DEF WaitConexoes
  <1>4. CASE CreateArticle(f)
    <2>1. fnext[f] \in 1 .. Len(List[f]) /\ Len(List[f]) \in Nat
      BY <1>4, Lists DEF CreateArticle
    <2>2. TypeOK'
      <3>1. apc' \in [Items -> ArticlePC]
        BY <1>4 DEF CreateArticle, ArticlePC
      <3>2. fpc' \in [Feeds -> FeedPC] /\ sem_artigosDown' \in Nat
        BY <1>4 DEF CreateArticle
      <3>3. \A g \in Feeds : fnext'[g] \in 1 .. Len(List[g]) + 1
        BY <1>4, <2>1 DEF CreateArticle
      <3> QED
        BY <1>4, <3>1, <3>2, <3>3 DEF CreateArticle
    <2>3. Turns'
      <3>1. /\ fnext' \in [Feeds -> Nat] /\ next' = next
            /\ \A g \in Feeds : g >= next => fpc'[g] = "idle"
        BY <1>4 DEF CreateArticle
      <3>2. ASSUME NEW g \in Feeds
            PROVE  /\ fpc'[g] \in {"idle", "parse", "insert"} => fnext'[g] = 1
                   /\ fpc'[g] \in {"insert", "createArticles", "waitArtigos"} =>
                        fnext'[g] \in DOMAIN List[g]
        <4>1. CASE g # f
          BY <1>4, <4>1 DEF CreateArticle
        <4>2. CASE g = f
          <5>1. fnext'[f] = fnext[f] + 1 /\ fpc'[f] \in {"createArticles", "join"}
            BY <1>4 DEF CreateArticle
          <5>2. fpc'[f] = "createArticles" => fnext[f] < Len(List[f])
            BY <1>4 DEF CreateArticle, MoreArticles
          <5>3. DOMAIN List[f] = 1 .. Len(List[f])
            BY Lists
          <5> QED
            BY <4>2, <5>1, <5>2, <5>3, <2>1
        <4> QED
          BY <4>1, <4>2
      <3>3. ASSUME NEW it \in Items, it[2] >= fnext'[it[1]]
            PROVE  apc'[it] = "idle"
        <4>1. it[1] \in Feeds /\ it[2] \in Nat /\ it = <<it[1], it[2]>>
          <5>1. it[1] \in Feeds /\ it[2] \in DOMAIN List[it[1]] /\ it = <<it[1], it[2]>>
            BY ItemsOf, Zenon
          <5>2. \A g \in Feeds : \A k \in DOMAIN List[g] : k \in Nat
            <6>1. \A g \in Feeds : DOMAIN List[g] = 1 .. Len(List[g])
              BY Lists, Zenon
            <6>2. QED  BY <6>1
          <5>3. QED  BY <5>1, <5>2, Zenon
        <4>2. it[2] >= fnext[it[1]] /\ it # <<f, fnext[f]>>
          <5>1. /\ fnext[f] \in Nat /\ fnext'[f] = fnext[f] + 1
                /\ \A g \in Feeds : g # f => fnext'[g] = fnext[g]
            <6>1. fnext' = [fnext EXCEPT ![f] = @ + 1]
              BY <1>4 DEF CreateArticle
            <6>2. fnext \in [Feeds -> Nat]
              OBVIOUS
            <6>3. QED  BY <6>1, <6>2
          <5>2. CASE it[1] = f
            <6>1. it[2] >= fnext[f] + 1
              BY <3>3, <5>1, <5>2
            <6>2. it[2] # fnext[f] /\ it[2] >= fnext[f]
              BY <4>1, <5>1, <6>1
            <6>3. QED  BY <4>1, <5>2, <6>2
          <5>3. CASE it[1] # f
            BY <3>3, <4>1, <5>1, <5>3
          <5>4. QED  BY <5>2, <5>3
        <4> QED
          BY <1>4, <4>2 DEF CreateArticle
      <3> QED
        BY <3>1, <3>2, <3>3
    <2> QED
      BY <2>2, <2>3
  <1>5. CASE JoinArticles(f)
    BY <1>5 DEF JoinArticles
  <1>6. CASE Release(f)
    BY <1>6 DEF Release, EraseAndDelete
  <1>7. CASE PostFeed(f)
    BY <1>7 DEF PostFeed
  <1> QED
    BY <1>1, <1>2, <1>3, <1>4, <1>5, <1>6, <1>7 DEF ProcessarFeed

LEMMA TypeInvArticle ==
  ASSUME TypeInv, NEW it \in Items, ProcessarArtigo(it)
  PROVE  TypeInv'
  <1> USE DEF TypeInv, TypeOK, Turns, ArticlePC, AGoto, main
  <1>1. CASE ParseArticle(it)
    BY <1>1 DEF ParseArticle, GiveUpArticle
  <1>2. CASE AddToIndex(it)
    BY <1>2, ItemsOf DEF AddToIndex
  <1>3. CASE Find(it)
    BY <1>3 DEF Find
  <1>4. CASE FindAgain(it)
    <2>1. server[UrlOf(it)] \in Servers
      BY ItemsOf
    <2> QED
      BY <1>4, <2>1 DEF FindAgain, Servidor
  <1>5. CASE PostConexao(it)
    <2>1. PICK c : c = conexao[it]
      OBVIOUS
    <2>2. sem_conexoes' = [sem_conexoes EXCEPT ![c] = @ + 1]
      BY <1>5, <2>1 DEF PostConexao
    <2>3. sem_conexoes' \in [Feeds -> Nat]
      <3>1. DOMAIN sem_conexoes = Feeds /\ \A f \in Feeds : sem_conexoes[f] \in Nat
        OBVIOUS
      <3>2. \A f \in Feeds :
              sem_conexoes'[f] = IF f = c THEN sem_conexoes[f] + 1 ELSE sem_conexoes[f]
        BY <2>2, <3>1
      <3>3. sem_conexoes' = [f \in Feeds |-> sem_conexoes'[f]]
        BY <2>2, <3>1
      <3> HIDE <2>2
      <3> QED
        BY <3>1, <3>2, <3>3
    <2> QED
      BY <1>5, <2>3 DEF PostConexao
  <1>6. CASE PostArtigos(it)
    BY <1>6 DEF PostArtigos
  <1> QED
    BY <1>1, <1>2, <1>3, <1>4, <1>5, <1>6 DEF ProcessarArtigo

LEMMA TypeInvNext == TypeInv /\ [Next]_vars => TypeInv'
  <1> SUFFICES ASSUME TypeInv, [Next]_vars PROVE TypeInv'
    OBVIOUS
  <1>1. CASE CreateFeed
    BY <1>1, Lists DEF CreateFeed, TypeInv, TypeOK, Turns, FeedPC
  <1>2. CASE JoinFeeds
    BY <1>2 DEF JoinFeeds, TypeInv, TypeOK, Turns, sems
  <1>3. ASSUME NEW f \in Feeds, ProcessarFeed(f) PROVE TypeInv'
    BY <1>3, TypeInvFeed
  <1>4. ASSUME NEW it \in Items, ProcessarArtigo(it) PROVE TypeInv'
    BY <1>4, TypeInvArticle
  <1>5. CASE Undefined
    BY <1>5 DEF Undefined, TypeInv, TypeOK, Turns, sems
  <1>6. CASE UNCHANGED vars
    BY <1>6 DEF vars, main, sems, TypeInv, TypeOK, Turns
  <1> QED
    BY <1>1, <1>2, <1>3, <1>4, <1>5, <1>6
    DEF Next, ProcessAllFeeds, WildPointer, DataRace

\* Every variable keeps its type, whatever undefined behaviour ends the execution:
\* no semaphore is negative, and every article that gets a thread is in its feed's
\* vector.
THEOREM TypeCorrect == Spec => []TypeOK
  <1>1. Spec => []TypeInv
    BY TypeInvInit, TypeInvNext, PTL DEF Spec
  <1>2. TypeInv => TypeOK
    BY DEF TypeInv
  <1> QED
    BY <1>1, <1>2, PTL

-------------------------------------------------------------------------------
(* The map of semaphores *)

Live == {"createArticles", "waitArtigos", "join", "erase"}

\* The entry of a server holds the semaphore of a feed of that server, so that it
\* is the one which that feed erases.
MapInv ==
  \A s \in Servers : servidorConexoes[s] # NULL =>
    /\ ServidorOfFeed(servidorConexoes[s]) = s
    /\ fpc[servidorConexoes[s]] \in Live

LEMMA MapInvInit == Init => MapInv
  BY DEF Init, MapInv

\* A step of a feed that leaves the map alone and does not leave Live.
LEMMA SameMap ==
  ASSUME TypeOK, MapInv, NEW f \in Feeds, NEW from, NEW to,
         fpc[f] = from, fpc' = [fpc EXCEPT ![f] = to],
         UNCHANGED <<server, servidorConexoes>>,
         from \in Live => to \in Live
  PROVE  MapInv'
  BY DEF TypeOK, MapInv, ServidorOfFeed, Servidor

LEMMA MapInvFeed ==
  ASSUME TypeOK, MapInv, NEW f \in Feeds, ProcessarFeed(f)
  PROVE  MapInv'
  <1> USE DEF FGoto, main, Live
  <1>1. CASE ParseFeed(f)
    BY <1>1, SameMap DEF ParseFeed, GiveUp
  <1>2. CASE Insert(f)
    <2>1. /\ fpc[f] = "insert" /\ fpc' = [fpc EXCEPT ![f] = "createArticles"]
          /\ server' = server
          /\ servidorConexoes' = [servidorConexoes EXCEPT ![ServidorOfFeed(f)] =
                                    IF @ = NULL THEN f ELSE @]
      BY <1>2 DEF Insert
    <2>2. \A g : ServidorOfFeed(g)' = ServidorOfFeed(g)
      BY <2>1 DEF ServidorOfFeed, Servidor
    <2> QED
      BY <2>1, <2>2 DEF TypeOK, MapInv
  <1>3. CASE WaitConexoes(f)
    BY <1>3, SameMap DEF WaitConexoes
  <1>4. CASE CreateArticle(f)
    BY <1>4, SameMap DEF CreateArticle
  <1>5. CASE JoinArticles(f)
    BY <1>5, SameMap DEF JoinArticles
  <1>6. CASE Release(f)
    <2>1. CASE fpc[f] = "erase"
      <3>1. /\ fpc' = [fpc EXCEPT ![f] = "delete"] /\ server' = server
            /\ servidorConexoes' =
                 [servidorConexoes EXCEPT ![ServidorOfFeed(f)] = NULL]
        BY <1>6, <2>1 DEF Release, EraseAndDelete
      <3>2. \A g : ServidorOfFeed(g)' = ServidorOfFeed(g)
        BY <3>1 DEF ServidorOfFeed, Servidor
      <3> QED
        BY <2>1, <3>1, <3>2 DEF TypeOK, MapInv
    <2>2. CASE fpc[f] # "erase"
      BY <1>6, <2>2, SameMap DEF Release, EraseAndDelete
    <2> QED
      BY <2>1, <2>2
  <1>7. CASE PostFeed(f)
    BY <1>7, SameMap DEF PostFeed
  <1> QED
    BY <1>1, <1>2, <1>3, <1>4, <1>5, <1>6, <1>7 DEF ProcessarFeed

LEMMA MapInvNext == TypeInv /\ MapInv /\ [Next]_vars => MapInv'
  <1> SUFFICES ASSUME TypeInv, MapInv, [Next]_vars PROVE MapInv'
    OBVIOUS
  <1>1. CASE CreateFeed
    <2>1. fpc[next] = "idle" /\ fpc' = [fpc EXCEPT ![next] = "parse"]
      BY <1>1, Lists DEF CreateFeed, TypeInv, TypeOK, Turns
    <2> QED
      BY <1>1, <2>1
      DEF CreateFeed, TypeInv, TypeOK, MapInv, Live, ServidorOfFeed, Servidor
  <1>2. CASE JoinFeeds
    BY <1>2 DEF JoinFeeds, MapInv, ServidorOfFeed, Servidor
  <1>3. ASSUME NEW f \in Feeds, ProcessarFeed(f) PROVE MapInv'
    BY <1>3, MapInvFeed DEF TypeInv
  <1>4. ASSUME NEW it \in Items, ProcessarArtigo(it) PROVE MapInv'
    BY <1>4 DEF ProcessarArtigo, ParseArticle, GiveUpArticle, AddToIndex, Find,
                FindAgain, PostConexao, PostArtigos, AGoto, main, MapInv,
                ServidorOfFeed, Servidor
  <1>5. CASE Undefined
    BY <1>5 DEF Undefined, MapInv, ServidorOfFeed, Servidor
  <1>6. CASE UNCHANGED vars
    BY <1>6 DEF vars, main, MapInv, ServidorOfFeed, Servidor
  <1> QED
    BY <1>1, <1>2, <1>3, <1>4, <1>5, <1>6
    DEF Next, ProcessAllFeeds, WildPointer, DataRace

\* Lines 252-254: whatever feeds share a server, servidorConexoes never holds a
\* semaphore that its feed has deleted.
THEOREM MapCorrect == Spec => []MapHoldsLive
  <1>1. Spec => [](TypeInv /\ MapInv)
    BY TypeInvInit, TypeInvNext, MapInvInit, MapInvNext, PTL DEF Spec
  <1>2. TypeInv /\ MapInv => MapHoldsLive
    BY DEF TypeInv, TypeOK, MapInv, MapHoldsLive, Live, Range
  <1> QED
    BY <1>1, <1>2, PTL

-------------------------------------------------------------------------------
(* Permits *)

PermitsInv ==
  /\ IsFiniteSet(FeedThreads) /\ IsFiniteSet(ArticleThreads)
  /\ PermitsConserved

LEMMA PermitsInit == Init => PermitsInv
  <1> SUFFICES ASSUME Init PROVE PermitsInv
    OBVIOUS
  <1>1. FeedThreads = {} /\ ArticleThreads = {}
    BY DEF Init, FeedThreads, ArticleThreads
  <1> QED
    BY <1>1, FS_EmptySet, SemsAssumption DEF Init, PermitsInv, PermitsConserved

\* A permit is taken where a thread is created, and given back where it ends.
LEMMA Taken ==
  ASSUME NEW S, IsFiniteSet(S), NEW x, x \notin S, NEW n \in Nat, NEW k,
         n + Cardinality(S) = k
  PROVE  /\ IsFiniteSet(S \cup {x})
         /\ (n - 1) + Cardinality(S \cup {x}) = k
  <1>1. Cardinality(S) \in Nat
    BY FS_CardinalityType
  <1>2. IsFiniteSet(S \cup {x}) /\ Cardinality(S \cup {x}) = Cardinality(S) + 1
    BY FS_AddElement
  <1> QED
    BY <1>1, <1>2

LEMMA Returned ==
  ASSUME NEW S, IsFiniteSet(S), NEW x \in S, NEW n \in Nat, NEW k,
         n + Cardinality(S) = k
  PROVE  /\ IsFiniteSet(S \ {x})
         /\ (n + 1) + Cardinality(S \ {x}) = k
  <1>1. Cardinality(S) \in Nat
    BY FS_CardinalityType
  <1>2. IsFiniteSet(S \ {x}) /\ Cardinality(S \ {x}) = Cardinality(S) - 1
    BY FS_RemoveElement
  <1> QED
    BY <1>1, <1>2

LEMMA PermitsNext == TypeInv /\ PermitsInv /\ [Next]_vars => PermitsInv'
  <1> SUFFICES ASSUME TypeInv, PermitsInv, [Next]_vars PROVE PermitsInv'
    OBVIOUS
  <1> USE DEF TypeInv, TypeOK, PermitsInv, PermitsConserved
  \* Most steps take or give back nothing.
  <1>1. ASSUME FeedThreads' = FeedThreads, ArticleThreads' = ArticleThreads,
               UNCHANGED <<sem_feedsDown, sem_artigosDown>>
        PROVE  PermitsInv'
    BY <1>1
  <1>2. CASE CreateFeed
    <2>1. next \notin FeedThreads /\ FeedThreads' = FeedThreads \cup {next}
      BY <1>2, Lists DEF CreateFeed, Turns, FeedThreads
    <2>2. ArticleThreads' = ArticleThreads /\ UNCHANGED sem_artigosDown
      BY <1>2 DEF CreateFeed, ArticleThreads
    <2>3. sem_feedsDown' = sem_feedsDown - 1
      BY <1>2 DEF CreateFeed
    <2> QED
      BY <2>1, <2>2, <2>3, Taken
  <1>3. CASE JoinFeeds
    BY <1>1, <1>3 DEF JoinFeeds, FeedThreads, ArticleThreads, sems
  <1>4. ASSUME NEW f \in Feeds, ProcessarFeed(f) PROVE PermitsInv'
    <2>1. CASE ParseFeed(f) \/ JoinArticles(f) \/ Insert(f) \/ WaitConexoes(f)
               \/ Release(f)
      <3>1. FeedThreads' = FeedThreads
        BY <2>1 DEF ParseFeed, GiveUp, JoinArticles, Insert, WaitConexoes, Release,
                    EraseAndDelete, FGoto, FeedThreads
      <3>2. ArticleThreads' = ArticleThreads
        BY <2>1 DEF ParseFeed, JoinArticles, Insert, WaitConexoes, Release,
                    ArticleThreads
      <3>3. UNCHANGED <<sem_feedsDown, sem_artigosDown>>
        BY <2>1 DEF ParseFeed, JoinArticles, Insert, WaitConexoes, Release, sems
      <3> QED
        BY <1>1, <3>1, <3>2, <3>3
    <2>2. CASE CreateArticle(f)
      <3>1. PICK it \in Items : it = <<f, fnext[f]>>
        BY <2>2, ItemsOf DEF CreateArticle, FGoto, Turns
      <3>2. apc[it] = "idle" /\ apc' = [apc EXCEPT ![it] = "parse"]
        BY <2>2, <3>1 DEF CreateArticle, Turns
      <3>3. it \notin ArticleThreads /\ ArticleThreads' = ArticleThreads \cup {it}
        BY <3>2 DEF ArticleThreads
      <3>4. FeedThreads' = FeedThreads
        BY <2>2 DEF CreateArticle, FGoto, FeedThreads
      <3>5. sem_artigosDown' = sem_artigosDown - 1 /\ UNCHANGED sem_feedsDown
        BY <2>2 DEF CreateArticle
      <3> QED
        BY <3>3, <3>4, <3>5, Taken
    <2>3. CASE PostFeed(f)
      <3>1. f \in FeedThreads /\ FeedThreads' = FeedThreads \ {f}
        BY <2>3 DEF PostFeed, FGoto, FeedThreads
      <3>2. ArticleThreads' = ArticleThreads /\ UNCHANGED sem_artigosDown
        BY <2>3 DEF PostFeed, ArticleThreads
      <3>3. sem_feedsDown' = sem_feedsDown + 1
        BY <2>3 DEF PostFeed
      <3> QED
        BY <3>1, <3>2, <3>3, Returned
    <2> QED
      BY <1>4, <2>1, <2>2, <2>3 DEF ProcessarFeed
  <1>5. ASSUME NEW it \in Items, ProcessarArtigo(it) PROVE PermitsInv'
    <2>1. FeedThreads' = FeedThreads /\ UNCHANGED sem_feedsDown
      BY <1>5 DEF ProcessarArtigo, ParseArticle, GiveUpArticle, AddToIndex, Find,
                  FindAgain, PostConexao, PostArtigos, AGoto, FeedThreads
    <2>2. CASE PostArtigos(it)
      <3>1. it \in ArticleThreads /\ ArticleThreads' = ArticleThreads \ {it}
        BY <2>2 DEF PostArtigos, AGoto, ArticleThreads
      <3>2. sem_artigosDown' = sem_artigosDown + 1
        BY <2>2 DEF PostArtigos
      <3> QED
        BY <2>1, <3>1, <3>2, Returned
    <2>3. CASE ~PostArtigos(it)
      <3>1. ArticleThreads' = ArticleThreads /\ UNCHANGED sem_artigosDown
        BY <1>5, <2>3
        DEF ProcessarArtigo, ParseArticle, GiveUpArticle, AddToIndex, Find,
            FindAgain, PostConexao, AGoto, ArticleThreads
      <3> QED
        BY <1>1, <2>1, <3>1
    <2> QED
      BY <2>2, <2>3
  <1>6. CASE Undefined
    BY <1>1, <1>6 DEF Undefined, FeedThreads, ArticleThreads, sems
  <1>7. CASE UNCHANGED vars
    BY <1>1, <1>7 DEF vars, sems, FeedThreads, ArticleThreads
  <1> QED
    BY <1>2, <1>3, <1>4, <1>5, <1>6, <1>7
    DEF Next, ProcessAllFeeds, WildPointer, DataRace

\* For any limits: threads and free permits add up, so that at most FeedsDown feeds
\* and ArtigosDown articles are processed at once, and no failure loses a permit.
THEOREM PermitsCorrect == Spec => []PermitsConserved
  <1>1. Spec => [](TypeInv /\ PermitsInv)
    BY TypeInvInit, TypeInvNext, PermitsInit, PermitsNext, PTL DEF Spec
  <1>2. PermitsInv => PermitsConserved
    BY DEF PermitsInv
  <1> QED
    BY <1>1, <1>2, PTL

-------------------------------------------------------------------------------
(* Joining *)

\* A thread was created for each article before the feed's next, and the feed waits
\* for all of them before it erases its semaphore.
Joined ==
  \A it \in Items :
    /\ it[2] < fnext[it[1]] => apc[it] # "idle"
    /\ fpc[it[1]] = "join" => apc[it] # "idle"
    /\ fpc[it[1]] \in {"erase", "delete", "post", "done"} => apc[it] \in {"idle", "done"}

LEMMA JoinedInit == Init => Joined
  BY ItemsOf, Lists DEF Init, Joined

LEMMA JoinedFeed ==
  ASSUME TypeInv, Joined, NEW f \in Feeds, ProcessarFeed(f)
  PROVE  Joined'
  <1> USE DEF FGoto
  <1>1. fpc \in [Feeds -> FeedPC] /\ fnext \in [Feeds -> Nat] /\ apc \in [Items -> ArticlePC]
    BY DEF TypeInv, TypeOK, Turns
  <1>2. CASE CreateArticle(f)
    <2>1. PICK it \in Items : it = <<f, fnext[f]>>
      BY <1>2, ItemsOf DEF CreateArticle, TypeInv, Turns
    <2>2. it[1] = f /\ it[2] = fnext[f]
      BY <2>1
    <2>3. /\ apc'[it] = "parse" /\ \A jt \in Items : jt # it => apc'[jt] = apc[jt]
          /\ fnext'[f] = fnext[f] + 1 /\ \A g \in Feeds : g # f => fnext'[g] = fnext[g]
          /\ fpc'[f] = (IF MoreArticles(f) THEN "createArticles" ELSE "join")
          /\ fpc[f] = "waitArtigos" /\ \A g \in Feeds : g # f => fpc'[g] = fpc[g]
      BY <1>1, <1>2, <2>1 DEF CreateArticle
    <2>4. ASSUME NEW jt \in Items, jt[1] = f, jt # it
          PROVE  /\ jt[2] < fnext'[f] => apc'[jt] # "idle"
                 /\ fpc'[f] = "join" => apc'[jt] # "idle"
      <3>1. jt[2] # fnext[f] /\ jt[2] \in 1 .. Len(List[f]) /\ Len(List[f]) \in Nat
            /\ fnext[f] \in Nat
        BY <1>1, <2>1, <2>2, <2>4, ItemsOf, Lists
      <3>2. jt[2] < fnext'[f] => jt[2] < fnext[f]
        BY <2>3, <3>1
      <3>3. fpc'[f] = "join" => jt[2] < fnext[f]
        BY <2>3, <3>1 DEF MoreArticles
      <3>4. jt[2] < fnext[f] => apc[jt] # "idle"
        BY <2>4 DEF Joined
      <3> QED
        BY <2>3, <2>4, <3>2, <3>3, <3>4
    <2>5. ASSUME NEW jt \in Items, jt[1] # f
          PROVE  apc'[jt] = apc[jt] /\ fnext'[jt[1]] = fnext[jt[1]] /\ fpc'[jt[1]] = fpc[jt[1]]
      BY <2>2, <2>3, <2>5, ItemsOf
    <2>6. fpc'[f] \in {"createArticles", "join"}
      BY <2>3
    <2> QED
      BY <2>2, <2>3, <2>4, <2>5, <2>6 DEF Joined
  <1>3. CASE JoinArticles(f)
    <2>1. /\ fpc[f] = "join" /\ fpc' = [fpc EXCEPT ![f] = "erase"] /\ UNCHANGED <<fnext, apc>>
          /\ \A it \in Items : it[1] = f => apc[it] = "done"
      BY <1>3, ItemsOf DEF JoinArticles
    <2>2. fpc'[f] = "erase" /\ \A g \in Feeds : g # f => fpc'[g] = fpc[g]
      BY <1>1, <2>1
    <2> QED
      BY <2>1, <2>2, ItemsOf DEF Joined
  <1>4. CASE ParseFeed(f) \/ Insert(f) \/ WaitConexoes(f) \/ Release(f) \/ PostFeed(f)
    <2>1. PICK to \in {"insert", "createArticles", "waitArtigos", "delete", "post", "done"} :
            /\ fpc' = [fpc EXCEPT ![f] = to] /\ UNCHANGED <<fnext, apc>>
            /\ to \in {"delete", "post", "done"} =>
                 fpc[f] \in {"parse", "erase", "delete", "post"}
      BY <1>4 DEF ParseFeed, GiveUp, Insert, WaitConexoes, Release, EraseAndDelete, PostFeed
    <2>2. fpc'[f] = to /\ \A g \in Feeds : g # f => fpc'[g] = fpc[g]
      BY <1>1, <2>1
    <2>3. ASSUME NEW it \in Items, it[1] = f, fpc[f] = "parse" PROVE apc[it] = "idle"
      <3>1. fnext[f] = 1 /\ it[2] \in 1 .. Len(List[f]) /\ Len(List[f]) \in Nat
        BY <2>3, ItemsOf, Lists DEF TypeInv, Turns
      <3>2. it[2] >= fnext[it[1]]
        BY <2>3, <3>1
      <3> QED
        BY <3>2 DEF TypeInv, Turns
    <2> QED
      BY <2>1, <2>2, <2>3, ItemsOf DEF Joined
  <1> QED
    BY <1>2, <1>3, <1>4 DEF ProcessarFeed

LEMMA JoinedNext == TypeInv /\ Joined /\ [Next]_vars => Joined'
  <1> SUFFICES ASSUME TypeInv, Joined, [Next]_vars PROVE Joined'
    OBVIOUS
  <1>1. CASE CreateFeed
    <2>1. fpc[next] = "idle" /\ fpc' = [fpc EXCEPT ![next] = "parse"] /\ next \in Feeds
          /\ UNCHANGED <<fnext, apc>>
      BY <1>1, Lists DEF CreateFeed, TypeInv, TypeOK, Turns
    <2>2. fpc'[next] = "parse" /\ \A g \in Feeds : g # next => fpc'[g] = fpc[g]
      BY <2>1 DEF TypeInv, TypeOK
    <2> QED
      BY <2>1, <2>2, ItemsOf DEF Joined
  <1>2. CASE JoinFeeds
    BY <1>2 DEF JoinFeeds, Joined
  <1>3. ASSUME NEW f \in Feeds, ProcessarFeed(f) PROVE Joined'
    BY <1>3, JoinedFeed
  <1>4. ASSUME NEW it \in Items, ProcessarArtigo(it) PROVE Joined'
    <2>1. PICK to \in ArticlePC \ {"idle"} :
            /\ apc' = [apc EXCEPT ![it] = to] /\ UNCHANGED <<fpc, fnext>>
            /\ apc[it] \notin {"idle", "done"}
      BY <1>4 DEF ProcessarArtigo, ParseArticle, GiveUpArticle, AddToIndex, Find,
                  FindAgain, PostConexao, PostArtigos, AGoto, ArticlePC
    <2>2. apc'[it] = to /\ \A jt \in Items : jt # it => apc'[jt] = apc[jt]
      BY <2>1 DEF TypeInv, TypeOK
    <2> QED
      BY <2>1, <2>2 DEF Joined
  <1>5. CASE Undefined
    BY <1>5 DEF Undefined, Joined
  <1>6. CASE UNCHANGED vars
    BY <1>6 DEF vars, Joined
  <1> QED
    BY <1>1, <1>2, <1>3, <1>4, <1>5, <1>6
    DEF Next, ProcessAllFeeds, WildPointer, DataRace

-------------------------------------------------------------------------------
(* Connections *)

\* While a feed has articles under way.
UnderWay == {"createArticles", "waitArtigos", "join"}

\* The permits of a feed that is waiting to create an article's thread, or has.
ConnectionsOf(f) ==
  /\ IsFiniteSet(Connected(f))
  /\ sem_conexoes[f] + Cardinality(Connected(f))
       + (IF fpc[f] = "waitArtigos" THEN 1 ELSE 0) = Conexoes

\* When feeds keep to their own servers, the map leads each article to the
\* semaphore of its feed.
OwnEntries ==
  /\ \A f \in Feeds : fpc[f] \in Live \cup {"insert"} => 1 \in DOMAIN List[f]
  /\ \A f \in Feeds : fpc[f] \in Live => servidorConexoes[ServidorOfFeed(f)] = f
  /\ \A it \in Items : apc[it] = "post" => conexao[it] = it[1]

ConnectionsInv ==
  OwnServers => /\ OwnEntries
                /\ \A f \in Feeds : fpc[f] \in UnderWay => ConnectionsOf(f)

LEMMA ConnectionsInit == Init => ConnectionsInv
  BY DEF Init, ConnectionsInv, OwnEntries, Live, UnderWay

\* An article that has a thread belongs to a feed that is under way.
LEMMA ArticleUnderWay ==
  ASSUME TypeInv, Joined, NEW it \in Items, apc[it] \notin {"idle", "done"}
  PROVE  fpc[it[1]] \in UnderWay
  <1>1. it[1] \in Feeds /\ it[2] \in 1 .. Len(List[it[1]]) /\ Len(List[it[1]]) \in Nat
    BY ItemsOf, Lists
  <1>2. fpc[it[1]] \notin {"erase", "delete", "post", "done"}
    BY DEF Joined
  <1>3. it[2] < fnext[it[1]]
    BY <1>1 DEF TypeInv, Turns
  <1>4. fnext[it[1]] # 1
    BY <1>1, <1>3
  <1>5. fpc[it[1]] \notin {"idle", "parse", "insert"}
    BY <1>1, <1>4 DEF TypeInv, Turns
  <1> QED
    BY <1>1, <1>2, <1>5 DEF TypeInv, TypeOK, FeedPC, UnderWay

\* The feeds of two entries are different.
LEMMA OwnServerOfFeed ==
  ASSUME OwnServers, NEW f \in Feeds, NEW g \in Feeds, 1 \in DOMAIN List[f],
         1 \in DOMAIN List[g], ServidorOfFeed(f) = ServidorOfFeed(g)
  PROVE  f = g
  <1>1. <<f, 1>> \in Items /\ <<g, 1>> \in Items
    BY ItemsOf
  <1>2. Servidor(<<f, 1>>) = Servidor(<<g, 1>>)
    BY DEF ServidorOfFeed
  <1>3. <<f, 1>>[1] = <<g, 1>>[1]
    BY <1>1, <1>2 DEF OwnServers
  <1> QED
    BY <1>3

\* The entry that an article finds is its feed's.
LEMMA FoundEntry ==
  ASSUME TypeInv, Joined, OwnServers, OwnEntries, NEW it \in Items,
         apc[it] \notin {"idle", "done"}
  PROVE  servidorConexoes[Servidor(it)] = it[1] /\ it[1] # NULL
  <1>1. it[1] \in Feeds /\ fpc[it[1]] \in UnderWay
    BY ItemsOf, ArticleUnderWay
  <1>2. 1 \in DOMAIN List[it[1]] /\ servidorConexoes[ServidorOfFeed(it[1])] = it[1]
    BY <1>1 DEF OwnEntries, UnderWay, Live
  <1>3. <<it[1], 1>> \in Items /\ <<it[1], 1>>[1] = it[1]
    BY <1>1, <1>2, ItemsOf
  <1>4. Servidor(it) = Servidor(<<it[1], 1>>)
    BY <1>3 DEF OwnServers
  <1> QED
    BY <1>1, <1>2, <1>4, SemsAssumption DEF ServidorOfFeed, Feeds

LEMMA OwnEntriesFeed ==
  ASSUME TypeInv, MapInv, OwnServers, OwnEntries, NEW f \in Feeds, ProcessarFeed(f)
  PROVE  OwnEntries'
  <1> USE DEF FGoto, main
  <1>1. /\ fpc \in [Feeds -> FeedPC] /\ apc \in [Items -> ArticlePC]
        /\ servidorConexoes \in [Servers -> Feeds \cup {NULL}]
        /\ \A g \in Feeds : 1 \in DOMAIN List[g] => ServidorOfFeed(g) \in Servers
    <2>1. \A g \in Feeds : 1 \in DOMAIN List[g] => UrlOf(<<g, 1>>) \in Articles
      BY ItemsOf
    <2> QED
      BY <2>1 DEF TypeInv, TypeOK, ServidorOfFeed, Servidor
  <1>2. /\ UNCHANGED <<server, conexao>> /\ \A g : ServidorOfFeed(g)' = ServidorOfFeed(g)
    BY DEF ProcessarFeed, ParseFeed, GiveUp, Insert, WaitConexoes, CreateArticle,
           JoinArticles, Release, EraseAndDelete, PostFeed, ServidorOfFeed, Servidor
  <1>3. \A it \in Items : apc'[it] = "post" => conexao'[it] = it[1]
    <2>1. \A it \in Items : apc'[it] = "post" => apc[it] = "post"
      BY <1>1 DEF ProcessarFeed, ParseFeed, Insert, WaitConexoes, CreateArticle,
                  JoinArticles, Release, PostFeed
    <2> QED
      BY <1>2, <2>1 DEF OwnEntries
  <1>4. CASE UNCHANGED servidorConexoes /\ ~ParseFeed(f) /\ ~Insert(f)
    <2>1. \A g \in Feeds : fpc'[g] \in Live => fpc[g] \in Live
      BY <1>1, <1>4 DEF ProcessarFeed, WaitConexoes, CreateArticle, JoinArticles,
                        Release, EraseAndDelete, PostFeed, Live
    <2>2. \A g \in Feeds : fpc'[g] # "insert" \/ fpc[g] = "insert"
      BY <1>1, <1>4 DEF ProcessarFeed, WaitConexoes, CreateArticle, JoinArticles,
                        Release, EraseAndDelete, PostFeed
    <2> QED
      BY <1>2, <1>3, <1>4, <2>1, <2>2 DEF OwnEntries
  <1>5. CASE ParseFeed(f)
    <2>1. /\ UNCHANGED servidorConexoes /\ \A g \in Feeds : fpc'[g] \in Live => fpc[g] \in Live
          /\ \A g \in Feeds : fpc'[g] # "insert" \/ fpc[g] = "insert" \/ List[g] # <<>>
      BY <1>1, <1>5 DEF ParseFeed, GiveUp, Live
    <2>2. List[f] # <<>> => 1 \in DOMAIN List[f]
      BY Lists
    <2>3. \A g \in Feeds : List[g] # <<>> => 1 \in DOMAIN List[g]
      BY Lists
    <2> QED
      BY <1>2, <1>3, <2>1, <2>3 DEF OwnEntries
  <1>6. CASE Insert(f)
    <2>1. /\ fpc[f] = "insert" /\ fpc' = [fpc EXCEPT ![f] = "createArticles"]
          /\ servidorConexoes' = [servidorConexoes EXCEPT ![ServidorOfFeed(f)] =
                                    IF @ = NULL THEN f ELSE @]
      BY <1>6 DEF Insert
    <2>2. 1 \in DOMAIN List[f] /\ ServidorOfFeed(f) \in Servers
      BY <1>1, <2>1 DEF OwnEntries
    <2>3. servidorConexoes[ServidorOfFeed(f)] = NULL
      <3>1. SUFFICES ASSUME servidorConexoes[ServidorOfFeed(f)] # NULL PROVE FALSE
        OBVIOUS
      <3>2. PICK g \in Feeds : g = servidorConexoes[ServidorOfFeed(f)]
        BY <1>1, <2>2, <3>1
      <3>3. ServidorOfFeed(g) = ServidorOfFeed(f) /\ fpc[g] \in Live
        BY <2>2, <3>1, <3>2 DEF MapInv
      <3>4. g = f
        BY <2>2, <3>3, OwnServerOfFeed DEF OwnEntries
      <3> QED
        BY <2>1, <3>3, <3>4 DEF Live
    <2>4. /\ servidorConexoes'[ServidorOfFeed(f)] = f
          /\ \A s \in Servers : s # ServidorOfFeed(f) => servidorConexoes'[s] = servidorConexoes[s]
          /\ \A g \in Feeds : g # f => fpc'[g] = fpc[g]
      BY <1>1, <2>1, <2>2, <2>3
    <2>5. fpc'[f] = "createArticles"
      BY <1>1, <2>1
    <2>6. ASSUME NEW g \in Feeds, fpc'[g] \in Live
          PROVE  servidorConexoes'[ServidorOfFeed(g)] = g
      <3>1. CASE g # f
        <4>1. /\ fpc[g] \in Live /\ 1 \in DOMAIN List[g]
              /\ servidorConexoes[ServidorOfFeed(g)] = g
          BY <2>4, <2>6, <3>1 DEF OwnEntries
        <4>2. ServidorOfFeed(g) # ServidorOfFeed(f)
          BY <2>2, <3>1, <4>1, OwnServerOfFeed
        <4> QED
          BY <1>1, <2>4, <4>1, <4>2
      <3> QED
        BY <2>4, <3>1
    <2>7. \A g \in Feeds : fpc'[g] \in Live \cup {"insert"} => 1 \in DOMAIN List[g]
      BY <2>2, <2>4 DEF OwnEntries
    <2> QED
      BY <1>2, <1>3, <2>6, <2>7 DEF OwnEntries
  <1>7. CASE Release(f) /\ fpc[f] = "erase"
    <2>1. /\ fpc' = [fpc EXCEPT ![f] = "delete"]
          /\ servidorConexoes' = [servidorConexoes EXCEPT ![ServidorOfFeed(f)] = NULL]
      BY <1>7 DEF Release, EraseAndDelete
    <2>2. /\ fpc'[f] = "delete" /\ \A g \in Feeds : g # f => fpc'[g] = fpc[g]
          /\ \A s \in Servers : s # ServidorOfFeed(f) => servidorConexoes'[s] = servidorConexoes[s]
      BY <1>1, <2>1
    <2>3. 1 \in DOMAIN List[f]
      BY <1>7 DEF OwnEntries, Live
    <2>4. ASSUME NEW g \in Feeds, fpc'[g] \in Live
          PROVE  servidorConexoes'[ServidorOfFeed(g)] = g
      <3>1. g # f /\ fpc[g] \in Live
        BY <2>2, <2>4 DEF Live
      <3>2. 1 \in DOMAIN List[g] /\ servidorConexoes[ServidorOfFeed(g)] = g
        BY <3>1 DEF OwnEntries
      <3>3. ServidorOfFeed(g) # ServidorOfFeed(f)
        BY <2>3, <3>1, <3>2, OwnServerOfFeed
      <3> QED
        BY <1>1, <2>2, <3>2, <3>3
    <2>5. \A g \in Feeds : fpc'[g] \in Live \cup {"insert"} => 1 \in DOMAIN List[g]
      BY <2>2, <2>3 DEF OwnEntries
    <2> QED
      BY <1>2, <1>3, <2>4, <2>5 DEF OwnEntries
  <1>8. CASE Release(f) /\ fpc[f] # "erase"
    <2>1. UNCHANGED servidorConexoes /\ ~ParseFeed(f) /\ ~Insert(f)
      BY <1>8 DEF Release, EraseAndDelete, ParseFeed, GiveUp, Insert
    <2> QED
      BY <1>4, <2>1
  <1>9. CASE WaitConexoes(f) \/ CreateArticle(f) \/ JoinArticles(f) \/ PostFeed(f)
    <2>1. UNCHANGED servidorConexoes /\ ~ParseFeed(f) /\ ~Insert(f)
      BY <1>9 DEF WaitConexoes, CreateArticle, JoinArticles, PostFeed, ParseFeed, GiveUp,
                  Insert
    <2> QED
      BY <1>4, <2>1
  <1> QED
    BY <1>5, <1>6, <1>7, <1>8, <1>9 DEF ProcessarFeed

\* What a feed counts depends on no other feed.
LEMMA SameConnections ==
  ASSUME NEW f \in Feeds, ConnectionsOf(f),
         (fpc[f] = "waitArtigos") <=> (fpc'[f] = "waitArtigos"),
         sem_conexoes'[f] = sem_conexoes[f], Connected(f)' = Connected(f)
  PROVE  ConnectionsOf(f)'
  BY DEF ConnectionsOf

LEMMA ConnectionsFeed ==
  ASSUME TypeInv, NEW f \in Feeds, ProcessarFeed(f),
         \A g \in Feeds : fpc[g] \in UnderWay => ConnectionsOf(g)
  PROVE  \A g \in Feeds : fpc'[g] \in UnderWay => ConnectionsOf(g)'
  <1> USE DEF FGoto, main
  <1>1. /\ fpc \in [Feeds -> FeedPC] /\ apc \in [Items -> ArticlePC]
        /\ sem_conexoes \in [Feeds -> Nat] /\ fnext \in [Feeds -> Nat]
    BY DEF TypeInv, TypeOK, Turns
  \* The other feeds are as they were.
  <1>2. ASSUME NEW g \in Feeds, g # f, fpc'[g] \in UnderWay PROVE ConnectionsOf(g)'
    <2>1. fpc'[g] = fpc[g] /\ sem_conexoes'[g] = sem_conexoes[g]
      BY <1>1, <1>2
      DEF ProcessarFeed, ParseFeed, GiveUp, Insert, WaitConexoes, CreateArticle,
          JoinArticles, Release, EraseAndDelete, PostFeed, sems
    <2>2. \A it \in Items : it[1] = g => apc'[it] = apc[it]
      <3>1. CASE CreateArticle(f)
        <4>1. apc' = [apc EXCEPT ![<<f, fnext[f]>>] = "parse"]
          BY <3>1 DEF CreateArticle
        <4> QED
          BY <1>1, <1>2, <4>1
      <3> QED
        BY <3>1 DEF ProcessarFeed, ParseFeed, Insert, WaitConexoes, JoinArticles, Release,
                    PostFeed
    <2>3. Connected(g)' = Connected(g)
      BY <2>2 DEF Connected
    <2> QED
      BY <1>2, <2>1, <2>3, SameConnections
  <1>3. ASSUME fpc'[f] \in UnderWay PROVE ConnectionsOf(f)'
    <2>1. CASE Insert(f)
      <3>1. fpc[f] = "insert" /\ fpc'[f] = "createArticles" /\ sem_conexoes'[f] = Conexoes
        BY <1>1, <2>1 DEF Insert
      <3>2. ASSUME NEW it \in Items, it[1] = f PROVE apc'[it] = "idle"
        <4>1. fnext[f] = 1 /\ it[2] \in 1 .. Len(List[f]) /\ Len(List[f]) \in Nat
          BY <3>1, <3>2, ItemsOf, Lists DEF TypeInv, Turns
        <4>2. it[2] >= fnext[it[1]]
          BY <3>2, <4>1
        <4> QED
          BY <2>1, <4>2 DEF Insert, TypeInv, Turns
      <3>3. Connected(f)' = {}
        BY <3>2 DEF Connected
      <3> QED
        BY <3>1, <3>3, FS_EmptySet, SemsAssumption DEF ConnectionsOf
    <2>2. CASE WaitConexoes(f)
      <3>1. /\ fpc[f] = "createArticles" /\ fpc'[f] = "waitArtigos"
            /\ sem_conexoes'[f] = sem_conexoes[f] - 1
        BY <1>1, <2>2 DEF WaitConexoes
      <3>2. Connected(f)' = Connected(f)
        BY <2>2 DEF WaitConexoes, Connected
      <3>3. ConnectionsOf(f) /\ sem_conexoes[f] \in Nat /\ Conexoes \in Nat
        BY <1>1, <3>1, SemsAssumption DEF UnderWay
      <3>4. Cardinality(Connected(f)) \in Nat
        BY <3>3, FS_CardinalityType DEF ConnectionsOf
      <3> QED
        BY <3>1, <3>2, <3>3, <3>4 DEF ConnectionsOf
    <2>3. CASE CreateArticle(f)
      <3>1. PICK it \in Items : it = <<f, fnext[f]>>
        BY <2>3, ItemsOf DEF CreateArticle, TypeInv, Turns
      <3>2. /\ fpc[f] = "waitArtigos" /\ fpc'[f] \in {"createArticles", "join"}
            /\ apc[it] = "idle" /\ apc' = [apc EXCEPT ![it] = "parse"] /\ it[1] = f
            /\ sem_conexoes' = sem_conexoes
        BY <1>1, <2>3, <3>1 DEF CreateArticle, TypeInv, Turns
      <3>3. it \notin Connected(f) /\ Connected(f)' = Connected(f) \cup {it}
        BY <1>1, <3>2 DEF Connected
      <3>4. ConnectionsOf(f) /\ sem_conexoes[f] \in Nat /\ Conexoes \in Nat
        BY <1>1, <3>2, SemsAssumption DEF UnderWay
      <3>5. PICK n \in Nat : n = sem_conexoes[f] + 1
        BY <3>4
      <3>6. IsFiniteSet(Connected(f)) /\ n + Cardinality(Connected(f)) = Conexoes
        <4>1. IsFiniteSet(Connected(f))
          BY <3>4 DEF ConnectionsOf
        <4> QED
          BY <3>2, <3>4, <3>5, <4>1, FS_CardinalityType DEF ConnectionsOf
      <3>7. IsFiniteSet(Connected(f)') /\ (n - 1) + Cardinality(Connected(f)') = Conexoes
        BY <3>3, <3>6, Taken
      <3>8. Cardinality(Connected(f)') \in Nat /\ sem_conexoes'[f] = n - 1
        BY <3>2, <3>4, <3>5, <3>7, FS_CardinalityType
      <3> QED
        BY <3>2, <3>7, <3>8 DEF ConnectionsOf
    <2>4. CASE ParseFeed(f) \/ JoinArticles(f) \/ Release(f) \/ PostFeed(f)
      BY <1>1, <1>3, <2>4
      DEF ParseFeed, GiveUp, JoinArticles, Release, EraseAndDelete, PostFeed, UnderWay
    <2> QED
      BY <2>1, <2>2, <2>3, <2>4 DEF ProcessarFeed
  <1> QED
    BY <1>2, <1>3

LEMMA ConnectionsArticle ==
  ASSUME TypeInv, Joined, OwnServers, OwnEntries, NEW it \in Items, ProcessarArtigo(it),
         \A g \in Feeds : fpc[g] \in UnderWay => ConnectionsOf(g)
  PROVE  OwnEntries' /\ \A g \in Feeds : fpc'[g] \in UnderWay => ConnectionsOf(g)'
  <1> USE DEF AGoto, main
  <1>1. /\ apc \in [Items -> ArticlePC] /\ conexao \in [Items -> Feeds \cup {NULL}]
        /\ sem_conexoes \in [Feeds -> Nat] /\ it[1] \in Feeds
    BY ItemsOf DEF TypeInv, TypeOK
  <1>2. PICK to \in ArticlePC :
          apc' = [apc EXCEPT ![it] = to] /\ apc[it] \notin {"idle", "done"}
    BY DEF ProcessarArtigo, ParseArticle, GiveUpArticle, AddToIndex, Find, FindAgain,
           PostConexao, PostArtigos, ArticlePC
  <1>3. /\ UNCHANGED <<server, fpc, servidorConexoes>>
        /\ \A g : ServidorOfFeed(g)' = ServidorOfFeed(g)
    BY DEF ProcessarArtigo, ParseArticle, GiveUpArticle, AddToIndex, Find, FindAgain,
           PostConexao, PostArtigos, ServidorOfFeed, Servidor
  <1>4. servidorConexoes[Servidor(it)] = it[1] /\ it[1] # NULL
    BY <1>2, FoundEntry
  <1>5. fpc[it[1]] \in UnderWay /\ ConnectionsOf(it[1])
    BY <1>1, <1>2, ArticleUnderWay
  <1>6. \A jt \in Items : jt # it => apc'[jt] = apc[jt]
    BY <1>1, <1>2
  <1>7. OwnEntries'
    <2>1. \A jt \in Items : apc'[jt] = "post" => conexao'[jt] = jt[1]
      <3>1. CASE FindAgain(it)
        BY <1>1, <1>4, <1>6, <3>1 DEF FindAgain, OwnEntries
      <3>2. CASE ~FindAgain(it)
        BY <1>1, <1>6, <3>2
        DEF ProcessarArtigo, ParseArticle, GiveUpArticle, AddToIndex, Find, PostConexao,
            PostArtigos, OwnEntries
      <3> QED
        BY <3>1, <3>2
    <2> QED
      BY <1>3, <2>1 DEF OwnEntries
  <1>8. ASSUME NEW g \in Feeds, g # it[1], fpc'[g] \in UnderWay PROVE ConnectionsOf(g)'
    <2>1. Connected(g)' = Connected(g)
      BY <1>6, <1>8 DEF Connected
    <2>2. sem_conexoes'[g] = sem_conexoes[g]
      <3>1. CASE PostConexao(it)
        <4>1. conexao[it] = it[1] /\ sem_conexoes' = [sem_conexoes EXCEPT ![conexao[it]] = @ + 1]
          BY <3>1 DEF PostConexao, OwnEntries
        <4> QED
          BY <1>1, <1>8, <4>1
      <3> QED
        BY <3>1 DEF ProcessarArtigo, ParseArticle, AddToIndex, Find, FindAgain, PostArtigos
    <2> QED
      BY <1>3, <1>8, <2>1, <2>2, SameConnections
  <1>9. ConnectionsOf(it[1])'
    <2>0. PICK f \in Feeds : f = it[1]
      BY <1>1
    <2>1. CASE PostConexao(it)
      <3>1. /\ apc[it] = "post" /\ apc'[it] = "postArtigos" /\ conexao[it] = it[1]
            /\ sem_conexoes' = [sem_conexoes EXCEPT ![conexao[it]] = @ + 1]
        BY <1>1, <2>1 DEF PostConexao, OwnEntries
      <3>2. sem_conexoes'[f] = sem_conexoes[f] + 1
        BY <1>1, <2>0, <3>1
      <3>3. it \in Connected(f) /\ Connected(f)' = Connected(f) \ {it}
        BY <1>6, <2>0, <3>1 DEF Connected
      <3> DEFINE w == IF fpc[f] = "waitArtigos" THEN 1 ELSE 0
      <3>4. sem_conexoes[f] \in Nat /\ w \in Nat /\ IsFiniteSet(Connected(f))
            /\ sem_conexoes[f] + Cardinality(Connected(f)) + w = Conexoes
        BY <1>1, <1>5, <2>0 DEF ConnectionsOf
      <3>5. Cardinality(Connected(f)) \in Nat
        BY <3>4, FS_CardinalityType
      <3>6. sem_conexoes[f] + Cardinality(Connected(f)) = Conexoes - w
        BY <3>4, <3>5, SemsAssumption
      <3>7. IsFiniteSet(Connected(f)') /\ (sem_conexoes[f] + 1) + Cardinality(Connected(f)')
              = Conexoes - w
        BY <3>3, <3>4, <3>6, Returned
      <3>8. Cardinality(Connected(f)') \in Nat
        BY <3>7, FS_CardinalityType
      <3>9. fpc'[f] = fpc[f]
        BY <1>3
      <3> QED
        BY <2>0, <3>2, <3>4, <3>7, <3>8, <3>9, SemsAssumption DEF ConnectionsOf
    <2>2. CASE ~PostConexao(it)
      <3>1. sem_conexoes' = sem_conexoes
        BY <2>2 DEF ProcessarArtigo, ParseArticle, AddToIndex, Find, FindAgain, PostArtigos
      <3>2. apc[it] \notin {"idle", "postArtigos", "done"} <=>
              apc'[it] \notin {"idle", "postArtigos", "done"}
        BY <1>1, <1>4, <2>2
        DEF ProcessarArtigo, ParseArticle, GiveUpArticle, AddToIndex, Find, FindAgain,
            PostArtigos
      <3>3. Connected(f)' = Connected(f)
        BY <1>6, <3>2 DEF Connected
      <3> QED
        BY <1>3, <1>5, <2>0, <3>1, <3>3, SameConnections
    <2> QED
      BY <2>1, <2>2
  <1> QED
    BY <1>7, <1>8, <1>9

LEMMA ConnectionsNext ==
  TypeInv /\ MapInv /\ Joined /\ ConnectionsInv /\ [Next]_vars => ConnectionsInv'
  <1> SUFFICES ASSUME TypeInv, MapInv, Joined, ConnectionsInv, [Next]_vars, OwnServers'
               PROVE  OwnEntries' /\ \A f \in Feeds : fpc'[f] \in UnderWay => ConnectionsOf(f)'
    BY DEF ConnectionsInv
  <1>1. server' = server
    BY DEF Next, ProcessAllFeeds, CreateFeed, JoinFeeds, ProcessarFeed, ParseFeed, GiveUp,
           Insert, WaitConexoes, CreateArticle, JoinArticles, Release, EraseAndDelete,
           PostFeed, FGoto, ProcessarArtigo, ParseArticle, GiveUpArticle, AddToIndex, Find,
           FindAgain, PostConexao, PostArtigos, AGoto, DataRace, WildPointer, Undefined,
           vars, main
  <1>2. OwnServers
    BY <1>1 DEF OwnServers, Servidor
  <1>3. OwnEntries /\ \A f \in Feeds : fpc[f] \in UnderWay => ConnectionsOf(f)
    BY <1>2 DEF ConnectionsInv
  \* The main thread does not count.
  <1>4. ASSUME UNCHANGED <<apc, conexao, sem_conexoes, servidorConexoes>>,
               \A f \in Feeds : fpc'[f] \in Live \cup {"insert"} => fpc'[f] = fpc[f]
        PROVE  OwnEntries' /\ \A f \in Feeds : fpc'[f] \in UnderWay => ConnectionsOf(f)'
    <2>1. OwnEntries'
      BY <1>1, <1>3, <1>4 DEF OwnEntries, ServidorOfFeed, Servidor
    <2>2. ASSUME NEW f \in Feeds, fpc'[f] \in UnderWay PROVE ConnectionsOf(f)'
      <3>1. fpc'[f] = fpc[f] /\ Connected(f)' = Connected(f)
        BY <1>4, <2>2 DEF UnderWay, Live, Connected
      <3> QED
        BY <1>3, <1>4, <2>2, <3>1, SameConnections
    <2> QED
      BY <2>1, <2>2
  <1>5. CASE CreateFeed
    <2>1. fpc' = [fpc EXCEPT ![next] = "parse"] /\ next \in Feeds
      BY <1>5 DEF CreateFeed
    <2>2. \A f \in Feeds : fpc'[f] \in Live \cup {"insert"} => fpc'[f] = fpc[f]
      BY <2>1 DEF Live, TypeInv, TypeOK
    <2> QED
      BY <1>4, <1>5, <2>2 DEF CreateFeed
  <1>6. CASE JoinFeeds \/ Undefined \/ UNCHANGED vars
    BY <1>4, <1>6 DEF JoinFeeds, Undefined, vars, sems
  <1>7. ASSUME NEW f \in Feeds, ProcessarFeed(f)
        PROVE  OwnEntries' /\ \A g \in Feeds : fpc'[g] \in UnderWay => ConnectionsOf(g)'
    BY <1>2, <1>3, <1>7, OwnEntriesFeed, ConnectionsFeed
  <1>8. ASSUME NEW it \in Items, ProcessarArtigo(it)
        PROVE  OwnEntries' /\ \A g \in Feeds : fpc'[g] \in UnderWay => ConnectionsOf(g)'
    BY <1>2, <1>3, <1>8, ConnectionsArticle
  <1> QED
    BY <1>5, <1>6, <1>7, <1>8 DEF Next, ProcessAllFeeds, WildPointer, DataRace

\* When feeds keep to their own servers, the articles that are connected for a feed
\* and its free connections add up to Conexoes, although each article returns its
\* connection by way of the shared map, and whatever else fails (lines 162-309).
THEOREM ConnectionsCorrect == Spec => []ConnectionsConserved
  <1>1. Spec => [](TypeInv /\ MapInv /\ Joined /\ ConnectionsInv)
    BY TypeInvInit, TypeInvNext, MapInvInit, MapInvNext, JoinedInit, JoinedNext,
       ConnectionsInit, ConnectionsNext, PTL DEF Spec
  <1>2. ConnectionsInv => ConnectionsConserved
    BY DEF ConnectionsInv, ConnectionsConserved, ConnectionsOf, UnderWay
  <1> QED
    BY <1>1, <1>2, PTL

-------------------------------------------------------------------------------
(* NewsAggregator *)

\* What is left to be parsed, and to be added.
ToParse == {<<f, 0>> : f \in {g \in Feeds : fpc[g] \in {"idle", "parse"}}}
             \cup {it \in Items : apc[it] = "parse"}
             \cup {it \in Items : apc[it] = "idle" /\
                     fpc[it[1]] \in {"insert", "createArticles", "waitArtigos"}}
ToAdd   == {it \in Items : apc[it] = "add"}
Phase   == IF pc = "queryIndex" THEN "querying" ELSE "indexing"

FeedToParse(f) == fpc[f] \in {"idle", "parse"}
ArticleToParse(it) ==
  \/ apc[it] = "parse"
  \/ apc[it] = "idle" /\ fpc[it[1]] \in {"insert", "createArticles", "waitArtigos"}

LEMMA NoFeedIsItem == \A f \in Feeds : <<f, 0>> \notin Items
  <1> SUFFICES ASSUME NEW f \in Feeds, <<f, 0>> \in Items PROVE FALSE
    OBVIOUS
  <1>1. 0 \in DOMAIN List[f]
    BY ItemsOf
  <1> QED
    BY <1>1, Lists

LEMMA ToParseIs ==
  /\ \A f \in Feeds : <<f, 0>> \in ToParse <=> FeedToParse(f)
  /\ \A it \in Items : it \in ToParse <=> ArticleToParse(it)
  /\ \A x \in ToParse : x \in Items \/ \E f \in Feeds : x = <<f, 0>>
  BY NoFeedIsItem DEF ToParse, FeedToParse, ArticleToParse

LEMMA ToParseWillBe ==
  /\ \A f \in Feeds : <<f, 0>> \in ToParse' <=> FeedToParse(f)'
  /\ \A it \in Items : it \in ToParse' <=> ArticleToParse(it)'
  /\ \A x \in ToParse' : x \in Items \/ \E f \in Feeds : x = <<f, 0>>
  BY NoFeedIsItem DEF ToParse, FeedToParse, ArticleToParse

LEMMA SameToParse ==
  ASSUME \A f \in Feeds : FeedToParse(f)' <=> FeedToParse(f),
         \A it \in Items : ArticleToParse(it)' <=> ArticleToParse(it)
  PROVE  ToParse' = ToParse
  <1>1. ASSUME NEW x \in ToParse PROVE x \in ToParse'
    BY ToParseIs, ToParseWillBe
  <1>2. ASSUME NEW x \in ToParse' PROVE x \in ToParse
    BY ToParseIs, ToParseWillBe
  <1> QED
    BY <1>1, <1>2

LEMMA AbstractInit == Init => Aggregator!Init
  <1> SUFFICES ASSUME Init PROVE Aggregator!Init
    OBVIOUS
  <1>1. /\ \A f \in Feeds : FeedToParse(f)
        /\ \A it \in Items : ~ArticleToParse(it)
    BY ItemsOf DEF Init, FeedToParse, ArticleToParse
  <1>2. ToParse = Feeds \X {0}
    <2>1. ASSUME NEW x \in ToParse PROVE x \in Feeds \X {0}
      BY <1>1, ToParseIs
    <2>2. ASSUME NEW x \in Feeds \X {0} PROVE x \in ToParse
      <3>1. PICK f \in Feeds : x = <<f, 0>>
        OBVIOUS
      <3> QED
        BY <1>1, <3>1, ToParseIs
    <2> QED
      BY <2>1, <2>2
  <1>3. ToAdd = {} /\ Phase = "indexing" /\ index = [a \in Articles |-> 0]
    BY DEF Init, ToAdd, Phase
  <1> QED
    BY <1>2, <1>3 DEF Aggregator!Init, ToParse, ToAdd, Phase, Aggregator!Feeds, Feeds

\* The steps of NewsAggregator, in terms of this state.
LEMMA AbstractStutter ==
  ASSUME ToParse' = ToParse, ToAdd' = ToAdd, index' = index, Phase' = Phase
  PROVE  UNCHANGED Aggregator!vars
  BY DEF Aggregator!vars, ToParse, ToAdd, Phase

LEMMA AbstractParseFeed ==
  ASSUME NEW f \in Feeds, <<f, 0>> \in ToParse, NEW found \in {{}, 1 .. Len(List[f])},
         ToParse' = (ToParse \ {<<f, 0>>}) \cup ({f} \X found),
         ToAdd' = ToAdd, index' = index, Phase' = Phase
  PROVE  Aggregator!Next
  <1>1. Aggregator!ParseFeed(f)
    BY DEF Aggregator!ParseFeed, ToParse, ToAdd, Phase
  <1> QED
    BY <1>1 DEF Aggregator!Next, Aggregator!Feeds, Feeds

LEMMA AbstractParseArticle ==
  ASSUME NEW f \in Feeds, NEW k \in DOMAIN List[f], <<f, k>> \in ToParse,
         ToParse' = ToParse \ {<<f, k>>}, ToAdd' \in {ToAdd, ToAdd \cup {<<f, k>>}},
         index' = index, Phase' = Phase
  PROVE  Aggregator!Next
  <1>1. Aggregator!ParseArticle(f, k)
    BY DEF Aggregator!ParseArticle, ToParse, ToAdd, Phase
  <1> QED
    BY <1>1 DEF Aggregator!Next, Aggregator!Feeds, Feeds

LEMMA AbstractAddToIndex ==
  ASSUME NEW f \in Feeds, NEW k \in DOMAIN List[f], <<f, k>> \in ToAdd,
         ToAdd' = ToAdd \ {<<f, k>>}, ToParse' = ToParse, Phase' = Phase,
         index' = [index EXCEPT ![List[f][k]] = @ + 1]
  PROVE  Aggregator!Next
  <1>1. Aggregator!AddToIndex(f, k)
    BY DEF Aggregator!AddToIndex, ToParse, ToAdd, Phase
  <1> QED
    BY <1>1 DEF Aggregator!Next, Aggregator!Feeds, Feeds

LEMMA AbstractQuery ==
  ASSUME ToParse = {}, ToAdd = {}, Phase' = "querying",
         ToParse' = ToParse, ToAdd' = ToAdd, index' = index
  PROVE  Aggregator!Next
  BY DEF Aggregator!Next, Aggregator!Query, ToParse, ToAdd, Phase

LEMMA FeedImplements ==
  ASSUME TypeInv, Joined, NEW f \in Feeds, ProcessarFeed(f)
  PROVE  Aggregator!Next \/ UNCHANGED Aggregator!vars
  <1> USE DEF FGoto, main
  <1>1. fpc \in [Feeds -> FeedPC] /\ fnext \in [Feeds -> Nat] /\ apc \in [Items -> ArticlePC]
    BY DEF TypeInv, TypeOK, Turns
  <1>2. UNCHANGED <<pc, index>> /\ Phase' = Phase
    BY DEF ProcessarFeed, ParseFeed, GiveUp, Insert, WaitConexoes, CreateArticle,
           JoinArticles, Release, EraseAndDelete, PostFeed, Phase
  <1>3. CASE ParseFeed(f)
    <2>1. PICK to \in {"insert", "post"} :
            fpc[f] = "parse" /\ fpc' = [fpc EXCEPT ![f] = to] /\ apc' = apc
      BY <1>3 DEF ParseFeed, GiveUp
    <2>2. fpc'[f] = to /\ \A g \in Feeds : g # f => fpc'[g] = fpc[g]
      BY <1>1, <2>1
    <2>3. ToAdd' = ToAdd
      BY <2>1 DEF ToAdd
    <2>4. \A it \in Items : it[1] = f => apc[it] = "idle"
      <3>1. ASSUME NEW it \in Items, it[1] = f PROVE it[2] >= fnext[it[1]]
        <4>1. fnext[f] = 1 /\ it[2] \in 1 .. Len(List[f]) /\ Len(List[f]) \in Nat
          BY <2>1, <3>1, ItemsOf, Lists DEF TypeInv, Turns
        <4> QED
          BY <3>1, <4>1
      <3> QED
        BY <3>1 DEF TypeInv, Turns
    <2> DEFINE found == IF to = "insert" THEN 1 .. Len(List[f]) ELSE {}
    <2>5. \A x \in {f} \X found : x \in Items /\ x[1] = f
      BY ItemsOf, Lists
    <2>6. \A it \in Items : it[1] = f => (it \in {f} \X found <=> to = "insert")
      BY ItemsOf, Lists
    <2>7. found \in {{}, 1 .. Len(List[f])}
      OBVIOUS
    <2> HIDE DEF found
    <2>8. FeedToParse(f) /\ ~FeedToParse(f)'
          /\ \A g \in Feeds : g # f => (FeedToParse(g)' <=> FeedToParse(g))
      BY <2>1, <2>2 DEF FeedToParse
    <2>9. ASSUME NEW it \in Items
          PROVE  ArticleToParse(it)' <=> ArticleToParse(it) \/ it \in {f} \X found
      <3>1. CASE it[1] = f
        BY <2>1, <2>2, <2>4, <2>6, <3>1 DEF ArticleToParse
      <3>2. CASE it[1] # f
        <4>1. it[1] \in Feeds /\ it \notin {f} \X found
          BY <2>5, <3>2, ItemsOf
        <4>2. fpc'[it[1]] = fpc[it[1]]
          BY <2>2, <3>2, <4>1
        <4> QED
          BY <2>1, <4>1, <4>2 DEF ArticleToParse
      <3> QED
        BY <3>1, <3>2
    <2>10. ToParse' = (ToParse \ {<<f, 0>>}) \cup ({f} \X found)
      <3>1. ASSUME NEW x
            PROVE  x \in ToParse' <=> x \in (ToParse \ {<<f, 0>>}) \cup ({f} \X found)
        <4>1. CASE x \in Items
          BY <2>9, <4>1, NoFeedIsItem, ToParseIs, ToParseWillBe
        <4>2. CASE \E g \in Feeds : x = <<g, 0>>
          BY <2>5, <2>8, <4>2, NoFeedIsItem, ToParseIs, ToParseWillBe
        <4>3. CASE x \notin Items /\ ~\E g \in Feeds : x = <<g, 0>>
          BY <2>5, <4>3, ToParseIs, ToParseWillBe
        <4> QED
          BY <4>1, <4>2, <4>3
      <3> QED
        BY <3>1
    <2>11. <<f, 0>> \in ToParse
      BY <2>8, ToParseIs
    <2> QED
      BY <1>2, <2>3, <2>7, <2>10, <2>11, AbstractParseFeed
  <1>4. CASE CreateArticle(f)
    <2>1. PICK it \in Items : it = <<f, fnext[f]>>
      BY <1>4, ItemsOf DEF CreateArticle, TypeInv, Turns
    <2>2. it[1] = f /\ it[2] = fnext[f] /\ apc[it] = "idle"
      <3>1. it[1] = f /\ it[2] = fnext[f]
        BY <2>1
      <3>2. it[2] >= fnext[it[1]]
        BY <1>1, <3>1
      <3> QED
        BY <3>1, <3>2 DEF TypeInv, Turns
    <2>3. /\ apc'[it] = "parse" /\ \A jt \in Items : jt # it => apc'[jt] = apc[jt]
          /\ fpc'[f] \in {"createArticles", "join"} /\ fpc[f] = "waitArtigos"
          /\ \A g \in Feeds : g # f => fpc'[g] = fpc[g]
      BY <1>1, <1>4, <2>1 DEF CreateArticle
    <2>4. \A jt \in Items : jt[1] = f /\ fpc'[f] = "join" => apc'[jt] # "idle"
      BY <1>4, JoinedFeed DEF Joined
    <2>5. \A g \in Feeds : FeedToParse(g)' <=> FeedToParse(g)
      BY <2>3 DEF FeedToParse
    <2>6. ASSUME NEW jt \in Items PROVE ArticleToParse(jt)' <=> ArticleToParse(jt)
      <3>1. CASE jt = it
        BY <2>2, <2>3, <3>1 DEF ArticleToParse
      <3>2. CASE jt # it /\ jt[1] = f
        BY <2>3, <2>4, <3>2 DEF ArticleToParse
      <3>3. CASE jt[1] # f
        BY <2>2, <2>3, <3>3, ItemsOf DEF ArticleToParse
      <3> QED
        BY <3>1, <3>2, <3>3
    <2>7. ToAdd' = ToAdd
      BY <2>2, <2>3 DEF ToAdd
    <2> QED
      BY <1>2, <2>5, <2>6, <2>7, SameToParse, AbstractStutter
  <1>5. CASE Insert(f) \/ WaitConexoes(f) \/ JoinArticles(f) \/ Release(f) \/ PostFeed(f)
    <2>1. PICK to \in FeedPC \ {"idle", "parse"} :
            /\ fpc' = [fpc EXCEPT ![f] = to] /\ apc' = apc /\ fpc[f] \notin {"idle", "parse"}
            /\ to \in {"insert", "createArticles", "waitArtigos"} <=>
                 fpc[f] \in {"insert", "createArticles", "waitArtigos"}
      BY <1>5 DEF Insert, WaitConexoes, JoinArticles, Release, EraseAndDelete, PostFeed, FeedPC
    <2>2. fpc'[f] = to /\ \A g \in Feeds : g # f => fpc'[g] = fpc[g]
      BY <1>1, <2>1
    <2>3. \A g \in Feeds : FeedToParse(g)' <=> FeedToParse(g)
      BY <2>1, <2>2 DEF FeedToParse
    <2>4. \A it \in Items : ArticleToParse(it)' <=> ArticleToParse(it)
      BY <2>1, <2>2, ItemsOf DEF ArticleToParse
    <2>5. ToAdd' = ToAdd
      BY <2>1 DEF ToAdd
    <2> QED
      BY <1>2, <2>3, <2>4, <2>5, SameToParse, AbstractStutter
  <1> QED
    BY <1>3, <1>4, <1>5 DEF ProcessarFeed

LEMMA ArticleImplements ==
  ASSUME TypeInv, NEW it \in Items, ProcessarArtigo(it)
  PROVE  Aggregator!Next \/ UNCHANGED Aggregator!vars
  <1> USE DEF AGoto, main
  <1>1. apc \in [Items -> ArticlePC]
    BY DEF TypeInv, TypeOK
  <1>2. /\ Phase' = Phase /\ fpc' = fpc
        /\ \A f \in Feeds : FeedToParse(f)' <=> FeedToParse(f)
    BY DEF ProcessarArtigo, ParseArticle, GiveUpArticle, AddToIndex, Find, FindAgain,
           PostConexao, PostArtigos, Phase, FeedToParse
  <1>0. PICK f \in Feeds : \E k \in DOMAIN List[f] : it = <<f, k>>
    BY ItemsOf
  <1>3. PICK k \in DOMAIN List[f] : it = <<f, k>>
    BY <1>0
  <1>4. CASE ParseArticle(it)
    <2>1. PICK to \in {"add", "find"} :
            apc[it] = "parse" /\ apc' = [apc EXCEPT ![it] = to] /\ index' = index
      BY <1>4 DEF ParseArticle, GiveUpArticle
    <2>2. apc'[it] = to /\ \A jt \in Items : jt # it => apc'[jt] = apc[jt]
      BY <1>1, <2>1
    <2>3. /\ ArticleToParse(it) /\ ~ArticleToParse(it)'
          /\ \A jt \in Items : jt # it => (ArticleToParse(jt)' <=> ArticleToParse(jt))
      BY <1>2, <2>1, <2>2 DEF ArticleToParse
    <2>4. ToParse' = ToParse \ {it}
      <3>1. ASSUME NEW x PROVE x \in ToParse' <=> x \in ToParse \ {it}
        <4>1. CASE x \in Items
          BY <2>3, <4>1, ToParseIs, ToParseWillBe
        <4>2. CASE x \notin Items
          BY <1>2, <4>2, ToParseIs, ToParseWillBe
        <4> QED
          BY <4>1, <4>2
      <3> QED
        BY <3>1
    <2>5. ToAdd' \in {ToAdd, ToAdd \cup {it}}
      <3>1. CASE to = "add"
        BY <2>1, <2>2, <3>1 DEF ToAdd
      <3>2. CASE to = "find"
        BY <2>1, <2>2, <3>2 DEF ToAdd
      <3> QED
        BY <3>1, <3>2
    <2>6. it \in ToParse
      BY <2>3, ToParseIs
    <2> QED
      BY <1>2, <1>3, <2>1, <2>4, <2>5, <2>6, AbstractParseArticle
  <1>5. CASE AddToIndex(it)
    <2>1. /\ apc[it] = "add" /\ apc' = [apc EXCEPT ![it] = "find"]
          /\ index' = [index EXCEPT ![List[f][k]] = @ + 1]
      <3>1. UrlOf(it) = List[f][k]
        BY <1>3 DEF UrlOf
      <3> QED
        BY <1>5, <3>1 DEF AddToIndex
    <2>2. apc'[it] = "find" /\ \A jt \in Items : jt # it => apc'[jt] = apc[jt]
      BY <1>1, <2>1
    <2>3. \A jt \in Items : ArticleToParse(jt)' <=> ArticleToParse(jt)
      BY <1>2, <2>1, <2>2 DEF ArticleToParse
    <2>4. it \in ToAdd /\ ToAdd' = ToAdd \ {it}
      BY <2>1, <2>2 DEF ToAdd
    <2> QED
      BY <1>2, <1>3, <2>1, <2>3, <2>4, SameToParse, AbstractAddToIndex
  <1>6. CASE Find(it) \/ FindAgain(it) \/ PostConexao(it) \/ PostArtigos(it)
    <2>1. PICK to \in {"findAgain", "postArtigos", "post", "done"} :
            /\ apc' = [apc EXCEPT ![it] = to] /\ index' = index
            /\ apc[it] \notin {"idle", "parse", "add"}
      BY <1>6 DEF Find, FindAgain, PostConexao, PostArtigos
    <2>2. apc'[it] = to /\ \A jt \in Items : jt # it => apc'[jt] = apc[jt]
      BY <1>1, <2>1
    <2>3. \A jt \in Items : ArticleToParse(jt)' <=> ArticleToParse(jt)
      BY <1>2, <2>1, <2>2 DEF ArticleToParse
    <2>4. ToAdd' = ToAdd
      BY <2>1, <2>2 DEF ToAdd
    <2> QED
      BY <1>2, <2>1, <2>3, <2>4, SameToParse, AbstractStutter
  <1> QED
    BY <1>4, <1>5, <1>6 DEF ProcessarArtigo

LEMMA StepImplements ==
  TypeInv /\ Joined /\ [Next]_vars => [Aggregator!Next]_(Aggregator!vars)
  <1> SUFFICES ASSUME TypeInv, Joined, [Next]_vars
               PROVE  Aggregator!Next \/ UNCHANGED Aggregator!vars
    OBVIOUS
  <1>1. CASE CreateFeed
    <2>1. /\ fpc[next] = "idle" /\ fpc' = [fpc EXCEPT ![next] = "parse"] /\ next \in Feeds
          /\ UNCHANGED <<pc, apc, index>>
      BY <1>1, Lists DEF CreateFeed, TypeInv, TypeOK, Turns
    <2>2. fpc'[next] = "parse" /\ \A g \in Feeds : g # next => fpc'[g] = fpc[g]
      BY <2>1 DEF TypeInv, TypeOK
    <2>3. \A g \in Feeds : FeedToParse(g)' <=> FeedToParse(g)
      BY <2>1, <2>2 DEF FeedToParse
    <2>4. \A it \in Items : ArticleToParse(it)' <=> ArticleToParse(it)
      BY <2>1, <2>2, ItemsOf DEF ArticleToParse
    <2>5. ToAdd' = ToAdd /\ Phase' = Phase
      BY <2>1 DEF ToAdd, Phase
    <2> QED
      BY <2>1, <2>3, <2>4, <2>5, SameToParse, AbstractStutter
  <1>2. CASE JoinFeeds
    <2>1. /\ \A f \in Feeds : fpc[f] = "done"
          /\ pc' = "queryIndex" /\ UNCHANGED <<fpc, apc, index>>
      BY <1>2 DEF JoinFeeds, AllJoined
    <2>2. \A f \in Feeds : ~FeedToParse(f)
      BY <2>1 DEF FeedToParse
    <2>3. \A it \in Items : apc[it] \in {"idle", "done"} /\ ~ArticleToParse(it)
      BY <2>1, ItemsOf DEF Joined, ArticleToParse
    <2>4. ToParse = {} /\ ToAdd = {} /\ Phase' = "querying"
      <3>1. \A x : x \notin ToParse
        BY <2>2, <2>3, ToParseIs
      <3> QED
        BY <2>1, <2>3, <3>1 DEF ToAdd, Phase
    <2>5. ToParse' = ToParse /\ ToAdd' = ToAdd
      BY <2>1, SameToParse DEF ToAdd, FeedToParse, ArticleToParse
    <2> QED
      BY <2>1, <2>4, <2>5, AbstractQuery
  <1>3. ASSUME NEW f \in Feeds, ProcessarFeed(f)
        PROVE  Aggregator!Next \/ UNCHANGED Aggregator!vars
    BY <1>3, FeedImplements
  <1>4. ASSUME NEW it \in Items, ProcessarArtigo(it)
        PROVE  Aggregator!Next \/ UNCHANGED Aggregator!vars
    BY <1>4, ArticleImplements
  <1>5. CASE Undefined \/ UNCHANGED vars
    <2>1. UNCHANGED <<pc, fpc, apc, index>>
      BY <1>5 DEF Undefined, vars, main
    <2>2. ToParse' = ToParse
      BY <2>1, SameToParse DEF FeedToParse, ArticleToParse
    <2>3. ToAdd' = ToAdd /\ Phase' = Phase
      BY <2>1 DEF ToAdd, Phase
    <2> QED
      BY <2>1, <2>2, <2>3, AbstractStutter
  <1> QED
    BY <1>1, <1>2, <1>3, <1>4, <1>5 DEF Next, ProcessAllFeeds, WildPointer, DataRace

\* A thread for each feed and article, too, parses every feed once and then the
\* articles that it lists, adds each of them to the index at most once, and lets the
\* user query when nothing is left, unless it comes to undefined behaviour first
\* (lines 104-309).
THEOREM AggregatorImplemented == Spec => ImplementsAggregator
  <1>1. Spec => [](TypeInv /\ Joined)
    BY TypeInvInit, TypeInvNext, JoinedInit, JoinedNext, PTL DEF Spec
  <1> QED
    BY <1>1, AbstractInit, StepImplements, PTL
       DEF Spec, ImplementsAggregator, Aggregator!Spec
===============================================================================
