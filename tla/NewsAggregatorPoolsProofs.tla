----------------------- MODULE NewsAggregatorPoolsProofs ------------------------
(***************************************************************************)
(* Proofs about NewsAggregatorPools for any feeds and articles and pools   *)
(* of any size: the invariants that its run checks, and that it implements *)
(* NewsAggregator.                                                         *)
(***************************************************************************)
EXTENDS NewsAggregatorPools, SequenceTheorems, TLAPS

-------------------------------------------------------------------------------
(* The queues of the pools *)

Injective(s) == \A i, j \in DOMAIN s : s[i] = s[j] => i = j

LEMMA Added ==
  ASSUME NEW S, NEW s \in Seq(S), Injective(s), NEW e \in S, e \notin Range(s)
  PROVE  /\ Append(s, e) \in Seq(S) /\ Injective(Append(s, e))
         /\ Range(Append(s, e)) = Range(s) \cup {e}
  <1> DEFINE t == Append(s, e)
  <1>1. /\ Len(s) \in Nat /\ DOMAIN s = 1 .. Len(s)
        /\ t \in Seq(S) /\ Len(t) = Len(s) + 1 /\ DOMAIN t = 1 .. Len(t)
        /\ \A i \in 1 .. Len(s) : t[i] = s[i]
        /\ t[Len(s) + 1] = e
    BY AppendProperties, LenProperties
  <1> HIDE DEF t
  <1>2. Injective(t)
    <2> SUFFICES ASSUME NEW i \in DOMAIN t, NEW j \in DOMAIN t, t[i] = t[j] PROVE i = j
      BY DEF Injective
    <2>1. \A k \in 1 .. Len(s) : s[k] # e
      BY <1>1 DEF Range
    <2>2. /\ i = Len(s) + 1 \/ (i \in DOMAIN s /\ t[i] = s[i])
          /\ j = Len(s) + 1 \/ (j \in DOMAIN s /\ t[j] = s[j])
      BY <1>1
    <2> QED
      BY <2>1, <2>2, <1>1 DEF Injective
  <1>3. ASSUME NEW x PROVE x \in Range(t) <=> x \in Range(s) \cup {e}
    <2>1. x \in Range(t) <=> \E i \in 1 .. Len(s) + 1 : t[i] = x
      BY <1>1 DEF Range
    <2>2. x \in Range(s) <=> \E i \in 1 .. Len(s) : s[i] = x
      BY <1>1 DEF Range
    <2>3. \A i \in 1 .. Len(s) + 1 : i = Len(s) + 1 \/ i \in 1 .. Len(s)
      BY <1>1
    <2>4. \A i \in 1 .. Len(s) : i \in 1 .. Len(s) + 1
      BY <1>1
    <2>5. Len(s) + 1 \in 1 .. Len(s) + 1
      BY <1>1
    <2> QED
      BY <2>1, <2>2, <2>3, <2>4, <2>5, <1>1
  <1> QED
    BY <1>1, <1>2, <1>3 DEF t

LEMMA Removed ==
  ASSUME NEW S, NEW s \in Seq(S), Injective(s), NEW k \in DOMAIN s,
         NEW t, t = SubSeq(s, 1, k - 1) \o SubSeq(s, k + 1, Len(s))
  PROVE  /\ t \in Seq(S) /\ Injective(t)
         /\ Range(t) = Range(s) \ {s[k]}
  <1> DEFINE a == SubSeq(s, 1, k - 1)
             b == SubSeq(s, k + 1, Len(s))
  <1>1. /\ Len(s) \in Nat /\ DOMAIN s = 1 .. Len(s) /\ k \in 1 .. Len(s)
        /\ \A i \in 1 .. Len(s) : s[i] \in S
    BY LenProperties, ElementOfSeq
  <1>2. /\ a \in Seq(S) /\ Len(a) = k - 1
        /\ \A i \in 1 .. k - 1 : a[i] = s[i]
    <2>1. \A i \in 1 .. k - 1 : s[i] \in S
      BY <1>1
    <2>2. /\ a \in Seq(S) /\ Len(a) = IF 1 <= k - 1 THEN k - 1 - 1 + 1 ELSE 0
          /\ \A i \in 1 .. k - 1 - 1 + 1 : a[i] = s[1 + i - 1]
      BY <1>1, <2>1, SubSeqProperties
    <2> QED
      BY <2>2, <1>1
  <1>3. /\ b \in Seq(S) /\ Len(b) = Len(s) - k
        /\ \A i \in 1 .. Len(s) - k : b[i] = s[k + i]
    <2>1. \A i \in k + 1 .. Len(s) : s[i] \in S
      BY <1>1
    <2>2. /\ b \in Seq(S) /\ Len(b) = IF k + 1 <= Len(s) THEN Len(s) - (k + 1) + 1 ELSE 0
          /\ \A i \in 1 .. Len(s) - (k + 1) + 1 : b[i] = s[k + 1 + i - 1]
      BY <1>1, <2>1, SubSeqProperties
    <2> HIDE DEF a, b
    <2>3. Len(b) = Len(s) - k /\ Len(s) - (k + 1) + 1 = Len(s) - k
      BY <1>1, <2>2
    <2>4. ASSUME NEW i \in 1 .. Len(s) - k PROVE b[i] = s[k + i]
      <3>1. k + 1 + i - 1 = k + i
        BY <1>1
      <3>2. b[i] = s[k + 1 + i - 1]
        BY <2>2, <2>3
      <3>3. QED  BY <3>1, <3>2
    <2> QED
      BY <2>2, <2>3, <2>4
  <1> HIDE DEF a, b
  <1>4. /\ t \in Seq(S) /\ Len(t) = Len(s) - 1 /\ DOMAIN t = 1 .. Len(s) - 1
        /\ \A i \in 1 .. Len(s) - 1 : i < k => t[i] = s[i]
        /\ \A i \in 1 .. Len(s) - 1 : i >= k => t[i] = s[i + 1]
    <2>1. /\ t \in Seq(S) /\ Len(t) = Len(a) + Len(b)
          /\ \A i \in 1 .. Len(a) + Len(b) :
               t[i] = IF i <= Len(a) THEN a[i] ELSE b[i - Len(a)]
      BY <1>2, <1>3, ConcatProperties DEF a, b
    <2>2. Len(t) = Len(s) - 1 /\ DOMAIN t = 1 .. Len(s) - 1
      <3>1. Len(a) + Len(b) = Len(s) - 1
        BY <1>1, <1>2, <1>3
      <3>2. DOMAIN t = 1 .. Len(t)
        BY <2>1, LenProperties, Zenon
      <3>3. QED  BY <2>1, <3>1, <3>2
    <2>3. ASSUME NEW i \in 1 .. Len(s) - 1, i < k PROVE t[i] = s[i]
      BY <2>1, <2>3, <1>1, <1>2, <1>3
    <2>4. ASSUME NEW i \in 1 .. Len(s) - 1, i >= k PROVE t[i] = s[i + 1]
      <3> DEFINE m == i - (k - 1)
      <3>1. m \in 1 .. Len(s) - k /\ k + m = i + 1
        BY <2>4, <1>1
      <3>2. i \in 1 .. Len(a) + Len(b) /\ ~(i <= Len(a)) /\ i - Len(a) = m
        BY <2>4, <1>1, <1>2, <1>3
      <3> HIDE DEF m
      <3> QED
        BY <3>1, <3>2, <2>1, <1>3
    <2> QED
      BY <2>1, <2>2, <2>3, <2>4
  <1>5. ASSUME NEW i \in DOMAIN t
        PROVE  \E n \in DOMAIN s : t[i] = s[n] /\ ((n < k /\ i = n) \/ (n > k /\ n = i + 1))
    <2>1. CASE i < k
      <3>1. i \in DOMAIN s /\ t[i] = s[i]
        BY <2>1, <1>1, <1>4
      <3> QED
        BY <3>1, <2>1
    <2>2. CASE ~(i < k)
      <3>1. i \in 1 .. Len(s) - 1 /\ i >= k
        BY <2>2, <1>1, <1>4
      <3>2. i + 1 \in DOMAIN s /\ i + 1 > k
        BY <3>1, <1>1
      <3>3. t[i] = s[i + 1]
        BY <3>1, <1>4
      <3> QED
        BY <3>2, <3>3
    <2> QED
      BY <2>1, <2>2
  <1>6. ASSUME NEW n \in DOMAIN s, n # k PROVE \E i \in DOMAIN t : t[i] = s[n]
    <2>1. CASE n < k
      <3>1. n \in 1 .. Len(s) - 1
        BY <2>1, <1>1
      <3> QED
        BY <2>1, <3>1, <1>4
    <2>2. CASE n > k
      <3> DEFINE i == n - 1
      <3>1. i \in 1 .. Len(s) - 1 /\ i >= k /\ i + 1 = n
        BY <2>2, <1>1
      <3> HIDE DEF i
      <3> QED
        BY <3>1, <1>4
    <2>3. n < k \/ n > k
      BY <1>1, <1>6
    <2> QED
      BY <2>1, <2>2, <2>3
  <1>7. Injective(t)
    <2> SUFFICES ASSUME NEW i \in DOMAIN t, NEW j \in DOMAIN t, t[i] = t[j] PROVE i = j
      BY DEF Injective
    <2>1. PICK n \in DOMAIN s : t[i] = s[n] /\ ((n < k /\ i = n) \/ (n > k /\ n = i + 1))
      BY <1>5
    <2>2. PICK m \in DOMAIN s : t[j] = s[m] /\ ((m < k /\ j = m) \/ (m > k /\ m = j + 1))
      BY <1>5
    <2>3. n = m
      BY <2>1, <2>2 DEF Injective
    <2>4. i \in Int /\ j \in Int /\ n \in Int /\ k \in Int
      BY <1>1, <1>4
    <2> QED
      BY <2>1, <2>2, <2>3, <2>4
  <1>8. ASSUME NEW x PROVE x \in Range(t) <=> x \in Range(s) \ {s[k]}
    <2>1. ASSUME x \in Range(t) PROVE x \in Range(s) \ {s[k]}
      <3>1. PICK i \in DOMAIN t : t[i] = x
        BY <2>1 DEF Range
      <3>2. PICK n \in DOMAIN s : t[i] = s[n] /\ (n < k \/ n > k)
        BY <1>5
      <3>3. n # k
        BY <1>1, <3>2
      <3>4. s[n] # s[k]
        BY <3>3 DEF Injective
      <3> QED
        BY <3>1, <3>2, <3>4 DEF Range
    <2>2. ASSUME x \in Range(s) \ {s[k]} PROVE x \in Range(t)
      <3>1. PICK n \in DOMAIN s : s[n] = x /\ n # k
        BY <2>2 DEF Range
      <3>2. PICK i \in DOMAIN t : t[i] = s[n]
        BY <3>1, <1>6
      <3> QED
        BY <3>1, <3>2 DEF Range
    <2> QED
      BY <2>1, <2>2
  <1> QED
    BY <1>4, <1>7, <1>8
-------------------------------------------------------------------------------
(* The invariant *)

LEMMA Lists ==
  /\ Feeds = 1 .. Len(List) /\ Len(List) \in Nat
  /\ \A f \in Feeds : /\ Len(List[f]) \in Nat /\ DOMAIN List[f] = 1 .. Len(List[f])
                      /\ List[f] \in Seq(Articles)
  BY PoolsAssumption DEF Feeds

LEMMA RangeOfQueue == \A S : \A s \in Seq(S) : Range(s) \subseteq S
  BY ElementOfSeq DEF Range

LEMMA NoneLeft ==
  ASSUME NEW S, NEW s \in Seq(S), \A e \in S : e \notin Range(s) PROVE s = <<>>
  <1>1. Len(s) \in Nat /\ \A i \in 1 .. Len(s) : s[i] \in S /\ s[i] \in Range(s)
    BY ElementOfSeq DEF Range
  <1>2. Len(s) = 0
    BY <1>1
  <1> QED
    BY <1>2, EmptySeq

LEMMA ItemsOf ==
  /\ \A f \in Feeds : \A k \in DOMAIN List[f] : <<f, k>> \in Items
  /\ \A it \in Items : /\ it[1] \in Feeds /\ it[2] \in DOMAIN List[it[1]]
                       /\ it = <<it[1], it[2]>> /\ UrlOf(it) \in Articles
  <1>1. \A f \in Feeds : \A k \in DOMAIN List[f] : <<f, k>> \in Items
    BY DEF Items
  <1>2. ASSUME NEW it \in Items
        PROVE  /\ it[1] \in Feeds /\ it[2] \in DOMAIN List[it[1]]
               /\ it = <<it[1], it[2]>> /\ UrlOf(it) \in Articles
    <2>1. PICK f \in Feeds : it \in {f} \X DOMAIN List[f]
      BY DEF Items
    <2>2. it[1] = f /\ it[2] \in DOMAIN List[f] /\ it = <<it[1], it[2]>>
      BY <2>1
    <2> QED
      BY <2>2, Lists DEF UrlOf
  <1> QED
    BY <1>1, <1>2

Queues ==
  /\ fpending \in Seq(Feeds) /\ Injective(fpending)
  /\ apending \in Seq(Items) /\ Injective(apending)
  /\ frunning \subseteq Feeds /\ ffinished \subseteq Feeds
  /\ arunning \subseteq Items /\ afinished \subseteq Items

\* A feed is where its call of processarFeed has come to.
FeedTurns ==
  /\ next \in Nat \ {0}
  /\ \A f \in Feeds :
       /\ f \in Range(fpending) <=> (fpc[f] = "idle" /\ f < next)
       /\ f \in frunning <=> fpc[f] \in {"parse", "schedule", "return"}
       /\ f \in ffinished <=> fpc[f] = "done"
       /\ f >= next => fpc[f] = "idle"

\* A feed that found articles has scheduled all of them when it returns.
FeedArticles ==
  \A f \in Feeds :
    /\ fnext[f] \in 1 .. Len(List[f]) + 1
    /\ fpc[f] \in {"idle", "parse"} => fnext[f] = 1
    /\ fpc[f] = "schedule" => fnext[f] \in DOMAIN List[f]
    /\ fpc[f] \in {"return", "done"} => fnext[f] \in {1, Len(List[f]) + 1}

Scheduled(it) == it[2] < fnext[it[1]]

\* An article is where its call of processarArtigo has come to, and keeps its
\* struct until that is freed.
ArticleTurns ==
  \A it \in Items :
    /\ it \in Range(apending) <=> (apc[it] = "idle" /\ Scheduled(it))
    /\ it \in arunning <=> apc[it] \in {"parse", "lock", "add", "free", "return"}
    /\ it \in afinished <=> apc[it] = "done"
    /\ ~Scheduled(it) => apc[it] = "idle"
    /\ Scheduled(it) /\ apc[it] \in {"idle", "parse", "lock", "add", "free"} => it \in heap

FeedsDone == \A f \in Feeds : fpc[f] = "done"

\* What main has waited for.
Waited ==
  /\ pc # "schedule" => next \notin Feeds
  /\ pc \notin {"schedule", "waitFeeds"} => fprior = Feeds
  /\ pc \in {"waitArticles", "joinArticles", "destroy", "queryIndex"} => FeedsDone
  /\ astate # "open" => FeedsDone
  /\ pc = "joinArticles" => aprior = {it \in Items : Scheduled(it)}
  /\ pc \in {"destroy", "queryIndex"} => \A it \in Items : Scheduled(it) => apc[it] = "done"

\* One article at a time is between the reading and the writing of the index.
Adding ==
  /\ \A it \in Items : apc[it] = "add" => mutexIndex /\ words[it] = index[UrlOf(it)]
  /\ \A it, jt \in Items : apc[it] = "add" /\ apc[jt] = "add" => it = jt

Turns == TypeOK /\ Queues /\ FeedTurns /\ FeedArticles /\ ArticleTurns
IInv  == Turns /\ Waited /\ Adding

LEMMA InitIInv == Init => IInv
  <1> SUFFICES ASSUME Init PROVE IInv
    OBVIOUS
  <1> USE DEF Init, FeedsPool!Init, ArticlesPool!Init
  <1>1. TypeOK
    BY DEF TypeOK, MainPC, FeedPC, ArticlePC
  <1>2. Queues
    BY DEF Queues, Injective
  <1>3. Range(fpending) = {} /\ Range(apending) = {}
    BY DEF Range
  <1>4. FeedTurns
    BY <1>3, Lists DEF FeedTurns
  <1>5. FeedArticles
    BY Lists DEF FeedArticles
  <1>6. ArticleTurns
    <2>1. \A it \in Items : ~Scheduled(it)
      BY ItemsOf, Lists DEF Scheduled
    <2> QED
      BY <1>3, <2>1 DEF ArticleTurns
  <1>7. Waited /\ Adding
    BY DEF Waited, Adding
  <1> QED
    BY <1>1, <1>2, <1>4, <1>5, <1>6, <1>7 DEF IInv, Turns
-------------------------------------------------------------------------------
(* What the operations of the pools do to their queues *)

LEMMA FeedSubmitted ==
  ASSUME Queues, NEW f \in Feeds, FeedsPool!Submit(f)
  PROVE  /\ f \notin Range(fpending) /\ f \notin frunning /\ f \notin ffinished
         /\ fpending' \in Seq(Feeds) /\ Injective(fpending')
         /\ Range(fpending') = Range(fpending) \cup {f}
         /\ frunning' = frunning /\ ffinished' = ffinished /\ fprior' = fprior
  <1>1. f \notin Range(fpending) /\ f \notin frunning /\ f \notin ffinished
    BY DEF FeedsPool!Submit, FeedsPool!Submitted, FeedsPool!Range, Range
  <1>2. /\ fpending' = Append(fpending, f)
        /\ frunning' = frunning /\ ffinished' = ffinished /\ fprior' = fprior
    BY DEF FeedsPool!Submit
  <1> QED
    BY <1>1, <1>2, Added DEF Queues

LEMMA FeedBegun ==
  ASSUME Queues, NEW f \in Feeds, BeginFeed(f)
  PROVE  /\ f \in Range(fpending)
         /\ fpending' \in Seq(Feeds) /\ Injective(fpending')
         /\ Range(fpending') = Range(fpending) \ {f}
         /\ frunning' = frunning \cup {f} /\ ffinished' = ffinished /\ fprior' = fprior
  <1>1. PICK k \in DOMAIN fpending : fpending[k] = f /\ FeedsPool!Begin(k)
    BY DEF BeginFeed
  <1>2. /\ fpending' = SubSeq(fpending, 1, k - 1) \o SubSeq(fpending, k + 1, Len(fpending))
        /\ frunning' = frunning \cup {f} /\ ffinished' = ffinished /\ fprior' = fprior
    BY <1>1 DEF FeedsPool!Begin, FeedsPool!RemoveAt
  <1>3. fpending \in Seq(Feeds) /\ Injective(fpending) /\ f \in Range(fpending)
    BY <1>1 DEF Queues, Range
  <1> HIDE DEF Injective
  <1> QED
    BY <1>1, <1>2, <1>3, Removed

LEMMA ArticleSubmitted ==
  ASSUME Queues, NEW it \in Items, ArticlesPool!Submit(it)
  PROVE  /\ apending' \in Seq(Items) /\ Injective(apending')
         /\ Range(apending') = Range(apending) \cup {it}
         /\ arunning' = arunning /\ afinished' = afinished
         /\ astate' = astate /\ aprior' = aprior
  <1>1. it \notin Range(apending)
    BY DEF ArticlesPool!Submit, ArticlesPool!Submitted, ArticlesPool!Range, Range
  <1>2. /\ apending' = Append(apending, it)
        /\ arunning' = arunning /\ afinished' = afinished
        /\ astate' = astate /\ aprior' = aprior
    BY DEF ArticlesPool!Submit
  <1> QED
    BY <1>1, <1>2, Added DEF Queues

LEMMA ArticleBegun ==
  ASSUME Queues, NEW it \in Items, BeginArticle(it)
  PROVE  /\ it \in Range(apending)
         /\ apending' \in Seq(Items) /\ Injective(apending')
         /\ Range(apending') = Range(apending) \ {it}
         /\ arunning' = arunning \cup {it} /\ afinished' = afinished
         /\ astate' = astate /\ aprior' = aprior
  <1>1. PICK k \in DOMAIN apending : apending[k] = it /\ ArticlesPool!Begin(k)
    BY DEF BeginArticle
  <1>2. /\ apending' = SubSeq(apending, 1, k - 1) \o SubSeq(apending, k + 1, Len(apending))
        /\ arunning' = arunning \cup {it} /\ afinished' = afinished
        /\ astate' = astate /\ aprior' = aprior
    BY <1>1 DEF ArticlesPool!Begin, ArticlesPool!RemoveAt
  <1>3. apending \in Seq(Items) /\ Injective(apending) /\ it \in Range(apending)
    BY <1>1 DEF Queues, Range
  <1> HIDE DEF Injective
  <1> QED
    BY <1>1, <1>2, <1>3, Removed
-------------------------------------------------------------------------------
(* Every step keeps Turns *)

LEMMA SameFeeds ==
  ASSUME Turns, UNCHANGED <<next, fpc, fnext, fpending, frunning, ffinished>>
  PROVE  FeedTurns' /\ FeedArticles'
  BY DEF Turns, FeedTurns, FeedArticles

LEMMA SameArticles ==
  ASSUME Turns, UNCHANGED <<fnext, apc, heap, apending, arunning, afinished>>
  PROVE  ArticleTurns'
  BY DEF Turns, ArticleTurns, Scheduled

\* A feed goes from one point of its call to another, in none of the queues.
LEMMA FeedMoves ==
  ASSUME Turns, NEW f \in Feeds, NEW to \in {"schedule", "return"},
         fpc[f] \in {"parse", "schedule"}, fpc' = [fpc EXCEPT ![f] = to],
         UNCHANGED <<next, fpending, frunning, ffinished>>
  PROVE  FeedTurns'
  <1>1. fpc \in [Feeds -> FeedPC]
    BY DEF Turns, TypeOK
  <1>2. /\ fpc'[f] = to /\ \A g \in Feeds \ {f} : fpc'[g] = fpc[g]
    BY <1>1
  <1>3. FeedTurns
    BY DEF Turns
  <1> QED
    BY <1>2, <1>3 DEF FeedTurns

LEMMA ArticleMoves ==
  ASSUME Turns, NEW it \in Items, NEW to \in {"lock", "add", "free", "return"},
         apc[it] \in {"parse", "lock", "add", "free"}, apc' = [apc EXCEPT ![it] = to],
         heap' = heap \/ (to = "return" /\ heap' = heap \ {it}),
         UNCHANGED <<fnext, apending, arunning, afinished>>
  PROVE  ArticleTurns'
  <1>1. apc \in [Items -> ArticlePC]
    BY DEF Turns, TypeOK
  <1>2. apc'[it] = to /\ \A jt \in Items \ {it} : apc'[jt] = apc[jt]
    BY <1>1
  <1>3. ArticleTurns /\ \A jt \in Items : Scheduled(jt)' <=> Scheduled(jt)
    BY DEF Turns, Scheduled
  <1> QED
    BY <1>2, <1>3 DEF ArticleTurns

LEMMA ScheduleTurns == Turns /\ Schedule => Turns'
  <1> SUFFICES ASSUME Turns, Schedule PROVE Turns'
    OBVIOUS
  <1>1. /\ UNCHANGED <<fpc, fnext, apc, words, index, mutexIndex, heap>>
        /\ UNCHANGED <<apending, arunning, afinished, astate, aprior>>
    BY DEF Schedule, shared, articlesPool
  <1>2. ArticleTurns'
    BY <1>1, SameArticles
  <1>3. CASE next \in Feeds /\ FeedsPool!Submit(next) /\ next' = next + 1 /\ UNCHANGED pc
    <2>1. /\ next \notin Range(fpending) /\ next \notin frunning /\ next \notin ffinished
          /\ fpending' \in Seq(Feeds) /\ Injective(fpending')
          /\ Range(fpending') = Range(fpending) \cup {next}
          /\ frunning' = frunning /\ ffinished' = ffinished
      BY <1>3, FeedSubmitted DEF Turns
    <2>2. Queues'
      BY <1>1, <2>1 DEF Queues, Turns
    <2>3. FeedTurns'
      <3>1. FeedTurns /\ Feeds = 1 .. Len(List)
        BY Lists DEF Turns
      <3>2. \A f \in Feeds : /\ f < next' <=> (f < next \/ f = next)
                             /\ f >= next' => f >= next
        BY <3>1, <1>3 DEF FeedTurns
      <3>3. next' \in Nat \ {0} /\ Range(fpending)' = Range(fpending) \cup {next}
        BY <1>3, <3>1, <2>1 DEF FeedTurns
      <3>4. fpc[next] = "idle"
        BY <1>3, <3>1 DEF FeedTurns
      <3> QED
        BY <1>1, <2>1, <3>1, <3>2, <3>3, <3>4 DEF FeedTurns
    <2>4. FeedArticles' /\ TypeOK'
      BY <1>1, <1>3 DEF Turns, TypeOK, FeedArticles
    <2> QED
      BY <1>2, <2>2, <2>3, <2>4 DEF Turns
  <1>4. CASE pc' = "waitFeeds" /\ UNCHANGED <<next, feedsPool>>
    BY <1>1, <1>2, <1>4, SameFeeds DEF Turns, TypeOK, MainPC, Queues, feedsPool
  <1> QED
    BY <1>3, <1>4 DEF Schedule

LEMMA WaitTurns == Turns /\ (Wait \/ Destroy) => Turns'
  <1> SUFFICES ASSUME Turns, Wait \/ Destroy PROVE Turns'
    OBVIOUS
  <1>1. /\ UNCHANGED <<next, fpc, fnext, apc, words, index, mutexIndex, heap>>
        /\ pc' \in MainPC
    BY DEF Wait, Waits, Unused, Destroy, Goto, shared, MainPC
  <1>2. UNCHANGED <<fpending, frunning, ffinished, apending, arunning, afinished>>
    BY DEF Wait, Waits, Destroy, pools, feedsPool, articlesPool,
           FeedsPool!Close, FeedsPool!Return, ArticlesPool!Close, ArticlesPool!Return
  <1> QED
    BY <1>1, <1>2, SameFeeds, SameArticles DEF Turns, TypeOK, Queues

LEMMA FeedTurnsNext ==
  ASSUME Turns, NEW f \in Feeds, BeginFeed(f) \/ ParseFeed(f) \/ ReturnFeed(f)
  PROVE  Turns'
  <1> USE DEF shared, articlesPool
  <1>1. /\ UNCHANGED <<pc, next, fnext, apc, words, index, mutexIndex, heap>>
        /\ UNCHANGED <<apending, arunning, afinished>>
    BY DEF BeginFeed, ParseFeed, ReturnFeed
  <1>2. ArticleTurns'
    BY <1>1, SameArticles
  <1>3. /\ fpc \in [Feeds -> FeedPC] /\ f \in 1 .. Len(List) /\ next \in Nat
        /\ Queues /\ FeedTurns /\ FeedArticles
    BY Lists DEF Turns, TypeOK, FeedTurns
  <1>4. CASE BeginFeed(f)
    <2>1. /\ f \in Range(fpending)
          /\ fpending' \in Seq(Feeds) /\ Injective(fpending')
          /\ Range(fpending') = Range(fpending) \ {f}
          /\ frunning' = frunning \cup {f} /\ ffinished' = ffinished
      BY <1>3, <1>4, FeedBegun
    <2>2. /\ fpc' = [fpc EXCEPT ![f] = "parse"] /\ fpc[f] = "idle" /\ f < next
      BY <1>3, <1>4, <2>1 DEF BeginFeed, FeedTurns
    <2>3. fpc'[f] = "parse" /\ \A g \in Feeds \ {f} : fpc'[g] = fpc[g]
      BY <1>3, <2>2
    <2>4. Queues' /\ TypeOK'
      BY <1>1, <1>3, <2>1, <2>2 DEF Queues, Turns, TypeOK, FeedPC
    <2>5. FeedTurns'
      <3>1. Range(fpending)' = Range(fpending) \ {f} /\ ~(f >= next)
        BY <2>1, <2>2, <1>3
      <3> QED
        BY <1>1, <1>3, <2>1, <2>2, <2>3, <3>1 DEF FeedTurns
    <2>6. FeedArticles'
      BY <1>1, <1>3, <2>2, <2>3 DEF FeedArticles
    <2> QED
      BY <1>2, <2>4, <2>5, <2>6 DEF Turns
  <1>5. CASE ParseFeed(f)
    <2>1. /\ UNCHANGED <<fpending, frunning, ffinished>>
          /\ fpc[f] = "parse"
          /\ \/ fpc' = [fpc EXCEPT ![f] = "schedule"] /\ List[f] # <<>>
             \/ fpc' = [fpc EXCEPT ![f] = "return"]
      BY <1>5 DEF ParseFeed, GiveUp, HasArticles, FGoto, feedsPool
    <2>2. FeedTurns'
      BY <1>1, <2>1, FeedMoves
    <2>3. Queues' /\ TypeOK'
      BY <1>1, <1>3, <2>1 DEF Queues, Turns, TypeOK, FeedPC
    <2>4. FeedArticles'
      <3>1. fnext[f] = 1 /\ (List[f] # <<>> => 1 \in DOMAIN List[f])
        BY <1>3, <2>1, Lists DEF FeedArticles
      <3>2. \A g \in Feeds \ {f} : fpc'[g] = fpc[g]
        BY <1>3, <2>1
      <3>3. /\ fpc'[f] = "return" \/ (fpc'[f] = "schedule" /\ List[f] # <<>>)
        BY <1>3, <2>1
      <3> QED
        BY <1>1, <1>3, <3>1, <3>2, <3>3 DEF FeedArticles
    <2> QED
      BY <1>2, <2>2, <2>3, <2>4 DEF Turns
  <1>6. CASE ReturnFeed(f)
    <2>1. /\ fpending' = fpending /\ fpc[f] = "return" /\ fpc' = [fpc EXCEPT ![f] = "done"]
          /\ frunning' = frunning \ {f} /\ ffinished' = ffinished \cup {f}
      BY <1>6 DEF ReturnFeed, FGoto, FeedsPool!Finish
    <2>2. fpc'[f] = "done" /\ \A g \in Feeds \ {f} : fpc'[g] = fpc[g]
      BY <1>3, <2>1
    <2>3. Queues' /\ TypeOK'
      BY <1>1, <1>3, <2>1 DEF Queues, Turns, TypeOK, FeedPC
    <2>4. FeedTurns'
      BY <1>1, <1>3, <2>1, <2>2 DEF FeedTurns
    <2>5. FeedArticles'
      BY <1>1, <1>3, <2>1, <2>2 DEF FeedArticles
    <2> QED
      BY <1>2, <2>3, <2>4, <2>5 DEF Turns
  <1> QED
    BY <1>4, <1>5, <1>6

LEMMA ScheduleArticleTurns ==
  ASSUME Turns, NEW f \in Feeds, ScheduleArticle(f)
  PROVE  Turns'
  <1>0. PICK it : it = <<f, fnext[f]>>
    OBVIOUS
  <1>1. /\ UNCHANGED <<pc, next, apc, words, index, mutexIndex, fpending, frunning, ffinished>>
        /\ fpc[f] = "schedule" /\ heap' = heap \cup {it} /\ ArticlesPool!Submit(it)
        /\ fnext' = [fnext EXCEPT ![f] = @ + 1]
        /\ fpc' = [fpc EXCEPT ![f] = IF fnext[f] = Len(List[f]) THEN "return" ELSE @]
    BY <1>0 DEF ScheduleArticle, Allocate, feedsPool
  <1>2. /\ TypeOK /\ Queues /\ FeedTurns /\ FeedArticles /\ ArticleTurns
        /\ fnext \in [Feeds -> Nat] /\ fpc \in [Feeds -> FeedPC]
    BY DEF Turns, TypeOK
  <1>3. fnext[f] \in 1 .. Len(List[f]) /\ Len(List[f]) \in Nat /\ it \in Items
    BY <1>0, <1>1, <1>2, Lists, ItemsOf DEF FeedArticles
  <1>4. /\ apending' \in Seq(Items) /\ Injective(apending')
        /\ Range(apending') = Range(apending) \cup {it}
        /\ arunning' = arunning /\ afinished' = afinished
    BY <1>1, <1>2, <1>3, ArticleSubmitted
  <1>5. /\ fnext'[f] = fnext[f] + 1 /\ \A g \in Feeds \ {f} : fnext'[g] = fnext[g]
        /\ \A g \in Feeds \ {f} : fpc'[g] = fpc[g]
        /\ fpc'[f] = IF fnext[f] = Len(List[f]) THEN "return" ELSE "schedule"
    BY <1>1, <1>2
  <1>6. Queues'
    BY <1>1, <1>2, <1>4 DEF Queues
  <1>7. TypeOK'
    <2>1. fnext' \in [Feeds -> Nat] /\ fpc' \in [Feeds -> FeedPC]
      BY <1>1, <1>2, <1>3 DEF FeedPC
    <2>2. heap' \subseteq Items
      BY <1>1, <1>2, <1>3 DEF TypeOK
    <2> QED
      BY <1>1, <1>2, <2>1, <2>2 DEF TypeOK
  <1>8. FeedTurns'
    BY <1>1, <1>2, FeedMoves
  <1>9. FeedArticles'
    <2>1. /\ fnext'[f] \in 1 .. Len(List[f]) + 1
          /\ fpc'[f] = "schedule" => fnext'[f] \in 1 .. Len(List[f])
          /\ fpc'[f] = "return" => fnext'[f] = Len(List[f]) + 1
          /\ fpc'[f] \in {"schedule", "return"}
      BY <1>3, <1>5
    <2>2. DOMAIN List[f] = 1 .. Len(List[f])
      BY Lists
    <2> QED
      BY <1>2, <1>5, <2>1, <2>2 DEF FeedArticles
  <1>10. ArticleTurns'
    <2>1. ASSUME NEW jt \in Items, jt # it PROVE Scheduled(jt)' <=> Scheduled(jt)
      <3>1. jt[1] \in Feeds /\ jt[2] \in Nat /\ jt = <<jt[1], jt[2]>>
        BY ItemsOf, Lists
      <3>2. CASE jt[1] = f
        <4>1. jt[2] # fnext[f]
          BY <1>0, <2>1, <3>1, <3>2
        <4> QED
          BY <3>1, <3>2, <4>1, <1>3, <1>5 DEF Scheduled
      <3>3. CASE jt[1] # f
        BY <3>1, <3>3, <1>5 DEF Scheduled
      <3> QED
        BY <3>2, <3>3
    <2>2. ~Scheduled(it) /\ Scheduled(it)'
      <3>1. it[1] = f /\ it[2] = fnext[f] /\ fnext[f] \in Int
        BY <1>0, <1>3
      <3>2. ~(fnext[f] < fnext[f]) /\ fnext[f] < fnext'[f]
        BY <1>5, <3>1
      <3> QED
        BY <3>1, <3>2 DEF Scheduled
    <2>3. apc[it] = "idle"
      BY <1>2, <1>3, <2>2 DEF ArticleTurns
    <2>4. /\ it \in Items /\ heap' = heap \cup {it} /\ apc' = apc
          /\ Range(apending)' = Range(apending) \cup {it}
      BY <1>1, <1>3, <1>4
    <2>5. ArticleTurns /\ arunning' = arunning /\ afinished' = afinished
      BY <1>2, <1>4
    <2> QED
      BY <2>1, <2>2, <2>3, <2>4, <2>5 DEF ArticleTurns
  <1> QED
    BY <1>6, <1>7, <1>8, <1>9, <1>10 DEF Turns

LEMMA ArticleTurnsNext ==
  ASSUME Turns, NEW it \in Items, BeginArticle(it) \/ ProcessarArtigo(it)
  PROVE  Turns'
  <1> USE DEF shared, pools, feedsPool, articlesPool, AGoto
  <1>1. UNCHANGED <<pc, next, fpc, fnext, fpending, frunning, ffinished>>
    BY DEF BeginArticle, ProcessarArtigo, ParseArticle, LockIndex, AddToIndex, Free,
           ReturnArticle
  <1>2. FeedTurns' /\ FeedArticles'
    BY <1>1, SameFeeds
  <1>3. TypeOK /\ Queues /\ ArticleTurns /\ apc \in [Items -> ArticlePC]
    BY DEF Turns, TypeOK
  <1>4. \A jt \in Items : Scheduled(jt)' <=> Scheduled(jt)
    BY <1>1 DEF Scheduled
  <1>5. CASE BeginArticle(it)
    <2>1. /\ it \in Range(apending)
          /\ apending' \in Seq(Items) /\ Injective(apending')
          /\ Range(apending') = Range(apending) \ {it}
          /\ arunning' = arunning \cup {it} /\ afinished' = afinished
      BY <1>3, <1>5, ArticleBegun
    <2>2. /\ apc' = [apc EXCEPT ![it] = "parse"] /\ UNCHANGED <<words, index, mutexIndex, heap>>
      BY <1>5 DEF BeginArticle
    <2>3. apc'[it] = "parse" /\ \A jt \in Items \ {it} : apc'[jt] = apc[jt]
      BY <1>3, <2>2
    <2>4. Queues' /\ TypeOK'
      BY <1>1, <1>3, <2>1, <2>2 DEF Queues, TypeOK, ArticlePC
    <2>5. ArticleTurns'
      BY <1>3, <1>4, <2>1, <2>2, <2>3 DEF ArticleTurns
    <2> QED
      BY <1>2, <2>4, <2>5 DEF Turns
  <1>6. CASE ReturnArticle(it)
    <2>1. /\ apending' = apending /\ apc[it] = "return" /\ apc' = [apc EXCEPT ![it] = "done"]
          /\ arunning' = arunning \ {it} /\ afinished' = afinished \cup {it}
          /\ UNCHANGED <<words, index, mutexIndex, heap>>
      BY <1>6 DEF ReturnArticle, ArticlesPool!Finish
    <2>2. apc'[it] = "done" /\ \A jt \in Items \ {it} : apc'[jt] = apc[jt]
      BY <1>3, <2>1
    <2>3. Queues' /\ TypeOK'
      BY <1>1, <1>3, <2>1 DEF Queues, TypeOK, ArticlePC
    <2>4. ArticleTurns'
      BY <1>3, <1>4, <2>1, <2>2 DEF ArticleTurns
    <2> QED
      BY <1>2, <2>3, <2>4 DEF Turns
  <1>7. CASE ParseArticle(it) \/ LockIndex(it) \/ AddToIndex(it) \/ Free(it)
    <2>1. UNCHANGED <<apending, arunning, afinished>>
      BY <1>7 DEF ParseArticle, LockIndex, AddToIndex, Free
    <2>2. PICK to \in {"lock", "add", "free", "return"} :
            /\ apc[it] \in {"parse", "lock", "add", "free"} /\ apc' = [apc EXCEPT ![it] = to]
            /\ heap' = heap \/ (to = "return" /\ heap' = heap \ {it})
      BY <1>7 DEF ParseArticle, LockIndex, AddToIndex, Free
    <2>3. ArticleTurns'
      BY <1>1, <2>1, <2>2, ArticleMoves
    <2>4. words' \in [Items -> Nat] /\ index' \in [Articles -> Nat] /\ mutexIndex' \in BOOLEAN
      <3>1. UrlOf(it) \in Articles /\ words \in [Items -> Nat] /\ index \in [Articles -> Nat]
        BY <1>3, ItemsOf DEF TypeOK
      <3>2. CASE LockIndex(it)
        BY <3>1, <3>2 DEF LockIndex
      <3>3. CASE AddToIndex(it)
        <4>1. /\ index' = [index EXCEPT ![UrlOf(it)] = words[it] + 1]
              /\ words' = words /\ mutexIndex' = FALSE
          BY <3>3 DEF AddToIndex
        <4>2. words[it] + 1 \in Nat
          BY <3>1
        <4> HIDE DEF AGoto
        <4> QED
          BY <3>1, <4>1, <4>2
      <3>4. CASE ParseArticle(it) \/ Free(it)
        BY <3>4, <1>3 DEF ParseArticle, Free, TypeOK
      <3> QED
        BY <1>7, <3>2, <3>3, <3>4
    <2>5. TypeOK' /\ Queues'
      <3>1. apc' \in [Items -> ArticlePC] /\ heap' \subseteq Items
        BY <1>3, <2>2 DEF ArticlePC, TypeOK
      <3> QED
        BY <1>1, <1>3, <2>1, <2>4, <3>1 DEF TypeOK, Queues
    <2> QED
      BY <1>2, <2>3, <2>5 DEF Turns
  <1> QED
    BY <1>5, <1>6, <1>7 DEF ProcessarArtigo

LEMMA NextTurns == Turns /\ [Next]_vars => Turns'
  <1> SUFFICES ASSUME Turns, [Next]_vars PROVE Turns'
    OBVIOUS
  <1>1. CASE UNCHANGED vars
    BY <1>1, SameFeeds, SameArticles
       DEF Turns, TypeOK, Queues, vars, shared, pools, feedsPool, articlesPool
  <1>2. CASE Next
    BY <1>1, <1>2, ScheduleTurns, WaitTurns, FeedTurnsNext, ScheduleArticleTurns, ArticleTurnsNext
       DEF Next, ProcessAllFeeds, ProcessarFeed, Terminated
  <1> QED
    BY <1>1, <1>2
-------------------------------------------------------------------------------
(* Every step keeps what main has waited for *)

LEMMA CloseFeeds ==
  ASSUME Turns, next \notin Feeds, FeedsPool!Close
  PROVE  fprior' = Feeds
  <1>1. FeedTurns /\ Queues /\ next \in Nat \ {0} /\ fpc \in [Feeds -> FeedPC]
    BY DEF Turns, TypeOK, FeedTurns
  <1>2. \A f \in Feeds : f < next
    BY <1>1, Lists
  <1>3. fprior' = Range(fpending) \cup frunning \cup ffinished
    BY DEF FeedsPool!Close, FeedsPool!Submitted, FeedsPool!Range, Range
  <1>4. Range(fpending) \subseteq Feeds
    BY <1>1, RangeOfQueue DEF Queues
  <1> QED
    BY <1>1, <1>2, <1>3, <1>4 DEF FeedTurns, FeedPC, Queues

LEMMA CloseArticles ==
  ASSUME Turns, ArticlesPool!Close
  PROVE  aprior' = {it \in Items : Scheduled(it)}
  <1>1. ArticleTurns /\ Queues /\ apc \in [Items -> ArticlePC]
    BY DEF Turns, TypeOK
  <1>2. aprior' = Range(apending) \cup arunning \cup afinished
    BY DEF ArticlesPool!Close, ArticlesPool!Submitted, ArticlesPool!Range, Range
  <1>3. Range(apending) \subseteq Items
    BY <1>1, RangeOfQueue DEF Queues
  <1>4. \A it \in Items : it \in aprior' <=> Scheduled(it)
    BY <1>1, <1>2 DEF ArticleTurns, ArticlePC
  <1> QED
    BY <1>1, <1>2, <1>3, <1>4 DEF Queues

\* When the feeds are done nothing schedules an article any more.
LEMMA DoneFeeds ==
  ASSUME Turns, FeedsDone, NEW f \in Feeds
  PROVE  ~BeginFeed(f) /\ ~ProcessarFeed(f)
  <1>1. fpc[f] = "done"
    BY DEF FeedsDone
  <1>2. ~BeginFeed(f)
    BY <1>1, FeedBegun DEF Turns, FeedTurns
  <1> QED
    BY <1>1, <1>2 DEF ProcessarFeed, ParseFeed, GiveUp, FGoto, ScheduleArticle, ReturnFeed

LEMMA FeedsWaited ==
  ASSUME Turns, Waited, NEW f \in Feeds, BeginFeed(f) \/ ProcessarFeed(f)
  PROVE  Waited'
  <1>1. UNCHANGED <<pc, next, fprior, astate>>
    BY DEF BeginFeed, ProcessarFeed, ParseFeed, GiveUp, ScheduleArticle, ReturnFeed,
           feedsPool, articlesPool, FeedsPool!Begin, FeedsPool!Finish, ArticlesPool!Submit
  <1>2. ~FeedsDone
    BY DoneFeeds
  <1> QED
    BY <1>1, <1>2 DEF Waited

LEMMA ArticlesWaited ==
  ASSUME Turns, Waited, NEW it \in Items, BeginArticle(it) \/ ProcessarArtigo(it)
  PROVE  Waited'
  <1>1. UNCHANGED <<pc, next, fpc, fnext, fprior, astate, aprior>>
    BY DEF BeginArticle, ProcessarArtigo, ParseArticle, LockIndex, AddToIndex, Free,
           ReturnArticle, pools, feedsPool, articlesPool, ArticlesPool!Begin, ArticlesPool!Finish
  <1>2. apc[it] # "done"
    BY DEF BeginArticle, ProcessarArtigo, ParseArticle, LockIndex, AddToIndex, Free,
           ReturnArticle, AGoto
  <1>3. Scheduled(it)
    <2>1. BeginArticle(it) => Scheduled(it)
      BY ArticleBegun DEF Turns, ArticleTurns
    <2>2. ProcessarArtigo(it) => apc[it] # "idle"
      BY DEF ProcessarArtigo, ParseArticle, LockIndex, AddToIndex, Free, ReturnArticle, AGoto
    <2> QED
      BY <2>1, <2>2 DEF Turns, ArticleTurns
  <1>4. pc \notin {"destroy", "queryIndex"}
    BY <1>2, <1>3 DEF Waited
  <1>5. \A jt \in Items : Scheduled(jt)' <=> Scheduled(jt)
    BY <1>1 DEF Scheduled
  <1>6. aprior = {jt \in Items : Scheduled(jt)} =>
          aprior' = {jt \in Items : Scheduled(jt)'}
    BY <1>1, <1>5
  <1> QED
    BY <1>1, <1>4, <1>6 DEF Waited, FeedsDone

LEMMA MainWaited ==
  ASSUME Turns, Waited, ProcessAllFeeds
  PROVE  Waited'
  <1>1. UNCHANGED <<fpc, fnext, apc>> /\ (FeedsDone' <=> FeedsDone)
        /\ \A it \in Items : Scheduled(it)' <=> Scheduled(it)
    BY DEF ProcessAllFeeds, Schedule, Wait, Destroy, FeedsDone, Scheduled
  <1>2. ASSUME Schedule PROVE Waited'
    <2>1. /\ pc = "schedule" /\ astate' = astate /\ pc' \in {"schedule", "waitFeeds"}
          /\ pc' = "waitFeeds" => next' = next /\ next \notin Feeds
      BY <1>2 DEF Schedule, articlesPool
    <2> QED
      BY <1>1, <2>1 DEF Waited
  <1>3. ASSUME Destroy PROVE Waited'
    <2>1. /\ pc = "destroy" /\ pc' = "queryIndex"
          /\ UNCHANGED <<next, fprior, astate, aprior>>
      BY <1>3 DEF Destroy, Goto, pools, feedsPool, articlesPool
    <2> QED
      BY <1>1, <2>1 DEF Waited
  <1>4. ASSUME Wait PROVE Waited'
    <2> USE <1>4 DEF Wait, Goto, feedsPool, articlesPool
    <2>0. next' = next /\ pc # "schedule" /\ next \notin Feeds
      BY DEF Waits, Unused, Waited
    <2>1. CASE Unused /\ UNCHANGED pools
      <3>1. pc' = "undefined" /\ pc \in {"joinFeeds", "joinArticles"}
        BY <2>1 DEF Unused
      <3>2. UNCHANGED <<fprior, astate>>
        BY <2>1 DEF pools
      <3> QED
        BY <1>1, <2>0, <3>1, <3>2 DEF Waited
    <2>2. CASE Goto("waitFeeds", "joinFeeds") /\ FeedsPool!Close /\ UNCHANGED articlesPool
      <3>1. fprior' = Feeds
        BY <2>0, <2>2, CloseFeeds
      <3> QED
        BY <1>1, <2>0, <2>2, <3>1 DEF Waited
    <2>3. CASE Goto("joinFeeds", "waitArticles") /\ FeedsPool!Return /\ UNCHANGED articlesPool
      <3>1. fprior \subseteq ffinished /\ fprior' = fprior
        BY <2>3 DEF FeedsPool!Return
      <3>2. fprior = Feeds
        BY <2>3 DEF Waited
      <3>3. FeedsDone
        BY <3>1, <3>2 DEF Turns, FeedTurns, FeedsDone
      <3> QED
        BY <1>1, <2>0, <2>3, <3>1, <3>2, <3>3 DEF Waited
    <2>4. CASE Goto("waitArticles", "joinArticles") /\ ArticlesPool!Close /\ UNCHANGED feedsPool
      <3>1. aprior' = {it \in Items : Scheduled(it)}
        BY <2>4, CloseArticles
      <3>2. aprior' = {it \in Items : Scheduled(it)'}
        BY <1>1, <3>1
      <3>3. FeedsDone /\ fprior' = Feeds
        BY <2>4 DEF Waited
      <3> QED
        BY <1>1, <2>0, <2>4, <3>2, <3>3 DEF Waited
    <2>5. CASE Goto("joinArticles", "destroy") /\ ArticlesPool!Return /\ UNCHANGED feedsPool
      <3>1. aprior \subseteq afinished
        BY <2>5 DEF ArticlesPool!Return
      <3>2. aprior = {it \in Items : Scheduled(it)} /\ FeedsDone /\ fprior' = Feeds
        BY <2>5 DEF Waited
      <3>3. \A it \in Items : Scheduled(it) => apc[it] = "done"
        BY <3>1, <3>2 DEF Turns, ArticleTurns
      <3> QED
        BY <1>1, <2>0, <2>5, <3>2, <3>3 DEF Waited
    <2> QED
      BY <2>1, <2>2, <2>3, <2>4, <2>5 DEF Waits
  <1> QED
    BY <1>2, <1>3, <1>4 DEF ProcessAllFeeds

LEMMA NextWaited == Turns /\ Waited /\ [Next]_vars => Waited'
  <1> SUFFICES ASSUME Turns, Waited, [Next]_vars PROVE Waited'
    OBVIOUS
  <1>1. CASE UNCHANGED vars
    BY <1>1 DEF Waited, FeedsDone, Scheduled, vars, shared, pools, feedsPool, articlesPool
  <1>2. CASE Next
    BY <1>1, <1>2, MainWaited, FeedsWaited, ArticlesWaited DEF Next, Terminated
  <1> QED
    BY <1>1, <1>2

-------------------------------------------------------------------------------
(* One article at a time is added *)

LEMMA SameIndex ==
  ASSUME Adding, UNCHANGED <<words, index, mutexIndex>>,
         \A it \in Items : apc'[it] = "add" => apc[it] = "add"
  PROVE  Adding'
  BY DEF Adding

LEMMA ArticleAdding ==
  ASSUME Turns, Adding, NEW it \in Items, BeginArticle(it) \/ ProcessarArtigo(it)
  PROVE  Adding'
  <1> USE DEF AGoto, shared
  <1>1. /\ apc \in [Items -> ArticlePC] /\ words \in [Items -> Nat]
        /\ index \in [Articles -> Nat]
    BY DEF Turns, TypeOK
  <1>2. CASE BeginArticle(it) \/ ParseArticle(it) \/ Free(it) \/ ReturnArticle(it)
    <2>1. PICK to \in {"parse", "lock", "return", "done"} : apc' = [apc EXCEPT ![it] = to]
      BY <1>2 DEF BeginArticle, ParseArticle, Free, ReturnArticle
    <2>2. UNCHANGED <<words, index, mutexIndex>>
      BY <1>2 DEF BeginArticle, ParseArticle, Free, ReturnArticle
    <2>3. \A jt \in Items : apc'[jt] = "add" => apc[jt] = "add"
      BY <1>1, <2>1
    <2> QED
      BY <2>2, <2>3, SameIndex
  <1>3. CASE LockIndex(it)
    <2>1. /\ ~mutexIndex /\ mutexIndex' = TRUE /\ index' = index
          /\ apc' = [apc EXCEPT ![it] = "add"]
          /\ words' = [words EXCEPT ![it] = index[UrlOf(it)]]
      BY <1>3 DEF LockIndex, LockFree
    <2>2. \A jt \in Items : apc[jt] # "add"
      BY <2>1 DEF Adding
    <2>3. \A jt \in Items : apc'[jt] = "add" => jt = it
      BY <1>1, <2>1, <2>2
    <2>4. words'[it] = index'[UrlOf(it)]
      BY <1>1, <2>1
    <2> QED
      BY <2>1, <2>3, <2>4 DEF Adding
  <1>4. CASE AddToIndex(it)
    <2>1. apc[it] = "add" /\ apc' = [apc EXCEPT ![it] = "free"]
      BY <1>4 DEF AddToIndex
    <2>2. \A jt \in Items : jt # it => apc[jt] # "add"
      BY <2>1 DEF Adding
    <2>3. \A jt \in Items : apc'[jt] # "add"
      BY <1>1, <2>1, <2>2
    <2> QED
      BY <2>3 DEF Adding
  <1> QED
    BY <1>2, <1>3, <1>4 DEF ProcessarArtigo

LEMMA NextAdding == Turns /\ Adding /\ [Next]_vars => Adding'
  <1> SUFFICES ASSUME Turns, Adding, [Next]_vars PROVE Adding'
    OBVIOUS
  <1>1. CASE UNCHANGED <<apc, words, index, mutexIndex>>
    BY <1>1, SameIndex
  <1>2. CASE UNCHANGED vars
    BY <1>1, <1>2 DEF vars, shared
  <1>3. CASE ProcessAllFeeds
    BY <1>1, <1>3 DEF ProcessAllFeeds, Schedule, Wait, Destroy, shared
  <1>4. ASSUME NEW f \in Feeds, BeginFeed(f) \/ ProcessarFeed(f) PROVE Adding'
    BY <1>1, <1>4 DEF BeginFeed, ProcessarFeed, ParseFeed, ScheduleArticle, ReturnFeed, shared
  <1>5. ASSUME NEW it \in Items, BeginArticle(it) \/ ProcessarArtigo(it) PROVE Adding'
    BY <1>5, ArticleAdding
  <1> QED
    BY <1>2, <1>3, <1>4, <1>5 DEF Next, Terminated

LEMMA NextIInv == IInv /\ [Next]_vars => IInv'
  BY NextTurns, NextWaited, NextAdding DEF IInv

LEMMA AlwaysIInv == Spec => []IInv
  BY InitIInv, NextIInv, PTL DEF Spec
-------------------------------------------------------------------------------
(* The state of NewsAggregator *)

Todo     == {<<f, 0>> : f \in {g \in Feeds : ~Parsed(g)}}
              \cup {it \in Items : Found(it[1]) /\ apc[it] \in {"idle", "parse"}}
ToBeAdded == {it \in Items : apc[it] \in {"lock", "add"}}
Phase    == IF pc = "queryIndex" THEN "querying" ELSE "indexing"

LEMMA NoFeedIsItem == \A f \in Feeds : <<f, 0>> \notin Items
  <1> SUFFICES ASSUME NEW f \in Feeds, <<f, 0>> \in Items PROVE FALSE
    OBVIOUS
  <1>1. 0 \in DOMAIN List[f]
    BY ItemsOf
  <1> QED
    BY <1>1, Lists

LEMMA TodoIs ==
  /\ \A f \in Feeds : <<f, 0>> \in Todo <=> ~Parsed(f)
  /\ \A it \in Items : it \in Todo <=> Found(it[1]) /\ apc[it] \in {"idle", "parse"}
  /\ \A x \in Todo : x \in Items \/ \E f \in Feeds : x = <<f, 0>>
  BY NoFeedIsItem DEF Todo

LEMMA AbstractInit == Init => Aggregator!Init
  <1> SUFFICES ASSUME Init PROVE Aggregator!Init
    OBVIOUS
  <1>1. \A f \in Feeds : ~Parsed(f) /\ ~Found(f)
    BY Lists DEF Init, Parsed, Found
  <1>2. Todo = Feeds \X {0}
    <2>1. ASSUME NEW x \in Todo PROVE x \in Feeds \X {0}
      BY <1>1, TodoIs, ItemsOf
    <2>2. ASSUME NEW x \in Feeds \X {0} PROVE x \in Todo
      <3>1. PICK f \in Feeds : x = <<f, 0>>
        OBVIOUS
      <3> QED
        BY <1>1, <3>1, TodoIs
    <2> QED
      BY <2>1, <2>2
  <1>3. ToBeAdded = {} /\ Phase = "indexing" /\ index = [a \in Articles |-> 0]
    BY DEF Init, ToBeAdded, Phase
  <1> QED
    BY <1>2, <1>3 DEF Aggregator!Init, Todo, ToBeAdded, Phase, Aggregator!Feeds, Feeds

\* The steps of NewsAggregator, in terms of this state.
LEMMA AbstractStutter ==
  ASSUME Todo' = Todo, ToBeAdded' = ToBeAdded, index' = index, Phase' = Phase
  PROVE  UNCHANGED Aggregator!vars
  BY DEF Aggregator!vars, Todo, ToBeAdded, Phase

LEMMA AbstractParseFeed ==
  ASSUME NEW f \in Feeds, <<f, 0>> \in Todo, NEW found \in {{}, 1 .. Len(List[f])},
         Todo' = (Todo \ {<<f, 0>>}) \cup ({f} \X found),
         ToBeAdded' = ToBeAdded, index' = index, Phase' = Phase
  PROVE  Aggregator!Next
  <1>1. Aggregator!ParseFeed(f)
    BY DEF Aggregator!ParseFeed, Todo, ToBeAdded, Phase
  <1> QED
    BY <1>1 DEF Aggregator!Next, Aggregator!Feeds, Feeds

LEMMA AbstractParseArticle ==
  ASSUME NEW f \in Feeds, NEW k \in DOMAIN List[f], <<f, k>> \in Todo,
         Todo' = Todo \ {<<f, k>>}, ToBeAdded' \in {ToBeAdded, ToBeAdded \cup {<<f, k>>}},
         index' = index, Phase' = Phase
  PROVE  Aggregator!Next
  <1>1. Aggregator!ParseArticle(f, k)
    BY DEF Aggregator!ParseArticle, Todo, ToBeAdded, Phase
  <1> QED
    BY <1>1 DEF Aggregator!Next, Aggregator!Feeds, Feeds

LEMMA AbstractAddToIndex ==
  ASSUME NEW f \in Feeds, NEW k \in DOMAIN List[f], <<f, k>> \in ToBeAdded,
         ToBeAdded' = ToBeAdded \ {<<f, k>>}, Todo' = Todo, Phase' = Phase,
         index' = [index EXCEPT ![List[f][k]] = @ + 1]
  PROVE  Aggregator!Next
  <1>1. Aggregator!AddToIndex(f, k)
    BY DEF Aggregator!AddToIndex, Todo, ToBeAdded, Phase
  <1> QED
    BY <1>1 DEF Aggregator!Next, Aggregator!Feeds, Feeds

LEMMA AbstractQuery ==
  ASSUME Todo = {}, ToBeAdded = {}, Phase' = "querying",
         Todo' = Todo, ToBeAdded' = ToBeAdded, index' = index
  PROVE  Aggregator!Next
  BY DEF Aggregator!Next, Aggregator!Query, Todo, ToBeAdded, Phase

LEMMA SameTodo ==
  ASSUME \A f \in Feeds : (Parsed(f)' <=> Parsed(f)) /\ (Found(f)' <=> Found(f)),
         \A it \in Items : apc'[it] \in {"idle", "parse"} <=> apc[it] \in {"idle", "parse"}
  PROVE  Todo' = Todo
  <1>1. {<<f, 0>> : f \in {g \in Feeds : ~Parsed(g)}}'
          = {<<f, 0>> : f \in {g \in Feeds : ~Parsed(g)}}
    OBVIOUS
  <1>2. {it \in Items : Found(it[1]) /\ apc[it] \in {"idle", "parse"}}'
          = {it \in Items : Found(it[1]) /\ apc[it] \in {"idle", "parse"}}
    BY ItemsOf
  <1> QED
    BY <1>1, <1>2 DEF Todo

LEMMA MainImplements ==
  ASSUME IInv, ProcessAllFeeds
  PROVE  Aggregator!Next \/ UNCHANGED Aggregator!vars
  <1>1. UNCHANGED <<fpc, fnext, apc, index>>
    BY DEF ProcessAllFeeds, Schedule, Wait, Destroy, shared
  <1>2. Todo' = Todo
    BY <1>1, SameTodo DEF Parsed, Found
  <1>3. ToBeAdded' = ToBeAdded
    BY <1>1 DEF ToBeAdded
  <1>4. CASE Destroy
    <2>1. pc = "destroy" /\ Phase' = "querying"
      BY <1>4 DEF Destroy, Goto, Phase
    <2>2. /\ FeedsDone /\ FeedArticles /\ ArticleTurns
          /\ \A it \in Items : Scheduled(it) => apc[it] = "done"
      BY <2>1 DEF IInv, Turns, Waited
    <2>3. ASSUME NEW it \in Items, Found(it[1]) PROVE apc[it] = "done"
      <3>1. it[1] \in Feeds /\ fpc[it[1]] = "done" /\ fnext[it[1]] \in Int
        BY <2>2, ItemsOf, Lists DEF FeedsDone, FeedArticles
      <3>2. fnext[it[1]] = Len(List[it[1]]) + 1
        BY <2>2, <2>3, <3>1 DEF Found, FeedArticles
      <3>3. it[2] \in 1 .. Len(List[it[1]]) /\ Len(List[it[1]]) \in Nat
        BY ItemsOf, Lists
      <3>4. Scheduled(it)
        BY <3>2, <3>3 DEF Scheduled
      <3> QED
        BY <2>2, <3>4
    <2>4. \A x : x \notin Todo
      BY <2>2, <2>3, TodoIs DEF FeedsDone, Parsed
    <2>5. \A it \in Items : apc[it] \in {"idle", "done"}
      BY <2>2 DEF ArticleTurns
    <2>6. Todo = {} /\ ToBeAdded = {}
      BY <2>4, <2>5 DEF ToBeAdded
    <2> QED
      BY <1>1, <1>2, <1>3, <2>1, <2>6, AbstractQuery
  <1>5. CASE Schedule \/ Wait
    <2>1. pc # "queryIndex" /\ pc' # "queryIndex"
      BY <1>5 DEF Schedule, Wait, Waits, Unused, Goto
    <2>2. Phase' = Phase
      BY <2>1 DEF Phase
    <2> QED
      BY <1>1, <1>2, <1>3, <2>2, AbstractStutter
  <1> QED
    BY <1>4, <1>5 DEF ProcessAllFeeds

LEMMA FeedImplements ==
  ASSUME IInv, NEW f \in Feeds, BeginFeed(f) \/ ProcessarFeed(f)
  PROVE  Aggregator!Next \/ UNCHANGED Aggregator!vars
  <1>1. UNCHANGED <<pc, apc, index>>
    BY DEF BeginFeed, ProcessarFeed, ParseFeed, ScheduleArticle, ReturnFeed, shared
  <1>2. ToBeAdded' = ToBeAdded /\ Phase' = Phase
    BY <1>1 DEF ToBeAdded, Phase
  <1>3. /\ TypeOK /\ fpc \in [Feeds -> FeedPC] /\ fnext \in [Feeds -> Nat]
        /\ FeedTurns /\ FeedArticles /\ ArticleTurns
    BY DEF IInv, Turns, TypeOK
  <1>4. CASE BeginFeed(f)
    <2>1. /\ fpc' = [fpc EXCEPT ![f] = "parse"] /\ fnext' = fnext /\ fpc[f] = "idle"
      BY <1>3, <1>4, FeedBegun DEF BeginFeed, IInv, Turns, FeedTurns
    <2>2. fpc'[f] = "parse" /\ \A g \in Feeds : g # f => fpc'[g] = fpc[g]
      BY <1>3, <2>1
    <2>3. \A g \in Feeds : (Parsed(g)' <=> Parsed(g)) /\ (Found(g)' <=> Found(g))
      BY <2>1, <2>2 DEF Parsed, Found
    <2> QED
      BY <1>1, <1>2, <2>3, SameTodo, AbstractStutter
  <1>5. CASE ScheduleArticle(f)
    <2>1. /\ fpc[f] = "schedule" /\ fnext' = [fnext EXCEPT ![f] = @ + 1]
          /\ fpc' = [fpc EXCEPT ![f] = IF fnext[f] = Len(List[f]) THEN "return" ELSE @]
      BY <1>5 DEF ScheduleArticle
    <2>2. /\ fpc'[f] \in {"schedule", "return"} /\ fnext'[f] = fnext[f] + 1
          /\ \A g \in Feeds : g # f => fpc'[g] = fpc[g] /\ fnext'[g] = fnext[g]
      BY <1>3, <2>1
    <2>3. fnext'[f] > 1
      <3>1. fnext[f] \in 1 .. Len(List[f]) + 1 /\ Len(List[f]) \in Nat
        BY <1>3, Lists DEF FeedArticles
      <3> QED
        BY <2>2, <3>1
    <2>4. \A g \in Feeds : (Parsed(g)' <=> Parsed(g)) /\ (Found(g)' <=> Found(g))
      BY <2>1, <2>2, <2>3 DEF Parsed, Found
    <2> QED
      BY <1>1, <1>2, <2>4, SameTodo, AbstractStutter
  <1>6. CASE ReturnFeed(f)
    <2>1. /\ fpc[f] = "return" /\ fpc' = [fpc EXCEPT ![f] = "done"] /\ fnext' = fnext
      BY <1>6 DEF ReturnFeed, FGoto
    <2>2. fpc'[f] = "done" /\ \A g \in Feeds : g # f => fpc'[g] = fpc[g]
      BY <1>3, <2>1
    <2>3. \A g \in Feeds : (Parsed(g)' <=> Parsed(g)) /\ (Found(g)' <=> Found(g))
      BY <2>1, <2>2 DEF Parsed, Found
    <2> QED
      BY <1>1, <1>2, <2>3, SameTodo, AbstractStutter
  <1>7. CASE ParseFeed(f)
    <2>1. PICK to \in {"schedule", "return"} :
            fpc[f] = "parse" /\ fpc' = [fpc EXCEPT ![f] = to] /\ fnext' = fnext
      BY <1>7 DEF ParseFeed, GiveUp, FGoto
    <2>2. fpc'[f] = to /\ \A g \in Feeds : g # f => fpc'[g] = fpc[g]
      BY <1>3, <2>1
    <2>3. fnext[f] = 1 /\ ~Parsed(f) /\ ~Found(f) /\ Parsed(f)' /\ (Found(f)' <=> to = "schedule")
      BY <1>3, <2>1, <2>2 DEF FeedArticles, Parsed, Found
    <2>4. \A g \in Feeds : g # f => (Parsed(g)' <=> Parsed(g)) /\ (Found(g)' <=> Found(g))
      BY <2>1, <2>2 DEF Parsed, Found
    <2>5. \A it \in Items : it[1] = f => apc[it] = "idle"
      <3>1. ASSUME NEW it \in Items, it[1] = f PROVE ~Scheduled(it)
        <4>1. it[2] \in 1 .. Len(List[f]) /\ Len(List[f]) \in Nat
          BY <3>1, ItemsOf, Lists
        <4> QED
          BY <2>3, <3>1, <4>1 DEF Scheduled
      <3> QED
        BY <1>3, <3>1 DEF ArticleTurns
    <2> DEFINE found == IF to = "schedule" THEN 1 .. Len(List[f]) ELSE {}
    <2>6. \A x \in {f} \X found : x \in Items /\ x[1] = f
      BY ItemsOf, Lists
    <2>7. \A it \in Items : it[1] = f => (it \in {f} \X found <=> to = "schedule")
      BY ItemsOf, Lists
    <2>8. found \in {{}, 1 .. Len(List[f])}
      OBVIOUS
    <2> HIDE DEF found
    <2>9. Todo' = (Todo \ {<<f, 0>>}) \cup ({f} \X found)
      <3>1. /\ \A g \in Feeds : <<g, 0>> \in Todo' <=> ~Parsed(g)'
            /\ \A it \in Items :
                 it \in Todo' <=> Found(it[1])' /\ apc'[it] \in {"idle", "parse"}
            /\ \A x \in Todo' : x \in Items \/ \E g \in Feeds : x = <<g, 0>>
        BY TodoIs, NoFeedIsItem DEF Todo
      <3>2. ASSUME NEW g \in Feeds
            PROVE  <<g, 0>> \in Todo' <=> <<g, 0>> \in Todo /\ g # f
        BY <2>3, <2>4, <3>1, TodoIs
      <3>3. ASSUME NEW it \in Items
            PROVE  it \in Todo' <=> it \in Todo \/ it \in {f} \X found
        <4>1. CASE it[1] = f
          BY <1>1, <2>3, <2>5, <2>7, <3>1, <4>1, TodoIs
        <4>2. CASE it[1] # f
          BY <1>1, <2>4, <2>6, <3>1, <4>2, TodoIs, ItemsOf
        <4> QED
          BY <4>1, <4>2
      <3>4. ASSUME NEW x PROVE x \in Todo' <=> x \in (Todo \ {<<f, 0>>}) \cup ({f} \X found)
        <4>1. CASE x \in Items
          BY <3>3, <4>1, NoFeedIsItem
        <4>2. CASE \E g \in Feeds : x = <<g, 0>>
          BY <2>6, <3>2, <4>2, NoFeedIsItem
        <4>3. CASE x \notin Items /\ ~\E g \in Feeds : x = <<g, 0>>
          BY <2>6, <3>1, <4>3, TodoIs
        <4> QED
          BY <4>1, <4>2, <4>3
      <3> QED
        BY <3>4
    <2>10. <<f, 0>> \in Todo
      BY <2>3, TodoIs
    <2> QED
      BY <1>1, <1>2, <2>8, <2>9, <2>10, AbstractParseFeed
  <1> QED
    BY <1>4, <1>5, <1>6, <1>7 DEF ProcessarFeed

LEMMA ArticleImplements ==
  ASSUME IInv, NEW it \in Items, BeginArticle(it) \/ ProcessarArtigo(it)
  PROVE  Aggregator!Next \/ UNCHANGED Aggregator!vars
  <1> USE DEF AGoto, shared
  <1>1. UNCHANGED <<pc, fpc, fnext>>
    BY DEF BeginArticle, ProcessarArtigo, ParseArticle, LockIndex, AddToIndex, Free,
           ReturnArticle
  <1>2. Phase' = Phase /\ \A f \in Feeds : (Parsed(f)' <=> Parsed(f)) /\ (Found(f)' <=> Found(f))
    BY <1>1 DEF Phase, Parsed, Found
  <1>3. /\ apc \in [Items -> ArticlePC] /\ index \in [Articles -> Nat]
        /\ FeedArticles /\ ArticleTurns /\ Adding
    BY DEF IInv, Turns, TypeOK
  <1>0. PICK f \in Feeds : \E k \in DOMAIN List[f] : it = <<f, k>>
    BY ItemsOf
  <1>4. PICK k \in DOMAIN List[f] : it = <<f, k>>
    BY <1>0
  <1>5. CASE BeginArticle(it) \/ LockIndex(it) \/ Free(it) \/ ReturnArticle(it)
    <2>1. PICK to \in {"parse", "add", "return", "done"} :
            /\ apc' = [apc EXCEPT ![it] = to] /\ index' = index
            /\ apc[it] \in {"idle", "parse"} <=> to \in {"idle", "parse"}
            /\ apc[it] \in {"lock", "add"} <=> to \in {"lock", "add"}
      BY <1>5 DEF BeginArticle, LockIndex, Free, ReturnArticle
    <2>2. apc'[it] = to /\ \A jt \in Items : jt # it => apc'[jt] = apc[jt]
      BY <1>3, <2>1
    <2>3. Todo' = Todo
      BY <1>2, <2>1, <2>2, SameTodo
    <2>4. ToBeAdded' = ToBeAdded
      BY <2>1, <2>2 DEF ToBeAdded
    <2> QED
      BY <1>2, <2>1, <2>3, <2>4, AbstractStutter
  <1>6. CASE ParseArticle(it)
    <2>1. PICK to \in {"lock", "return"} :
            apc[it] = "parse" /\ apc' = [apc EXCEPT ![it] = to] /\ index' = index
      BY <1>6 DEF ParseArticle
    <2>2. apc'[it] = to /\ \A jt \in Items : jt # it => apc'[jt] = apc[jt]
      BY <1>3, <2>1
    <2>3. Found(f)
      <3>1. Scheduled(it)
        BY <1>3, <2>1 DEF ArticleTurns
      <3>2. k < fnext[f] /\ k \in 1 .. Len(List[f]) /\ Len(List[f]) \in Nat
            /\ fnext[f] \in 1 .. Len(List[f]) + 1
        BY <1>3, <1>4, <3>1, Lists DEF Scheduled, FeedArticles
      <3> QED
        BY <3>2 DEF Found
    <2>4. it \in Todo
      BY <1>4, <2>1, <2>3, TodoIs
    <2>5. Todo' = Todo \ {it}
      <3>1. /\ \A g \in Feeds : <<g, 0>> \in Todo' <=> ~Parsed(g)'
            /\ \A jt \in Items :
                 jt \in Todo' <=> Found(jt[1])' /\ apc'[jt] \in {"idle", "parse"}
            /\ \A x \in Todo' : x \in Items \/ \E g \in Feeds : x = <<g, 0>>
        BY TodoIs, NoFeedIsItem DEF Todo
      <3>2. ASSUME NEW g \in Feeds PROVE <<g, 0>> \in Todo' <=> <<g, 0>> \in Todo \ {it}
        BY <1>2, <3>1, TodoIs, NoFeedIsItem
      <3>3. ASSUME NEW jt \in Items PROVE jt \in Todo' <=> jt \in Todo \ {it}
        BY <1>2, <2>1, <2>2, <3>1, TodoIs, ItemsOf
      <3>4. ASSUME NEW x PROVE x \in Todo' <=> x \in Todo \ {it}
        BY <3>1, <3>2, <3>3, TodoIs
      <3> QED
        BY <3>4
    <2>6. ToBeAdded' \in {ToBeAdded, ToBeAdded \cup {it}}
      <3>1. CASE to = "lock"
        BY <2>1, <2>2, <3>1 DEF ToBeAdded
      <3>2. CASE to = "return"
        BY <2>1, <2>2, <3>2 DEF ToBeAdded
      <3> QED
        BY <3>1, <3>2
    <2> QED
      BY <1>2, <1>4, <2>1, <2>4, <2>5, <2>6, AbstractParseArticle
  <1>7. CASE AddToIndex(it)
    <2>1. /\ apc[it] = "add" /\ apc' = [apc EXCEPT ![it] = "free"]
          /\ index' = [index EXCEPT ![UrlOf(it)] = words[it] + 1]
      BY <1>7 DEF AddToIndex
    <2>2. apc'[it] = "free" /\ \A jt \in Items : jt # it => apc'[jt] = apc[jt]
      BY <1>3, <2>1
    <2>3. Todo' = Todo
      BY <1>2, <2>1, <2>2, SameTodo
    <2>4. it \in ToBeAdded /\ ToBeAdded' = ToBeAdded \ {it}
      BY <2>1, <2>2 DEF ToBeAdded
    <2>5. words[it] = index[UrlOf(it)] /\ UrlOf(it) = List[f][k]
      BY <1>3, <1>4, <2>1 DEF Adding, UrlOf
    <2>6. index' = [index EXCEPT ![List[f][k]] = @ + 1]
      BY <2>1, <2>5
    <2> QED
      BY <1>2, <1>4, <2>3, <2>4, <2>6, AbstractAddToIndex
  <1> QED
    BY <1>5, <1>6, <1>7 DEF ProcessarArtigo

LEMMA StepImplements == IInv /\ [Next]_vars => [Aggregator!Next]_(Aggregator!vars)
  <1> SUFFICES ASSUME IInv, [Next]_vars PROVE Aggregator!Next \/ UNCHANGED Aggregator!vars
    OBVIOUS
  <1>1. CASE UNCHANGED vars
    <2>1. UNCHANGED <<pc, fpc, fnext, apc, index>>
      BY <1>1 DEF vars, shared
    <2>2. Todo' = Todo
      BY <2>1, SameTodo DEF Parsed, Found
    <2>3. ToBeAdded' = ToBeAdded /\ Phase' = Phase
      BY <2>1 DEF ToBeAdded, Phase
    <2> QED
      BY <2>1, <2>2, <2>3, AbstractStutter
  <1>2. CASE Next
    BY <1>1, <1>2, MainImplements, FeedImplements, ArticleImplements DEF Next, Terminated
  <1> QED
    BY <1>1, <1>2
-------------------------------------------------------------------------------
(* Theorems *)

\* The struct that processarFeed allocates for an article (lines 228-236) is there
\* for as long as processarArtigo and the pool's queue refer to it.
THEOREM ArticlesStayAlive == Spec => []ArticlesAlive
  <1>1. IInv => ArticlesAlive
    <2> SUFFICES ASSUME Turns, NEW it \in Items,
                        apc[it] \in {"parse", "lock", "add", "free"} \/ it \in Range(apending)
                 PROVE  it \in heap
      BY DEF IInv, ArticlesAlive
    <2> QED
      BY DEF Turns, ArticleTurns
  <1> QED
    BY <1>1, AlwaysIInv, PTL

\* articlesPool.wait() begins when no feed is left to schedule an article, and
\* processAllFeeds destroys the mutexes and returns (lines 156-161) when neither pool
\* has a function left. With it, the types of the variables.
THEOREM ArticlesInTime == Spec => []ArticlesScheduledInTime
  <1>1. IInv => ArticlesScheduledInTime
    <2> SUFFICES ASSUME IInv PROVE ArticlesScheduledInTime
      OBVIOUS
    <2>1. Turns /\ Queues /\ ArticleTurns /\ FeedTurns /\ Waited
      BY DEF IInv, Turns
    <2>2. ASSUME astate # "open" PROVE fpending = <<>> /\ frunning = {}
      <3>1. FeedsDone
        BY <2>1, <2>2 DEF Waited
      <3>2. \A f \in Feeds : f \notin Range(fpending) /\ f \notin frunning
        BY <2>1, <3>1 DEF FeedTurns, FeedsDone
      <3> QED
        BY <2>1, <3>2, NoneLeft DEF Queues
    <2>3. ASSUME pc \in {"destroy", "queryIndex"} PROVE apending = <<>> /\ arunning = {}
      <3>1. \A it \in Items : it \notin Range(apending) /\ it \notin arunning
        BY <2>1, <2>3 DEF ArticleTurns, Waited
      <3> QED
        BY <2>1, <3>1, NoneLeft DEF Queues
    <2> QED
      BY <2>1, <2>2, <2>3 DEF ArticlesScheduledInTime, Turns
  <1> QED
    BY <1>1, AlwaysIInv, PTL

\* The aggregator on two pools parses each feed once and then the articles that it
\* lists, adds each of them to the index at most once although the threads share it,
\* and lets the user query when nothing is left to be added (lines 111-291).
THEOREM AggregatorImplemented == Spec => ImplementsAggregator
  BY AbstractInit, StepImplements, AlwaysIInv, PTL
     DEF Spec, ImplementsAggregator, Aggregator!Spec
===============================================================================
