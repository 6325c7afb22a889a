--------------------------- MODULE ProxyServiceProofs ---------------------------
(***************************************************************************)
(* Theorems about ProxyService for any requests, threads, descriptors and  *)
(* hash. Those about the mutexes of the cache and what they protect carry  *)
(* the condition Direto of their properties: a terminal proxy receives no  *)
(* x-forwarded headers, so that the key of a request is the same when its  *)
(* mutex is locked and when it is unlocked. The run proxy_lock shows that  *)
(* the condition is needed.                                                *)
(*                                                                         *)
(* The invariant is built up in layers: Locks says that the mutexes are    *)
(* those of the calls in the section, Answers what is in the files and in  *)
(* the hands of a call, and Once, which needs both, what a call that is    *)
(* fetching a response knows of the files. The types and the descriptors   *)
(* stand by themselves.                                                    *)
(***************************************************************************)
EXTENDS ProxyService, TLAPS

Functions == DOMAIN pc = Requests /\ DOMAIN headers = Requests
             /\ DOMAIN fd = Requests /\ DOMAIN socketDestino = Requests

\* A terminal proxy that receives no x-forwarded headers has none to remove.
Terminal == /\ main = "start" => ~encaminha
            /\ Direto /\ ~encaminha => \A r \in Requests : headers[r] = SemX

Tranca(r) == [mutex |-> Mutex(r), dono |-> r]

\* The mutexes that are locked are those of the calls in the section, one each.
Locks ==
  /\ \A t \in mutexes : t.dono \in Requests /\ pc[t.dono] \in Secao /\ t = Tranca(t.dono)
  /\ \A r \in Requests : pc[r] \in Secao => Tranca(r) \in mutexes
  /\ \A r, s \in Requests : pc[r] \in Secao /\ pc[s] \in Secao /\ Mutex(r) = Mutex(s) => r = s

IInv == Functions /\ Terminal /\ (Direto => Locks) /\ DescriptorsOwned
-------------------------------------------------------------------------------
LEMMA InitIInv == Init => IInv
BY DEF Init, IInv, Functions, Terminal, Locks, Secao, DescriptorsOwned

LEMMA NextFunctions == Functions /\ [Next]_vars => Functions'
<1> SUFFICES ASSUME Functions, [Next]_vars PROVE Functions'
  OBVIOUS
<1>1. CASE Start
  BY <1>1 DEF Start, Functions, chamada
<1>2. ASSUME NEW r \in Requests, Accept(r) PROVE Functions'
  BY <1>2 DEF Accept, Goto, Functions
<1>3. CASE Die
  BY <1>3 DEF Die, Functions, chamada
<1>4. ASSUME NEW r \in Requests, serviceRequest(r) PROVE Functions'
  <2>1. CASE Begin(r)  BY <2>1 DEF Begin, Goto, Functions, chamada
  <2>2. CASE GetPeerName(r)  BY <2>2 DEF GetPeerName, Goto, Functions, chamada
  <2>3. CASE LockSocket(r)  BY <2>3 DEF LockSocket, Goto, Functions, chamada
  <2>4. CASE Ingest(r)  BY <2>4 DEF Ingest, ingestHeader, Goto, Functions
  <2>5. CASE Forward(r)  BY <2>5 DEF Forward, Goto, Functions
  <2>6. CASE Blacklist(r)  BY <2>6 DEF Blacklist, Goto, Functions, chamada
  <2>7. CASE Refuse(r)  BY <2>7 DEF Refuse, Write, Goto, Functions
  <2>8. CASE LockMutex(r)  BY <2>8 DEF LockMutex, Goto, Functions, chamada
  <2>9. CASE ContainsCacheEntry(r)  BY <2>9 DEF ContainsCacheEntry, Goto, Functions, chamada
  <2>10. CASE EntryName(r)  BY <2>10 DEF EntryName, Goto, Functions
  <2>11. CASE Use(r)  BY <2>11 DEF Use, Goto, Functions
  <2>12. CASE ReadFile(r)  BY <2>12 DEF ReadFile, Goto, Functions
  <2>13. CASE WriteCached(r)  BY <2>13 DEF WriteCached, Write, Goto, Functions
  <2>14. CASE Connect(r)  BY <2>14 DEF Connect, Goto, Functions
  <2>15. CASE Send(r)  BY <2>15 DEF Send, removeHeader, Goto, Functions
  <2>16. CASE Receive(r)  BY <2>16 DEF Receive, Goto, Functions
  <2>17. CASE Store(r)  BY <2>17 DEF Store, Goto, Functions, chamada
  <2>18. CASE Reply(r)  BY <2>18 DEF Reply, Write, CloseServer, Goto, Functions
  <2>19. CASE UnlockMutex(r)  BY <2>19 DEF UnlockMutex, Goto, Functions, chamada
  <2>20. CASE End(r)  BY <2>20 DEF End, CloseClient, Goto, Functions
  <2>21. QED
    BY <1>4, <2>1, <2>2, <2>3, <2>4, <2>5, <2>6, <2>7, <2>8, <2>9, <2>10, <2>11, <2>12,
       <2>13, <2>14, <2>15, <2>16, <2>17, <2>18, <2>19, <2>20 DEF serviceRequest
<1>5. CASE Expire
  BY <1>5 DEF Expire, Functions, chamada
<1>6. CASE UNCHANGED vars
  BY <1>6 DEF vars, Functions, chamada
<1>7. QED  BY <1>1, <1>2, <1>3, <1>4, <1>5, <1>6 DEF Next, Idle, Exited

\* The requests are what they are.
LEMMA Fixed == [Next]_vars => pedido' = pedido
<1> SUFFICES ASSUME [Next]_vars PROVE pedido' = pedido
  OBVIOUS
<1>1. CASE Start \/ Die \/ Expire \/ UNCHANGED vars
  BY <1>1 DEF Start, Die, Expire, vars, sistema, configuracao
<1>2. ASSUME NEW r \in Requests, Accept(r) PROVE pedido' = pedido
  BY <1>2 DEF Accept, configuracao
<1>3. ASSUME NEW r \in Requests, serviceRequest(r) PROVE pedido' = pedido
  <2>1. CASE \/ Begin(r) \/ GetPeerName(r) \/ LockSocket(r) \/ Ingest(r) \/ Forward(r)
             \/ Blacklist(r) \/ Refuse(r) \/ LockMutex(r) \/ ContainsCacheEntry(r)
             \/ EntryName(r)
    BY <2>1 DEF Begin, GetPeerName, LockSocket, Ingest, Forward, Blacklist, Refuse, LockMutex,
                ContainsCacheEntry, EntryName, sistema, configuracao
  <2>2. CASE \/ Use(r) \/ ReadFile(r) \/ WriteCached(r) \/ Connect(r) \/ Send(r)
             \/ Receive(r) \/ Store(r) \/ Reply(r) \/ UnlockMutex(r) \/ End(r)
    BY <2>2 DEF Use, ReadFile, WriteCached, Connect, Send, Receive, Store, Reply, UnlockMutex,
                End, sistema, configuracao
  <2>3. QED  BY <1>3, <2>1, <2>2 DEF serviceRequest
<1>4. QED  BY <1>1, <1>2, <1>3 DEF Next, Idle, Exited

\* Whether the proxy uses another is settled when it starts, and it starts once.
LEMMA StartsOnce == [Next]_vars => \/ main = "start"
                                   \/ encaminha' = encaminha /\ main' # "start"
<1> SUFFICES ASSUME [Next]_vars, main # "start"
    PROVE  encaminha' = encaminha /\ main' # "start"
  OBVIOUS
<1>1. CASE Start \/ Die \/ Expire \/ UNCHANGED vars
  BY <1>1 DEF Start, Die, Expire, vars, sistema, configuracao
<1>2. ASSUME NEW r \in Requests, Accept(r) PROVE UNCHANGED <<main, encaminha>>
  BY <1>2 DEF Accept, configuracao
<1>3. ASSUME NEW r \in Requests, serviceRequest(r) PROVE UNCHANGED <<main, encaminha>>
  <2>1. CASE \/ Begin(r) \/ GetPeerName(r) \/ LockSocket(r) \/ Ingest(r) \/ Forward(r)
             \/ Blacklist(r) \/ Refuse(r) \/ LockMutex(r) \/ ContainsCacheEntry(r)
             \/ EntryName(r)
    BY <2>1 DEF Begin, GetPeerName, LockSocket, Ingest, Forward, Blacklist, Refuse, LockMutex,
                ContainsCacheEntry, EntryName, sistema, configuracao
  <2>2. CASE \/ Use(r) \/ ReadFile(r) \/ WriteCached(r) \/ Connect(r) \/ Send(r)
             \/ Receive(r) \/ Store(r) \/ Reply(r) \/ UnlockMutex(r) \/ End(r)
    BY <2>2 DEF Use, ReadFile, WriteCached, Connect, Send, Receive, Store, Reply, UnlockMutex,
                End, sistema, configuracao
  <2>3. QED  BY <1>3, <2>1, <2>2 DEF serviceRequest
<1>4. QED  BY <1>1, <1>2, <1>3 DEF Next, Idle, Exited

\* The condition holds before a step if it holds after it.
LEMMA DirectBefore == [Next]_vars /\ Direto' => Direto
BY Fixed, StartsOnce DEF Direto

LEMMA NextTerminal == Functions /\ Terminal /\ [Next]_vars => Terminal'
<1> SUFFICES ASSUME Functions, Terminal, [Next]_vars PROVE Terminal'
  OBVIOUS
<1>1. CASE Start
  <2>1. headers' = headers /\ main' # "start" /\ ~encaminha /\ Direto
    BY <1>1 DEF Start, chamada, Terminal, Direto
  <2>2. QED  BY <2>1 DEF Terminal
<1>2. CASE UNCHANGED <<configuracao, headers>> /\ main' \in {main, "exit"}
  BY <1>2, DirectBefore DEF Terminal, configuracao
<1>3. ASSUME NEW r \in Requests, main = "accept", Ingest(r) PROVE Terminal'
  <2>1. UNCHANGED <<main, encaminha>>
    BY <1>3 DEF Ingest, sistema, configuracao
  <2>2. CASE ingestHeader(r)
    <3>1. ASSUME Direto, ~encaminha, NEW s \in Requests PROVE headers'[s] = SemX
      <4>1. headers[s] = SemX /\ pedido[r].x = SemX
        BY <3>1, <1>3 DEF Terminal, Direto
      <4>2. QED  BY <4>1, <2>2 DEF ingestHeader, Functions
    <3>2. QED  BY <2>1, <3>1, <1>3, DirectBefore DEF Terminal
  <2>3. CASE UNCHANGED headers
    BY <2>1, <2>3, DirectBefore DEF Terminal
  <2>4. QED  BY <1>3, <2>2, <2>3 DEF Ingest
<1>4. ASSUME NEW r \in Requests, Forward(r) PROVE Terminal'
  BY <1>4, DirectBefore DEF Forward, Ciclo, Terminal, sistema, configuracao
<1>5. ASSUME NEW r \in Requests, Send(r) PROVE Terminal'
  BY <1>5, DirectBefore DEF Send, removeHeader, Functions, Terminal, sistema, configuracao
<1>6. ASSUME NEW r \in Requests, main = "accept", serviceRequest(r) PROVE Terminal'
  <2>1. Ingest(r) \/ Forward(r) \/ Send(r) \/ UNCHANGED <<main, configuracao, headers>>
    <3>1. CASE GetPeerName(r) \/ LockSocket(r) \/ Blacklist(r) \/ LockMutex(r)
               \/ ContainsCacheEntry(r) \/ Store(r) \/ UnlockMutex(r)
      BY <3>1 DEF GetPeerName, LockSocket, Blacklist, LockMutex, ContainsCacheEntry, Store,
                  UnlockMutex, sistema, chamada
    <3>2. CASE Begin(r) \/ Refuse(r) \/ EntryName(r) \/ Use(r) \/ ReadFile(r)
               \/ WriteCached(r) \/ Receive(r)
      BY <3>2 DEF Begin, Refuse, EntryName, Use, ReadFile, WriteCached, Receive, sistema, chamada
    <3>3. CASE Connect(r) \/ Reply(r) \/ End(r)
      BY <3>3 DEF Connect, Reply, End
    <3>4. QED  BY <1>6, <3>1, <3>2, <3>3 DEF serviceRequest
  <2>2. QED  BY <2>1, <1>2, <1>3, <1>4, <1>5, <1>6
<1>7. ASSUME NEW r \in Requests, Accept(r) PROVE Terminal'
  BY <1>7, <1>2 DEF Accept
<1>8. CASE Die \/ Expire \/ UNCHANGED vars
  BY <1>8, <1>2 DEF Die, Expire, vars, sistema, chamada
<1>9. QED  BY <1>1, <1>6, <1>7, <1>8 DEF Next, Idle, Exited
-------------------------------------------------------------------------------
\* Who is in the section and under which key depends on pc and headers only,
\* the requests being what they are.
LEMMA SameMutex ==
  ASSUME NEW r \in Requests, headers'[r] = headers[r], pedido' = pedido
  PROVE  Mutex(r)' = Mutex(r) /\ Tranca(r)' = Tranca(r)
BY DEF Mutex, Tranca, serializeRequest

\* A step in which nobody comes or goes and no key changes keeps the locks.
LEMMA NobodyMoves ==
  ASSUME Locks, mutexes' = mutexes, pedido' = pedido,
         \A s \in Requests : /\ pc'[s] \in Secao <=> pc[s] \in Secao
                             /\ pc[s] \in Secao => headers'[s] = headers[s]
  PROVE  Locks'
<1>1. \A s \in Requests : pc[s] \in Secao => Mutex(s)' = Mutex(s) /\ Tranca(s)' = Tranca(s)
  BY SameMutex
<1>2. ASSUME NEW t \in mutexes
      PROVE  t.dono \in Requests /\ pc'[t.dono] \in Secao /\ t = Tranca(t.dono)'
  <2>1. t.dono \in Requests /\ pc[t.dono] \in Secao /\ t = Tranca(t.dono)
    BY DEF Locks
  <2>2. QED  BY <2>1, <1>1
<1>3. \A r \in Requests : pc'[r] \in Secao => Tranca(r)' \in mutexes
  BY <1>1 DEF Locks
<1>4. \A r, s \in Requests :
        pc'[r] \in Secao /\ pc'[s] \in Secao /\ Mutex(r)' = Mutex(s)' => r = s
  BY <1>1 DEF Locks
<1>5. QED  BY <1>2, <1>3, <1>4 DEF Locks, Secao

\* A call enters by a mutex that nobody in the section has.
LEMMA Enters ==
  ASSUME Functions, Locks, NEW r \in Requests, LockMutex(r), pedido' = pedido
  PROVE  Locks'
<1>1. pc[r] = "lockMutex" /\ pc' = [pc EXCEPT ![r] = "contains"] /\ headers' = headers
  BY DEF LockMutex, Goto, chamada
<1>2. \A s \in Requests : Mutex(s)' = Mutex(s) /\ Tranca(s)' = Tranca(s)
  BY <1>1, SameMutex
<1>3. /\ \A s \in Requests : s # r => pc'[s] = pc[s]
      /\ pc[r] \notin Secao /\ pc'[r] \in Secao
  BY <1>1 DEF Functions, Secao
<1>4. mutexes' = mutexes \cup {Tranca(r)}
  BY DEF LockMutex, Tranca
<1>5. ASSUME NEW s \in Requests, pc[s] \in Secao PROVE Mutex(s) # Mutex(r)
  <2>1. Tranca(s) \in mutexes /\ Tranca(s).mutex = Mutex(s)
    BY <1>5 DEF Locks, Tranca
  <2>2. \A t \in mutexes : t.mutex # Mutex(r)
    BY DEF LockMutex, MutexFree, Trancas
  <2>3. QED  BY <2>1, <2>2
<1>6. ASSUME NEW t \in mutexes'
      PROVE  t.dono \in Requests /\ pc'[t.dono] \in Secao /\ t = Tranca(t.dono)'
  <2>1. CASE t \in mutexes
    <3>1. t.dono \in Requests /\ pc[t.dono] \in Secao /\ t = Tranca(t.dono)
      BY <2>1 DEF Locks
    <3>2. QED  BY <3>1, <1>2, <1>3
  <2>2. CASE t = Tranca(r)
    <3>1. t.dono = r
      BY <2>2 DEF Tranca
    <3>2. QED  BY <3>1, <2>2, <1>2, <1>3
  <2>3. QED  BY <1>4, <2>1, <2>2
<1>7. \A s \in Requests : pc'[s] \in Secao => Tranca(s)' \in mutexes'
  BY <1>2, <1>3, <1>4 DEF Locks
<1>8. \A s, t \in Requests :
        pc'[s] \in Secao /\ pc'[t] \in Secao /\ Mutex(s)' = Mutex(t)' => s = t
  BY <1>2, <1>3, <1>5 DEF Locks
<1>9. QED  BY <1>6, <1>7, <1>8 DEF Locks, Secao

\* A call leaves with its own mutex and no other.
LEMMA Leaves ==
  ASSUME Functions, Locks, NEW r \in Requests, UnlockMutex(r), pedido' = pedido
  PROVE  Locks'
<1>1. pc[r] = "unlockMutex" /\ pc' = [pc EXCEPT ![r] = "fim"] /\ headers' = headers
  BY DEF UnlockMutex, Goto, chamada
<1>2. \A s \in Requests : Mutex(s)' = Mutex(s) /\ Tranca(s)' = Tranca(s)
  BY <1>1, SameMutex
<1>3. /\ \A s \in Requests : s # r => pc'[s] = pc[s]
      /\ pc[r] \in Secao /\ pc'[r] \notin Secao
  BY <1>1 DEF Functions, Secao
<1>4. \A t \in mutexes : t \in mutexes' <=> t.mutex # Mutex(r)
  BY DEF UnlockMutex, Trancas
<1>5. \A t \in mutexes' : t \in mutexes
  BY DEF UnlockMutex
<1>6. ASSUME NEW t \in mutexes'
      PROVE  t.dono \in Requests /\ pc'[t.dono] \in Secao /\ t = Tranca(t.dono)'
  <2>1. t.dono \in Requests /\ pc[t.dono] \in Secao /\ t = Tranca(t.dono) /\ t.mutex # Mutex(r)
    BY <1>4, <1>5 DEF Locks
  <2>2. t.dono # r
    BY <2>1 DEF Tranca
  <2>3. QED  BY <2>1, <2>2, <1>2, <1>3
<1>7. ASSUME NEW s \in Requests, pc'[s] \in Secao PROVE Tranca(s)' \in mutexes'
  <2>1. s # r /\ pc[s] \in Secao /\ Tranca(s) \in mutexes
    BY <1>3, <1>7 DEF Locks
  <2>2. Mutex(s) # Mutex(r) /\ Tranca(s).mutex = Mutex(s)
    BY <2>1, <1>3 DEF Locks, Tranca
  <2>3. QED  BY <2>1, <2>2, <1>2, <1>4
<1>8. \A s, t \in Requests :
        pc'[s] \in Secao /\ pc'[t] \in Secao /\ Mutex(s)' = Mutex(t)' => s = t
  BY <1>2, <1>3 DEF Locks
<1>9. QED  BY <1>6, <1>7, <1>8 DEF Locks, Secao

LEMMA NextLocks == Direto /\ Functions /\ Terminal /\ Locks /\ [Next]_vars => Locks'
<1> SUFFICES ASSUME Direto, Functions, Terminal, Locks, [Next]_vars PROVE Locks'
  OBVIOUS
<1> DEFINE Stays == /\ mutexes' = mutexes
                    /\ \A s \in Requests : /\ pc'[s] \in Secao <=> pc[s] \in Secao
                                           /\ pc[s] \in Secao => headers'[s] = headers[s]
<1>1. Stays => Locks'
  BY NobodyMoves, Fixed
<1>2. CASE Start \/ Die \/ Expire \/ UNCHANGED vars
  BY <1>1, <1>2 DEF Start, Die, Expire, vars, chamada
<1>3. ASSUME NEW r \in Requests, Accept(r) PROVE Stays
  BY <1>3 DEF Accept, Goto, Functions, Secao
<1>4. ASSUME NEW r \in Requests, serviceRequest(r) PROVE Stays \/ LockMutex(r) \/ UnlockMutex(r)
  <2>1. CASE Begin(r)  BY <2>1 DEF Begin, Goto, Functions, Secao, chamada
  <2>2. CASE GetPeerName(r)  BY <2>2 DEF GetPeerName, Goto, Functions, Secao, chamada
  <2>3. CASE LockSocket(r)  BY <2>3 DEF LockSocket, Goto, Functions, Secao, chamada
  <2>4. CASE Ingest(r)  BY <2>4 DEF Ingest, ingestHeader, Goto, Functions, Secao
  <2>5. CASE Forward(r)  BY <2>5 DEF Forward, Goto, Functions, Secao
  <2>6. CASE Blacklist(r)  BY <2>6 DEF Blacklist, Goto, Functions, Secao, chamada
  <2>7. CASE Refuse(r)  BY <2>7 DEF Refuse, Write, Goto, Functions, Secao
  <2>8. CASE ContainsCacheEntry(r)  BY <2>8 DEF ContainsCacheEntry, Goto, Functions, Secao, chamada
  <2>9. CASE EntryName(r)  BY <2>9 DEF EntryName, Goto, Functions, Secao
  <2>10. CASE Use(r)  BY <2>10 DEF Use, Goto, Functions, Secao
  <2>11. CASE ReadFile(r)  BY <2>11 DEF ReadFile, Goto, Functions, Secao
  <2>12. CASE WriteCached(r)  BY <2>12 DEF WriteCached, Write, Goto, Functions, Secao
  <2>13. CASE Connect(r)  BY <2>13 DEF Connect, AfterFailure, Goto, Functions, Secao
  <2>14. CASE Send(r)
    <3>1. \A s \in Requests : headers'[s] = headers[s]
      BY <2>14 DEF Send, removeHeader, Terminal, Functions
    <3>2. QED  BY <2>14, <3>1 DEF Send, Goto, Functions, Secao
  <2>15. CASE Receive(r)  BY <2>15 DEF Receive, Goto, Functions, Secao
  <2>16. CASE Store(r)  BY <2>16 DEF Store, Goto, Functions, Secao, chamada
  <2>17. CASE Reply(r)  BY <2>17 DEF Reply, Write, Goto, Functions, Secao
  <2>18. CASE End(r)  BY <2>18 DEF End, Goto, Functions, Secao
  <2>19. QED
    BY <1>4, <2>1, <2>2, <2>3, <2>4, <2>5, <2>6, <2>7, <2>8, <2>9, <2>10, <2>11, <2>12,
       <2>13, <2>14, <2>15, <2>16, <2>17, <2>18 DEF serviceRequest
<1>5. ASSUME NEW r \in Requests, serviceRequest(r) PROVE Locks'
  BY <1>1, <1>4, <1>5, Enters, Leaves, Fixed
<1>6. QED  BY <1>1, <1>2, <1>3, <1>5 DEF Next, Idle, Exited
-------------------------------------------------------------------------------
\* A descriptor that is taken is nobody's, and one given back has one owner.
LEMMA NextDescriptors == Functions /\ DescriptorsOwned /\ [Next]_vars => DescriptorsOwned'
<1> SUFFICES ASSUME Functions, DescriptorsOwned, [Next]_vars PROVE DescriptorsOwned'
  OBVIOUS
<1>1. CASE UNCHANGED <<fd, socketDestino, livres>>
  BY <1>1 DEF DescriptorsOwned
<1>2. ASSUME NEW r \in Requests, Accept(r) PROVE DescriptorsOwned'
  <2>1. PICK n \in livres : fd' = [fd EXCEPT ![r] = n] /\ livres' = livres \ {n}
    BY <1>2 DEF Accept
  <2>2. socketDestino' = socketDestino
    BY <1>2 DEF Accept
  <2>3. QED  BY <2>1, <2>2 DEF DescriptorsOwned, Functions
<1>3. ASSUME NEW r \in Requests, Connect(r) PROVE DescriptorsOwned'
  <2>1. CASE UNCHANGED <<livres, socketDestino>>
    BY <2>1, <1>3, <1>1 DEF Connect
  <2>2. CASE \E n \in livres : /\ socketDestino' = [socketDestino EXCEPT ![r] = n]
                               /\ livres' = livres \ {n}
    BY <2>2, <1>3 DEF Connect, DescriptorsOwned, Functions
  <2>3. QED  BY <1>3, <2>1, <2>2 DEF Connect
<1>4. ASSUME NEW r \in Requests, Reply(r) PROVE DescriptorsOwned'
  BY <1>4 DEF Reply, CloseServer, DescriptorsOwned, Functions
<1>5. ASSUME NEW r \in Requests, End(r) PROVE DescriptorsOwned'
  BY <1>5 DEF End, CloseClient, DescriptorsOwned, Functions
<1>6. ASSUME NEW r \in Requests, serviceRequest(r)
      PROVE  Connect(r) \/ Reply(r) \/ End(r) \/ UNCHANGED <<fd, socketDestino, livres>>
  <2>1. CASE Begin(r) \/ GetPeerName(r) \/ LockSocket(r) \/ Blacklist(r) \/ LockMutex(r)
             \/ ContainsCacheEntry(r) \/ Store(r) \/ UnlockMutex(r)
    BY <2>1 DEF Begin, GetPeerName, LockSocket, Blacklist, LockMutex, ContainsCacheEntry,
                Store, UnlockMutex, sistema, chamada
  <2>2. CASE Ingest(r) \/ Forward(r) \/ Refuse(r) \/ EntryName(r) \/ Use(r) \/ ReadFile(r)
             \/ WriteCached(r) \/ Send(r) \/ Receive(r)
    BY <2>2 DEF Ingest, Forward, Refuse, EntryName, Use, ReadFile, WriteCached, Send, Receive,
                sistema
  <2>3. QED  BY <1>6, <2>1, <2>2 DEF serviceRequest
<1>7. ASSUME NEW r \in Requests, serviceRequest(r) PROVE DescriptorsOwned'
  BY <1>7, <1>1, <1>3, <1>4, <1>5, <1>6
<1>8. CASE Start \/ Die \/ Expire \/ UNCHANGED vars
  BY <1>8, <1>1 DEF Start, Die, Expire, vars, sistema, chamada
<1>9. QED  BY <1>2, <1>7, <1>8 DEF Next, Idle, Exited

-------------------------------------------------------------------------------
(* The entries of the cache: what is in a file, and in the hands of a call *)
(* that found it, is the answer to a request with its key, which the call  *)
(* that got it could cache and has passed on; and a call that fetches a    *)
(* response found no file of its key, or one that it could not name.       *)

Achou == {"use", "read", "writeCached"}
Depois == {"write", "unlockMutex", "fim", "feito"}

\* e has the key of the request d.
De(e, d) == e.chave.path = pedido[d].path /\ e.chave.host = pedido[d].host

\* e holds what its own call got.
Original(e) == /\ e.de \in Requests /\ e.resp \in Respostas /\ De(e, e.de)
               /\ pc[e.de] \in Depois /\ resp[e.de] = e.resp /\ shouldCache(e.de)

Answers ==
  /\ DOMAIN achado = Requests /\ DOMAIN resp = Requests
  /\ \A e \in entradas : Original(e) /\ e.chave \in diretorios /\ e.chave.method = "GET"
  /\ \A r \in Requests :
       /\ pc[r] \in Achou => De(achado[r], r) /\ Original(achado[r])
       /\ pc[r] = "store" => resp[r] \in Respostas
       /\ pc[r] = "writeCached" => resp[r] \in {Vazia, achado[r].resp}

LEMMA InitAnswers == Init => Answers
BY DEF Init, Answers, Achou

\* A step in which no reply that was passed on changes.
Passed == /\ pedido' = pedido
          /\ \A s \in Requests : pc[s] \in Depois => pc'[s] \in Depois /\ resp'[s] = resp[s]

LEMMA KeepsOriginal ==
  ASSUME Passed, NEW e, Original(e)
  PROVE  Original(e)' /\ \A d \in Requests : De(e, d)' <=> De(e, d)
BY DEF Passed, Original, De, shouldCache, permitsCaching, getTTL

\* A step that stores nothing and finds nothing.
LEMMA SameAnswers ==
  ASSUME Answers, Passed, UNCHANGED <<achado, entradas, diretorios>>, DOMAIN resp' = Requests,
         \A s \in Requests :
           /\ pc'[s] \in Achou => pc[s] \in Achou
           /\ pc'[s] = "store" => resp'[s] \in Respostas
           /\ pc'[s] = "writeCached" => resp'[s] \in {Vazia, achado[s].resp}
  PROVE  Answers'
<1>1. \A e \in entradas' : Original(e)' /\ e.chave \in diretorios' /\ e.chave.method = "GET"
  BY KeepsOriginal DEF Answers
<1>2. ASSUME NEW s \in Requests, pc'[s] \in Achou
      PROVE  De(achado[s], s)' /\ Original(achado[s])'
  <2>1. PICK e : e = achado[s] /\ e = achado'[s]
    OBVIOUS
  <2>2. De(e, s)' /\ Original(e)'
    BY <2>1, <1>2, KeepsOriginal DEF Answers
  <2>3. QED  BY <2>1, <2>2 DEF De, Original, shouldCache
<1>3. QED  BY <1>1, <1>2 DEF Answers, Achou, Vazia

LEMMA NextAnswers == Functions /\ Answers /\ [Next]_vars => Answers'
<1> SUFFICES ASSUME Functions, Answers, [Next]_vars PROVE Answers'
  OBVIOUS
<1>0. pedido' = pedido
  BY Fixed
<1> DEFINE Same == /\ UNCHANGED <<achado, resp, entradas, diretorios>>
                   /\ \A s \in Requests : /\ pc'[s] \in Achou => pc'[s] = pc[s]
                                          /\ pc'[s] = "store" => pc[s] = "store"
                                          /\ pc[s] \in Depois => pc'[s] \in Depois
<1>1. Same => Answers'
  BY <1>0, SameAnswers DEF Passed, Answers, Achou
<1>2. CASE Start \/ Die \/ UNCHANGED vars
  BY <1>1, <1>2 DEF Start, Die, vars, chamada, cache
<1>3. CASE Expire
  BY <1>1, <1>3 DEF Expire, chamada
<1>4. ASSUME NEW r \in Requests, Accept(r) PROVE Same
  BY <1>4 DEF Accept, Goto, Functions, cache, Achou, Depois
<1>5. ASSUME NEW r \in Requests, EntryName(r) PROVE Answers'
  <2>1. /\ UNCHANGED <<resp, entradas, diretorios>> /\ DOMAIN achado' = Requests
        /\ \A s \in Requests : s # r => achado'[s] = achado[s] /\ pc'[s] = pc[s]
        /\ pc[r] = "entryName" /\ pc'[r] \in {"use", "connect"}
    BY <1>5 DEF EntryName, Goto, Functions, Answers, cache
  <2>2. Passed
    BY <1>0, <2>1 DEF Passed, Depois
  <2>3. ASSUME pc'[r] = "use" PROVE De(achado'[r], r) /\ Original(achado'[r])
    <3>1. PICK e \in Entradas(r) : achado'[r] = e
      BY <2>3, <1>5 DEF EntryName, Goto, Functions, Answers
    <3>2. e \in entradas /\ e.chave = serializeRequest(r) /\ Original(e)
      BY DEF Entradas, Answers
    <3>3. De(e, r)
      BY <3>2 DEF serializeRequest, De
    <3>4. QED  BY <3>1, <3>2, <3>3
  <2>4. \A s \in Requests : pc'[s] \in Achou => De(achado'[s], s) /\ Original(achado'[s])
    BY <2>1, <2>3 DEF Answers, Achou
  <2>5. \A e : Original(e) => Original(e)' /\ \A d \in Requests : De(e, d)' <=> De(e, d)
    BY <2>2, KeepsOriginal
  <2>6. ASSUME NEW s \in Requests, pc'[s] \in Achou PROVE De(achado[s], s)' /\ Original(achado[s])'
    <3>1. PICK e : e = achado'[s]
      OBVIOUS
    <3>2. De(e, s)' /\ Original(e)'
      BY <3>1, <2>4, <2>5, <2>6
    <3>3. QED  BY <3>1, <3>2 DEF De, Original, shouldCache
  <2>7. QED  BY <2>1, <2>5, <2>6 DEF Answers, Achou, Vazia
<1>6. ASSUME NEW r \in Requests, Use(r) PROVE Answers'
  <2>1. /\ UNCHANGED <<resp, diretorios>> /\ DOMAIN achado' = Requests
        /\ pc[r] = "use" /\ pc'[r] \in {"read", "connect"}
        /\ pc'[r] = "read" => achado' = achado
        /\ \A s \in Requests : s # r => pc'[s] = pc[s] /\ achado'[s] = achado[s]
        /\ \A e \in entradas' : e \in entradas
    BY <1>6 DEF Use, RemoveFile, Goto, Functions, Answers, cache
  <2>2. Passed
    BY <1>0, <2>1 DEF Passed, Depois
  <2>3. \A e : Original(e) => Original(e)' /\ \A d \in Requests : De(e, d)' <=> De(e, d)
    BY <2>2, KeepsOriginal
  <2>4. ASSUME NEW s \in Requests, pc'[s] \in Achou PROVE De(achado[s], s)' /\ Original(achado[s])'
    <3>1. PICK e : e = achado[s] /\ e = achado'[s]
      BY <2>1, <2>4 DEF Achou
    <3>2. De(e, s)' /\ Original(e)'
      BY <3>1, <2>1, <2>3, <2>4 DEF Answers, Achou
    <3>3. QED  BY <3>1, <3>2 DEF De, Original, shouldCache
  <2>5. QED  BY <2>1, <2>3, <2>4 DEF Answers, Achou, Vazia
<1>7. ASSUME NEW r \in Requests, ReadFile(r) PROVE Answers'
  <2>1. /\ UNCHANGED <<achado, entradas, diretorios>> /\ pc[r] = "read" /\ pc'[r] = "writeCached"
        /\ \A s \in Requests : s # r => pc'[s] = pc[s] /\ resp'[s] = resp[s]
        /\ DOMAIN resp' = Requests /\ resp'[r] \in {Vazia, achado[r].resp}
    BY <1>7 DEF ReadFile, Goto, Functions, Answers, cache
  <2>2. Passed
    BY <1>0, <2>1 DEF Passed, Depois
  <2>3. QED  BY <2>1, <2>2, SameAnswers DEF Answers, Achou
<1>8. ASSUME NEW r \in Requests, Receive(r) PROVE Answers'
  <2>1. /\ UNCHANGED <<achado, entradas, diretorios>> /\ pc[r] = "receive" /\ pc'[r] = "store"
        /\ \A s \in Requests : s # r => pc'[s] = pc[s] /\ resp'[s] = resp[s]
        /\ DOMAIN resp' = Requests /\ resp'[r] \in Respostas
    BY <1>8 DEF Receive, Goto, Functions, Answers, cache
  <2>2. Passed
    BY <1>0, <2>1 DEF Passed, Depois
  <2>3. QED  BY <2>1, <2>2, SameAnswers DEF Answers, Achou
<1>9. ASSUME NEW r \in Requests, Store(r) PROVE Answers'
  <2>1. /\ UNCHANGED <<achado, resp>> /\ pc[r] = "store" /\ pc'[r] = "write"
        /\ \A s \in Requests : s # r => pc'[s] = pc[s]
    BY <1>9 DEF Store, Goto, Functions, chamada
  <2>2. CASE UNCHANGED cache
    BY <2>1, <2>2, <1>1 DEF cache, Achou, Depois
  <2>3. CASE shouldCache(r) /\ MakeDirectory(r) /\ entradas' = entradas \cup
               {[chave |-> serializeRequest(r), de |-> r, resp |-> resp[r]]}
    <3>0. PICK n : n = [chave |-> serializeRequest(r), de |-> r, resp |-> resp[r]]
      OBVIOUS
    <3>1. Passed
      BY <1>0, <2>1 DEF Passed, Depois
    <3>2. \A e : Original(e) => Original(e)' /\ \A d \in Requests : De(e, d)' <=> De(e, d)
      BY <3>1, KeepsOriginal
    <3>3. /\ n.de = r /\ n.resp = resp[r] /\ n.chave = serializeRequest(r)
          /\ \A e \in entradas' : e \in entradas \/ e = n
      BY <2>3, <3>0
    <3>4. n.chave \in diretorios' /\ n.chave.method = "GET" /\ diretorios \subseteq diretorios'
      BY <3>3, <2>3 DEF serializeRequest, MakeDirectory, shouldCache
    <3>5. n.chave.path = pedido[r].path /\ n.chave.host = pedido[r].host /\ resp[r] \in Respostas
      BY <3>3, <2>1 DEF Answers, serializeRequest
    <3>6. Original(n)'
      BY <1>0, <2>1, <2>3, <3>3, <3>5 DEF Original, De, Depois, shouldCache
    <3>7. \A e \in entradas' : Original(e)' /\ e.chave \in diretorios' /\ e.chave.method = "GET"
      BY <3>2, <3>3, <3>4, <3>6 DEF Answers
    <3>8. ASSUME NEW s \in Requests, pc'[s] \in Achou
          PROVE  De(achado[s], s)' /\ Original(achado[s])'
      <4>1. PICK e : e = achado[s] /\ e = achado'[s]
        BY <2>1
      <4>2. De(e, s)' /\ Original(e)'
        BY <4>1, <2>1, <3>2, <3>8 DEF Answers, Achou
      <4>3. QED  BY <4>1, <4>2 DEF De, Original, shouldCache
    <3>9. QED  BY <2>1, <3>7, <3>8 DEF Answers, Achou, Vazia
  <2>4. QED  BY <1>9, <2>2, <2>3 DEF Store
<1>10. ASSUME NEW r \in Requests, serviceRequest(r)
       PROVE  Same \/ EntryName(r) \/ Use(r) \/ ReadFile(r) \/ Receive(r) \/ Store(r)
  <2>1. CASE Begin(r)  BY <2>1 DEF Begin, Goto, Functions, chamada, cache, Achou, Depois
  <2>2. CASE GetPeerName(r)  BY <2>2 DEF GetPeerName, Goto, Functions, chamada, cache, Achou, Depois
  <2>3. CASE LockSocket(r)  BY <2>3 DEF LockSocket, Goto, Functions, chamada, cache, Achou, Depois
  <2>4. CASE Ingest(r)  BY <2>4 DEF Ingest, ingestHeader, Goto, Functions, cache, Achou, Depois
  <2>5. CASE Forward(r)  BY <2>5 DEF Forward, Goto, Functions, cache, Achou, Depois
  <2>6. CASE Blacklist(r)  BY <2>6 DEF Blacklist, Goto, Functions, chamada, cache, Achou, Depois
  <2>7. CASE Refuse(r)  BY <2>7 DEF Refuse, Write, Goto, Functions, cache, Achou, Depois
  <2>8. CASE LockMutex(r)  BY <2>8 DEF LockMutex, Goto, Functions, chamada, cache, Achou, Depois
  <2>9. CASE ContainsCacheEntry(r)
    BY <2>9 DEF ContainsCacheEntry, Goto, Functions, chamada, cache, Achou, Depois
  <2>10. CASE WriteCached(r)  BY <2>10 DEF WriteCached, Write, Goto, Functions, cache, Achou, Depois
  <2>11. CASE Connect(r)  BY <2>11 DEF Connect, AfterFailure, Goto, Functions, cache, Achou, Depois
  <2>12. CASE Send(r)  BY <2>12 DEF Send, Goto, Functions, cache, Achou, Depois
  <2>13. CASE Reply(r)  BY <2>13 DEF Reply, Write, Goto, Functions, cache, Achou, Depois
  <2>14. CASE UnlockMutex(r)
    BY <2>14 DEF UnlockMutex, Goto, Functions, chamada, cache, Achou, Depois
  <2>15. CASE End(r)  BY <2>15 DEF End, Goto, Functions, cache, Achou, Depois
  <2>16. QED
    BY <1>10, <2>1, <2>2, <2>3, <2>4, <2>5, <2>6, <2>7, <2>8, <2>9, <2>10, <2>11, <2>12,
       <2>13, <2>14, <2>15 DEF serviceRequest
<1>11. QED
  BY <1>1, <1>2, <1>3, <1>4, <1>5, <1>6, <1>7, <1>8, <1>9, <1>10 DEF Next, Idle, Exited

-------------------------------------------------------------------------------
(* That an entry is fetched once: whoever fetches it has its mutex, and    *)
(* when it looked there was no file of its key, or one without a name.     *)

Antes == {"fora", "fila", "getpeername", "lockSocket", "ingest", "forward", "ciclo",
          "blacklist", "proibido", "lockMutex", "contains", "entryName"}
Busca == {"connect", "send", "receive", "store"}

Once ==
  /\ \A r \in Requests :
       /\ pc[r] \in Antes => achado[r] = Nenhuma
       /\ pc[r] \in Busca => Entradas(r) = {} \/ Perdida(serializeRequest(r))
       /\ pc[r] \in Achou => achado[r] \in Entradas(r)
  /\ \A e, f \in entradas : e.chave = f.chave => e = f \/ Perdida(e.chave)

LEMMA InitOnce == Init => Once
BY DEF Init, Once, Busca, Achou

LEMMA Alone ==
  ASSUME Locks, NEW r \in Requests, NEW s \in Requests, pc[r] \in Secao, pc[s] \in Secao,
         serializeRequest(r) = serializeRequest(s)
  PROVE  r = s
BY DEF Locks, Mutex

LEMMA SameKey ==
  ASSUME NEW r \in Requests, headers'[r] = headers[r], pedido' = pedido
  PROVE  serializeRequest(r)' = serializeRequest(r)
BY DEF serializeRequest

\* A step in which nobody starts to fetch and the files stay.
LEMMA SameOnce ==
  ASSUME Once, pedido' = pedido, UNCHANGED <<achado, entradas>>,
         \A s \in Requests : /\ pc'[s] \in Antes => pc[s] \in Antes
                             /\ pc'[s] \in Busca => pc[s] \in Busca /\ headers'[s] = headers[s]
                             /\ pc'[s] \in Achou => pc[s] \in Achou /\ headers'[s] = headers[s]
  PROVE  Once'
<1>1. \A k : Perdida(k)' <=> Perdida(k)
  BY DEF Perdida
<1>2. ASSUME NEW s \in Requests, pc'[s] \in Busca \cup Achou
      PROVE  serializeRequest(s)' = serializeRequest(s) /\ Entradas(s)' = Entradas(s)
  BY <1>2, SameKey DEF Entradas
<1>3. \A e, f \in entradas' : e.chave = f.chave => e = f \/ Perdida(e.chave)'
  BY <1>1 DEF Once
<1>4. \A s \in Requests : pc'[s] \in Busca => Entradas(s)' = {} \/ Perdida(serializeRequest(s))'
  BY <1>1, <1>2 DEF Once
<1>5. \A s \in Requests : pc'[s] \in Achou => achado'[s] \in Entradas(s)'
  BY <1>2 DEF Once
<1>6. \A s \in Requests : pc'[s] \in Antes => achado'[s] = Nenhuma
  BY DEF Once
<1>7. QED  BY <1>3, <1>4, <1>5, <1>6 DEF Once, Busca, Antes, Achou

LEMMA NextOnce ==
  Direto /\ Functions /\ Terminal /\ Locks /\ Answers /\ Once /\ [Next]_vars => Once'
<1> SUFFICES ASSUME Direto, Functions, Terminal, Locks, Answers, Once, [Next]_vars PROVE Once'
  OBVIOUS
<1>0. pedido' = pedido
  BY Fixed
<1> DEFINE Same == /\ UNCHANGED <<achado, entradas>>
                   /\ \A s \in Requests :
                        /\ pc'[s] \in Antes => pc[s] \in Antes
                        /\ pc'[s] \in Busca => pc[s] \in Busca /\ headers'[s] = headers[s]
                        /\ pc'[s] \in Achou => pc[s] \in Achou /\ headers'[s] = headers[s]
<1>1. Same => Once'
  BY <1>0, SameOnce
<1>2. CASE Start \/ Die \/ UNCHANGED vars
  BY <1>1, <1>2 DEF Start, Die, vars, chamada, cache
<1>3. CASE Expire
  BY <1>1, <1>3 DEF Expire, chamada
<1>4. ASSUME NEW r \in Requests, Accept(r) PROVE Same
  BY <1>4 DEF Accept, Goto, Functions, cache, Antes, Busca, Achou
<1>5. ASSUME NEW r \in Requests, headers' = headers PROVE serializeRequest(r)' = serializeRequest(r)
  BY <1>0, <1>5, SameKey
<1>6. ASSUME NEW r \in Requests, ContainsCacheEntry(r) PROVE Once'
  <2>1. UNCHANGED <<achado, entradas, headers>> /\ pc[r] = "contains"
        /\ pc'[r] \in {"entryName", "connect"} /\ \A s \in Requests : s # r => pc'[s] = pc[s]
    BY <1>6 DEF ContainsCacheEntry, Goto, Functions, chamada, cache
  <2>2. ASSUME pc'[r] = "connect" PROVE Entradas(r) = {}
    <3>1. ~TemDiretorio(r) \/ Entradas(r) = {}
      BY <2>2, <1>6 DEF ContainsCacheEntry, Goto, Functions
    <3>2. ASSUME NEW e \in Entradas(r) PROVE TemDiretorio(r)
      BY DEF Entradas, Answers, TemDiretorio, serializeRequest
    <3>3. QED  BY <3>1, <3>2
  <2>3. \A s \in Requests : Entradas(s)' = Entradas(s) /\ serializeRequest(s)' = serializeRequest(s)
    BY <2>1, <1>5 DEF Entradas
  <2>4. \A k : Perdida(k)' <=> Perdida(k)
    BY <2>1 DEF Perdida
  <2>5. ASSUME NEW s \in Requests
        PROVE  /\ pc'[s] \in Antes => achado'[s] = Nenhuma
               /\ pc'[s] \in Busca => Entradas(s)' = {} \/ Perdida(serializeRequest(s))'
               /\ pc'[s] \in Achou => achado'[s] \in Entradas(s)'
    <3>1. CASE s = r
      BY <3>1, <2>1, <2>2, <2>3 DEF Once, Antes, Busca, Achou
    <3>2. CASE s # r
      BY <3>2, <2>1, <2>3, <2>4 DEF Once
    <3>3. QED  BY <3>1, <3>2
  <2>6. \A e, f \in entradas' : e.chave = f.chave => e = f \/ Perdida(e.chave)'
    BY <2>1, <2>4 DEF Once
  <2>7. QED  BY <2>5, <2>6 DEF Once, Antes, Busca, Achou
<1>7. ASSUME NEW r \in Requests, EntryName(r) PROVE Once'
  <2>1. /\ UNCHANGED <<entradas, headers>> /\ pc[r] = "entryName" /\ achado[r] = Nenhuma
        /\ \A s \in Requests : s # r => pc'[s] = pc[s] /\ achado'[s] = achado[s]
    BY <1>7 DEF EntryName, Goto, Functions, Answers, cache, Once, Antes
  <2>2. \/ pc'[r] = "use" /\ achado'[r] \in Entradas(r)
        \/ pc'[r] = "connect" /\ achado'[r] = SemNome(r)
    BY <1>7 DEF EntryName, Goto, Functions, Answers
  <2>3. \A s \in Requests : Entradas(s)' = Entradas(s) /\ serializeRequest(s)' = serializeRequest(s)
    BY <2>1, <1>5 DEF Entradas
  <2>4. ASSUME NEW k, Perdida(k) PROVE Perdida(k)'
    <3>1. PICK s \in Requests : achado[s].de = s /\ achado[s].resp = NULL /\ achado[s].chave = k
      BY <2>4 DEF Perdida
    <3>2. s # r
      BY <3>1, <2>1, ProxyAssumption DEF Nenhuma
    <3>3. QED  BY <3>1, <3>2, <2>1 DEF Perdida
  <2>5. ASSUME pc'[r] = "connect" PROVE Perdida(serializeRequest(r))'
    <3>1. achado'[r] = SemNome(r) /\ SemNome(r).de = r /\ SemNome(r).resp = NULL
          /\ SemNome(r).chave = serializeRequest(r)
      BY <2>2, <2>5 DEF SemNome
    <3>2. QED  BY <3>1, <2>3 DEF Perdida
  <2>6. ASSUME NEW s \in Requests
        PROVE  /\ pc'[s] \in Antes => achado'[s] = Nenhuma
               /\ pc'[s] \in Busca => Entradas(s)' = {} \/ Perdida(serializeRequest(s))'
               /\ pc'[s] \in Achou => achado'[s] \in Entradas(s)'
    <3>1. CASE s = r
      BY <3>1, <2>2, <2>3, <2>5 DEF Antes, Busca, Achou
    <3>2. CASE s # r
      BY <3>2, <2>1, <2>3, <2>4 DEF Once
    <3>3. QED  BY <3>1, <3>2
  <2>7. \A e, f \in entradas' : e.chave = f.chave => e = f \/ Perdida(e.chave)'
    BY <2>1, <2>4 DEF Once
  <2>8. QED  BY <2>6, <2>7 DEF Once, Antes, Busca, Achou
<1>8. ASSUME NEW r \in Requests, Use(r) PROVE Once'
  <2>1. CASE cachedEntryIsValid(r)
    <3>1. UNCHANGED <<entradas, achado, headers>> /\ pc[r] = "use" /\ pc'[r] = "read"
          /\ \A s \in Requests : s # r => pc'[s] = pc[s]
      BY <2>1, <1>8 DEF Use, Goto, Functions, cache
    <3>2. QED  BY <3>1, <1>1 DEF Antes, Busca, Achou
  <2>2. CASE ~cachedEntryIsValid(r)
    <3>1. /\ headers' = headers /\ pc[r] = "use" /\ pc'[r] = "connect"
          /\ entradas' = entradas \ {achado[r]} /\ achado'[r] = Nenhuma
          /\ \A s \in Requests : s # r => pc'[s] = pc[s] /\ achado'[s] = achado[s]
      BY <2>2, <1>8 DEF Use, RemoveFile, Goto, Functions, Answers
    <3>2. \A s \in Requests : serializeRequest(s)' = serializeRequest(s)
      BY <3>1, <1>5
    <3>3. achado[r] \in Entradas(r) /\ achado[r].resp # NULL
      BY <3>1, ProxyAssumption DEF Once, Answers, Original, Achou
    <3>4. ASSUME NEW k, Perdida(k) PROVE Perdida(k)'
      <4>1. PICK s \in Requests : achado[s].de = s /\ achado[s].resp = NULL /\ achado[s].chave = k
        BY <3>4 DEF Perdida
      <4>2. QED  BY <4>1, <3>1, <3>3 DEF Perdida
    <3>5. Entradas(r)' = {} \/ Perdida(serializeRequest(r))'
      <4>1. CASE Perdida(serializeRequest(r))
        BY <4>1, <3>2, <3>4
      <4>2. CASE ~Perdida(serializeRequest(r))
        <5>1. \A e \in Entradas(r) : e = achado[r]
          BY <4>2, <3>3 DEF Once, Entradas
        <5>2. QED  BY <5>1, <3>1, <3>2 DEF Entradas
      <4>3. QED  BY <4>1, <4>2
    <3>6. ASSUME NEW s \in Requests
          PROVE  /\ pc'[s] \in Antes => achado'[s] = Nenhuma
                 /\ pc'[s] \in Busca => Entradas(s)' = {} \/ Perdida(serializeRequest(s))'
                 /\ pc'[s] \in Achou => achado'[s] \in Entradas(s)'
      <4>1. CASE s = r
        BY <4>1, <3>1, <3>5 DEF Antes, Achou
      <4>2. CASE s # r
        <5>1. /\ pc'[s] \in Antes => achado'[s] = Nenhuma
              /\ pc'[s] \in Busca => Entradas(s)' = {} \/ Perdida(serializeRequest(s))'
          BY <4>2, <3>1, <3>2, <3>4 DEF Once, Entradas
        <5>2. ASSUME pc'[s] \in Achou PROVE achado'[s] \in Entradas(s)'
          <6>1. achado[s] \in Entradas(s) /\ pc[s] \in Achou /\ achado'[s] = achado[s]
            BY <5>2, <4>2, <3>1 DEF Once
          <6>2. achado[s] # achado[r]
            BY <6>1, <3>1, <3>3, <4>2, Alone DEF Achou, Entradas, Secao
          <6>3. QED  BY <6>1, <6>2, <3>1, <3>2 DEF Entradas
        <5>3. QED  BY <5>1, <5>2
      <4>3. QED  BY <4>1, <4>2
    <3>7. \A e, f \in entradas' : e.chave = f.chave => e = f \/ Perdida(e.chave)'
      BY <3>1, <3>4 DEF Once
    <3>8. QED  BY <3>6, <3>7 DEF Once, Antes, Busca, Achou
  <2>3. QED  BY <2>1, <2>2
<1>9. ASSUME NEW r \in Requests, Store(r) PROVE Once'
  <2>1. /\ UNCHANGED <<achado, headers>> /\ pc[r] = "store" /\ pc'[r] = "write"
        /\ \A s \in Requests : s # r => pc'[s] = pc[s]
    BY <1>9 DEF Store, Goto, Functions, chamada
  <2>2. CASE UNCHANGED cache
    BY <2>1, <2>2, <1>1 DEF cache, Antes, Busca, Achou
  <2>3. CASE entradas' = entradas \cup
               {[chave |-> serializeRequest(r), de |-> r, resp |-> resp[r]]}
    <3> DEFINE n == [chave |-> serializeRequest(r), de |-> r, resp |-> resp[r]]
    <3>1. n.chave = serializeRequest(r) /\ entradas' = entradas \cup {n}
      BY <2>3
    <3> HIDE DEF n
    <3>2. \A s \in Requests : serializeRequest(s)' = serializeRequest(s)
      BY <2>1, <1>5
    <3>3. \A k : Perdida(k)' <=> Perdida(k)
      BY <2>1 DEF Perdida
    <3>4. Entradas(r) = {} \/ Perdida(serializeRequest(r))
      BY <2>1 DEF Once, Busca
    <3>5. ASSUME NEW e \in entradas', NEW f \in entradas', e.chave = f.chave
          PROVE  e = f \/ Perdida(e.chave)'
      <4>1. CASE e \in entradas /\ f \in entradas
        BY <4>1, <3>3, <3>5 DEF Once
      <4>2. CASE (e = n /\ f \in entradas) \/ (f = n /\ e \in entradas)
        BY <4>2, <3>1, <3>3, <3>4, <3>5 DEF Entradas
      <4>3. QED  BY <4>1, <4>2, <3>1
    <3>6. ASSUME NEW s \in Requests
          PROVE  /\ pc'[s] \in Antes => achado'[s] = Nenhuma
                 /\ pc'[s] \in Busca => Entradas(s)' = {} \/ Perdida(serializeRequest(s))'
                 /\ pc'[s] \in Achou => achado'[s] \in Entradas(s)'
      <4>1. CASE s = r
        BY <4>1, <2>1 DEF Antes, Busca, Achou
      <4>2. CASE s # r
        <5>1. pc[s] \in Busca => serializeRequest(s) # n.chave
          BY <4>2, <3>1, <2>1, Alone DEF Busca, Secao
        <5>2. pc[s] \in Busca => Entradas(s)' = Entradas(s)
          BY <5>1, <3>1, <3>2 DEF Entradas
        <5>3. QED  BY <4>2, <5>2, <2>1, <3>1, <3>2, <3>3 DEF Once, Entradas
      <4>3. QED  BY <4>1, <4>2
    <3>7. QED  BY <3>5, <3>6 DEF Once, Antes, Busca, Achou
  <2>4. QED  BY <1>9, <2>2, <2>3 DEF Store
<1>10. ASSUME NEW r \in Requests, serviceRequest(r)
       PROVE  Same \/ ContainsCacheEntry(r) \/ EntryName(r) \/ Use(r) \/ Store(r)
  <2>1. CASE Begin(r)  BY <2>1 DEF Begin, Goto, Functions, chamada, cache, Antes, Busca, Achou
  <2>2. CASE GetPeerName(r)
    BY <2>2 DEF GetPeerName, Goto, Functions, chamada, cache, Antes, Busca, Achou
  <2>3. CASE LockSocket(r)
    BY <2>3 DEF LockSocket, Goto, Functions, chamada, cache, Antes, Busca, Achou
  <2>4. CASE Ingest(r)
    BY <2>4 DEF Ingest, ingestHeader, Goto, Functions, cache, Antes, Busca, Achou
  <2>5. CASE Forward(r)  BY <2>5 DEF Forward, Goto, Functions, cache, Antes, Busca, Achou
  <2>6. CASE Blacklist(r)
    BY <2>6 DEF Blacklist, Goto, Functions, chamada, cache, Antes, Busca, Achou
  <2>7. CASE Refuse(r)  BY <2>7 DEF Refuse, Write, Goto, Functions, cache, Antes, Busca, Achou
  <2>8. CASE LockMutex(r)
    BY <2>8 DEF LockMutex, Goto, Functions, chamada, cache, Antes, Busca, Achou
  <2>9. CASE WriteCached(r)
    BY <2>9 DEF WriteCached, Write, Goto, Functions, cache, Antes, Busca, Achou
  <2>10. CASE Connect(r)
    BY <2>10 DEF Connect, AfterFailure, Goto, Functions, cache, Antes, Busca, Achou
  <2>11. CASE Send(r)
    <3>1. \A s \in Requests : headers'[s] = headers[s]
      BY <2>11 DEF Send, removeHeader, Terminal, Functions
    <3>2. QED  BY <2>11, <3>1 DEF Send, Goto, Functions, cache, Antes, Busca, Achou
  <2>12. CASE Receive(r)  BY <2>12 DEF Receive, Goto, Functions, cache, Antes, Busca, Achou
  <2>13. CASE Reply(r)  BY <2>13 DEF Reply, Write, Goto, Functions, cache, Antes, Busca, Achou
  <2>14. CASE UnlockMutex(r)
    BY <2>14 DEF UnlockMutex, Goto, Functions, chamada, cache, Antes, Busca, Achou
  <2>15. CASE End(r)  BY <2>15 DEF End, Goto, Functions, cache, Antes, Busca, Achou
  <2>16. CASE ReadFile(r)  BY <2>16 DEF ReadFile, Goto, Functions, cache, Antes, Busca, Achou
  <2>17. QED
    BY <1>10, <2>1, <2>2, <2>3, <2>4, <2>5, <2>6, <2>7, <2>8, <2>9, <2>10, <2>11, <2>12,
       <2>13, <2>14, <2>15, <2>16 DEF serviceRequest
<1>11. ASSUME NEW r \in Requests, serviceRequest(r) PROVE Once'
  <2>1. CASE Same  BY <2>1, <1>1
  <2>2. CASE ~Same  BY <2>2, <1>6, <1>7, <1>8, <1>9, <1>10, <1>11
  <2>3. QED  BY <2>1, <2>2
<1>12. QED  BY <1>1, <1>2, <1>3, <1>4, <1>11 DEF Next, Idle, Exited
-------------------------------------------------------------------------------
Positions == pc \in [Requests -> PC]

LEMMA NextPc == Positions /\ [Next]_vars => Positions'
<1> SUFFICES ASSUME Positions, [Next]_vars PROVE Positions'
  OBVIOUS
<1>1. CASE Start \/ Die \/ Expire \/ UNCHANGED vars
  BY <1>1 DEF Start, Die, Expire, vars, Positions
<1>2. ASSUME NEW r \in Requests, Accept(r) PROVE Positions'
  BY <1>2 DEF Accept, Goto, Positions, PC
<1>4. ASSUME NEW r \in Requests, serviceRequest(r) PROVE Positions'
  <2>1. CASE Begin(r)  BY <2>1 DEF Begin, Goto, Positions, PC
  <2>2. CASE GetPeerName(r)  BY <2>2 DEF GetPeerName, Goto, Positions, PC
  <2>3. CASE LockSocket(r)  BY <2>3 DEF LockSocket, Goto, Positions, PC
  <2>4. CASE Ingest(r)  BY <2>4 DEF Ingest, ingestHeader, Goto, Positions, PC
  <2>5. CASE Forward(r)  BY <2>5 DEF Forward, Goto, Positions, PC
  <2>6. CASE Blacklist(r)  BY <2>6 DEF Blacklist, Goto, Positions, PC
  <2>7. CASE Refuse(r)  BY <2>7 DEF Refuse, Write, Goto, Positions, PC
  <2>8. CASE LockMutex(r)  BY <2>8 DEF LockMutex, Goto, Positions, PC
  <2>9. CASE ContainsCacheEntry(r)  BY <2>9 DEF ContainsCacheEntry, Goto, Positions, PC
  <2>10. CASE EntryName(r)  BY <2>10 DEF EntryName, Goto, Positions, PC
  <2>11. CASE Use(r)  BY <2>11 DEF Use, Goto, Positions, PC
  <2>12. CASE ReadFile(r)  BY <2>12 DEF ReadFile, Goto, Positions, PC
  <2>13. CASE WriteCached(r)  BY <2>13 DEF WriteCached, Write, Goto, Positions, PC
  <2>14. CASE Connect(r)  BY <2>14 DEF Connect, AfterFailure, Goto, Positions, PC
  <2>15. CASE Send(r)  BY <2>15 DEF Send, Goto, Positions, PC
  <2>16. CASE Receive(r)  BY <2>16 DEF Receive, Goto, Positions, PC
  <2>17. CASE Store(r)  BY <2>17 DEF Store, Goto, Positions, PC
  <2>18. CASE Reply(r)  BY <2>18 DEF Reply, Write, Goto, Positions, PC
  <2>19. CASE UnlockMutex(r)  BY <2>19 DEF UnlockMutex, Goto, Positions, PC
  <2>20. CASE End(r)  BY <2>20 DEF End, Goto, Positions, PC
  <2>21. QED
    BY <1>4, <2>1, <2>2, <2>3, <2>4, <2>5, <2>6, <2>7, <2>8, <2>9, <2>10, <2>11,
       <2>12, <2>13, <2>14, <2>15, <2>16, <2>17, <2>18, <2>19, <2>20 DEF serviceRequest
<1>5. QED  BY <1>1, <1>2, <1>4 DEF Next, Idle, Exited

Fds == 1..MaxFds

Descriptors ==
  /\ livres \subseteq Fds
  /\ fd \in [Requests -> Fds \cup {NULL}] /\ socketDestino \in [Requests -> Fds \cup {NULL}]
  /\ \A r \in Requests :
       /\ pc[r] \notin {"fora", "feito"} => fd[r] \in Fds
       /\ pc[r] \in {"send", "receive", "store", "write"} => socketDestino[r] \in Fds

LEMMA NextDescriptorTypes == Functions /\ Descriptors /\ [Next]_vars => Descriptors'
<1> SUFFICES ASSUME Functions, Descriptors, [Next]_vars PROVE Descriptors'
  OBVIOUS
<1> USE DEF Functions, Descriptors
<1>1. CASE Start \/ Die \/ Expire \/ UNCHANGED vars
  BY <1>1 DEF Start, Die, Expire, vars, chamada, sistema
<1>2. ASSUME NEW r \in Requests, Accept(r) PROVE Descriptors'
  BY <1>2 DEF Accept, Goto
<1>4. ASSUME NEW r \in Requests, serviceRequest(r) PROVE Descriptors'
  <2>1. CASE Begin(r)  BY <2>1 DEF Begin, Goto, chamada, sistema
  <2>2. CASE GetPeerName(r)  BY <2>2 DEF GetPeerName, Goto, chamada, sistema
  <2>3. CASE LockSocket(r)  BY <2>3 DEF LockSocket, Goto, chamada, sistema
  <2>4. CASE Ingest(r)  BY <2>4 DEF Ingest, ingestHeader, Goto, chamada, sistema
  <2>5. CASE Forward(r)  BY <2>5 DEF Forward, Goto, chamada, sistema
  <2>6. CASE Blacklist(r)  BY <2>6 DEF Blacklist, Goto, chamada, sistema
  <2>7. CASE Refuse(r)  BY <2>7 DEF Refuse, Write, Goto, chamada, sistema
  <2>8. CASE LockMutex(r)  BY <2>8 DEF LockMutex, Goto, chamada, sistema
  <2>9. CASE ContainsCacheEntry(r)  BY <2>9 DEF ContainsCacheEntry, Goto, chamada, sistema
  <2>10. CASE EntryName(r)  BY <2>10 DEF EntryName, Goto, chamada, sistema
  <2>11. CASE Use(r)  BY <2>11 DEF Use, RemoveFile, Goto, chamada, sistema
  <2>12. CASE ReadFile(r)  BY <2>12 DEF ReadFile, Goto, chamada, sistema
  <2>13. CASE WriteCached(r)  BY <2>13 DEF WriteCached, Write, Goto, chamada, sistema
  <2>14. CASE Connect(r)  BY <2>14 DEF Connect, AfterFailure, Menor, Goto, chamada, sistema
  <2>15. CASE Send(r)  BY <2>15 DEF Send, removeHeader, Goto, chamada, sistema
  <2>16. CASE Receive(r)  BY <2>16 DEF Receive, Goto, chamada, sistema
  <2>17. CASE Store(r)  BY <2>17 DEF Store, Goto, chamada, sistema
  <2>18. CASE Reply(r)  BY <2>18 DEF Reply, Write, CloseServer, Goto, chamada, sistema
  <2>19. CASE UnlockMutex(r)  BY <2>19 DEF UnlockMutex, Goto, chamada, sistema
  <2>20. CASE End(r)  BY <2>20 DEF End, CloseClient, Goto, chamada, sistema
  <2>21. QED
    BY <1>4, <2>1, <2>2, <2>3, <2>4, <2>5, <2>6, <2>7, <2>8, <2>9, <2>10, <2>11,
       <2>12, <2>13, <2>14, <2>15, <2>16, <2>17, <2>18, <2>19, <2>20 DEF serviceRequest
<1>5. QED  BY <1>1, <1>2, <1>4 DEF Next, Idle, Exited

Others ==
  /\ main \in {"start", "accept", "exit"} /\ encaminha \in BOOLEAN
  /\ blacklist \in Listas \cup {{}} /\ pedido \in Pedidos
  /\ \A t \in mutexes : t.dono \in Requests
  /\ mutexesSockets \in [0..(numSockets - 1) -> Requests \cup {NULL}]
  /\ vencidas \subseteq entradas /\ \A e \in entradas : e.chave \in diretorios

LEMMA NextOthers == Others /\ [Next]_vars => Others'
<1> SUFFICES ASSUME Others, [Next]_vars PROVE Others'
  OBVIOUS
<1> USE DEF Others
<1>1. CASE Start \/ Die \/ Expire \/ UNCHANGED vars
  BY <1>1 DEF Start, configureFromArgumentList, ReadBlockedDomains, Die, Expire, vars,
              sistema, configuracao, cache
<1>2. ASSUME NEW r \in Requests, Accept(r) PROVE Others'
  BY <1>2 DEF Accept, configuracao, cache
<1>4. ASSUME NEW r \in Requests, serviceRequest(r) PROVE Others'
  <2>1. CASE Begin(r)  BY <2>1 DEF Begin, sistema, configuracao, cache
  <2>2. CASE GetPeerName(r)  BY <2>2 DEF GetPeerName, sistema, configuracao, cache
  <2>3. CASE LockSocket(r)  BY <2>3 DEF LockSocket, sistema, configuracao, cache
  <2>4. CASE Ingest(r)  BY <2>4 DEF Ingest, sistema, configuracao, cache
  <2>5. CASE Forward(r)  BY <2>5 DEF Forward, sistema, configuracao, cache
  <2>6. CASE Blacklist(r)  BY <2>6 DEF Blacklist, sistema, configuracao, cache
  <2>7. CASE Refuse(r)  BY <2>7 DEF Refuse, sistema, configuracao, cache
  <2>8. CASE LockMutex(r)  BY <2>8 DEF LockMutex, sistema, configuracao, cache
  <2>9. CASE ContainsCacheEntry(r)  BY <2>9 DEF ContainsCacheEntry, sistema, configuracao, cache
  <2>10. CASE EntryName(r)  BY <2>10 DEF EntryName, sistema, configuracao, cache
  <2>11. CASE Use(r)  BY <2>11 DEF Use, RemoveFile, sistema, configuracao, cache
  <2>12. CASE ReadFile(r)  BY <2>12 DEF ReadFile, sistema, configuracao, cache
  <2>13. CASE WriteCached(r)  BY <2>13 DEF WriteCached, sistema, configuracao, cache
  <2>14. CASE Connect(r)  BY <2>14 DEF Connect, sistema, configuracao, cache
  <2>15. CASE Send(r)  BY <2>15 DEF Send, sistema, configuracao, cache
  <2>16. CASE Receive(r)  BY <2>16 DEF Receive, sistema, configuracao, cache
  <2>17. CASE Store(r)  BY <2>17 DEF Store, MakeDirectory, sistema, configuracao, cache
  <2>18. CASE Reply(r)  BY <2>18 DEF Reply, sistema, configuracao, cache
  <2>19. CASE UnlockMutex(r)  BY <2>19 DEF UnlockMutex, Trancas, sistema, configuracao, cache
  <2>20. CASE End(r)  BY <2>20 DEF End, sistema, configuracao, cache
  <2>21. QED
    BY <1>4, <2>1, <2>2, <2>3, <2>4, <2>5, <2>6, <2>7, <2>8, <2>9, <2>10, <2>11,
       <2>12, <2>13, <2>14, <2>15, <2>16, <2>17, <2>18, <2>19, <2>20 DEF serviceRequest
<1>5. QED  BY <1>1, <1>2, <1>4 DEF Next, Idle, Exited
-------------------------------------------------------------------------------
(* No descriptor is forgotten: each that is taken is held by a call, its   *)
(* connection until the call has ended, and the socket of its server after *)
(* that only if nothing was sent to the client.                            *)

Fetching == {"send", "receive", "store", "write", "unlockMutex", "fim", "feito"}

Held ==
  /\ DOMAIN recebido = Requests
  /\ \A r \in Requests :
       /\ pc[r] \in {"fora", "feito"} => fd[r] = NULL
       /\ socketDestino[r] # NULL => pc[r] \in Fetching /\ recebido[r] = NULL
       /\ pc[r] \notin {"unlockMutex", "fim", "feito"} => recebido[r] = NULL
  /\ \A n \in Fds \ livres : \E r \in Requests : fd[r] = n \/ socketDestino[r] = n

LEMMA InitHeld == Init => Held
BY DEF Init, Held, Fds

LEMMA NextHeld == Functions /\ Descriptors /\ Held /\ [Next]_vars => Held'
<1> SUFFICES ASSUME Functions, Descriptors, Held, [Next]_vars PROVE Held'
  OBVIOUS
<1> USE DEF Functions, Descriptors, Held, Fetching
<1>1. CASE Start \/ Die \/ Expire \/ UNCHANGED vars
  BY <1>1 DEF Start, Die, Expire, vars, chamada, sistema
<1>2. ASSUME NEW r \in Requests, Accept(r) PROVE Held'
  BY <1>2 DEF Accept, Goto
<1>3. ASSUME NEW r \in Requests, serviceRequest(r) PROVE Held'
  <2>1. CASE Begin(r)  BY <2>1 DEF Begin, Goto, chamada, sistema
  <2>2. CASE GetPeerName(r)  BY <2>2 DEF GetPeerName, Goto, chamada, sistema
  <2>3. CASE LockSocket(r)  BY <2>3 DEF LockSocket, Goto, chamada, sistema
  <2>4. CASE Ingest(r)  BY <2>4 DEF Ingest, ingestHeader, Goto, sistema
  <2>5. CASE Forward(r)  BY <2>5 DEF Forward, Goto, sistema
  <2>6. CASE Blacklist(r)  BY <2>6 DEF Blacklist, Goto, chamada, sistema
  <2>7. CASE Refuse(r)  BY <2>7 DEF Refuse, Write, Goto, sistema
  <2>8. CASE LockMutex(r)  BY <2>8 DEF LockMutex, Goto, chamada, sistema
  <2>9. CASE ContainsCacheEntry(r)  BY <2>9 DEF ContainsCacheEntry, Goto, chamada, sistema
  <2>10. CASE EntryName(r)  BY <2>10 DEF EntryName, Goto, sistema
  <2>11. CASE Use(r)  BY <2>11 DEF Use, Goto, sistema
  <2>12. CASE ReadFile(r)  BY <2>12 DEF ReadFile, Goto, sistema
  <2>13. CASE WriteCached(r)  BY <2>13 DEF WriteCached, Write, Goto, sistema
  <2>14. CASE Connect(r)
    <3>1. CASE UNCHANGED <<livres, socketDestino>>
      BY <3>1, <2>14 DEF Connect, AfterFailure, Goto
    <3>2. CASE \E n \in livres : /\ socketDestino' = [socketDestino EXCEPT ![r] = n]
                                 /\ livres' = livres \ {n}
      <4>1. PICK n \in livres : /\ socketDestino' = [socketDestino EXCEPT ![r] = n]
                                /\ livres' = livres \ {n}
        BY <3>2
      <4>2. /\ pc[r] = "connect" /\ fd' = fd /\ recebido' = recebido
            /\ \/ pc' = [pc EXCEPT ![r] = "unlockMutex"]
               \/ pc' = [pc EXCEPT ![r] = "send"]
        BY <2>14 DEF Connect, AfterFailure, Goto
      <4>3. socketDestino[r] = NULL /\ recebido[r] = NULL
        BY <4>2
      <4>4. ASSUME NEW m \in Fds \ livres'
            PROVE  \E s \in Requests : fd'[s] = m \/ socketDestino'[s] = m
        BY <4>1, <4>2, <4>3, <4>4, ProxyAssumption DEF Fds
      <4>5. QED  BY <4>1, <4>2, <4>3, <4>4
    <3>3. QED  BY <2>14, <3>1, <3>2 DEF Connect
  <2>15. CASE Send(r)  BY <2>15 DEF Send, Goto, sistema
  <2>16. CASE Receive(r)  BY <2>16 DEF Receive, Goto, sistema
  <2>17. CASE Store(r)  BY <2>17 DEF Store, Goto, chamada, sistema
  <2>18. CASE Reply(r)  BY <2>18 DEF Reply, Write, CloseServer, Goto
  <2>19. CASE UnlockMutex(r)  BY <2>19 DEF UnlockMutex, Goto, chamada, sistema
  <2>20. CASE End(r)  BY <2>20 DEF End, CloseClient, Goto
  <2>21. QED
    BY <1>3, <2>1, <2>2, <2>3, <2>4, <2>5, <2>6, <2>7, <2>8, <2>9, <2>10, <2>11,
       <2>12, <2>13, <2>14, <2>15, <2>16, <2>17, <2>18, <2>19, <2>20 DEF serviceRequest
<1>4. QED  BY <1>1, <1>2, <1>3 DEF Next, Idle, Exited

-------------------------------------------------------------------------------
LEMMA Invariance == Spec => []IInv
<1>1. IInv /\ [Next]_vars => IInv'
  BY NextFunctions, NextTerminal, NextLocks, NextDescriptors, DirectBefore DEF IInv
<1>2. QED  BY <1>1, InitIInv, PTL DEF Spec
-------------------------------------------------------------------------------
\* cache.h: the lock of an entry is held whenever the cache is used and is the
\* one given back, for any hash and number of threads, unless a terminal proxy
\* receives x-forwarded headers.
THEOREM EntriesLocked == Spec => []EntryLocked
<1>1. ASSUME IInv PROVE EntryLocked
  <2> SUFFICES ASSUME Direto, NEW r \in Requests, pc[r] \in Secao
      PROVE  Trancas(r) = {Tranca(r)}
    BY DEF EntryLocked, EntryAlwaysLocked, Tranca
  <2>1. Tranca(r) \in Trancas(r)
    BY <1>1 DEF IInv, Locks, Trancas, Tranca
  <2>2. ASSUME NEW t \in Trancas(r) PROVE t = Tranca(r)
    <3>1. t \in mutexes /\ t.mutex = Mutex(r)
      BY DEF Trancas
    <3>2. t.dono \in Requests /\ pc[t.dono] \in Secao /\ t = Tranca(t.dono)
      BY <3>1, <1>1 DEF IInv, Locks
    <3>3. Mutex(t.dono) = Mutex(r)
      BY <3>1, <3>2 DEF Tranca
    <3>4. t.dono = r
      BY <3>2, <3>3, <1>1 DEF IInv, Locks
    <3>5. QED  BY <3>2, <3>4
  <2>3. QED  BY <2>1, <2>2
<1>2. QED  BY <1>1, Invariance, PTL

\* No mutex of the cache stays locked when the call that locked it has ended,
\* however it ended, under the same condition.
THEOREM MutexesComeBack == Spec => []MutexesReturned
<1>1. IInv => MutexesReturned
  BY DEF IInv, Locks, MutexesReturned
<1>2. QED  BY <1>1, Invariance, PTL

\* A descriptor is free or has one owner, for any number of them: no reply
\* reaches the client of another request.
THEOREM DescriptorsCorrect == Spec => []DescriptorsOwned
<1>1. Init => Functions /\ DescriptorsOwned
  BY InitIInv DEF IInv
<1>2. Functions /\ DescriptorsOwned /\ [Next]_vars => Functions' /\ DescriptorsOwned'
  BY NextFunctions, NextDescriptors
<1>3. QED  BY <1>1, <1>2, PTL DEF Spec

\* When no call is under way, every descriptor is free but the sockets of the
\* calls that failed to connect, which the code does not close, for any number
\* of requests and descriptors.
THEOREM LeaksBounded == Spec => []LeaksOnlyOnFailure
<1>1. Init => Functions /\ DescriptorsOwned /\ Descriptors /\ Held
  BY InitIInv, InitHeld DEF IInv, Init, Descriptors, Fds
<1>2. Functions /\ DescriptorsOwned /\ Descriptors /\ Held /\ [Next]_vars
      => Functions' /\ DescriptorsOwned' /\ Descriptors' /\ Held'
  BY NextFunctions, NextDescriptors, NextDescriptorTypes, NextHeld
<1>3. ASSUME DescriptorsOwned, Descriptors, Held PROVE LeaksOnlyOnFailure
  <2> SUFFICES ASSUME \A r \in Requests : pc[r] \in {"fora", "feito"}
      PROVE  Fds \ livres = {socketDestino[r] : r \in Perdidos}
    BY DEF LeaksOnlyOnFailure, Fds
  <2>1. ASSUME NEW n \in Fds \ livres PROVE \E r \in Perdidos : n = socketDestino[r]
    <3>1. PICK r \in Requests : fd[r] = n \/ socketDestino[r] = n
      BY <1>3 DEF Held
    <3>2. fd[r] = NULL /\ n # NULL
      BY <1>3, ProxyAssumption DEF Held, Fds
    <3>3. QED  BY <3>1, <3>2, <1>3 DEF Held, Perdidos
  <2>2. ASSUME NEW r \in Perdidos PROVE socketDestino[r] \in Fds \ livres
    BY <1>3 DEF Perdidos, Descriptors, DescriptorsOwned
  <2>3. QED  BY <2>1, <2>2
<1>4. QED  BY <1>1, <1>2, <1>3, PTL DEF Spec

LEMMA Fetched == Spec => [](IInv /\ Answers /\ (Direto => Once))
<1>1. Init => IInv /\ Answers /\ Once
  BY InitIInv, InitAnswers, InitOnce
<1>2. IInv /\ Answers /\ (Direto => Once) /\ [Next]_vars
      => IInv' /\ Answers' /\ (Direto' => Once')
  BY NextFunctions, NextTerminal, NextLocks, NextDescriptors, NextAnswers, NextOnce,
     DirectBefore DEF IInv
<1>3. QED  BY <1>1, <1>2, PTL DEF Spec

\* A reply from the cache is the whole reply that another call got from its
\* server and could cache, to a request for the same path, of the same server
\* if the Host of both names their own; and the file that was found fresh stays
\* until it is read: for any requests, however many calls store, expire, remove
\* and look up.
THEOREM CachedRepliesRight == Spec => []CachedReplyRight
<1>1. ASSUME Answers, Direto => Once PROVE CachedReplyRight
  <2> SUFFICES ASSUME NEW r \in Requests, pc[r] \in {"read", "writeCached"}
      PROVE  LET s == achado[r].de
             IN /\ Direto => achado[r] \in entradas
                /\ pc[r] = "writeCached" /\ resp[r] # Vazia =>
                     /\ resp[r] = resp[s] /\ shouldCache(s)
                     /\ pedido[s].path = pedido[r].path
                     /\ Nomeia(r) /\ Nomeia(s) => pedido[s].server = pedido[r].server
    BY DEF CachedReplyRight
  <2>1. Direto => achado[r] \in entradas
    BY <1>1 DEF Once, Achou, Entradas
  <2>2. De(achado[r], r) /\ Original(achado[r])
    BY <1>1 DEF Answers, Achou
  <2>3. pc[r] = "writeCached" => resp[r] \in {Vazia, achado[r].resp}
    BY <1>1 DEF Answers
  <2>4. QED  BY <2>1, <2>2, <2>3 DEF De, Original, Nomeia
<1>2. QED  BY <1>1, Fetched, PTL

\* Two calls that miss an entry together do not both store it: there are two
\* files under a key only after a call found one and had no descriptor to read
\* its name. The condition is that of the mutexes.
THEOREM EntriesFetchedOnce == Spec => []OneEntryPerKey
<1>1. (Direto => Once) => OneEntryPerKey
  BY DEF Once, OneEntryPerKey
<1>2. QED  BY <1>1, Fetched, PTL

\* Every variable keeps its type: a call that replies or ends has descriptors
\* to close, and the mutex of each socket is in the array.
THEOREM TypeCorrect == Spec => []TypeOK
<1>1. Init => Functions /\ Positions /\ Descriptors /\ Others
  BY ProxyAssumption DEF Init, Functions, Positions, PC, Fds, Descriptors, Others
<1>2. Functions /\ Positions /\ Descriptors /\ Others /\ [Next]_vars
      => Functions' /\ Positions' /\ Descriptors' /\ Others'
  BY NextFunctions, NextPc, NextDescriptorTypes, NextOthers
<1>3. Positions /\ Descriptors /\ Others => TypeOK
  BY DEF Positions, Descriptors, Others, Fds, TypeOK
<1>4. QED  BY <1>1, <1>2, <1>3, PTL DEF Spec
===============================================================================
