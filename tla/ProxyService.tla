----------------------------- MODULE ProxyService ------------------------------
(***************************************************************************)
(* The HTTP proxy of 6/: main accepts connections and schedules a call of  *)
(* serviceRequest for each on a pool of threads; the calls share the cache *)
(* directory under an array of mutexes, the sockets under another, and the *)
(* file descriptors of the process. The pool is what TaskPool says of it,  *)
(* which ThreadPool implements; wait() is never called.                    *)
(*                                                                         *)
(* A request is served to another proxy (-s) or, by a terminal proxy, to   *)
(* its server. Replies are written and connections closed in one step with *)
(* the mutex of the socket, which matters to others only while a client is *)
(* waited for.                                                             *)
(***************************************************************************)
EXTENDS Integers, Sequences

CONSTANTS
  Requests,         \* one connection with one request each
  Pedidos,          \* what they may send: each its method, the server and the
                    \* path of its URL, its Host header, which need not name
                    \* that server, the x-forwarded headers it arrives with,
                    \* from a proxy or from the client, and its address
  numThreads,       \* 64
  MaxFds,           \* file descriptors for connections
  Hash(_),          \* the mutex of a key: hash<string> % 997
  numSockets,       \* mutexes of the sockets, 997
  Respostas,        \* what a server may answer
  Listas,           \* blocked-domains.txt: the sets of servers it may match
  Eu,               \* the address of this proxy
  NULL

ASSUME ProxyAssumption ==
  /\ numThreads \in Nat \ {0} /\ MaxFds \in Nat /\ numSockets \in Nat \ {0}
  /\ NULL \notin Requests /\ NULL \notin Respostas /\ NULL \notin 1 .. MaxFds
  /\ \A p \in Pedidos, r \in Requests : p[r].server # NULL

VARIABLES
  main,             \* "start", "accept", or "exit" when either has failed
  encaminha,        \* was the proxy started with -s?
  blacklist,
  pedido,           \* what each request is, one of Pedidos
  pc, headers,      \* of each call, and the x-forwarded headers of its request
  fd, socketDestino,
  achado,           \* the cache entry it found, or SemNome if one it cannot name
  resp,             \* the response it got
  recebido,         \* what the client was sent
  mutexes,          \* those locked: [mutex |-> m, dono |-> r]
  mutexesSockets,   \* who holds each
  diretorios, entradas, \* of the cache: a directory per key, and the files
  vencidas,         \* those whose expiration time has passed
  livres,           \* free file descriptors
  pending, running, finished, state, prior        \* requestPool

requestPool == <<pending, running, finished, state, prior>>
cache == <<diretorios, entradas, vencidas>>
chamada == <<headers, fd, socketDestino, achado, resp, recebido>>
configuracao == <<encaminha, blacklist, pedido>>
vars == <<main, configuracao, pc, chamada, mutexes, mutexesSockets, cache, livres, requestPool>>

RequestPool == INSTANCE TaskPool WITH Tasks <- Requests

\* An entry with neither a key nor a file.
Nenhuma == [chave |-> NULL, de |-> NULL, resp |-> NULL]

SemX == [fwd |-> <<>>, proto |-> FALSE]

Init ==
  /\ main = "start" /\ encaminha = FALSE /\ blacklist = {} /\ pedido \in Pedidos
  /\ pc = [r \in Requests |-> "fora"] /\ headers = [r \in Requests |-> SemX]
  /\ fd = [r \in Requests |-> NULL] /\ socketDestino = [r \in Requests |-> NULL]
  /\ achado = [r \in Requests |-> Nenhuma] /\ resp = [r \in Requests |-> NULL]
  /\ recebido = [r \in Requests |-> NULL]
  /\ mutexes = {}
  /\ mutexesSockets = [m \in 0..(numSockets - 1) |-> NULL]
  /\ diretorios = {} /\ entradas = {} /\ vencidas = {}
  /\ livres = 1..MaxFds
  /\ RequestPool!Init
-------------------------------------------------------------------------------
Goto(r, from, to) == pc[r] = from /\ pc' = [pc EXCEPT ![r] = to]

\* The constructor reads the blocked domains and the options, and sets up the
\* socket it listens on; whatever fails is fatal.
configureFromArgumentList == encaminha' \in BOOLEAN
ReadBlockedDomains == blacklist' \in Listas

Start ==
  /\ main = "start"
  /\ \/ ReadBlockedDomains /\ configureFromArgumentList /\ main' = "accept"
     \/ main' = "exit" /\ UNCHANGED <<encaminha, blacklist>>
  /\ UNCHANGED <<pedido, pc, chamada, mutexes, mutexesSockets, cache, livres, requestPool>>

\* open() and accept() give the lowest free descriptor.
Menor(n) == n \in livres /\ \A m \in livres : n <= m

\* main accepts and schedules.
Accept(r) ==
  /\ main = "accept" /\ Goto(r, "fora", "fila")
  /\ \E n \in livres :
       /\ Menor(n) /\ fd' = [fd EXCEPT ![r] = n] /\ livres' = livres \ {n}
  /\ RequestPool!Submit(r)
  /\ UNCHANGED <<main, configuracao, headers, socketDestino, achado, resp, recebido,
                 mutexes, mutexesSockets, cache>>

Begin(r) ==
  /\ Goto(r, "fila", "getpeername")
  /\ \E k \in DOMAIN pending : pending[k] = r /\ RequestPool!Begin(k)
  /\ UNCHANGED <<main, configuracao, chamada, mutexes, mutexesSockets, cache, livres>>
-------------------------------------------------------------------------------
sistema == <<main, configuracao, livres, requestPool>>

\* The mutex of the socket of r's client.
Socket(r) == fd[r] % numSockets
SocketLivre(r) == mutexesSockets[Socket(r)] = NULL

GetPeerName(r) ==
  /\ Goto(r, "getpeername", "lockSocket") \/ Goto(r, "getpeername", "fim")
  /\ UNCHANGED <<sistema, chamada, mutexes, mutexesSockets, cache>>

LockSocket(r) ==
  /\ Goto(r, "lockSocket", "ingest")
  /\ SocketLivre(r) /\ mutexesSockets' = [mutexesSockets EXCEPT ![Socket(r)] = r]
  /\ UNCHANGED <<sistema, chamada, mutexes, cache>>

\* The x-forwarded headers are read as they come.
ingestHeader(r) == headers' = [headers EXCEPT ![r] = pedido[r].x]

\* The client has sent its request, or something that is none.
Ingest(r) ==
  /\ \/ Goto(r, "ingest", "forward") /\ ingestHeader(r)
     \/ Goto(r, "ingest", "fim") /\ UNCHANGED headers
  /\ mutexesSockets' = [mutexesSockets EXCEPT ![Socket(r)] = NULL]
  /\ UNCHANGED <<sistema, fd, socketDestino, achado, resp, recebido, mutexes, cache>>

containsName(r) == headers[r].fwd # <<>>
Ciclo(r) == encaminha /\ \E i \in DOMAIN headers[r].fwd : headers[r].fwd[i] = Eu

\* A proxy that uses another adds its client to x-forwarded-for, unless it
\* finds itself there; getsockname may fail before it looks.
Forward(r) ==
  /\ \/ /\ ~encaminha /\ Goto(r, "forward", "blacklist") /\ UNCHANGED headers
     \/ /\ encaminha /\ ~Ciclo(r) /\ Goto(r, "forward", "blacklist")
        /\ headers' = [headers EXCEPT
             ![r] = [fwd |-> Append(@.fwd, pedido[r].cliente), proto |-> TRUE]]
     \/ /\ encaminha /\ containsName(r) /\ Goto(r, "forward", "fim")
        /\ headers' = [headers EXCEPT ![r].proto = TRUE]
     \/ /\ Ciclo(r) /\ Goto(r, "forward", "ciclo")
        /\ headers' = [headers EXCEPT ![r].proto = TRUE]
  /\ UNCHANGED <<sistema, fd, socketDestino, achado, resp, recebido,
                 mutexes, mutexesSockets, cache>>

serverIsAllowed(r) == pedido[r].server \notin blacklist

Blacklist(r) ==
  /\ IF serverIsAllowed(r) THEN Goto(r, "blacklist", "lockMutex")
     ELSE Goto(r, "blacklist", "proibido")
  /\ UNCHANGED <<sistema, chamada, mutexes, mutexesSockets, cache>>

\* A reply is written to the client under the mutex of its socket.
Write(r, from, to, reply) ==
  /\ Goto(r, from, to) /\ SocketLivre(r)
  /\ recebido' = [recebido EXCEPT ![r] = reply]

Refuse(r) ==
  /\ \/ Write(r, "ciclo", "fim", "504")
     \/ Write(r, "proibido", "fim", "403")
  /\ UNCHANGED <<sistema, headers, fd, socketDestino, achado, resp,
                 mutexes, mutexesSockets, cache>>
-------------------------------------------------------------------------------
(* The cache. serializeRequest writes the method, the path and the headers *)
(* of the request, Host as the client sent it; the server is not in it.    *)

\* A mutant: Host is left out.
WithoutHost(r) == [method |-> pedido[r].method, path |-> pedido[r].path,
                   host |-> NULL, headers |-> headers[r]]

serializeRequest(r) ==
  [method |-> pedido[r].method, path |-> pedido[r].path,
   host |-> pedido[r].host, headers |-> headers[r]]

Mutex(r) == Hash(serializeRequest(r))

Trancas(r) == {t \in mutexes : t.mutex = Mutex(r)}

\* A mutant: the mutex of the entry is not waited for.
NotWaitedFor(r) == [mutex |-> Mutex(r), dono |-> r] \notin mutexes

MutexFree(r) == Trancas(r) = {}

LockMutex(r) ==
  /\ Goto(r, "lockMutex", "contains") /\ MutexFree(r)
  /\ mutexes' = mutexes \cup {[mutex |-> Mutex(r), dono |-> r]}
  /\ UNCHANGED <<sistema, chamada, mutexesSockets, cache>>

Entradas(r) == {e \in entradas : e.chave = serializeRequest(r)}
TemDiretorio(r) == pedido[r].method = "GET" /\ serializeRequest(r) \in diretorios

\* cacheEntryExists reads a directory whether or not opendir could give it
\* a descriptor.
ContainsCacheEntry(r) ==
  /\ \/ /\ TemDiretorio(r) /\ Entradas(r) # {} /\ livres # {}
        /\ Goto(r, "contains", "entryName")
     \/ /\ ~TemDiretorio(r) \/ (Entradas(r) = {} /\ livres # {})
        /\ Goto(r, "contains", "connect")
  /\ UNCHANGED <<sistema, chamada, mutexes, mutexesSockets, cache>>

SemNome(r) == [chave |-> serializeRequest(r), de |-> r, resp |-> NULL]

\* getRequestHashCacheEntryName opens the directory again; if it cannot, the
\* entry counts as none.
EntryName(r) ==
  /\ \/ /\ livres # {} /\ Goto(r, "entryName", "use")
        /\ \E e \in Entradas(r) : achado' = [achado EXCEPT ![r] = e]
     \/ /\ livres = {} /\ Goto(r, "entryName", "connect")
        /\ achado' = [achado EXCEPT ![r] = SemNome(r)]
  /\ UNCHANGED <<sistema, headers, fd, socketDestino, resp, recebido,
                 mutexes, mutexesSockets, cache>>

ReadsNoDirectory(r) == pc[r] = "contains" /\ TemDiretorio(r) /\ livres = {}

cachedEntryIsValid(r) == achado[r] \in entradas \ vencidas

\* A mutant: an expired file is left in the directory.
NotRemoved(r) == UNCHANGED cache

RemoveFile(r) ==
  /\ UNCHANGED diretorios /\ entradas' = entradas \ {achado[r]}
  /\ vencidas' = vencidas \ {achado[r]}

Use(r) ==
  /\ \/ /\ cachedEntryIsValid(r) /\ Goto(r, "use", "read")
        /\ UNCHANGED <<cache, achado>>
     \/ /\ ~cachedEntryIsValid(r) /\ Goto(r, "use", "connect")
        /\ RemoveFile(r) /\ achado' = [achado EXCEPT ![r] = Nenhuma]
  /\ UNCHANGED <<sistema, headers, fd, socketDestino, resp, recebido,
                 mutexes, mutexesSockets>>

\* A file that cannot be opened, or is there no more, reads as an empty response.
Vazia == [code |-> 0, cacheControl |-> {}, maxAge |-> 0]

ReadFile(r) ==
  /\ Goto(r, "read", "writeCached")
  /\ resp' = [resp EXCEPT ![r] = IF livres # {} /\ achado[r] \in entradas
                                 THEN achado[r].resp ELSE Vazia]
  /\ UNCHANGED <<sistema, headers, fd, socketDestino, achado, recebido,
                 mutexes, mutexesSockets, cache>>

WriteCached(r) ==
  /\ Write(r, "writeCached", "unlockMutex", resp[r])
  /\ UNCHANGED <<sistema, headers, fd, socketDestino, achado, resp,
                 mutexes, mutexesSockets, cache>>
-------------------------------------------------------------------------------
\* A mutant: it is tried again.
TryAgain == "connect"

AfterFailure == "unlockMutex"

\* socket() fails without descriptors. When setsockopt, getaddrinfo or
\* connect fails afterwards, socketDestino is not closed.
Connect(r) ==
  /\ \/ /\ livres = {} /\ Goto(r, "connect", AfterFailure)
        /\ UNCHANGED <<livres, socketDestino>>
     \/ /\ Goto(r, "connect", AfterFailure) \/ Goto(r, "connect", "send")
        /\ \E n \in livres :
             /\ Menor(n) /\ socketDestino' = [socketDestino EXCEPT ![r] = n]
             /\ livres' = livres \ {n}
  /\ UNCHANGED <<main, configuracao, requestPool, headers, fd, achado, resp, recebido,
                 mutexes, mutexesSockets, cache>>

\* A terminal proxy removes the headers that proxies added.
removeHeader(r) ==
  headers' = [headers EXCEPT ![r] = IF encaminha THEN @ ELSE SemX]

Send(r) ==
  /\ Goto(r, "send", "receive") /\ removeHeader(r)
  /\ UNCHANGED <<sistema, fd, socketDestino, achado, resp, recebido,
                 mutexes, mutexesSockets, cache>>

Receive(r) ==
  /\ Goto(r, "receive", "store")
  /\ \E resposta \in Respostas : resp' = [resp EXCEPT ![r] = resposta]
  /\ UNCHANGED <<sistema, headers, fd, socketDestino, achado, recebido,
                 mutexes, mutexesSockets, cache>>

getTTL(resposta) == resposta.maxAge
permitsCaching(resposta) == resposta.cacheControl \cap {"private", "no-cache", "no-store"} = {}
                            /\ getTTL(resposta) > 0

shouldCache(r) ==
  /\ pedido[r].method = "GET" /\ resp[r].code = 200
  /\ permitsCaching(resp[r]) /\ getTTL(resp[r]) >= 100

MakeDirectory(r) == diretorios' = diretorios \cup {serializeRequest(r)}

\* The file is named after its expiration time. The directory is not
\* emptied: its files are removed by names relative to another directory.
Store(r) ==
  /\ Goto(r, "store", "write")
  /\ \/ ~shouldCache(r) /\ UNCHANGED cache
     \/ /\ shouldCache(r) /\ livres # {} /\ UNCHANGED vencidas
        /\ MakeDirectory(r)
        /\ entradas' = entradas \cup
             {[chave |-> serializeRequest(r), de |-> r, resp |-> resp[r]]}
  /\ UNCHANGED <<sistema, chamada, mutexes, mutexesSockets>>

\* ensureDirectoryExists gets no directory: without a descriptor, or when
\* mkdir fails, as it does in a base directory that is not there.
StoresNoDirectory(r) ==
  /\ pc[r] = "store" /\ shouldCache(r)
  /\ livres = {} \/ serializeRequest(r) \notin diretorios

\* A mutant: the socket of the server is not closed.
LeftOpen(r) == livres' = livres /\ socketDestino' = socketDestino

CloseServer(r) ==
  /\ livres' = livres \cup {socketDestino[r]}
  /\ socketDestino' = [socketDestino EXCEPT ![r] = NULL]

\* The reply, after which bufferDestino closes the socket it was read from.
Reply(r) ==
  /\ Write(r, "write", "unlockMutex", resp[r]) /\ CloseServer(r)
  /\ UNCHANGED <<main, configuracao, requestPool, headers, fd, achado, resp,
                 mutexes, mutexesSockets, cache>>

\* Whoever holds it.
UnlockMutex(r) ==
  /\ Goto(r, "unlockMutex", "fim")
  /\ mutexes' = mutexes \ Trancas(r)
  /\ UNCHANGED <<sistema, chamada, mutexesSockets, cache>>

\* A mutant: the connection is closed twice.
ClosedTwice(r) == fd[r] \notin livres /\ livres' = livres \cup {fd[r]} /\ UNCHANGED fd

CloseClient(r) == livres' = livres \cup {fd[r]} /\ fd' = [fd EXCEPT ![r] = NULL]

End(r) ==
  /\ Goto(r, "fim", "feito") /\ SocketLivre(r)
  /\ CloseClient(r)
  /\ RequestPool!Finish(r)
  /\ UNCHANGED <<main, configuracao, headers, socketDestino, achado, resp, recebido,
                 mutexes, mutexesSockets, cache>>

\* Time passes the expiration time of a file.
Expire ==
  /\ \E e \in entradas \ vencidas : vencidas' = vencidas \cup {e}
  /\ UNCHANGED <<sistema, pc, chamada, mutexes, mutexesSockets, diretorios, entradas>>

\* Without a descriptor main ends the program when accept fails, and a call
\* without a directory crashes it in readdir(NULL) and readdir_r(NULL).
AcceptFails(r) == pc[r] = "fora" /\ livres = {}

Die ==
  /\ main = "accept" /\ main' = "exit"
  /\ \E r \in Requests : AcceptFails(r) \/ ReadsNoDirectory(r) \/ StoresNoDirectory(r)
  /\ UNCHANGED <<configuracao, pc, chamada, mutexes, mutexesSockets, cache, livres, requestPool>>

serviceRequest(r) ==
  \/ Begin(r) \/ GetPeerName(r) \/ LockSocket(r) \/ Ingest(r) \/ Forward(r) \/ Blacklist(r)
  \/ Refuse(r) \/ LockMutex(r) \/ ContainsCacheEntry(r) \/ EntryName(r) \/ Use(r)
  \/ ReadFile(r) \/ WriteCached(r) \/ Connect(r) \/ Send(r) \/ Receive(r) \/ Store(r)
  \/ Reply(r) \/ UnlockMutex(r) \/ End(r)

\* Nobody connects any more.
Idle == main = "accept" /\ (\A r \in Requests : pc[r] = "feito") /\ UNCHANGED vars
Exited == main = "exit" /\ UNCHANGED vars

Next ==
  \/ Start
  \/ \E r \in Requests : Accept(r)
  \/ Die
  \/ main = "accept" /\ \E r \in Requests : serviceRequest(r)
  \/ main = "accept" /\ Expire
  \/ Idle \/ Exited

Spec == Init /\ [][Next]_vars

\* Threads are scheduled, clients send and read, servers answer, and a thread
\* that can do nothing but crash does.
FairSpec == Spec /\ WF_vars(Die)
                 /\ \A r \in Requests : WF_vars(main = "accept" /\ serviceRequest(r))
-------------------------------------------------------------------------------
PC == {"fora", "fila", "getpeername", "lockSocket", "ingest", "forward", "ciclo",
       "blacklist", "proibido", "lockMutex", "contains", "entryName", "use",
       "read", "writeCached", "connect", "send", "receive", "store", "write", "unlockMutex", "fim", "feito"}

TypeOK ==
  /\ main \in {"start", "accept", "exit"} /\ encaminha \in BOOLEAN
  /\ blacklist \in Listas \cup {{}} /\ pedido \in Pedidos
  /\ pc \in [Requests -> PC]
  /\ fd \in [Requests -> (1..MaxFds) \cup {NULL}]
  /\ socketDestino \in [Requests -> (1..MaxFds) \cup {NULL}]
  /\ \A t \in mutexes : t.dono \in Requests
  /\ mutexesSockets \in [0..(numSockets - 1) -> Requests \cup {NULL}]
  /\ livres \subseteq 1..MaxFds
  /\ vencidas \subseteq entradas /\ \A e \in entradas : e.chave \in diretorios

\* A call is between lockMutex and unlockMutex.
Secao == {"contains", "entryName", "use", "read", "writeCached", "connect", "send", "receive",
          "store", "write", "unlockMutex"}

\* A terminal proxy has no x-forwarded headers to remove: none of its clients
\* sends any. Those that this proxy adds itself it does not remove.
Direto == main = "start" \/ encaminha \/ \A r \in Requests : pedido[r].x = SemX

\* cache.h: the lock on the entry is held when the cache is used, and is the
\* one that is unlocked. A call alone holds the mutex of its entry, as its
\* request names it now, all the way through. Where a request arrives with
\* x-forwarded headers at a terminal proxy this is not so.
EntryAlwaysLocked ==
  \A r \in Requests : pc[r] \in Secao => Trancas(r) = {[mutex |-> Mutex(r), dono |-> r]}
EntryLocked == Direto => EntryAlwaysLocked

\* Nobody else waits on a mutex that a call left locked when it ended.
MutexesReturned == Direto => \A t \in mutexes : pc[t.dono] \in Secao

\* An entry is fetched once: two requests that miss it together do not store
\* two files under one key, of which a lookup could take the older one. Only
\* when a call has found a file under this key, and then had no descriptor to
\* read its name, may there be another.
Perdida(chave) == \E r \in Requests :
  achado[r].de = r /\ achado[r].resp = NULL /\ achado[r].chave = chave
OneEntryPerKey ==
  Direto => \A e, f \in entradas : e.chave = f.chave => e = f \/ Perdida(e.chave)

\* What is taken from the cache is the whole answer that an earlier call got
\* from its server and could cache, to a request for the same path. The server
\* is the same if both requests name theirs in Host; nothing compares it with
\* the URL, and under another Host a call gets what another server has sent.
\* The file that was found fresh is still there when it is read, however long
\* that takes and whoever else looks it up, stores or removes it, so that the
\* client gets an empty response only for lack of a descriptor.
Nomeia(r) == pedido[r].host = pedido[r].server
CachedReplyRight ==
  \A r \in Requests :
    LET s == achado[r].de
    IN /\ pc[r] \in {"read", "writeCached"} /\ Direto => achado[r] \in entradas
       /\ pc[r] = "writeCached" /\ resp[r] # Vazia =>
            /\ resp[r] = resp[s] /\ shouldCache(s)
            /\ pedido[s].path = pedido[r].path
            /\ Nomeia(r) /\ Nomeia(s) => pedido[s].server = pedido[r].server

\* Each descriptor is free, one connection or one server's socket, so that a
\* reply never goes to another client; none is given back twice.
DescriptorsOwned ==
  \A r, s \in Requests :
    /\ fd[r] # NULL => /\ fd[r] \notin livres
                       /\ fd[r] = fd[s] => r = s
                       /\ fd[r] # socketDestino[s]
    /\ socketDestino[r] # NULL => /\ socketDestino[r] \notin livres
                                  /\ socketDestino[r] = socketDestino[s] => r = s

\* A descriptor is lost only by a call whose connection failed: when all is
\* quiet the others are free again.
Perdidos == {r \in Requests : socketDestino[r] # NULL /\ recebido[r] = NULL}
LeaksOnlyOnFailure ==
  (\A r \in Requests : pc[r] \in {"fora", "feito"}) =>
    (1..MaxFds) \ livres = {socketDestino[r] : r \in Perdidos}

\* Every connection that is accepted is served to its end, whatever fails on
\* the way, unless the program ends, or a terminal proxy gets x-forwarded
\* headers and leaves a mutex locked.
Answered ==
  \A r \in Requests : pc[r] = "fila" /\ Direto ~> pc[r] = "feito" \/ main = "exit"
===============================================================================
