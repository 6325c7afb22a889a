\* Three requests on two threads, with three descriptors, that is, none for a
\* server while all are connected; sockets 1 and 3 share a mutex.
SPECIFICATION FairSpec
CONSTANTS
  r1 = r1
  r2 = r2
  r3 = r3
  NULL = NULL
  Requests = {r1, r2, r3}
  Pedidos <- Todas
  numThreads = 2
  MaxFds = 3
  Hash <- ByHeaders
  numSockets = 2
  Respostas <- Answers
  Listas = {{}, {"t"}}
  Eu = "eu"
INVARIANTS
  EntryLocked
  OneEntryPerKey
  CachedReplyRight
  DescriptorsOwned
  LeaksOnlyOnFailure
PROPERTIES
  Answered
