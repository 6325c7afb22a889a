\* As Proxy.cfg, but that the first request comes through a proxy that uses
\* this one, which may be terminal.
SPECIFICATION Spec
CONSTANTS
  r1 = r1
  r2 = r2
  r3 = r3
  NULL = NULL
  Requests = {r1, r2, r3}
  Pedidos <- PorProxy
  numThreads = 2
  MaxFds = 3
  Hash <- ByHeaders
  numSockets = 2
  Respostas <- Answers
  Listas = {{}, {"t"}}
  Eu = "eu"
INVARIANT EntryAlwaysLocked
