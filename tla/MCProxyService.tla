---------------------------- MODULE MCProxyService -----------------------------
(* Instances of ProxyService for TLC. *)
EXTENDS ProxyService, TLC

CONSTANTS r1, r2, r3

X(fwd) == [fwd |-> fwd, proto |-> TRUE]
Get(server, host, x, cliente) ==
  [method |-> "GET", server |-> server, path |-> "/", host |-> host,
   x |-> x, cliente |-> cliente]

\* Two requests for one page by one client, and one for that of another
\* server, which has been through this proxy.
Visitas == r1 :> Get("s", "s", SemX, "c1") @@ r2 :> Get("s", "s", SemX, "c1")
           @@ r3 :> Get("t", "t", X(<<"c3", "eu">>), "c3")

\* The first names no server in Host, the third that of the others.
OutroHost == [Visitas EXCEPT ![r1].host = NULL, ![r3] = Get("t", "s", SemX, "c1")]

\* The first comes through a proxy that uses this one.
Encaminhadas == [Visitas EXCEPT ![r1].x = X(<<"c1">>)]

Todas == {Visitas, OutroHost}
PorProxy == {Encaminhadas}

\* A cacheable answer, and one that lives a second too short.
Answer(ttl) == [code |-> 200, cacheControl |-> {}, maxAge |-> ttl]
Answers == {Answer(100), Answer(99)}

\* The requests of both servers share a mutex, unless proxies added headers.
ByHeaders(chave) == IF chave.headers.fwd = <<>> THEN 0 ELSE 1
===============================================================================
