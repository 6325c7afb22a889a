------------------------------ MODULE SectorCache -------------------------------
(***************************************************************************)
(* The sector cache of 2/: descriptors on two doubly linked lists (those   *)
(* of the kernel, list.h), a hash table of the ones in use, and the sector *)
(* that each stands for. The program is one thread and opens the image     *)
(* read-only: a call of diskimg_readsector is one step.                    *)
(***************************************************************************)
EXTENDS Integers, Sequences

CONSTANTS Setores, Conteudos, FIM, DISKIMG_SECTOR_SIZE,
          Zeros,                    \* the contents of memory from mmap
          cacheSizeInKB, KB,        \* option -c, and the sectors of a KB, 2
          tamanhoInodes,            \* the sectors of the cache of inodes, 2
          listaLivres, listaLRU     \* the heads of the lists

\* CacheMem_Init takes pages of 4 KB; -c 0 is turned into 64 MB before.
ASSUME CacheMem_Init ==
  /\ cacheSizeInKB \in Nat \ {0} /\ cacheSizeInKB % 4 = 0 /\ KB \in Nat \ {0}
  /\ tamanhoInodes \in Nat /\ tamanhoInodes < 4 * KB

\* Nothing uses the cache of inodes.
quantSetoresCache == cacheSizeInKB * KB - tamanhoInodes

Descritores == 1..quantSetoresCache
Nos == Descritores \cup {listaLivres, listaLRU}

ASSUME CacheAssumption ==
  /\ listaLivres \notin Descritores /\ listaLRU \notin Descritores
  /\ listaLivres # listaLRU
  /\ Zeros \in Conteudos /\ FIM \notin Conteudos
  /\ DISKIMG_SECTOR_SIZE \in Nat \ {0}

VARIABLES
  disco, lido,              \* as in Disk
  numeroSetor, memoria,     \* of each descriptor: its sector and the contents
  lista,                    \* the links of the descriptors and the heads
  hashTable,                \* the entries: [hash |-> h, desc |-> d]
  recentes                  \* history: the sectors read last, as many as fit
                            \* in the cache, the last one first

vars == <<disco, lido, numeroSetor, memoria, lista, hashTable, recentes>>
-------------------------------------------------------------------------------
(* list.h *)

list_empty(l, head) == l.next[head] = head

list_add(l, new, head) ==
  LET first == l.next[head]
  IN [next |-> [l.next EXCEPT ![new] = first, ![head] = new],
      prev |-> [l.prev EXCEPT ![first] = new, ![new] = head]]

list_del_init(l, entry) ==
  LET p == l.prev[entry]
      n == l.next[entry]
  IN [next |-> [l.next EXCEPT ![p] = n, ![entry] = entry],
      prev |-> [l.prev EXCEPT ![n] = p, ![entry] = entry]]

ToFront(entry) == list_add(list_del_init(lista, entry), entry, listaLRU)
-------------------------------------------------------------------------------
(* The hash table keeps the hash of an entry when it was inserted and       *)
(* compares the numeroSetor its descriptor has now.                         *)

lh_delete(table, chave, s) == {e \in table : ~(e.hash = s /\ chave[e.desc] = s)}

lh_insert(table, chave, d) ==
  lh_delete(table, chave, chave[d]) \cup {[hash |-> chave[d], desc |-> d]}

lh_retrieve(s) == {e \in hashTable : e.hash = s /\ numeroSetor[e.desc] = s}
-------------------------------------------------------------------------------
Ultimo == quantSetoresCache

CacheSetor_init ==
  /\ numeroSetor \in [Descritores -> Setores]
  /\ memoria = [d \in Descritores |-> Zeros]
  /\ lista = [next |-> [x \in Nos |->
                CASE x = listaLRU -> listaLRU
                  [] x = listaLivres -> 1
                  [] x = Ultimo -> listaLivres
                  [] OTHER -> x + 1],
              prev |-> [x \in Nos |->
                CASE x = listaLRU -> listaLRU
                  [] x = listaLivres -> Ultimo
                  [] x = 1 -> listaLivres
                  [] OTHER -> x - 1]]
  /\ hashTable = {}

Disco == INSTANCE Disk

Init == Disco!Init /\ CacheSetor_init /\ recentes = <<>>

\* s comes to the front, those before its place move back by one, and the
\* last one falls out if s is new and the cache full.
Recente(s) ==
  \E p \in 1..(Len(recentes) + 1) :
    /\ IF p <= Len(recentes) THEN recentes[p] = s
       ELSE \A k \in 1..Len(recentes) : recentes[k] # s
    /\ recentes' = [k \in 1..(IF p > Len(recentes) /\ p <= quantSetoresCache
                              THEN p ELSE Len(recentes)) |->
                     IF k = 1 THEN s ELSE IF k <= p THEN recentes[k - 1] ELSE recentes[k]]

\* CacheSetor_obterSetor finds the sector.
Hit(s) ==
  \E e \in lh_retrieve(s) :
    /\ lista' = ToFront(e.desc)
    /\ lido' = [setor |-> s, ret |-> DISKIMG_SECTOR_SIZE, buf |-> memoria[e.desc]]
    /\ Recente(s)
    /\ UNCHANGED <<disco, numeroSetor, memoria, hashTable>>

\* lseek or read returns -1.
Fail(s) ==
  /\ lh_retrieve(s) = {}
  /\ lido' \in [setor : {s}, ret : {-1}, buf : Conteudos]
  /\ UNCHANGED <<disco, numeroSetor, memoria, lista, hashTable, recentes>>

\* disksim_readsector: past the end nothing is read and the buffer is left
\* as it was.
disksim_readsector(s) ==
  IF disco[s] = FIM
  THEN lido' \in [setor : {s}, ret : {0}, buf : Conteudos]
  ELSE lido' = [setor |-> s, ret |-> DISKIMG_SECTOR_SIZE, buf |-> disco[s]]

\* A mutant: what was read before is kept.
OfLastRead(d) == memoria' = [memoria EXCEPT ![d] = lido.buf]

memcpy(d) == memoria' = [memoria EXCEPT ![d] = lido'.buf]

\* Descriptor d, in no table now, gets the sector that was read.
Guardar(s, d, table) ==
  /\ disksim_readsector(s)
  /\ memcpy(d)
  /\ numeroSetor' = [numeroSetor EXCEPT ![d] = s]
  /\ hashTable' = lh_insert(table, numeroSetor', d)
  /\ lista' = ToFront(d)
  /\ Recente(s) /\ UNCHANGED disco

\* CacheSetor_adicionarSetor, while a descriptor is free
Fill(s) ==
  /\ lh_retrieve(s) = {} /\ ~list_empty(lista, listaLivres)
  /\ Guardar(s, lista.next[listaLivres], hashTable)

\* A mutant: the most recently used one.
MostRecent == lista.next[listaLRU]

Vitima == lista.prev[listaLRU]

\* A mutant: its entry is looked for under the new key.
UnderNewKey(s) == lh_delete(hashTable, [numeroSetor EXCEPT ![Vitima] = s], s)

SemVitima(s) == lh_delete(hashTable, numeroSetor, numeroSetor[Vitima])

\* and when the least recently used one is taken.
Evict(s) ==
  /\ lh_retrieve(s) = {} /\ list_empty(lista, listaLivres)
  /\ Vitima \in Descritores
  /\ Guardar(s, Vitima, SemVitima(s))

diskimg_readsector(s) == Hit(s) \/ Fail(s) \/ Fill(s) \/ Evict(s)

Next == \E s \in Setores : diskimg_readsector(s)

Spec == Init /\ [][Next]_vars
-------------------------------------------------------------------------------
Links == [next : [Nos -> Nos], prev : [Nos -> Nos]]

TypeOK ==
  /\ disco \in [Setores -> Conteudos \cup {FIM}]
  /\ lido \in [setor : Setores, ret : {-1, 0, DISKIMG_SECTOR_SIZE}, buf : Conteudos]
  /\ numeroSetor \in [Descritores -> Setores]
  /\ memoria \in [Descritores -> Conteudos]
  /\ lista \in Links
  /\ hashTable \subseteq [hash : Setores, desc : Descritores]

\* The links of the two lists agree in both directions, whatever the order in
\* which descriptors are taken out, moved and put in.
Encadeada(l) == \A x \in Nos : l.prev[l.next[x]] = x /\ l.next[l.prev[x]] = x
ListsLinked == Encadeada(lista)

\* An entry is where its key says, one sector has one descriptor, and the
\* descriptors in the table are those of the list of used ones: with a stale
\* key a sector could be looked up and found in the place of another.
NaTabela == {e.desc : e \in hashTable}
Usados(x) == x = listaLRU \/ x \in NaTabela
TableRight ==
  /\ \A e \in hashTable : e.hash = numeroSetor[e.desc]
  /\ \A e, f \in hashTable : e.hash = f.hash => e = f
  /\ \A x \in Nos : Usados(x) <=> Usados(lista.next[x])

\* A cached sector is the sector of the disk, if there is one.
Coherent ==
  \A e \in hashTable : disco[e.hash] \in {memoria[e.desc], FIM}

\* The cache holds the sectors read last, and its list has them in that
\* order, so that the last one is the least recently used; every other
\* descriptor is on the list of free ones.
LeastRecentEvicted ==
  LET n == Len(recentes)
      Em(k) == IF k \in 1..n THEN {d \in NaTabela : numeroSetor[d] = recentes[k]}
               ELSE {listaLRU}
      Seguinte(k) == IF k < quantSetoresCache THEN k + 1 ELSE listaLivres
  IN /\ NaTabela = 1..n
     /\ \A k \in 0..n : {lista.next[x] : x \in Em(k)} = Em(k + 1)
     /\ lista.next[listaLivres] = Seguinte(n)
     /\ \A d \in Descritores \ NaTabela : lista.next[d] = Seguinte(d)

\* A sector past the end of the image was read before, as 0 bytes, and what
\* the buffer held then was cached as its contents (diskimg.c:56): from now
\* on it is returned as a whole sector. The disk has no such step.
HitPastEnd ==
  \E e \in hashTable :
    /\ disco[e.hash] = FIM /\ numeroSetor[e.desc] = e.hash
    /\ lido' = [setor |-> e.hash, ret |-> DISKIMG_SECTOR_SIZE, buf |-> memoria[e.desc]]
    /\ UNCHANGED disco

\* For the sectors that the image has the cache is invisible: whatever was
\* cached, moved and evicted before, diskimg_readsector gives what the disk
\* gives. It is not for those past the end, although diskimg.c:34-37 promises
\* the number of bytes read, and HitPastEnd is all that it does otherwise.
ReadsTheDisk == Disco!Init /\ [][Disco!Next \/ HitPastEnd]_<<disco, lido>>
===============================================================================
