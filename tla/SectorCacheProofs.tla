--------------------------- MODULE SectorCacheProofs ----------------------------
(***************************************************************************)
(* Theorems about SectorCache for caches and disks of every size. The      *)
(* inductive invariant is the conjunction of what its run checks: that the *)
(* links agree makes a descriptor taken from a list leave nothing behind,  *)
(* so that the table and the list of used descriptors keep the same ones   *)
(* (TableRight), so that a key is never changed under an entry, so that    *)
(* what is found under a sector was read from it (Coherent).               *)
(***************************************************************************)
EXTENDS SectorCache, SequenceTheorems, TLAPS

LEMMA Capacity == quantSetoresCache \in Nat \ {0}
<1>1. cacheSizeInKB \in Nat /\ KB \in Nat /\ cacheSizeInKB >= 4 /\ KB >= 1
  BY CacheMem_Init
<1>2. cacheSizeInKB * KB >= 4 * KB /\ cacheSizeInKB * KB \in Nat
  BY <1>1
<1>3. QED  BY <1>2, CacheMem_Init DEF quantSetoresCache
-------------------------------------------------------------------------------
\* What list_del_init leaves are linked lists, and the entry alone.
LEMMA DelLinks ==
  ASSUME NEW l \in Links, Encadeada(l), NEW d \in Nos
  PROVE  LET m == list_del_init(l, d)
         IN /\ m \in Links /\ Encadeada(m) /\ m.next[d] = d /\ m.prev[d] = d
            /\ \A x \in Nos : m.next[x] = IF x = d THEN d
                                         ELSE IF x = l.prev[d] THEN l.next[d] ELSE l.next[x]
<1>1. list_del_init(l, d) \in Links
  BY DEF Links, list_del_init
<1>2. Encadeada(list_del_init(l, d))
  BY DEF Links, list_del_init, Encadeada
<1>3. QED  BY <1>1, <1>2 DEF Links, list_del_init

\* list_add puts an entry that is alone behind a head.
LEMMA AddLinks ==
  ASSUME NEW l \in Links, Encadeada(l), NEW d \in Nos, l.next[d] = d, l.prev[d] = d,
         NEW h \in Nos, h # d
  PROVE  LET m == list_add(l, d, h)
         IN /\ m \in Links /\ Encadeada(m)
            /\ \A x \in Nos : m.next[x] = IF x = h THEN d
                                         ELSE IF x = d THEN l.next[h] ELSE l.next[x]
<1>1. list_add(l, d, h) \in Links
  BY DEF Links, list_add
<1>2. Encadeada(list_add(l, d, h))
  BY DEF Links, list_add, Encadeada
<1>3. QED  BY <1>1, <1>2 DEF Links, list_add

\* Moving a descriptor to the front of the list of used ones keeps the lists
\* linked, and of the other nodes each stays on its list.
LEMMA Moved ==
  ASSUME TypeOK, ListsLinked, NEW d \in Descritores,
         NEW U \in SUBSET Nos, listaLRU \in U,
         \A x \in Nos : x \in U <=> lista.next[x] \in U
  PROVE  /\ ToFront(d) \in Links /\ Encadeada(ToFront(d))
         /\ \A x \in Nos : x \in U \cup {d} <=> ToFront(d).next[x] \in U \cup {d}
<1>a. d \in Nos /\ listaLRU \in Nos /\ d # listaLRU /\ lista \in Links /\ Encadeada(lista)
  BY CacheAssumption DEF Nos, TypeOK, ListsLinked
<1> DEFINE m == list_del_init(lista, d)
           p == lista.prev[d]
           n == lista.next[d]
<1>1. /\ m \in Links /\ Encadeada(m) /\ m.next[d] = d /\ m.prev[d] = d
      /\ \A x \in Nos : m.next[x] = IF x = d THEN d ELSE IF x = p THEN n ELSE lista.next[x]
  BY <1>a, DelLinks
<1>2. /\ ToFront(d) \in Links /\ Encadeada(ToFront(d))
      /\ \A x \in Nos : ToFront(d).next[x] = IF x = listaLRU THEN d
                                            ELSE IF x = d THEN m.next[listaLRU] ELSE m.next[x]
  <2>1. ToFront(d) = list_add(m, d, listaLRU)
    BY DEF ToFront
  <2> HIDE DEF m
  <2>2. QED  BY <2>1, <1>1, <1>a, AddLinks
<1>3. p \in Nos /\ n \in Nos /\ lista.next[p] = d
  BY <1>a DEF Links, Encadeada
<1>4. p \in U <=> d \in U
  BY <1>3
<1>5. n \in U <=> d \in U
  BY <1>a
<1>6. \A x \in Nos : m.next[x] = IF x = d THEN d ELSE IF x = p THEN n ELSE lista.next[x]
  BY <1>1
<1>7. m.next[listaLRU] \in U
  <2> HIDE DEF m, p, n
  <2>1. CASE listaLRU = p  BY <2>1, <1>4, <1>5, <1>6, <1>a
  <2>2. CASE listaLRU # p  BY <2>2, <1>6, <1>a
  <2>3. QED  BY <2>1, <2>2
<1>8. \A x \in Nos : ToFront(d).next[x] = IF x = listaLRU THEN d
                                          ELSE IF x = d THEN m.next[listaLRU] ELSE m.next[x]
  BY <1>2
<1>9. ASSUME NEW x \in Nos
      PROVE  x \in U \cup {d} <=> ToFront(d).next[x] \in U \cup {d}
  <2> HIDE DEF m, p, n
  <2>1. CASE x \in {listaLRU, d}  BY <2>1, <1>7, <1>8
  <2>2. CASE x \notin {listaLRU, d} /\ x = p
    <3>1. ToFront(d).next[x] = n  BY <2>2, <1>6, <1>8
    <3>2. n # d
      BY <2>2, <1>a DEF Links, Encadeada, p, n
    <3>3. QED  BY <3>1, <3>2, <2>2, <1>4, <1>5
  <2>3. CASE x \notin {listaLRU, d} /\ x # p
    <3>1. ToFront(d).next[x] = lista.next[x]  BY <2>3, <1>6, <1>8
    <3>2. lista.next[x] # d
      BY <2>3, <1>a DEF Links, Encadeada, p
    <3>3. QED  BY <3>1, <3>2, <2>3
  <2>4. QED  BY <2>1, <2>2, <2>3
<1>10. QED  BY <1>2, <1>9
-------------------------------------------------------------------------------
IInv == TypeOK /\ ListsLinked /\ TableRight /\ Coherent

LEMMA InitIInv == Init => IInv
<1> SUFFICES ASSUME Init PROVE IInv
  OBVIOUS
<1> USE Capacity, CacheAssumption
<1>1. lista \in Links
  BY DEF Init, CacheSetor_init, Links, Nos, Descritores, Ultimo
<1>2. Encadeada(lista)
  BY DEF Init, CacheSetor_init, Encadeada, Nos, Descritores, Ultimo
<1>3. hashTable = {} /\ disco \in [Setores -> Conteudos \cup {FIM}]
  BY DEF Init, CacheSetor_init, Disco!Init
<1>4. TypeOK
  <2>1. lido \in [setor : Setores, ret : {-1, 0, DISKIMG_SECTOR_SIZE}, buf : Conteudos]
    BY DEF Init, Disco!Init
  <2>2. numeroSetor \in [Descritores -> Setores] /\ memoria \in [Descritores -> Conteudos]
    BY DEF Init, CacheSetor_init
  <2>3. QED  BY <2>1, <2>2, <1>1, <1>3 DEF TypeOK
<1>5. TableRight
  <2>1. \A x \in Nos : Usados(x) <=> x = listaLRU
    BY <1>3 DEF Usados, NaTabela
  <2>2. \A x \in Nos : lista.next[x] = listaLRU <=> x = listaLRU
    BY DEF Init, CacheSetor_init, Nos, Descritores, Ultimo
  <2>3. \A x \in Nos : lista.next[x] \in Nos
    BY <1>1 DEF Links
  <2>4. QED  BY <2>1, <2>2, <2>3, <1>3 DEF TableRight
<1>6. QED  BY <1>2, <1>3, <1>4, <1>5 DEF IInv, ListsLinked, Coherent

\* A descriptor whose entry, if it had one, is deleted gets another sector.
LEMMA Inserted ==
  ASSUME IInv, NEW s \in Setores, NEW d \in Descritores, lh_retrieve(s) = {},
         Guardar(s, d, {e \in hashTable : e.desc # d})
  PROVE  /\ numeroSetor' = [numeroSetor EXCEPT ![d] = s] /\ numeroSetor'[d] = s
         /\ \A x \in Descritores \ {d} : numeroSetor'[x] = numeroSetor[x]
         /\ hashTable' = {e \in hashTable : e.desc # d} \cup {[hash |-> s, desc |-> d]}
<1> DEFINE T == {e \in hashTable : e.desc # d}
<1>0. numeroSetor \in [Descritores -> Setores] /\ hashTable \subseteq [hash : Setores, desc : Descritores]
  BY DEF IInv, TypeOK
<1>1. /\ numeroSetor' = [numeroSetor EXCEPT ![d] = s] /\ numeroSetor'[d] = s
      /\ \A x \in Descritores \ {d} : numeroSetor'[x] = numeroSetor[x]
  BY <1>0 DEF Guardar
<1>2. \A e \in T : ~(e.hash = s /\ numeroSetor'[e.desc] = s)
  BY <1>0, <1>1 DEF lh_retrieve
<1>3. hashTable' = lh_insert(T, numeroSetor', d)
  BY DEF Guardar
<1> HIDE DEF T
<1>4. hashTable' = T \cup {[hash |-> s, desc |-> d]}
  BY <1>1, <1>2, <1>3 DEF lh_insert, lh_delete
<1>5. QED  BY <1>1, <1>4 DEF T

LEMMA Stored ==
  ASSUME IInv, NEW s \in Setores, NEW d \in Descritores, lh_retrieve(s) = {},
         Guardar(s, d, {e \in hashTable : e.desc # d})
  PROVE  IInv'
<1> DEFINE T == {e \in hashTable : e.desc # d}
           novo == [hash |-> s, desc |-> d]
           U == {x \in Nos : Usados(x)}
<1>0. /\ TypeOK /\ ListsLinked /\ TableRight /\ Coherent
      /\ hashTable \subseteq [hash : Setores, desc : Descritores]
  BY DEF IInv, TypeOK
<1>1. /\ numeroSetor' = [numeroSetor EXCEPT ![d] = s] /\ numeroSetor'[d] = s
      /\ \A x \in Descritores \ {d} : numeroSetor'[x] = numeroSetor[x]
  BY Inserted
<1>2. hashTable' = T \cup {novo}
  BY Inserted
<1>3. /\ ToFront(d) \in Links /\ Encadeada(ToFront(d))
      /\ \A x \in Nos : x \in U \cup {d} <=> ToFront(d).next[x] \in U \cup {d}
  <2>1. \A x \in Nos : lista.next[x] \in Nos
    BY <1>0 DEF TypeOK, Links
  <2>2. \A x \in Nos : x \in U <=> lista.next[x] \in U
    BY <2>1, <1>0 DEF TableRight
  <2>3. U \in SUBSET Nos /\ listaLRU \in U
    BY DEF Usados, Nos
  <2> HIDE DEF U
  <2>4. QED  BY <2>2, <2>3, <1>0, Moved
<1>4. lista' = ToFront(d)
  BY DEF Guardar
<1>5. lido' \in [setor : Setores, ret : {-1, 0, DISKIMG_SECTOR_SIZE}, buf : Conteudos]
  <2>1. CASE disco[s] = FIM  BY <2>1 DEF Guardar, disksim_readsector
  <2>2. CASE disco[s] # FIM
    <3>1. disco[s] \in Conteudos  BY <2>2, <1>0 DEF TypeOK
    <3>2. QED  BY <2>2, <3>1 DEF Guardar, disksim_readsector
  <2>3. QED  BY <2>1, <2>2
<1>6. /\ memoria' \in [Descritores -> Conteudos] /\ memoria'[d] = lido'.buf
      /\ \A x \in Descritores \ {d} : memoria'[x] = memoria[x]
  <2>1. lido'.buf \in Conteudos  BY <1>5
  <2>2. QED  BY <2>1, <1>0 DEF Guardar, memcpy, TypeOK
<1>7. TypeOK'
  <2>1. hashTable' \subseteq [hash : Setores, desc : Descritores]
    BY <1>0, <1>2
  <2>2. numeroSetor' \in [Descritores -> Setores]
    BY <1>0, <1>1 DEF TypeOK
  <2>3. disco' = disco  BY DEF Guardar
  <2>4. QED  BY <2>1, <2>2, <2>3, <1>0, <1>3, <1>4, <1>5, <1>6 DEF TypeOK
<1>8. TableRight'
  <2>1. \A e \in hashTable' : e.hash = numeroSetor'[e.desc]
    BY <1>0, <1>1, <1>2 DEF TableRight
  <2>2. ASSUME NEW e \in hashTable', NEW f \in hashTable', e.hash = f.hash  PROVE e = f
    <3>1. \A g \in T : g.hash # s
      <4>1. \A g \in T : g.hash = numeroSetor[g.desc]  BY <1>0 DEF TableRight
      <4>2. QED  BY <4>1 DEF lh_retrieve
    <3>2. CASE e \in T /\ f \in T  BY <3>2, <2>2, <1>0 DEF TableRight
    <3>3. QED  BY <3>1, <3>2, <2>2, <1>2
  <2>3. ASSUME NEW x \in Nos
        PROVE  x = listaLRU \/ x \in NaTabela' <=> x \in U \cup {d}
    <3>1. novo \in hashTable' /\ novo.desc = d
      BY <1>2
    <3>2. CASE x = d
      BY <3>1, <3>2 DEF NaTabela
    <3>3. CASE x # d
      <4>1. ASSUME x \in NaTabela PROVE x \in NaTabela'
        <5>1. PICK e \in hashTable : e.desc = x  BY <4>1 DEF NaTabela
        <5>2. e \in hashTable'  BY <5>1, <3>3, <1>2
        <5>3. QED  BY <5>1, <5>2 DEF NaTabela
      <4>2. ASSUME x \in NaTabela' PROVE x \in NaTabela
        <5>1. PICK e \in hashTable' : e.desc = x  BY <4>2 DEF NaTabela
        <5>2. e \in hashTable  BY <5>1, <3>3, <1>2
        <5>3. QED  BY <5>1, <5>2 DEF NaTabela
      <4>3. QED  BY <4>1, <4>2, <3>3 DEF Usados
    <3>4. QED  BY <3>2, <3>3
  <2>4. \A x \in Nos : ToFront(d).next[x] \in Nos
    BY <1>3 DEF Links
  <2>5. (\A x \in Nos : Usados(x) <=> Usados(lista.next[x]))'
    <3> HIDE DEF U
    <3>1. QED  BY <2>3, <2>4, <1>3, <1>4 DEF Usados
  <2>6. QED  BY <2>1, <2>2, <2>5 DEF TableRight
<1>9. Coherent'
  <2>1. disco' = disco  BY DEF Guardar
  <2>2. disco[s] \in {lido'.buf, FIM}
    BY DEF Guardar, disksim_readsector
  <2>3. ASSUME NEW e \in hashTable' PROVE disco[e.hash] \in {memoria'[e.desc], FIM}
    <3>1. CASE e = novo  BY <3>1, <2>2, <1>6
    <3>2. CASE e \in T  BY <3>2, <1>0, <1>6 DEF Coherent
    <3>3. QED  BY <3>1, <3>2, <1>2
  <2>4. QED  BY <2>1, <2>3 DEF Coherent
<1>10. QED  BY <1>3, <1>4, <1>7, <1>8, <1>9 DEF IInv, ListsLinked

\* The first free descriptor has no entry.
LEMMA Filled ==
  ASSUME IInv, NEW s \in Setores, Fill(s)
  PROVE  LET d == lista.next[listaLivres]
         IN d \in Descritores /\ Guardar(s, d, {e \in hashTable : e.desc # d})
<1>0. TypeOK /\ TableRight
  BY DEF IInv
<1> DEFINE d == lista.next[listaLivres]
<1>1. listaLivres \in Nos /\ listaLRU \in Nos /\ listaLivres # listaLRU /\ d # listaLivres
  BY CacheAssumption DEF Nos, Fill, list_empty
<1>2. ~Usados(listaLivres)
  BY <1>0, CacheAssumption DEF Usados, NaTabela, TypeOK
<1>3. d \in Descritores /\ d \notin NaTabela
  <2>1. d \in Nos /\ ~Usados(d)
    BY <1>0, <1>1, <1>2 DEF TypeOK, Links, TableRight
  <2>2. QED  BY <1>1, <2>1 DEF Nos, Usados
<1>4. hashTable = {e \in hashTable : e.desc # d}
  BY <1>3 DEF NaTabela
<1>5. QED  BY <1>3, <1>4 DEF Fill

\* The entry deleted is that of the descriptor taken, and it has no other.
LEMMA Evicted ==
  ASSUME IInv, NEW s \in Setores, Evict(s)
  PROVE  /\ Vitima \in Descritores /\ Vitima \in NaTabela
         /\ Guardar(s, Vitima, {e \in hashTable : e.desc # Vitima})
<1>0. /\ TypeOK /\ ListsLinked /\ TableRight
      /\ hashTable \subseteq [hash : Setores, desc : Descritores]
  BY DEF IInv, TypeOK
<1>1. Vitima \in Descritores
  BY DEF Evict
<1>2. Vitima \in NaTabela
  <2>1. lista.next[Vitima] = listaLRU /\ Vitima \in Nos
    BY <1>0, <1>1 DEF Vitima, Nos, ListsLinked, Encadeada
  <2>2. Usados(Vitima)
    BY <1>0, <2>1 DEF TableRight, Usados
  <2>3. QED  BY <1>1, <2>2, CacheAssumption DEF Usados
<1>3. SemVitima(s) = {e \in hashTable : e.desc # Vitima}
  <2>1. PICK v \in hashTable : v.desc = Vitima
    BY <1>2 DEF NaTabela
  <2>2. \A e \in hashTable : numeroSetor[e.desc] = e.hash
    BY <1>0 DEF TableRight
  <2>3. \A e \in hashTable : e.hash = v.hash <=> e.desc = Vitima
    BY <1>0, <2>1, <2>2 DEF TableRight
  <2>4. QED  BY <2>1, <2>2, <2>3 DEF SemVitima, lh_delete
<1>4. QED  BY <1>1, <1>2, <1>3 DEF Evict

LEMMA NextIInv == IInv /\ [Next]_vars => IInv'
<1> SUFFICES ASSUME IInv, [Next]_vars PROVE IInv'
  OBVIOUS
<1>0. /\ TypeOK /\ ListsLinked /\ TableRight /\ Coherent
      /\ hashTable \subseteq [hash : Setores, desc : Descritores]
  BY DEF IInv, TypeOK
<1>1. ASSUME NEW s \in Setores, Hit(s) PROVE IInv'
  <2>1. PICK e \in lh_retrieve(s) :
          /\ lista' = ToFront(e.desc)
          /\ lido' = [setor |-> s, ret |-> DISKIMG_SECTOR_SIZE, buf |-> memoria[e.desc]]
          /\ UNCHANGED <<disco, numeroSetor, memoria, hashTable>>
    BY <1>1 DEF Hit
  <2> DEFINE d == e.desc
             U == {x \in Nos : Usados(x)}
  <2>2. e \in hashTable /\ d \in Descritores /\ d \in NaTabela
    BY <1>0 DEF lh_retrieve, NaTabela
  <2>3. /\ ToFront(d) \in Links /\ Encadeada(ToFront(d))
        /\ \A x \in Nos : x \in U \cup {d} <=> ToFront(d).next[x] \in U \cup {d}
    <3>1. \A x \in Nos : lista.next[x] \in Nos
      BY <1>0 DEF TypeOK, Links
    <3>2. \A x \in Nos : x \in U <=> lista.next[x] \in U
      BY <3>1, <1>0 DEF TableRight
    <3>3. U \in SUBSET Nos /\ listaLRU \in U
      BY DEF Usados, Nos
    <3> HIDE DEF U
    <3>4. QED  BY <3>2, <3>3, <2>2, <1>0, Moved
  <2>4. TypeOK'
    <3>1. memoria[d] \in Conteudos  BY <2>2, <1>0 DEF TypeOK
    <3>2. QED  BY <3>1, <2>1, <2>3, <1>0 DEF TypeOK
  <2>5. TableRight'
    <3>1. \A x \in Nos : Usados(x) <=> x \in U \cup {d}
      BY <2>2 DEF Usados
    <3>2. \A x \in Nos : ToFront(d).next[x] \in Nos
      BY <2>3 DEF Links
    <3>3. NaTabela' = NaTabela
      BY <2>1 DEF NaTabela
    <3>4. (\A x \in Nos : Usados(x) <=> Usados(lista.next[x]))'
      <4> HIDE DEF U
      <4>1. QED  BY <3>1, <3>2, <3>3, <2>1, <2>3 DEF Usados
    <3>5. QED  BY <3>4, <2>1, <1>0 DEF TableRight
  <2>6. Coherent'
    BY <2>1, <1>0 DEF Coherent
  <2>7. QED  BY <2>1, <2>3, <2>4, <2>5, <2>6 DEF IInv, ListsLinked
<1>2. ASSUME NEW s \in Setores, Fail(s) PROVE IInv'
  <2>1. UNCHANGED <<disco, numeroSetor, memoria, lista, hashTable>>
    BY <1>2 DEF Fail
  <2>2. TypeOK'
    BY <1>0, <1>2, <2>1 DEF TypeOK, Fail
  <2>3. QED
    BY <1>0, <2>1, <2>2 DEF IInv, ListsLinked, TableRight, Usados, NaTabela, Coherent
<1>3. ASSUME NEW s \in Setores, Fill(s) PROVE IInv'
  BY <1>3, Filled, Stored DEF Fill
<1>4. ASSUME NEW s \in Setores, Evict(s) PROVE IInv'
  BY <1>4, Evicted, Stored DEF Evict
<1>5. CASE UNCHANGED vars
  BY <1>0, <1>5 DEF IInv, vars, TypeOK, ListsLinked, TableRight, Usados, NaTabela, Coherent
<1>6. QED  BY <1>1, <1>2, <1>3, <1>4, <1>5 DEF Next, diskimg_readsector

LEMMA Invariance == Spec => []IInv
BY InitIInv, NextIInv, PTL DEF Spec
-------------------------------------------------------------------------------
\* Sectors, contents and links keep their types.
THEOREM TypeCorrect == Spec => []TypeOK
<1>1. IInv => TypeOK  BY DEF IInv
<1>2. QED  BY <1>1, Invariance, PTL

\* list_add and list_del_init keep the two lists linked both ways whatever
\* CacheSetor does with them.
THEOREM ListsStayLinked == Spec => []ListsLinked
<1>1. IInv => ListsLinked  BY DEF IInv
<1>2. QED  BY <1>1, Invariance, PTL

\* CacheSetor_adicionarSetor deletes the old entry before it changes the key:
\* the table has one right entry for each used descriptor and no other.
THEOREM TableStaysRight == Spec => []TableRight
<1>1. IInv => TableRight  BY DEF IInv
<1>2. QED  BY <1>1, Invariance, PTL

\* What CacheSetor_obterSetor finds under a sector is that sector.
THEOREM CacheCoherent == Spec => []Coherent
<1>1. IInv => Coherent  BY DEF IInv
<1>2. QED  BY <1>1, Invariance, PTL

\* diskimg_readsector implements the disk, whatever the size of the cache,
\* but for the hits past the end of the image: of the sectors that it has no
\* reader can tell that there is a cache.
THEOREM ImplementsDisk == Spec => ReadsTheDisk
<1>1. Init => Disco!Init
  BY DEF Init
<1>2. IInv /\ [Next]_vars => [Disco!Next \/ HitPastEnd]_<<disco, lido>>
  <2> SUFFICES ASSUME IInv, [Next]_vars PROVE [Disco!Next \/ HitPastEnd]_<<disco, lido>>
    OBVIOUS
  <2>0. TypeOK /\ TableRight /\ Coherent
    BY DEF IInv
  <2>1. ASSUME NEW s \in Setores, Hit(s) PROVE Disco!Read(s) \/ HitPastEnd
    <3>1. PICK e \in lh_retrieve(s) :
            /\ lido' = [setor |-> s, ret |-> DISKIMG_SECTOR_SIZE, buf |-> memoria[e.desc]]
            /\ disco' = disco
      BY <2>1 DEF Hit
    <3>2. /\ e \in hashTable /\ e.hash = s /\ numeroSetor[e.desc] = s
          /\ memoria[e.desc] \in Conteudos
      BY <2>0 DEF lh_retrieve, TypeOK
    <3>3. CASE disco[s] = FIM
      BY <3>1, <3>2, <3>3 DEF HitPastEnd
    <3>4. CASE disco[s] # FIM
      <4>1. disco[s] = memoria[e.desc]
        BY <3>2, <3>4, <2>0 DEF Coherent
      <4>2. QED  BY <3>1, <3>2, <3>4, <4>1 DEF Disco!Read, Disco!Leituras
    <3>5. QED  BY <3>3, <3>4
  <2>2. ASSUME NEW s \in Setores, Fail(s) PROVE Disco!Read(s)
    BY <2>2 DEF Fail, Disco!Read, Disco!Leituras
  <2>3. ASSUME NEW s \in Setores, disksim_readsector(s), disco' = disco PROVE Disco!Read(s)
    BY <2>3 DEF disksim_readsector, Disco!Read, Disco!Leituras
  <2>4. ASSUME NEW s \in Setores, Fill(s) PROVE Disco!Read(s)
    BY <2>3, <2>4 DEF Fill, Guardar
  <2>5. ASSUME NEW s \in Setores, Evict(s) PROVE Disco!Read(s)
    BY <2>3, <2>5 DEF Evict, Guardar
  <2>6. CASE UNCHANGED vars
    BY <2>6 DEF vars
  <2>7. QED  BY <2>1, <2>2, <2>4, <2>5, <2>6 DEF Next, diskimg_readsector, Disco!Next
<1>3. QED  BY <1>1, <1>2, Invariance, PTL DEF Spec, ReadsTheDisk, Disco!Spec
-------------------------------------------------------------------------------
(* That the least recently used sector is the one evicted. The invariant   *)
(* names the nodes of the list of used descriptors in order, and says that *)
(* those in use are the first ones and the free list holds the others.     *)

\* The list of used descriptors is no[1], ..., no[n], and they are 1..n.
Cadeia(l, n, no) ==
  /\ no \in [0 .. n + 1 -> Nos] /\ no[0] = listaLRU /\ no[n + 1] = listaLRU
  /\ \A k \in 1 .. n : no[k] \in 1 .. n
  /\ \A j, k \in 1 .. n : no[j] = no[k] => j = k
  /\ \A d \in 1 .. n : \E k \in 1 .. n : no[k] = d
  /\ \A k \in 0 .. n : l.next[no[k]] = no[k + 1]

\* The free list is n + 1, ..., quantSetoresCache.
Seguinte(k) == IF k < quantSetoresCache THEN k + 1 ELSE listaLivres
Livres(l, n) ==
  /\ l.next[listaLivres] = Seguinte(n)
  /\ \A d \in n + 1 .. quantSetoresCache : l.next[d] = Seguinte(d)

\* The list after no[p] was moved to the front.
Frente(no, n, p) ==
  [k \in 0 .. n + 1 |-> IF k = 1 THEN no[p] ELSE IF k \in 2 .. p THEN no[k - 1] ELSE no[k]]

LEMMA NodeKinds ==
  /\ quantSetoresCache \in Nat \ {0} /\ Descritores = 1 .. quantSetoresCache
  /\ Nos = Descritores \cup {listaLivres, listaLRU}
  /\ listaLivres \notin Descritores /\ listaLRU \notin Descritores /\ listaLivres # listaLRU
BY Capacity, CacheAssumption DEF Descritores, Nos

LEMMA FrontNext ==
  ASSUME TypeOK, ListsLinked, NEW d \in Descritores, NEW a \in Nos, lista.next[a] = d
  PROVE  \A x \in Nos : ToFront(d).next[x] =
           IF x = listaLRU THEN d
           ELSE IF x = d THEN IF a = listaLRU THEN lista.next[d] ELSE lista.next[listaLRU]
           ELSE IF x = a THEN lista.next[d] ELSE lista.next[x]
<1>1. d \in Nos /\ listaLRU \in Nos /\ d # listaLRU /\ lista \in Links /\ Encadeada(lista)
  BY CacheAssumption DEF Nos, TypeOK, ListsLinked
<1>2. lista.prev[d] = a
  BY <1>1 DEF Encadeada
<1> DEFINE m == list_del_init(lista, d)
<1>3. /\ m \in Links /\ Encadeada(m) /\ m.next[d] = d /\ m.prev[d] = d
      /\ \A x \in Nos : m.next[x] = IF x = d THEN d
                                    ELSE IF x = a THEN lista.next[d] ELSE lista.next[x]
  <2>1. /\ m \in Links /\ Encadeada(m) /\ m.next[d] = d /\ m.prev[d] = d
        /\ \A x \in Nos : m.next[x] = IF x = d THEN d
                                      ELSE IF x = lista.prev[d] THEN lista.next[d]
                                      ELSE lista.next[x]
    BY <1>1, DelLinks
  <2> HIDE DEF m
  <2>2. QED  BY <2>1, <1>2
<1>4. \A x \in Nos : ToFront(d).next[x] = IF x = listaLRU THEN d
                                          ELSE IF x = d THEN m.next[listaLRU] ELSE m.next[x]
  <2>1. ToFront(d) = list_add(m, d, listaLRU)
    BY DEF ToFront
  <2> HIDE DEF m
  <2>2. QED  BY <2>1, <1>3, <1>1, AddLinks
<1> HIDE DEF m
<1>5. QED  BY <1>1, <1>3, <1>4

LEMMA FreeKept ==
  ASSUME TypeOK, ListsLinked, NEW n \in 0 .. quantSetoresCache, Livres(lista, n),
         NEW d \in 1 .. n
  PROVE  Livres(ToFront(d), n)
<1>1. d \in Descritores /\ n \in Nat /\ quantSetoresCache \in Nat
  BY NodeKinds
<1>2. PICK a \in Nos : lista.next[a] = d
  BY <1>1 DEF ListsLinked, Encadeada, Nos, TypeOK, Links
<1>3. \A x \in Nos : x # listaLRU /\ x # d /\ x # a => ToFront(d).next[x] = lista.next[x]
  BY <1>1, <1>2, FrontNext
<1>4. \A k \in {n} \cup (n + 1 .. quantSetoresCache) : Seguinte(k) # d
  BY <1>1, NodeKinds DEF Seguinte
<1>5. a # listaLivres /\ \A x \in n + 1 .. quantSetoresCache : a # x
  BY <1>2, <1>4 DEF Livres
<1>6. listaLivres \in Nos /\ listaLivres # listaLRU /\ listaLivres # d
  BY <1>1, NodeKinds
<1>7. \A x \in n + 1 .. quantSetoresCache : x \in Nos /\ x # listaLRU /\ x # d
  BY <1>1, NodeKinds
<1>8. QED  BY <1>3, <1>5, <1>6, <1>7 DEF Livres

LEMMA ChainMoved ==
  ASSUME TypeOK, ListsLinked, NEW n \in 0 .. quantSetoresCache, NEW no, Cadeia(lista, n, no),
         NEW p \in 1 .. n
  PROVE  Cadeia(ToFront(no[p]), n, Frente(no, n, p))
<1> DEFINE d == no[p]
           c == Frente(no, n, p)
<1>a. no \in [0 .. n + 1 -> Nos] /\ no[0] = listaLRU /\ no[n + 1] = listaLRU
  BY DEF Cadeia
<1>b. \A k \in 1 .. n : no[k] \in 1 .. n
  BY DEF Cadeia
<1>3. \A j, k \in 1 .. n : no[j] = no[k] => j = k
  BY DEF Cadeia
<1>c. \A k \in 0 .. n : lista.next[no[k]] = no[k + 1]
  BY DEF Cadeia
<1>d. n \in Nat /\ 1 .. n \subseteq Descritores /\ p - 1 \in 0 .. n /\ p \in 0 .. n
      /\ (p - 1) + 1 = p /\ 1 \in 0 .. n + 1 /\ 0 \in 0 .. n
  BY NodeKinds
<1>1. /\ n \in Nat /\ d \in 1 .. n /\ d \in Descritores /\ no[p - 1] \in Nos
      /\ lista.next[no[p - 1]] = d /\ lista.next[d] = no[p + 1] /\ p - 1 \in 0 .. n
      /\ \A k \in 1 .. n : no[k] \in Descritores
  <2>1. d \in 1 .. n /\ \A k \in 1 .. n : no[k] \in Descritores
    BY <1>b, <1>d
  <2>2. p - 1 \in 0 .. n + 1
    BY <1>d
  <2>3. lista.next[no[p - 1]] = no[(p - 1) + 1] /\ lista.next[d] = no[p + 1]
    BY <1>c, <1>d
  <2>4. QED  BY <1>a, <1>d, <2>1, <2>2, <2>3
<1>2. \A k \in 0 .. n + 1 : no[k] \in Nos /\ (no[k] = listaLRU <=> k = 0 \/ k = n + 1)
  <2>1. \A k \in 0 .. n + 1 : k = 0 \/ k = n + 1 \/ k \in 1 .. n
    BY <1>d
  <2>2. \A k \in 1 .. n : no[k] # listaLRU /\ k # 0 /\ k # n + 1
    BY <1>1, NodeKinds
  <2>3. QED  BY <1>a, <2>1, <2>2
<1>4. \A x \in Nos : ToFront(d).next[x] =
           IF x = listaLRU THEN d
           ELSE IF x = d THEN IF no[p - 1] = listaLRU THEN no[p + 1] ELSE no[1]
           ELSE IF x = no[p - 1] THEN no[p + 1] ELSE lista.next[x]
  <2>1. lista.next[listaLRU] = no[1]
    <3>1. lista.next[no[0]] = no[0 + 1]
      BY <1>c, <1>d
    <3>2. QED  BY <3>1, <1>a
  <2> HIDE DEF d
  <2>2. QED  BY <1>1, <2>1, FrontNext
<1>5. c \in [0 .. n + 1 -> Nos] /\ c[0] = listaLRU /\ c[n + 1] = listaLRU
  <2>1. ASSUME NEW k \in 0 .. n + 1
        PROVE  (IF k = 1 THEN no[p] ELSE IF k \in 2 .. p THEN no[k - 1] ELSE no[k]) \in Nos
    <3>1. k \in 2 .. p => k - 1 \in 0 .. n + 1
      BY <1>d
    <3>2. p \in 0 .. n + 1
      BY <1>d
    <3>3. QED  BY <1>2, <3>1, <3>2
  <2>2. c \in [0 .. n + 1 -> Nos]
    BY <2>1 DEF Frente
  <2>3. 0 \in 0 .. n + 1 /\ n + 1 \in 0 .. n + 1 /\ 0 \notin 2 .. p /\ n + 1 \notin 2 .. p
        /\ 0 # 1 /\ n + 1 # 1
    BY <1>d
  <2>4. QED  BY <1>a, <2>2, <2>3 DEF Frente
<1>6. /\ c[1] = d
      /\ \A k \in 2 .. p : c[k] = no[k - 1]
      /\ \A k \in p + 1 .. n + 1 : c[k] = no[k]
  BY <1>1 DEF Frente
<1> HIDE DEF c
<1>7. \A k \in 1 .. n : k = 1 \/ k \in 2 .. p \/ k \in p + 1 .. n
  OBVIOUS
<1>8. \A k \in 1 .. n : c[k] \in 1 .. n
  <2>1. \A k \in 1 .. n : no[k] \in 1 .. n
    BY DEF Cadeia
  <2>2. \A k \in 2 .. p : k - 1 \in 1 .. n
    BY <1>1
  <2>3. QED  BY <1>1, <1>6, <1>7, <2>1, <2>2
<1>9. \A q \in 1 .. n : \E k \in 1 .. n : c[k] = no[q]
  <2>1. ASSUME NEW q \in 1 .. p - 1 PROVE q + 1 \in 1 .. n /\ c[q + 1] = no[q]
    <3>1. q + 1 \in 2 .. p /\ (q + 1) - 1 = q /\ q + 1 \in 1 .. n
      BY <1>1
    <3>2. QED  BY <1>6, <3>1
  <2>2. ASSUME NEW q \in p + 1 .. n PROVE q \in 1 .. n /\ c[q] = no[q]
    BY <1>1, <1>6
  <2>3. 1 \in 1 .. n /\ c[1] = no[p]
    BY <1>1, <1>6
  <2>4. \A q \in 1 .. n : q \in 1 .. p - 1 \/ q = p \/ q \in p + 1 .. n
    OBVIOUS
  <2>5. QED  BY <2>1, <2>2, <2>3, <2>4
<1>10. \A j, k \in 1 .. n : c[j] = c[k] => j = k
  <2> DEFINE de(k) == IF k = 1 THEN p ELSE IF k \in 2 .. p THEN k - 1 ELSE k
  <2>1. ASSUME NEW k \in 1 .. n PROVE de(k) \in 1 .. n /\ c[k] = no[de(k)]
    BY <1>1, <1>6, <1>7
  <2>2. \A j, k \in 1 .. n : de(j) = de(k) => j = k
    OBVIOUS
  <2> HIDE DEF de
  <2>3. QED  BY <1>3, <2>1, <2>2
<1>11. ASSUME NEW k \in 0 .. n PROVE ToFront(d).next[c[k]] = c[k + 1]
  <2>1. CASE k = 0
    <3>1. listaLRU \in Nos
      BY NodeKinds
    <3>2. QED  BY <1>4, <1>5, <1>6, <2>1, <3>1
  <2>2. CASE k = 1
    <3>1. d # listaLRU /\ d \in Nos
      BY <1>1, NodeKinds
    <3>2. ToFront(d).next[d] = IF no[p - 1] = listaLRU THEN no[p + 1] ELSE no[1]
      BY <1>4, <3>1
    <3>3. CASE p = 1
      <4>1. no[p - 1] = listaLRU /\ 2 \in p + 1 .. n + 1 /\ p + 1 = 2
        BY <1>1, <1>2, <3>3
      <4>2. c[2] = no[2]
        BY <1>6, <4>1
      <4>3. QED  BY <1>6, <2>2, <3>2, <4>1, <4>2
    <3>4. CASE p # 1
      <4>1. no[p - 1] # listaLRU /\ 2 \in 2 .. p
        BY <1>1, <1>2, <3>4
      <4>2. c[2] = no[2 - 1]
        BY <1>6, <4>1
      <4>3. QED  BY <1>6, <2>2, <3>2, <4>1, <4>2
    <3>5. QED  BY <3>3, <3>4
  <2>3. CASE k \in 2 .. p
    <3>1. k - 1 \in 1 .. n /\ k - 1 # p /\ (k - 1) + 1 = k /\ k - 1 \in 0 .. n
      BY <1>1, <2>3
    <3>2. c[k] = no[k - 1] /\ no[k - 1] \in Nos /\ no[k - 1] # d /\ no[k - 1] # listaLRU
      <4>1. no[k - 1] # listaLRU /\ no[k - 1] \in Nos
        BY <1>1, <3>1, NodeKinds
      <4>2. no[k - 1] # d
        BY <1>3, <3>1
      <4>3. QED  BY <1>6, <2>3, <4>1, <4>2
    <3>3. ToFront(d).next[c[k]] = IF no[k - 1] = no[p - 1] THEN no[p + 1] ELSE lista.next[no[k - 1]]
      BY <1>4, <3>2
    <3>4. CASE k = p
      <4>1. p + 1 \in p + 1 .. n + 1
        BY <1>1
      <4>2. QED  BY <1>6, <3>3, <3>4, <4>1
    <3>5. CASE k # p
      <4>1. k + 1 \in 2 .. p /\ (k + 1) - 1 = k /\ p - 1 \in 1 .. n /\ k - 1 # p - 1
        BY <1>1, <2>3, <3>5
      <4>2. no[k - 1] # no[p - 1]
        BY <1>3, <3>1, <4>1
      <4>3. lista.next[no[k - 1]] = no[k]
        BY <3>1 DEF Cadeia
      <4>4. QED  BY <1>6, <3>3, <4>1, <4>2, <4>3
    <3>6. QED  BY <3>4, <3>5
  <2>4. CASE k \in p + 1 .. n
    <3>1. k \in 1 .. n /\ k # p /\ k \in p + 1 .. n + 1 /\ k + 1 \in p + 1 .. n + 1
      BY <1>1, <2>4
    <3>2. c[k] = no[k] /\ c[k + 1] = no[k + 1]
      BY <1>6, <3>1
    <3>3. no[k] \in Nos /\ no[k] # listaLRU /\ no[k] # d
      <4>1. no[k] # listaLRU /\ no[k] \in Nos
        BY <1>1, <3>1, NodeKinds
      <4>2. no[k] # d
        BY <1>3, <3>1
      <4>3. QED  BY <4>1, <4>2
    <3>4. no[k] # no[p - 1]
      <4>1. CASE p = 1
        BY <1>2, <3>3, <4>1
      <4>2. CASE p # 1
        <5>1. p - 1 \in 1 .. n /\ p - 1 # k
          BY <1>1, <2>4, <4>2
        <5>2. QED  BY <1>3, <3>1, <5>1
      <4>3. QED  BY <4>1, <4>2
    <3>5. lista.next[no[k]] = no[k + 1]
      BY DEF Cadeia
    <3>6. QED  BY <1>4, <3>2, <3>3, <3>4, <3>5
  <2>5. k = 0 \/ k = 1 \/ k \in 2 .. p \/ k \in p + 1 .. n
    OBVIOUS
  <2>6. QED  BY <2>1, <2>2, <2>3, <2>4, <2>5
<1>12. \A x \in 1 .. n : \E k \in 1 .. n : c[k] = x
  <2>1. \A x \in 1 .. n : \E q \in 1 .. n : no[q] = x
    BY DEF Cadeia
  <2>2. QED  BY <1>9, <2>1
<1>13. Cadeia(ToFront(d), n, c)
  BY <1>5, <1>8, <1>10, <1>11, <1>12 DEF Cadeia
<1>14. QED  BY <1>13 DEF c

\* The first free descriptor is put in front.
Mais(no, n) ==
  [k \in 0 .. n + 2 |-> IF k = 0 THEN listaLRU ELSE IF k = 1 THEN n + 1 ELSE no[k - 1]]

LEMMA ChainAdded ==
  ASSUME TypeOK, ListsLinked, NEW n \in 0 .. quantSetoresCache - 1, NEW no,
         Cadeia(lista, n, no), Livres(lista, n)
  PROVE  Cadeia(ToFront(n + 1), n + 1, Mais(no, n)) /\ Livres(ToFront(n + 1), n + 1)
<1> DEFINE d == n + 1
           c == Mais(no, n)
<1>a. no \in [0 .. n + 1 -> Nos] /\ no[0] = listaLRU /\ no[n + 1] = listaLRU
  BY DEF Cadeia
<1>b. \A k \in 1 .. n : no[k] \in 1 .. n
  BY DEF Cadeia
<1>c. \A j, k \in 1 .. n : no[j] = no[k] => j = k
  BY DEF Cadeia
<1>d. \A k \in 0 .. n : lista.next[no[k]] = no[k + 1]
  BY DEF Cadeia
<1>e. /\ n \in Nat /\ 1 .. n \subseteq Descritores /\ d \in Descritores /\ d \notin 1 .. n
      /\ n < quantSetoresCache /\ 0 \in 0 .. n /\ 1 \in 0 .. n + 1
  BY NodeKinds
<1>1. lista.next[listaLivres] = d /\ lista.next[d] = Seguinte(d)
  <2>1. Seguinte(n) = d /\ d \in n + 1 .. quantSetoresCache
    BY <1>e, NodeKinds DEF Seguinte
  <2>2. QED  BY <2>1 DEF Livres
<1>2. lista.next[listaLRU] = no[1] /\ no[1] \in Nos
  <2>1. lista.next[no[0]] = no[0 + 1]
    BY <1>d, <1>e
  <2>2. QED  BY <1>a, <1>e, <2>1
<1>3. \A x \in Nos : ToFront(d).next[x] =
           IF x = listaLRU THEN d ELSE IF x = d THEN no[1]
           ELSE IF x = listaLivres THEN Seguinte(d) ELSE lista.next[x]
  <2>1. listaLivres \in Nos /\ listaLivres # listaLRU
    BY NodeKinds
  <2> HIDE DEF d
  <2>2. QED  BY <1>1, <1>2, <1>e, <2>1, FrontNext
<1>4. Livres(ToFront(d), d)
  <2>1. ToFront(d).next[listaLivres] = Seguinte(d)
    BY <1>3, <1>e, NodeKinds
  <2>2. ASSUME NEW x \in d + 1 .. quantSetoresCache PROVE ToFront(d).next[x] = Seguinte(x)
    <3>1. x \in Descritores /\ x # d /\ x \in n + 1 .. quantSetoresCache
      BY <1>e, NodeKinds
    <3>2. x \in Nos /\ x # listaLRU /\ x # listaLivres
      BY <3>1, NodeKinds
    <3>3. lista.next[x] = Seguinte(x)
      BY <3>1 DEF Livres
    <3> HIDE DEF d
    <3>4. QED  BY <1>3, <3>1, <3>2, <3>3
  <2> HIDE DEF d
  <2>3. QED  BY <2>1, <2>2 DEF Livres
<1>5. c[0] = listaLRU /\ c[1] = d /\ \A k \in 2 .. d + 1 : c[k] = no[k - 1]
  BY <1>e DEF Mais
<1>6. c \in [0 .. d + 1 -> Nos] /\ c[d + 1] = listaLRU
  <2>1. \A k \in 2 .. n + 2 : k - 1 \in 0 .. n + 1
    BY <1>e
  <2>2. d \in Nos /\ listaLRU \in Nos
    BY <1>e, NodeKinds
  <2>3. ASSUME NEW k \in 0 .. n + 2
        PROVE  (IF k = 0 THEN listaLRU ELSE IF k = 1 THEN d ELSE no[k - 1]) \in Nos
    <3>1. k = 0 \/ k = 1 \/ k \in 2 .. n + 2
      OBVIOUS
    <3>2. k \in 2 .. n + 2 => no[k - 1] \in Nos
      BY <1>a, <2>1
    <3>3. QED  BY <2>2, <3>1, <3>2
  <2>4. c \in [0 .. n + 2 -> Nos]
    BY <2>3 DEF Mais
  <2>5. d + 1 = n + 2 /\ d + 1 \in 2 .. d + 1 /\ (d + 1) - 1 = n + 1
    BY <1>e
  <2>6. c[d + 1] = no[n + 1]
    BY <1>5, <2>5
  <2>7. QED  BY <1>a, <2>4, <2>5, <2>6
<1> HIDE DEF c
<1>7. \A k \in 1 .. d : k = 1 \/ (k \in 2 .. d /\ k - 1 \in 1 .. n /\ k \in 2 .. d + 1)
  BY <1>e
<1>8. \A k \in 1 .. d : c[k] \in 1 .. d
  <2>1. 1 .. n \subseteq 1 .. d /\ d \in 1 .. d
    BY <1>e
  <2>2. QED  BY <1>5, <1>7, <1>b, <2>1
<1>9. ASSUME NEW j \in 1 .. d, NEW k \in 1 .. d, c[j] = c[k] PROVE j = k
  <2>1. CASE j = 1 /\ k = 1
    BY <2>1
  <2>2. CASE j = 1 /\ k # 1
    BY <1>5, <1>7, <1>9, <1>b, <1>e, <2>2
  <2>3. CASE j # 1 /\ k = 1
    BY <1>5, <1>7, <1>9, <1>b, <1>e, <2>3
  <2>4. CASE j # 1 /\ k # 1
    <3>1. j - 1 \in 1 .. n /\ k - 1 \in 1 .. n /\ no[j - 1] = no[k - 1]
      BY <1>5, <1>7, <1>9, <2>4
    <3>2. j - 1 = k - 1
      BY <1>c, <3>1
    <3>3. QED  BY <3>2
  <2>5. QED  BY <2>1, <2>2, <2>3, <2>4
<1>10. ASSUME NEW x \in 1 .. d PROVE \E k \in 1 .. d : c[k] = x
  <2>1. CASE x = d
    BY <1>5, <1>e, <2>1
  <2>2. CASE x \in 1 .. n
    <3>1. PICK q \in 1 .. n : no[q] = x
      BY <2>2 DEF Cadeia
    <3>2. q + 1 \in 1 .. d /\ q + 1 \in 2 .. d + 1 /\ (q + 1) - 1 = q
      BY <1>e
    <3>3. c[q + 1] = x
      BY <1>5, <3>1, <3>2
    <3>4. QED  BY <3>2, <3>3
  <2>3. x = d \/ x \in 1 .. n
    BY <1>e
  <2>4. QED  BY <2>1, <2>2, <2>3
<1>11. ASSUME NEW k \in 0 .. d PROVE ToFront(d).next[c[k]] = c[k + 1]
  <2>1. CASE k = 0
    <3>1. listaLRU \in Nos
      BY NodeKinds
    <3>2. QED  BY <1>3, <1>5, <2>1, <3>1
  <2>2. CASE k = 1
    <3>1. d \in Nos /\ d # listaLRU /\ 2 \in 2 .. d + 1
      BY <1>e, NodeKinds
    <3>2. c[2] = no[2 - 1]
      BY <1>5, <3>1
    <3> HIDE DEF d
    <3>3. QED  BY <1>3, <1>5, <2>2, <3>1, <3>2
  <2>3. CASE k \in 2 .. d
    <3>1. k - 1 \in 1 .. n /\ k \in 2 .. d + 1 /\ k + 1 \in 2 .. d + 1 /\ (k + 1) - 1 = k
          /\ k - 1 \in 0 .. n /\ (k - 1) + 1 = k
      BY <1>e, <2>3
    <3>2. c[k] = no[k - 1] /\ c[k + 1] = no[k]
      BY <1>5, <3>1
    <3>3. no[k - 1] \in 1 .. n
      BY <1>b, <3>1
    <3>4. no[k - 1] \in Nos /\ no[k - 1] \notin {listaLRU, listaLivres, d}
      BY <1>e, <3>3, NodeKinds
    <3>5. lista.next[no[k - 1]] = no[k]
      BY <1>d, <3>1
    <3> HIDE DEF d
    <3>6. QED  BY <1>3, <3>2, <3>4, <3>5
  <2>4. k = 0 \/ k = 1 \/ k \in 2 .. d
    BY <1>e
  <2>5. QED  BY <2>1, <2>2, <2>3, <2>4
<1>12. Cadeia(ToFront(d), d, c)
  <2> HIDE DEF d
  <2>1. QED  BY <1>5, <1>6, <1>8, <1>9, <1>10, <1>11 DEF Cadeia
<1>13. QED  BY <1>4, <1>12 DEF c
-------------------------------------------------------------------------------
\* The k-th node of the list stands for the sector read k-th last.
Ordem(no) ==
  /\ Cadeia(lista, Len(recentes), no)
  /\ \A k \in 1 .. Len(recentes) : numeroSetor[no[k]] = recentes[k]

OrderInv ==
  /\ recentes \in Seq(Setores) /\ Len(recentes) \in 0 .. quantSetoresCache
  /\ NaTabela = 1 .. Len(recentes)
  /\ Livres(lista, Len(recentes))
  /\ \E no : Ordem(no)

LEMMA InitOrder == Init => OrderInv
<1> SUFFICES ASSUME Init PROVE OrderInv
  OBVIOUS
<1> DEFINE no == [k \in 0 .. 1 |-> listaLRU]
<1>1. recentes = <<>> /\ recentes \in Seq(Setores) /\ Len(recentes) = 0 /\ 1 .. 0 = {}
  BY DEF Init
<1>2. NaTabela = {}
  BY DEF Init, CacheSetor_init, NaTabela
<1>a. Ultimo \in Descritores /\ listaLRU \in Nos /\ listaLivres \in Nos
  BY NodeKinds DEF Ultimo
<1>3. lista.next[listaLRU] = listaLRU
  BY <1>a, NodeKinds DEF Init, CacheSetor_init
<1>4. Livres(lista, 0)
  <2>1. 0 + 1 \in 0 + 1 .. quantSetoresCache /\ Seguinte(0) = 1
    BY NodeKinds DEF Seguinte
  <2>2. lista.next[listaLivres] = 1
    BY <1>a, NodeKinds DEF Init, CacheSetor_init
  <2>3. ASSUME NEW d \in 0 + 1 .. quantSetoresCache PROVE lista.next[d] = Seguinte(d)
    <3>1. d \in Nos /\ d # listaLRU /\ d # listaLivres
      BY NodeKinds
    <3>2. lista.next[d] = IF d = quantSetoresCache THEN listaLivres ELSE d + 1
      BY <3>1 DEF Init, CacheSetor_init, Ultimo
    <3>3. QED  BY <3>2, NodeKinds DEF Seguinte
  <2>4. QED  BY <2>1, <2>2, <2>3 DEF Livres
<1>5. Cadeia(lista, 0, no)
  <2>1. no \in [0 .. 0 + 1 -> Nos] /\ no[0] = listaLRU /\ no[0 + 1] = listaLRU
    BY NodeKinds
  <2>2. \A k \in 0 .. 0 : lista.next[no[k]] = no[k + 1]
    BY <1>3
  <2> HIDE DEF no
  <2>3. QED  BY <1>1, <2>1, <2>2 DEF Cadeia
<1>6. Ordem(no)
  <2> HIDE DEF no
  <2>1. QED  BY <1>1, <1>5 DEF Ordem
<1>7. 0 \in 0 .. quantSetoresCache
  BY NodeKinds
<1>8. \E q : Ordem(q)
  BY <1>6
<1>9. QED  BY <1>1, <1>2, <1>4, <1>7, <1>8 DEF OrderInv

\* The history after a read, with the place p where the sector was.
Depois(s, p, m) ==
  /\ IF p <= Len(recentes) THEN recentes[p] = s
     ELSE \A k \in 1 .. Len(recentes) : recentes[k] # s
  /\ m = IF p > Len(recentes) /\ p <= quantSetoresCache THEN p ELSE Len(recentes)
  /\ recentes' \in Seq(Setores) /\ Len(recentes') = m
  /\ \A k \in 1 .. m :
       recentes'[k] = IF k = 1 THEN s ELSE IF k <= p THEN recentes[k - 1] ELSE recentes[k]

LEMMA RecenteIs ==
  ASSUME recentes \in Seq(Setores), NEW s \in Setores, Recente(s)
  PROVE  \E p \in 1 .. Len(recentes) + 1, m \in Nat : Depois(s, p, m)
<1> DEFINE n == Len(recentes)
<1>1. n \in Nat /\ \A k \in 1 .. n : recentes[k] \in Setores
  BY ElementOfSeq, LenProperties
<1>2. PICK p \in 1 .. n + 1 :
        /\ IF p <= n THEN recentes[p] = s ELSE \A k \in 1 .. n : recentes[k] # s
        /\ recentes' = [k \in 1 .. (IF p > n /\ p <= quantSetoresCache THEN p ELSE n) |->
                         IF k = 1 THEN s ELSE IF k <= p THEN recentes[k - 1] ELSE recentes[k]]
  BY DEF Recente
<1> DEFINE m == IF p > n /\ p <= quantSetoresCache THEN p ELSE n
           g(k) == IF k = 1 THEN s ELSE IF k <= p THEN recentes[k - 1] ELSE recentes[k]
<1> HIDE DEF n
<1>3. m \in Nat /\ m <= n + 1 /\ (m > n => m = p)
  BY <1>1, <1>2
<1>4. recentes' = [k \in 1 .. m |-> g(k)]
  BY <1>2
<1> HIDE DEF m
<1>5. ASSUME NEW k \in 1 .. m PROVE g(k) \in Setores
  <2>1. CASE k = 1  BY <2>1
  <2>2. CASE k # 1 /\ k <= p
    <3>1. k - 1 \in 1 .. n  BY <1>1, <1>2, <2>2
    <3>2. QED  BY <1>1, <2>2, <3>1
  <2>3. CASE k # 1 /\ ~(k <= p)
    <3>1. k \in 1 .. n  BY <1>1, <1>2, <1>3, <2>3
    <3>2. QED  BY <1>1, <2>3, <3>1
  <2>4. QED  BY <2>1, <2>2, <2>3
<1> HIDE DEF g
<1>6. recentes' \in [1 .. m -> Setores]
  BY <1>4, <1>5
<1>7. recentes' \in Seq(Setores) /\ Len(recentes') = m
  <2>1. recentes' \in Seq(Setores)
    BY <1>3, <1>6, SeqDef
  <2>2. DOMAIN recentes' = 1 .. m
    BY <1>6
  <2>3. QED  BY <1>3, <2>1, <2>2, LenProperties
<1>8. \A k \in 1 .. m : recentes'[k] = g(k)
  BY <1>4
<1>9. Depois(s, p, m)
  BY <1>2, <1>7, <1>8 DEF Depois, m, n, g
<1>10. QED  BY <1>3, <1>9 DEF n

\* A sector in the history has an entry, that of its node.
LEMMA Found ==
  ASSUME IInv, OrderInv, NEW no, Ordem(no), NEW k \in 1 .. Len(recentes)
  PROVE  \E e \in lh_retrieve(recentes[k]) : e.desc = no[k]
<1>1. no[k] \in NaTabela /\ numeroSetor[no[k]] = recentes[k]
  BY DEF OrderInv, Ordem, Cadeia
<1>2. PICK e \in hashTable : e.desc = no[k]
  BY <1>1 DEF NaTabela
<1>3. e.hash = numeroSetor[e.desc]
  BY DEF IInv, TableRight
<1>4. QED  BY <1>1, <1>2, <1>3 DEF lh_retrieve

LEMMA InTable ==
  ASSUME NEW s, NEW d, hashTable' = {e \in hashTable : e.desc # d} \cup {[hash |-> s, desc |-> d]}
  PROVE  NaTabela' = NaTabela \cup {d}
<1>1. \A x : x \in NaTabela' <=> \E e \in hashTable' : e.desc = x
  BY DEF NaTabela
<1>2. \A x : x \in NaTabela <=> \E e \in hashTable : e.desc = x
  BY DEF NaTabela
<1>3. [hash |-> s, desc |-> d] \in hashTable' /\ [hash |-> s, desc |-> d].desc = d
  OBVIOUS
<1>4. \A x : x \in NaTabela' <=> x \in NaTabela \cup {d}
  BY <1>1, <1>2, <1>3
<1>5. QED  BY <1>4

LEMMA HitOrder ==
  ASSUME IInv, OrderInv, NEW s \in Setores, Hit(s)
  PROVE  OrderInv'
<1> DEFINE n == Len(recentes)
<1>1. PICK no : Ordem(no)
  BY DEF OrderInv
<1>2. PICK e \in lh_retrieve(s) :
        lista' = ToFront(e.desc) /\ Recente(s) /\ UNCHANGED <<numeroSetor, hashTable>>
  BY DEF Hit
<1>3. TypeOK /\ ListsLinked /\ TableRight
  BY DEF IInv
<1>4. /\ recentes \in Seq(Setores) /\ n \in 0 .. quantSetoresCache /\ NaTabela = 1 .. n
      /\ Livres(lista, n) /\ Cadeia(lista, n, no)
      /\ \A k \in 1 .. n : numeroSetor[no[k]] = recentes[k]
  BY <1>1 DEF OrderInv, Ordem
<1>5. PICK p \in 1 .. n + 1, m \in Nat : Depois(s, p, m)
  BY <1>2, <1>4, RecenteIs
<1>6. e \in hashTable /\ e.hash = s /\ numeroSetor[e.desc] = s /\ e.desc \in 1 .. n
  BY <1>2, <1>4 DEF lh_retrieve, NaTabela
<1>7. p \in 1 .. n /\ recentes[p] = s
  <2>1. PICK q \in 1 .. n : no[q] = e.desc
    BY <1>4, <1>6 DEF Cadeia
  <2>2. recentes[q] = s
    BY <1>4, <1>6, <2>1
  <2>3. IF p <= n THEN recentes[p] = s ELSE \A k \in 1 .. n : recentes[k] # s
    BY <1>5 DEF Depois
  <2>4. p <= n
    BY <2>2, <2>3
  <2>5. QED  BY <1>4, <2>3, <2>4
<1>8. no[p] = e.desc
  <2>1. PICK f \in lh_retrieve(s) : f.desc = no[p]
    BY <1>1, <1>7, Found
  <2>2. f \in hashTable /\ f.hash = e.hash
    BY <1>6, <2>1 DEF lh_retrieve
  <2>3. f = e
    BY <1>3, <1>6, <2>2 DEF TableRight
  <2>4. QED  BY <2>1, <2>3
<1>9. /\ m = n /\ recentes' \in Seq(Setores) /\ Len(recentes') = n
      /\ \A k \in 1 .. n :
           recentes'[k] = IF k = 1 THEN s ELSE IF k <= p THEN recentes[k - 1] ELSE recentes[k]
  <2>1. ~(p > n)
    BY <1>4, <1>7
  <2>2. QED  BY <1>5, <2>1 DEF Depois
<1>10. Cadeia(lista', n, Frente(no, n, p)) /\ Livres(lista', n)
  <2>1. Cadeia(ToFront(no[p]), n, Frente(no, n, p))
    BY <1>3, <1>4, <1>7, ChainMoved
  <2>2. Livres(ToFront(no[p]), n)
    BY <1>3, <1>4, <1>6, <1>8, FreeKept
  <2>3. QED  BY <1>2, <1>8, <2>1, <2>2
<1>11. ASSUME NEW k \in 1 .. n PROVE numeroSetor[Frente(no, n, p)[k]] = recentes'[k]
  <2>1. Frente(no, n, p)[k] = IF k = 1 THEN no[p] ELSE IF k \in 2 .. p THEN no[k - 1] ELSE no[k]
    <3>1. k \in 0 .. n + 1  BY <1>4
    <3>2. QED  BY <3>1 DEF Frente
  <2>2. CASE k = 1
    BY <1>4, <1>7, <1>9, <2>1, <2>2
  <2>3. CASE k # 1 /\ k <= p
    <3>1. k \in 2 .. p /\ k - 1 \in 1 .. n
      BY <1>4, <1>7, <2>3
    <3>2. numeroSetor[no[k - 1]] = recentes[k - 1]
      BY <1>4, <3>1
    <3>3. QED  BY <1>9, <2>1, <2>3, <3>1, <3>2
  <2>4. CASE k # 1 /\ ~(k <= p)
    <3>1. k \notin 2 .. p
      BY <1>4, <1>7, <2>4
    <3>2. QED  BY <1>4, <1>9, <2>1, <2>4, <3>1
  <2>5. QED  BY <2>2, <2>3, <2>4
<1>12. NaTabela' = NaTabela
  BY <1>2 DEF NaTabela
<1>13. Ordem(Frente(no, n, p))'
  BY <1>2, <1>9, <1>10, <1>11 DEF Ordem
<1>14. QED
  BY <1>4, <1>9, <1>10, <1>12, <1>13 DEF OrderInv

\* A sector that is not in the cache is not in the history either.
LEMMA New ==
  ASSUME IInv, OrderInv, NEW s \in Setores, lh_retrieve(s) = {}, Recente(s)
  PROVE  LET n == Len(recentes)
             m == IF n < quantSetoresCache THEN n + 1 ELSE n
         IN /\ recentes' \in Seq(Setores) /\ Len(recentes') = m
            /\ \A k \in 1 .. m : recentes'[k] = IF k = 1 THEN s ELSE recentes[k - 1]
<1> DEFINE n == Len(recentes)
           m == IF n < quantSetoresCache THEN n + 1 ELSE n
<1>1. PICK no : Ordem(no)
  BY DEF OrderInv
<1>2. recentes \in Seq(Setores) /\ n \in 0 .. quantSetoresCache /\ quantSetoresCache \in Nat
  BY NodeKinds DEF OrderInv
<1>3. PICK p \in 1 .. n + 1, r \in Nat : Depois(s, p, r)
  BY <1>2, RecenteIs
<1>4. \A k \in 1 .. n : recentes[k] # s
  BY <1>1, Found
<1>5. p = n + 1
  BY <1>2, <1>3, <1>4 DEF Depois
<1>6. r = m
  BY <1>2, <1>3, <1>5 DEF Depois
<1>7. recentes' \in Seq(Setores) /\ Len(recentes') = m
  BY <1>3, <1>6 DEF Depois
<1>8. ASSUME NEW k \in 1 .. m PROVE recentes'[k] = IF k = 1 THEN s ELSE recentes[k - 1]
  <2>1. k <= p
    BY <1>2, <1>5
  <2> HIDE DEF n, m
  <2>2. QED  BY <1>3, <1>6, <2>1 DEF Depois
<1>9. QED  BY <1>7, <1>8

LEMMA FillOrder ==
  ASSUME IInv, OrderInv, NEW s \in Setores, Fill(s)
  PROVE  OrderInv'
<1>1. PICK no : Ordem(no)
  BY DEF OrderInv
<1>2. PICK n \in 0 .. quantSetoresCache : n = Len(recentes)
  BY DEF OrderInv
<1>3. TypeOK /\ ListsLinked
  BY DEF IInv
<1>4. /\ NaTabela = 1 .. n /\ Livres(lista, n) /\ Cadeia(lista, n, no)
      /\ \A k \in 1 .. n : numeroSetor[no[k]] = recentes[k]
  BY <1>1, <1>2 DEF OrderInv, Ordem
<1>5. lh_retrieve(s) = {}
  BY DEF Fill
<1>6. /\ lista.next[listaLivres] \in Descritores
      /\ Guardar(s, lista.next[listaLivres], {e \in hashTable : e.desc # lista.next[listaLivres]})
  BY Filled
<1>7. n < quantSetoresCache /\ lista.next[listaLivres] = n + 1
  <2>1. lista.next[listaLivres] = Seguinte(n)
    BY <1>4 DEF Livres
  <2>2. QED  BY <1>6, <2>1, NodeKinds DEF Seguinte
<1> DEFINE d == n + 1
           c == Mais(no, n)
<1>8. n \in 0 .. quantSetoresCache - 1 /\ d \in Descritores /\ d \in 0 .. quantSetoresCache
  BY <1>7, NodeKinds
<1>9. Cadeia(ToFront(d), d, c) /\ Livres(ToFront(d), d)
  BY <1>3, <1>4, <1>8, ChainAdded
<1>10. Guardar(s, d, {e \in hashTable : e.desc # d})
  BY <1>6, <1>7
<1>11. lista' = ToFront(d) /\ Recente(s)
  BY <1>10 DEF Guardar
<1>12. /\ recentes' \in Seq(Setores) /\ Len(recentes') = d
       /\ \A k \in 1 .. d : recentes'[k] = IF k = 1 THEN s ELSE recentes[k - 1]
  BY <1>2, <1>5, <1>7, <1>11, New
<1>13. /\ numeroSetor'[d] = s
       /\ \A x \in Descritores \ {d} : numeroSetor'[x] = numeroSetor[x]
       /\ hashTable' = {e \in hashTable : e.desc # d} \cup {[hash |-> s, desc |-> d]}
  <2> HIDE DEF d
  <2>1. QED  BY <1>5, <1>8, <1>10, Inserted
<1>14. NaTabela' = 1 .. d
  <2>1. NaTabela' = NaTabela \cup {d}
    BY <1>13, InTable
  <2>2. QED  BY <1>4, <2>1
<1>15. ASSUME NEW k \in 1 .. d PROVE numeroSetor'[c[k]] = recentes'[k]
  <2>1. c[k] = IF k = 0 THEN listaLRU ELSE IF k = 1 THEN n + 1 ELSE no[k - 1]
    <3>1. k \in 0 .. n + 2  OBVIOUS
    <3>2. QED  BY <3>1 DEF Mais
  <2>2. CASE k = 1
    BY <1>12, <1>13, <2>1, <2>2
  <2>3. CASE k # 1
    <3>1. k - 1 \in 1 .. n /\ k # 0
      BY <2>3
    <3>2. no[k - 1] \in 1 .. n /\ numeroSetor[no[k - 1]] = recentes[k - 1]
      BY <1>4, <3>1 DEF Cadeia
    <3>3. no[k - 1] \in Descritores \ {d}
      BY <3>2, NodeKinds
    <3> HIDE DEF d, c
    <3>4. QED  BY <1>12, <1>13, <2>1, <2>3, <3>1, <3>2, <3>3
  <2>4. QED  BY <2>2, <2>3
<1> HIDE DEF d, c
<1>16. Cadeia(lista', Len(recentes'), c)
       /\ \A k \in 1 .. Len(recentes') : numeroSetor'[c[k]] = recentes'[k]
  BY <1>9, <1>11, <1>12, <1>15
<1>17. (\E q : Ordem(q))'
  BY <1>16 DEF Ordem
<1>18. QED
  BY <1>8, <1>9, <1>11, <1>12, <1>14, <1>17 DEF OrderInv

LEMMA EvictOrder ==
  ASSUME IInv, OrderInv, NEW s \in Setores, Evict(s)
  PROVE  OrderInv'
<1>1. PICK no : Ordem(no)
  BY DEF OrderInv
<1>2. PICK n \in 0 .. quantSetoresCache : n = Len(recentes)
  BY DEF OrderInv
<1>3. TypeOK /\ ListsLinked
  BY DEF IInv
<1>4. /\ NaTabela = 1 .. n /\ Livres(lista, n) /\ Cadeia(lista, n, no)
      /\ \A k \in 1 .. n : numeroSetor[no[k]] = recentes[k]
  BY <1>1, <1>2 DEF OrderInv, Ordem
<1>5. lh_retrieve(s) = {} /\ lista.next[listaLivres] = listaLivres
  BY DEF Evict, list_empty
<1>6. /\ Vitima \in Descritores /\ Vitima \in NaTabela
      /\ Guardar(s, Vitima, {e \in hashTable : e.desc # Vitima})
  BY Evicted
<1>7. n = quantSetoresCache /\ n \in 1 .. n
  <2>1. Seguinte(n) = listaLivres
    BY <1>4, <1>5 DEF Livres
  <2>2. ~(n < quantSetoresCache)
    BY <2>1, NodeKinds DEF Seguinte
  <2>3. QED  BY <2>2, NodeKinds
<1>8. Vitima = no[n]
  <2>1. n \in 0 .. n /\ no[n] \in 1 .. n
    BY <1>4, <1>7 DEF Cadeia
  <2>2. lista.next[no[n]] = listaLRU /\ no[n] \in Nos
    <3>1. lista.next[no[n]] = no[n + 1]
      BY <1>4, <2>1 DEF Cadeia
    <3>2. no[n + 1] = listaLRU
      BY <1>4 DEF Cadeia
    <3>3. QED  BY <1>7, <2>1, <3>1, <3>2, NodeKinds
  <2>3. lista.prev[lista.next[no[n]]] = no[n]
    BY <1>3, <2>2 DEF ListsLinked, Encadeada
  <2>4. QED  BY <2>2, <2>3 DEF Vitima
<1> DEFINE d == Vitima
           c == Frente(no, n, n)
<1>9. Cadeia(ToFront(d), n, c)
  BY <1>3, <1>4, <1>7, <1>8, ChainMoved
<1>10. Livres(ToFront(d), n)
  BY <1>3, <1>4, <1>6, FreeKept
<1>11. lista' = ToFront(d) /\ Recente(s)
  BY <1>6 DEF Guardar
<1>12. /\ recentes' \in Seq(Setores) /\ Len(recentes') = n
       /\ \A k \in 1 .. n : recentes'[k] = IF k = 1 THEN s ELSE recentes[k - 1]
  <2>1. ~(n < quantSetoresCache)
    BY <1>7
  <2>2. QED  BY <1>2, <1>5, <1>11, <2>1, New
<1>13. /\ numeroSetor'[d] = s
       /\ \A x \in Descritores \ {d} : numeroSetor'[x] = numeroSetor[x]
       /\ hashTable' = {e \in hashTable : e.desc # d} \cup {[hash |-> s, desc |-> d]}
  <2> HIDE DEF d
  <2>1. QED  BY <1>5, <1>6, Inserted DEF d
<1> HIDE DEF d
<1>14. NaTabela' = 1 .. n
  <2>1. NaTabela' = NaTabela \cup {d}
    BY <1>13, InTable
  <2>2. d \in NaTabela
    BY <1>6 DEF d
  <2>3. QED  BY <1>4, <2>1, <2>2
<1>15. ASSUME NEW k \in 1 .. n PROVE numeroSetor'[c[k]] = recentes'[k]
  <2>1. c[k] = IF k = 1 THEN no[n] ELSE IF k \in 2 .. n THEN no[k - 1] ELSE no[k]
    <3>1. k \in 0 .. n + 1  OBVIOUS
    <3>2. QED  BY <3>1 DEF Frente
  <2>2. CASE k = 1
    BY <1>8, <1>12, <1>13, <2>1, <2>2 DEF d
  <2>3. CASE k # 1
    <3>1. k - 1 \in 1 .. n /\ k \in 2 .. n /\ k - 1 # n
      BY <2>3
    <3>2. no[k - 1] \in 1 .. n /\ numeroSetor[no[k - 1]] = recentes[k - 1] /\ no[k - 1] # no[n]
      BY <1>4, <1>7, <3>1 DEF Cadeia
    <3>3. no[k - 1] \in Descritores \ {d}
      BY <1>7, <1>8, <3>2, NodeKinds DEF d
    <3> HIDE DEF c
    <3>4. QED  BY <1>12, <1>13, <2>1, <2>3, <3>1, <3>2, <3>3
  <2>4. QED  BY <2>2, <2>3
<1> HIDE DEF c
<1>16. Cadeia(lista', Len(recentes'), c)
       /\ \A k \in 1 .. Len(recentes') : numeroSetor'[c[k]] = recentes'[k]
  BY <1>9, <1>11, <1>12, <1>15
<1>17. (\E q : Ordem(q))'
  BY <1>16 DEF Ordem
<1>18. QED
  BY <1>10, <1>11, <1>12, <1>14, <1>17 DEF OrderInv

LEMMA OrderNext == IInv /\ OrderInv /\ [Next]_vars => OrderInv'
<1> SUFFICES ASSUME IInv, OrderInv, [Next]_vars PROVE OrderInv'
  OBVIOUS
<1>1. ASSUME UNCHANGED <<numeroSetor, lista, hashTable, recentes>> PROVE OrderInv'
  BY <1>1 DEF OrderInv, NaTabela, Ordem
<1>2. ASSUME NEW s \in Setores, Fail(s) PROVE OrderInv'
  BY <1>1, <1>2 DEF Fail
<1>3. QED
  BY <1>1, <1>2, HitOrder, FillOrder, EvictOrder DEF Next, diskimg_readsector, vars

LEMMA OrderInvariance == Spec => [](IInv /\ OrderInv)
BY InitIInv, NextIInv, InitOrder, OrderNext, PTL DEF Spec

\* CacheSetor_adicionarSetor takes the descriptor of the sector that was read
\* longest ago, and the cache holds as many of those read last as it can.
THEOREM LeastRecentOut == Spec => []LeastRecentEvicted
<1>1. ASSUME IInv, OrderInv PROVE LeastRecentEvicted
  <2> DEFINE n == Len(recentes)
             Em(k) == IF k \in 1 .. n THEN {d \in NaTabela : numeroSetor[d] = recentes[k]}
                      ELSE {listaLRU}
  <2>1. PICK no : Ordem(no)
    BY <1>1 DEF OrderInv
  <2>2. n \in 0 .. quantSetoresCache /\ NaTabela = 1 .. n /\ Livres(lista, n)
    BY <1>1 DEF OrderInv
  <2>3. Cadeia(lista, n, no)
    BY <2>1 DEF Ordem
  <2>4. ASSUME NEW k \in 1 .. n PROVE Em(k) = {no[k]}
    <3>1. no[k] \in NaTabela /\ numeroSetor[no[k]] = recentes[k]
      BY <2>1, <2>2, <2>3 DEF Ordem, Cadeia
    <3>2. ASSUME NEW d \in NaTabela, numeroSetor[d] = recentes[k] PROVE d = no[k]
      <4>1. PICK e \in hashTable, f \in hashTable : e.desc = d /\ f.desc = no[k]
        BY <3>1, <3>2 DEF NaTabela
      <4>2. e.hash = f.hash
        BY <1>1, <3>1, <3>2, <4>1 DEF IInv, TableRight
      <4>3. e = f
        BY <1>1, <4>2 DEF IInv, TableRight
      <4>4. QED  BY <4>1, <4>3
    <3>3. QED  BY <3>1, <3>2
  <2>5. ASSUME NEW k \in 0 .. n + 1 PROVE Em(k) = {no[k]}
    <3>1. k = 0 \/ k = n + 1 \/ k \in 1 .. n
      BY <2>2
    <3>2. 0 \notin 1 .. n /\ n + 1 \notin 1 .. n
      BY <2>2
    <3>3. no[0] = listaLRU /\ no[n + 1] = listaLRU
      BY <2>3 DEF Cadeia
    <3>4. QED  BY <2>4, <3>1, <3>2, <3>3
  <2> HIDE DEF Em
  <2>6. ASSUME NEW k \in 0 .. n PROVE {lista.next[x] : x \in Em(k)} = Em(k + 1)
    <3>1. k \in 0 .. n + 1 /\ k + 1 \in 0 .. n + 1
      BY <2>2
    <3>2. lista.next[no[k]] = no[k + 1]
      BY <2>3 DEF Cadeia
    <3>3. QED  BY <2>5, <3>1, <3>2
  <2>7. lista.next[listaLivres] = Seguinte(n)
        /\ \A d \in Descritores \ NaTabela : lista.next[d] = Seguinte(d)
    <3>1. \A d \in Descritores \ NaTabela : d \in n + 1 .. quantSetoresCache
      BY <2>2, NodeKinds
    <3>2. QED  BY <2>2, <3>1 DEF Livres
  <2>8. QED  BY <2>2, <2>6, <2>7 DEF LeastRecentEvicted, Em, Seguinte
<1>2. QED  BY <1>1, OrderInvariance, PTL
===============================================================================
