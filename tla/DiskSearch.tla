------------------------------ MODULE DiskSearch --------------------------------
(***************************************************************************)
(* The disk search of 2/: the walk over the image that indexes the words   *)
(* of every file once (scan.c, fileops.c, pathstore.c, index.c), then the  *)
(* queries (disksearch.c). The calls of Scan_TreeAndIndex that have not    *)
(* returned are a stack; each holds an open file of its directory. Sectors *)
(* are read as Disk says, which SectorCache implements for the sectors     *)
(* that the image has, and no file uses any other. Path names stay         *)
(* under MAXPATH: 64 open directories are reached before 1008 characters.  *)
(* The image does not change, so what pathname_lookup says of a path is    *)
(* kept beside it, where the code looks it up again.                       *)
(***************************************************************************)
EXTENDS V6Disk

CONSTANTS MAX_FILES,        \* open files, 64
          MAX_WORD_SIZE,    \* 64
          Letras,           \* the characters isalpha accepts
          Perguntas,        \* words that option -w may ask for
          Consultas,        \* files of words that option -f may name
          NovaLinha,        \* the character at the end of a line
          NULL

\* No file is on a device, and a line has its newline at the end.
ASSUME SearchAssumption ==
  /\ MAX_FILES \in Nat \ {0} /\ MAX_WORD_SIZE \in Nat \ {0}
  /\ Lixo # Erro /\ NovaLinha \notin Letras
  /\ \A par \in Imagens :
       LET a == par.arquivos
       IN \A i \in 1..Len(a) :
            /\ "IFCHR" \in a[i].mode => a[i].dados = <<>>
            /\ \A k \in 1..Len(a[i].dados) : a[i].dados[k] \notin {Erro, NULL}
  /\ \A w \in Perguntas : ESequencia(w)
  /\ \A c \in Consultas :
       /\ ESequencia(c)
       /\ \A n \in 1..Len(c) :
            /\ ESequencia(c[n]) /\ c[n] # <<>>
            /\ \A k \in 1..(Len(c[n]) - 1) : c[n][k] # NovaLinha

VARIABLES discardDups,      \* unless option -u is given
          pathname,         \* the argument of Scan_TreeAndIndex; inumber is its inode
          openFileTable,    \* of the slots in use
          store,            \* elementList, the last element first
          index,            \* the entries, the last one first
          linhas, posLinha,     \* what is left of the file of words, and how much
                            \* of its first line was read
          resposta          \* of QueryWord

disco == <<arquivos, img, lixo, discardDups>>
searchVars == <<disco, pc, pathname, inumber, openFileTable, pilha, store, index, linhas, posLinha,
          resposta>>
perguntas == <<linhas, posLinha, resposta>>

Fds == 0..(MAX_FILES - 1)

\* main, Fileops_init, Pathstore_create and Index_Create
SearchInit ==
  /\ OpenImage /\ discardDups \in BOOLEAN
  /\ pc = IF unixfilesystem_init(img) THEN "scan" ELSE "falha"
  /\ pathname = <<>> /\ inumber = ROOT_INUMBER
  /\ openFileTable = <<>> /\ pilha = <<>>
  /\ store = <<>> /\ index = <<>>
  /\ linhas = <<>> /\ posLinha = 0 /\ resposta = NULL
-------------------------------------------------------------------------------
(* fileops.c *)

SemUso == Fds \ DOMAIN openFileTable

\* The slot that Fileops_open takes.
Slot == Min(SemUso)
Fileops_open ==
  [fd \in DOMAIN openFileTable \cup {Slot} |->
     IF fd = Slot THEN [pathname |-> pathname, cursor |-> 0, inumber |-> inumber]
     ELSE openFileTable[fd]]

\* The character at the cursor; NULL, the -1 of the code, at the end and where
\* there is no inode; Erro if the assertion fails.
Fileops_getchar(i, cursor) ==
  LET ind == inode_iget(img, i)
      lido == file_getblock(img, i, cursor \div DISKIMG_SECTOR_SIZE)
      blockOffset == cursor % DISKIMG_SECTOR_SIZE
  IN IF ind = Erro THEN NULL
     ELSE IF ~Alocado(ind) \/ cursor >= inode_getsize(ind) THEN NULL
     ELSE IF lido.bytes > blockOffset THEN lido.buf[blockOffset + 1]
     ELSE Erro      \* assert(bytesMoved > blockOffset)

\* What getchar returns, one call after the other, before the end.
Caracteres(i) ==
  LET ind == inode_iget(img, i)
      n == IF ind = Erro THEN 0 ELSE IF Alocado(ind) THEN inode_getsize(ind) ELSE 0
  IN [k \in 1..n |-> Fileops_getchar(i, k - 1)]

Fileops_isfile(i) ==
  LET ind == inode_iget(img, i)
  IN IF ind = Erro THEN FALSE ELSE Alocado(ind) /\ IFMT(ind) = {}
-------------------------------------------------------------------------------
(* pathstore.c *)

\* Equal paths are one file. Otherwise both files are opened and compared,
\* when there are two slots.
IsSameFile(chksum, e) ==
  \/ pathname = e.pathname
  \/ /\ chksumfile_compare(chksum, e.chksum)
     /\ \E fd1, fd2 \in SemUso : fd1 # fd2
     /\ Caracteres(inumber) = Caracteres(e.inumber)

SameFileIsInStore ==
  \E e \in Range(store) : IsSameFile(chksumfile_byinumber(img, inumber), e)

Duplicado == discardDups /\ SameFileIsInStore

Pathstore_path ==
  store' = <<[pathname |-> pathname, inumber |-> inumber,
              chksum |-> IF discardDups THEN chksumfile_byinumber(img, inumber)
                         ELSE Lixo]>> \o store
-------------------------------------------------------------------------------
(* scan.c: words are runs of letters, cut after MAX_WORD_SIZE of them. The  *)
(* offset is where Fileops_tell is when the first letter has been read.     *)

\* A mutant: the offset is taken before the letter is read.
BeforeTheLetter(pos) == pos

Fileops_tell(pos) == pos + 1

Cabe(pos) == pos < MAX_WORD_SIZE

\* The elements of s that are in B, in their order.
Escolhidos(s, B) ==
  LET lista[k \in 0..Len(s)] ==
        IF k = 0 THEN <<>>
        ELSE IF s[k] \in B THEN Append(lista[k - 1], s[k]) ELSE lista[k - 1]
  IN lista[Len(s)]

\* The letters of its word read up to the k-th character, itself one of them.
Posicoes(chars) ==
  LET pos[k \in 0..Len(chars)] ==
        IF k = 0 THEN 0
        ELSE IF chars[k] \notin Letras THEN 0
        ELSE IF Cabe(pos[k - 1]) THEN pos[k - 1] + 1 ELSE 1
  IN [k \in 1..(Len(chars) + 1) |-> IF k > Len(chars) THEN 0 ELSE pos[k]]

Palavras(chars) ==
  LET pos == Posicoes(chars)
      fins == Escolhidos([k \in DOMAIN chars |-> k],
                         {k \in DOMAIN chars : pos[k] > 0 /\ pos[k + 1] <= 1})
  IN [n \in DOMAIN fins |->
        LET antes == fins[n] - pos[fins[n]]
        IN [keyword |-> SubSeq(chars, antes + 1, fins[n]), offset |-> Fileops_tell(antes)]]

\* The entries Index_StoreEntry puts in front of the list of their word.
Entradas(palavras) ==
  Reverse([k \in DOMAIN palavras |->
                [keyword |-> palavras[k].keyword, pathname |-> pathname,
                 offset |-> palavras[k].offset]])

\* A file is opened after its path was stored, and closed at its end.
Scan_File ==
  /\ pc = "scan" /\ Fileops_isfile(inumber) /\ pc' = "entradas"
  /\ IF Duplicado
     THEN UNCHANGED <<store, index>>
     ELSE \E chars \in {Caracteres(inumber)} :
            /\ Pathstore_path
            /\ index' = IF SemUso = {} THEN index ELSE Entradas(Palavras(chars)) \o index
  /\ UNCHANGED <<disco, pathname, inumber, openFileTable, pilha, perguntas>>

\* Scan_TreeAndIndex of anything else; the caller ignores that it fails.
Scan_TreeAndIndex ==
  /\ pc = "scan" /\ ~Fileops_isfile(inumber) /\ pc' = "entradas"
  /\ IF SemUso = {}
     THEN UNCHANGED <<openFileTable, pilha>>
     ELSE /\ openFileTable' = Fileops_open
          /\ pilha' = Append(pilha, [pathname |-> pathname, dirfd |-> Slot])
  /\ UNCHANGED <<disco, pathname, inumber, store, index, perguntas>>

Aberto == openFileTable[Last(pilha).dirfd]
Dirent == Fileops_getchar(Aberto.inumber, Aberto.cursor)

Pulado(nome) == Especial(nome)

\* A mutant: a directory is read again and again.
NotAdvanced(aberto) == aberto

Avancado(aberto) == [aberto EXCEPT !.cursor = @ + 1]

\* What pathname_lookup finds for a name in the directory.
Achado(nome) ==
  LET r == directory_findname(img, nome, Aberto.inumber)
  IN IF r # Erro THEN r ELSE IF Aberto.pathname = <<>> THEN lixo ELSE Aberto.inumber

\* The next entry of the innermost directory. Its name is read from a struct
\* of its own, where nothing terminates one of full length.
NextDirent ==
  /\ pc = "entradas" /\ pilha # <<>> /\ Dirent # NULL
  /\ openFileTable' = [openFileTable EXCEPT ![Last(pilha).dirfd] = Avancado(@)]
  /\ IF Pulado(Dirent.d_name) THEN UNCHANGED <<pc, pathname, inumber>>
     ELSE \E resto \in {<<>>, <<Lixo>>} :
            /\ pc' = "scan"
            /\ pathname' = Append(Aberto.pathname, Nome(<<Dirent>>, 1, resto))
            /\ inumber' = Achado(Last(pathname'))
  /\ UNCHANGED <<disco, pilha, store, index, perguntas>>

\* A mutant: the directory is left open.
NotClosed(fd) == openFileTable

Fileops_close(fd) == Restrict(openFileTable, DOMAIN openFileTable \ {fd})

EndDirectory ==
  /\ pc = "entradas" /\ pilha # <<>> /\ Dirent = NULL
  /\ openFileTable' = Fileops_close(Last(pilha).dirfd)
  /\ pilha' = Front(pilha)
  /\ UNCHANGED <<disco, pc, pathname, inumber, store, index, perguntas>>

EndScan ==
  /\ pc = "entradas" /\ pilha = <<>> /\ pc' = "palavra"
  /\ UNCHANGED <<disco, pathname, inumber, openFileTable, pilha, store, index, perguntas>>
-------------------------------------------------------------------------------
(* disksearch.c: main asks for a word, for those of a file, and turns into  *)
(* a server, each if there is an option for it. Lookups that are only timed *)
(* are left out.                                                            *)

construido == <<disco, pathname, inumber, openFileTable, pilha, store, index>>

Index_RetrieveEntry(word) == Escolhidos(index, {e \in Range(index) : e.keyword = word})

QueryWord(word, linha) ==
  resposta' = [word |-> word, linha |-> linha, lista |-> Index_RetrieveEntry(word)]

TestServiceBySingleWord ==
  /\ pc = "palavra" /\ pc' = "arquivo"
  /\ \/ \E word \in Perguntas : QueryWord(word, word)
     \/ UNCHANGED resposta
  /\ UNCHANGED <<construido, linhas, posLinha>>

\* fopen fails, or gives one of the files.
OpenQueryFile ==
  /\ pc = "arquivo" /\ resposta' = NULL
  /\ \/ pc' \in {"servidor", "falha"} /\ UNCHANGED linhas
     \/ pc' = "linhas" /\ linhas' \in Consultas
  /\ UNCHANGED <<construido, posLinha>>

\* A mutant: the buffer has no room for the null byte.
NoRoom == MAX_WORD_SIZE - 1

\* fgets reads one character less than the buffer has.
maxWordSize == MAX_WORD_SIZE

\* The newline is stripped; a line that does not fit goes on with the next call.
Despida(chars) == IF Last(chars) = NovaLinha THEN Front(chars) ELSE chars

TestServiceByFileOfWords ==
  /\ pc = "linhas" /\ linhas # <<>>
  /\ LET linha == Head(linhas)
         fim == Min({Len(linha), posLinha + maxWordSize})
     IN /\ QueryWord(Despida(SubSeq(linha, posLinha + 1, fim)), Despida(linha))
        /\ IF fim = Len(linha) THEN linhas' = Tail(linhas) /\ posLinha' = 0
           ELSE posLinha' = fim /\ UNCHANGED linhas
  /\ UNCHANGED <<construido, pc>>

CloseQueryFile ==
  /\ pc = "linhas" /\ linhas = <<>>
  /\ pc' = "servidor" /\ resposta' = NULL
  /\ UNCHANGED <<construido, linhas, posLinha>>

\* A socket that listens, its address written to the parent; or no server.
ServerMode ==
  /\ pc = "servidor" /\ pc' \in {"accept", "fim"}
  /\ UNCHANGED <<construido, perguntas>>

\* When accept fails the program ends.
Accept ==
  /\ pc = "accept" /\ pc' \in {"cliente", "fim"}
  /\ UNCHANGED <<construido, perguntas>>

\* The index is not asked yet: every client is told so.
ProcessQuery ==
  /\ pc = "cliente" /\ pc' = "accept"
  /\ UNCHANGED <<construido, perguntas>>

SearchExit == pc \in {"fim", "falha"} /\ UNCHANGED searchVars

BuildDiskIndex ==
  Scan_File \/ Scan_TreeAndIndex \/ NextDirent \/ EndDirectory \/ EndScan

TestService ==
  \/ TestServiceBySingleWord \/ OpenQueryFile \/ TestServiceByFileOfWords
  \/ CloseQueryFile \/ ServerMode

SearchMain == BuildDiskIndex \/ TestService

SearchNext == SearchMain \/ Accept \/ ProcessQuery \/ SearchExit

SearchSpec == SearchInit /\ [][SearchNext]_searchVars /\ WF_searchVars(SearchMain)
-------------------------------------------------------------------------------
\* The paths of the regular files of the tree.
Arquivo(p) == arquivos[Destino(arquivos, p)]
Regulares == {p \in Caminhos(arquivos) : Arquivo(p).mode = {"IALLOC"}}

\* The reference: a keyword begins after a whole number of keywords of
\* MAX_WORD_SIZE letters and goes on as far as it can.
Letra(chars, k) == k \in DOMAIN chars /\ chars[k] \in Letras
Corrida(chars, i, j) == \A k \in i..j : Letra(chars, k)
Ocorrencias(chars) ==
  {[keyword |-> SubSeq(chars, o[1], o[2]), offset |-> o[1]] :
     o \in {w \in (DOMAIN chars) \X (DOMAIN chars) :
              /\ w[1] <= w[2] /\ Corrida(chars, w[1], w[2])
              /\ \/ w[2] - w[1] + 1 = MAX_WORD_SIZE
                 \/ w[2] - w[1] + 1 < MAX_WORD_SIZE /\ ~Letra(chars, w[2] + 1)
              /\ \E n \in 0..Len(chars) :
                   LET inicio == w[1] - n * MAX_WORD_SIZE
                   IN /\ inicio > 0 /\ ~Letra(chars, inicio - 1)
                      /\ Corrida(chars, inicio, w[1] - 1)}}
EPalavra(linha, chars) ==
  \E i \in DOMAIN chars :
    LET j == i + Len(linha) - 1
    IN /\ Corrida(chars, i, j) /\ linha = SubSeq(chars, i, j)
       /\ ~Letra(chars, i - 1) /\ ~Letra(chars, j + 1)
EntradasDe(p) ==
  {[keyword |-> o.keyword, pathname |-> p, offset |-> o.offset] :
     o \in Ocorrencias(Arquivo(p).dados)}

SearchTypeOK ==
  /\ pc \in {"scan", "entradas", "palavra", "arquivo", "linhas", "servidor", "accept",
             "cliente", "fim", "falha"}
  /\ DOMAIN openFileTable \subseteq Fds
  /\ \A fd \in DOMAIN openFileTable :
       openFileTable[fd].cursor \in 0..(MaxBlocos * DISKIMG_SECTOR_SIZE)
  /\ \A f \in Range(pilha) : f.dirfd \in Fds
  /\ inumber = pathname_lookup(img, pathname, lixo)

\* The open files are those of the directories being read, each with its own
\* descriptor: none is lost however a directory ends. Types are as they
\* should be, and the walk stays at the file its path names.
FilesHeld ==
  /\ SearchTypeOK
  /\ \A fd \in DOMAIN openFileTable : \E f \in Range(pilha) : f.dirfd = fd
  /\ \A i, j \in DOMAIN pilha : pilha[i].dirfd = pilha[j].dirfd => i = j
  /\ \A f \in Range(pilha) : f.dirfd \in DOMAIN openFileTable
                             /\ openFileTable[f.dirfd].pathname = f.pathname

\* An entry of the index is a word of its file, at its offset, if the blocks
\* of the file can be read, and assert(bytesMoved > blockOffset) holds for
\* every character of every file.
Lida(p) == Legivel(Destino(arquivos, p))
IndexTrue ==
  /\ pathname = <<>> => \A i \in Inumbers : Erro \notin Range(Caracteres(i))
  /\ ~Cortados => \A e \in Range(index) : Lida(e.pathname) => e \in EntradasDe(e.pathname)

\* Duplicates are left out: two files of one content are in the store only
\* when there were less than two slots to compare the later one.
StoredOnce ==
  discardDups /\ ~Cortados =>
    \A i, j \in DOMAIN store :
      /\ i < j /\ Lida(store[i].pathname) /\ Lida(store[j].pathname)
      /\ Arquivo(store[i].pathname).dados = Arquivo(store[j].pathname).dados
      => MAX_FILES - Len(store[i].pathname) < 2

\* When all is scanned every file that could be opened is in the index, with
\* -u, or otherwise a file of the same content, unless the first of them lay
\* too deep to be opened: it is in the store, and its words are nowhere.
Funda(p) == Len(p) >= MAX_FILES
Iguais(p) == {q \in Regulares : Arquivo(q).dados = Arquivo(p).dados}
IndexComplete ==
  pc = "palavra" /\ ~Cortados /\ img.ruins = {} =>
    \A p \in {q \in Regulares : ~Funda(q)} :
      \/ EntradasDe(p) \subseteq Range(index)
      \/ discardDups /\ \E q \in Iguais(p) : EntradasDe(q) \subseteq Range(index) \/ Funda(q)

\* A deleted entry keeps its name, which a later file may take. The scan does
\* not skip it, and goes down that path twice.
Repetidos ==
  \E i \in Inumbers :
    EDiretorio(arquivos[i]) /\ ~IsInjective([k \in DOMAIN arquivos[i].dados |->
                                               arquivos[i].dados[k].d_name])

\* An answer has nothing but places of the word in files that could be
\* opened, once each: with -u all of them; by default all those of each
\* file or of one of the same content, and of that one alone, unless there
\* were less than two slots to compare them, or the one that was stored lay
\* too deep to be opened. A word that is in some file, and is asked for as a
\* line of the file of words, is found however long it is, but for that last
\* case: fgets cuts the line into the pieces that the word was cut into when
\* it was indexed. Option -w does not cut its word: a longer one than
\* MAX_WORD_SIZE is no keyword.
Lugares(p) == {e \in EntradasDe(p) : e.keyword = resposta.word}
QueryRight ==
  resposta # NULL /\ ~Cortados /\ img.ruins = {} =>
    LET abertos == {q \in Regulares : ~Funda(q)}
        achados == ToSet(resposta.lista)
    IN /\ achados \subseteq UNION {Lugares(p) : p \in abertos}
       /\ ~Repetidos => IsInjective(resposta.lista)
       /\ \A p \in abertos :
            \/ Lugares(p) \subseteq achados
            \/ discardDups /\ \E q \in Iguais(p) : Lugares(q) \subseteq achados \/ Funda(q)
       /\ discardDups =>
            \A e, f \in achados :
              e.pathname # f.pathname /\ e.pathname \in Iguais(f.pathname)
              => \E p \in {e.pathname, f.pathname} : MAX_FILES - Len(p) < 2
       /\ \A p \in abertos :
            Len(resposta.word) \in 1..MAX_WORD_SIZE
            /\ EPalavra(resposta.linha, Arquivo(p).dados)
            => \/ resposta.lista # <<>>
               \/ discardDups /\ \E q \in Iguais(p) : Funda(q)

\* The walk ends, also where a name of full length leads back to the
\* directory that it is in: the table of open files bounds it. The program
\* comes to serve or to its end.
Indexed == <>(pc \in {"accept", "fim", "falha"})
===============================================================================
