---------------------------- MODULE DiskSearchProofs -----------------------------
(***************************************************************************)
(* Theorems about DiskSearch for images of every size and layout, tables   *)
(* and buffers of every size.                                              *)
(***************************************************************************)
EXTENDS DiskSearch, DiskImageProofs

\* What is known of the disk, which does not change.
DiscoInv ==
  /\ Valida(arquivos) /\ Formatada(img, arquivos) /\ lixo \in {0, ROOT_INUMBER}
  /\ \A i \in Inumbers :
       /\ EDiretorio(arquivos[i]) => \A r \in 0 .. Regiao - 1 : Bloco(arquivos, i, r) \notin img.ruins
       /\ "IFCHR" \in arquivos[i].mode => arquivos[i].dados = <<>>
       /\ \A k \in 1 .. Len(arquivos[i].dados) : arquivos[i].dados[k] \notin {Erro, NULL}

LEMMA DiskInit == SearchInit => DiscoInv
<1> SUFFICES ASSUME SearchInit PROVE DiscoInv
  OBVIOUS
<1>1. PICK par \in Imagens : /\ arquivos = par.arquivos /\ img.ruins = par.ruins
                             /\ Valida(arquivos) /\ Formatada(img, arquivos)
  BY OpenedImage DEF SearchInit
<1>2. lixo \in {0, ROOT_INUMBER}
  BY DEF SearchInit, OpenImage
<1>3. QED  BY <1>1, <1>2, ImagensAssumption, SearchAssumption DEF DiscoInv, Inumbers

LEMMA SameDisk == [SearchNext]_searchVars => UNCHANGED disco
BY DEF SearchNext, SearchMain, BuildDiskIndex, TestService, Scan_File, Scan_TreeAndIndex,
       NextDirent, EndDirectory, EndScan, TestServiceBySingleWord, OpenQueryFile,
       TestServiceByFileOfWords, CloseQueryFile, ServerMode, Accept, ProcessQuery, SearchExit,
       searchVars, construido, disco

LEMMA DiskStays == DiscoInv /\ UNCHANGED disco => DiscoInv'
BY DEF DiscoInv, disco, Inumbers
-------------------------------------------------------------------------------
\* Inodes and characters.
LEMMA InodeIs ==
  ASSUME DiscoInv, NEW i \in 0 .. Len(arquivos)
  PROVE  /\ inode_iget(img, i) = IF SetorDoInode(i) \in img.ruins THEN Erro ELSE Inode(arquivos, i)
         /\ Inode(arquivos, i) # Erro
<1> DEFINE n == ISize(arquivos) * INODES_POR_SETOR
<1>1. Valida(arquivos) /\ Formatada(img, arquivos)
  BY DEF DiscoInv
<1>2. Len(arquivos) <= n /\ n \in Nat /\ Len(arquivos) \in Nat
  BY <1>1, TableSize, Sizes, Times
<1>3. \A k \in 0 .. n : Inode(arquivos, k) # Erro
  BY <1>1 DEF Valida
<1>4. \A k \in 0 .. n : inode_iget(img, k) =
        IF SetorDoInode(k) \in img.ruins THEN Erro ELSE Inode(arquivos, k)
  BY <1>1, InodeRead
<1> HIDE DEF n
<1>5. i \in 0 .. n
  BY <1>2
<1>6. QED  BY <1>3, <1>4, <1>5

\* How many characters Fileops_getchar gives of an inode.
Tamanho(i) ==
  IF i \in Inumbers /\ SetorDoInode(i) \notin img.ruins
  THEN IF arquivos[i].mode # {} THEN Len(arquivos[i].dados) ELSE 0
  ELSE 0

LEMMA CharRead ==
  ASSUME NEW a, Valida(a), NEW im, Formatada(im, a), NEW i \in 1 .. Len(a), a[i].mode # {},
         SetorDoInode(i) \notin im.ruins, NEW c \in 0 .. Len(a[i].dados) - 1
  PROVE  LET off == c % DISKIMG_SECTOR_SIZE
             lido == file_getblock(im, i, c \div DISKIMG_SECTOR_SIZE)
         IN /\ lido.bytes > off
            /\ \/ lido.buf[off + 1] = a[i].dados[c + 1]
               \/ lido.buf[off + 1] = Lixo /\ Ilegivel(im, a, i)
<1> DEFINE S == DISKIMG_SECTOR_SIZE
           n == Len(a[i].dados)
           b == c \div S
           off == c % S
           x == b * S
           lido == file_getblock(im, i, b)
           bloco == inode_indexlookup(im, Inode(a, i), b)
<1>1. n \in Nat /\ S \in Nat \ {0} /\ c \in Nat /\ c < n
  BY FileFacts, Sizes
<1>2. b \in Nat /\ off \in 0 .. S - 1 /\ c = x + off /\ x \in Nat
  <2>1. c \in Int
    BY <1>1
  <2>2. b \in Int /\ off \in 0 .. S - 1 /\ c = x + off
    BY <1>1, <2>1, DivMod
  <2>3. b >= 0
    <3>1. c >= 0 * S
      BY <1>1
    <3>2. QED  BY <1>1, <2>1, <3>1, DivBounds
  <2>4. x \in Nat
    BY <1>1, <2>2, <2>3, Times
  <2>5. QED  BY <2>2, <2>3, <2>4
<1>3. b \in 0 .. quantBlocos(n) - 1
  <2> DEFINE q == quantBlocos(n)
             y == q * S
  <2>1. q \in Nat /\ n <= y
    BY <1>1, Blocks
  <2>2. q <= b => y <= x
    BY <1>1, <1>2, <2>1, Times
  <2>3. y \in Int
    BY <1>1, <2>1, Times
  <2> HIDE DEF q, y, x, n, b, off
  <2>4. ~(q <= b)
    BY <1>1, <1>2, <2>1, <2>2, <2>3
  <2>5. QED  BY <1>2, <2>1, <2>4 DEF q, n
<1>4. inode_iget(im, i) = Inode(a, i) /\ inode_getsize(Inode(a, i)) = n
  BY Position, InodeRead, SizeRead
<1>5. lido = [bytes |-> IF n % S # 0 /\ n \div S = b THEN n % S ELSE S,
              buf |-> readsector(im, bloco)]
  BY <1>4 DEF file_getblock
<1>6. lido.bytes > off
  <2> DEFINE q == n \div S
             r == n % S
  <2>1. r \in 0 .. S - 1 /\ q \in Int /\ n = q * S + r
    <3>1. n \in Int
      BY <1>1
    <3>2. QED  BY <1>1, <3>1, DivMod
  <2>2. q = b => n = x + r
    BY <2>1
  <2>3. lido.bytes = IF r # 0 /\ q = b THEN r ELSE S
    BY <1>5
  <2> HIDE DEF q, r, x, n, b, off, lido
  <2>4. q = b => off < r
    BY <1>1, <1>2, <2>1, <2>2
  <2>5. QED  BY <1>1, <1>2, <2>1, <2>3, <2>4
<1>7. bloco = Bloco(a, i, b) \/ (bloco = Erro /\ Ilegivel(im, a, i))
  BY <1>3, IndexLookup
<1>8. b \in 0 .. MaxBlocos - 1 /\ b \in 0 .. Regiao - 1
  BY <1>3, FewBlocks
<1>9. off + 1 \in 1 .. S
  BY <1>1, <1>2
<1>10. Falha(im, bloco) => lido.buf[off + 1] = Lixo
  <2>1. lido.buf = readsector(im, bloco)
    BY <1>5
  <2>2. Falha(im, bloco) => readsector(im, bloco) = [k \in 1 .. S |-> Lixo]
    BY DEF readsector
  <2> HIDE DEF bloco, off, lido
  <2>3. QED  BY <2>1, <2>2, <1>9
<1>11. CASE Ilegivel(im, a, i) /\ Falha(im, bloco)
  <2> HIDE DEF bloco, off, lido
  <2>1. QED  BY <1>6, <1>10, <1>11 DEF off, lido, b
<1>12. CASE bloco = Erro \/ Bloco(a, i, b) \in im.ruins
  <2>1. Falha(im, bloco)
    BY <1>7, <1>12 DEF Falha
  <2>2. Ilegivel(im, a, i)
    <3>1. Dados(a) \in Int
      BY <1>1, TableSize DEF Dados, INODE_START_SECTOR
    <3>2. Bloco(a, i, b) \in Int
      <4>1. Regiao \in Nat
        BY Pointers
      <4>2. (i - 1) * Regiao \in Int
        BY <4>1, Times
      <4>3. QED  BY <1>2, <3>1, <4>2 DEF Bloco
    <3>3. CASE Bloco(a, i, b) \in im.ruins
      BY <1>8, <3>3 DEF Ilegivel
    <3>4. CASE bloco = Erro
      BY <1>7, <3>2, <3>4, Sizes
    <3>5. QED  BY <1>12, <3>3, <3>4
  <2>3. QED  BY <1>11, <2>1, <2>2
<1>13. CASE bloco # Erro /\ Bloco(a, i, b) \notin im.ruins
  <2>1. readsector(im, bloco) = SetorDeDados(a, i, b)
    BY <1>7, <1>8, <1>13, BlockRead
  <2>2. b < MaxBlocos
    BY <1>2, <1>8, Sizes
  <2>3. SetorDeDados(a, i, b) = [k \in 1 .. S |-> IF x + k <= n THEN a[i].dados[x + k] ELSE Zeros]
    BY <2>2 DEF SetorDeDados
  <2>4. x + (off + 1) = c + 1 /\ c + 1 <= n
    BY <1>1, <1>2
  <2>5. lido.buf = SetorDeDados(a, i, b)
    BY <1>5, <2>1
  <2> HIDE DEF x, off, b, lido, n
  <2>6. lido.buf[off + 1] = a[i].dados[c + 1]
    BY <1>9, <2>3, <2>4, <2>5
  <2>7. QED  BY <1>6, <2>6 DEF off, lido, b
<1>14. QED  BY <1>12, <1>13

LEMMA SizeIs ==
  ASSUME DiscoInv, NEW i \in 0 .. Len(arquivos)
  PROVE  /\ Tamanho(i) \in Nat /\ Tamanho(i) <= MaxBlocos * DISKIMG_SECTOR_SIZE
         /\ Tamanho(i) # 0 => /\ i \in Inumbers /\ arquivos[i].mode # {}
                              /\ SetorDoInode(i) \notin img.ruins
                              /\ Tamanho(i) = Len(arquivos[i].dados)
<1>1. Valida(arquivos) /\ Len(arquivos) \in Nat
  BY TableSize DEF DiscoInv
<1>2. MaxBlocos * DISKIMG_SECTOR_SIZE \in Nat
  BY Sizes, Times
<1>3. CASE Tamanho(i) = 0
  BY <1>2, <1>3
<1>4. CASE Tamanho(i) # 0
  <2>1. i \in Inumbers /\ arquivos[i].mode # {} /\ SetorDoInode(i) \notin img.ruins
        /\ Tamanho(i) = Len(arquivos[i].dados)
    BY <1>4 DEF Tamanho
  <2>2. QED  BY <1>1, <2>1, FileFacts DEF Inumbers
<1>5. QED  BY <1>3, <1>4

\* The inode that Fileops reads, and the size it finds there.
LEMMA SizeFound ==
  ASSUME DiscoInv, NEW i \in 0 .. Len(arquivos)
  PROVE  LET ind == inode_iget(img, i)
         IN /\ ind # Erro => /\ Alocado(ind) <=> i \in Inumbers /\ arquivos[i].mode # {}
                             /\ SetorDoInode(i) \notin img.ruins
            /\ Tamanho(i) = IF ind = Erro THEN 0
                            ELSE IF Alocado(ind) THEN inode_getsize(ind) ELSE 0
<1> DEFINE ind == inode_iget(img, i)
<1>1. Valida(arquivos) /\ Len(arquivos) \in Nat
  BY TableSize DEF DiscoInv
<1>2. ind = (IF SetorDoInode(i) \in img.ruins THEN Erro ELSE Inode(arquivos, i))
      /\ Inode(arquivos, i) # Erro
  BY InodeIs
<1>3. CASE SetorDoInode(i) \in img.ruins
  BY <1>2, <1>3 DEF Tamanho
<1>4. CASE SetorDoInode(i) \notin img.ruins /\ i \notin Inumbers
  <2>1. Inode(arquivos, i).mode = {}
    BY <1>1, <1>4, Modes DEF Inumbers
  <2>2. ~Alocado(ind)
    BY <1>2, <1>4, <2>1 DEF Alocado
  <2>3. QED  BY <1>2, <1>4, <2>2 DEF Tamanho
<1>5. CASE SetorDoInode(i) \notin img.ruins /\ i \in Inumbers
  <2>1. Alocado(ind) <=> arquivos[i].mode # {}
    BY <1>1, <1>2, <1>5, Modes DEF Inumbers
  <2>2. inode_getsize(ind) = Len(arquivos[i].dados)
    BY <1>1, <1>2, <1>5, SizeRead DEF Inumbers
  <2> HIDE DEF ind
  <2>3. ind # Erro
    BY <1>2, <1>5 DEF ind
  <2>4. Tamanho(i) = IF arquivos[i].mode # {} THEN Len(arquivos[i].dados) ELSE 0
    BY <1>5 DEF Tamanho
  <2>5. QED  BY <1>5, <2>1, <2>2, <2>3, <2>4 DEF ind
<1>6. QED  BY <1>3, <1>4, <1>5

\* A character is that of the file, or what a buffer held that was not filled.
LEMMA CharIs ==
  ASSUME DiscoInv, NEW i \in 0 .. Len(arquivos), NEW c \in Nat
  PROVE  /\ c >= Tamanho(i) => Fileops_getchar(i, c) = NULL
         /\ c < Tamanho(i) => \/ Fileops_getchar(i, c) = arquivos[i].dados[c + 1]
                              \/ /\ Fileops_getchar(i, c) = Lixo
                                 /\ Ilegivel(img, arquivos, i)
<1> DEFINE ind == inode_iget(img, i)
           lido == file_getblock(img, i, c \div DISKIMG_SECTOR_SIZE)
           off == c % DISKIMG_SECTOR_SIZE
<1>1. /\ ind # Erro => /\ Alocado(ind) <=> i \in Inumbers /\ arquivos[i].mode # {}
                       /\ SetorDoInode(i) \notin img.ruins
      /\ Tamanho(i) = IF ind = Erro THEN 0
                      ELSE IF Alocado(ind) THEN inode_getsize(ind) ELSE 0
  BY SizeFound
<1>2. Tamanho(i) \in Nat
  BY SizeIs
<1>3. Fileops_getchar(i, c) =
        IF ind = Erro THEN NULL
        ELSE IF ~Alocado(ind) \/ c >= inode_getsize(ind) THEN NULL
        ELSE IF lido.bytes > off THEN lido.buf[off + 1] ELSE Erro
  BY DEF Fileops_getchar
<1>4. CASE c >= Tamanho(i)
  <2> HIDE DEF ind, lido, off
  <2>1. QED  BY <1>1, <1>2, <1>3, <1>4
<1>5. CASE c < Tamanho(i)
  <2>1. /\ i \in Inumbers /\ arquivos[i].mode # {} /\ SetorDoInode(i) \notin img.ruins
        /\ Tamanho(i) = Len(arquivos[i].dados)
    BY <1>2, <1>5, SizeIs
  <2>2. c \in 0 .. Len(arquivos[i].dados) - 1
    BY <1>2, <1>5, <2>1
  <2>3. Valida(arquivos) /\ Formatada(img, arquivos) /\ i \in 1 .. Len(arquivos)
    BY <2>1 DEF DiscoInv, Inumbers
  <2>4. /\ lido.bytes > off
        /\ \/ lido.buf[off + 1] = arquivos[i].dados[c + 1]
           \/ lido.buf[off + 1] = Lixo /\ Ilegivel(img, arquivos, i)
    BY <2>1, <2>2, <2>3, CharRead
  <2> HIDE DEF ind, lido, off
  <2>5. ind # Erro /\ Alocado(ind) /\ ~(c >= inode_getsize(ind))
    BY <1>1, <1>2, <1>5
  <2>6. QED  BY <1>2, <1>3, <1>5, <2>4, <2>5
<1>6. QED  BY <1>2, <1>4, <1>5

LEMMA CharsRead ==
  ASSUME DiscoInv, NEW i \in 0 .. Len(arquivos)
  PROVE  /\ Caracteres(i) = [k \in 1 .. Tamanho(i) |-> Fileops_getchar(i, k - 1)]
         /\ Erro \notin Range(Caracteres(i))
<1>1. Caracteres(i) = [k \in 1 .. Tamanho(i) |-> Fileops_getchar(i, k - 1)]
  BY SizeFound DEF Caracteres
<1>2. Tamanho(i) \in Nat
  BY SizeIs
<1>3. ASSUME NEW k \in 1 .. Tamanho(i) PROVE Fileops_getchar(i, k - 1) # Erro
  <2>1. k - 1 \in Nat /\ k - 1 < Tamanho(i) /\ (k - 1) + 1 = k
    BY <1>2
  <2>2. Fileops_getchar(i, k - 1) \in {arquivos[i].dados[k], Lixo}
    BY <2>1, CharIs
  <2>3. i \in Inumbers /\ k \in 1 .. Len(arquivos[i].dados)
    BY <1>2, <2>1, SizeIs
  <2>4. arquivos[i].dados[k] # Erro
    BY <2>3 DEF DiscoInv
  <2>5. QED  BY <2>2, <2>4, SearchAssumption
<1> HIDE DEF Caracteres
<1>4. QED  BY <1>1, <1>3 DEF Range

LEMMA FileRead ==
  ASSUME DiscoInv, NEW i \in Inumbers, Legivel(i), arquivos[i].mode # {}
  PROVE  Caracteres(i) = arquivos[i].dados
<1>1. Valida(arquivos) /\ i \in 1 .. Len(arquivos) /\ Len(arquivos) \in Nat
  BY TableSize DEF DiscoInv, Inumbers
<1>2. SetorDoInode(i) \notin img.ruins /\ ~Ilegivel(img, arquivos, i)
  BY DEF Legivel, Setores, SetorDoInode, Ilegivel
<1>3. Tamanho(i) = Len(arquivos[i].dados) /\ i \in 0 .. Len(arquivos)
  BY <1>1, <1>2 DEF Tamanho
<1>4. Tamanho(i) \in Nat
  BY <1>3, SizeIs
<1>5. ASSUME NEW k \in 1 .. Tamanho(i) PROVE Fileops_getchar(i, k - 1) = arquivos[i].dados[k]
  <2>1. k - 1 \in Nat /\ k - 1 < Tamanho(i) /\ (k - 1) + 1 = k
    BY <1>4
  <2>2. QED  BY <1>2, <1>3, <2>1, CharIs
<1>6. Caracteres(i) = [k \in 1 .. Tamanho(i) |-> Fileops_getchar(i, k - 1)]
  BY <1>3, CharsRead
<1>7. arquivos[i].dados = [k \in 1 .. Len(arquivos[i].dados) |-> arquivos[i].dados[k]]
  BY <1>1, FileFacts DEF ESequencia
<1>8. QED  BY <1>3, <1>5, <1>6, <1>7

LEMMA FileIs ==
  ASSUME DiscoInv, NEW i \in 0 .. Len(arquivos)
  PROVE  Fileops_isfile(i) <=> /\ i \in Inumbers /\ arquivos[i].mode = {"IALLOC"}
                               /\ SetorDoInode(i) \notin img.ruins
<1> DEFINE ind == inode_iget(img, i)
<1>1. /\ ind # Erro => /\ Alocado(ind) <=> i \in Inumbers /\ arquivos[i].mode # {}
                       /\ SetorDoInode(i) \notin img.ruins
  BY SizeFound
<1>2. /\ ind = IF SetorDoInode(i) \in img.ruins THEN Erro ELSE Inode(arquivos, i)
      /\ Inode(arquivos, i) # Erro
  BY InodeIs
<1>3. Fileops_isfile(i) <=> ind # Erro /\ Alocado(ind) /\ IFMT(ind) = {}
  BY DEF Fileops_isfile
<1>4. ASSUME i \in Inumbers
      PROVE  /\ IFMT(Inode(arquivos, i)) = arquivos[i].mode \cap {"IFDIR", "IFCHR"}
             /\ arquivos[i].mode \subseteq {"IALLOC", "IFDIR", "IFCHR"}
             /\ arquivos[i].mode # {} => "IALLOC" \in arquivos[i].mode
  <2>1. Valida(arquivos) /\ i \in 1 .. Len(arquivos)
    BY <1>4 DEF DiscoInv, Inumbers
  <2>2. QED  BY <2>1, Modes, FileFacts
<1> HIDE DEF ind
<1>5. QED  BY <1>1, <1>2, <1>3, <1>4

\* What is opened as a directory is one, or nothing is read of it.
LEMMA OpenedIs ==
  ASSUME DiscoInv, NEW i \in 0 .. Len(arquivos), ~Fileops_isfile(i)
  PROVE  /\ Tamanho(i) # 0 => i \in Inumbers /\ EDiretorio(arquivos[i])
         /\ \A c \in Nat :
              /\ Fileops_getchar(i, c) = NULL <=> c >= Tamanho(i)
              /\ c < Tamanho(i) => Fileops_getchar(i, c) = arquivos[i].dados[c + 1]
<1>1. Valida(arquivos) /\ Len(arquivos) \in Nat
  BY TableSize DEF DiscoInv
<1>2. ASSUME Tamanho(i) # 0 PROVE i \in Inumbers /\ EDiretorio(arquivos[i])
  <2>1. /\ i \in Inumbers /\ arquivos[i].mode # {} /\ SetorDoInode(i) \notin img.ruins
        /\ Len(arquivos[i].dados) # 0
    BY <1>2, SizeIs
  <2>2. arquivos[i].mode # {"IALLOC"}
    BY <2>1, FileIs
  <2>3. "IFCHR" \notin arquivos[i].mode
    BY <2>1 DEF DiscoInv
  <2>4. QED  BY <1>1, <2>1, <2>2, <2>3, FileFacts DEF EDiretorio, Inumbers
<1>3. ASSUME NEW c \in Nat, c < Tamanho(i)
      PROVE  Fileops_getchar(i, c) = arquivos[i].dados[c + 1] /\ Fileops_getchar(i, c) # NULL
  <2>1. i \in Inumbers /\ EDiretorio(arquivos[i]) /\ Tamanho(i) = Len(arquivos[i].dados)
        /\ Tamanho(i) \in Nat
    BY <1>2, <1>3, SizeIs
  <2>2. ~Ilegivel(img, arquivos, i)
    BY <2>1 DEF DiscoInv, Ilegivel
  <2>3. Fileops_getchar(i, c) = arquivos[i].dados[c + 1]
    BY <1>3, <2>2, CharIs
  <2>4. c + 1 \in 1 .. Len(arquivos[i].dados)
    BY <1>3, <2>1
  <2>5. QED  BY <2>1, <2>3, <2>4 DEF DiscoInv
<1>4. \A c \in Nat : c >= Tamanho(i) => Fileops_getchar(i, c) = NULL
  BY CharIs
<1>5. Tamanho(i) \in Nat
  BY SizeIs
<1>6. QED  BY <1>2, <1>3, <1>4, <1>5
-------------------------------------------------------------------------------
\* What pathname_lookup holds after each component of a path.
Trilha(p, f) ==
  f = [k \in 0 .. Len(p) |-> IF k = 0 THEN [inode |-> ROOT_INUMBER, ent |-> lixo]
                             ELSE Componente(img, p[k], f[k - 1])]
Restante(p, i) == [inode |-> i, ent |-> IF p = <<>> THEN lixo ELSE i]
Chega(p, i) == \E f : Trilha(p, f) /\ f[Len(p)] = Restante(p, i)

LEMMA TrailIs ==
  ASSUME NEW p, Len(p) \in Nat, NEW f, Trilha(p, f)
  PROVE  pathname_lookup(img, p, lixo) = f[Len(p)].inode
<1> DEFINE n == Len(p)
           w == CHOOSE g : g = [k \in 0 .. n |->
                  IF k = 0 THEN [inode |-> ROOT_INUMBER, ent |-> lixo]
                  ELSE Componente(img, p[k], g[k - 1])]
<1>1. pathname_lookup(img, p, lixo) = w[n].inode
  BY DEF pathname_lookup
<1>2. f = [k \in 0 .. n |-> IF k = 0 THEN [inode |-> ROOT_INUMBER, ent |-> lixo]
                            ELSE Componente(img, p[k], f[k - 1])]
  BY DEF Trilha
<1>3. w = [k \in 0 .. n |-> IF k = 0 THEN [inode |-> ROOT_INUMBER, ent |-> lixo]
                            ELSE Componente(img, p[k], w[k - 1])]
  BY <1>2
<1> HIDE DEF w
<1> DEFINE S == {k \in 0 .. n : w[k] = f[k]}
<1>4. 0 \in S
  BY <1>2, <1>3
<1>5. ASSUME NEW k \in 0 .. n - 1, k \in S PROVE k + 1 \in S
  <2>1. k + 1 \in 0 .. n /\ k + 1 # 0 /\ (k + 1) - 1 = k
    OBVIOUS
  <2>2. w[k + 1] = Componente(img, p[k + 1], w[k])
    BY <1>3, <2>1
  <2>3. f[k + 1] = Componente(img, p[k + 1], f[k])
    BY <1>2, <2>1
  <2>4. QED  BY <1>5, <2>1, <2>2, <2>3
<1>6. \A k \in 0 .. n : k \in S
  <2> HIDE DEF S
  <2>1. QED  BY <1>4, <1>5, UpTo
<1>7. n \in S
  <2> HIDE DEF S
  <2>1. QED  BY <1>6
<1>8. QED  BY <1>1, <1>7

LEMMA TrailAppend ==
  ASSUME NEW T, NEW p \in Seq(T), NEW x \in T, NEW f, Trilha(p, f)
  PROVE  \E g : Trilha(Append(p, x), g) /\ g[Len(p) + 1] = Componente(img, x, f[Len(p)])
<1> DEFINE n == Len(p)
           q == Append(p, x)
           g == [k \in 0 .. n + 1 |-> IF k <= n THEN f[k] ELSE Componente(img, x, f[n])]
           passo(h, k) == IF k = 0 THEN [inode |-> ROOT_INUMBER, ent |-> lixo]
                          ELSE Componente(img, q[k], h[k - 1])
<1>1. n \in Nat /\ Len(q) = n + 1 /\ (\A k \in 1 .. n : q[k] = p[k]) /\ q[n + 1] = x
  BY AppendProperties
<1>2. \A k \in 0 .. n : f[k] = IF k = 0 THEN [inode |-> ROOT_INUMBER, ent |-> lixo]
                               ELSE Componente(img, p[k], f[k - 1])
  BY DEF Trilha
<1> HIDE DEF n, q
<1>3. (\A k \in 0 .. n : g[k] = f[k]) /\ g[n + 1] = Componente(img, x, f[n])
      /\ g = [k \in 0 .. n + 1 |-> g[k]]
  BY <1>1
<1> HIDE DEF g
<1>4. ASSUME NEW k \in 0 .. n + 1 PROVE g[k] = passo(g, k)
  <2>1. CASE k = n + 1
    <3>1. k - 1 = n /\ n \in 0 .. n /\ k # 0
      BY <1>1, <2>1
    <3>2. QED  BY <1>1, <1>3, <2>1, <3>1
  <2>2. CASE k = 0
    <3>1. k \in 0 .. n
      BY <1>1, <2>2
    <3>2. QED  BY <1>2, <1>3, <2>2, <3>1
  <2>3. CASE k \in 1 .. n
    <3>1. k - 1 \in 0 .. n /\ k \in 0 .. n /\ k # 0
      BY <1>1, <2>3
    <3>2. g[k] = Componente(img, p[k], f[k - 1])
      BY <1>2, <1>3, <3>1
    <3>3. q[k] = p[k] /\ g[k - 1] = f[k - 1]
      BY <1>1, <1>3, <2>3, <3>1
    <3>4. QED  BY <3>1, <3>2, <3>3
  <2>4. QED  BY <1>1, <2>1, <2>2, <2>3
<1>5. Trilha(q, g)
  BY <1>1, <1>3, <1>4 DEF Trilha
<1>6. QED  BY <1>3, <1>5 DEF n, q

LEMMA ReachIs ==
  ASSUME NEW p, Len(p) \in Nat, NEW i, Chega(p, i)
  PROVE  pathname_lookup(img, p, lixo) = i
<1>1. PICK f : Trilha(p, f) /\ f[Len(p)] = Restante(p, i)
  BY DEF Chega
<1>2. QED  BY <1>1, TrailIs DEF Restante

LEMMA ReachRoot == Chega(<<>>, ROOT_INUMBER)
<1> DEFINE f == [k \in 0 .. 0 |-> [inode |-> ROOT_INUMBER, ent |-> lixo]]
<1>1. Len(<<>>) = 0 /\ \A k \in 0 .. 0 : k = 0
  OBVIOUS
<1>2. f[0] = Restante(<<>>, ROOT_INUMBER)
  BY DEF Restante
<1>3. Trilha(<<>>, f)
  BY <1>1 DEF Trilha
<1>4. QED  BY <1>1, <1>2, <1>3 DEF Chega

LEMMA ReachAppend ==
  ASSUME NEW T, NEW p \in Seq(T), NEW x \in T, NEW i, Chega(p, i)
  PROVE  LET r == directory_findname(img, x, i)
         IN Chega(Append(p, x), IF r # Erro THEN r ELSE IF p = <<>> THEN lixo ELSE i)
<1> DEFINE r == directory_findname(img, x, i)
           j == IF r # Erro THEN r ELSE IF p = <<>> THEN lixo ELSE i
           q == Append(p, x)
<1>1. PICK f : Trilha(p, f) /\ f[Len(p)] = Restante(p, i)
  BY DEF Chega
<1>2. PICK g : Trilha(q, g) /\ g[Len(p) + 1] = Componente(img, x, f[Len(p)])
  BY <1>1, TrailAppend
<1>3. Componente(img, x, Restante(p, i)) = [inode |-> j, ent |-> j]
  BY DEF Componente, Restante
<1>4. Len(q) = Len(p) + 1 /\ q # <<>>
  BY AppendProperties
<1> HIDE DEF r, j, q
<1>5. Restante(q, j) = [inode |-> j, ent |-> j]
  BY <1>4 DEF Restante
<1>6. g[Len(q)] = Restante(q, j)
  BY <1>1, <1>2, <1>3, <1>4, <1>5
<1>7. Chega(q, j)
  BY <1>2, <1>6 DEF Chega
<1>8. QED  BY <1>7 DEF q, j, r
-------------------------------------------------------------------------------
\* Where the walk is: a path and what pathname_lookup says of it. It is a path
\* of the tree unless a deleted entry, or a name of full length, led there.
Visita(p, i) ==
  /\ p \in Caminhadas(arquivos) /\ i \in 0 .. Len(arquivos) /\ Chega(p, i)
  /\ ~Cortados => i = Destino(arquivos, p) /\ (i # 0 => p \in Caminhos(arquivos))

LEMMA VisitRoot == DiscoInv => Visita(<<>>, ROOT_INUMBER)
<1> SUFFICES ASSUME DiscoInv PROVE Visita(<<>>, ROOT_INUMBER)
  OBVIOUS
<1>1. Valida(arquivos)
  BY DEF DiscoInv
<1>2. Destino(arquivos, <<>>) = ROOT_INUMBER /\ <<>> \in Caminhadas(arquivos)
  BY <1>1, RootDestination
<1>3. ROOT_INUMBER \in 0 .. Len(arquivos) /\ <<>> \in Caminhos(arquivos)
  BY <1>1, TableSize, TreeFacts DEF ROOT_INUMBER
<1>4. QED  BY <1>2, <1>3, ReachRoot DEF Visita

LEMMA PathSize == ASSUME NEW p, NEW i, Visita(p, i) PROVE Len(p) \in Nat
BY DEF Visita, Caminhadas

LEMMA EntryIs ==
  ASSUME DiscoInv, NEW i \in 0 .. Len(arquivos), ~Fileops_isfile(i),
         NEW c \in Nat, c < Tamanho(i)
  PROVE  /\ i \in Inumbers /\ i \in 1 .. Len(arquivos) /\ EDiretorio(arquivos[i])
         /\ c + 1 \in 1 .. Len(arquivos[i].dados)
         /\ Tamanho(i) = Len(arquivos[i].dados)
         /\ Fileops_getchar(i, c) = arquivos[i].dados[c + 1]
         /\ Acessivel(img, arquivos, i)
<1>1. Tamanho(i) \in Nat
  BY SizeIs
<1>2. i \in Inumbers /\ EDiretorio(arquivos[i]) /\ Fileops_getchar(i, c) = arquivos[i].dados[c + 1]
  BY <1>1, OpenedIs
<1>3. Tamanho(i) = Len(arquivos[i].dados) /\ SetorDoInode(i) \notin img.ruins
  BY <1>1, SizeIs
<1>4. Acessivel(img, arquivos, i)
  BY <1>2, <1>3 DEF Acessivel, DiscoInv
<1>5. QED  BY <1>1, <1>2, <1>3, <1>4 DEF Inumbers

LEMMA NameMade ==
  ASSUME NEW T, NEW e, e.d_name \in T, Lixo \in T, NEW resto \in {<<>>, <<Lixo>>}
  PROVE  /\ Nome(<<e>>, 1, resto) \in Seq(T)
         /\ e.d_name \notin Completos => Nome(<<e>>, 1, resto) = <<e.d_name>>
<1>1. <<e>>[1] = e /\ Len(<<e>>) = 1
  OBVIOUS
<1>2. Nome(<<e>>, 1, resto) = IF e.d_name \notin Completos THEN <<e.d_name>> ELSE <<e.d_name>> \o resto
  BY <1>1 DEF Nome
<1>3. <<e.d_name>> \in Seq(T) /\ resto \in Seq(T)
  <2>1. <<e.d_name>> \in Seq(T) /\ <<Lixo>> \in Seq(T)
    OBVIOUS
  <2>2. QED  BY <2>1, EmptySeq
<1>4. <<e.d_name>> \o resto \in Seq(T)
  BY <1>3, ConcatProperties
<1>5. QED  BY <1>2, <1>3, <1>4

LEMMA StepDown ==
  ASSUME DiscoInv, NEW p, NEW i, Visita(p, i), ~Fileops_isfile(i),
         NEW c \in Nat, c < Tamanho(i), NEW resto \in {<<>>, <<Lixo>>},
         ~Especial(Fileops_getchar(i, c).d_name)
  PROVE  LET e == Fileops_getchar(i, c)
             x == Nome(<<e>>, 1, resto)
             r == directory_findname(img, x, i)
             j == IF r # Erro THEN r ELSE IF p = <<>> THEN lixo ELSE i
         IN /\ Visita(Append(p, x), j) /\ Len(Append(p, x)) = Len(p) + 1
            /\ ~Cortados => x = <<e.d_name>>
<1> DEFINE e == Fileops_getchar(i, c)
           x == Nome(<<e>>, 1, resto)
           r == directory_findname(img, x, i)
           j == IF r # Erro THEN r ELSE IF p = <<>> THEN lixo ELSE i
           q == Append(p, x)
           d == e.d_name
           T == Seq(Simbolos(arquivos))
<1>1. Valida(arquivos) /\ Formatada(img, arquivos) /\ lixo \in {0, ROOT_INUMBER}
      /\ Len(arquivos) \in Nat \ {0}
  BY TableSize DEF DiscoInv
<1>2. p \in Seq(T) /\ i \in 0 .. Len(arquivos) /\ Chega(p, i)
  BY DEF Visita, Caminhadas
<1>3. /\ i \in Inumbers /\ i \in 1 .. Len(arquivos) /\ EDiretorio(arquivos[i])
      /\ c + 1 \in 1 .. Len(arquivos[i].dados) /\ e = arquivos[i].dados[c + 1]
      /\ Acessivel(img, arquivos, i)
  BY <1>2, EntryIs
<1>4. x \in T /\ (d \notin Completos => x = <<d>>)
  <2>1. d \in Simbolos(arquivos) /\ Lixo \in Simbolos(arquivos)
    BY <1>1, <1>3, NameIn DEF Simbolos
  <2> HIDE DEF e
  <2>2. QED  BY <2>1, NameMade
<1> HIDE DEF e, x, T
<1>5. q \in Seq(T) /\ Len(q) = Len(p) + 1
  BY <1>2, <1>4, AppendProperties
<1>6. /\ r \in 0 .. Len(arquivos) \/ r = Erro
      /\ \A nome : x = <<nome>> /\ nome \notin Completos /\ Achados(arquivos[i], nome) # {}
                   => r = Filho(arquivos, i, nome) /\ r \in 0 .. Len(arquivos)
  BY <1>1, <1>3, NameSearched
<1>7. j \in 0 .. Len(arquivos)
  BY <1>1, <1>2, <1>6 DEF ROOT_INUMBER
<1>8. Chega(q, j)
  BY <1>2, <1>4, ReachAppend
<1>9. ASSUME ~Cortados
      PROVE  /\ x = <<d>> /\ j = Destino(arquivos, q)
             /\ j # 0 => q \in Caminhos(arquivos)
  <2>1. d \notin Completos
    BY <1>3, <1>9, EntryOfDirectory DEF Cortados
  <2>2. x = <<d>> /\ x[1] = d
    BY <1>4, <2>1
  <2>3. c + 1 \in Achados(arquivos[i], d)
    BY <1>3 DEF Achados
  <2>4. j = Filho(arquivos, i, d)
    <3>1. r = Filho(arquivos, i, d) /\ r \in 0 .. Len(arquivos)
      BY <1>6, <2>1, <2>2, <2>3
    <3> HIDE DEF r
    <3>2. QED  BY <1>1, <3>1, Sizes
  <2>5. Destino(arquivos, p) = i /\ p \in Caminhos(arquivos)
    BY <1>3, <1>9 DEF Visita
  <2>6. Destino(arquivos, q) = j
    BY <1>1, <1>2, <1>4, <2>2, <2>4, <2>5, DestinationAppend
  <2>7. ASSUME j # 0 PROVE q \in Caminhos(arquivos)
    <3> DEFINE A == Achados(arquivos[i], d)
               m == Min(A)
    <3>1. A \subseteq Nat /\ A # {}
      BY <1>3, <2>3 DEF Achados
    <3>2. m \in A
      <4> HIDE DEF A
      <4>1. QED  BY <3>1, MinIs
    <3>3. m \in 1 .. Len(arquivos[i].dados) /\ arquivos[i].dados[m].d_name = d
      BY <3>2 DEF Achados
    <3>4. Filho(arquivos, i, d) = arquivos[i].dados[m].d_inumber
      <4>1. i # 0
        BY <1>3
      <4>2. QED  BY <1>3, <3>1, <4>1 DEF Filho, Achados
    <3>5. Entra(arquivos, i, m)
      <4>1. ~Especial(d)
        BY DEF e
      <4>2. Viva(arquivos[i].dados[m])
        BY <2>4, <2>7, <3>3, <3>4, <4>1 DEF Viva
      <4>3. QED  BY <1>3, <3>3, <4>2 DEF Entra
    <3>6. q \in Abaixo(arquivos, p)
      <4>1. Segundo(arquivos, p, q)
        BY <2>2, <2>5, <3>3, <3>5 DEF Segundo
      <4>2. Len(p) \in Nat
        BY <1>2
      <4>3. QED  BY <1>1, <4>1, <4>2, BelowIs
    <3>7. QED  BY <1>1, <2>5, <3>6, TreeFacts
  <2>8. QED  BY <2>2, <2>6, <2>7
<1>10. Visita(q, j)
  BY <1>5, <1>7, <1>8, <1>9 DEF Visita, Caminhadas, T
<1>11. QED  BY <1>5, <1>9, <1>10 DEF q, j, r, x, e, d
-------------------------------------------------------------------------------
\* The table of open files and the stack of calls.
Chamadas == [pathname : Caminhadas(arquivos), dirfd : Fds]
Aberturas == [pathname : Caminhadas(arquivos), cursor : Nat, inumber : 0 .. Len(arquivos)]
Abertura(o) ==
  /\ o \in Aberturas /\ Visita(o.pathname, o.inumber)
  /\ ~Fileops_isfile(o.inumber) /\ o.cursor <= Tamanho(o.inumber)

BoaTabela(s, t) ==
  /\ s \in Seq(Chamadas) /\ DOMAIN t \subseteq Fds
  /\ IsFiniteSet(DOMAIN t) /\ Cardinality(DOMAIN t) = Len(s)
  /\ \A k \in 1 .. Len(s) :
       /\ s[k].dirfd \in DOMAIN t /\ t[s[k].dirfd].pathname = s[k].pathname
       /\ Len(s[k].pathname) = k - 1
  /\ \A fd \in DOMAIN t : Abertura(t[fd]) /\ \E k \in 1 .. Len(s) : s[k].dirfd = fd
  /\ \A j, k \in 1 .. Len(s) : s[j].dirfd = s[k].dirfd => j = k

LEMMA TableEmpty == BoaTabela(<<>>, <<>>)
<1>1. <<>> \in Seq(Chamadas) /\ Len(<<>>) = 0 /\ DOMAIN <<>> = {}
  BY EmptySeq
<1>2. 1 .. 0 = {}
  OBVIOUS
<1>3. QED  BY <1>1, <1>2, FS_EmptySet DEF BoaTabela

Nova(p, i) == [pathname |-> p, cursor |-> 0, inumber |-> i]

LEMMA TablePush ==
  ASSUME DiscoInv, NEW s, NEW t, BoaTabela(s, t), NEW fd \in Fds \ DOMAIN t,
         NEW p, NEW i, Visita(p, i), ~Fileops_isfile(i), Len(p) = Len(s)
  PROVE  BoaTabela(Append(s, [pathname |-> p, dirfd |-> fd]),
                   [x \in DOMAIN t \cup {fd} |-> IF x = fd THEN Nova(p, i) ELSE t[x]])
<1> DEFINE f == [pathname |-> p, dirfd |-> fd]
           u == [x \in DOMAIN t \cup {fd} |-> IF x = fd THEN Nova(p, i) ELSE t[x]]
           q == Append(s, f)
           n == Len(s)
<1>1. p \in Caminhadas(arquivos) /\ i \in 0 .. Len(arquivos)
  BY DEF Visita
<1>2. s \in Seq(Chamadas) /\ f \in Chamadas
  BY <1>1 DEF BoaTabela, Chamadas
<1>3. /\ q \in Seq(Chamadas) /\ Len(q) = n + 1 /\ n \in Nat
      /\ (\A k \in 1 .. n : q[k] = s[k]) /\ q[n + 1] = f
  BY <1>2, AppendProperties
<1>4. Abertura(Nova(p, i))
  <2>1. Nova(p, i) \in Aberturas
    BY <1>1 DEF Nova, Aberturas
  <2>2. 0 <= Tamanho(i)
    BY <1>1, SizeIs
  <2>3. QED  BY <2>1, <2>2 DEF Abertura, Nova
<1>5. DOMAIN u = DOMAIN t \cup {fd} /\ u[fd] = Nova(p, i) /\ \A x \in DOMAIN t : u[x] = t[x]
  OBVIOUS
<1>6. f.pathname = p /\ f.dirfd = fd
  OBVIOUS
<1>7. IsFiniteSet(DOMAIN u) /\ Cardinality(DOMAIN u) = n + 1 /\ DOMAIN u \subseteq Fds
  BY <1>5, FS_AddElement DEF BoaTabela
<1> HIDE DEF f, u, q
<1>8. \A k \in 1 .. n + 1 : k \in 1 .. n \/ k = n + 1
  BY <1>3
<1>9. ASSUME NEW k \in 1 .. n + 1
      PROVE  /\ q[k].dirfd \in DOMAIN u /\ u[q[k].dirfd].pathname = q[k].pathname
             /\ Len(q[k].pathname) = k - 1
  <2>1. CASE k = n + 1
    BY <1>3, <1>5, <1>6, <2>1 DEF Nova
  <2>2. CASE k \in 1 .. n
    <3>1. /\ s[k].dirfd \in DOMAIN t /\ t[s[k].dirfd].pathname = s[k].pathname
          /\ Len(s[k].pathname) = k - 1
      BY <2>2 DEF BoaTabela
    <3>2. q[k] = s[k]
      BY <1>3, <2>2
    <3>3. QED  BY <1>5, <3>1, <3>2
  <2>3. QED  BY <1>8, <2>1, <2>2
<1>10. ASSUME NEW x \in DOMAIN u
       PROVE  Abertura(u[x]) /\ \E k \in 1 .. n + 1 : q[k].dirfd = x
  <2>1. CASE x = fd
    <3>1. n + 1 \in 1 .. n + 1
      BY <1>3
    <3>2. QED  BY <1>3, <1>4, <1>5, <1>6, <2>1, <3>1
  <2>2. CASE x \in DOMAIN t
    <3>1. PICK k \in 1 .. n : s[k].dirfd = x
      BY <2>2 DEF BoaTabela
    <3>2. k \in 1 .. n + 1 /\ q[k].dirfd = x
      BY <1>3, <3>1
    <3>3. QED  BY <1>5, <2>2, <3>2 DEF BoaTabela
  <2>3. QED  BY <1>5, <2>1, <2>2
<1>11. ASSUME NEW j \in 1 .. n + 1, NEW k \in 1 .. n + 1, q[j].dirfd = q[k].dirfd PROVE j = k
  <2>1. \A m \in 1 .. n : q[m].dirfd \in DOMAIN t
    BY <1>3 DEF BoaTabela
  <2>2. q[n + 1].dirfd \notin DOMAIN t
    BY <1>3, <1>6
  <2>3. CASE j \in 1 .. n /\ k \in 1 .. n
    BY <1>3, <1>11, <2>3 DEF BoaTabela
  <2>4. QED  BY <1>8, <1>11, <2>1, <2>2, <2>3
<1>12. BoaTabela(q, u)
  BY <1>3, <1>7, <1>9, <1>10, <1>11 DEF BoaTabela
<1>13. QED  BY <1>12 DEF q, f, u

LEMMA TableTop ==
  ASSUME NEW s, NEW t, BoaTabela(s, t), s # <<>>
  PROVE  LET f == Last(s)
             o == t[f.dirfd]
         IN /\ Len(s) \in Nat /\ Len(s) >= 1 /\ f = s[Len(s)] /\ f.dirfd \in DOMAIN t
            /\ Abertura(o) /\ o.pathname = f.pathname /\ Len(o.pathname) = Len(s) - 1
<1>1. s \in Seq(Chamadas)
  BY DEF BoaTabela
<1>2. Len(s) \in Nat /\ Len(s) >= 1 /\ Last(s) = s[Len(s)]
  BY <1>1, LastFront
<1>3. Len(s) \in 1 .. Len(s)
  BY <1>2
<1>4. QED  BY <1>2, <1>3 DEF BoaTabela

LEMMA TableAdvance ==
  ASSUME DiscoInv, NEW s, NEW t, BoaTabela(s, t), NEW fd \in DOMAIN t,
         t[fd].cursor < Tamanho(t[fd].inumber)
  PROVE  BoaTabela(s, [t EXCEPT ![fd] = Avancado(@)])
<1> DEFINE o == t[fd]
           v == Avancado(o)
           u == [t EXCEPT ![fd] = Avancado(@)]
<1>1. Abertura(o)
  BY DEF BoaTabela
<1>2. o \in Aberturas
  BY <1>1 DEF Abertura
<1>3. /\ v \in Aberturas /\ v.pathname = o.pathname /\ v.inumber = o.inumber
      /\ v.cursor = o.cursor + 1 /\ o.cursor \in Nat /\ o.inumber \in 0 .. Len(arquivos)
  BY <1>2 DEF Avancado, Aberturas
<1>4. Tamanho(o.inumber) \in Nat
  BY <1>3, SizeIs
<1>5. Abertura(v)
  BY <1>1, <1>3, <1>4 DEF Abertura
<1>6. DOMAIN u = DOMAIN t /\ u[fd] = v /\ \A x \in DOMAIN t : x # fd => u[x] = t[x]
  OBVIOUS
<1> HIDE DEF u, v
<1>7. \A x \in DOMAIN t : Abertura(u[x]) /\ u[x].pathname = t[x].pathname
  BY <1>3, <1>5, <1>6 DEF BoaTabela
<1>8. BoaTabela(s, u)
  BY <1>6, <1>7 DEF BoaTabela
<1>9. QED  BY <1>8 DEF u

LEMMA TablePop ==
  ASSUME NEW s, NEW t, BoaTabela(s, t), s # <<>>
  PROVE  BoaTabela(Front(s), Restrict(t, DOMAIN t \ {Last(s).dirfd}))
<1> DEFINE fd == Last(s).dirfd
           u == Restrict(t, DOMAIN t \ {fd})
           q == Front(s)
           n == Len(s)
<1>1. s \in Seq(Chamadas)
  BY DEF BoaTabela
<1>2. /\ n \in Nat /\ n >= 1 /\ Last(s) = s[n] /\ q \in Seq(Chamadas) /\ Len(q) = n - 1
      /\ \A k \in 1 .. n - 1 : q[k] = s[k] /\ k \in 1 .. n
  BY <1>1, LastFront
<1>3. n \in 1 .. n /\ fd = s[n].dirfd /\ fd \in DOMAIN t
  BY <1>2 DEF BoaTabela
<1>4. DOMAIN u = DOMAIN t \ {fd} /\ \A x \in DOMAIN u : u[x] = t[x]
  BY DEF Restrict
<1>5. IsFiniteSet(DOMAIN u) /\ Cardinality(DOMAIN u) = n - 1 /\ DOMAIN u \subseteq Fds
  <2>1. IsFiniteSet(DOMAIN t) /\ Cardinality(DOMAIN t) = n /\ DOMAIN t \subseteq Fds
    BY DEF BoaTabela
  <2> HIDE DEF u, fd, n
  <2>2. IsFiniteSet(DOMAIN t \ {fd}) /\ Cardinality(DOMAIN t \ {fd}) = Cardinality(DOMAIN t) - 1
    BY <1>3, <2>1, FS_RemoveElement
  <2>3. QED  BY <1>4, <2>1, <2>2
<1> HIDE DEF u, q, fd
<1>6. \A k \in 1 .. n - 1 : q[k].dirfd # fd
  <2>1. \A k \in 1 .. n - 1 : k # n /\ k \in 1 .. n
    BY <1>2
  <2>2. QED  BY <1>2, <1>3, <2>1 DEF BoaTabela
<1>7. ASSUME NEW k \in 1 .. n - 1
      PROVE  /\ q[k].dirfd \in DOMAIN u /\ u[q[k].dirfd].pathname = q[k].pathname
             /\ Len(q[k].pathname) = k - 1
  <2>1. k \in 1 .. n /\ q[k] = s[k]
    BY <1>2
  <2>2. /\ s[k].dirfd \in DOMAIN t /\ t[s[k].dirfd].pathname = s[k].pathname
        /\ Len(s[k].pathname) = k - 1
    BY <2>1 DEF BoaTabela
  <2>3. QED  BY <1>4, <1>6, <2>1, <2>2
<1>8. ASSUME NEW x \in DOMAIN u PROVE Abertura(u[x]) /\ \E k \in 1 .. n - 1 : q[k].dirfd = x
  <2>1. PICK k \in 1 .. n : s[k].dirfd = x
    BY <1>4 DEF BoaTabela
  <2>2. k # n
    BY <1>3, <1>4, <2>1
  <2>3. k \in 1 .. n - 1
    BY <1>2, <2>2
  <2>4. QED  BY <1>2, <1>4, <2>1, <2>3 DEF BoaTabela
<1>9. \A j, k \in 1 .. n - 1 : q[j].dirfd = q[k].dirfd => j = k
  BY <1>2 DEF BoaTabela
<1>10. BoaTabela(q, u)
  BY <1>2, <1>5, <1>7, <1>8, <1>9 DEF BoaTabela
<1>11. QED  BY <1>10 DEF q, u, fd

\* How many slots are left depends on the depth of the walk.
LEMMA FreeSlots ==
  ASSUME NEW s, NEW t, BoaTabela(s, t)
  PROVE  /\ IsFiniteSet(Fds \ DOMAIN t) /\ Len(s) \in Nat /\ Len(s) <= MAX_FILES
         /\ Cardinality(Fds \ DOMAIN t) = MAX_FILES - Len(s)
         /\ Fds \ DOMAIN t = {} <=> Len(s) >= MAX_FILES
<1> DEFINE D == DOMAIN t
           F == Fds \ DOMAIN t
<1>1. IsFiniteSet(D) /\ D \subseteq Fds /\ Cardinality(D) = Len(s) /\ Len(s) \in Nat
  BY DEF BoaTabela
<1>2. MAX_FILES \in Nat \ {0}
  BY SearchAssumption
<1>3. IsFiniteSet(Fds) /\ Cardinality(Fds) = MAX_FILES
  <2>1. MAX_FILES - 1 \in Int /\ ~(0 > MAX_FILES - 1) /\ (MAX_FILES - 1) - 0 + 1 = MAX_FILES
    BY <1>2
  <2>2. QED  BY <2>1, FS_Interval DEF Fds
<1>4. IsFiniteSet(F)
  BY <1>3, FS_Subset
<1>5. Cardinality(D \cup F) = Cardinality(D) + Cardinality(F) - Cardinality(D \cap F)
  <2> HIDE DEF D, F
  <2>1. QED  BY <1>1, <1>4, FS_Union
<1>6. D \cup F = Fds /\ D \cap F = {}
  BY <1>1
<1>7. Cardinality({}) = 0 /\ Cardinality(F) \in Nat /\ (Cardinality(F) = 0 <=> F = {})
  BY <1>4, FS_EmptySet, FS_CardinalityType
<1> HIDE DEF F, D
<1>8. Cardinality(F) = MAX_FILES - Len(s)
  <2>1. Cardinality(Fds) = Cardinality(D) + Cardinality(F) - Cardinality({})
    BY <1>5, <1>6, Zenon
  <2>2. MAX_FILES = Len(s) + Cardinality(F) - 0
    BY <1>1, <1>3, <1>7, <2>1, Zenon
  <2>3. QED  BY <1>1, <1>2, <1>7, <2>2
<1>9. Len(s) <= MAX_FILES /\ (F = {} <=> Len(s) >= MAX_FILES)
  BY <1>1, <1>2, <1>7, <1>8
<1>10. QED  BY <1>1, <1>4, <1>8, <1>9 DEF F

LEMMA WalkStays ==
  ASSUME UNCHANGED disco
  PROVE  /\ Visita(pathname, inumber)' <=> Visita(pathname', inumber')
         /\ BoaTabela(pilha, openFileTable)' <=> BoaTabela(pilha', openFileTable')
<1>1. arquivos' = arquivos /\ img' = img /\ lixo' = lixo
  BY DEF disco
<1>2. Visita(pathname, inumber)' <=> Visita(pathname', inumber')
  BY <1>1 DEF Visita, Chega, Trilha, Restante, Cortados, Nomes, Inumbers
<1>3. ASSUME NEW i PROVE (Fileops_isfile(i)' <=> Fileops_isfile(i)) /\ Tamanho(i)' = Tamanho(i)
  BY <1>1 DEF Fileops_isfile, Tamanho, Inumbers
<1>4. ASSUME NEW p, NEW i PROVE Visita(p, i)' <=> Visita(p, i)
  BY <1>1 DEF Visita, Chega, Trilha, Restante, Cortados, Nomes, Inumbers
<1>5. ASSUME NEW o PROVE Abertura(o)' <=> Abertura(o)
  BY <1>1, <1>3, <1>4 DEF Abertura, Aberturas
<1>6. BoaTabela(pilha, openFileTable)' <=> BoaTabela(pilha', openFileTable')
  <2>1. Chamadas' = Chamadas
    BY <1>1 DEF Chamadas
  <2>2. \A fd : Abertura(openFileTable[fd])' <=> Abertura(openFileTable'[fd])
    BY <1>1, <1>3, <1>4 DEF Abertura, Aberturas
  <2>3. QED  BY <2>1, <2>2 DEF BoaTabela
<1>7. QED  BY <1>2, <1>6

\* The walk holds a slot for each call that has not returned, at its file.
TabelaInv ==
  /\ pc \in {"scan", "entradas", "palavra", "arquivo", "linhas", "servidor", "accept",
             "cliente", "fim", "falha"}
  /\ BoaTabela(pilha, openFileTable) /\ Visita(pathname, inumber)
  /\ pc = "scan" => Len(pathname) = Len(pilha)
  /\ pc \notin {"scan", "entradas"} => pilha = <<>>

LEMMA TableInit == SearchInit => TabelaInv
<1> SUFFICES ASSUME SearchInit PROVE TabelaInv
  OBVIOUS
<1>1. /\ pathname = <<>> /\ inumber = ROOT_INUMBER /\ openFileTable = <<>> /\ pilha = <<>>
      /\ pc \in {"scan", "falha"}
  BY DEF SearchInit
<1>2. Visita(<<>>, ROOT_INUMBER)
  BY DiskInit, VisitRoot
<1>3. QED  BY <1>1, <1>2, TableEmpty DEF TabelaInv

\* The slot that is taken is free.
LEMMA SlotFree ==
  ASSUME SemUso # {}
  PROVE  Slot \in Fds \ DOMAIN openFileTable
<1>1. SemUso \subseteq Nat
  BY SearchAssumption DEF SemUso, Fds
<1>2. Slot \in SemUso
  BY <1>1, MinIs DEF Slot
<1>3. QED  BY <1>2 DEF SemUso

LEMMA TableScan ==
  ASSUME DiscoInv, TabelaInv, Scan_TreeAndIndex
  PROVE  BoaTabela(pilha', openFileTable')
<1>1. Visita(pathname, inumber) /\ BoaTabela(pilha, openFileTable) /\ Len(pathname) = Len(pilha)
      /\ ~Fileops_isfile(inumber)
  BY DEF TabelaInv, Scan_TreeAndIndex
<1>2. CASE SemUso = {}
  BY <1>1, <1>2 DEF Scan_TreeAndIndex
<1>3. CASE SemUso # {}
  <2>1. Slot \in Fds \ DOMAIN openFileTable
    BY <1>3, SlotFree
  <2>2. /\ openFileTable' = [fd \in DOMAIN openFileTable \cup {Slot} |->
                               IF fd = Slot THEN Nova(pathname, inumber) ELSE openFileTable[fd]]
        /\ pilha' = Append(pilha, [pathname |-> pathname, dirfd |-> Slot])
    BY <1>3 DEF Scan_TreeAndIndex, Fileops_open, Nova
  <2>3. QED  BY <1>1, <2>1, <2>2, TablePush
<1>4. QED  BY <1>2, <1>3

\* What the next entry is, and where it leads.
LEMMA EntryRead ==
  ASSUME DiscoInv, TabelaInv, pilha # <<>>, Dirent # NULL
  PROVE  /\ Last(pilha).dirfd \in DOMAIN openFileTable /\ Abertura(Aberto)
         /\ Len(Aberto.pathname) = Len(pilha) - 1 /\ Len(pilha) \in Nat
         /\ Aberto.inumber \in 0 .. Len(arquivos) /\ Aberto.cursor \in Nat
         /\ Aberto.cursor < Tamanho(Aberto.inumber)
         /\ Dirent = Fileops_getchar(Aberto.inumber, Aberto.cursor)
         /\ ~Especial(Dirent.d_name) =>
              \A resto \in {<<>>, <<Lixo>>} :
                LET x == Nome(<<Dirent>>, 1, resto)
                    q == Append(Aberto.pathname, x)
                IN /\ Visita(q, Achado(x)) /\ Len(q) = Len(pilha) /\ Last(q) = x
                   /\ ~Cortados => x = <<Dirent.d_name>>
<1>1. /\ Last(pilha).dirfd \in DOMAIN openFileTable /\ Abertura(Aberto)
      /\ Len(Aberto.pathname) = Len(pilha) - 1 /\ Len(pilha) \in Nat
  BY TableTop DEF TabelaInv, Aberto
<1>2. /\ Aberto.inumber \in 0 .. Len(arquivos) /\ Aberto.cursor \in Nat
      /\ ~Fileops_isfile(Aberto.inumber) /\ Visita(Aberto.pathname, Aberto.inumber)
      /\ Aberto.cursor <= Tamanho(Aberto.inumber)
  BY <1>1 DEF Abertura, Aberturas
<1>3. Tamanho(Aberto.inumber) \in Nat
  BY <1>2, SizeIs
<1>4. Aberto.cursor < Tamanho(Aberto.inumber)
  <2>1. ~(Aberto.cursor >= Tamanho(Aberto.inumber))
    BY <1>2, OpenedIs DEF Dirent
  <2>2. QED  BY <1>2, <1>3, <2>1
<1>5. ASSUME NEW resto \in {<<>>, <<Lixo>>}, ~Especial(Dirent.d_name)
      PROVE  LET x == Nome(<<Dirent>>, 1, resto)
                 q == Append(Aberto.pathname, x)
             IN /\ Visita(q, Achado(x)) /\ Len(q) = Len(pilha) /\ Last(q) = x
                /\ ~Cortados => x = <<Dirent.d_name>>
  <2> DEFINE p == Aberto.pathname
             x == Nome(<<Dirent>>, 1, resto)
             q == Append(p, x)
  <2>1. /\ Visita(q, Achado(x)) /\ Len(q) = Len(p) + 1
        /\ ~Cortados => x = <<Dirent.d_name>>
    <3> DEFINE i == Aberto.inumber
               c == Aberto.cursor
    <3>1. /\ Visita(p, i) /\ ~Fileops_isfile(i) /\ c \in Nat /\ c < Tamanho(i)
          /\ Dirent = Fileops_getchar(i, c)
          /\ Achado(x) = LET r == directory_findname(img, x, i)
                         IN IF r # Erro THEN r ELSE IF p = <<>> THEN lixo ELSE i
      BY <1>2, <1>4 DEF Dirent, Achado
    <3> HIDE DEF p, i, c
    <3>2. ~Especial(Fileops_getchar(i, c).d_name)
      BY <1>5, <3>1
    <3>3. LET e == Fileops_getchar(i, c)
              y == Nome(<<e>>, 1, resto)
              r == directory_findname(img, y, i)
              j == IF r # Erro THEN r ELSE IF p = <<>> THEN lixo ELSE i
          IN /\ Visita(Append(p, y), j) /\ Len(Append(p, y)) = Len(p) + 1
             /\ ~Cortados => y = <<e.d_name>>
      BY <1>5, <3>1, <3>2, StepDown
    <3>4. QED  BY <3>1, <3>3
  <2>2. q[Len(p) + 1] = x
    <3>1. p \in Caminhadas(arquivos)
      BY <1>2 DEF Visita
    <3>2. p \in Seq(Seq(Simbolos(arquivos)))
      BY <3>1 DEF Caminhadas
    <3>3. Len(p) \in Nat
      BY <3>2
    <3>4. p = [k \in 1 .. Len(p) |-> p[k]]
      BY <3>2
    <3> HIDE DEF x
    <3>5. QED  BY <3>2, <3>3, AppendProperties
  <2> HIDE DEF x, q, p
  <2>3. Last(q) = x
    BY <2>1, <2>2 DEF Last
  <2>4. Len(q) = Len(pilha)
    BY <1>1, <2>1 DEF p
  <2>5. QED  BY <2>1, <2>3, <2>4 DEF x, q, p
<1>6. QED  BY <1>1, <1>2, <1>4, <1>5 DEF Dirent

LEMMA TableEntry ==
  ASSUME DiscoInv, TabelaInv, NextDirent
  PROVE  /\ BoaTabela(pilha', openFileTable') /\ Visita(pathname', inumber')
         /\ pc' \in {"scan", "entradas"}
         /\ pc' = "scan" => Len(pathname') = Len(pilha')
<1>1. pilha # <<>> /\ Dirent # NULL /\ pilha' = pilha /\ pc = "entradas"
      /\ openFileTable' = [openFileTable EXCEPT ![Last(pilha).dirfd] = Avancado(@)]
  BY DEF NextDirent
<1>2. /\ Last(pilha).dirfd \in DOMAIN openFileTable
      /\ Aberto.cursor < Tamanho(Aberto.inumber)
      /\ ~Especial(Dirent.d_name) =>
           \A resto \in {<<>>, <<Lixo>>} :
             LET x == Nome(<<Dirent>>, 1, resto)
                 q == Append(Aberto.pathname, x)
             IN Visita(q, Achado(x)) /\ Len(q) = Len(pilha) /\ Last(q) = x
  BY <1>1, EntryRead
<1>3. BoaTabela(pilha, openFileTable) /\ Visita(pathname, inumber)
  BY DEF TabelaInv
<1>4. BoaTabela(pilha', openFileTable')
  BY <1>1, <1>2, <1>3, TableAdvance DEF Aberto
<1>5. CASE Pulado(Dirent.d_name)
  BY <1>1, <1>3, <1>4, <1>5 DEF NextDirent
<1>6. CASE ~Pulado(Dirent.d_name)
  <2>1. PICK resto \in {<<>>, <<Lixo>>} :
          /\ pc' = "scan"
          /\ pathname' = Append(Aberto.pathname, Nome(<<Dirent>>, 1, resto))
          /\ inumber' = Achado(Last(pathname'))
    BY <1>6 DEF NextDirent
  <2> DEFINE x == Nome(<<Dirent>>, 1, resto)
             q == Append(Aberto.pathname, x)
  <2>2. Visita(q, Achado(x)) /\ Len(q) = Len(pilha) /\ Last(q) = x
    BY <1>2, <1>6 DEF Pulado
  <2>3. pathname' = q /\ inumber' = Achado(Last(q))
    BY <2>1
  <2> HIDE DEF q, x
  <2>4. QED  BY <1>1, <1>4, <2>1, <2>2, <2>3
<1>7. QED  BY <1>5, <1>6

LEMMA TableNext == DiscoInv /\ TabelaInv /\ [SearchNext]_searchVars => TabelaInv'
<1> SUFFICES ASSUME DiscoInv, TabelaInv, [SearchNext]_searchVars PROVE TabelaInv'
  OBVIOUS
<1>1. UNCHANGED disco
  BY SameDisk
<1>2. SUFFICES /\ pc' \in {"scan", "entradas", "palavra", "arquivo", "linhas", "servidor",
                           "accept", "cliente", "fim", "falha"}
               /\ BoaTabela(pilha', openFileTable') /\ Visita(pathname', inumber')
               /\ pc' = "scan" => Len(pathname') = Len(pilha')
               /\ pc' \notin {"scan", "entradas"} => pilha' = <<>>
  BY <1>1, WalkStays DEF TabelaInv
<1>3. /\ BoaTabela(pilha, openFileTable) /\ Visita(pathname, inumber)
      /\ pc = "scan" => Len(pathname) = Len(pilha)
      /\ pc \notin {"scan", "entradas"} => pilha = <<>>
      /\ pc \in {"scan", "entradas", "palavra", "arquivo", "linhas", "servidor", "accept",
                 "cliente", "fim", "falha"}
  BY DEF TabelaInv
<1>4. CASE Scan_TreeAndIndex
  BY <1>3, <1>4, TableScan DEF Scan_TreeAndIndex
<1>5. CASE NextDirent
  BY <1>5, TableEntry
<1>6. CASE EndDirectory
  <2>1. /\ openFileTable' = Restrict(openFileTable, DOMAIN openFileTable \ {Last(pilha).dirfd})
        /\ pilha # <<>> /\ pilha' = Front(pilha)
        /\ pc = "entradas" /\ UNCHANGED <<pc, pathname, inumber>>
    BY <1>6 DEF EndDirectory, Fileops_close
  <2>2. QED  BY <1>3, <2>1, TablePop
<1>7. CASE Scan_File
  BY <1>3, <1>7 DEF Scan_File
<1>8. CASE EndScan
  BY <1>3, <1>8 DEF EndScan
<1>9. CASE TestService \/ Accept \/ ProcessQuery
  BY <1>3, <1>9 DEF TestService, Accept, ProcessQuery, TestServiceBySingleWord, OpenQueryFile,
       TestServiceByFileOfWords, CloseQueryFile, ServerMode, construido
<1>10. CASE SearchExit \/ UNCHANGED searchVars
  BY <1>3, <1>10 DEF SearchExit, searchVars
<1>11. QED  BY <1>4, <1>5, <1>6, <1>7, <1>8, <1>9, <1>10
            DEF SearchNext, SearchMain, BuildDiskIndex

LEMMA TableInvariance == SearchSpec => [](DiscoInv /\ TabelaInv)
<1>1. DiscoInv /\ TabelaInv /\ [SearchNext]_searchVars => (DiscoInv /\ TabelaInv)'
  BY SameDisk, DiskStays, TableNext
<1>2. QED  BY DiskInit, TableInit, <1>1, PTL DEF SearchSpec

LEMMA Held == DiscoInv /\ TabelaInv => FilesHeld
<1> SUFFICES ASSUME DiscoInv, TabelaInv PROVE FilesHeld
  OBVIOUS
<1>1. BoaTabela(pilha, openFileTable) /\ Visita(pathname, inumber)
  BY DEF TabelaInv
<1>2. pilha \in Seq(Chamadas)
  BY <1>1 DEF BoaTabela
<1>3. DOMAIN pilha = 1 .. Len(pilha) /\ Len(pilha) \in Nat
      /\ Range(pilha) = {pilha[k] : k \in 1 .. Len(pilha)}
  BY <1>2 DEF Range
<1>4. \A fd \in DOMAIN openFileTable : Abertura(openFileTable[fd])
  BY <1>1 DEF BoaTabela
<1>5. ASSUME NEW fd \in DOMAIN openFileTable
      PROVE  openFileTable[fd].cursor \in 0 .. MaxBlocos * DISKIMG_SECTOR_SIZE
  <2> DEFINE o == openFileTable[fd]
             m == MaxBlocos * DISKIMG_SECTOR_SIZE
  <2>1. o.cursor \in Nat /\ o.inumber \in 0 .. Len(arquivos) /\ o.cursor <= Tamanho(o.inumber)
    BY <1>4 DEF Abertura, Aberturas
  <2>2. Tamanho(o.inumber) \in Nat /\ Tamanho(o.inumber) <= m
    BY <2>1, SizeIs
  <2>3. m \in Nat
    BY Sizes, Times
  <2> HIDE DEF o, m
  <2>4. o.cursor \in 0 .. m
    BY <2>1, <2>2, <2>3
  <2>5. QED  BY <2>4 DEF o, m
<1>6. inumber = pathname_lookup(img, pathname, lixo)
  BY <1>1, PathSize, ReachIs DEF Visita
<1>7. SearchTypeOK
  <2>1. \A f \in Range(pilha) : f.dirfd \in Fds
    BY <1>1, <1>3 DEF BoaTabela
  <2>2. DOMAIN openFileTable \subseteq Fds
    BY <1>1 DEF BoaTabela
  <2>3. QED  BY <1>5, <1>6, <2>1, <2>2 DEF SearchTypeOK, TabelaInv
<1>8. ASSUME NEW fd \in DOMAIN openFileTable PROVE \E f \in Range(pilha) : f.dirfd = fd
  <2>1. PICK k \in 1 .. Len(pilha) : pilha[k].dirfd = fd
    BY <1>1 DEF BoaTabela
  <2>2. QED  BY <1>3, <2>1
<1>9. ASSUME NEW f \in Range(pilha)
      PROVE  f.dirfd \in DOMAIN openFileTable /\ openFileTable[f.dirfd].pathname = f.pathname
  <2>1. PICK k \in 1 .. Len(pilha) : pilha[k] = f
    BY <1>3
  <2>2. QED  BY <1>1, <2>1 DEF BoaTabela
<1>10. \A i, j \in DOMAIN pilha : pilha[i].dirfd = pilha[j].dirfd => i = j
  BY <1>1, <1>3 DEF BoaTabela
<1>11. QED  BY <1>7, <1>8, <1>9, <1>10 DEF FilesHeld

\* The open files are those of the calls that have not returned, each with a
\* slot of its own, and the walk is at the file that its path names.
THEOREM OpenFilesHeld == SearchSpec => []FilesHeld
BY TableInvariance, Held, PTL
-------------------------------------------------------------------------------
\* The elements that Escolhidos takes of a sequence s: r holds those at the
\* places f, all of the first m places that are in B.
Enumera(T, s, B, r, f, m) ==
  /\ r \in Seq(T) /\ f \in [1 .. Len(r) -> 1 .. m]
  /\ \A j \in 1 .. Len(r) : r[j] = s[f[j]] /\ s[f[j]] \in B
  /\ \A i, j \in 1 .. Len(r) : i < j => f[i] < f[j]
  /\ \A k \in 1 .. m : s[k] \in B => \E j \in 1 .. Len(r) : f[j] = k

LEMMA PlaceAdded ==
  ASSUME NEW T, NEW s, NEW B, NEW r, NEW f, NEW m \in Nat, Enumera(T, s, B, r, f, m),
         s[m + 1] \in B, s[m + 1] \in T
  PROVE  \E g : Enumera(T, s, B, Append(r, s[m + 1]), g, m + 1)
<1> DEFINE n == Len(r)
           q == Append(r, s[m + 1])
           g == [j \in 1 .. n + 1 |-> IF j <= n THEN f[j] ELSE m + 1]
<1>1. r \in Seq(T) /\ n \in Nat
  BY DEF Enumera
<1>2. /\ q \in Seq(T) /\ Len(q) = n + 1
      /\ (\A j \in 1 .. n : q[j] = r[j]) /\ q[n + 1] = s[m + 1]
  BY <1>1, AppendProperties
<1>3. f \in [1 .. n -> 1 .. m]
  BY DEF Enumera
<1> HIDE DEF n, q
<1>4. g \in [1 .. n + 1 -> 1 .. m + 1] /\ (\A j \in 1 .. n : g[j] = f[j]) /\ g[n + 1] = m + 1
  BY <1>1, <1>3
<1> HIDE DEF g
<1>5. \A j \in 1 .. n + 1 : j \in 1 .. n \/ j = n + 1
  BY <1>1
<1>6. \A j \in 1 .. n : r[j] = s[f[j]] /\ s[f[j]] \in B
  BY DEF Enumera, n
<1>7. \A j \in 1 .. n + 1 : q[j] = s[g[j]] /\ s[g[j]] \in B
  BY <1>2, <1>4, <1>5, <1>6
<1>8. ASSUME NEW i \in 1 .. n + 1, NEW j \in 1 .. n + 1, i < j PROVE g[i] < g[j]
  <2>1. i \in 1 .. n
    BY <1>1, <1>8
  <2>2. CASE j \in 1 .. n
    BY <1>4, <1>8, <2>1, <2>2 DEF Enumera, n
  <2>3. CASE j = n + 1
    BY <1>3, <1>4, <2>1, <2>3
  <2>4. QED  BY <1>5, <2>2, <2>3
<1>9. ASSUME NEW k \in 1 .. m + 1, s[k] \in B PROVE \E j \in 1 .. n + 1 : g[j] = k
  <2>1. CASE k = m + 1
    <3>1. n + 1 \in 1 .. n + 1
      BY <1>1
    <3>2. QED  BY <1>4, <2>1, <3>1
  <2>2. CASE k \in 1 .. m
    <3>1. PICK j \in 1 .. n : f[j] = k
      BY <1>9, <2>2 DEF Enumera, n
    <3>2. j \in 1 .. n + 1
      BY <1>1
    <3>3. QED  BY <1>4, <3>1, <3>2
  <2>3. QED  BY <2>1, <2>2
<1>10. Enumera(T, s, B, q, g, m + 1)
  BY <1>2, <1>4, <1>7, <1>8, <1>9 DEF Enumera
<1>11. QED  BY <1>10 DEF q

LEMMA PlaceLeft ==
  ASSUME NEW T, NEW s, NEW B, NEW r, NEW f, NEW m \in Nat, Enumera(T, s, B, r, f, m),
         s[m + 1] \notin B
  PROVE  Enumera(T, s, B, r, f, m + 1)
<1>1. \A k \in 1 .. m + 1 : k \in 1 .. m \/ k = m + 1
  OBVIOUS
<1>2. f \in [1 .. Len(r) -> 1 .. m + 1]
  BY DEF Enumera
<1>3. QED  BY <1>1, <1>2 DEF Enumera

LEMMA ChosenIs ==
  ASSUME NEW T, NEW s \in Seq(T), NEW B
  PROVE  \E f : Enumera(T, s, B, Escolhidos(s, B), f, Len(s))
<1> DEFINE n == Len(s)
           h == [x \in (1 .. n) \X Seq(T) |->
                   IF s[x[1]] \in B THEN Append(x[2], s[x[1]]) ELSE x[2]]
           passo(r, k) == IF k = 0 THEN <<>>
                          ELSE IF s[k] \in B THEN Append(r[k - 1], s[k]) ELSE r[k - 1]
           w == CHOOSE r : r = [k \in 0 .. n |->
                  IF k = 0 THEN <<>>
                  ELSE IF s[k] \in B THEN Append(r[k - 1], s[k]) ELSE r[k - 1]]
<1>1. n \in Nat /\ h \in [(1 .. n) \X Seq(T) -> Seq(T)]
  OBVIOUS
<1>2. PICK e \in Seq(T) : e = <<>>
  BY EmptySeq
<1>3. PICK r \in [0 .. n -> Seq(T)] : r[0] = e /\ \A k \in 1 .. n : r[k] = h[<<k, r[k - 1]>>]
  <2>1. PICK g \in [(1 .. n) \X Seq(T) -> Seq(T)] : g = h
    BY <1>1
  <2>2. g \in Steps(n, Seq(T))
    BY DEF Steps
  <2> HIDE DEF n, h
  <2>3. PICK r : Recursive(n, Seq(T), e, g, r)
    BY <1>1, <2>2, Recursion
  <2>4. QED  BY <2>1, <2>3 DEF Recursive
<1>4. \A k \in 0 .. n : r[k] = passo(r, k)
  <2>1. \A k \in 0 .. n : k = 0 \/ k \in 1 .. n
    BY <1>1
  <2>2. ASSUME NEW k \in 1 .. n PROVE r[k] = passo(r, k)
    <3>1. k - 1 \in 0 .. n
      BY <1>1
    <3>2. <<k, r[k - 1]>> \in (1 .. n) \X Seq(T)
      BY <3>1
    <3>3. r[k] = IF s[k] \in B THEN Append(r[k - 1], s[k]) ELSE r[k - 1]
      BY <1>3, <3>2
    <3>4. k # 0
      OBVIOUS
    <3>5. QED  BY <3>3, <3>4
  <2>3. QED  BY <1>2, <1>3, <2>1, <2>2
<1>5. r = [k \in 0 .. n |-> passo(r, k)]
  BY <1>4
<1>6. w = [k \in 0 .. n |-> passo(w, k)]
  BY <1>5
<1>7. Escolhidos(s, B) = w[n]
  BY DEF Escolhidos
<1> HIDE DEF w
<1> DEFINE S == {m \in 0 .. n : \E f : Enumera(T, s, B, w[m], f, m)}
<1>8. 0 \in S
  <2>1. w[0] = <<>>
    BY <1>1, <1>6
  <2>2. Len(w[0]) = 0 /\ w[0] \in Seq(T)
    BY <2>1, EmptySeq
  <2>3. Enumera(T, s, B, w[0], [j \in 1 .. 0 |-> j], 0)
    BY <2>2 DEF Enumera
  <2>4. QED  BY <1>1, <2>3
<1>9. ASSUME NEW m \in 0 .. n - 1, m \in S PROVE m + 1 \in S
  <2>1. m + 1 \in 1 .. n /\ m + 1 \in 0 .. n /\ m + 1 # 0 /\ (m + 1) - 1 = m /\ m \in Nat
    BY <1>1
  <2>2. w[m + 1] = IF s[m + 1] \in B THEN Append(w[m], s[m + 1]) ELSE w[m]
    BY <1>6, <2>1
  <2>3. PICK f : Enumera(T, s, B, w[m], f, m)
    BY <1>9
  <2>4. s[m + 1] \in T
    BY <2>1
  <2>5. \E g : Enumera(T, s, B, w[m + 1], g, m + 1)
    BY <2>1, <2>2, <2>3, <2>4, PlaceAdded, PlaceLeft
  <2>6. QED  BY <2>1, <2>5
<1>10. \A m \in 0 .. n : m \in S
  <2> HIDE DEF S, n
  <2>1. QED  BY <1>1, <1>8, <1>9, UpTo
<1>11. n \in S
  <2> HIDE DEF S
  <2>1. QED  BY <1>1, <1>10
<1>12. QED  BY <1>7, <1>11
-------------------------------------------------------------------------------
\* Words. The k-th character is the p-th letter of its word when a run of
\* letters begins whole words of MAX_WORD_SIZE letters before that word.
Dentro(chars, k, p) ==
  \E n \in Nat : LET inicio == k - p + 1 - n * MAX_WORD_SIZE
                 IN /\ inicio > 0 /\ ~Letra(chars, inicio - 1)
                    /\ Corrida(chars, inicio, k)

LEMMA InsideNext ==
  ASSUME NEW chars, NEW k \in Nat, NEW p \in Nat, p <= MAX_WORD_SIZE, Letra(chars, k + 1),
         IF Letra(chars, k) THEN p >= 1 /\ Dentro(chars, k, p) ELSE p = 0
  PROVE  LET q == IF Cabe(p) THEN p + 1 ELSE 1
         IN q \in 1 .. MAX_WORD_SIZE /\ Dentro(chars, k + 1, q)
<1> DEFINE M == MAX_WORD_SIZE
           q == IF Cabe(p) THEN p + 1 ELSE 1
<1>1. M \in Nat \ {0}
  BY SearchAssumption
<1>2. q \in 1 .. M
  BY <1>1 DEF Cabe
<1>3. CASE ~Letra(chars, k)
  <2>1. q = 1
    BY <1>1, <1>3 DEF Cabe
  <2>2. (k + 1) - 1 + 1 - 0 * M = k + 1 /\ k + 1 > 0 /\ (k + 1) - 1 = k
    BY <1>1
  <2>3. Corrida(chars, k + 1, k + 1)
    <3>1. \A i \in k + 1 .. k + 1 : i = k + 1
      OBVIOUS
    <3>2. QED  BY <3>1 DEF Corrida
  <2>4. Dentro(chars, k + 1, 1)
    BY <1>3, <2>2, <2>3 DEF Dentro
  <2>5. QED  BY <1>2, <2>1, <2>4
<1>4. CASE Letra(chars, k)
  <2>1. PICK n \in Nat : LET inicio == k - p + 1 - n * M
                         IN /\ inicio > 0 /\ ~Letra(chars, inicio - 1)
                            /\ Corrida(chars, inicio, k)
    BY <1>4 DEF Dentro
  <2> DEFINE inicio == k - p + 1 - n * M
  <2>2. n * M \in Nat /\ inicio \in Int
    BY <1>1, Times
  <2>3. inicio > 0 /\ ~Letra(chars, inicio - 1) /\ Corrida(chars, inicio, k)
    BY <2>1
  <2>4. \E m \in Nat : (k + 1) - q + 1 - m * M = inicio
    <3>1. CASE Cabe(p)
      <4>1. (k + 1) - q + 1 - n * M = inicio
        BY <2>2, <3>1
      <4>2. QED  BY <4>1
    <3>2. CASE ~Cabe(p)
      <4>1. p = M /\ q = 1
        BY <1>1, <3>2 DEF Cabe
      <4>2. (n + 1) * M = n * M + M
        BY <1>1
      <4>3. (k + 1) - q + 1 - (n + 1) * M = inicio
        <5> DEFINE x == n * M
                   y == (n + 1) * M
        <5> HIDE DEF x, y
        <5>1. (k + 1) - q + 1 - y = k - p + 1 - x
          BY <1>1, <2>2, <4>1, <4>2 DEF x, y
        <5>2. QED  BY <5>1 DEF x, y
      <4>4. n + 1 \in Nat
        OBVIOUS
      <4>5. QED  BY <4>3, <4>4
    <3>3. QED  BY <3>1, <3>2
  <2> HIDE DEF inicio, q
  <2>5. Corrida(chars, inicio, k + 1)
    <3>1. \A i \in inicio .. k + 1 : i \in inicio .. k \/ i = k + 1
      BY <2>2
    <3>2. QED  BY <2>3, <3>1 DEF Corrida
  <2>6. Dentro(chars, k + 1, q)
    BY <2>3, <2>4, <2>5 DEF Dentro
  <2>7. QED  BY <1>2, <2>6 DEF q
<1>5. QED  BY <1>3, <1>4

\* Posicoes counts the letters of words.
Contadas(chars, pos) ==
  /\ pos \in [1 .. Len(chars) + 1 -> 0 .. MAX_WORD_SIZE]
  /\ \A k \in 1 .. Len(chars) + 1 :
       IF Letra(chars, k) THEN pos[k] >= 1 /\ Dentro(chars, k, pos[k]) ELSE pos[k] = 0
  /\ \A k \in 1 .. Len(chars) :
       pos[k + 1] = IF ~Letra(chars, k + 1) THEN 0 ELSE IF Cabe(pos[k]) THEN pos[k] + 1 ELSE 1

LEMMA PositionsCounted ==
  ASSUME NEW chars, ESequencia(chars)
  PROVE  Contadas(chars, Posicoes(chars))
<1> DEFINE n == Len(chars)
           M == MAX_WORD_SIZE
           T == 0 .. M
           letra(k) == chars[k] \in Letras
           soma(p) == IF Cabe(p) THEN p + 1 ELSE 1
           h == [x \in (1 .. n) \X T |-> IF ~letra(x[1]) THEN 0 ELSE soma(x[2])]
           w == CHOOSE r : r = [k \in 0 .. n |->
                  IF k = 0 THEN 0
                  ELSE IF chars[k] \notin Letras THEN 0
                  ELSE IF Cabe(r[k - 1]) THEN r[k - 1] + 1 ELSE 1]
           pos == Posicoes(chars)
<1>1. n \in Nat /\ M \in Nat \ {0} /\ DOMAIN chars = 1 .. n
  BY SearchAssumption DEF ESequencia
<1>2. \A p \in T : soma(p) \in 1 .. M /\ soma(p) \in T
  BY <1>1 DEF Cabe
<1>3. \A k : Letra(chars, k) <=> k \in 1 .. n /\ letra(k)
  BY <1>1 DEF Letra
<1> HIDE DEF soma, letra
<1>4. PICK g : g = h
  OBVIOUS
<1>5. g \in Steps(n, T)
  <2>1. 0 \in T
    BY <1>1
  <2>2. QED  BY <1>2, <1>4, <2>1 DEF Steps
<1>6. PICK r : Recursive(n, T, 0, g, r)
  <2>1. 0 \in T
    BY <1>1
  <2> HIDE DEF T, n, h
  <2>2. QED  BY <1>1, <1>5, <2>1, Recursion
<1>7. r \in [0 .. n -> T] /\ r[0] = 0 /\ \A k \in 1 .. n : r[k] = g[<<k, r[k - 1]>>]
  BY <1>6 DEF Recursive
<1>8. ASSUME NEW k \in 1 .. n PROVE r[k] = IF ~letra(k) THEN 0 ELSE soma(r[k - 1])
  <2>1. k - 1 \in 0 .. n
    BY <1>1
  <2>2. <<k, r[k - 1]>> \in (1 .. n) \X T
    BY <1>7, <2>1
  <2>3. QED  BY <1>4, <1>7, <2>2
<1>9. r = [k \in 0 .. n |-> IF k = 0 THEN 0 ELSE IF ~letra(k) THEN 0 ELSE soma(r[k - 1])]
  <2>1. \A k \in 0 .. n : k = 0 \/ k \in 1 .. n
    BY <1>1
  <2>2. \A k \in 1 .. n : k # 0
    OBVIOUS
  <2>3. QED  BY <1>7, <1>8, <2>1, <2>2
<1>10. w = [k \in 0 .. n |-> IF k = 0 THEN 0 ELSE IF ~letra(k) THEN 0 ELSE soma(w[k - 1])]
  BY <1>9 DEF letra, soma
<1>11. pos = [k \in 1 .. n + 1 |-> IF k > n THEN 0 ELSE w[k]]
  BY DEF Posicoes
<1> HIDE DEF w
<1> DEFINE Certa(k, p) == /\ p \in T
                          /\ IF Letra(chars, k) THEN p >= 1 /\ Dentro(chars, k, p) ELSE p = 0
           S == {k \in 0 .. n : Certa(k, w[k])}
<1>12. 0 \in S
  BY <1>1, <1>3, <1>10
<1>13. ASSUME NEW k \in 0 .. n - 1, k \in S PROVE k + 1 \in S
  <2>1. k + 1 \in 1 .. n /\ k + 1 \in 0 .. n /\ k + 1 # 0 /\ (k + 1) - 1 = k /\ k \in Nat
    BY <1>1
  <2>2. w[k + 1] = IF ~letra(k + 1) THEN 0 ELSE soma(w[k])
    BY <1>10, <2>1
  <2>3. Certa(k, w[k])
    BY <1>13
  <2>4. CASE ~letra(k + 1)
    BY <1>1, <1>3, <2>1, <2>2, <2>4
  <2>5. CASE letra(k + 1)
    <3>1. w[k] \in Nat /\ w[k] <= M
      BY <1>1, <2>3
    <3>2. Letra(chars, k + 1)
      BY <1>3, <2>1, <2>5
    <3>3. soma(w[k]) \in 1 .. M /\ Dentro(chars, k + 1, soma(w[k]))
      BY <2>1, <2>3, <3>1, <3>2, InsideNext DEF soma
    <3>4. Certa(k + 1, soma(w[k]))
      BY <1>1, <3>2, <3>3
    <3>5. QED  BY <2>1, <2>2, <2>5, <3>4
  <2>6. QED  BY <2>4, <2>5
<1>14. \A k \in 0 .. n : k \in S
  <2> HIDE DEF S
  <2>1. QED  BY <1>1, <1>12, <1>13, UpTo
<1>15. \A k \in 0 .. n : Certa(k, w[k])
  BY <1>14
<1> HIDE DEF S
<1>16. ASSUME NEW k \in 1 .. n + 1 PROVE Certa(k, pos[k])
  <2>1. CASE k \in 1 .. n
    <3>1. pos[k] = w[k] /\ k \in 0 .. n
      BY <1>1, <1>11, <2>1
    <3>2. QED  BY <1>15, <3>1
  <2>2. CASE k = n + 1
    <3>1. pos[k] = 0 /\ ~Letra(chars, k)
      BY <1>1, <1>3, <1>11, <2>2
    <3>2. QED  BY <1>1, <3>1
  <2>3. QED  BY <1>1, <2>1, <2>2
<1>17. ASSUME NEW k \in 1 .. n
       PROVE  pos[k + 1] = IF ~Letra(chars, k + 1) THEN 0 ELSE soma(pos[k])
  <2>1. pos[k] = w[k] /\ k + 1 \in 1 .. n + 1
    BY <1>1, <1>11
  <2>2. CASE k = n
    BY <1>1, <1>3, <1>11, <2>2
  <2>3. CASE k # n
    <3>1. k + 1 \in 0 .. n /\ k + 1 \in 1 .. n /\ k + 1 # 0 /\ (k + 1) - 1 = k /\ ~(k + 1 > n)
      <4> HIDE DEF n
      <4>1. k \in Nat /\ k < n /\ n \in Nat
        BY <1>1, <2>3
      <4>2. QED  BY <4>1
    <3>2. pos[k + 1] = w[k + 1]
      BY <1>11, <2>1, <3>1
    <3>3. w[k + 1] = IF ~letra(k + 1) THEN 0 ELSE soma(w[k])
      BY <1>10, <3>1
    <3>4. QED  BY <1>3, <2>1, <3>1, <3>2, <3>3
  <2>4. QED  BY <2>2, <2>3
<1>18. pos \in [1 .. n + 1 -> T]
  BY <1>11, <1>16
<1> HIDE DEF pos
<1>19. Contadas(chars, pos)
  BY <1>16, <1>17, <1>18 DEF Contadas, soma
<1>20. QED  BY <1>19 DEF pos

\* A word of chars goes from its i-th to its j-th character.
Ocorre(chars, i, j) ==
  /\ i \in DOMAIN chars /\ j \in DOMAIN chars /\ i <= j /\ Corrida(chars, i, j)
  /\ \/ j - i + 1 = MAX_WORD_SIZE
     \/ j - i + 1 < MAX_WORD_SIZE /\ ~Letra(chars, j + 1)
  /\ \E n \in 0 .. Len(chars) :
       LET inicio == i - n * MAX_WORD_SIZE
       IN /\ inicio > 0 /\ ~Letra(chars, inicio - 1) /\ Corrida(chars, inicio, i - 1)

LEMMA EndOccurs ==
  ASSUME NEW chars, ESequencia(chars), NEW pos, Contadas(chars, pos),
         NEW k \in 1 .. Len(chars), pos[k] > 0, pos[k + 1] <= 1
  PROVE  Ocorre(chars, k - pos[k] + 1, k) /\ k - pos[k] \in Nat
<1> DEFINE N == Len(chars)
           M == MAX_WORD_SIZE
           p == pos[k]
           i == k - p + 1
<1>1. N \in Nat /\ DOMAIN chars = 1 .. N /\ M \in Nat \ {0} /\ k \in 1 .. N + 1 /\ k \in Nat
  BY SearchAssumption DEF ESequencia
<1>2. p \in 1 .. M
  BY <1>1 DEF Contadas
<1>3. Letra(chars, k) /\ Dentro(chars, k, p)
  <2>1. IF Letra(chars, k) THEN p >= 1 /\ Dentro(chars, k, p) ELSE p = 0
    BY <1>1 DEF Contadas
  <2>2. QED  BY <1>2, <2>1
<1>4. pos[k + 1] = IF ~Letra(chars, k + 1) THEN 0 ELSE IF Cabe(p) THEN p + 1 ELSE 1
  BY DEF Contadas
<1>5. PICK n \in Nat : LET inicio == k - p + 1 - n * M
                       IN /\ inicio > 0 /\ ~Letra(chars, inicio - 1)
                          /\ Corrida(chars, inicio, k)
  BY <1>3 DEF Dentro
<1> DEFINE x == n * M
           s == k - p + 1 - x
<1>6. x \in Nat /\ n <= x
  <2>1. n * 1 <= n * M
    BY <1>1
  <2>2. QED  BY <1>1, <2>1, Times
<1>7. s > 0 /\ ~Letra(chars, s - 1) /\ Corrida(chars, s, k)
  BY <1>5
<1> HIDE DEF N, M, p, x
<1>8. s \in Int /\ s <= i /\ i <= k /\ i \in 1 .. N /\ i \in Nat /\ s = i - x
  BY <1>1, <1>2, <1>6, <1>7
<1>9. n \in 0 .. N
  BY <1>1, <1>6, <1>7, <1>8
<1> HIDE DEF s
<1>10. Corrida(chars, i, k) /\ Corrida(chars, s, i - 1)
  <2>1. (\A m \in i .. k : m \in s .. k) /\ (\A m \in s .. i - 1 : m \in s .. k)
    BY <1>1, <1>8
  <2> HIDE DEF i
  <2>2. QED  BY <1>7, <2>1 DEF Corrida
<1>11. k - i + 1 = p
  BY <1>1, <1>2
<1>12. p = M \/ (p < M /\ ~Letra(chars, k + 1))
  <2>1. CASE p < M
    <3>1. Cabe(p)
      BY <2>1 DEF Cabe, M
    <3>2. p \in Int /\ p + 1 > 1
      BY <1>1, <1>2
    <3>3. ASSUME Letra(chars, k + 1) PROVE FALSE
      <4>1. pos[k + 1] = p + 1
        BY <1>4, <3>1, <3>3
      <4>2. pos[k + 1] <= 1
        OBVIOUS
      <4>3. QED  BY <3>2, <4>1, <4>2
    <3>4. QED  BY <2>1, <3>3
  <2>2. QED  BY <1>1, <1>2, <2>1
<1> HIDE DEF i
<1>13. Ocorre(chars, i, k)
  <2>1. \E a \in 0 .. N : LET inicio == i - a * M
                          IN /\ inicio > 0 /\ ~Letra(chars, inicio - 1)
                             /\ Corrida(chars, inicio, i - 1)
    <3>1. /\ i - n * M > 0 /\ ~Letra(chars, (i - n * M) - 1)
          /\ Corrida(chars, i - n * M, i - 1)
      BY <1>7, <1>8, <1>10 DEF x
    <3>2. QED  BY <1>9, <3>1
  <2>2. QED  BY <1>1, <1>8, <1>10, <1>11, <1>12, <2>1 DEF Ocorre, M, N
<1>14. k - pos[k] \in Nat
  BY <1>1, <1>2, <1>8 DEF p, i
<1>15. QED  BY <1>13, <1>14 DEF i, p

LEMMA RunBegins ==
  ASSUME NEW chars, NEW s \in Int, NEW t \in Int, NEW k \in Int, s <= k, t <= k,
         ~Letra(chars, s - 1), ~Letra(chars, t - 1), Corrida(chars, s, k), Corrida(chars, t, k)
  PROVE  s = t
<1>1. ASSUME s < t PROVE FALSE
  BY <1>1 DEF Corrida
<1>2. ASSUME t < s PROVE FALSE
  BY <1>2 DEF Corrida
<1>3. QED  BY <1>1, <1>2

LEMMA OccursEnd ==
  ASSUME NEW chars, ESequencia(chars), NEW pos, Contadas(chars, pos), NEW i, NEW k,
         Ocorre(chars, i, k)
  PROVE  k \in 1 .. Len(chars) /\ pos[k] = k - i + 1 /\ pos[k] > 0 /\ pos[k + 1] <= 1
<1> DEFINE N == Len(chars)
           M == MAX_WORD_SIZE
           p == pos[k]
<1>1. N \in Nat /\ DOMAIN chars = 1 .. N /\ M \in Nat \ {0}
  BY SearchAssumption DEF ESequencia
<1>2. i \in 1 .. N /\ k \in 1 .. N /\ k \in 1 .. N + 1 /\ i <= k /\ Corrida(chars, i, k)
  BY <1>1 DEF Ocorre
<1>3. Letra(chars, k)
  BY <1>1, <1>2 DEF Corrida
<1>4. p \in 1 .. M /\ Dentro(chars, k, p)
  <2>1. IF Letra(chars, k) THEN p >= 1 /\ Dentro(chars, k, p) ELSE p = 0
    BY <1>2 DEF Contadas
  <2>2. p \in 0 .. M
    BY <1>2 DEF Contadas
  <2>3. QED  BY <1>1, <1>3, <2>1, <2>2
<1>5. PICK n \in Nat : LET inicio == k - p + 1 - n * M
                       IN /\ inicio > 0 /\ ~Letra(chars, inicio - 1)
                          /\ Corrida(chars, inicio, k)
  BY <1>4 DEF Dentro
<1>6. PICK m \in 0 .. N : LET inicio == i - m * M
                          IN /\ inicio > 0 /\ ~Letra(chars, inicio - 1)
                             /\ Corrida(chars, inicio, i - 1)
  BY DEF Ocorre
<1> DEFINE x == n * M
           y == m * M
           s == k - p + 1 - x
           t == i - y
<1>7. x \in Nat /\ y \in Nat /\ m \in Nat
  BY <1>1, Times
<1>8. n < m => x + M <= y
  BY <1>1, <1>7, Times
<1>9. m < n => y + M <= x
  BY <1>1, <1>7, Times
<1>10. n = m => x = y
  OBVIOUS
<1>11. /\ s > 0 /\ ~Letra(chars, s - 1) /\ Corrida(chars, s, k)
       /\ t > 0 /\ ~Letra(chars, t - 1) /\ Corrida(chars, t, i - 1)
  BY <1>5, <1>6
<1> HIDE DEF x, y, N, M, p
<1>12. s \in Int /\ t \in Int /\ s <= k /\ t <= k /\ k \in Int /\ t <= i /\ i \in Int
  BY <1>1, <1>2, <1>4, <1>7
<1> HIDE DEF s, t
<1>13. Corrida(chars, t, k)
  <2>1. \A c \in t .. k : c \in t .. i - 1 \/ c \in i .. k
    BY <1>12
  <2>2. QED  BY <1>2, <1>11, <2>1 DEF Corrida
<1>14. s = t
  BY <1>11, <1>12, <1>13, RunBegins
<1>15. k - p + 1 - x = i - y
  BY <1>14 DEF s, t
<1>16. k - i + 1 \in 1 .. M
  BY <1>1, <1>2 DEF Ocorre, M
<1>17. p = k - i + 1
  <2>1. n = m
    BY <1>1, <1>2, <1>4, <1>7, <1>8, <1>9, <1>15, <1>16
  <2>2. QED  BY <1>2, <1>4, <1>7, <1>10, <1>15, <2>1
<1>18. pos[k + 1] = IF ~Letra(chars, k + 1) THEN 0 ELSE IF Cabe(p) THEN p + 1 ELSE 1
  BY <1>2 DEF Contadas, p, N
<1>19. p = M \/ ~Letra(chars, k + 1)
  BY <1>17 DEF Ocorre, M
<1>20. pos[k + 1] <= 1
  <2>1. CASE p = M
    <3>1. ~Cabe(p)
      BY <1>1, <2>1 DEF Cabe, M
    <3>2. QED  BY <1>18, <3>1
  <2>2. CASE ~Letra(chars, k + 1)
    BY <1>18, <2>2
  <2>3. QED  BY <1>19, <2>1, <2>2
<1>21. p > 0
  BY <1>1, <1>4
<1>22. QED  BY <1>2, <1>17, <1>20, <1>21 DEF p, N

\* Palavras has each word of the reference, once.
SaoPalavras(chars, P) ==
  /\ \E m \in Nat : P = [n \in 1 .. m |-> P[n]]
  /\ Range(P) = Ocorrencias(chars)
  /\ \A a, b \in DOMAIN P : P[a].offset = P[b].offset => a = b

LEMMA OccurrenceIs ==
  ASSUME NEW chars, NEW w
  PROVE  w \in Ocorrencias(chars) <=>
           \E i, j : Ocorre(chars, i, j) /\ w = [keyword |-> SubSeq(chars, i, j), offset |-> i]
<1> DEFINE D == (DOMAIN chars) \X (DOMAIN chars)
           Palavra(i, j) == [keyword |-> SubSeq(chars, i, j), offset |-> i]
<1>1. Ocorrencias(chars) = {Palavra(o[1], o[2]) : o \in {x \in D : Ocorre(chars, x[1], x[2])}}
  BY DEF Ocorrencias, Ocorre
<1>2. ASSUME w \in Ocorrencias(chars) PROVE \E i, j : Ocorre(chars, i, j) /\ w = Palavra(i, j)
  BY <1>1, <1>2
<1>3. ASSUME NEW i, NEW j, Ocorre(chars, i, j), w = Palavra(i, j) PROVE w \in Ocorrencias(chars)
  <2>1. i \in DOMAIN chars /\ j \in DOMAIN chars
    BY <1>3 DEF Ocorre
  <2>2. PICK o \in D : o = <<i, j>>
    BY <2>1
  <2>3. o[1] = i /\ o[2] = j
    BY <2>2
  <2> HIDE DEF Palavra, D
  <2>4. QED  BY <1>1, <1>3, <2>2, <2>3
<1>4. QED  BY <1>2, <1>3

LEMMA SameEnd ==
  ASSUME NEW chars, ESequencia(chars), NEW i, NEW j, NEW k, Ocorre(chars, i, j), Ocorre(chars, i, k)
  PROVE  j = k
<1> DEFINE M == MAX_WORD_SIZE
<1>1. M \in Nat \ {0} /\ i \in Nat /\ j \in Nat /\ k \in Nat
  <2>1. DOMAIN chars = 1 .. Len(chars) /\ Len(chars) \in Nat
    BY DEF ESequencia
  <2>2. i \in DOMAIN chars /\ j \in DOMAIN chars /\ k \in DOMAIN chars
    BY DEF Ocorre
  <2>3. QED  BY <2>1, <2>2, SearchAssumption
<1>2. /\ i <= j /\ Corrida(chars, i, j)
      /\ j - i + 1 = M \/ (j - i + 1 < M /\ ~Letra(chars, j + 1))
  BY DEF Ocorre
<1>3. /\ i <= k /\ Corrida(chars, i, k)
      /\ k - i + 1 = M \/ (k - i + 1 < M /\ ~Letra(chars, k + 1))
  BY DEF Ocorre
<1> HIDE DEF M
<1>4. ASSUME j < k PROVE FALSE
  <2>1. j + 1 \in i .. k /\ j - i + 1 # M
    BY <1>1, <1>2, <1>3, <1>4
  <2>2. QED  BY <1>2, <1>3, <2>1 DEF Corrida
<1>5. ASSUME k < j PROVE FALSE
  <2>1. k + 1 \in i .. j /\ k - i + 1 # M
    BY <1>1, <1>2, <1>3, <1>5
  <2>2. QED  BY <1>2, <1>3, <2>1 DEF Corrida
<1>6. QED  BY <1>1, <1>4, <1>5

LEMMA WordsFound ==
  ASSUME NEW chars, ESequencia(chars)
  PROVE  SaoPalavras(chars, Palavras(chars))
<1> DEFINE N == Len(chars)
           pos == Posicoes(chars)
           s == [k \in DOMAIN chars |-> k]
           B == {k \in DOMAIN chars : pos[k] > 0 /\ pos[k + 1] <= 1}
           fins == Escolhidos(s, B)
           P == Palavras(chars)
<1>1. N \in Nat /\ DOMAIN chars = 1 .. N
  BY DEF ESequencia
<1>2. s \in Seq(Nat) /\ Len(s) = N /\ \A k \in 1 .. N : s[k] = k
  <2>1. s = [k \in 1 .. N |-> k] /\ s \in [1 .. N -> Nat]
    BY <1>1
  <2>2. QED  BY <1>1, <2>1
<1>3. Contadas(chars, pos)
  BY PositionsCounted
<1>4. PICK f : Enumera(Nat, s, B, fins, f, N)
  <2> HIDE DEF s, B, N
  <2>1. \E f : Enumera(Nat, s, B, Escolhidos(s, B), f, Len(s))
    BY <1>2, ChosenIs
  <2>2. QED  BY <1>2, <2>1
<1> DEFINE M == Len(fins)
<1>5. fins \in Seq(Nat) /\ M \in Nat /\ DOMAIN fins = 1 .. M
  <2> HIDE DEF fins
  <2>1. fins \in Seq(Nat)
    BY <1>4 DEF Enumera
  <2>2. QED  BY <2>1
<1>6. \A n \in 1 .. M : fins[n] \in 1 .. N /\ fins[n] \in B
  <2> HIDE DEF s, B, N, fins
  <2>1. \A n \in 1 .. M : f[n] \in 1 .. N /\ fins[n] = s[f[n]] /\ s[f[n]] \in B
    BY <1>4 DEF Enumera
  <2>2. QED  BY <1>2, <2>1
<1>7. \A a, b \in 1 .. M : fins[a] = fins[b] => a = b
  <2> HIDE DEF s, B, N, fins, M
  <2>1. /\ \A n \in 1 .. M : f[n] \in 1 .. N /\ fins[n] = s[f[n]]
        /\ \A a, b \in 1 .. M : a < b => f[a] < f[b]
    BY <1>4 DEF Enumera, M
  <2>2. \A n \in 1 .. M : fins[n] = f[n] /\ f[n] \in Nat
    BY <1>1, <1>2, <2>1
  <2>3. QED  BY <1>5, <2>1, <2>2
<1>8. \A k \in B : \E n \in 1 .. M : fins[n] = k
  <2>1. \A k \in B : k \in 1 .. N
    BY <1>1
  <2> HIDE DEF s, B, N, fins, M
  <2>2. /\ \A n \in 1 .. M : f[n] \in 1 .. N /\ fins[n] = s[f[n]]
        /\ \A k \in 1 .. N : s[k] \in B => \E n \in 1 .. M : f[n] = k
    BY <1>4 DEF Enumera, M
  <2>3. QED  BY <1>2, <2>1, <2>2
<1>9. P = [n \in DOMAIN fins |->
             [keyword |-> SubSeq(chars, (fins[n] - pos[fins[n]]) + 1, fins[n]),
              offset |-> (fins[n] - pos[fins[n]]) + 1]]
  BY DEF Palavras, Fileops_tell
<1> DEFINE ini(k) == (k - pos[k]) + 1
<1>10. \A n \in 1 .. M : P[n] = [keyword |-> SubSeq(chars, ini(fins[n]), fins[n]),
                                 offset |-> ini(fins[n])]
  <2> HIDE DEF P, fins, M, pos
  <2>1. QED  BY <1>5, <1>9
<1>11. P = [n \in 1 .. M |-> P[n]] /\ DOMAIN P = 1 .. M
  <2> HIDE DEF P, fins, M, pos
  <2>1. QED  BY <1>5, <1>9
<1>12. \A k \in 1 .. N : k \in B <=> pos[k] > 0 /\ pos[k + 1] <= 1
  BY <1>1
<1>13. \A k \in 1 .. N : k \in B => Ocorre(chars, ini(k), k)
  <2>1. ASSUME NEW k \in 1 .. N, k \in B PROVE Ocorre(chars, ini(k), k)
    <3>1. pos[k] > 0 /\ pos[k + 1] <= 1
      BY <1>12, <2>1
    <3> HIDE DEF pos, B
    <3>2. QED  BY <1>3, <2>1, <3>1, EndOccurs
  <2>2. QED  BY <2>1
<1>14. \A i, k : Ocorre(chars, i, k) => k \in 1 .. N /\ k \in B /\ ini(k) = i
  <2>1. ASSUME NEW i, NEW k, Ocorre(chars, i, k) PROVE k \in 1 .. N /\ k \in B /\ ini(k) = i
    <3>1. k \in 1 .. N /\ pos[k] = k - i + 1 /\ pos[k] > 0 /\ pos[k + 1] <= 1
      <4> HIDE DEF pos
      <4>1. QED  BY <1>3, <2>1, OccursEnd
    <3>2. k \in B
      BY <1>12, <3>1
    <3>3. i \in Int
      BY <1>1, <2>1 DEF Ocorre
    <3> HIDE DEF pos, B
    <3>4. ini(k) = i
      BY <3>1, <3>3
    <3>5. QED  BY <3>1, <3>2, <3>4
  <2>2. QED  BY <2>1
<1> HIDE DEF P, fins, M, pos, B, s, N
<1>15. ASSUME NEW w PROVE w \in Range(P) <=> w \in Ocorrencias(chars)
  <2>1. ASSUME w \in Range(P) PROVE w \in Ocorrencias(chars)
    <3>1. PICK n \in 1 .. M : w = P[n]
      BY <1>11, <2>1 DEF Range
    <3>2. Ocorre(chars, ini(fins[n]), fins[n])
      BY <1>6, <1>13
    <3> HIDE DEF ini
    <3>3. w = [keyword |-> SubSeq(chars, ini(fins[n]), fins[n]), offset |-> ini(fins[n])]
      BY <1>10, <3>1
    <3>4. QED  BY <3>2, <3>3, OccurrenceIs
  <2>2. ASSUME w \in Ocorrencias(chars) PROVE w \in Range(P)
    <3>1. PICK i, j : Ocorre(chars, i, j) /\ w = [keyword |-> SubSeq(chars, i, j), offset |-> i]
      BY <2>2, OccurrenceIs
    <3>2. j \in B /\ ini(j) = i
      BY <1>14, <3>1
    <3>3. PICK n \in 1 .. M : fins[n] = j
      BY <1>8, <3>2
    <3>4. P[n] = w
      BY <1>10, <3>1, <3>2, <3>3
    <3>5. QED  BY <1>11, <3>4 DEF Range
  <2>3. QED  BY <2>1, <2>2
<1>16. ASSUME NEW a \in 1 .. M, NEW b \in 1 .. M, P[a].offset = P[b].offset PROVE a = b
  <2> DEFINE j == fins[a]
             k == fins[b]
  <2>1. Ocorre(chars, ini(j), j) /\ Ocorre(chars, ini(k), k)
    BY <1>6, <1>13
  <2> HIDE DEF ini
  <2>2. ini(j) = ini(k)
    <3>1. ASSUME NEW n \in 1 .. M PROVE P[n].offset = ini(fins[n])
      <4> DEFINE palavra == [keyword |-> SubSeq(chars, ini(fins[n]), fins[n]),
                             offset |-> ini(fins[n])]
      <4>1. palavra.offset = ini(fins[n])
        OBVIOUS
      <4> HIDE DEF palavra
      <4>2. P[n] = palavra
        BY <1>10 DEF palavra
      <4>3. QED  BY <4>1, <4>2
    <3>2. P[a].offset = ini(fins[a]) /\ P[b].offset = ini(fins[b])
      BY <3>1, Zenon
    <3>3. QED  BY <1>16, <3>2, Zenon
  <2>3. j = k
    BY <2>1, <2>2, SameEnd
  <2>4. QED  BY <1>7, <2>3
<1>17. \E m \in Nat : P = [n \in 1 .. m |-> P[n]]
  BY <1>5, <1>11
<1>18. SaoPalavras(chars, P)
  BY <1>11, <1>15, <1>16, <1>17 DEF SaoPalavras
<1>19. QED  BY <1>18 DEF P
-------------------------------------------------------------------------------
\* Entries of the index.
LEMMA Prepended ==
  ASSUME NEW s, ESequencia(s), NEW t, ESequencia(t)
  PROVE  /\ ESequencia(s \o t) /\ Range(s \o t) = Range(s) \cup Range(t)
         /\ Len(s \o t) = Len(s) + Len(t)
         /\ \A k \in 1 .. Len(s) : (s \o t)[k] = s[k]
         /\ \A k \in 1 .. Len(t) : (s \o t)[Len(s) + k] = t[k]
<1> DEFINE m == Len(s)
           n == Len(t)
           T == Range(s) \cup Range(t)
           u == s \o t
<1>1. m \in Nat /\ n \in Nat /\ s = [k \in 1 .. m |-> s[k]] /\ t = [k \in 1 .. n |-> t[k]]
  BY DEF ESequencia
<1>2. DOMAIN s = 1 .. m /\ DOMAIN t = 1 .. n
  BY <1>1
<1>3. s \in Seq(T) /\ t \in Seq(T)
  <2>1. (\A k \in 1 .. m : s[k] \in T) /\ \A k \in 1 .. n : t[k] \in T
    BY <1>2 DEF Range
  <2> HIDE DEF T, m, n
  <2>2. s \in [1 .. m -> T] /\ t \in [1 .. n -> T]
    BY <1>1, <2>1
  <2>3. QED  BY <1>1, <2>2, IsASeq
<1> HIDE DEF T
<1>4. u \in Seq(T) /\ Len(u) = m + n
  BY <1>3, ConcatProperties
<1>5. \A k \in 1 .. m + n : u[k] = IF k <= m THEN s[k] ELSE t[k - m]
  BY <1>3, ConcatProperties
<1> HIDE DEF m, n, u
<1>6. ESequencia(u) /\ DOMAIN u = 1 .. m + n
  BY <1>1, <1>4 DEF ESequencia
<1>7. \A k \in 1 .. m : k \in 1 .. m + n /\ u[k] = s[k]
  <2>1. ASSUME NEW k \in 1 .. m PROVE k \in 1 .. m + n /\ k <= m
    BY <1>1
  <2>2. QED  BY <1>5, <2>1
<1>8. \A k \in 1 .. n : m + k \in 1 .. m + n /\ u[m + k] = t[k]
  <2>1. ASSUME NEW k \in 1 .. n PROVE m + k \in 1 .. m + n /\ ~(m + k <= m) /\ (m + k) - m = k
    BY <1>1
  <2>2. QED  BY <1>5, <2>1
<1>9. Range(u) = Range(s) \cup Range(t)
  <2>1. ASSUME NEW k \in 1 .. m + n PROVE u[k] \in Range(s) \cup Range(t)
    <3>1. CASE k <= m
      <4>1. k \in 1 .. m
        BY <1>1, <3>1
      <4>2. QED  BY <1>2, <1>7, <4>1 DEF Range
    <3>2. CASE ~(k <= m)
      <4>1. k - m \in 1 .. n
        BY <1>1, <3>2
      <4>2. QED  BY <1>2, <1>5, <3>2, <4>1 DEF Range
    <3>3. QED  BY <3>1, <3>2
  <2>2. Range(u) \subseteq Range(s) \cup Range(t)
    BY <1>6, <2>1 DEF Range
  <2>3. Range(s) \cup Range(t) \subseteq Range(u)
    BY <1>2, <1>6, <1>7, <1>8 DEF Range
  <2>4. QED  BY <2>2, <2>3
<1>10. QED  BY <1>4, <1>6, <1>7, <1>8, <1>9 DEF m, n, u

\* The entry of a word in the file at a path.
Entrada(w, p) == [keyword |-> w.keyword, pathname |-> p, offset |-> w.offset]

LEMMA EntriesMade ==
  ASSUME NEW chars, ESequencia(chars)
  PROVE  LET E == Entradas(Palavras(chars))
         IN /\ ESequencia(E)
            /\ Range(E) = {Entrada(w, pathname) : w \in Ocorrencias(chars)}
            /\ \A a, b \in DOMAIN E : E[a] = E[b] => a = b
<1> DEFINE P == Palavras(chars)
           E == Entradas(P)
<1>1. SaoPalavras(chars, P)
  BY WordsFound
<1> HIDE DEF P
<1>2. PICK m \in Nat : P = [n \in 1 .. m |-> P[n]]
  BY <1>1 DEF SaoPalavras
<1>3. DOMAIN P = 1 .. m
  BY <1>2
<1> DEFINE Q == [k \in 1 .. m |-> Entrada(P[k], pathname)]
<1>4. E = [k \in 1 .. m |-> Q[(m - k) + 1]]
  <2>1. Len(Q) = m
    OBVIOUS
  <2>2. E = Reverse(Q)
    BY <1>3 DEF Entradas, Entrada
  <2> HIDE DEF E, Q
  <2>3. QED  BY <2>1, <2>2 DEF Reverse
<1>5. \A k \in 1 .. m : (m - k) + 1 \in 1 .. m
  BY <1>2
<1> HIDE DEF E
<1>6. \A k \in 1 .. m : E[k] = Entrada(P[(m - k) + 1], pathname)
  BY <1>4, <1>5
<1>7. E = [k \in 1 .. m |-> E[k]]
  BY <1>4
<1>8. ESequencia(E) /\ DOMAIN E = 1 .. m
  <2>1. Len(E) = m
    BY <1>7
  <2>2. QED  BY <1>7, <2>1 DEF ESequencia
<1>9. \A n \in 1 .. m : (m - ((m - n) + 1)) + 1 = n
  BY <1>2
<1>10. Range(E) = {Entrada(w, pathname) : w \in Ocorrencias(chars)}
  <2>1. Range(E) = {E[k] : k \in 1 .. m} /\ Range(P) = {P[k] : k \in 1 .. m}
    BY <1>3, <1>8 DEF Range
  <2>2. \A n \in 1 .. m : Entrada(P[n], pathname) = E[(m - n) + 1]
    BY <1>5, <1>6, <1>9
  <2>3. Range(E) = {Entrada(w, pathname) : w \in Range(P)}
    BY <1>5, <1>6, <2>1, <2>2
  <2>4. QED  BY <1>1, <2>3 DEF SaoPalavras
<1>11. ASSUME NEW a \in 1 .. m, NEW b \in 1 .. m, E[a] = E[b] PROVE a = b
  <2>1. (m - a) + 1 \in 1 .. m /\ (m - b) + 1 \in 1 .. m
    BY <1>2
  <2>2. \A w : Entrada(w, pathname).offset = w.offset
    BY DEF Entrada
  <2>3. P[(m - a) + 1].offset = P[(m - b) + 1].offset
    BY <1>6, <1>11, <2>2
  <2>4. (m - a) + 1 = (m - b) + 1
    BY <1>1, <1>3, <2>1, <2>3 DEF SaoPalavras
  <2>5. QED  BY <1>2, <2>4
<1>12. QED  BY <1>8, <1>10, <1>11 DEF E, P
-------------------------------------------------------------------------------
\* The store and the index.
LEMMA RegularVisit ==
  ASSUME DiscoInv, NEW p, NEW i, Visita(p, i), Fileops_isfile(i)
  PROVE  /\ i \in Inumbers /\ i \in 0 .. Len(arquivos) /\ arquivos[i].mode = {"IALLOC"}
         /\ Legivel(i) => /\ Caracteres(i) = arquivos[i].dados
                          /\ chksumfile_byinumber(img, i) = arquivos[i].dados
         /\ ~Cortados => /\ i = Destino(arquivos, p) /\ p \in Regulares
                         /\ Arquivo(p) = arquivos[i] /\ (Lida(p) <=> Legivel(i))
<1>1. i \in 0 .. Len(arquivos)
  BY DEF Visita
<1>2. i \in Inumbers /\ arquivos[i].mode = {"IALLOC"}
  BY <1>1, FileIs
<1>3. ASSUME Legivel(i)
      PROVE  Caracteres(i) = arquivos[i].dados /\ chksumfile_byinumber(img, i) = arquivos[i].dados
  <2>1. arquivos[i].mode # {}
    BY <1>2
  <2>2. Caracteres(i) = arquivos[i].dados
    BY <1>2, <1>3, <2>1, FileRead
  <2>3. Valida(arquivos) /\ Formatada(img, arquivos) /\ i \in 1 .. Len(arquivos)
    BY <1>2 DEF DiscoInv, Inumbers
  <2>4. Acessivel(img, arquivos, i)
    BY <1>2, <1>3, Readable
  <2>5. QED  BY <2>1, <2>2, <2>3, <2>4, ChksumRight
<1>4. ASSUME ~Cortados
      PROVE  /\ i = Destino(arquivos, p) /\ p \in Regulares
             /\ Arquivo(p) = arquivos[i] /\ (Lida(p) <=> Legivel(i))
  <2>1. i # 0
    BY <1>2 DEF Inumbers
  <2>2. i = Destino(arquivos, p) /\ p \in Caminhos(arquivos)
    BY <1>4, <2>1 DEF Visita
  <2>3. QED  BY <1>2, <2>2 DEF Arquivo, Regulares, Lida
<1>5. QED  BY <1>1, <1>2, <1>3, <1>4

\* The paths in the store are of files that were visited; an entry of the
\* index is one of its file, which was opened.
Guardado(e) ==
  /\ Visita(e.pathname, e.inumber) /\ Fileops_isfile(e.inumber)
  /\ discardDups => e.chksum = chksumfile_byinumber(img, e.inumber)
Indexada(e) ==
  /\ e.pathname \in Regulares /\ ~Funda(e.pathname)
  /\ Lida(e.pathname) => e \in EntradasDe(e.pathname)
Armazenada(p, s) == \E g \in Range(s) : g.pathname = p
RegistroInv ==
  /\ ESequencia(store) /\ ESequencia(index)
  /\ \A e \in Range(store) : Guardado(e)
  /\ StoredOnce
  /\ ~Cortados => \A e \in Range(index) : Indexada(e)
  /\ \A e \in Range(index) : Armazenada(e.pathname, store)

LEMMA RecordsInit == SearchInit => RegistroInv
<1> SUFFICES ASSUME SearchInit PROVE RegistroInv
  OBVIOUS
<1>1. store = <<>> /\ index = <<>>
  BY DEF SearchInit
<1>2. ESequencia(<<>>) /\ Range(<<>>) = {} /\ DOMAIN <<>> = {}
  BY DEF ESequencia, Range
<1>3. QED  BY <1>1, <1>2 DEF RegistroInv, StoredOnce

LEMMA RecordsStay ==
  ASSUME UNCHANGED disco
  PROVE  /\ (Cortados' <=> Cortados) /\ discardDups' = discardDups
         /\ \A p : (Lida(p)' <=> Lida(p)) /\ Arquivo(p)' = Arquivo(p)
         /\ \A p : EntradasDe(p)' = EntradasDe(p)
         /\ Regulares' = Regulares
         /\ \A e : Guardado(e)' <=> Guardado(e)
         /\ \A e : Indexada(e)' <=> Indexada(e)
<1>1. arquivos' = arquivos /\ img' = img /\ lixo' = lixo /\ discardDups' = discardDups
  BY DEF disco
<1>2. Inumbers' = Inumbers /\ (Cortados' <=> Cortados)
  BY <1>1 DEF Inumbers, Cortados, Nomes
<1>3. \A p : (Lida(p)' <=> Lida(p)) /\ Arquivo(p)' = Arquivo(p)
  BY <1>1 DEF Lida, Legivel, Setores, Arquivo
<1>4. \A p : EntradasDe(p)' = EntradasDe(p)
  BY <1>1 DEF EntradasDe, Arquivo
<1>5. Regulares' = Regulares
  BY <1>1 DEF Regulares, Arquivo
<1>6. \A p, i : (Visita(p, i)' <=> Visita(p, i)) /\ (Fileops_isfile(i)' <=> Fileops_isfile(i))
  BY <1>1, <1>2 DEF Visita, Chega, Trilha, Restante, Fileops_isfile
<1>7. \A e : Guardado(e)' <=> Guardado(e)
  BY <1>1, <1>6 DEF Guardado
<1>8. \A e : Indexada(e)' <=> Indexada(e)
  BY <1>3, <1>4, <1>5 DEF Indexada, Funda
<1>9. QED  BY <1>1, <1>2, <1>3, <1>4, <1>5, <1>7, <1>8

LEMMA SlotsLeft ==
  ASSUME TabelaInv, pc = "scan"
  PROVE  /\ SemUso = {} <=> Funda(pathname)
         /\ MAX_FILES - Len(pathname) >= 2 => \E fd1, fd2 \in SemUso : fd1 # fd2
<1>1. BoaTabela(pilha, openFileTable) /\ Len(pathname) = Len(pilha)
  BY DEF TabelaInv
<1>2. /\ IsFiniteSet(SemUso) /\ Len(pilha) \in Nat
      /\ Cardinality(SemUso) = MAX_FILES - Len(pilha)
      /\ SemUso = {} <=> Len(pilha) >= MAX_FILES
  BY <1>1, FreeSlots DEF SemUso
<1>3. MAX_FILES \in Nat
  BY SearchAssumption
<1>4. ASSUME MAX_FILES - Len(pathname) >= 2 PROVE \E fd1, fd2 \in SemUso : fd1 # fd2
  <2>1. Cardinality(SemUso) >= 2
    BY <1>1, <1>2, <1>4
  <2>2. SemUso # {}
    BY <1>1, <1>2, <1>3, <1>4
  <2>3. PICK fd1 \in SemUso : TRUE
    BY <2>2
  <2>4. IsFiniteSet({fd1}) /\ Cardinality({fd1}) = 1
    BY FS_Singleton
  <2>5. SemUso # {fd1}
    BY <2>1, <2>4
  <2>6. QED  BY <2>3, <2>5
<1>5. QED  BY <1>1, <1>2, <1>4 DEF Funda

\* What Scan_File records of a file that is not a duplicate.
Registro ==
  [pathname |-> pathname, inumber |-> inumber,
   chksum |-> IF discardDups THEN chksumfile_byinumber(img, inumber) ELSE Lixo]

LEMMA PrependedOne ==
  ASSUME NEW x, NEW t, ESequencia(t)
  PROVE  /\ ESequencia(<<x>> \o t) /\ Range(<<x>> \o t) = {x} \cup Range(t)
         /\ Len(<<x>> \o t) = 1 + Len(t) /\ (<<x>> \o t)[1] = x
         /\ \A k \in 1 .. Len(t) : (<<x>> \o t)[1 + k] = t[k]
<1>1. PICK s : s = <<x>>
  OBVIOUS
<1>2. DOMAIN s = 1 .. 1 /\ Len(s) = 1 /\ s[1] = x
  BY <1>1
<1>3. \A k \in 1 .. 1 : k = 1
  OBVIOUS
<1>4. s = [k \in 1 .. 1 |-> s[k]]
  BY <1>1
<1>5. ESequencia(s) /\ Range(s) = {x}
  BY <1>2, <1>3, <1>4 DEF ESequencia, Range
<1> DEFINE u == s \o t
<1>6. /\ ESequencia(u) /\ Range(u) = Range(s) \cup Range(t)
      /\ Len(u) = Len(s) + Len(t)
      /\ \A k \in 1 .. Len(s) : u[k] = s[k]
      /\ \A k \in 1 .. Len(t) : u[Len(s) + k] = t[k]
  BY <1>5, Prepended
<1>7. u = <<x>> \o t
  BY <1>1
<1> HIDE DEF u
<1>8. QED  BY <1>2, <1>5, <1>6, <1>7

LEMMA FileStored ==
  ASSUME DiscoInv, TabelaInv, RegistroInv, Scan_File, ~Duplicado
  PROVE  /\ ESequencia(store') /\ Range(store') = {Registro} \cup Range(store)
         /\ store'[1] = Registro /\ DOMAIN store' = 1 .. Len(store) + 1
         /\ \A k \in 1 .. Len(store) : store'[k + 1] = store[k]
         /\ Guardado(Registro) /\ Visita(pathname, inumber) /\ Fileops_isfile(inumber)
         /\ IF Funda(pathname) THEN index' = index
            ELSE /\ index' = Entradas(Palavras(Caracteres(inumber))) \o index
                 /\ ESequencia(Caracteres(inumber)) /\ ESequencia(index')
                 /\ Range(index') = {Entrada(w, pathname) : w \in Ocorrencias(Caracteres(inumber))}
                                    \cup Range(index)
<1> DEFINE c == Caracteres(inumber)
           E == Entradas(Palavras(c))
<1>1. pc = "scan" /\ Fileops_isfile(inumber) /\ store' = <<Registro>> \o store
      /\ index' = IF SemUso = {} THEN index ELSE E \o index
  BY DEF Scan_File, Pathstore_path, Registro
<1>2. Visita(pathname, inumber) /\ inumber \in 0 .. Len(arquivos)
  BY DEF TabelaInv, Visita
<1>3. Guardado(Registro)
  BY <1>1, <1>2 DEF Guardado, Registro
<1>4. SemUso = {} <=> Funda(pathname)
  BY <1>1, SlotsLeft
<1>7. ESequencia(store) /\ ESequencia(index)
  BY DEF RegistroInv
<1>8. /\ ESequencia(store') /\ Range(store') = {Registro} \cup Range(store)
      /\ Len(store') = 1 + Len(store) /\ store'[1] = Registro
      /\ \A k \in 1 .. Len(store) : store'[1 + k] = store[k]
  <2>1. PICK e : e = Registro
    OBVIOUS
  <2>2. PICK t : t = store
    OBVIOUS
  <2>3. /\ ESequencia(<<e>> \o t) /\ Range(<<e>> \o t) = {e} \cup Range(t)
        /\ Len(<<e>> \o t) = 1 + Len(t) /\ (<<e>> \o t)[1] = e
        /\ \A k \in 1 .. Len(t) : (<<e>> \o t)[1 + k] = t[k]
    BY <1>7, <2>2, PrependedOne
  <2>4. store' = <<e>> \o t
    BY <1>1, <2>1, <2>2
  <2>5. QED  BY <2>1, <2>2, <2>3, <2>4
<1>9. Len(store) \in Nat /\ Len(store') \in Nat /\ DOMAIN store' = 1 .. Len(store')
  BY <1>7, <1>8 DEF ESequencia
<1>10. /\ ESequencia(store') /\ Range(store') = {Registro} \cup Range(store)
       /\ store'[1] = Registro /\ DOMAIN store' = 1 .. Len(store) + 1
       /\ \A k \in 1 .. Len(store) : store'[k + 1] = store[k]
  <2>1. 1 + Len(store) = Len(store) + 1 /\ \A k \in 1 .. Len(store) : k + 1 = 1 + k
    BY <1>9
  <2>2. QED  BY <1>8, <1>9, <2>1
<1>11. ESequencia(c)
  <2>1. c = [k \in 1 .. Tamanho(inumber) |-> Fileops_getchar(inumber, k - 1)]
        /\ Tamanho(inumber) \in Nat
    BY <1>2, CharsRead, SizeIs
  <2> HIDE DEF c
  <2>2. Len(c) = Tamanho(inumber) /\ DOMAIN c = 1 .. Tamanho(inumber)
    BY <2>1
  <2>3. c = [k \in 1 .. Tamanho(inumber) |-> c[k]]
    BY <2>1
  <2>4. QED  BY <2>1, <2>2, <2>3 DEF ESequencia
<1> HIDE DEF c
<1>12. ESequencia(E) /\ Range(E) = {Entrada(w, pathname) : w \in Ocorrencias(c)}
  BY <1>11, EntriesMade
<1> HIDE DEF E
<1>13. ~Funda(pathname) => /\ index' = E \o index /\ ESequencia(index')
                           /\ Range(index') = {Entrada(w, pathname) : w \in Ocorrencias(c)}
                                              \cup Range(index)
  BY <1>1, <1>4, <1>7, <1>12, Prepended
<1>14. Funda(pathname) => index' = index
  BY <1>1, <1>4
<1>15. QED  BY <1>1, <1>2, <1>3, <1>10, <1>11, <1>13, <1>14 DEF E, c

LEMMA StoredNew ==
  ASSUME DiscoInv, TabelaInv, RegistroInv, Scan_File, ~Duplicado, discardDups, ~Cortados,
         NEW e \in Range(store), Lida(pathname), Lida(e.pathname),
         Arquivo(pathname).dados = Arquivo(e.pathname).dados
  PROVE  MAX_FILES - Len(pathname) < 2
<1>1. Visita(pathname, inumber) /\ Fileops_isfile(inumber) /\ pc = "scan"
  BY DEF Scan_File, TabelaInv
<1>2. Guardado(e)
  BY DEF RegistroInv
<1>3. /\ Caracteres(inumber) = Arquivo(pathname).dados
      /\ chksumfile_byinumber(img, inumber) = Arquivo(pathname).dados
  BY <1>1, RegularVisit
<1>4. /\ Caracteres(e.inumber) = Arquivo(e.pathname).dados
      /\ chksumfile_byinumber(img, e.inumber) = Arquivo(e.pathname).dados
      /\ e.chksum = chksumfile_byinumber(img, e.inumber)
  BY <1>2, RegularVisit DEF Guardado
<1>5. ~IsSameFile(chksumfile_byinumber(img, inumber), e)
  BY DEF Duplicado, SameFileIsInStore
<1>6. ~(\E fd1, fd2 \in SemUso : fd1 # fd2)
  BY <1>3, <1>4, <1>5 DEF IsSameFile, chksumfile_compare
<1>7. ~(MAX_FILES - Len(pathname) >= 2)
  BY <1>1, <1>6, SlotsLeft
<1>8. MAX_FILES - Len(pathname) \in Int
  BY <1>1, PathSize, SearchAssumption
<1>9. QED  BY <1>7, <1>8

LEMMA RecordsNext == DiscoInv /\ TabelaInv /\ RegistroInv /\ [SearchNext]_searchVars => RegistroInv'
<1> SUFFICES ASSUME DiscoInv, TabelaInv, RegistroInv, [SearchNext]_searchVars PROVE RegistroInv'
  OBVIOUS
<1>1. /\ (Cortados' <=> Cortados) /\ discardDups' = discardDups
      /\ \A p : (Lida(p)' <=> Lida(p)) /\ Arquivo(p)' = Arquivo(p)
      /\ \A e : Guardado(e)' <=> Guardado(e)
      /\ \A e : Indexada(e)' <=> Indexada(e)
  BY SameDisk, RecordsStay
<1>2. /\ ESequencia(store) /\ ESequencia(index) /\ StoredOnce
      /\ \A e \in Range(store) : Guardado(e)
      /\ ~Cortados => \A e \in Range(index) : Indexada(e)
      /\ \A e \in Range(index) : Armazenada(e.pathname, store)
  BY DEF RegistroInv
<1>3. CASE UNCHANGED <<store, index>>
  <2>1. StoredOnce'
    BY <1>1, <1>2, <1>3 DEF StoredOnce
  <2>2. (\A e \in Range(index) : Armazenada(e.pathname, store))'
    BY <1>2, <1>3 DEF Armazenada
  <2>3. QED  BY <1>1, <1>2, <1>3, <2>1, <2>2 DEF RegistroInv
<1>4. CASE Scan_File /\ ~Duplicado
  <2>1. /\ ESequencia(store') /\ Range(store') = {Registro} \cup Range(store)
        /\ store'[1] = Registro /\ DOMAIN store' = 1 .. Len(store) + 1
        /\ \A k \in 1 .. Len(store) : store'[k + 1] = store[k]
        /\ Guardado(Registro) /\ Visita(pathname, inumber) /\ Fileops_isfile(inumber)
        /\ IF Funda(pathname) THEN index' = index
           ELSE /\ ESequencia(index')
                /\ Range(index') = {Entrada(w, pathname) : w \in Ocorrencias(Caracteres(inumber))}
                                   \cup Range(index)
    BY <1>4, FileStored
  <2>2. \A e \in Range(store') : Guardado(e)'
    BY <1>1, <1>2, <2>1
  <2>3. Len(store) \in Nat /\ DOMAIN store = 1 .. Len(store)
    BY <1>2 DEF ESequencia
  <2>4. ASSUME discardDups, ~Cortados,
               NEW i \in 1 .. Len(store) + 1, NEW j \in 1 .. Len(store) + 1, i < j,
               Lida(store'[i].pathname), Lida(store'[j].pathname),
               Arquivo(store'[i].pathname).dados = Arquivo(store'[j].pathname).dados
        PROVE  MAX_FILES - Len(store'[i].pathname) < 2
    <3>1. j - 1 \in 1 .. Len(store) /\ store'[j] = store[j - 1]
      <4>1. j - 1 \in 1 .. Len(store) /\ (j - 1) + 1 = j
        BY <2>3, <2>4
      <4>2. QED  BY <2>1, <4>1
    <3>2. CASE i = 1
      <4>1. store[j - 1] \in Range(store)
        BY <2>3, <3>1 DEF Range
      <4>2. Registro.pathname = pathname
        BY DEF Registro
      <4>3. QED  BY <1>4, <2>1, <2>4, <3>1, <3>2, <4>1, <4>2, StoredNew
    <3>3. CASE i # 1
      <4>1. i - 1 \in 1 .. Len(store) /\ (i - 1) + 1 = i /\ i - 1 < j - 1
        BY <2>3, <2>4, <3>3
      <4>2. store'[i] = store[i - 1]
        BY <2>1, <4>1
      <4>3. QED  BY <1>2, <2>3, <2>4, <3>1, <4>1, <4>2 DEF StoredOnce
    <3>4. QED  BY <3>2, <3>3
  <2>5. StoredOnce'
    BY <1>1, <2>1, <2>4 DEF StoredOnce
  <2>6. ESequencia(index')
    BY <1>2, <2>1
  <2>7. ASSUME ~Cortados, NEW e \in Range(index'), e \notin Range(index) PROVE Indexada(e)
    <3>1. ~Funda(pathname)
      BY <2>1, <2>7
    <3>2. PICK w \in Ocorrencias(Caracteres(inumber)) : e = Entrada(w, pathname)
      BY <2>1, <2>7, <3>1
    <3>3. /\ pathname \in Regulares
          /\ Lida(pathname) => Caracteres(inumber) = Arquivo(pathname).dados
      BY <2>1, <2>7, RegularVisit
    <3>4. e.pathname = pathname
      BY <3>2 DEF Entrada
    <3>5. Lida(pathname) => e \in EntradasDe(pathname)
      BY <3>2, <3>3 DEF EntradasDe, Entrada
    <3>6. QED  BY <3>1, <3>3, <3>4, <3>5 DEF Indexada
  <2>8. ~Cortados => \A e \in Range(index') : Indexada(e)'
    BY <1>1, <1>2, <2>7
  <2>9. ASSUME NEW e \in Range(index') PROVE Armazenada(e.pathname, store')
    <3>1. CASE e \in Range(index)
      BY <1>2, <2>1, <3>1 DEF Armazenada
    <3>2. CASE e \notin Range(index)
      <4>1. PICK w \in Ocorrencias(Caracteres(inumber)) : e = Entrada(w, pathname)
        BY <2>1, <3>2
      <4>2. e.pathname = pathname /\ Registro.pathname = pathname
        BY <4>1 DEF Entrada, Registro
      <4>3. QED  BY <2>1, <4>2 DEF Armazenada
    <3>3. QED  BY <3>1, <3>2
  <2>10. (\A e \in Range(index) : Armazenada(e.pathname, store))'
    BY <2>9 DEF Armazenada
  <2>11. QED  BY <1>1, <2>1, <2>2, <2>5, <2>6, <2>8, <2>10 DEF RegistroInv
<1>5. UNCHANGED <<store, index>> \/ (Scan_File /\ ~Duplicado)
  BY DEF SearchNext, SearchMain, BuildDiskIndex, TestService, Scan_File, Scan_TreeAndIndex,
         NextDirent, EndDirectory, EndScan, TestServiceBySingleWord, OpenQueryFile,
         TestServiceByFileOfWords, CloseQueryFile, ServerMode, Accept, ProcessQuery, SearchExit,
         searchVars, construido
<1>6. QED  BY <1>3, <1>4, <1>5

LEMMA RecordsInvariance == SearchSpec => []RegistroInv
BY TableInvariance, RecordsInit, RecordsNext, PTL DEF SearchSpec

LEMMA IndexHolds == DiscoInv /\ RegistroInv => IndexTrue
<1> SUFFICES ASSUME DiscoInv, RegistroInv PROVE IndexTrue
  OBVIOUS
<1>1. Inumbers \subseteq 0 .. Len(arquivos)
  BY DEF Inumbers
<1>2. \A i \in Inumbers : Erro \notin Range(Caracteres(i))
  BY <1>1, CharsRead
<1>3. ~Cortados => \A e \in Range(index) : Lida(e.pathname) => e \in EntradasDe(e.pathname)
  BY DEF RegistroInv, Indexada
<1>4. QED  BY <1>2, <1>3 DEF IndexTrue

\* An entry of the index is a word of its file at its offset, if the file can
\* be read, and no character makes the assertion of Fileops_getchar fail.
THEOREM IndexRight == SearchSpec => []IndexTrue
BY TableInvariance, RecordsInvariance, IndexHolds, PTL

\* Two files of one content are in the store only when the later one lay too
\* deep to be compared.
THEOREM DuplicatesOut == SearchSpec => []StoredOnce
<1>1. RegistroInv => StoredOnce
  BY DEF RegistroInv
<1>2. QED  BY RecordsInvariance, <1>1, PTL
-------------------------------------------------------------------------------
\* What the walk still has to come to: below the path it is at, or through an
\* entry that an open directory has not given yet.
Comeca(p, q) == Len(q) <= Len(p) /\ \A k \in 1 .. Len(q) : p[k] = q[k]
Falta(p, o) ==
  /\ Comeca(p, o.pathname) /\ Len(o.pathname) < Len(p)
  /\ \E c \in o.cursor + 1 .. Tamanho(o.inumber) :
       LET nome == arquivos[o.inumber].dados[c].d_name
       IN p[Len(o.pathname) + 1] = <<nome>> /\ ~Especial(nome)
Pendente(p, fase, q, t) ==
  \/ fase = "scan" /\ Comeca(p, q)
  \/ \E fd \in DOMAIN t : Falta(p, t[fd])

\* The walk comes to a path once, so that no entry is twice in the index.
Unico(fase, q, t, x) ==
  ~Cortados /\ ~Repetidos =>
    /\ fase = "scan" => \A fd \in DOMAIN t : ~Falta(q, t[fd])
    /\ \A fd, g \in DOMAIN t : ~Falta(t[g].pathname, t[fd])
    /\ \A e \in Range(x) : ~Pendente(e.pathname, fase, q, t)
    /\ \A a, b \in DOMAIN x : x[a] = x[b] => a = b
UnicoInv == Unico(pc, pathname, openFileTable, index)

\* A file is pending until its words are in the index, or those of an equal one.
Posta(p, x) == Funda(p) \/ EntradasDe(p) \subseteq Range(x)
Servida(p, x) == Posta(p, x) \/ (discardDups /\ \E q \in Iguais(p) : Posta(q, x))
Completa(fase, q, t, s, x) ==
  ~Cortados /\ img.ruins = {} =>
    /\ \A e \in Range(s) : Posta(e.pathname, x)
    /\ fase # "falha" => \A p \in Regulares : Servida(p, x) \/ Pendente(p, fase, q, t)
CompletaInv == Completa(pc, pathname, openFileTable, store, index)

LEMMA PendingStays ==
  ASSUME UNCHANGED disco
  PROVE  /\ UnicoInv' <=> Unico(pc', pathname', openFileTable', index')
         /\ CompletaInv' <=> Completa(pc', pathname', openFileTable', store', index')
<1>1. arquivos' = arquivos /\ img' = img /\ discardDups' = discardDups
      /\ (Cortados' <=> Cortados) /\ Regulares' = Regulares
      /\ (\A p : Arquivo(p)' = Arquivo(p)) /\ (\A p : EntradasDe(p)' = EntradasDe(p))
  BY RecordsStay DEF disco
<1>2. Inumbers' = Inumbers /\ (Repetidos' <=> Repetidos) /\ \A i : Tamanho(i)' = Tamanho(i)
  BY <1>1 DEF Repetidos, Tamanho, Inumbers
<1>3. \A p, fd : Falta(p, openFileTable[fd])' <=> Falta(p, openFileTable'[fd])
  BY <1>1, <1>2 DEF Falta, Tamanho, Inumbers
<1>4. \A p : Pendente(p, pc, pathname, openFileTable)'
             <=> Pendente(p, pc', pathname', openFileTable')
  BY <1>3 DEF Pendente
<1>5. \A p : (Posta(p, index)' <=> Posta(p, index')) /\ Iguais(p)' = Iguais(p)
  BY <1>1 DEF Posta, Iguais, Funda
<1>6. \A p : Servida(p, index)' <=> Servida(p, index')
  BY <1>1, <1>5 DEF Servida
<1>7. UnicoInv' <=> Unico(pc', pathname', openFileTable', index')
  BY <1>1, <1>2, <1>3, <1>4 DEF UnicoInv, Unico
<1>8. CompletaInv' <=> Completa(pc', pathname', openFileTable', store', index')
  BY <1>1, <1>4, <1>5, <1>6 DEF CompletaInv, Completa
<1>9. QED  BY <1>7, <1>8

LEMMA BeginsNext ==
  ASSUME NEW p, Len(p) \in Nat, NEW T, NEW q \in Seq(T), NEW x \in T
  PROVE  Comeca(p, Append(q, x)) <=> Comeca(p, q) /\ Len(q) < Len(p) /\ p[Len(q) + 1] = x
<1> DEFINE n == Len(q)
           r == Append(q, x)
<1>1. n \in Nat /\ Len(r) = n + 1 /\ (\A k \in 1 .. n : r[k] = q[k]) /\ r[n + 1] = x
  BY AppendProperties
<1> HIDE DEF n, r
<1>2. \A k \in 1 .. n + 1 : k \in 1 .. n \/ k = n + 1
  BY <1>1
<1>3. (\A k \in 1 .. n : k \in 1 .. n + 1) /\ n + 1 \in 1 .. n + 1
  BY <1>1
<1>4. n + 1 <= Len(p) <=> n < Len(p)
  BY <1>1
<1>5. n < Len(p) => n <= Len(p)
  BY <1>1
<1>6. ASSUME Comeca(p, r) PROVE Comeca(p, q) /\ n < Len(p) /\ p[n + 1] = x
  BY <1>1, <1>3, <1>4, <1>5, <1>6 DEF Comeca, n
<1>7. ASSUME Comeca(p, q), n < Len(p), p[n + 1] = x PROVE Comeca(p, r)
  <2>1. \A k \in 1 .. n : p[k] = q[k]
    BY <1>7 DEF Comeca, n
  <2>2. \A k \in 1 .. n + 1 : p[k] = r[k]
    BY <1>1, <1>2, <1>7, <2>1
  <2>3. QED  BY <1>1, <1>4, <1>7, <2>2 DEF Comeca
<1>8. QED  BY <1>6, <1>7 DEF n, r

LEMMA MissingAdvance ==
  ASSUME NEW p, NEW o \in Aberturas, Tamanho(o.inumber) \in Nat
  PROVE  /\ Falta(p, Avancado(o)) => Falta(p, o)
         /\ Falta(p, o) /\ ~Falta(p, Avancado(o)) =>
              LET nome == arquivos[o.inumber].dados[o.cursor + 1].d_name
              IN /\ Comeca(p, o.pathname) /\ Len(o.pathname) < Len(p)
                 /\ p[Len(o.pathname) + 1] = <<nome>> /\ ~Especial(nome)
<1> DEFINE v == Avancado(o)
           c == o.cursor
           n == Tamanho(o.inumber)
<1>1. v.pathname = o.pathname /\ v.inumber = o.inumber /\ v.cursor = c + 1 /\ c \in Nat
  BY DEF Avancado, Aberturas
<1> HIDE DEF v
<1>2. Tamanho(v.inumber) = n
  BY <1>1
<1> HIDE DEF c, n
<1>3. (\A k \in c + 1 + 1 .. n : k \in c + 1 .. n)
      /\ \A k \in c + 1 .. n : k = c + 1 \/ k \in c + 1 + 1 .. n
  BY <1>1 DEF n
<1>4. QED  BY <1>1, <1>2, <1>3 DEF Falta, v, n, c

\* The entry that NextDirent reads.
LEMMA DirentIs ==
  ASSUME DiscoInv, TabelaInv, NextDirent, ~Cortados
  PROVE  /\ pc = "entradas" /\ Last(pilha).dirfd \in DOMAIN openFileTable
         /\ Aberto \in Aberturas /\ Tamanho(Aberto.inumber) \in Nat
         /\ Aberto.cursor + 1 \in 1 .. Tamanho(Aberto.inumber)
         /\ Aberto.inumber \in Inumbers /\ EDiretorio(arquivos[Aberto.inumber])
         /\ Tamanho(Aberto.inumber) = Len(arquivos[Aberto.inumber].dados)
         /\ Dirent = arquivos[Aberto.inumber].dados[Aberto.cursor + 1]
         /\ openFileTable' = [openFileTable EXCEPT ![Last(pilha).dirfd] = Avancado(@)]
         /\ IF Especial(Dirent.d_name) THEN UNCHANGED <<pc, pathname>>
            ELSE pc' = "scan" /\ pathname' = Append(Aberto.pathname, <<Dirent.d_name>>)
<1>1. pilha # <<>> /\ Dirent # NULL /\ pc = "entradas"
      /\ openFileTable' = [openFileTable EXCEPT ![Last(pilha).dirfd] = Avancado(@)]
  BY DEF NextDirent
<1>2. /\ Last(pilha).dirfd \in DOMAIN openFileTable /\ Abertura(Aberto)
      /\ Aberto.inumber \in 0 .. Len(arquivos) /\ Aberto.cursor \in Nat
      /\ Aberto.cursor < Tamanho(Aberto.inumber)
      /\ Dirent = Fileops_getchar(Aberto.inumber, Aberto.cursor)
      /\ ~Especial(Dirent.d_name) =>
           \A resto \in {<<>>, <<Lixo>>} : Nome(<<Dirent>>, 1, resto) = <<Dirent.d_name>>
  BY <1>1, EntryRead
<1>3. Aberto \in Aberturas /\ ~Fileops_isfile(Aberto.inumber)
  BY <1>2 DEF Abertura
<1>4. Tamanho(Aberto.inumber) \in Nat
  BY <1>2, SizeIs
<1>5. /\ Aberto.inumber \in Inumbers /\ EDiretorio(arquivos[Aberto.inumber])
      /\ Tamanho(Aberto.inumber) = Len(arquivos[Aberto.inumber].dados)
      /\ Dirent = arquivos[Aberto.inumber].dados[Aberto.cursor + 1]
  BY <1>2, <1>3, EntryIs
<1>6. Aberto.cursor + 1 \in 1 .. Tamanho(Aberto.inumber)
  BY <1>2, <1>4
<1>7. IF Especial(Dirent.d_name) THEN UNCHANGED <<pc, pathname>>
      ELSE pc' = "scan" /\ pathname' = Append(Aberto.pathname, <<Dirent.d_name>>)
  <2>1. CASE Especial(Dirent.d_name)
    BY <2>1 DEF NextDirent, Pulado
  <2>2. CASE ~Especial(Dirent.d_name)
    <3>1. PICK resto \in {<<>>, <<Lixo>>} :
            pc' = "scan" /\ pathname' = Append(Aberto.pathname, Nome(<<Dirent>>, 1, resto))
      BY <2>2 DEF NextDirent, Pulado
    <3>2. Nome(<<Dirent>>, 1, resto) = <<Dirent.d_name>>
      BY <1>2, <2>2
    <3>3. QED  BY <2>2, <3>1, <3>2
  <2>3. QED  BY <2>1, <2>2
<1>8. QED  BY <1>1, <1>2, <1>3, <1>4, <1>5, <1>6, <1>7

\* An entry of a directory read by the walk, and the name of the path it leads to.
LEMMA NameOfEntry ==
  ASSUME DiscoInv, NEW o \in Aberturas, NEW nome,
         o.inumber \in Inumbers, NEW k \in 1 .. Len(arquivos[o.inumber].dados),
         nome = arquivos[o.inumber].dados[k].d_name
  PROVE  /\ o.pathname \in Seq(Seq(Simbolos(arquivos))) /\ <<nome>> \in Seq(Simbolos(arquivos))
         /\ Len(o.pathname) \in Nat
<1>1. Valida(arquivos) /\ o.inumber \in 1 .. Len(arquivos)
  BY DEF DiscoInv, Inumbers
<1>2. nome \in Simbolos(arquivos)
  BY <1>1, NameIn
<1>3. o.pathname \in Seq(Seq(Simbolos(arquivos)))
  BY DEF Aberturas, Caminhadas
<1>4. QED  BY <1>2, <1>3

\* The directories that are open lie above one another.
LEMMA OpenDepths ==
  ASSUME DiscoInv, NEW s, NEW t, BoaTabela(s, t)
  PROVE  /\ Len(s) \in Nat
         /\ \A fd \in DOMAIN t :
              /\ t[fd] \in Aberturas /\ Tamanho(t[fd].inumber) \in Nat
              /\ Len(t[fd].pathname) \in Nat /\ Len(t[fd].pathname) < Len(s)
              /\ fd # Last(s).dirfd => Len(t[fd].pathname) < Len(s) - 1
<1>1. Len(s) \in Nat
  BY DEF BoaTabela
<1>2. ASSUME NEW fd \in DOMAIN t
      PROVE  /\ t[fd] \in Aberturas /\ Tamanho(t[fd].inumber) \in Nat
             /\ Len(t[fd].pathname) \in Nat /\ Len(t[fd].pathname) < Len(s)
             /\ fd # Last(s).dirfd => Len(t[fd].pathname) < Len(s) - 1
  <2>1. t[fd] \in Aberturas
    BY DEF BoaTabela, Abertura
  <2>2. t[fd].inumber \in 0 .. Len(arquivos)
    BY <2>1 DEF Aberturas
  <2>3. PICK k \in 1 .. Len(s) : s[k].dirfd = fd
    BY DEF BoaTabela
  <2>4. Len(t[fd].pathname) = k - 1
    BY <2>3 DEF BoaTabela
  <2>5. fd # Last(s).dirfd => k # Len(s)
    BY <2>3 DEF Last
  <2>6. QED  BY <1>1, <2>1, <2>2, <2>4, <2>5, SizeIs
<1>3. QED  BY <1>1, <1>2

LEMMA Unrepeated ==
  ASSUME ~Repetidos, NEW i \in Inumbers, EDiretorio(arquivos[i]),
         NEW j \in DOMAIN arquivos[i].dados, NEW k \in DOMAIN arquivos[i].dados,
         arquivos[i].dados[j].d_name = arquivos[i].dados[k].d_name
  PROVE  j = k
<1> DEFINE f == [n \in DOMAIN arquivos[i].dados |-> arquivos[i].dados[n].d_name]
<1>1. IsInjective(f)
  BY DEF Repetidos
<1>2. f[j] = f[k]
  OBVIOUS
<1>3. QED  BY <1>1, <1>2 DEF IsInjective

\* A path that is longer than those of the open directories.
LEMMA MissingAbove ==
  ASSUME NEW T, NEW q \in Seq(T), NEW x \in T, NEW o, Len(o.pathname) \in Nat,
         Len(o.pathname) < Len(q), Falta(Append(q, x), o)
  PROVE  Falta(q, o)
<1> DEFINE n == Len(q)
           m == Len(o.pathname)
           r == Append(q, x)
<1>1. n \in Nat /\ \A k \in 1 .. n : r[k] = q[k]
  BY AppendProperties
<1>2. Comeca(r, o.pathname) /\ \E c \in o.cursor + 1 .. Tamanho(o.inumber) :
        LET nome == arquivos[o.inumber].dados[c].d_name
        IN r[m + 1] = <<nome>> /\ ~Especial(nome)
  BY DEF Falta
<1> HIDE DEF r, n
<1>3. m \in Nat /\ m < n
  BY DEF n
<1> HIDE DEF m
<1>4. m + 1 \in 1 .. n /\ m <= n /\ \A k \in 1 .. m : k \in 1 .. n
  BY <1>1, <1>3
<1>5. Comeca(q, o.pathname)
  BY <1>1, <1>2, <1>4 DEF Comeca, m, n
<1>6. r[m + 1] = q[m + 1]
  BY <1>1, <1>4
<1>7. QED  BY <1>2, <1>3, <1>5, <1>6 DEF Falta, m, n

LEMMA UniqueLess ==
  ASSUME NEW f, NEW q, NEW t, NEW x, Unico(f, q, t, x), NEW g, NEW r, NEW u,
         \A fd \in DOMAIN u : fd \in DOMAIN t /\ u[fd] = t[fd],
         g = "scan" => f = g /\ q = r
  PROVE  Unico(g, r, u, x)
<1>1. \A p : Pendente(p, g, r, u) => Pendente(p, f, q, t)
  BY DEF Pendente
<1>2. QED  BY <1>1 DEF Unico

LEMMA IndexedPath ==
  ASSUME DiscoInv, RegistroInv, ~Cortados, NEW e \in Range(index)
  PROVE  Len(e.pathname) \in Nat
<1>1. e.pathname \in Caminhos(arquivos) /\ Valida(arquivos)
  BY DEF RegistroInv, Indexada, Regulares, DiscoInv
<1>2. e.pathname \in Caminhadas(arquivos)
  BY <1>1, TreeFacts
<1>3. QED  BY <1>2 DEF Caminhadas

LEMMA UniqueEntry ==
  ASSUME DiscoInv, TabelaInv, RegistroInv, UnicoInv, NextDirent
  PROVE  Unico(pc', pathname', openFileTable', index)
<1> DEFINE t == openFileTable
           u == openFileTable'
           fd0 == Last(pilha).dirfd
           o == Aberto
           v == Avancado(o)
           d == Dirent.d_name
           q == Append(o.pathname, <<d>>)
           i == o.inumber
           T == Seq(Simbolos(arquivos))
<1> SUFFICES ASSUME ~Cortados, ~Repetidos PROVE Unico(pc', pathname', u, index)
  BY DEF Unico
<1>1. /\ pc = "entradas" /\ fd0 \in DOMAIN t /\ o \in Aberturas /\ Tamanho(i) \in Nat
      /\ o.cursor + 1 \in 1 .. Tamanho(i) /\ i \in Inumbers /\ EDiretorio(arquivos[i])
      /\ Tamanho(i) = Len(arquivos[i].dados) /\ Dirent = arquivos[i].dados[o.cursor + 1]
      /\ u = [t EXCEPT ![fd0] = Avancado(@)]
      /\ IF Especial(d) THEN UNCHANGED <<pc, pathname>> ELSE pc' = "scan" /\ pathname' = q
  BY DirentIs
<1>2. t[fd0] = o /\ DOMAIN u = DOMAIN t /\ u[fd0] = v /\ \A fd \in DOMAIN t : fd # fd0 => u[fd] = t[fd]
  BY <1>1 DEF Aberto
<1>3. o.pathname \in Seq(T) /\ <<d>> \in T /\ Len(o.pathname) \in Nat
  BY <1>1, NameOfEntry
<1>4. /\ Len(pilha) \in Nat
      /\ \A fd \in DOMAIN t :
           /\ Len(t[fd].pathname) \in Nat /\ Len(t[fd].pathname) < Len(pilha)
           /\ fd # fd0 => Len(t[fd].pathname) < Len(pilha) - 1
  BY OpenDepths DEF TabelaInv
<1>5. Len(o.pathname) = Len(pilha) - 1
  BY EntryRead DEF NextDirent
<1>6. /\ \A fd, g \in DOMAIN t : ~Falta(t[g].pathname, t[fd])
      /\ \A e \in Range(index) : ~Pendente(e.pathname, pc, pathname, t)
      /\ \A a, b \in DOMAIN index : index[a] = index[b] => a = b
  BY DEF UnicoInv, Unico
<1>7. \A p : Falta(p, v) => Falta(p, o)
  BY <1>1, MissingAdvance
<1>8. v.pathname = o.pathname /\ v.inumber = i /\ v.cursor = o.cursor + 1
  BY <1>1 DEF Avancado, Aberturas
<1>9. DOMAIN arquivos[i].dados = 1 .. Tamanho(i)
  <2>1. Valida(arquivos) /\ i \in 1 .. Len(arquivos)
    BY <1>1 DEF DiscoInv, Inumbers
  <2>2. ESequencia(arquivos[i].dados)
    BY <2>1, FileFacts
  <2>3. QED  BY <1>1, <2>2 DEF ESequencia
<1>10. o.cursor \in Nat
  BY <1>1 DEF Aberturas
<1> HIDE DEF t, u, fd0, v, q, T
<1>11. \A p, fd : fd \in DOMAIN u /\ Falta(p, u[fd]) => Falta(p, t[fd])
  BY <1>2, <1>7
<1>12. \A fd, g \in DOMAIN u : ~Falta(u[g].pathname, u[fd])
  <2>1. \A g \in DOMAIN u : u[g].pathname = t[g].pathname
    BY <1>2, <1>8
  <2>2. QED  BY <1>2, <1>6, <1>11, <2>1
<1>13. ASSUME ~Especial(d), NEW fd \in DOMAIN u PROVE ~Falta(q, u[fd])
  <2>1. CASE fd = fd0
    <3>1. SUFFICES ASSUME Falta(q, v) PROVE FALSE
      BY <1>2, <2>1
    <3>2. PICK c \in o.cursor + 2 .. Tamanho(i) :
            q[Len(o.pathname) + 1] = <<arquivos[i].dados[c].d_name>>
      <4>1. o.cursor + 1 + 1 = o.cursor + 2
        BY <1>10
      <4>2. QED  BY <1>8, <3>1, <4>1 DEF Falta
    <3>3. q[Len(o.pathname) + 1] = <<d>>
      BY <1>3, AppendProperties DEF q
    <3>4. d = arquivos[i].dados[c].d_name
      <4> HIDE DEF d
      <4>1. QED  BY <3>2, <3>3
    <3>5. c \in 1 .. Tamanho(i) /\ c # o.cursor + 1
      BY <1>1, <1>10, <3>2
    <3>6. c = o.cursor + 1
      BY <1>1, <1>9, <3>4, <3>5, Unrepeated
    <3>7. QED  BY <3>5, <3>6
  <2>2. CASE fd # fd0
    <3>1. fd \in DOMAIN t /\ u[fd] = t[fd]
      BY <1>2, <2>2
    <3>2. Len(t[fd].pathname) \in Nat /\ Len(t[fd].pathname) < Len(o.pathname)
      BY <1>4, <1>5, <2>2, <3>1
    <3>3. Falta(q, t[fd]) => Falta(o.pathname, t[fd])
      BY <1>3, <3>2, MissingAbove DEF q
    <3>4. ~Falta(o.pathname, t[fd])
      BY <1>1, <1>2, <1>6, <3>1
    <3>5. QED  BY <3>1, <3>3, <3>4
  <2>3. QED  BY <2>1, <2>2
<1>14. pc' = "scan" => \A fd \in DOMAIN u : ~Falta(pathname', u[fd])
  BY <1>1, <1>13
<1>15. ASSUME NEW e \in Range(index), Pendente(e.pathname, pc', pathname', u) PROVE FALSE
  <2> DEFINE p == e.pathname
  <2>1. \A fd \in DOMAIN t : ~Falta(p, t[fd])
    BY <1>6 DEF Pendente
  <2>2. ~Especial(d) /\ Comeca(p, q)
    BY <1>1, <1>2, <1>11, <1>15, <2>1 DEF Pendente
  <2>3. Comeca(p, o.pathname) /\ Len(o.pathname) < Len(p) /\ p[Len(o.pathname) + 1] = <<d>>
    BY <1>3, <2>2, IndexedPath, BeginsNext DEF q
  <2>4. o.cursor + 1 \in o.cursor + 1 .. Tamanho(i)
    BY <1>1, <1>10
  <2>5. Falta(p, o)
    BY <1>1, <2>2, <2>3, <2>4 DEF Falta
  <2>6. QED  BY <1>1, <1>2, <2>1, <2>5
<1>16. QED  BY <1>6, <1>12, <1>14, <1>15 DEF Unico

LEMMA BeginsItself ==
  ASSUME NEW p, Len(p) \in Nat
  PROVE  Comeca(p, p)
BY DEF Comeca

\* A directory that is opened has its path out of the way.
LEMMA UniquePush ==
  ASSUME DiscoInv, TabelaInv, UnicoInv, Scan_TreeAndIndex
  PROVE  Unico(pc', pathname', openFileTable', index)
<1> DEFINE t == openFileTable
           u == openFileTable'
           q == pathname
           n == Slot
           v == Nova(pathname, inumber)
<1>1. pc = "scan" /\ pc' = "entradas" /\ pathname' = q
  BY DEF Scan_TreeAndIndex
<1>2. CASE SemUso = {}
  <2>1. u = t
    BY <1>2 DEF Scan_TreeAndIndex
  <2>2. Unico(pc, q, t, index)
    BY DEF UnicoInv
  <2>3. QED  BY <1>1, <2>1, <2>2, UniqueLess
<1>3. CASE SemUso # {}
  <2>1. u = [fd \in DOMAIN t \cup {n} |-> IF fd = n THEN v ELSE t[fd]]
    BY <1>3 DEF Scan_TreeAndIndex, Fileops_open, Nova
  <2>2. SUFFICES ASSUME ~Cortados, ~Repetidos PROVE Unico("entradas", q, u, index)
    BY <1>1 DEF Unico
  <2>3. /\ \A fd \in DOMAIN t : ~Falta(q, t[fd])
        /\ \A fd, g \in DOMAIN t : ~Falta(t[g].pathname, t[fd])
        /\ \A e \in Range(index) : ~Pendente(e.pathname, pc, q, t)
        /\ \A a, b \in DOMAIN index : index[a] = index[b] => a = b
    BY <1>1, <2>2 DEF UnicoInv, Unico
  <2>4. BoaTabela(pilha, t) /\ Len(q) = Len(pilha)
    BY <1>1 DEF TabelaInv
  <2>5. Len(q) \in Nat /\ \A g \in DOMAIN t : Len(t[g].pathname) \in Nat /\ Len(t[g].pathname) < Len(q)
    BY <2>4, OpenDepths
  <2>6. v.pathname = q
    BY DEF Nova
  <2> HIDE DEF v, u, t, n, q
  <2>7. DOMAIN u = DOMAIN t \cup {n} /\ u[n] = v /\ \A fd \in DOMAIN u : fd # n => fd \in DOMAIN t /\ u[fd] = t[fd]
    BY <2>1
  <2>8. \A p : Falta(p, v) => Comeca(p, q) /\ Len(q) < Len(p)
    BY <2>6 DEF Falta
  <2>9. ASSUME NEW fd \in DOMAIN u, NEW g \in DOMAIN u PROVE ~Falta(u[g].pathname, u[fd])
    <3>1. Len(u[g].pathname) \in Nat /\ Len(u[g].pathname) <= Len(q)
      BY <2>5, <2>6, <2>7
    <3>2. ~Falta(u[g].pathname, v)
      BY <2>5, <2>8, <3>1
    <3>3. CASE fd = n
      BY <2>7, <3>2, <3>3
    <3>4. CASE fd # n
      BY <2>3, <2>6, <2>7, <3>4
    <3>5. QED  BY <3>3, <3>4
  <2>10. ASSUME NEW p, Pendente(p, "entradas", q, u) PROVE Pendente(p, pc, q, t)
    <3>1. PICK fd \in DOMAIN u : Falta(p, u[fd])
      BY <2>10 DEF Pendente
    <3>2. QED  BY <1>1, <2>7, <2>8, <3>1 DEF Pendente
  <2>11. QED  BY <2>3, <2>9, <2>10 DEF Unico
<1>4. QED  BY <1>2, <1>3

\* The words of a file come once into the index, and its path is done with.
LEMMA UniqueFile ==
  ASSUME DiscoInv, TabelaInv, RegistroInv, UnicoInv, Scan_File
  PROVE  Unico(pc', pathname', openFileTable', index')
<1> DEFINE t == openFileTable
           q == pathname
           c == Caracteres(inumber)
           E == Entradas(Palavras(c))
<1>1. pc = "scan" /\ pc' = "entradas" /\ pathname' = q /\ openFileTable' = t
  BY DEF Scan_File
<1>2. Unico(pc, q, t, index)
  BY DEF UnicoInv
<1>3. CASE index' = index
  BY <1>1, <1>2, <1>3, UniqueLess
<1>4. CASE index' # index
  <2>1. ~Duplicado
    BY <1>4 DEF Scan_File
  <2>2. index' = E \o index /\ ESequencia(c) /\ Visita(q, inumber)
        /\ Range(index') = {Entrada(w, q) : w \in Ocorrencias(c)} \cup Range(index)
    BY <1>4, <2>1, FileStored
  <2> HIDE DEF c
  <2>3. /\ ESequencia(E) /\ Range(E) = {Entrada(w, q) : w \in Ocorrencias(c)}
        /\ \A a, b \in DOMAIN E : E[a] = E[b] => a = b
    BY <2>2, EntriesMade
  <2> HIDE DEF E
  <2>4. ESequencia(index)
    BY DEF RegistroInv
  <2>5. /\ Len(index') = Len(E) + Len(index) /\ ESequencia(index')
        /\ \A k \in 1 .. Len(E) : index'[k] = E[k]
        /\ \A k \in 1 .. Len(index) : index'[Len(E) + k] = index[k]
    BY <2>2, <2>3, <2>4, Prepended
  <2>6. SUFFICES ASSUME ~Cortados, ~Repetidos PROVE Unico("entradas", q, t, index')
    BY <1>1 DEF Unico
  <2>7. /\ \A fd \in DOMAIN t : ~Falta(q, t[fd])
        /\ \A fd, g \in DOMAIN t : ~Falta(t[g].pathname, t[fd])
        /\ \A e \in Range(index) : ~Pendente(e.pathname, pc, q, t)
        /\ \A a, b \in DOMAIN index : index[a] = index[b] => a = b
    BY <1>1, <1>2, <2>6 DEF Unico
  <2>8. Comeca(q, q)
    <3>1. Len(q) \in Nat
      BY <2>2, PathSize
    <3>2. QED  BY <3>1, BeginsItself
  <2> HIDE DEF t, q
  <2>9. \A e \in Range(index) : e.pathname # q
    BY <1>1, <2>7, <2>8 DEF Pendente
  <2>10. \A e \in Range(E) : e.pathname = q
    BY <2>3 DEF Entrada
  <2>11. \A e \in Range(index') : ~Pendente(e.pathname, "entradas", q, t)
    <3>1. \A e \in Range(index) : ~Pendente(e.pathname, "entradas", q, t)
      BY <1>1, <2>7 DEF Pendente
    <3>2. \A e \in Range(E) : ~Pendente(e.pathname, "entradas", q, t)
      BY <2>7, <2>10 DEF Pendente
    <3>3. Range(index') = Range(E) \cup Range(index)
      BY <2>2, <2>3
    <3>4. QED  BY <3>1, <3>2, <3>3
  <2>12. ASSUME NEW a \in DOMAIN index', NEW b \in DOMAIN index', index'[a] = index'[b] PROVE a = b
    <3>1. Len(E) \in Nat /\ Len(index) \in Nat /\ DOMAIN E = 1 .. Len(E)
          /\ DOMAIN index = 1 .. Len(index) /\ DOMAIN index' = 1 .. Len(E) + Len(index)
      BY <2>3, <2>4, <2>5 DEF ESequencia
    <3>2. ASSUME NEW k \in DOMAIN index'
          PROVE  \/ k \in DOMAIN E /\ index'[k] = E[k] /\ index'[k].pathname = q
                 \/ /\ k - Len(E) \in DOMAIN index /\ index'[k] = index[k - Len(E)]
                    /\ index'[k].pathname # q
      <4>1. CASE k <= Len(E)
        <5>1. k \in DOMAIN E /\ k \in 1 .. Len(E)
          BY <3>1, <4>1
        <5>2. index'[k] = E[k]
          BY <2>5, <5>1
        <5>3. E[k] \in Range(E)
          BY <5>1 DEF Range
        <5>4. QED  BY <2>10, <5>1, <5>2, <5>3
      <4>2. CASE ~(k <= Len(E))
        <5>1. k - Len(E) \in 1 .. Len(index) /\ Len(E) + (k - Len(E)) = k
          BY <3>1, <4>2
        <5>2. index'[k] = index[k - Len(E)]
          BY <2>5, <5>1
        <5>3. index[k - Len(E)] \in Range(index)
          BY <3>1, <5>1 DEF Range
        <5>4. QED  BY <2>9, <3>1, <5>1, <5>2, <5>3
      <4>3. QED  BY <4>1, <4>2
    <3>3. CASE a \in DOMAIN E /\ b \in DOMAIN E /\ index'[a] = E[a] /\ index'[b] = E[b]
      BY <2>3, <2>12, <3>3
    <3>4. CASE /\ a - Len(E) \in DOMAIN index /\ index'[a] = index[a - Len(E)]
               /\ b - Len(E) \in DOMAIN index /\ index'[b] = index[b - Len(E)]
      <4>1. a - Len(E) = b - Len(E)
        BY <2>7, <2>12, <3>4
      <4>2. a \in Nat /\ b \in Nat /\ Len(E) \in Nat
        BY <3>1
      <4> HIDE DEF E
      <4>3. QED  BY <4>1, <4>2
    <3>5. QED  BY <2>12, <3>2, <3>3, <3>4
  <2>13. QED  BY <2>7, <2>11, <2>12 DEF Unico
<1>5. QED  BY <1>3, <1>4

LEMMA UniqueInit == SearchInit => UnicoInv
BY DEF SearchInit, UnicoInv, Unico, Pendente, Range

LEMMA UniqueNext ==
  DiscoInv /\ TabelaInv /\ RegistroInv /\ UnicoInv /\ [SearchNext]_searchVars => UnicoInv'
<1> SUFFICES ASSUME DiscoInv, TabelaInv, RegistroInv, UnicoInv, [SearchNext]_searchVars
             PROVE  Unico(pc', pathname', openFileTable', index')
  BY SameDisk, PendingStays
<1>1. Unico(pc, pathname, openFileTable, index)
  BY DEF UnicoInv
<1>2. CASE Scan_TreeAndIndex
  BY <1>2, UniquePush DEF Scan_TreeAndIndex
<1>3. CASE Scan_File
  BY <1>3, UniqueFile
<1>4. CASE NextDirent
  BY <1>4, UniqueEntry DEF NextDirent
<1>5. CASE EndDirectory
  <2>1. /\ openFileTable' = Restrict(openFileTable, DOMAIN openFileTable \ {Last(pilha).dirfd})
        /\ pc = "entradas" /\ pc' = pc /\ index' = index
    BY <1>5 DEF EndDirectory, Fileops_close
  <2>2. \A fd \in DOMAIN openFileTable' : fd \in DOMAIN openFileTable
                                          /\ openFileTable'[fd] = openFileTable[fd]
    BY <2>1 DEF Restrict
  <2>3. QED  BY <1>1, <2>1, <2>2, UniqueLess
<1>6. CASE pc' # "scan" /\ openFileTable' = openFileTable /\ index' = index
  BY <1>1, <1>6, UniqueLess
<1>7. CASE UNCHANGED searchVars
  BY <1>1, <1>7 DEF searchVars
<1>8. QED
  BY <1>2, <1>3, <1>4, <1>5, <1>6, <1>7
     DEF SearchNext, SearchMain, BuildDiskIndex, TestService, EndScan, TestServiceBySingleWord,
         OpenQueryFile, TestServiceByFileOfWords, CloseQueryFile, ServerMode, Accept, ProcessQuery,
         SearchExit, construido

LEMMA UniqueInvariance == SearchSpec => []UnicoInv
BY TableInvariance, RecordsInvariance, UniqueInit, UniqueNext, PTL DEF SearchSpec
-------------------------------------------------------------------------------
\* Below a path that another one begins with there is an entry towards it.
LEMMA WayDown ==
  ASSUME NEW a, Valida(a), NEW p \in Caminhos(a), NEW q, Len(q) \in Nat,
         Comeca(p, q), Len(q) < Len(p)
  PROVE  \E j \in 1 .. Len(a[Destino(a, q)].dados) :
           /\ Entra(a, Destino(a, q), j)
           /\ p[Len(q) + 1] = <<a[Destino(a, q)].dados[j].d_name>>
<1> DEFINE n == Len(q)
           m == Len(p)
<1>1. PICK f : Segue(a, p, f)
  BY TreeFacts
<1>2. Len(p) \in Nat
  BY TreeFacts DEF Caminhadas
<1>3. n \in Nat /\ m \in Nat /\ n < m /\ \A k \in 1 .. n : p[k] = q[k]
  BY <1>2 DEF Comeca
<1>4. f \in [0 .. m -> 0 .. Len(a)] /\ f[0] = ROOT_INUMBER
      /\ \A k \in 1 .. m : /\ f[k] = Filho(a, f[k - 1], p[k][1])
                           /\ \E j \in 1 .. Len(a[f[k - 1]].dados) :
                                Entra(a, f[k - 1], j) /\ p[k] = <<a[f[k - 1]].dados[j].d_name>>
  BY <1>1 DEF Segue, Passos
<1> HIDE DEF n, m
<1> DEFINE g == [k \in 0 .. n |-> f[k]]
<1>5. /\ \A k \in 0 .. n : k \in 0 .. m
      /\ \A k \in 1 .. n : k \in 1 .. m /\ k \in 0 .. n /\ k - 1 \in 0 .. n
      /\ 0 \in 0 .. n /\ n \in 0 .. n /\ n + 1 \in 1 .. m /\ n + 1 - 1 = n
  BY <1>3
<1>6. Passos(a, q, g)
  <2>1. g \in [0 .. n -> 0 .. Len(a)] /\ g[0] = ROOT_INUMBER
    BY <1>4, <1>5
  <2>2. \A k \in 1 .. n : g[k] = Filho(a, g[k - 1], q[k][1])
    BY <1>3, <1>4, <1>5
  <2>3. QED  BY <2>1, <2>2 DEF Passos, n
<1>7. Destino(a, q) = f[n]
  <2>1. Destino(a, q) = g[n]
    BY <1>6, DestinationIs DEF n
  <2>2. QED  BY <1>5, <2>1
<1>8. \E j \in 1 .. Len(a[f[n]].dados) :
        Entra(a, f[n], j) /\ p[n + 1] = <<a[f[n]].dados[j].d_name>>
  <2>1. PICK k \in 1 .. m : k = n + 1 /\ k - 1 = n
    BY <1>3
  <2>2. \E j \in 1 .. Len(a[f[k - 1]].dados) :
          Entra(a, f[k - 1], j) /\ p[k] = <<a[f[k - 1]].dados[j].d_name>>
    BY <1>4
  <2>3. QED  BY <2>1, <2>2
<1>9. QED  BY <1>7, <1>8 DEF n

LEMMA WholePath ==
  ASSUME NEW T, NEW p \in Seq(T), NEW q \in Seq(T), Comeca(p, q), ~(Len(q) < Len(p))
  PROVE  p = q
<1>1. Len(p) = Len(q) /\ \A k \in 1 .. Len(p) : p[k] = q[k]
  BY DEF Comeca
<1>2. QED  BY <1>1, SeqEqual

LEMMA PostedMore ==
  ASSUME NEW x, NEW y, Range(x) \subseteq Range(y), NEW p
  PROVE  (Posta(p, x) => Posta(p, y)) /\ (Servida(p, x) => Servida(p, y))
<1>1. \A q : Posta(q, x) => Posta(q, y)
  BY DEF Posta
<1>2. QED  BY <1>1 DEF Servida

LEMMA CompleteMore ==
  ASSUME NEW f, NEW q, NEW t, NEW s, NEW x, Completa(f, q, t, s, x),
         NEW g, NEW r, NEW u, NEW z, NEW y, Range(x) \subseteq Range(y),
         g # "falha" => f # "falha",
         ~Cortados /\ img.ruins = {} =>
           /\ \A e \in Range(z) : e \in Range(s) \/ Posta(e.pathname, y)
           /\ \A p \in Regulares : Pendente(p, f, q, t) => Servida(p, y) \/ Pendente(p, g, r, u)
  PROVE  Completa(g, r, u, z, y)
<1> SUFFICES ASSUME ~Cortados, img.ruins = {}
             PROVE  /\ \A e \in Range(z) : Posta(e.pathname, y)
                    /\ g # "falha" => \A p \in Regulares : Servida(p, y) \/ Pendente(p, g, r, u)
  BY DEF Completa
<1>1. /\ \A e \in Range(s) : Posta(e.pathname, x)
      /\ f # "falha" => \A p \in Regulares : Servida(p, x) \/ Pendente(p, f, q, t)
  BY DEF Completa
<1>2. \A e \in Range(z) : Posta(e.pathname, y)
  BY <1>1, PostedMore
<1>3. ASSUME f # "falha", NEW p \in Regulares PROVE Servida(p, y) \/ Pendente(p, g, r, u)
  BY <1>1, <1>3, PostedMore
<1>4. QED  BY <1>2, <1>3

\* What a path is that the walk has come to above a regular file.
LEMMA AtPath ==
  ASSUME DiscoInv, TabelaInv, ~Cortados, img.ruins = {}, NEW p \in Regulares, Comeca(p, pathname)
  PROVE  /\ Len(p) \in Nat /\ Len(pathname) \in Nat /\ Len(pathname) <= Len(p)
         /\ inumber = Destino(arquivos, pathname) /\ inumber \in 0 .. Len(arquivos)
         /\ \/ p = pathname /\ Fileops_isfile(inumber)
            \/ /\ ~Fileops_isfile(inumber) /\ Len(pathname) < Len(p)
               /\ \E j \in 1 .. Tamanho(inumber) :
                    LET nome == arquivos[inumber].dados[j].d_name
                    IN p[Len(pathname) + 1] = <<nome>> /\ ~Especial(nome)
<1> DEFINE q == pathname
           i == inumber
<1>1. Valida(arquivos) /\ p \in Caminhos(arquivos) /\ Arquivo(p).mode = {"IALLOC"}
  BY DEF DiscoInv, Regulares
<1>2. Visita(q, i)
  BY DEF TabelaInv
<1>3. q \in Caminhadas(arquivos) /\ i \in 0 .. Len(arquivos) /\ i = Destino(arquivos, q)
  BY <1>2 DEF Visita
<1>4. p \in Caminhadas(arquivos) /\ Destino(arquivos, p) \in 1 .. Len(arquivos)
  BY <1>1, TreeFacts
<1>5. Len(p) \in Nat /\ Len(q) \in Nat /\ Len(q) <= Len(p)
  BY <1>3, <1>4 DEF Caminhadas, Comeca
<1>6. Fileops_isfile(i) <=> i \in Inumbers /\ arquivos[i].mode = {"IALLOC"}
  BY <1>3, FileIs
<1> HIDE DEF q, i
<1>7. CASE ~(Len(q) < Len(p))
  <2>1. p = q
    BY <1>3, <1>4, <1>7, WholePath DEF Caminhadas, q
  <2>2. i \in Inumbers /\ arquivos[i].mode = {"IALLOC"}
    BY <1>1, <1>3, <1>4, <2>1 DEF Inumbers, Arquivo
  <2>3. QED  BY <1>3, <1>5, <1>6, <2>1, <2>2 DEF q, i
<1>8. CASE Len(q) < Len(p)
  <2>1. PICK j \in 1 .. Len(arquivos[i].dados) :
          Entra(arquivos, i, j) /\ p[Len(q) + 1] = <<arquivos[i].dados[j].d_name>>
    BY <1>1, <1>3, <1>5, <1>8, WayDown DEF q
  <2>2. /\ i \in Inumbers /\ "IFDIR" \in arquivos[i].mode
        /\ ~Especial(arquivos[i].dados[j].d_name)
    BY <2>1 DEF Entra, EDiretorio, Viva, Inumbers
  <2>3. ~Fileops_isfile(i)
    BY <1>6, <2>2
  <2>4. Tamanho(i) = Len(arquivos[i].dados)
    BY <2>2 DEF Tamanho
  <2>5. QED  BY <1>3, <1>5, <1>8, <2>1, <2>2, <2>3, <2>4 DEF q, i
<1>9. QED  BY <1>7, <1>8

LEMMA CompleteInit == SearchInit => CompletaInv
<1> SUFFICES ASSUME SearchInit PROVE CompletaInv
  OBVIOUS
<1>1. DiscoInv
  BY DiskInit
<1>2. ASSUME NEW p \in Regulares PROVE Comeca(p, <<>>)
  <2>1. p \in Caminhadas(arquivos)
    BY <1>1, TreeFacts DEF Regulares, DiscoInv
  <2>2. QED  BY <2>1 DEF Caminhadas, Comeca
<1>3. pc # "falha" => pc = "scan"
  BY DEF SearchInit
<1>4. pathname = <<>> /\ Range(store) = {}
  BY DEF SearchInit, Range
<1>5. QED  BY <1>2, <1>3, <1>4 DEF CompletaInv, Completa, Pendente

\* A directory that is opened has its entries before it.
LEMMA CompletePush ==
  ASSUME DiscoInv, TabelaInv, CompletaInv, Scan_TreeAndIndex
  PROVE  Completa(pc', pathname', openFileTable', store, index)
<1> DEFINE t == openFileTable
           u == openFileTable'
<1>1. pc = "scan" /\ pc' = "entradas" /\ pathname' = pathname /\ ~Fileops_isfile(inumber)
  BY DEF Scan_TreeAndIndex
<1>2. \A fd \in DOMAIN t : fd \in DOMAIN u /\ u[fd] = t[fd]
  <2>1. CASE SemUso = {}
    BY <2>1 DEF Scan_TreeAndIndex
  <2>2. CASE SemUso # {}
    BY <2>2, SlotFree DEF Scan_TreeAndIndex, Fileops_open
  <2>3. QED  BY <2>1, <2>2
<1>3. ASSUME ~Cortados, img.ruins = {}, NEW p \in Regulares, Pendente(p, pc, pathname, t)
      PROVE  Servida(p, index) \/ Pendente(p, pc', pathname', u)
  <2>1. CASE \E fd \in DOMAIN t : Falta(p, t[fd])
    BY <1>2, <2>1 DEF Pendente
  <2>2. CASE Comeca(p, pathname)
    <3>1. /\ Len(p) \in Nat /\ Len(pathname) \in Nat /\ Len(pathname) < Len(p)
          /\ inumber \in 0 .. Len(arquivos)
          /\ \E j \in 1 .. Tamanho(inumber) :
               LET nome == arquivos[inumber].dados[j].d_name
               IN p[Len(pathname) + 1] = <<nome>> /\ ~Especial(nome)
      BY <1>1, <1>3, <2>2, AtPath
    <3>2. CASE SemUso = {}
      <4>1. Funda(pathname)
        BY <1>1, <3>2, SlotsLeft
      <4>2. Funda(p)
        BY <3>1, <4>1, SearchAssumption DEF Funda
      <4>3. QED  BY <4>2 DEF Servida, Posta
    <3>3. CASE SemUso # {}
      <4> DEFINE v == Nova(pathname, inumber)
      <4>1. Slot \in DOMAIN u /\ u[Slot] = v
        BY <3>3 DEF Scan_TreeAndIndex, Fileops_open, Nova
      <4>2. v.pathname = pathname /\ v.inumber = inumber /\ v.cursor + 1 = 1
        BY DEF Nova
      <4> HIDE DEF v
      <4>3. Falta(p, v)
        BY <2>2, <3>1, <4>2 DEF Falta
      <4>4. QED  BY <4>1, <4>3 DEF Pendente
    <3>4. QED  BY <3>2, <3>3
  <2>3. QED  BY <1>3, <2>1, <2>2 DEF Pendente
<1>4. Completa(pc, pathname, t, store, index)
  BY DEF CompletaInv
<1>5. ~Cortados /\ img.ruins = {} =>
        \A p \in Regulares : Pendente(p, pc, pathname, t)
                             => Servida(p, index) \/ Pendente(p, pc', pathname', u)
  BY <1>3
<1>6. pc' # "falha" /\ pc # "falha"
  BY <1>1
<1>7. QED  BY <1>4, <1>5, <1>6, CompleteMore

\* A regular file comes into the index, unless an equal one is there or both
\* lie too deep.
LEMMA CompleteFile ==
  ASSUME DiscoInv, TabelaInv, RegistroInv, CompletaInv, Scan_File
  PROVE  Completa(pc', pathname', openFileTable', store', index')
<1> DEFINE q == pathname
           t == openFileTable
           c == Caracteres(inumber)
<1>1. pc = "scan" /\ pc' = "entradas" /\ pathname' = q /\ openFileTable' = t
      /\ Fileops_isfile(inumber)
  BY DEF Scan_File
<1>2. Completa(pc, q, t, store, index)
  BY DEF CompletaInv
<1>3. Visita(q, inumber)
  BY DEF TabelaInv
<1>4. /\ Range(index) \subseteq Range(index')
      /\ ~Cortados /\ img.ruins = {} =>
           /\ \A e \in Range(store') : e \in Range(store) \/ Posta(e.pathname, index')
           /\ Servida(q, index')
  <2>1. CASE ~Duplicado
    <3>1. Range(store') = {Registro} \cup Range(store)
          /\ IF Funda(q) THEN index' = index
             ELSE Range(index') = {Entrada(w, q) : w \in Ocorrencias(c)} \cup Range(index)
      BY <2>1, FileStored
    <3>2. Range(index) \subseteq Range(index')
      BY <3>1
    <3>3. ASSUME ~Cortados, img.ruins = {}, ~Funda(q) PROVE EntradasDe(q) \subseteq Range(index')
      <4>1. Legivel(inumber)
        BY <3>3 DEF Legivel
      <4>2. c = Arquivo(q).dados
        BY <1>1, <1>3, <3>3, <4>1, RegularVisit
      <4>3. EntradasDe(q) = {Entrada(w, q) : w \in Ocorrencias(c)}
        BY <4>2 DEF EntradasDe, Entrada
      <4>4. QED  BY <3>1, <3>3, <4>3
    <3>4. ASSUME ~Cortados, img.ruins = {} PROVE Posta(q, index')
      BY <3>3, <3>4 DEF Posta
    <3>5. Registro.pathname = q
      BY DEF Registro
    <3>6. QED  BY <3>1, <3>2, <3>4, <3>5 DEF Servida
  <2>2. CASE Duplicado
    <3>1. store' = store /\ index' = index
      BY <2>2 DEF Scan_File
    <3>2. ASSUME ~Cortados, img.ruins = {} PROVE Servida(q, index)
      <4>1. PICK e \in Range(store) : IsSameFile(chksumfile_byinumber(img, inumber), e)
        BY <2>2 DEF Duplicado, SameFileIsInStore
      <4>2. Posta(e.pathname, index) /\ discardDups
        BY <1>2, <2>2, <3>2 DEF Completa, Duplicado
      <4>3. CASE q = e.pathname
        BY <4>2, <4>3 DEF Servida
      <4>4. CASE Caracteres(inumber) = Caracteres(e.inumber)
        <5>1. Visita(e.pathname, e.inumber) /\ Fileops_isfile(e.inumber)
          BY DEF RegistroInv, Guardado
        <5>2. \A i \in Inumbers : Legivel(i)
          BY <3>2 DEF Legivel
        <5>3. e.pathname \in Regulares /\ Caracteres(e.inumber) = Arquivo(e.pathname).dados
          BY <3>2, <5>1, <5>2, RegularVisit
        <5>4. Caracteres(inumber) = Arquivo(q).dados
          BY <1>1, <1>3, <3>2, <5>2, RegularVisit
        <5>5. e.pathname \in Iguais(q)
          BY <4>4, <5>3, <5>4 DEF Iguais
        <5>6. QED  BY <4>2, <5>5 DEF Servida
      <4>5. QED  BY <4>1, <4>3, <4>4 DEF IsSameFile
    <3>3. QED  BY <3>1, <3>2
  <2>3. QED  BY <2>1, <2>2
<1>5. ASSUME ~Cortados, img.ruins = {}, NEW p \in Regulares, Pendente(p, pc, q, t)
      PROVE  Servida(p, index') \/ Pendente(p, pc', pathname', t)
  <2>1. CASE \E fd \in DOMAIN t : Falta(p, t[fd])
    BY <2>1 DEF Pendente
  <2>2. CASE Comeca(p, q)
    <3>1. p = q
      BY <1>1, <1>5, <2>2, AtPath
    <3>2. QED  BY <1>4, <1>5, <3>1
  <2>3. QED  BY <1>5, <2>1, <2>2 DEF Pendente
<1>6. ~Cortados /\ img.ruins = {} =>
        /\ \A e \in Range(store') : e \in Range(store) \/ Posta(e.pathname, index')
        /\ \A p \in Regulares : Pendente(p, pc, q, t)
                                => Servida(p, index') \/ Pendente(p, pc', pathname', t)
  BY <1>4, <1>5
<1>7. pc' # "falha" /\ pc # "falha"
  BY <1>1
<1> HIDE DEF t, q
<1>8. QED  BY <1>1, <1>2, <1>4, <1>6, <1>7, CompleteMore

LEMMA CompleteEntry ==
  ASSUME DiscoInv, TabelaInv, CompletaInv, NextDirent
  PROVE  Completa(pc', pathname', openFileTable', store, index)
<1> DEFINE t == openFileTable
           u == openFileTable'
           n == Last(pilha).dirfd
           o == Aberto
           d == Dirent.d_name
<1>1. pc = "entradas" /\ pc' # "falha"
  BY DEF NextDirent
<1>2. ASSUME ~Cortados, img.ruins = {}, NEW p \in Regulares, Pendente(p, pc, pathname, t)
      PROVE  Pendente(p, pc', pathname', u)
  <2>1. /\ n \in DOMAIN t /\ o \in Aberturas /\ Tamanho(o.inumber) \in Nat
        /\ o.cursor + 1 \in 1 .. Tamanho(o.inumber)
        /\ o.inumber \in Inumbers /\ Tamanho(o.inumber) = Len(arquivos[o.inumber].dados)
        /\ d = arquivos[o.inumber].dados[o.cursor + 1].d_name
        /\ u = [t EXCEPT ![n] = Avancado(@)]
        /\ IF Especial(d) THEN UNCHANGED <<pc, pathname>>
           ELSE pc' = "scan" /\ pathname' = Append(o.pathname, <<d>>)
    BY <1>2, DirentIs
  <2>2. o = t[n]
    BY DEF Aberto
  <2>3. PICK fd \in DOMAIN t : Falta(p, t[fd])
    BY <1>1, <1>2 DEF Pendente
  <2>4. DOMAIN u = DOMAIN t /\ u[n] = Avancado(o) /\ (fd # n => u[fd] = t[fd])
    BY <2>1, <2>2
  <2>5. CASE fd # n \/ Falta(p, Avancado(o))
    BY <2>1, <2>2, <2>3, <2>4, <2>5 DEF Pendente
  <2>6. CASE fd = n /\ ~Falta(p, Avancado(o))
    <3>1. Comeca(p, o.pathname) /\ Len(o.pathname) < Len(p)
          /\ p[Len(o.pathname) + 1] = <<d>> /\ ~Especial(d)
      BY <2>1, <2>2, <2>3, <2>6, MissingAdvance
    <3>2. /\ o.pathname \in Seq(Seq(Simbolos(arquivos))) /\ <<d>> \in Seq(Simbolos(arquivos))
      BY <2>1, NameOfEntry
    <3>3. Len(p) \in Nat
      BY TreeFacts DEF Regulares, DiscoInv, Caminhadas
    <3>4. Comeca(p, Append(o.pathname, <<d>>))
      BY <3>1, <3>2, <3>3, BeginsNext
    <3>5. QED  BY <2>1, <3>1, <3>4 DEF Pendente
  <2>7. QED  BY <2>5, <2>6
<1>3. Completa(pc, pathname, t, store, index)
  BY DEF CompletaInv
<1>4. ~Cortados /\ img.ruins = {} =>
        \A p \in Regulares : Pendente(p, pc, pathname, t)
                             => Servida(p, index) \/ Pendente(p, pc', pathname', u)
  BY <1>2
<1>5. pc # "falha"
  BY <1>1
<1>6. QED  BY <1>1, <1>3, <1>4, <1>5, CompleteMore

\* A directory that ends has nothing left.
LEMMA NothingLeft ==
  ASSUME DiscoInv, TabelaInv, EndDirectory, NEW p
  PROVE  ~Falta(p, Aberto)
<1>1. pilha # <<>> /\ Dirent = NULL /\ BoaTabela(pilha, openFileTable)
  BY DEF EndDirectory, TabelaInv
<1>2. Abertura(Aberto)
  BY <1>1, TableTop DEF Aberto
<1>3. /\ Aberto.cursor \in Nat /\ Aberto.inumber \in 0 .. Len(arquivos)
      /\ ~Fileops_isfile(Aberto.inumber)
  BY <1>2 DEF Abertura, Aberturas
<1>4. Aberto.cursor >= Tamanho(Aberto.inumber) /\ Tamanho(Aberto.inumber) \in Nat
  BY <1>1, <1>3, OpenedIs, SizeIs DEF Dirent
<1>5. Aberto.cursor + 1 .. Tamanho(Aberto.inumber) = {}
  BY <1>3, <1>4
<1>6. QED  BY <1>5 DEF Falta

LEMMA CompleteNext ==
  DiscoInv /\ TabelaInv /\ RegistroInv /\ CompletaInv /\ [SearchNext]_searchVars => CompletaInv'
<1> SUFFICES ASSUME DiscoInv, TabelaInv, RegistroInv, CompletaInv, [SearchNext]_searchVars
             PROVE  Completa(pc', pathname', openFileTable', store', index')
  BY SameDisk, PendingStays
<1>1. Completa(pc, pathname, openFileTable, store, index)
  BY DEF CompletaInv
<1>2. CASE Scan_TreeAndIndex
  BY <1>2, CompletePush DEF Scan_TreeAndIndex
<1>3. CASE Scan_File
  BY <1>3, CompleteFile
<1>4. CASE NextDirent
  BY <1>4, CompleteEntry DEF NextDirent
<1>5. CASE EndDirectory
  <2>1. /\ openFileTable' = Restrict(openFileTable, DOMAIN openFileTable \ {Last(pilha).dirfd})
        /\ pc = "entradas" /\ pc' = pc /\ index' = index /\ store' = store
    BY <1>5 DEF EndDirectory, Fileops_close
  <2>2. \A fd \in DOMAIN openFileTable : fd # Last(pilha).dirfd =>
          fd \in DOMAIN openFileTable' /\ openFileTable'[fd] = openFileTable[fd]
    BY <2>1 DEF Restrict
  <2>3. ASSUME NEW p, Pendente(p, pc, pathname, openFileTable)
        PROVE  Pendente(p, pc', pathname', openFileTable')
    <3>1. PICK fd \in DOMAIN openFileTable : Falta(p, openFileTable[fd])
      BY <2>1, <2>3 DEF Pendente
    <3>2. fd # Last(pilha).dirfd
      BY <1>5, <3>1, NothingLeft DEF Aberto
    <3>3. QED  BY <2>2, <3>1, <3>2 DEF Pendente
  <2>4. QED  BY <1>1, <2>1, <2>3 DEF Completa
<1>6. CASE UNCHANGED <<openFileTable, store, index>> /\ pc \notin {"scan", "falha"}
  BY <1>1, <1>6 DEF Completa, Pendente
<1>7. CASE UNCHANGED searchVars
  BY <1>1, <1>7 DEF searchVars
<1>8. QED
  BY <1>2, <1>3, <1>4, <1>5, <1>6, <1>7
     DEF SearchNext, SearchMain, BuildDiskIndex, TestService, EndScan, TestServiceBySingleWord,
         OpenQueryFile, TestServiceByFileOfWords, CloseQueryFile, ServerMode, Accept, ProcessQuery,
         SearchExit, construido

LEMMA CompleteInvariance == SearchSpec => []CompletaInv
BY TableInvariance, RecordsInvariance, CompleteInit, CompleteNext, PTL DEF SearchSpec

\* After the scan no directory is open.
LEMMA NothingPending ==
  ASSUME TabelaInv, pc \notin {"scan", "entradas"}, NEW p
  PROVE  ~Pendente(p, pc, pathname, openFileTable)
<1>1. pilha = <<>> /\ BoaTabela(pilha, openFileTable)
  BY DEF TabelaInv
<1>2. DOMAIN openFileTable = {}
  BY <1>1 DEF BoaTabela
<1>3. QED  BY <1>2 DEF Pendente

\* When all is scanned, every file that could be opened has its words in the
\* index, or an equal one has, or the first of its equals lay too deep.
THEOREM IndexCovers == SearchSpec => []IndexComplete
<1>1. ASSUME TabelaInv, CompletaInv PROVE IndexComplete
  <2> SUFFICES ASSUME pc = "palavra", ~Cortados, img.ruins = {},
                      NEW p \in Regulares, ~Funda(p)
               PROVE  \/ EntradasDe(p) \subseteq Range(index)
                      \/ discardDups /\ \E q \in Iguais(p) : EntradasDe(q) \subseteq Range(index)
                                                            \/ Funda(q)
    BY DEF IndexComplete
  <2>1. Servida(p, index)
    BY <1>1, NothingPending DEF CompletaInv, Completa
  <2>2. QED  BY <2>1 DEF Servida, Posta
<1>2. QED  BY <1>1, TableInvariance, CompleteInvariance, PTL
-------------------------------------------------------------------------------
\* Sequences inside sequences.
LEMMA LineSeq ==
  ASSUME NEW l, ESequencia(l)
  PROVE  l \in Seq(Range(l)) /\ Len(l) \in Nat /\ DOMAIN l = 1 .. Len(l)
<1>1. Len(l) \in Nat /\ l = [k \in 1 .. Len(l) |-> l[k]]
  BY DEF ESequencia
<1> DEFINE m == Len(l)
<1>2. DOMAIN l = 1 .. m
  BY <1>1
<1>3. \A k \in 1 .. m : l[k] \in Range(l)
  BY <1>2 DEF Range
<1> HIDE DEF m
<1>4. l \in [1 .. m -> Range(l)]
  BY <1>1, <1>3 DEF m
<1>5. QED  BY <1>1, <1>2, <1>4, IsASeq DEF m

LEMMA SeqLine ==
  ASSUME NEW T, NEW l \in Seq(T)
  PROVE  ESequencia(l)
BY DEF ESequencia

LEMMA Slice ==
  ASSUME NEW T, NEW l \in Seq(T), NEW i \in Nat \ {0}, NEW j \in Nat, j <= Len(l)
  PROVE  /\ SubSeq(l, i, j) \in Seq(T)
         /\ Len(SubSeq(l, i, j)) = IF i <= j THEN j - i + 1 ELSE 0
         /\ \A k \in 1 .. j - i + 1 : SubSeq(l, i, j)[k] = l[i + k - 1]
<1>1. \A k \in i .. j : l[k] \in T
  <2>1. \A k \in i .. j : k \in 1 .. Len(l)
    OBVIOUS
  <2>2. QED  BY <2>1
<1>2. QED  BY <1>1, SubSeqProperties

LEMMA SliceOfSlice ==
  ASSUME NEW T, NEW l \in Seq(T), NEW i \in Nat \ {0}, NEW j \in Nat, j <= Len(l),
         NEW x \in Nat \ {0}, NEW y \in Nat,
         NEW m \in Nat, m = i + x - 1, NEW n \in Nat, n = i + y - 1, n <= j
  PROVE  SubSeq(SubSeq(l, i, j), x, y) = SubSeq(l, m, n)
<1> DEFINE u == SubSeq(l, i, j)
           v == SubSeq(u, x, y)
           w == SubSeq(l, m, n)
<1>1. /\ u \in Seq(T) /\ Len(u) = IF i <= j THEN j - i + 1 ELSE 0
      /\ \A k \in 1 .. j - i + 1 : u[k] = l[i + k - 1]
  BY Slice
<1>2. m \in Nat \ {0} /\ n <= Len(l)
  OBVIOUS
<1>3. /\ w \in Seq(T) /\ Len(w) = IF m <= n THEN n - m + 1 ELSE 0
      /\ \A k \in 1 .. n - m + 1 : w[k] = l[m + k - 1]
  BY <1>2, Slice
<1> HIDE DEF u
<1>4. y <= Len(u)
  BY <1>1
<1>5. /\ v \in Seq(T) /\ Len(v) = IF x <= y THEN y - x + 1 ELSE 0
      /\ \A k \in 1 .. y - x + 1 : v[k] = u[x + k - 1]
  BY <1>1, <1>4, Slice
<1> HIDE DEF v, w
<1>6. Len(v) = Len(w)
  BY <1>3, <1>5
<1>7. ASSUME NEW k \in 1 .. Len(v) PROVE v[k] = w[k]
  <2>1. /\ k \in 1 .. y - x + 1 /\ k \in 1 .. n - m + 1
        /\ x + k - 1 \in 1 .. j - i + 1
        /\ i + (x + k - 1) - 1 = m + k - 1
    BY <1>5
  <2>2. v[k] = u[x + k - 1] /\ u[x + k - 1] = l[i + (x + k - 1) - 1]
        /\ w[k] = l[m + k - 1]
    BY <1>1, <1>3, <1>5, <2>1
  <2>3. QED  BY <2>1, <2>2
<1>8. QED  BY <1>3, <1>5, <1>6, <1>7, SeqEqual DEF u, v, w
-------------------------------------------------------------------------------
\* A line of the file of words has its newline at the end, if it has one; the
\* pieces it is asked for in begin after whole numbers of MAX_WORD_SIZE letters.
LinhaBoa(l) == ESequencia(l) /\ l # <<>> /\ \A k \in 1 .. Len(l) - 1 : l[k] # NovaLinha
Pedaco(w, l) ==
  \E n \in Nat : LET a == n * MAX_WORD_SIZE
                     b == IF Len(l) <= a + MAX_WORD_SIZE THEN Len(l) ELSE a + MAX_WORD_SIZE
                 IN a <= Len(l) /\ w = SubSeq(l, a + 1, b)

LEMMA PieceOfLine ==
  ASSUME NEW l, LinhaBoa(l), NEW n \in Nat, n * MAX_WORD_SIZE < Len(l)
  PROVE  LET a == n * MAX_WORD_SIZE
             b == IF Len(l) <= a + MAX_WORD_SIZE THEN Len(l) ELSE a + MAX_WORD_SIZE
         IN ESequencia(Despida(l)) /\ Pedaco(Despida(SubSeq(l, a + 1, b)), Despida(l))
<1> DEFINE T == Range(l)
           M == MAX_WORD_SIZE
           L == Len(l)
           a == n * MAX_WORD_SIZE
           b == IF L <= a + M THEN L ELSE a + M
           c == SubSeq(l, a + 1, b)
           d == Despida(l)
           w == Despida(c)
<1>1. l \in Seq(T) /\ L \in Nat /\ \A k \in 1 .. L - 1 : l[k] # NovaLinha
  BY LineSeq DEF LinhaBoa
<1>2. M \in Nat \ {0}
  BY SearchAssumption
<1>3. a \in Nat /\ a < L
  BY <1>2, Times
<1> HIDE DEF M, a
<1>4. b \in Nat /\ a < b /\ b <= L /\ b <= a + M /\ (b = L \/ b = a + M) /\ (L <= a + M => b = L)
  BY <1>1, <1>2, <1>3
<1> HIDE DEF T, L, b
<1>5. c \in Seq(T) /\ Len(c) = b - a /\ \A k \in 1 .. b - a : c[k] = l[a + k]
  <2>1. a + 1 \in Nat \ {0} /\ (IF a + 1 <= b THEN b - (a + 1) + 1 ELSE 0) = b - a
        /\ b - (a + 1) + 1 = b - a /\ \A k \in 1 .. b - a : (a + 1) + k - 1 = a + k
    BY <1>3, <1>4
  <2>2. /\ c \in Seq(T) /\ Len(c) = IF a + 1 <= b THEN b - (a + 1) + 1 ELSE 0
        /\ \A k \in 1 .. b - (a + 1) + 1 : c[k] = l[(a + 1) + k - 1]
    BY <1>1, <1>4, <2>1, Slice DEF L
  <2> HIDE DEF c, d, w
  <2>3. Len(c) = b - a
    BY <2>1, <2>2
  <2>4. ASSUME NEW k \in 1 .. b - a PROVE c[k] = l[a + k]
    <3>1. (a + 1) + k - 1 = a + k /\ k \in 1 .. b - (a + 1) + 1
      BY <2>1
    <3>2. c[k] = l[(a + 1) + k - 1]
      BY <2>2, <3>1
    <3>3. QED  BY <3>1, <3>2
  <2>5. QED  BY <2>2, <2>3, <2>4
<1>6. Last(c) = l[b]
  <2>1. b - a \in 1 .. b - a /\ a + (b - a) = b
    BY <1>3, <1>4
  <2>2. QED  BY <1>5, <2>1 DEF Last
<1>7. SUFFICES ESequencia(d) /\ a <= Len(d)
               /\ w = SubSeq(d, a + 1, IF Len(d) <= a + M THEN Len(d) ELSE a + M)
  BY DEF Pedaco, a, b, L, M
<1>8. CASE l[L] # NovaLinha
  <2>1. d = l
    BY <1>8 DEF Despida, Last, L
  <2>2. l[b] # NovaLinha
    <3>1. b = L \/ b \in 1 .. L - 1
      BY <1>1, <1>3, <1>4
    <3>2. QED  BY <1>1, <1>8, <3>1
  <2>3. w = c
    BY <1>6, <2>2 DEF Despida
  <2>4. a <= L /\ b = IF L <= a + M THEN L ELSE a + M
    BY <1>1, <1>3 DEF b
  <2>5. QED  BY <2>1, <2>3, <2>4 DEF c, L, LinhaBoa
<1>9. CASE l[L] = NovaLinha
  <2>1. d = SubSeq(l, 1, L - 1)
    BY <1>9 DEF Despida, Last, Front, L
  <2>2. L - 1 \in Nat /\ L - 1 <= L /\ (IF 1 <= L - 1 THEN L - 1 - 1 + 1 ELSE 0) = L - 1
    BY <1>1, <1>3
  <2>3. d \in Seq(T) /\ Len(d) = L - 1
    BY <1>1, <2>1, <2>2, Slice DEF L
  <2>4. ESequencia(d)
    BY <2>3, SeqLine
  <2>5. ASSUME NEW y \in Nat, y <= L - 1 PROVE SubSeq(d, a + 1, y) = SubSeq(l, a + 1, y)
    <3>1. PICK j \in Nat : j = L - 1
      BY <2>2
    <3>2. PICK x \in Nat \ {0} : x = a + 1
      BY <1>3
    <3>3. j <= Len(l) /\ x = 1 + x - 1 /\ y = 1 + y - 1 /\ y <= j /\ 1 \in Nat \ {0}
      BY <2>2, <2>5, <3>1 DEF L
    <3>4. SubSeq(SubSeq(l, 1, j), x, y) = SubSeq(l, x, y)
      BY <1>1, <3>3, SliceOfSlice
    <3>5. QED  BY <2>1, <3>1, <3>2, <3>4
  <2> HIDE DEF d
  <2>6. CASE b = L
    <3>1. w = SubSeq(c, 1, b - a - 1)
      BY <1>5, <1>6, <1>9, <2>6 DEF Despida, Front
    <3>2. PICK i \in Nat \ {0} : i = a + 1
      BY <1>3
    <3>3. PICK y \in Nat : y = b - a - 1
      BY <1>3, <1>4
    <3>4. PICK j \in Nat : j = L - 1
      BY <2>2
    <3>5. i = i + 1 - 1 /\ j = i + y - 1 /\ j <= b /\ b <= Len(l) /\ 1 \in Nat \ {0}
      BY <1>3, <1>4, <2>6, <3>2, <3>3, <3>4 DEF L
    <3>6. SubSeq(SubSeq(l, i, b), 1, y) = SubSeq(l, i, j)
      BY <1>1, <1>4, <3>5, SliceOfSlice
    <3>7. SubSeq(d, a + 1, j) = SubSeq(l, a + 1, j)
      <4>1. j <= L - 1
        BY <1>1, <3>4
      <4>2. QED  BY <2>5, <4>1
    <3>8. w = SubSeq(d, a + 1, L - 1)
      BY <3>1, <3>2, <3>3, <3>4, <3>6, <3>7
    <3>9. a <= L - 1 /\ L - 1 <= a + M
      BY <1>1, <1>2, <1>3, <1>4, <2>6
    <3>10. QED  BY <2>3, <2>4, <3>8, <3>9
  <2>7. CASE b # L
    <3>1. b = a + M /\ b <= L - 1 /\ b \in 1 .. L - 1
      BY <1>1, <1>3, <1>4, <2>7
    <3>2. l[b] # NovaLinha
      BY <1>1, <3>1
    <3>3. w = c
      BY <1>6, <3>2 DEF Despida
    <3>4. w = SubSeq(d, a + 1, b)
      BY <1>4, <2>5, <3>1, <3>3 DEF c
    <3>5. a <= L - 1 /\ (IF L - 1 <= a + M THEN L - 1 ELSE a + M) = b
      BY <1>1, <1>2, <1>3, <3>1
    <3>6. QED  BY <2>3, <2>4, <3>4, <3>5
  <2>8. QED  BY <2>6, <2>7
<1>10. QED  BY <1>8, <1>9

LEMMA WholeWord ==
  ASSUME NEW w, ESequencia(w), Len(w) \in 1 .. MAX_WORD_SIZE
  PROVE  Pedaco(w, w)
<1> DEFINE M == MAX_WORD_SIZE
           m == Len(w)
<1>1. w \in Seq(Range(w)) /\ m \in Nat
  BY LineSeq
<1>2. M \in Nat /\ 0 * M = 0 /\ m <= 0 + M
  BY SearchAssumption
<1>3. SubSeq(w, 1, m) = w
  <2>1. 1 \in Nat \ {0} /\ m <= Len(w) /\ (IF 1 <= m THEN m - 1 + 1 ELSE 0) = Len(w)
        /\ m - 1 + 1 = m /\ \A k \in 1 .. m : 1 + k - 1 = k
    BY <1>1
  <2>2. /\ SubSeq(w, 1, m) \in Seq(Range(w))
        /\ Len(SubSeq(w, 1, m)) = Len(w)
        /\ \A k \in 1 .. m : SubSeq(w, 1, m)[k] = w[k]
    <3>1. /\ SubSeq(w, 1, m) \in Seq(Range(w))
          /\ Len(SubSeq(w, 1, m)) = IF 1 <= m THEN m - 1 + 1 ELSE 0
          /\ \A k \in 1 .. m - 1 + 1 : SubSeq(w, 1, m)[k] = w[1 + k - 1]
      BY <1>1, <2>1, Slice
    <3>2. QED  BY <2>1, <3>1
  <2>3. QED  BY <1>1, <2>2, SeqEqual
<1>4. 0 + 1 = 1 /\ 0 <= m
  BY <1>1
<1> HIDE DEF m, M
<1>5. 0 \in Nat /\ LET a == 0 * M
                       b == IF m <= a + M THEN m ELSE a + M
                   IN a <= m /\ w = SubSeq(w, a + 1, b)
  BY <1>2, <1>3, <1>4
<1>6. QED  BY <1>5 DEF Pedaco, m, M

\* What an answer is.
RespostaBoa(r) ==
  /\ r.lista = Index_RetrieveEntry(r.word)
  /\ ESequencia(r.linha)
  /\ Len(r.word) \in 1 .. MAX_WORD_SIZE => Pedaco(r.word, r.linha)

ConsultaInv ==
  /\ ESequencia(linhas) /\ \A n \in 1 .. Len(linhas) : LinhaBoa(linhas[n])
  /\ \E n \in Nat : posLinha = n * MAX_WORD_SIZE
  /\ posLinha # 0 => pc = "linhas" /\ linhas # <<>> /\ posLinha < Len(Head(linhas))
  /\ resposta # NULL => pc \in {"arquivo", "linhas"} /\ RespostaBoa(resposta)

LEMMA QueryInit == SearchInit => ConsultaInv
<1> SUFFICES ASSUME SearchInit PROVE ConsultaInv
  OBVIOUS
<1>1. linhas = <<>> /\ posLinha = 0 /\ resposta = NULL
  BY DEF SearchInit
<1>2. ESequencia(linhas) /\ \A n \in 1 .. Len(linhas) : LinhaBoa(linhas[n])
  BY <1>1 DEF ESequencia
<1>3. 0 \in Nat /\ posLinha = 0 * MAX_WORD_SIZE
  BY <1>1, SearchAssumption
<1>4. QED  BY <1>1, <1>2, <1>3 DEF ConsultaInv

LEMMA QuerySingle ==
  ASSUME ConsultaInv, TestServiceBySingleWord
  PROVE  ConsultaInv'
<1>1. pc = "palavra" /\ pc' = "arquivo" /\ UNCHANGED <<index, linhas, posLinha>>
  BY DEF TestServiceBySingleWord, construido
<1>2. resposta = NULL /\ posLinha = 0
  BY <1>1 DEF ConsultaInv
<1>3. \A r : RespostaBoa(r)' <=> RespostaBoa(r)
  BY <1>1 DEF RespostaBoa, Index_RetrieveEntry
<1>4. CASE resposta' = resposta
  BY <1>1, <1>2, <1>4 DEF ConsultaInv
<1>5. CASE \E word \in Perguntas : QueryWord(word, word)
  <2>1. PICK word \in Perguntas : QueryWord(word, word)
    BY <1>5
  <2>2. /\ resposta'.word = word /\ resposta'.linha = word
        /\ resposta'.lista = Index_RetrieveEntry(word)
    BY <2>1 DEF QueryWord
  <2>3. ESequencia(word)
    BY SearchAssumption
  <2>4. RespostaBoa(resposta')
    BY <2>2, <2>3, WholeWord DEF RespostaBoa
  <2>5. QED  BY <1>1, <1>2, <1>3, <2>4 DEF ConsultaInv
<1>6. QED  BY <1>4, <1>5 DEF TestServiceBySingleWord

LEMMA QueryLine ==
  ASSUME ConsultaInv, TestServiceByFileOfWords
  PROVE  ConsultaInv'
<1> DEFINE l == Head(linhas)
           L == Len(l)
           M == MAX_WORD_SIZE
           fim == Min({L, posLinha + maxWordSize})
           T == Range(linhas)
<1>1. pc = "linhas" /\ pc' = pc /\ linhas # <<>> /\ index' = index
      /\ QueryWord(Despida(SubSeq(l, posLinha + 1, fim)), Despida(l))
      /\ IF fim = L THEN linhas' = Tail(linhas) /\ posLinha' = 0
         ELSE posLinha' = fim /\ UNCHANGED linhas
  BY DEF TestServiceByFileOfWords, construido
<1>2. ESequencia(linhas) /\ \A n \in 1 .. Len(linhas) : LinhaBoa(linhas[n])
  BY DEF ConsultaInv
<1>3. linhas \in Seq(T) /\ Len(linhas) \in Nat \ {0} /\ l = linhas[1]
  BY <1>1, <1>2, LineSeq
<1>4. LinhaBoa(l)
  BY <1>2, <1>3
<1>5. l \in Seq(Range(l)) /\ L \in Nat \ {0}
  <2>1. ESequencia(l) /\ l # <<>>
    BY <1>4 DEF LinhaBoa
  <2>2. l \in Seq(Range(l)) /\ L \in Nat
    BY <2>1, LineSeq
  <2>3. QED  BY <2>1, <2>2
<1>6. PICK n \in Nat : posLinha = n * M
  BY DEF ConsultaInv
<1>7. M \in Nat \ {0} /\ maxWordSize = M
  BY SearchAssumption DEF maxWordSize
<1>8. posLinha \in Nat
  BY <1>6, <1>7, Times
<1>9. posLinha < L
  BY <1>5, <1>8 DEF ConsultaInv
<1> HIDE DEF l, M
<1>10. fim = IF L <= posLinha + M THEN L ELSE posLinha + M
  <2>1. {L, posLinha + M} \subseteq Nat /\ {L, posLinha + M} # {}
    BY <1>5, <1>7, <1>8
  <2>2. Min({L, posLinha + M}) \in {L, posLinha + M}
        /\ \A y \in {L, posLinha + M} : Min({L, posLinha + M}) <= y
    BY <2>1, MinIs
  <2>3. QED  BY <1>5, <1>7, <1>8, <2>2
<1> HIDE DEF fim
<1>11. RespostaBoa(resposta')
  <2> DEFINE w == Despida(SubSeq(l, posLinha + 1, fim))
             d == Despida(l)
  <2>1. ESequencia(d) /\ Pedaco(w, d)
    BY <1>4, <1>6, <1>9, <1>10, PieceOfLine DEF M
  <2>2. resposta'.word = w /\ resposta'.linha = d /\ resposta'.lista = Index_RetrieveEntry(w)
    BY <1>1 DEF QueryWord
  <2> HIDE DEF w, d
  <2>3. QED  BY <2>1, <2>2 DEF RespostaBoa
<1>12. RespostaBoa(resposta)'
  BY <1>1, <1>11 DEF RespostaBoa, Index_RetrieveEntry
<1>13. CASE fim = L
  <2>1. linhas' = Tail(linhas) /\ posLinha' = 0
    BY <1>1, <1>13
  <2>2. /\ Tail(linhas) \in Seq(T) /\ Len(Tail(linhas)) = Len(linhas) - 1
        /\ \A k \in 1 .. Len(Tail(linhas)) : Tail(linhas)[k] = linhas[k + 1]
    BY <1>1, <1>3, HeadTailProperties
  <2>3. ESequencia(linhas')
    BY <2>1, <2>2, SeqLine
  <2>4. ASSUME NEW k \in 1 .. Len(linhas') PROVE LinhaBoa(linhas'[k])
    <3>1. k + 1 \in 1 .. Len(linhas) /\ linhas'[k] = linhas[k + 1]
      BY <1>3, <2>1, <2>2
    <3>2. QED  BY <1>2, <3>1
  <2>5. 0 \in Nat /\ posLinha' = 0 * M
    BY <1>7, <2>1
  <2>6. QED  BY <1>1, <1>12, <2>1, <2>3, <2>4, <2>5 DEF ConsultaInv, LinhaBoa, M
<1>14. CASE fim # L
  <2>1. posLinha' = posLinha + M /\ posLinha' < L /\ linhas' = linhas
    BY <1>1, <1>5, <1>7, <1>8, <1>10, <1>14
  <2>2. n + 1 \in Nat /\ posLinha' = (n + 1) * M
    BY <1>6, <1>7, <2>1
  <2>3. posLinha' < Len(Head(linhas'))
    BY <2>1 DEF l
  <2>4. QED  BY <1>1, <1>2, <1>12, <2>1, <2>2, <2>3 DEF ConsultaInv, LinhaBoa, M
<1>15. QED  BY <1>13, <1>14

LEMMA QueryNext == TabelaInv /\ ConsultaInv /\ [SearchNext]_searchVars => ConsultaInv'
<1> SUFFICES ASSUME TabelaInv, ConsultaInv, [SearchNext]_searchVars PROVE ConsultaInv'
  OBVIOUS
<1>1. CASE TestServiceBySingleWord
  BY <1>1, QuerySingle
<1>2. CASE TestServiceByFileOfWords
  BY <1>2, QueryLine
<1>3. CASE OpenQueryFile
  <2>1. pc = "arquivo" /\ resposta' = NULL /\ posLinha' = posLinha
        /\ (linhas' = linhas \/ linhas' \in Consultas)
    BY <1>3 DEF OpenQueryFile
  <2>2. ESequencia(linhas') /\ \A n \in 1 .. Len(linhas') : LinhaBoa(linhas'[n])
    BY <2>1, SearchAssumption DEF ConsultaInv, LinhaBoa
  <2>3. posLinha = 0 /\ \E n \in Nat : posLinha = n * MAX_WORD_SIZE
    BY <2>1 DEF ConsultaInv
  <2>4. QED  BY <2>1, <2>2, <2>3 DEF ConsultaInv, LinhaBoa
<1>4. CASE UNCHANGED <<linhas, posLinha, resposta>> /\ resposta = NULL /\ posLinha = 0
  BY <1>4 DEF ConsultaInv, LinhaBoa
<1>5. CASE UNCHANGED searchVars
  BY <1>5 DEF searchVars, ConsultaInv, LinhaBoa, RespostaBoa, Index_RetrieveEntry
<1>6. CASE CloseQueryFile
  BY <1>6 DEF CloseQueryFile, ConsultaInv, LinhaBoa
<1>7. pc \notin {"arquivo", "linhas"} => resposta = NULL /\ posLinha = 0
  BY DEF ConsultaInv
<1>8. CASE BuildDiskIndex \/ ServerMode \/ Accept \/ ProcessQuery
  <2>1. pc \notin {"arquivo", "linhas"} /\ UNCHANGED <<linhas, posLinha, resposta>>
    BY <1>8 DEF BuildDiskIndex, Scan_File, Scan_TreeAndIndex, NextDirent, EndDirectory, EndScan,
                ServerMode, Accept, ProcessQuery, perguntas
  <2>2. QED  BY <1>4, <1>7, <2>1
<1>9. QED
  BY <1>1, <1>2, <1>3, <1>5, <1>6, <1>8
     DEF SearchNext, SearchMain, TestService, SearchExit

LEMMA QueryInvariance == SearchSpec => []ConsultaInv
BY TableInvariance, QueryInit, QueryNext, PTL DEF SearchSpec

\* What is kept of a sequence.
LEMMA AnswerIs ==
  ASSUME NEW s, ESequencia(s), NEW B, B \subseteq Range(s)
  PROVE  /\ ToSet(Escolhidos(s, B)) = B
         /\ IsInjective(s) => IsInjective(Escolhidos(s, B))
<1> DEFINE T == Range(s)
           r == Escolhidos(s, B)
           m == Len(s)
<1>1. s \in Seq(T) /\ m \in Nat /\ DOMAIN s = 1 .. m
  BY LineSeq
<1>2. PICK f : Enumera(T, s, B, r, f, m)
  BY <1>1, ChosenIs
<1> HIDE DEF r, m, T
<1>3. /\ r \in Seq(T) /\ f \in [1 .. Len(r) -> 1 .. m]
      /\ \A j \in 1 .. Len(r) : r[j] = s[f[j]] /\ s[f[j]] \in B
      /\ \A i, j \in 1 .. Len(r) : i < j => f[i] < f[j]
      /\ \A k \in 1 .. m : s[k] \in B => \E j \in 1 .. Len(r) : f[j] = k
  BY <1>2 DEF Enumera
<1>4. DOMAIN r = 1 .. Len(r) /\ Len(r) \in Nat
  BY <1>3
<1>5. ToSet(r) = {r[j] : j \in 1 .. Len(r)}
  BY <1>4 DEF ToSet
<1>6. \A e \in B : \E j \in 1 .. Len(r) : r[j] = e
  <2>1. ASSUME NEW e \in B PROVE \E j \in 1 .. Len(r) : r[j] = e
    <3>1. PICK k \in 1 .. m : s[k] = e
      BY <1>1 DEF Range
    <3>2. QED  BY <1>3, <3>1
  <2>2. QED  BY <2>1
<1>7. ToSet(r) = B
  BY <1>3, <1>5, <1>6
<1>8. ASSUME IsInjective(s), NEW i \in 1 .. Len(r), NEW j \in 1 .. Len(r), r[i] = r[j]
      PROVE  i = j
  <2>1. f[i] \in DOMAIN s /\ f[j] \in DOMAIN s /\ s[f[i]] = s[f[j]]
    BY <1>1, <1>3, <1>8
  <2>2. f[i] = f[j]
    BY <1>8, <2>1 DEF IsInjective
  <2>3. f[i] \in Int /\ f[j] \in Int
    BY <1>3
  <2>4. ~(f[i] < f[j]) /\ ~(f[j] < f[i])
    BY <2>2, <2>3
  <2>5. ~(i < j) /\ ~(j < i)
    BY <1>3, <2>4
  <2>6. QED  BY <1>4, <2>5
<1>9. IsInjective(s) => IsInjective(r)
  BY <1>4, <1>8 DEF IsInjective
<1>10. QED  BY <1>7, <1>9 DEF r

\* A word of a file that is asked for in pieces has a keyword for each.
LEMMA PieceOccurs ==
  ASSUME NEW chars, ESequencia(chars), NEW l, ESequencia(l), EPalavra(l, chars),
         NEW w, Len(w) \in 1 .. MAX_WORD_SIZE, Pedaco(w, l)
  PROVE  \E o \in Ocorrencias(chars) : o.keyword = w
<1> DEFINE M == MAX_WORD_SIZE
           L == Len(l)
           C == Len(chars)
<1>1. /\ chars \in Seq(Range(chars)) /\ C \in Nat /\ DOMAIN chars = 1 .. C
      /\ L \in Nat /\ M \in Nat \ {0}
  BY LineSeq, SearchAssumption
<1>2. PICK i \in 1 .. C :
        LET j == i + L - 1
        IN /\ Corrida(chars, i, j) /\ l = SubSeq(chars, i, j)
           /\ ~Letra(chars, i - 1) /\ ~Letra(chars, j + 1)
  BY <1>1 DEF EPalavra
<1>3. PICK n \in Nat : LET a == n * M
                           b == IF L <= a + M THEN L ELSE a + M
                       IN a <= L /\ w = SubSeq(l, a + 1, b)
  BY DEF Pedaco
<1> DEFINE a == n * M
           b == IF L <= a + M THEN L ELSE a + M
           j == i + L - 1
           x == i + a
           y == i + b - 1
<1>4. a \in Nat /\ n <= a
  <2>1. a \in Nat
    BY <1>1, Times
  <2>2. M - 1 \in Nat /\ n * (M - 1) \in Nat
    BY <1>1, Times
  <2>3. a = n * (M - 1) + n
    BY <1>1
  <2>4. QED  BY <2>1, <2>2, <2>3
<1>5. /\ a <= L /\ w = SubSeq(l, a + 1, b) /\ Corrida(chars, i, j) /\ l = SubSeq(chars, i, j)
      /\ ~Letra(chars, i - 1) /\ ~Letra(chars, j + 1)
  BY <1>2, <1>3
<1> HIDE DEF a, M, L, C
<1>6. b \in Nat /\ a <= b /\ b <= L /\ b - a <= M /\ (b - a < M => b = L)
  BY <1>1, <1>4, <1>5
<1> HIDE DEF b
<1>7. L \in Nat \ {0} => j <= C /\ j \in 1 .. C
  <2>1. SUFFICES ASSUME L # 0 PROVE j <= C /\ j \in 1 .. C
    BY <1>1
  <2>2. j \in i .. j
    BY <1>1, <2>1
  <2>3. Letra(chars, j)
    BY <1>5, <2>2 DEF Corrida
  <2>4. j \in 1 .. C
    BY <1>1, <2>3 DEF Letra
  <2>5. QED  BY <1>1, <2>4
<1>8. a < b
  <2>1. CASE ~(a < b)
    <3>1. b < a + 1 /\ a + 1 \in Int /\ b \in Int
      BY <1>4, <1>6, <2>1
    <3>2. w = <<>>
      BY <1>5, <3>1, SubSeqEmpty
    <3>3. Len(w) = 0
      BY <3>2
    <3>4. QED  BY <1>1, <3>3
  <2>2. QED  BY <2>1
<1>9. L # 0 /\ j \in Nat /\ j <= C /\ j \in 1 .. C
  BY <1>1, <1>4, <1>6, <1>7, <1>8
<1>10. w = SubSeq(chars, x, y)
  <2>1. PICK p \in Nat \ {0} : p = a + 1
    BY <1>4
  <2>2. PICK m \in Nat : m = x
    BY <1>4
  <2>3. PICK q \in Nat : q = y
    BY <1>4, <1>6, <1>8
  <2>4. m = i + p - 1 /\ q = i + b - 1 /\ q <= j /\ i \in Nat \ {0} /\ j <= Len(chars)
    BY <1>1, <1>4, <1>6, <1>9, <2>1, <2>2, <2>3 DEF C
  <2> HIDE DEF j, x, y
  <2>5. SubSeq(SubSeq(chars, i, j), p, b) = SubSeq(chars, m, q)
    BY <1>1, <1>6, <1>9, <2>4, SliceOfSlice
  <2>6. QED  BY <1>5, <2>1, <2>2, <2>3, <2>5
<1>11. x \in DOMAIN chars /\ y \in DOMAIN chars /\ x <= y
  BY <1>1, <1>4, <1>6, <1>8, <1>9
<1>12. Corrida(chars, x, y) /\ Corrida(chars, i, x - 1)
  <2>1. (\A k \in x .. y : k \in i .. j) /\ \A k \in i .. x - 1 : k \in i .. j
    BY <1>1, <1>4, <1>5, <1>6
  <2> HIDE DEF j, x, y
  <2>2. QED  BY <1>5, <2>1 DEF Corrida
<1>13. y - x + 1 = M \/ (y - x + 1 < M /\ ~Letra(chars, y + 1))
  <2>1. y - x + 1 = b - a
    BY <1>4, <1>6
  <2>2. CASE b - a = M
    BY <2>1, <2>2
  <2>3. CASE b - a < M
    <3>1. y + 1 = j + 1
      BY <1>6, <2>3
    <3>2. QED  BY <1>5, <2>1, <2>3, <3>1
  <2>4. b - a = M \/ b - a < M
    BY <1>1, <1>4, <1>6
  <2>5. QED  BY <2>2, <2>3, <2>4
<1>14. n \in 0 .. C /\ x - n * M = i /\ i > 0
  BY <1>1, <1>4, <1>6, <1>8, <1>9 DEF a
<1> HIDE DEF x, y, j
<1>15. Ocorre(chars, x, y)
  <2>1. n \in 0 .. Len(chars) /\ LET inicio == x - n * MAX_WORD_SIZE
                                 IN /\ inicio > 0 /\ ~Letra(chars, inicio - 1)
                                    /\ Corrida(chars, inicio, x - 1)
    BY <1>5, <1>12, <1>14 DEF C, M
  <2>2. QED  BY <1>11, <1>12, <1>13, <2>1 DEF Ocorre, M
<1>16. PICK o : o = [keyword |-> SubSeq(chars, x, y), offset |-> x]
  OBVIOUS
<1>17. o \in Ocorrencias(chars)
  BY <1>15, <1>16, OccurrenceIs
<1>18. QED  BY <1>10, <1>16, <1>17

\* The index has only words of regular files that could be opened, and all
\* those of each or of one of its equals, unless that one lay too deep.
LEMMA IndexWhole ==
  ASSUME DiscoInv, TabelaInv, RegistroInv, CompletaInv, ~Cortados, img.ruins = {},
         pc \notin {"scan", "entradas", "falha"}
  PROVE  /\ \A e \in Range(index) : /\ e.pathname \in Regulares /\ ~Funda(e.pathname)
                                    /\ e \in EntradasDe(e.pathname)
         /\ \A p \in Regulares : ~Funda(p) =>
              \/ EntradasDe(p) \subseteq Range(index)
              \/ discardDups /\ \E q \in Iguais(p) : EntradasDe(q) \subseteq Range(index) \/ Funda(q)
<1>1. \A p : Lida(p)
  BY DEF Lida, Legivel
<1>2. \A e \in Range(index) : /\ e.pathname \in Regulares /\ ~Funda(e.pathname)
                              /\ e \in EntradasDe(e.pathname)
  BY <1>1 DEF RegistroInv, Indexada
<1>3. \A p \in Regulares : Servida(p, index)
  BY NothingPending DEF CompletaInv, Completa
<1>4. QED  BY <1>2, <1>3 DEF Servida, Posta

\* Two equal files are in the index only when the later could not be compared.
LEMMA IndexedOnce ==
  ASSUME RegistroInv, ~Cortados, img.ruins = {}, discardDups,
         NEW e \in Range(index), NEW f \in Range(index),
         e.pathname # f.pathname, e.pathname \in Iguais(f.pathname)
  PROVE  \E p \in {e.pathname, f.pathname} : MAX_FILES - Len(p) < 2
<1>1. PICK g \in Range(store), h \in Range(store) :
        g.pathname = e.pathname /\ h.pathname = f.pathname
  BY DEF RegistroInv, Armazenada
<1>2. PICK i \in DOMAIN store, j \in DOMAIN store : store[i] = g /\ store[j] = h
  BY DEF Range
<1>3. i \in Nat /\ j \in Nat
  BY DEF RegistroInv, ESequencia
<1>4. i < j \/ j < i
  BY <1>1, <1>2, <1>3
<1>5. \A p : Lida(p)
  BY DEF Lida, Legivel
<1>6. Arquivo(g.pathname).dados = Arquivo(h.pathname).dados
  BY <1>1 DEF Iguais
<1>7. QED  BY <1>1, <1>2, <1>4, <1>5, <1>6 DEF RegistroInv, StoredOnce

LEMMA QueryHolds ==
  DiscoInv /\ TabelaInv /\ RegistroInv /\ UnicoInv /\ CompletaInv /\ ConsultaInv => QueryRight
<1> SUFFICES ASSUME DiscoInv, TabelaInv, RegistroInv, UnicoInv, CompletaInv, ConsultaInv,
                    resposta # NULL, ~Cortados, img.ruins = {}
             PROVE  QueryRight
  BY DEF QueryRight
<1> DEFINE w == resposta.word
           l == resposta.linha
           r == resposta.lista
           B == {e \in Range(index) : e.keyword = w}
           S == {q \in Regulares : ~Funda(q)}
<1>1. /\ pc \in {"arquivo", "linhas"} /\ r = Escolhidos(index, B) /\ ESequencia(l)
      /\ Len(w) \in 1 .. MAX_WORD_SIZE => Pedaco(w, l)
  BY DEF ConsultaInv, RespostaBoa, Index_RetrieveEntry
<1>2. /\ \A e \in Range(index) : e.pathname \in S /\ e \in EntradasDe(e.pathname)
      /\ \A p \in S :
           \/ EntradasDe(p) \subseteq Range(index)
           \/ discardDups /\ \E q \in Iguais(p) : EntradasDe(q) \subseteq Range(index) \/ Funda(q)
  BY <1>1, IndexWhole
<1>3. ESequencia(index)
  BY DEF RegistroInv
<1>4. ToSet(r) = B /\ (IsInjective(index) => IsInjective(r))
  BY <1>1, <1>3, AnswerIs
<1>5. ~Repetidos => IsInjective(index)
  BY DEF UnicoInv, Unico, IsInjective
<1>6. \A p : Lugares(p) = {e \in EntradasDe(p) : e.keyword = w}
  BY DEF Lugares
<1> HIDE DEF r, w, l
<1>7. \A p : EntradasDe(p) \subseteq Range(index) => Lugares(p) \subseteq B
  BY <1>6
<1>8. B \subseteq UNION {Lugares(p) : p \in S}
  BY <1>2, <1>6
<1>9. \A p \in S : \/ Lugares(p) \subseteq B
                   \/ discardDups /\ \E q \in Iguais(p) : Lugares(q) \subseteq B \/ Funda(q)
  BY <1>2, <1>7
<1>10. discardDups =>
         \A e, f \in B : e.pathname # f.pathname /\ e.pathname \in Iguais(f.pathname)
                        => \E p \in {e.pathname, f.pathname} : MAX_FILES - Len(p) < 2
  BY IndexedOnce
<1>11. ASSUME NEW p \in S, NEW q \in {p} \cup Iguais(p), Lugares(q) \subseteq B,
              Len(w) \in 1 .. MAX_WORD_SIZE, EPalavra(l, Arquivo(p).dados)
       PROVE  r # <<>>
  <2> DEFINE chars == Arquivo(p).dados
  <2>1. ESequencia(chars)
    <3>1. Valida(arquivos) /\ p \in Caminhos(arquivos)
      BY DEF DiscoInv, Regulares
    <3>2. Destino(arquivos, p) \in 1 .. Len(arquivos)
      BY <3>1, TreeFacts
    <3>3. QED  BY <3>1, <3>2, FileFacts DEF Arquivo
  <2>2. PICK o \in Ocorrencias(chars) : o.keyword = w
    BY <1>1, <1>11, <2>1, PieceOccurs
  <2>3. Arquivo(q).dados = chars
    BY DEF Iguais
  <2> HIDE DEF chars
  <2>4. PICK e \in EntradasDe(q) : e.keyword = w
    <3>1. PICK e : e = [keyword |-> o.keyword, pathname |-> q, offset |-> o.offset]
      OBVIOUS
    <3>2. e \in EntradasDe(q) /\ e.keyword = o.keyword
      BY <2>3, <3>1 DEF EntradasDe
    <3>3. QED  BY <2>2, <3>2
  <2>5. e \in ToSet(r)
    BY <1>4, <1>6, <1>11, <2>4
  <2>6. QED  BY <2>5 DEF ToSet
<1>12. ASSUME NEW p \in S, Len(w) \in 1 .. MAX_WORD_SIZE, EPalavra(l, Arquivo(p).dados)
       PROVE  \/ r # <<>>
              \/ discardDups /\ \E q \in Iguais(p) : Funda(q)
  <2>1. \/ Lugares(p) \subseteq B
        \/ discardDups /\ \E q \in Iguais(p) : Lugares(q) \subseteq B \/ Funda(q)
    BY <1>9
  <2> HIDE DEF B, S
  <2>2. QED  BY <1>11, <1>12, <2>1
<1>13. QED  BY <1>4, <1>5, <1>8, <1>9, <1>10, <1>12 DEF QueryRight, w, r, l

\* An answer has nothing but places of the word, once each: all those of the
\* files that could be opened with -u, and by default those of one of each
\* content; a word of a file that is asked for line by line is always found,
\* unless the file of its content that was stored lay too deep.
THEOREM QueriesAnswered == SearchSpec => []QueryRight
BY TableInvariance, RecordsInvariance, UniqueInvariance, CompleteInvariance, QueryInvariance,
   QueryHolds, PTL
================================================================================
