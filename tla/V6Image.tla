------------------------------- MODULE V6Image --------------------------------
(***************************************************************************)
(* The layout of a disk as 1/unixfilesystem.h and 1/ino.h describe it, and *)
(* the reference the reader is compared with: arquivos gives every inumber *)
(* its mode and the units of the file. Each file has a region of the disk  *)
(* for its blocks, its pointer sectors and its sector of double pointers.  *)
(***************************************************************************)
EXTENDS V6FileSystem

CONSTANTS MaxBlocos,      \* blocks of the longest file
          Diretos         \* blocks a small inode has addresses for, 8

\* The blocks that the addresses of an inode reach.
ASSUME LayoutAssumption ==
  /\ Diretos \in Nat /\ MaxBlocos \in Nat
  /\ MaxBlocos <= (Indiretos + PONTEIROS_POR_SETOR) * PONTEIROS_POR_SETOR

Livre == [mode |-> {}, dados |-> <<>>]
Zeros == [d_name |-> "", d_inumber |-> 0]

MaxPonteiros == quantBlocos(MaxBlocos * DISKIMG_SECTOR_SIZE) \div PONTEIROS_POR_SETOR + 1
Regiao == MaxBlocos + MaxPonteiros + 1

ISize(arquivos) == (Len(arquivos) + INODES_POR_SETOR - 1) \div INODES_POR_SETOR
Dados(arquivos) == INODE_START_SECTOR + ISize(arquivos)       \* the first data sector

Bloco(arquivos, i, b) == Dados(arquivos) + (i - 1) * Regiao + b
SetorPonteiros(arquivos, i, q) == Bloco(arquivos, i, MaxBlocos + q)
SetorDuplo(arquivos, i) == Bloco(arquivos, i, Regiao - 1)

Grande(arq) == quantBlocos(Len(arq.dados)) > Diretos

Inode(arquivos, i) ==
  LET arq == IF i \in DOMAIN arquivos THEN arquivos[i] ELSE Livre
  IN [mode |-> arq.mode \cup (IF Grande(arq) THEN {"ILARG"} ELSE {}),
      size0 |-> Len(arq.dados) \div Low,
      size1 |-> Len(arq.dados) % Low,
      addr |-> [k \in 1..(IF Grande(arq) THEN Indiretos + 1 ELSE Diretos) |->
                  IF arq.mode = {} THEN 0
                  ELSE IF ~Grande(arq) THEN Bloco(arquivos, i, k - 1)
                  ELSE IF k <= Indiretos THEN SetorPonteiros(arquivos, i, k - 1)
                  ELSE SetorDuplo(arquivos, i)]]

\* Pointers past the end of the file are 0.
SetorDeDados(arquivos, i, r) ==
  IF r < MaxBlocos
  THEN [k \in 1..DISKIMG_SECTOR_SIZE |->
          LET n == r * DISKIMG_SECTOR_SIZE + k
          IN IF n <= Len(arquivos[i].dados) THEN arquivos[i].dados[n] ELSE Zeros]
  ELSE [k \in 1..PONTEIROS_POR_SETOR |->
          LET b == (r - MaxBlocos) * PONTEIROS_POR_SETOR + k - 1
              q == Indiretos + k - 1
          IN IF r < Regiao - 1
             THEN IF b < MaxBlocos THEN Bloco(arquivos, i, b) ELSE 0
             ELSE IF q < MaxPonteiros THEN SetorPonteiros(arquivos, i, q) ELSE 0]

\* The end of the superblock is padding: read as inodes it is free ones.
Formatar(arquivos, ruins) ==
  LET primeiro == Dados(arquivos)
      Conteudo(s) ==
        IF s < primeiro
        THEN [k \in 1..INODES_POR_SETOR |->
                Inode(arquivos, (s - INODE_START_SECTOR) * INODES_POR_SETOR + k)]
        ELSE SetorDeDados(arquivos, 1 + (s - primeiro) \div Regiao, (s - primeiro) % Regiao)
  IN [magic |-> TRUE, s_isize |-> ISize(arquivos), ruins |-> ruins,
      setores |-> [s \in SUPERBLOCK_SECTOR..(primeiro + Len(arquivos) * Regiao - 1) |->
                     Conteudo(s)]]
-------------------------------------------------------------------------------
\* The reference: what a path of whole names leads to, 0 if nothing.
EDiretorio(arq) == "IFDIR" \in arq.mode /\ "IFCHR" \notin arq.mode

Filho(arquivos, i, nome) ==
  LET achados == {k \in 1..Len(arquivos[i].dados) : arquivos[i].dados[k].d_name = nome}
  IN IF i = 0 THEN 0
     ELSE IF ~EDiretorio(arquivos[i]) \/ achados = {} THEN 0
     ELSE arquivos[i].dados[Min(achados)].d_inumber

Destino(arquivos, path) ==
  LET passo[k \in 0..Len(path)] ==
        IF k = 0 THEN ROOT_INUMBER ELSE Filho(arquivos, passo[k - 1], path[k][1])
  IN passo[Len(path)]

\* The paths of the tree, through live entries other than "." and "..".
Especial(nome) == nome \in {".", ".."}
Viva(e) == ~Especial(e.d_name) /\ e.d_inumber # 0
Dirents(arq) == {arq.dados[k] : k \in 1..Len(arq.dados)}
Abaixo(arquivos, p) ==
  LET i == Destino(arquivos, p)
  IN IF i = 0 THEN {}
     ELSE IF ~EDiretorio(arquivos[i]) THEN {}
     ELSE {Append(p, <<e.d_name>>) : e \in {d \in Dirents(arquivos[i]) : Viva(d)}}
Caminhos(arquivos) ==
  LET nivel[d \in 0..Len(arquivos)] ==
        IF d = 0 THEN {<<>>} ELSE UNION {Abaixo(arquivos, p) : p \in nivel[d - 1]}
  IN UNION {nivel[d] : d \in 0..Len(arquivos)}
-------------------------------------------------------------------------------
\* The file systems that the kernel makes: a file has as many blocks as fit,
\* an entry that is not deleted has an allocated inode, and a name comes first
\* in its directory while it is not deleted; directories are a tree.
ESequencia(s) == Len(s) \in Nat /\ s = [k \in 1..Len(s) |-> s[k]]

Aloca(arquivos, e) ==
  /\ e.d_inumber \in 0..Len(arquivos)
  /\ e.d_inumber # 0 => "IALLOC" \in arquivos[e.d_inumber].mode

Primeira(ents, k) == \A j \in 1..(k - 1) : ents[j].d_name # ents[k].d_name

Arvore(arquivos) ==
  \E nivel \in [1..Len(arquivos) -> 1..Len(arquivos)] :
    \A i \in 1..Len(arquivos) : EDiretorio(arquivos[i]) =>
      \A e \in Dirents(arquivos[i]) : Viva(e) => nivel[i] < nivel[e.d_inumber]

Valida(arquivos) ==
  /\ ESequencia(arquivos) /\ Len(arquivos) >= ROOT_INUMBER
  /\ EDiretorio(arquivos[ROOT_INUMBER]) /\ Arvore(arquivos)
  /\ \A i \in 1..Len(arquivos) :
       LET arq == arquivos[i]
       IN /\ arq.mode \subseteq {"IALLOC", "IFDIR", "IFCHR"}
          /\ arq.mode # {} => "IALLOC" \in arq.mode
          /\ ESequencia(arq.dados) /\ Len(arq.dados) <= MaxBlocos * DISKIMG_SECTOR_SIZE
          /\ arq.dados # Erro
          /\ EDiretorio(arq) =>
               /\ \A e \in Dirents(arq) : Aloca(arquivos, e)
               /\ \A k \in 1..Len(arq.dados) :
                    arq.dados[k].d_inumber # 0 => Primeira(arq.dados, k)
  /\ \A i \in 0..(ISize(arquivos) * INODES_POR_SETOR) : Inode(arquivos, i) # Erro
===============================================================================
