--------------------------- MODULE DiskImageAccess ----------------------------
(***************************************************************************)
(* 1/diskimageaccess.c on one image: main, the dump of all inodes (-i) and *)
(* the dump of all paths (-p), a step for each inode and each directory    *)
(* entry. The stack of DumpPathAndChildren is explicit.                    *)
(***************************************************************************)
EXTENDS V6Disk

CONSTANT maxNumEntries      \* of direntries[], 10000

\* A directory fits direntries[].
ASSUME EntriesAssumption ==
  /\ maxNumEntries \in Nat
  /\ \A par \in Imagens : \A i \in 1..Len(par.arquivos) :
       EDiretorio(par.arquivos[i]) => Len(par.arquivos[i].dados) <= maxNumEntries

VARIABLES inodes,           \* lines of -i
          caminhos          \* lines of -p

vars == <<arquivos, img, lixo, pc, inumber, pilha, inodes, caminhos>>

Init ==
  /\ OpenImage
  /\ pc = "main" /\ inumber = 1 /\ pilha = <<>> /\ inodes = {} /\ caminhos = {}

\* main opens the image and goes on with the options of the command line:
\* -i, -p, both in this order, or none.
Main ==
  /\ pc = "main"
  /\ \/ unixfilesystem_init(img) /\ pc' \in {"i", "p", "fim"}
     \/ ~unixfilesystem_init(img) /\ pc' = "falha"
  /\ UNCHANGED <<arquivos, img, lixo, inumber, pilha, inodes, caminhos>>
-------------------------------------------------------------------------------
\* A mutant: s_isize taken for the number of inodes.
SectorsForInodes(n) == n < img.s_isize

UltimoInode(n) == n < img.s_isize * INODES_POR_SETOR

DumpInodeChecksum ==
  /\ pc = "i" /\ UltimoInode(inumber)
  /\ LET in == inode_iget(img, inumber)
         chksum == chksumfile_byinumber(img, inumber)
     IN IF in = Erro
        THEN pc' \in {"p", "fim"} /\ UNCHANGED <<inumber, inodes>>
        ELSE /\ inodes' = inodes \cup
                  (IF chksum = Erro THEN {} ELSE {[inumber |-> inumber, chksum |-> chksum]})
             /\ inumber' = inumber + 1 /\ UNCHANGED pc
  /\ UNCHANGED <<arquivos, img, lixo, pilha, caminhos>>

EndInodes ==
  /\ pc = "i" /\ ~UltimoInode(inumber)
  /\ pc' \in {"p", "fim"}
  /\ UNCHANGED <<arquivos, img, lixo, inumber, pilha, inodes, caminhos>>
-------------------------------------------------------------------------------
\* A mutant: the entries of the last block are left out when it is not full.
WholeBlocksOnly(n) ==
  LET in == inode_iget(img, n)
  IN IF in = Erro THEN <<>>
     ELSE IF ~Alocado(in) \/ IFMT(in) # {"IFDIR"} THEN <<>>
     ELSE FlattenSeq([b \in 1..(inode_getsize(in) \div DISKIMG_SECTOR_SIZE) |->
                        file_getblock(img, n, b - 1).buf])

\* The entries of a directory, <<>> also when it is none.
GetDirEntries(n) ==
  LET in == inode_iget(img, n)
      Entradas(b) == LET lido == file_getblock(img, n, b - 1)
                     IN SubSeq(lido.buf, 1, lido.bytes)
      todas == FlattenSeq([b \in 1..quantBlocos(inode_getsize(in)) |-> Entradas(b)])
  IN IF in = Erro THEN <<>>
     ELSE IF ~Alocado(in) \/ IFMT(in) # {"IFDIR"} THEN <<>>
     ELSE SubSeq(todas, 1, Min({maxNumEntries, Len(todas)}))

\* A call for one path up to its loop over the entries, from a stack.
DumpPath(base, path, n) ==
  LET in == inode_iget(img, n)
      chksum1 == chksumfile_byinumber(img, n)
      chksum2 == chksumfile_bypathname(img, path, lixo)
      quadro == [path |-> path, ents |-> GetDirEntries(n), i |-> 1]
      impresso == in # Erro /\ chksum1 # Erro /\ chksum2 # Erro
                  /\ chksumfile_compare(chksum1, chksum2)
  IN IF in # Erro /\ ~Alocado(in)
     THEN pc' = "abort" /\ pilha' = base /\ UNCHANGED caminhos      \* the assert
     ELSE /\ pc' = "entradas"
          /\ caminhos' = caminhos \cup
               (IF impresso THEN {[path |-> path, inumber |-> n, chksum |-> chksum2]} ELSE {})
          /\ pilha' = IF impresso /\ IFMT(in) = {"IFDIR"} THEN Append(base, quadro) ELSE base

DumpPathnameChecksum ==
  /\ pc = "p"
  /\ DumpPath(<<>>, <<>>, ROOT_INUMBER)
  /\ UNCHANGED <<arquivos, img, lixo, inumber, inodes>>

Topo == Last(pilha)
Avancada == [pilha EXCEPT ![Len(pilha)].i = @ + 1]
Restam == pc = "entradas" /\ pilha # <<>>

NextEntry ==
  /\ Restam /\ Topo.i <= Len(Topo.ents)
  /\ IF Especial(Topo.ents[Topo.i].d_name)
     THEN pilha' = Avancada /\ UNCHANGED <<pc, caminhos>>
     ELSE \E resto \in {<<>>, <<Lixo>>} :
            DumpPath(Avancada, Append(Topo.path, Nome(Topo.ents, Topo.i, resto)),
                     Topo.ents[Topo.i].d_inumber)
  /\ UNCHANGED <<arquivos, img, lixo, inumber, inodes>>

Return ==
  /\ Restam /\ Topo.i > Len(Topo.ents)
  /\ pilha' = Front(pilha)
  /\ UNCHANGED <<arquivos, img, lixo, pc, inumber, inodes, caminhos>>

EndPaths ==
  /\ pc = "entradas" /\ pilha = <<>>
  /\ pc' = "fim"
  /\ UNCHANGED <<arquivos, img, lixo, inumber, pilha, inodes, caminhos>>

Exit == pc \in {"fim", "abort", "falha"} /\ UNCHANGED vars

Next == \/ Main \/ DumpInodeChecksum \/ EndInodes
        \/ DumpPathnameChecksum \/ NextEntry \/ Return \/ EndPaths \/ Exit

Spec == Init /\ [][Next]_vars
-------------------------------------------------------------------------------
\* Types; the loop over the inodes stays in the table.
TypeOK ==
  /\ pc \in {"main", "i", "p", "entradas", "fim", "abort", "falha"}
  /\ inumber \in 1..(img.s_isize * INODES_POR_SETOR)
  /\ \A f \in Range(pilha) : f.i \in 1..(Len(f.ents) + 1)
  /\ \A l \in inodes \cup caminhos : l.inumber \in Inumbers

\* Whatever the size of a file, of one unit or of the last doubly indirect
\* block, its inode, its blocks and the bytes of the last one are the file's:
\* inode_indexlookup and file_getblock agree with the layout of the disk.
BlocksRight ==
  pc = "main" => \A i \in Inumbers :
    Legivel(i) /\ arquivos[i].mode # {} => chksumfile_byinumber(img, i) = arquivos[i].dados

\* A path of the tree leads to its inumber, whatever is deleted or cut short
\* in the directories on its way. Names that fill d_name are not found.
LookupAgrees ==
  pc = "main" /\ Inteira => \A p \in Caminhos(arquivos) :
    (\A k \in 1..Len(p) : p[k][1] \notin Completos) =>
      pathname_lookup(img, p, lixo) = Destino(arquivos, p)

\* -i: what is printed of an inode is its file, and at the end all allocated
\* inodes are printed but the one in the last slot of the table, where the
\* loop of DumpInodeChecksum does not come. The types hold, with the numbers
\* of inodes in the table.
InodesDumped ==
  /\ TypeOK
  /\ \A l \in inodes : Legivel(l.inumber) => l.chksum = arquivos[l.inumber].dados
  /\ pc \notin {"main", "i", "falha"} /\ inumber > 1 /\ Inteira =>
       {l.inumber : l \in inodes} =
         {i \in Inumbers : "IALLOC" \in arquivos[i].mode
                           /\ i < img.s_isize * INODES_POR_SETOR}

\* -p: a line whose path is made of whole names has the inumber that path
\* has in the tree, and the checksum of that file: the path and the inode
\* are compared before the line is printed.
PathsTrue ==
  \A l \in caminhos :
    (\A k \in 1..Len(l.path) : Len(l.path[k]) = 1) /\ Inteira =>
      /\ Destino(arquivos, l.path) = l.inumber
      /\ l.chksum = arquivos[l.inumber].dados

\* -p: the walk ends in the assert only over a deleted entry, and if it ends
\* well on a readable tree without names of full length it printed it all.
TreeDumped ==
  /\ pc = "abort" => Removidas
  /\ pc = "fim" /\ caminhos # {} /\ Inteira /\ ~Cortados =>
       {l.path : l \in caminhos} = Caminhos(arquivos)

\* pathname.h says that an error gives a negative number. For a component
\* that does not exist pathname_lookup gives the directory it got to.
LookupFails ==
  pc = "main" => \A p \in Caminhos(arquivos) : p # <<>> =>
    pathname_lookup(img, Append(p, <<"nada">>), lixo) \notin Nat
===============================================================================
