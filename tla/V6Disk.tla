-------------------------------- MODULE V6Disk ---------------------------------
(***************************************************************************)
(* What the programs of 1/ and 2/ that read a disk image have in common:   *)
(* an image of some files, which does not change while they run, and a     *)
(* walk over its tree, whose calls that have not returned are a stack.     *)
(***************************************************************************)
EXTENDS V6Image

CONSTANT Imagens            \* pairs of arquivos and ruins

\* The blocks of directories can be read: what garbage would mean as directory
\* entries is left out.
ASSUME ImagensAssumption ==
  \A par \in Imagens :
    /\ Valida(par.arquivos)
    /\ \A i \in 1..Len(par.arquivos) : EDiretorio(par.arquivos[i]) =>
         \A r \in 0..(Regiao - 1) : Bloco(par.arquivos, i, r) \notin par.ruins

VARIABLES arquivos, img,
          lixo,             \* the inumber that uninitialised stack holds
          pc, inumber,
          pilha             \* frames of the walk, outermost first

\* An image is one of a file system, or of something else.
OpenImage ==
  /\ \E par \in Imagens :
       /\ arquivos = par.arquivos
       /\ img \in {Formatar(par.arquivos, par.ruins),
                   [Formatar(par.arquivos, par.ruins) EXCEPT !.magic = FALSE]}
  /\ lixo \in {0, ROOT_INUMBER}
-------------------------------------------------------------------------------
Inumbers == 1..Len(arquivos)

\* The sectors that hold a file: its inode, blocks and pointers.
Setores(i) ==
  {INODE_START_SECTOR + (i - 1) \div INODES_POR_SETOR} \cup
  {Bloco(arquivos, i, r) : r \in 0..(Regiao - 1)}
Legivel(i) == Setores(i) \cap img.ruins = {}
Inteira == \A i \in Inumbers : Legivel(i)

Nomes == UNION {{arquivos[i].dados[k] : k \in 1..Len(arquivos[i].dados)} :
                  i \in {j \in Inumbers : EDiretorio(arquivos[j])}}
Cortados == \E e \in Nomes : e.d_name \in Completos
Removidas == \E e \in Nomes : e.d_inumber = 0
================================================================================
