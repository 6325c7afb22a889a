---------------------------- MODULE V6FileSystem ------------------------------
(***************************************************************************)
(* The reader of Unix v6 disk images of 1/ (2/assign1 holds a copy): from  *)
(* sectors to inodes, file blocks, directories, path names and checksums.  *)
(*                                                                         *)
(* An image is a record                                                    *)
(*   magic     the boot sector begins with 0407                            *)
(*   s_isize   the field of the superblock: sectors of inodes              *)
(*   setores   the contents of the sectors that exist                      *)
(*   ruins     the sectors whose read fails                                *)
(* A unit of size stands for one directory entry in a directory and for    *)
(* one character in any other file; a sector of either is a sequence of    *)
(* DISKIMG_SECTOR_SIZE units. What a buffer nobody filled holds is Lixo.   *)
(* A SHA-1 digest is the sequence it is the digest of: no collisions.      *)
(***************************************************************************)
EXTENDS Integers, SequencesExt

CONSTANTS DISKIMG_SECTOR_SIZE,      \* in units; 32 entries in the code
          INODES_POR_SETOR,         \* 16
          PONTEIROS_POR_SETOR,      \* 256
          Indiretos,                \* singly indirect addresses of a large inode, 7
          Low,                      \* values of i_size1, 2^16
          Completos,                \* the names that fill all 14 bytes of d_name
          Erro, Lixo

ASSUME SizesAssumption ==
  /\ \A n \in {DISKIMG_SECTOR_SIZE, INODES_POR_SETOR, PONTEIROS_POR_SETOR, Indiretos, Low} :
       n \in Nat \ {0}
  /\ Erro \notin Int

SUPERBLOCK_SECTOR == 1
INODE_START_SECTOR == 2
ROOT_INUMBER == 1
-------------------------------------------------------------------------------
\* lseek refuses a negative offset, and read an unreadable sector.
Falha(img, setor) == setor = Erro \/ setor \in img.ruins

\* The buffer after diskimg_readsector: nothing is read past the end.
readsector(img, setor) ==
  IF ~Falha(img, setor) /\ setor \in DOMAIN img.setores
  THEN img.setores[setor]
  ELSE [i \in 1..DISKIMG_SECTOR_SIZE |-> Lixo]

\* For inumber 0, a deleted entry, the last slot of the sector before the
\* first: the division of a negative number by a size_t rounds down.
inode_iget(img, inumber) ==
  LET setor == INODE_START_SECTOR + (inumber - 1) \div INODES_POR_SETOR
  IN IF Falha(img, setor) THEN Erro
     ELSE readsector(img, setor)[1 + ((inumber - 1) % INODES_POR_SETOR)]

Alocado(ind) == "IALLOC" \in ind.mode
IFMT(ind) == ind.mode \cap {"IFDIR", "IFCHR"}      \* both bits: IFBLK

inode_getsize(ind) == ind.size0 * Low + ind.size1

\* The n-th pointer of a sector of pointers.
Ponteiro(img, setor, n) ==
  IF Falha(img, setor) THEN Erro ELSE readsector(img, setor)[n + 1]

\* A mutant: every doubly indirect block is looked up in the first sector.
FirstOfDouble(img, ind, blockNum) ==
  LET setor == blockNum \div PONTEIROS_POR_SETOR
  IN IF "ILARG" \notin ind.mode
     THEN ind.addr[blockNum + 1]
     ELSE Ponteiro(img, IF setor < Indiretos THEN ind.addr[setor + 1]
                        ELSE Ponteiro(img, ind.addr[Indiretos + 1], 0),
                   blockNum % PONTEIROS_POR_SETOR)

inode_indexlookup(img, ind, blockNum) ==
  LET setor == blockNum \div PONTEIROS_POR_SETOR
      n == blockNum % PONTEIROS_POR_SETOR
  IN IF "ILARG" \notin ind.mode
     THEN ind.addr[blockNum + 1]
     ELSE IF setor < Indiretos
     THEN Ponteiro(img, ind.addr[setor + 1], n)
     ELSE Ponteiro(img, Ponteiro(img, ind.addr[Indiretos + 1], setor - Indiretos), n)

\* The valid bytes and the buffer. No error is looked at.
file_getblock(img, inumber, blockNum) ==
  LET ind == inode_iget(img, inumber)
      size == inode_getsize(ind)
      resto == size % DISKIMG_SECTOR_SIZE
  IN [bytes |-> IF resto # 0 /\ size \div DISKIMG_SECTOR_SIZE = blockNum
                THEN resto ELSE DISKIMG_SECTOR_SIZE,
      buf |-> readsector(img, inode_indexlookup(img, ind, blockNum))]

\* The blocks of a file of some size.
quantBlocos(size) == (size + DISKIMG_SECTOR_SIZE - 1) \div DISKIMG_SECTOR_SIZE
-------------------------------------------------------------------------------
(* Directories. d_name has no terminator when the name fills it: the C     *)
(* string goes on with the inumber of the next entry, whose high byte is 0 *)
(* in an image of fewer than 256 inodes, or with what follows the buffer.  *)

Nome(ents, i, resto) ==
  LET nome == ents[i].d_name
  IN IF nome \notin Completos THEN <<nome>>
     ELSE IF i = Len(ents) THEN <<nome>> \o resto
     ELSE IF ents[i + 1].d_inumber = 0 THEN <<nome>>
     ELSE <<nome, ents[i + 1].d_inumber>>

\* A mutant: only whole blocks are searched.
FindInWholeBlocks(img, nome, dirinumber) ==
  LET ind == inode_iget(img, dirinumber)
      achados == {n \in (1..(inode_getsize(ind) \div DISKIMG_SECTOR_SIZE)) \X (1..DISKIMG_SECTOR_SIZE) :
                    Nome(file_getblock(img, dirinumber, n[1] - 1).buf, n[2], <<Lixo>>) = nome}
      n == CHOOSE a \in achados : TRUE
  IN IF "IFDIR" \notin ind.mode \/ achados = {} THEN Erro
     ELSE file_getblock(img, dirinumber, n[1] - 1).buf[n[2]].d_inumber

\* The inumber of the entry, or Erro.
directory_findname(img, nome, dirinumber) ==
  LET ind == inode_iget(img, dirinumber)
      size == inode_getsize(ind)
      lidos == FlattenSeq([b \in 1..quantBlocos(size) |->
                             file_getblock(img, dirinumber, b - 1).buf])
      achados == {i \in 1..size : Nome(lidos, i, <<Lixo>>) = nome}
  IN IF "IFDIR" \notin ind.mode \/ achados = {} THEN Erro
     ELSE lidos[Min(achados)].d_inumber

\* One token: the error of directory_findname is ignored, and diretorioAtual
\* keeps the last entry found, before there is one whatever the stack holds.
Componente(img, token, atual) ==
  LET r == directory_findname(img, token, atual.inode)
      ent == IF r = Erro THEN atual.ent ELSE r
  IN [inode |-> ent, ent |-> ent]

\* A path is the sequence of the names strtok finds in it.
pathname_lookup(img, pathname, diretorioAtual) ==
  LET passo[k \in 0..Len(pathname)] ==
        IF k = 0 THEN [inode |-> ROOT_INUMBER, ent |-> diretorioAtual]
        ELSE Componente(img, pathname[k], passo[k - 1])
  IN passo[Len(pathname)].inode
-------------------------------------------------------------------------------
\* The digest is over the bytes of every block, whether or not it was read.
chksumfile_byinumber(img, inumber) ==
  LET ind == inode_iget(img, inumber)
      Bytes(b) == LET lido == file_getblock(img, inumber, b - 1)
                  IN SubSeq(lido.buf, 1, lido.bytes)
  IN IF ind = Erro THEN Erro
     ELSE IF ~Alocado(ind) THEN Erro
     ELSE FlattenSeq([b \in 1..quantBlocos(inode_getsize(ind)) |-> Bytes(b)])

chksumfile_bypathname(img, pathname, lixo) ==
  chksumfile_byinumber(img, pathname_lookup(img, pathname, lixo))

\* A mutant: the digests are not compared.
AlwaysEqual(chksum1, chksum2) == TRUE

\* A mutant: 0 for equality, as memcmp has it.
Different(chksum1, chksum2) == chksum1 # chksum2

chksumfile_compare(chksum1, chksum2) == chksum1 = chksum2

unixfilesystem_init(img) == img.magic /\ ~Falha(img, SUPERBLOCK_SECTOR)
===============================================================================
