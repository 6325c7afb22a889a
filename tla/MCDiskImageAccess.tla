--------------------------- MODULE MCDiskImageAccess ---------------------------
(***************************************************************************)
(* Images for DiskImageAccess: one file of every size up to the last       *)
(* doubly indirect block, directories that grow over two blocks with       *)
(* deleted entries, names of full length and a device, and every sector    *)
(* of a file or inode unreadable in turn.                                  *)
(***************************************************************************)
EXTENDS DiskImageAccess

Ent(nome, i) == [d_name |-> nome, d_inumber |-> i]
Dir(ents) == [mode |-> {"IALLOC", "IFDIR"},
              dados |-> <<Ent(".", 1), Ent("..", 1)>> \o ents]
Letras == <<"a", "b">>
Arq(n) == [mode |-> {"IALLOC"}, dados |-> [k \in 1..n |-> Ent(Letras[1 + (k % 2)], k)]]
Disp == [mode |-> {"IALLOC", "IFCHR"}, dados |-> <<>>]

Tamanhos == 0..(MaxBlocos * DISKIMG_SECTOR_SIZE)

\* The root, a directory, a file and one more of something.
Raizes == {<<Ent("d", 2)>>, <<Ent("d", 2), Ent("f", 3)>>,
           <<Ent("d", 2), Ent("x", 0), Ent("f", 3)>>,
           <<Ent("completo", 3), Ent("d", 2)>>, <<Ent("d", 2), Ent("completo", 3)>>}
Subdirs == {<<>>, <<Ent("g", 4)>>, <<Ent("x", 0), Ent("g", 4)>>,
            <<Ent("completo", 4), Ent("x", 0)>>, <<Ent("completo", 4), Ent("g", 3)>>}
Arvores == {<<Dir(r), Dir(s), Arq(n), u>> :
              r \in Raizes, s \in Subdirs, n \in {0, 3}, u \in {Arq(2), Disp, Dir(<<>>), Livre}}

\* Every sector of inodes, of the file 3 and its pointers is bad in turn.
Sozinho(n) == <<Dir(<<Ent("d", 2), Ent("f", 3)>>), Dir(<<Ent("g", 4)>>), Arq(n), Arq(2)>>
Ruins(a) == {INODE_START_SECTOR, INODE_START_SECTOR + 1}
            \cup {Bloco(a, 3, r) : r \in 0..(Regiao - 1)}

AsImagens ==
  {[arquivos |-> a, ruins |-> {}] : a \in {t \in Arvores : t[4] # Livre \/ t[2] = Dir(<<>>)}}
  \cup UNION {{[arquivos |-> Sozinho(n), ruins |-> R] :
                 R \in {{}} \cup {{r} : r \in Ruins(Sozinho(n))}} : n \in Tamanhos}
================================================================================
