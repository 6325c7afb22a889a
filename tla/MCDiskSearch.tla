----------------------------- MODULE MCDiskSearch ------------------------------
(***************************************************************************)
(* Images for DiskSearch: words cut at MAX_WORD_SIZE and at the end of a   *)
(* block, files of one content at every depth, a file too deep to be       *)
(* opened, deleted entries, names of full length, unreadable sectors.      *)
(***************************************************************************)
EXTENDS DiskSearch

Ent(nome, i) == [d_name |-> nome, d_inumber |-> i]
Dir(ents) == [mode |-> {"IALLOC", "IFDIR"},
              dados |-> <<Ent(".", 1), Ent("..", 1)>> \o ents]
Arq(chars) == [mode |-> {"IALLOC"}, dados |-> chars]
Disp == [mode |-> {"IALLOC", "IFCHR"}, dados |-> <<>>]

Textos == UNION {[1..n -> {"a", "b", "1"}] : n \in 0..2}
          \cup {<<"a", "b", "1", "b">>, <<"a", "b", "a", "b", "a">>, <<"1", "a", "b", "a", "1", "b">>}

\* A file in the root; the next in a directory, the last in one below it.
Raizes == {<<Ent("f", 4), Ent("d", 2)>>, <<Ent("d", 2), Ent("x", 0), Ent("f", 4)>>,
           <<Ent("f", 4), Ent("d", 2), Ent("f", 0)>>,
           <<Ent("d", 2), Ent("f", 4), Ent("g", 5)>>, <<Ent("d", 2), Ent("completo", 4)>>}
Subdirs == {<<Ent("e", 3), Ent("g", 5)>>, <<Ent("g", 5), Ent("g2", 4), Ent("e", 3)>>,
            <<Ent("completo", 5), Ent("e", 3)>>}
Palavra == <<"a", "b", "1", "a">>
Arvores == {<<Dir(r), Dir(s), Dir(e), Arq(Palavra), u>> :
              r \in Raizes, s \in Subdirs, e \in {<<>>, <<Ent("h", 5)>>},
              u \in {Arq(Palavra), Arq(<<"b">>), Disp}}
Lidos == {<<Dir(<<Ent("f", 4), Ent("d", 2)>>), Dir(<<Ent("g", 5)>>), Livre, Arq(t), Arq(t)>> :
            t \in Textos}
\* The file that lies too deep is stored first, the other is left out for it.
Perdidos == {<<Dir(<<Ent("d", 2), Ent("f", 4)>>), Dir(<<Ent("e", 3)>>), Dir(<<Ent("h", 5)>>),
               Arq(Palavra), Arq(Palavra)>>}

\* The inode 5 is in a sector of its own, 3 and 4 are in one.
AsImagens ==
  {[arquivos |-> a, ruins |-> {}] : a \in Arvores \cup Lidos \cup Perdidos}
  \cup {[arquivos |-> a, ruins |-> {INODE_START_SECTOR + n}] :
          a \in {t \in Arvores : t[5] = Arq(Palavra) /\ t[3] = Dir(<<>>)}, n \in {1, 2}}
  \cup {[arquivos |-> a, ruins |-> {Bloco(a, 4, n)}] :
          a \in {t \in Arvores : t[5] = Arq(Palavra) /\ t[3] = Dir(<<>>)}, n \in {0, 1}}
\* Lines of no letter, of less than a buffer, of one, and longer; the last line
\* of a file may have no newline.
AsConsultas ==
  {<< <<"a", "fim">>, <<"a", "b", "a", "b", "a", "fim">>, <<"b">> >>,
   << <<"fim">>, <<"a", "b", "fim">>, <<"b", "a", "1", "b">> >>}
\* The last is a word of some file, longer than a keyword.
AsPerguntas == {<<"a">>, <<"a", "b">>, <<"b", "b">>, <<"a", "b", "a", "b", "a">>}
================================================================================
