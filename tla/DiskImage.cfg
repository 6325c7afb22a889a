\* Sectors of two units, two inodes or two pointers, two singly indirect
\* addresses: a file of eight blocks uses every kind of address.
SPECIFICATION Spec
CONSTANTS
  DISKIMG_SECTOR_SIZE = 2
  INODES_POR_SETOR = 2
  PONTEIROS_POR_SETOR = 2
  Indiretos = 2
  Low = 4
  MaxBlocos = 8
  Diretos = 3
  maxNumEntries = 5
  Completos = {"completo"}
  Erro = Erro
  Lixo = Lixo
  Imagens <- AsImagens
INVARIANTS
  BlocksRight
  LookupAgrees
  InodesDumped
  PathsTrue
  TreeDumped
