\* Sectors of two units and words of two letters; three open files: the files
\* of the root can be compared, those below can be read, the next ones not.
SPECIFICATION SearchSpec
CONSTANTS
  DISKIMG_SECTOR_SIZE = 2
  INODES_POR_SETOR = 2
  PONTEIROS_POR_SETOR = 2
  Indiretos = 2
  Low = 4
  MaxBlocos = 3
  Diretos = 3
  Completos = {"completo"}
  Erro = Erro
  Lixo = Lixo
  NULL = NULL
  MAX_FILES = 3
  MAX_WORD_SIZE = 2
  Letras = {"a", "b"}
  Imagens <- AsImagens
  Perguntas <- AsPerguntas
  Consultas <- AsConsultas
  NovaLinha = "fim"
INVARIANTS
  FilesHeld
  IndexTrue
  StoredOnce
  IndexComplete
  QueryRight
PROPERTIES
  Indexed
