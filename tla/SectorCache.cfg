\* A KB of one sector leaves three descriptors, for four sectors, any of which
\* may be past the end.
SPECIFICATION Spec
CONSTANTS
  Setores = {1, 2, 3, 4}
  Conteudos = {a, b}
  FIM = FIM
  DISKIMG_SECTOR_SIZE = 512
  cacheSizeInKB = 4
  KB = 1
  tamanhoInodes = 1
  Zeros = a
  listaLivres = listaLivres
  listaLRU = listaLRU
INVARIANTS
  TableRight
  LeastRecentEvicted
PROPERTIES
  ReadsTheDisk
