---------------------------- MODULE DiskImageProofs -----------------------------
(***************************************************************************)
(* Theorems about DiskImageAccess for images of every size and layout.     *)
(* First that inode_indexlookup and file_getblock undo what V6Image says   *)
(* of where inodes, blocks and pointers are; then that the blocks put      *)
(* together are the file, that a path of the tree is looked up as it       *)
(* should be, and that the two dumps print the table and the tree.         *)
(***************************************************************************)
EXTENDS DiskImageAccess, FiniteSetTheorems, SequenceTheorems, WellFoundedInduction, TLAPS

\* Induction over numbers and definition by recursion, as facts about sets
\* and functions.
Less == {ss \in Nat \X Nat : ss[1] < ss[2]}

LEMMA LeastExists ==
  ASSUME NEW T, T \subseteq Nat, T # {}
  PROVE  \E x \in T : \A y \in T : x <= y
<1>1. IsWellFoundedOn(Less, Nat)
  <2>1. Less = OpToRel(<, Nat)
    BY DEF Less, OpToRel
  <2>2. QED  BY <2>1, NatLessThanWellFounded
<1>2. PICK x \in T : \A y \in T : <<y, x>> \notin Less
  BY <1>1, WFMin
<1>3. ASSUME NEW y \in T PROVE x <= y
  <2>1. x \in Nat /\ y \in Nat /\ (y < x => <<y, x>> \in Less)
    BY DEF Less
  <2>2. QED  BY <2>1, <1>2
<1>4. QED  BY <1>3

LEMMA UpTo ==
  ASSUME NEW n \in Nat, NEW S, 0 \in S, \A k \in 0 .. n - 1 : k \in S => k + 1 \in S
  PROVE  \A k \in 0 .. n : k \in S
<1> SUFFICES ASSUME (0 .. n) \ S # {} PROVE FALSE
  OBVIOUS
<1>1. PICK m \in (0 .. n) \ S : \A k \in (0 .. n) \ S : m <= k
  <2>1. (0 .. n) \ S \subseteq Nat
    OBVIOUS
  <2>2. QED  BY <2>1, LeastExists
<1>2. m - 1 \in 0 .. n - 1
  OBVIOUS
<1>3. m - 1 \in S
  BY <1>1, <1>2
<1>4. (m - 1) + 1 \in S
  BY <1>2, <1>3
<1>5. QED  BY <1>4

\* The functions that are defined from their value for the number before.
Steps(n, T) == [(1 .. n) \X T -> T]
Recursive(n, T, base, h, r) ==
  r \in [0 .. n -> T] /\ r[0] = base /\ \A k \in 1 .. n : r[k] = h[<<k, r[k - 1]>>]

LEMMA Recursion ==
  ASSUME NEW n \in Nat, NEW T, NEW base \in T, NEW h \in Steps(n, T)
  PROVE  \E r : Recursive(n, T, base, h, r)
<1> USE DEF Steps, Recursive
<1> DEFINE Ok(m, r) == r[0] = base /\ \A k \in 1 .. m : r[k] = h[<<k, r[k - 1]>>]
           S == {m \in 0 .. n : \E r \in [0 .. n -> T] : Ok(m, r)}
<1>1. 0 \in S
  <2>1. [k \in 0 .. n |-> base] \in [0 .. n -> T] /\ Ok(0, [k \in 0 .. n |-> base])
    OBVIOUS
  <2> HIDE DEF Ok
  <2>2. QED  BY <2>1
<1>2. ASSUME NEW m \in 0 .. n - 1, m \in S PROVE m + 1 \in S
  <2>1. PICK r \in [0 .. n -> T] : Ok(m, r)
    BY <1>2
  <2> DEFINE t == [r EXCEPT ![m + 1] = h[<<m + 1, r[m]>>]]
  <2>2. m + 1 \in 1 .. n /\ m \in 0 .. n /\ <<m + 1, r[m]>> \in (1 .. n) \X T
    OBVIOUS
  <2>3. h[<<m + 1, r[m]>>] \in T
    BY <2>2
  <2>4. t \in [0 .. n -> T]
    BY <2>2, <2>3
  <2>5. Ok(m + 1, t)
    <3>1. t[0] = base
      BY <2>1, <2>2
    <3>2. ASSUME NEW k \in 1 .. m + 1 PROVE t[k] = h[<<k, t[k - 1]>>]
      <4>1. t[k - 1] = r[k - 1]
        BY <2>2
      <4>2. CASE k = m + 1
        BY <4>1, <4>2, <2>2
      <4>3. CASE k \in 1 .. m
        BY <4>1, <4>3, <2>1, <2>2
      <4>4. QED  BY <4>2, <4>3
    <3>3. QED  BY <3>1, <3>2
  <2> HIDE DEF Ok, t
  <2>6. QED  BY <2>2, <2>4, <2>5
<1>3. n \in S
  <2> HIDE DEF S
  <2>1. QED  BY <1>1, <1>2, UpTo
<1>4. QED  BY <1>3
-------------------------------------------------------------------------------

LEMMA DivMod ==
  ASSUME NEW n \in Int, NEW m \in Nat \ {0}
  PROVE  n \div m \in Int /\ n % m \in 0 .. m - 1 /\ n = (n \div m) * m + (n % m)
OBVIOUS

LEMMA DivUnique ==
  ASSUME NEW q \in Int, NEW m \in Nat \ {0}, NEW r \in 0 .. m - 1
  PROVE  (q * m + r) \div m = q /\ (q * m + r) % m = r
OBVIOUS

LEMMA Times ==
  ASSUME NEW p \in Int, NEW q \in Int, NEW m \in Nat
  PROVE  /\ p * m \in Int /\ (p \in Nat => p * m \in Nat)
         /\ p <= q => p * m <= q * m
         /\ p < q => p * m + m <= q * m
OBVIOUS

LEMMA DivBounds ==
  ASSUME NEW n \in Int, NEW m \in Nat \ {0}, NEW q \in Int
  PROVE  (n >= q * m => n \div m >= q) /\ (n < q * m => n \div m < q)
<1> DEFINE d == n \div m
           r == n % m
<1>1. d \in Int /\ r \in 0 .. m - 1 /\ n = d * m + r
  BY DivMod
<1> HIDE DEF d, r
<1>2. ASSUME n >= q * m, d < q PROVE FALSE
  <2>1. d * m + m <= q * m
    BY <1>1, <1>2, Times
  <2> DEFINE x == d * m
             y == q * m
  <2>2. x \in Int /\ y \in Int
    BY <1>1, Times
  <2> HIDE DEF x, y
  <2>3. n = x + r /\ n >= y /\ x + m <= y
    BY <1>1, <1>2, <2>1 DEF x, y
  <2>4. QED  BY <1>1, <2>2, <2>3
<1>3. ASSUME n < q * m, d >= q PROVE FALSE
  <2>1. q * m <= d * m
    BY <1>1, <1>3, Times
  <2> DEFINE x == d * m
             y == q * m
  <2>2. x \in Int /\ y \in Int
    BY <1>1, Times
  <2> HIDE DEF x, y
  <2>3. n = x + r /\ n < y /\ y <= x
    BY <1>1, <1>3, <2>1 DEF x, y
  <2>4. QED  BY <1>1, <2>2, <2>3
<1>4. QED  BY <1>1, <1>2, <1>3 DEF d

LEMMA Sizes ==
  /\ DISKIMG_SECTOR_SIZE \in Nat \ {0} /\ INODES_POR_SETOR \in Nat \ {0}
  /\ PONTEIROS_POR_SETOR \in Nat \ {0} /\ Indiretos \in Nat \ {0} /\ Low \in Nat \ {0}
  /\ Erro \notin Int /\ Diretos \in Nat /\ MaxBlocos \in Nat
BY SizesAssumption, LayoutAssumption

\* So many units of m as n has begun.
LEMMA RoundUp ==
  ASSUME NEW n \in Nat, NEW m \in Nat \ {0}
  PROVE  LET q == (n + m - 1) \div m
         IN q \in Nat /\ n <= q * m /\ \A b \in 1 .. q : (b - 1) * m < n
<1> DEFINE N == n + m - 1
           q == N \div m
           r == N % m
<1>1. N \in Int
  OBVIOUS
<1> HIDE DEF N
<1>2. q \in Int /\ r \in 0 .. m - 1 /\ N = q * m + r
  BY <1>1, DivMod
<1>3. q >= 0
  <2>1. N >= 0 * m
    BY DEF N
  <2>2. QED  BY <1>1, <2>1, DivBounds
<1> HIDE DEF q, r
<1>4. n <= q * m
  BY <1>2, Times DEF N
<1>5. ASSUME NEW b \in 1 .. q PROVE (b - 1) * m < n
  <2> DEFINE x == (b - 1) * m
             y == q * m
  <2>1. x + m <= y
    BY <1>2, Times
  <2>2. x \in Int /\ y \in Int
    BY <1>2, Times
  <2>3. N = y + r
    BY <1>2
  <2> HIDE DEF x, y
  <2>4. x < n
    BY <1>2, <2>1, <2>2, <2>3 DEF N
  <2>5. QED  BY <2>4 DEF x
<1>6. QED  BY <1>2, <1>3, <1>4, <1>5 DEF N, q

\* Of a file of some size, quantBlocos is the number of blocks it begins.
LEMMA Blocks ==
  ASSUME NEW size \in Nat
  PROVE  /\ quantBlocos(size) \in Nat /\ size <= quantBlocos(size) * DISKIMG_SECTOR_SIZE
         /\ \A b \in 1 .. quantBlocos(size) : (b - 1) * DISKIMG_SECTOR_SIZE < size
BY Sizes, RoundUp DEF quantBlocos

LEMMA Pointers ==
  /\ MaxPonteiros \in Nat \ {0} /\ Regiao \in Nat \ {0}
  /\ Regiao = MaxBlocos + MaxPonteiros + 1
  /\ MaxPonteiros - 1 = MaxBlocos \div PONTEIROS_POR_SETOR
<1>1. quantBlocos(MaxBlocos * DISKIMG_SECTOR_SIZE) = MaxBlocos
  <2>1. DISKIMG_SECTOR_SIZE - 1 \in 0 .. DISKIMG_SECTOR_SIZE - 1 /\ MaxBlocos \in Int
    BY Sizes
  <2>2. (MaxBlocos * DISKIMG_SECTOR_SIZE + (DISKIMG_SECTOR_SIZE - 1)) \div DISKIMG_SECTOR_SIZE
        = MaxBlocos
    BY <2>1, Sizes, DivUnique
  <2>3. MaxBlocos * DISKIMG_SECTOR_SIZE + (DISKIMG_SECTOR_SIZE - 1)
        = MaxBlocos * DISKIMG_SECTOR_SIZE + DISKIMG_SECTOR_SIZE - 1
    BY Sizes, Times
  <2>4. QED  BY <2>2, <2>3 DEF quantBlocos
<1>2. MaxBlocos \div PONTEIROS_POR_SETOR \in Nat
  BY Sizes
<1>3. QED  BY <1>1, <1>2, Sizes DEF MaxPonteiros, Regiao
-------------------------------------------------------------------------------
\* Where the inodes and the blocks of the files are on the disk.
Formatada(im, a) ==
  /\ im.s_isize = ISize(a)
  /\ \A i \in 0 .. ISize(a) * INODES_POR_SETOR :
       LET s == INODE_START_SECTOR + (i - 1) \div INODES_POR_SETOR
       IN /\ s \in DOMAIN im.setores /\ s \in SUPERBLOCK_SECTOR .. Dados(a) - 1
          /\ im.setores[s][1 + ((i - 1) % INODES_POR_SETOR)] = Inode(a, i)
  /\ \A i \in 1 .. Len(a), r \in 0 .. Regiao - 1 :
       /\ Bloco(a, i, r) \in DOMAIN im.setores /\ Bloco(a, i, r) \in Nat
       /\ im.setores[Bloco(a, i, r)] = SetorDeDados(a, i, r)

LEMMA TableSize ==
  ASSUME NEW a, Valida(a)
  PROVE  /\ Len(a) \in Nat \ {0} /\ DOMAIN a = 1 .. Len(a) /\ ISize(a) \in Nat \ {0}
         /\ Len(a) <= ISize(a) * INODES_POR_SETOR
<1>1. Len(a) \in Nat /\ Len(a) >= 1 /\ a = [k \in 1 .. Len(a) |-> a[k]]
  BY DEF Valida, ESequencia, ROOT_INUMBER
<1>2. DOMAIN a = 1 .. Len(a)
  BY <1>1
<1>3. ISize(a) \in Nat /\ Len(a) <= ISize(a) * INODES_POR_SETOR
  BY <1>1, Sizes, RoundUp DEF ISize
<1>4. ISize(a) # 0
  BY <1>1, <1>3, Sizes
<1>5. QED  BY <1>1, <1>2, <1>3, <1>4

LEMMA Formatted ==
  ASSUME NEW a, Valida(a), NEW ruins, NEW im, im.s_isize = Formatar(a, ruins).s_isize,
         im.setores = Formatar(a, ruins).setores
  PROVE  Formatada(im, a)
<1> DEFINE I == INODES_POR_SETOR
           primeiro == Dados(a)
           ultimo == primeiro + Len(a) * Regiao - 1
<1>1. /\ I \in Nat \ {0} /\ Regiao \in Nat \ {0} /\ Len(a) \in Nat \ {0}
      /\ ISize(a) \in Nat \ {0} /\ primeiro = 2 + ISize(a) /\ primeiro \in Nat
  BY Sizes, Pointers, TableSize DEF Dados, INODE_START_SECTOR
<1>2. /\ DOMAIN im.setores = 1 .. ultimo
      /\ \A s \in 1 .. ultimo :
           im.setores[s] =
             IF s < primeiro THEN [k \in 1 .. I |-> Inode(a, (s - 2) * I + k)]
             ELSE SetorDeDados(a, 1 + (s - primeiro) \div Regiao, (s - primeiro) % Regiao)
  BY DEF Formatar, SUPERBLOCK_SECTOR, INODE_START_SECTOR
<1>3. im.s_isize = ISize(a)
  BY DEF Formatar
<1> HIDE DEF ultimo
<1>4. ASSUME NEW i \in 0 .. ISize(a) * I
      PROVE  LET s == 2 + (i - 1) \div I
             IN /\ s \in DOMAIN im.setores /\ s \in 1 .. primeiro - 1
                /\ im.setores[s][1 + ((i - 1) % I)] = Inode(a, i)
  <2> DEFINE n == i - 1
             q == n \div I
             r == n % I
  <2>0. n \in Int /\ n < ISize(a) * I /\ n >= -1
    BY <1>1, Times
  <2> HIDE DEF n
  <2>1. q \in Int /\ r \in 0 .. I - 1 /\ n = q * I + r
    BY <1>1, <2>0, DivMod
  <2>2. q >= -1
    <3>1. n >= -1 * I /\ -1 \in Int
      BY <1>1, <2>0
    <3>2. QED  BY <1>1, <2>0, <3>1, DivBounds
  <2>3. q < ISize(a)
    <3>1. ISize(a) \in Int
      BY <1>1
    <3>2. QED  BY <1>1, <2>0, <3>1, DivBounds
  <2> HIDE DEF q, r
  <2>4. 2 + q \in 1 .. primeiro - 1 /\ 2 + q \in 1 .. ultimo
    <3> DEFINE x == Len(a) * Regiao
    <3>1. x \in Nat /\ ultimo = primeiro + x - 1
      BY <1>1, Times DEF ultimo
    <3> HIDE DEF x, primeiro
    <3>2. QED  BY <1>1, <2>1, <2>2, <2>3, <3>1
  <2>5. (2 + q) - 2 = q /\ 2 + q < primeiro
    BY <1>1, <2>1, <2>4
  <2>6. im.setores[2 + q] = [k \in 1 .. I |-> Inode(a, ((2 + q) - 2) * I + k)]
    <3> HIDE DEF primeiro
    <3>1. QED  BY <1>2, <2>4, <2>5
  <2>7. 1 + r \in 1 .. I
    BY <1>1, <2>1
  <2>8. im.setores[2 + q][1 + r] = Inode(a, q * I + (1 + r))
    BY <2>5, <2>6, <2>7
  <2>9. q * I + (1 + r) = i
    <3> DEFINE x == q * I
    <3>1. x \in Int /\ n = x + r
      BY <1>1, <2>1, Times
    <3> HIDE DEF x
    <3>2. x + (1 + r) = i
      BY <2>0, <2>1, <3>1 DEF n
    <3>3. QED  BY <3>2 DEF x
  <2>10. QED  BY <1>2, <2>4, <2>8, <2>9 DEF q, r, n
<1>5. ASSUME NEW i \in 1 .. Len(a), NEW r \in 0 .. Regiao - 1
      PROVE  /\ Bloco(a, i, r) \in DOMAIN im.setores /\ Bloco(a, i, r) \in Nat
             /\ im.setores[Bloco(a, i, r)] = SetorDeDados(a, i, r)
  <2> DEFINE s == Bloco(a, i, r)
             x == (i - 1) * Regiao
             y == Len(a) * Regiao
             q == i - 1
  <2>1. s = primeiro + x + r
    BY DEF Bloco
  <2>2. x \in Nat /\ y \in Nat /\ x + Regiao <= y
    <3>1. i - 1 \in Nat /\ i - 1 < Len(a)
      BY <1>1
    <3>2. QED  BY <1>1, <3>1, Times
  <2>3. ultimo = primeiro + y - 1
    BY DEF ultimo
  <2> HIDE DEF s, x, y, primeiro
  <2>a. r \in Nat /\ r < Regiao /\ Regiao \in Nat /\ primeiro \in Nat /\ primeiro >= 1
    BY <1>1
  <2>b. s \in Nat /\ ultimo \in Int
    BY <2>1, <2>2, <2>3, <2>a
  <2>c. s - primeiro = x + r /\ ~(s < primeiro)
    BY <2>1, <2>2, <2>a, <2>b
  <2>d. s >= 1 /\ s <= ultimo
    BY <2>1, <2>2, <2>3, <2>a, <2>b
  <2>4. s \in 1 .. ultimo /\ ~(s < primeiro) /\ s - primeiro = x + r /\ s \in Nat
    BY <2>b, <2>c, <2>d
  <2>5. q \in Int /\ 1 + q = i /\ x = q * Regiao
    BY <1>1 DEF x
  <2> HIDE DEF q
  <2>6. (s - primeiro) \div Regiao = q /\ (s - primeiro) % Regiao = r
    BY <1>1, <2>4, <2>5, DivUnique
  <2>7. im.setores[s] = SetorDeDados(a, i, r)
    BY <1>2, <2>4, <2>5, <2>6
  <2>8. QED  BY <1>2, <2>4, <2>7 DEF s
<1>6. QED  BY <1>3, <1>4, <1>5 DEF Formatada, INODE_START_SECTOR, SUPERBLOCK_SECTOR
-------------------------------------------------------------------------------
\* Inodes.
SetorDoInode(i) == INODE_START_SECTOR + (i - 1) \div INODES_POR_SETOR

LEMMA InodeRead ==
  ASSUME NEW a, Valida(a), NEW im, Formatada(im, a),
         NEW i \in 0 .. ISize(a) * INODES_POR_SETOR
  PROVE  inode_iget(im, i) = IF SetorDoInode(i) \in im.ruins THEN Erro ELSE Inode(a, i)
<1> DEFINE s == SetorDoInode(i)
<1>1. s \in DOMAIN im.setores /\ im.setores[s][1 + ((i - 1) % INODES_POR_SETOR)] = Inode(a, i)
  BY DEF Formatada, SetorDoInode
<1>2. s \in SUPERBLOCK_SECTOR .. Dados(a) - 1
  BY DEF Formatada, SetorDoInode
<1>3. s # Erro
  BY <1>2, Sizes
<1>4. inode_iget(im, i) = IF Falha(im, s) THEN Erro
                          ELSE readsector(im, s)[1 + ((i - 1) % INODES_POR_SETOR)]
  BY DEF inode_iget, SetorDoInode
<1> HIDE DEF s
<1>5. Falha(im, s) <=> s \in im.ruins
  BY <1>3 DEF Falha
<1>6. ~Falha(im, s) => readsector(im, s) = im.setores[s]
  BY <1>1 DEF readsector
<1>7. QED  BY <1>1, <1>4, <1>5, <1>6 DEF s

LEMMA FileFacts ==
  ASSUME NEW a, Valida(a), NEW i \in 1 .. Len(a)
  PROVE  /\ a[i].mode \subseteq {"IALLOC", "IFDIR", "IFCHR"}
         /\ a[i].mode # {} => "IALLOC" \in a[i].mode
         /\ ESequencia(a[i].dados) /\ Len(a[i].dados) \in Nat /\ a[i].dados # Erro
         /\ Len(a[i].dados) <= MaxBlocos * DISKIMG_SECTOR_SIZE
         /\ i \in DOMAIN a
BY TableSize DEF Valida, ESequencia

\* The mode of an inode is that of its file, with ILARG for the large ones.
LEMMA Modes ==
  ASSUME NEW a, Valida(a), NEW i \in Int
  PROVE  /\ i \notin 1 .. Len(a) => Inode(a, i).mode = {}
         /\ i \in 1 .. Len(a) =>
              /\ Inode(a, i).mode = a[i].mode \cup (IF Grande(a[i]) THEN {"ILARG"} ELSE {})
              /\ Alocado(Inode(a, i)) <=> a[i].mode # {}
              /\ IFMT(Inode(a, i)) = a[i].mode \cap {"IFDIR", "IFCHR"}
              /\ "IFDIR" \in Inode(a, i).mode <=> "IFDIR" \in a[i].mode
              /\ "ILARG" \in Inode(a, i).mode <=> Grande(a[i])
<1>1. DOMAIN a = 1 .. Len(a)
  BY TableSize
<1>2. CASE i \notin 1 .. Len(a)
  <2>1. Len(Livre.dados) = 0 /\ Livre.mode = {}
    BY DEF Livre
  <2>2. quantBlocos(0) = 0
    <3>1. quantBlocos(0) \in Nat /\ \A b \in 1 .. quantBlocos(0) : (b - 1) * DISKIMG_SECTOR_SIZE < 0
      BY Blocks
    <3>2. CASE quantBlocos(0) # 0
      <4>1. 1 \in 1 .. quantBlocos(0)
        BY <3>1, <3>2
      <4>2. (1 - 1) * DISKIMG_SECTOR_SIZE = 0
        BY Sizes
      <4>3. QED  BY <3>1, <4>1, <4>2
    <3>3. QED  BY <3>2
  <2>3. ~Grande(Livre)
    BY <2>1, <2>2, Sizes DEF Grande
  <2>4. Inode(a, i).mode = Livre.mode \cup (IF Grande(Livre) THEN {"ILARG"} ELSE {})
    BY <1>1, <1>2 DEF Inode
  <2>5. QED  BY <1>2, <2>1, <2>3, <2>4
<1>3. CASE i \in 1 .. Len(a)
  <2>1. Inode(a, i).mode = a[i].mode \cup (IF Grande(a[i]) THEN {"ILARG"} ELSE {})
    BY <1>1, <1>3 DEF Inode
  <2>2. /\ a[i].mode \subseteq {"IALLOC", "IFDIR", "IFCHR"}
        /\ a[i].mode # {} => "IALLOC" \in a[i].mode
    BY <1>3, FileFacts
  <2> HIDE DEF Inode
  <2>3. QED  BY <1>3, <2>1, <2>2 DEF Alocado, IFMT
<1>4. QED  BY <1>2, <1>3

LEMMA SizeRead ==
  ASSUME NEW a, Valida(a), NEW i \in 1 .. Len(a)
  PROVE  inode_getsize(Inode(a, i)) = Len(a[i].dados)
<1>1. Len(a[i].dados) \in Nat /\ i \in DOMAIN a
  BY FileFacts
<1>2. Inode(a, i).size0 = Len(a[i].dados) \div Low /\ Inode(a, i).size1 = Len(a[i].dados) % Low
  BY <1>1 DEF Inode
<1>3. (Len(a[i].dados) \div Low) * Low + (Len(a[i].dados) % Low) = Len(a[i].dados)
  <2>1. Len(a[i].dados) \in Int /\ Low \in Nat \ {0}
    BY <1>1, Sizes
  <2>2. QED  BY <2>1, DivMod
<1>4. QED  BY <1>2, <1>3 DEF inode_getsize
-------------------------------------------------------------------------------
\* Blocks and the pointers to them.
Acessivel(im, a, i) ==
  SetorDoInode(i) \notin im.ruins /\ \A r \in 0 .. Regiao - 1 : Bloco(a, i, r) \notin im.ruins

LEMMA BlockRead ==
  ASSUME NEW a, NEW im, Formatada(im, a), NEW i \in 1 .. Len(a), NEW r \in 0 .. Regiao - 1,
         Bloco(a, i, r) \notin im.ruins
  PROVE  ~Falha(im, Bloco(a, i, r)) /\ readsector(im, Bloco(a, i, r)) = SetorDeDados(a, i, r)
<1> DEFINE s == Bloco(a, i, r)
<1>1. s \in DOMAIN im.setores /\ s \in Nat /\ im.setores[s] = SetorDeDados(a, i, r)
  BY DEF Formatada
<1>2. s # Erro
  BY <1>1, Sizes
<1> HIDE DEF s
<1>3. ~Falha(im, s)
  BY <1>2 DEF Falha, s
<1>4. QED  BY <1>1, <1>3 DEF readsector, s

LEMMA PointerRead ==
  ASSUME NEW a, NEW im, Formatada(im, a), NEW i \in 1 .. Len(a),
         NEW q \in 0 .. MaxPonteiros - 1, NEW n \in 0 .. PONTEIROS_POR_SETOR - 1,
         q * PONTEIROS_POR_SETOR + n < MaxBlocos,
         SetorPonteiros(a, i, q) \notin im.ruins
  PROVE  Ponteiro(im, SetorPonteiros(a, i, q), n) = Bloco(a, i, q * PONTEIROS_POR_SETOR + n)
<1> DEFINE r == MaxBlocos + q
<1>1. r \in 0 .. Regiao - 1 /\ ~(r < MaxBlocos) /\ r < Regiao - 1 /\ r - MaxBlocos = q
  <2>1. MaxBlocos \in Nat /\ MaxPonteiros \in Nat /\ Regiao = MaxBlocos + MaxPonteiros + 1
    BY Sizes, Pointers
  <2>2. QED  BY <2>1
<1>2. SetorPonteiros(a, i, q) = Bloco(a, i, r)
  BY DEF SetorPonteiros
<1> HIDE DEF r
<1>3. Ponteiro(im, SetorPonteiros(a, i, q), n) = SetorDeDados(a, i, r)[n + 1]
  BY <1>1, <1>2, BlockRead DEF Ponteiro
<1>4. n + 1 \in 1 .. PONTEIROS_POR_SETOR
  BY Sizes
<1>5. q * PONTEIROS_POR_SETOR + (n + 1) - 1 = q * PONTEIROS_POR_SETOR + n
  <2> DEFINE x == q * PONTEIROS_POR_SETOR
  <2>1. x \in Int
    BY Sizes, Pointers, Times
  <2> HIDE DEF x
  <2>2. x + (n + 1) - 1 = x + n
    BY <2>1
  <2>3. QED  BY <2>2 DEF x
<1>6. SetorDeDados(a, i, r) =
        [k \in 1 .. PONTEIROS_POR_SETOR |->
           IF (r - MaxBlocos) * PONTEIROS_POR_SETOR + k - 1 < MaxBlocos
           THEN Bloco(a, i, (r - MaxBlocos) * PONTEIROS_POR_SETOR + k - 1) ELSE 0]
  BY <1>1 DEF SetorDeDados
<1>7. SetorDeDados(a, i, r)[n + 1] =
        IF q * PONTEIROS_POR_SETOR + (n + 1) - 1 < MaxBlocos
        THEN Bloco(a, i, q * PONTEIROS_POR_SETOR + (n + 1) - 1) ELSE 0
  BY <1>1, <1>4, <1>6
<1>8. QED  BY <1>3, <1>5, <1>7

LEMMA DoubleRead ==
  ASSUME NEW a, NEW im, Formatada(im, a), NEW i \in 1 .. Len(a),
         NEW q \in Indiretos .. MaxPonteiros - 1, q - Indiretos < PONTEIROS_POR_SETOR,
         SetorDuplo(a, i) \notin im.ruins
  PROVE  Ponteiro(im, SetorDuplo(a, i), q - Indiretos) = SetorPonteiros(a, i, q)
<1> DEFINE r == Regiao - 1
           n == q - Indiretos
<1>1. r \in 0 .. Regiao - 1 /\ ~(r < MaxBlocos) /\ ~(r < Regiao - 1)
  BY Sizes, Pointers
<1>2. SetorDuplo(a, i) = Bloco(a, i, r)
  BY DEF SetorDuplo
<1>3. n + 1 \in 1 .. PONTEIROS_POR_SETOR /\ Indiretos + (n + 1) - 1 = q /\ q < MaxPonteiros
  BY Sizes, Pointers
<1>4. SetorDeDados(a, i, r) =
        [k \in 1 .. PONTEIROS_POR_SETOR |->
           IF Indiretos + k - 1 < MaxPonteiros THEN SetorPonteiros(a, i, Indiretos + k - 1) ELSE 0]
  BY <1>1 DEF SetorDeDados
<1> HIDE DEF r, n
<1>5. Ponteiro(im, SetorDuplo(a, i), n) = SetorDeDados(a, i, r)[n + 1]
  BY <1>1, <1>2, BlockRead DEF Ponteiro
<1>6. SetorDeDados(a, i, r)[n + 1] =
        IF Indiretos + (n + 1) - 1 < MaxPonteiros
        THEN SetorPonteiros(a, i, Indiretos + (n + 1) - 1) ELSE 0
  BY <1>3, <1>4
<1>7. QED  BY <1>3, <1>5, <1>6 DEF n

\* The blocks of a file are among those of its region.
LEMMA FewBlocks ==
  ASSUME NEW a, Valida(a), NEW i \in 1 .. Len(a),
         NEW b \in 0 .. quantBlocos(Len(a[i].dados)) - 1
  PROVE  b \in 0 .. MaxBlocos - 1 /\ b \in 0 .. Regiao - 1
<1> DEFINE n == Len(a[i].dados)
           S == DISKIMG_SECTOR_SIZE
<1>1. n \in Nat /\ n <= MaxBlocos * S /\ S \in Nat \ {0}
  BY FileFacts, Sizes
<1> HIDE DEF n, S
<1>2. quantBlocos(n) \in Nat /\ \A k \in 1 .. quantBlocos(n) : (k - 1) * S < n
  BY <1>1, Blocks DEF S
<1>3. b \in Nat /\ b + 1 \in 1 .. quantBlocos(n) /\ (b + 1) - 1 = b
  BY <1>2 DEF n
<1>4. b * S < n
  BY <1>2, <1>3
<1>5. b < MaxBlocos
  <2>1. CASE MaxBlocos <= b
    <3> DEFINE x == MaxBlocos * S
               y == b * S
    <3>1. x <= y
      BY <1>1, <1>3, <2>1, Sizes, Times
    <3>2. x \in Int /\ y \in Int
      BY <1>1, <1>3, Sizes, Times
    <3>3. y < n /\ n <= x
      BY <1>1, <1>4
    <3> HIDE DEF x, y
    <3>4. QED  BY <1>1, <3>1, <3>2, <3>3
  <2>2. QED  BY <1>3, <2>1, Sizes
<1>6. QED  BY <1>3, <1>5, Sizes, Pointers

\* inode_indexlookup finds every block, through whatever kind of address,
\* unless a sector of pointers cannot be read.
Ilegivel(im, a, i) == \E r \in 0 .. Regiao - 1 : Bloco(a, i, r) \in im.ruins

LEMMA IndexLookup ==
  ASSUME NEW a, Valida(a), NEW im, Formatada(im, a), NEW i \in 1 .. Len(a),
         a[i].mode # {}, NEW b \in 0 .. quantBlocos(Len(a[i].dados)) - 1
  PROVE  LET bloco == inode_indexlookup(im, Inode(a, i), b)
         IN bloco = Bloco(a, i, b) \/ (bloco = Erro /\ Ilegivel(im, a, i))
<1> DEFINE P == PONTEIROS_POR_SETOR
           q == b \div P
           n == b % P
           ind == Inode(a, i)
<1>1. b \in 0 .. MaxBlocos - 1 /\ P \in Nat \ {0} /\ i \in DOMAIN a
  BY FewBlocks, FileFacts, Sizes
<1>2. "ILARG" \in ind.mode <=> Grande(a[i])
  BY Modes
<1>3. ind.addr = [k \in 1 .. (IF Grande(a[i]) THEN Indiretos + 1 ELSE Diretos) |->
                    IF ~Grande(a[i]) THEN Bloco(a, i, k - 1)
                    ELSE IF k <= Indiretos THEN SetorPonteiros(a, i, k - 1)
                    ELSE SetorDuplo(a, i)]
  BY <1>1 DEF Inode
<1> HIDE DEF ind
<1>4. CASE ~Grande(a[i])
  <2>1. b + 1 \in 1 .. Diretos /\ (b + 1) - 1 = b
    <3>0. quantBlocos(Len(a[i].dados)) \in Nat
      BY FileFacts, Blocks
    <3>1. quantBlocos(Len(a[i].dados)) <= Diretos /\ quantBlocos(Len(a[i].dados)) \in Nat
      BY <1>4, <3>0, Sizes DEF Grande
    <3>2. QED  BY <1>1, <3>1, Sizes
  <2>2. inode_indexlookup(im, ind, b) = ind.addr[b + 1]
    BY <1>2, <1>4 DEF inode_indexlookup
  <2>3. ind.addr = [k \in 1 .. Diretos |-> Bloco(a, i, k - 1)]
    BY <1>3, <1>4
  <2>4. QED  BY <2>1, <2>2, <2>3 DEF ind
<1>5. CASE Grande(a[i])
  <2>1. q \in Int /\ n \in 0 .. P - 1 /\ b = q * P + n
    <3>1. b \in Int
      BY <1>1
    <3>2. QED  BY <1>1, <3>1, DivMod
  <2>2. q >= 0
    <3>1. b >= 0 * P /\ 0 \in Int /\ b \in Int
      BY <1>1
    <3>2. QED  BY <1>1, <3>1, DivBounds
  <2>3. q < MaxPonteiros
    <3> DEFINE m == MaxBlocos \div P
    <3>1. MaxPonteiros - 1 = m /\ MaxPonteiros \in Int /\ MaxBlocos \in Int
      BY Pointers, Sizes
    <3>2. m \in Int /\ MaxBlocos % P \in 0 .. P - 1 /\ MaxBlocos = m * P + (MaxBlocos % P)
      BY <1>1, <3>1, DivMod
    <3> HIDE DEF m
    <3>3. b < (m + 1) * P
      <4>1. (m + 1) * P = m * P + P /\ m * P \in Int
        BY <1>1, <3>2, Times
      <4> DEFINE x == m * P
                 z == MaxBlocos % P
      <4>2. x \in Int /\ z \in 0 .. P - 1 /\ MaxBlocos = x + z /\ (m + 1) * P = x + P
        BY <3>2, <4>1
      <4> HIDE DEF x, z
      <4>3. b < x + P
        BY <1>1, <3>1, <4>2
      <4>4. QED  BY <4>2, <4>3
    <3>4. m + 1 \in Int /\ m + 1 = MaxPonteiros /\ b \in Int
      BY <1>1, <3>1, <3>2
    <3>5. QED  BY <1>1, <3>3, <3>4, DivBounds
  <2>4. q < Indiretos + P
    <3>1. b < (Indiretos + P) * P /\ Indiretos + P \in Int
      <4> DEFINE x == (Indiretos + P) * P
      <4>1. x \in Int /\ MaxBlocos \in Int
        BY Sizes, Times
      <4>2. MaxBlocos <= x
        BY LayoutAssumption
      <4> HIDE DEF x
      <4>3. b < x
        BY <1>1, <4>1, <4>2
      <4>4. QED  BY <4>3, Sizes DEF x
    <3>2. b \in Int
      BY <1>1
    <3>3. QED  BY <1>1, <3>1, <3>2, DivBounds
  <2>5. inode_indexlookup(im, ind, b) =
          IF q < Indiretos THEN Ponteiro(im, ind.addr[q + 1], n)
          ELSE Ponteiro(im, Ponteiro(im, ind.addr[Indiretos + 1], q - Indiretos), n)
    BY <1>2, <1>5 DEF inode_indexlookup
  <2> HIDE DEF q, n
  <2>6. q \in 0 .. MaxPonteiros - 1 /\ MaxPonteiros \in Nat /\ Indiretos \in Nat \ {0}
    BY <2>1, <2>2, <2>3, Pointers, Sizes
  <2> DEFINE bloco == Ponteiro(im, SetorPonteiros(a, i, q), n)
  <2>7. bloco = Bloco(a, i, b) \/ (bloco = Erro /\ Ilegivel(im, a, i))
    <3>1. q * P + n < MaxBlocos
      BY <1>1, <2>1, Sizes
    <3>2. MaxBlocos + q \in 0 .. Regiao - 1
      BY <2>6, Sizes, Pointers
    <3>3. SetorPonteiros(a, i, q) \in im.ruins => bloco = Erro /\ Ilegivel(im, a, i)
      BY <3>2 DEF SetorPonteiros, Ilegivel, Ponteiro, Falha
    <3>4. SetorPonteiros(a, i, q) \notin im.ruins => bloco = Bloco(a, i, b)
      BY <2>1, <2>6, <3>1, PointerRead
    <3>5. QED  BY <3>3, <3>4
  <2> HIDE DEF bloco
  <2>8. ind.addr = [k \in 1 .. Indiretos + 1 |->
                      IF k <= Indiretos THEN SetorPonteiros(a, i, k - 1) ELSE SetorDuplo(a, i)]
    BY <1>3, <1>5
  <2>9. CASE q < Indiretos
    <3>1. q + 1 \in 1 .. Indiretos + 1 /\ q + 1 <= Indiretos /\ (q + 1) - 1 = q
      BY <2>6, <2>9
    <3>2. ind.addr[q + 1] = SetorPonteiros(a, i, q)
      BY <2>8, <3>1
    <3>3. QED  BY <2>5, <2>7, <2>9, <3>2 DEF ind, bloco
  <2>10. CASE ~(q < Indiretos)
    <3>1. Indiretos + 1 \in 1 .. Indiretos + 1 /\ ~(Indiretos + 1 <= Indiretos)
      BY <2>6
    <3>2. ind.addr[Indiretos + 1] = SetorDuplo(a, i)
      BY <2>8, <3>1
    <3>3. q \in Indiretos .. MaxPonteiros - 1 /\ q - Indiretos < P
      BY <1>1, <2>4, <2>6, <2>10
    <3>4. CASE SetorDuplo(a, i) \in im.ruins
      <4>1. Regiao - 1 \in 0 .. Regiao - 1
        BY Pointers
      <4>2. Ilegivel(im, a, i)
        BY <3>4, <4>1 DEF SetorDuplo, Ilegivel
      <4>3. Ponteiro(im, SetorDuplo(a, i), q - Indiretos) = Erro /\ Ponteiro(im, Erro, n) = Erro
        BY <3>4 DEF Ponteiro, Falha
      <4>4. QED  BY <2>5, <2>10, <3>2, <4>2, <4>3 DEF ind
    <3>5. CASE SetorDuplo(a, i) \notin im.ruins
      <4>1. Ponteiro(im, SetorDuplo(a, i), q - Indiretos) = SetorPonteiros(a, i, q)
        BY <3>3, <3>5, DoubleRead
      <4>2. QED  BY <2>5, <2>7, <2>10, <3>2, <4>1 DEF ind, bloco
    <3>6. QED  BY <3>4, <3>5
  <2>11. QED  BY <2>9, <2>10
<1>6. QED  BY <1>4, <1>5
-------------------------------------------------------------------------------
\* A sequence cut into pieces, flattened, is the sequence again.
Pedacos(T, d, n, corte, seqs) ==
  /\ d \in Seq(T) /\ n \in Nat /\ corte \in [0 .. n -> 0 .. Len(d)]
  /\ corte[0] = 0 /\ corte[n] = Len(d)
  /\ seqs = [j \in 1 .. n |-> seqs[j]]
  /\ \A j \in 1 .. n :
       /\ seqs[j] \in Seq(T) /\ corte[j] = corte[j - 1] + Len(seqs[j])
       /\ \A k \in 1 .. Len(seqs[j]) : seqs[j][k] = d[corte[j - 1] + k]

Continua(d, corte, seqs, j) == SubSeq(d, 1, corte[j - 1]) \o seqs[j] = SubSeq(d, 1, corte[j])

LEMMA PieceAdded ==
  ASSUME NEW T, NEW d, NEW n, NEW corte, NEW seqs, Pedacos(T, d, n, corte, seqs), NEW j \in 1 .. n
  PROVE  Continua(d, corte, seqs, j)
<1> DEFINE p == SubSeq(d, 1, corte[j - 1])
           r == SubSeq(d, 1, corte[j])
           s == seqs[j]
           c == corte[j - 1]
           m == corte[j]
<1>1. j - 1 \in 0 .. n /\ j \in 0 .. n /\ n \in Nat
  BY DEF Pedacos
<1>2. c \in 0 .. Len(d) /\ m \in 0 .. Len(d) /\ d \in Seq(T) /\ Len(d) \in Nat
  BY <1>1 DEF Pedacos
<1>3. s \in Seq(T) /\ m = c + Len(s) /\ \A k \in 1 .. Len(s) : s[k] = d[c + k]
  BY DEF Pedacos
<1>4. p \in Seq(T) /\ Len(p) = c /\ \A k \in 1 .. c : p[k] = d[k]
  BY <1>2
<1>5. r \in Seq(T) /\ Len(r) = m /\ \A k \in 1 .. m : r[k] = d[k]
  BY <1>2
<1> HIDE DEF p, r, s, c, m
<1>6. p \o s \in Seq(T) /\ Len(p \o s) = c + Len(s)
  BY <1>3, <1>4
<1>7. \A k \in 1 .. m : (p \o s)[k] = r[k]
  <2> SUFFICES ASSUME NEW k \in 1 .. m PROVE (p \o s)[k] = d[k]
    BY <1>5
  <2>1. CASE k <= c
    BY <1>2, <1>3, <1>4, <2>1
  <2>2. CASE k > c
    <3>1. k - c \in 1 .. Len(s) /\ c + (k - c) = k
      BY <1>2, <1>3, <2>2
    <3>2. (p \o s)[k] = s[k - c]
      BY <1>2, <1>3, <1>4, <2>2
    <3>3. QED  BY <1>3, <3>1, <3>2
  <2>3. k <= c \/ k > c
    BY <1>2
  <2>4. QED  BY <2>1, <2>2, <2>3
<1>8. p \o s = r
  BY <1>3, <1>5, <1>6, <1>7
<1>9. QED  BY <1>8 DEF Continua, p, r, s, c, m

LEMMA Flatten ==
  ASSUME NEW T, NEW d, NEW n, NEW corte, NEW seqs, Pedacos(T, d, n, corte, seqs)
  PROVE  FlattenSeq(seqs) = d
<1>1. n \in Nat /\ Len(seqs) = n /\ d \in Seq(T)
  BY DEF Pedacos
<1>2. CASE n = 0
  <2>1. Len(d) = 0
    BY <1>2 DEF Pedacos
  <2>2. d = <<>> /\ seqs = <<>>
    BY <1>1, <1>2, <2>1 DEF Pedacos
  <2>3. QED  BY <1>1, <1>2, <2>2 DEF FlattenSeq
<1>3. CASE n # 0
  <2> DEFINE g == [i \in 1 .. n |-> SubSeq(d, 1, corte[i])]
             w == CHOOSE f : f = [i \in 1 .. n |->
                    IF i = 1 THEN seqs[i] ELSE f[i - 1] \o seqs[i]]
  <2>1. 1 \in 1 .. n /\ n \in 1 .. n
    BY <1>1, <1>3
  <2>a. \A j \in 1 .. n : SubSeq(d, 1, corte[j - 1]) \o seqs[j] = SubSeq(d, 1, corte[j])
    <3> SUFFICES ASSUME NEW j \in 1 .. n
                 PROVE  SubSeq(d, 1, corte[j - 1]) \o seqs[j] = SubSeq(d, 1, corte[j])
      OBVIOUS
    <3>1. Continua(d, corte, seqs, j)
      BY PieceAdded
    <3>2. QED  BY <3>1 DEF Continua
  <2>2. g[1] = seqs[1]
    <3>1. SubSeq(d, 1, corte[1 - 1]) \o seqs[1] = SubSeq(d, 1, corte[1])
      BY <2>1, <2>a
    <3>2. corte[1 - 1] = 0
      BY DEF Pedacos
    <3>3. SubSeq(d, 1, 0) = <<>> /\ seqs[1] \in Seq(T)
      <4>1. SubSeq(d, 1, 0) = <<>>
        OBVIOUS
      <4>2. seqs[1] \in Seq(T)
        BY <2>1 DEF Pedacos
      <4>3. QED  BY <4>1, <4>2
    <3>4. <<>> \o seqs[1] = seqs[1]
      BY <3>3
    <3>5. QED  BY <2>1, <3>1, <3>2, <3>3, <3>4
  <2>3. \A i \in 2 .. n : g[i] = g[i - 1] \o seqs[i]
    <3>1. \A i \in 2 .. n : i \in 1 .. n /\ i - 1 \in 1 .. n
      BY <1>1
    <3>2. QED  BY <3>1, <2>a
  <2>4. g[n] = d
    <3>1. SubSeq(d, 1, Len(d)) = d
      BY <1>1, SubSeqFull
    <3>2. QED  BY <2>1, <3>1 DEF Pedacos
  <2>5. FlattenSeq(seqs) = w[n]
    BY <1>1, <1>3 DEF FlattenSeq
  <2> HIDE DEF g
  <2>6. g = [i \in 1 .. n |-> IF i = 1 THEN seqs[i] ELSE g[i - 1] \o seqs[i]]
    <3>1. \A i \in 1 .. n : i = 1 \/ i \in 2 .. n
      BY <1>1
    <3>2. \A i \in 1 .. n : g[i] = IF i = 1 THEN seqs[i] ELSE g[i - 1] \o seqs[i]
      BY <2>2, <2>3, <3>1
    <3>3. g = [i \in 1 .. n |-> g[i]]
      BY DEF g
    <3>4. QED  BY <3>2, <3>3
  <2>7. w = [i \in 1 .. n |-> IF i = 1 THEN seqs[i] ELSE w[i - 1] \o seqs[i]]
    BY <2>6
  <2> HIDE DEF w
  <2>8. w[n] = g[n]
    <3> DEFINE S == {k \in 0 .. n - 1 : w[k + 1] = g[k + 1]}
    <3>1. 0 \in S
      BY <1>1, <2>1, <2>2, <2>7
    <3>2. ASSUME NEW k \in 0 .. (n - 1) - 1, k \in S PROVE k + 1 \in S
      <4>1. k + 2 \in 1 .. n /\ k + 2 # 1 /\ (k + 2) - 1 = k + 1 /\ k + 2 \in 2 .. n
            /\ k + 1 \in 0 .. n - 1 /\ (k + 1) + 1 = k + 2
        BY <1>1
      <4>2. w[k + 2] = w[k + 1] \o seqs[k + 2]
        BY <2>7, <4>1
      <4>3. g[k + 2] = g[k + 1] \o seqs[k + 2]
        BY <2>3, <4>1
      <4>4. QED  BY <3>2, <4>1, <4>2, <4>3
    <3>3. n - 1 \in Nat
      BY <1>1, <1>3
    <3>4. \A k \in 0 .. n - 1 : k \in S
      <4> HIDE DEF S
      <4>1. QED  BY <3>1, <3>2, <3>3, UpTo
    <3>5. n - 1 \in S /\ (n - 1) + 1 = n
      <4> HIDE DEF S
      <4>1. QED  BY <1>1, <3>3, <3>4
    <3>6. QED  BY <3>5
  <2>9. QED  BY <2>4, <2>5, <2>8
<1>4. QED  BY <1>2, <1>3
-------------------------------------------------------------------------------
\* The blocks of a file.
LEMMA Position ==
  ASSUME NEW a, Valida(a), NEW i \in 1 .. Len(a)
  PROVE  i \in 0 .. ISize(a) * INODES_POR_SETOR /\ Inode(a, i) # Erro
<1> DEFINE n == ISize(a) * INODES_POR_SETOR
<1>1. Len(a) <= n /\ n \in Nat /\ Len(a) \in Nat
  BY TableSize, Sizes, Times
<1>2. \A k \in 0 .. n : Inode(a, k) # Erro
  BY DEF Valida
<1> HIDE DEF n
<1>3. i \in 0 .. n
  BY <1>1
<1>4. QED  BY <1>2, <1>3 DEF n

LEMMA GetBlock ==
  ASSUME NEW a, Valida(a), NEW im, Formatada(im, a), NEW i \in 1 .. Len(a),
         a[i].mode # {}, Acessivel(im, a, i),
         NEW b \in 0 .. quantBlocos(Len(a[i].dados)) - 1
  PROVE  LET n == Len(a[i].dados)
             x == b * DISKIMG_SECTOR_SIZE
             lido == file_getblock(im, i, b)
         IN /\ lido.buf = [k \in 1 .. DISKIMG_SECTOR_SIZE |->
                             IF x + k <= n THEN a[i].dados[x + k] ELSE Zeros]
            /\ lido.bytes = IF n < x + DISKIMG_SECTOR_SIZE THEN n - x ELSE DISKIMG_SECTOR_SIZE
            /\ x \in Nat /\ x < n /\ b \in Nat
<1> DEFINE S == DISKIMG_SECTOR_SIZE
           n == Len(a[i].dados)
           x == b * S
           q == n \div S
           r == n % S
           lido == file_getblock(im, i, b)
<1>1. n \in Nat /\ S \in Nat \ {0} /\ b \in 0 .. MaxBlocos - 1 /\ b \in 0 .. Regiao - 1 /\ b \in Nat
  <2>1. n \in Nat
    BY FileFacts
  <2>2. b \in 0 .. MaxBlocos - 1 /\ b \in 0 .. Regiao - 1
    BY FewBlocks
  <2>3. QED  BY <2>1, <2>2, Sizes
<1>2. inode_iget(im, i) = Inode(a, i)
  BY Position, InodeRead DEF Acessivel
<1>3. inode_getsize(Inode(a, i)) = n
  BY SizeRead
<1>4. inode_indexlookup(im, Inode(a, i), b) = Bloco(a, i, b)
  BY IndexLookup DEF Acessivel, Ilegivel
<1>5. readsector(im, Bloco(a, i, b)) = SetorDeDados(a, i, b)
  BY <1>1, BlockRead DEF Acessivel
<1>6. SetorDeDados(a, i, b) = [k \in 1 .. S |-> IF x + k <= n THEN a[i].dados[x + k] ELSE Zeros]
  <2>1. b < MaxBlocos
    BY <1>1, Sizes
  <2>2. QED  BY <2>1 DEF SetorDeDados
<1>7. lido.buf = SetorDeDados(a, i, b)
      /\ lido.bytes = IF r # 0 /\ q = b THEN r ELSE S
  BY <1>2, <1>3, <1>4, <1>5 DEF file_getblock
<1>8. x \in Nat /\ x < n
  <2>1. b + 1 \in 1 .. quantBlocos(n) /\ (b + 1) - 1 = b
    <3>1. quantBlocos(n) \in Nat
      BY <1>1, Blocks
    <3>2. QED  BY <3>1
  <2>2. b * DISKIMG_SECTOR_SIZE < n
    BY <1>1, <2>1, Blocks
  <2>3. QED  BY <1>1, <2>2, Times
<1>9. q \in Int /\ r \in 0 .. S - 1 /\ n = q * S + r
  <2>1. n \in Int
    BY <1>1
  <2>2. QED  BY <1>1, <2>1, DivMod
<1>10. (r # 0 /\ q = b) => n = x + r
  BY <1>9
<1>11. n < x + S => q = b
  <2>1. (b + 1) * S = x + S /\ b + 1 \in Int /\ b \in Int /\ n \in Int
    BY <1>1
  <2>2. n >= b * S
    BY <1>8
  <2>3. q >= b
    BY <1>1, <2>1, <2>2, DivBounds
  <2>4. n < (b + 1) * S => q < b + 1
    BY <1>1, <2>1, DivBounds
  <2> HIDE DEF q, x, n
  <2>5. QED  BY <1>1, <1>9, <2>1, <2>3, <2>4
<1>12. q = b => n = x + r
  BY <1>9
<1> HIDE DEF x, q, r, n, lido, S
<1>13. lido.bytes = IF n < x + S THEN n - x ELSE S
  <2>1. CASE n < x + S
    <3>1. q = b /\ n = x + r /\ r # 0
      BY <1>1, <1>8, <1>9, <1>11, <1>12, <2>1
    <3>2. n - x = r
      BY <1>1, <1>8, <1>9, <3>1
    <3>3. QED  BY <1>7, <2>1, <3>1, <3>2
  <2>2. CASE ~(n < x + S)
    <3>1. ~(r # 0 /\ q = b)
      BY <1>1, <1>8, <1>9, <1>10, <2>2
    <3>2. QED  BY <1>7, <2>2, <3>1
  <2>3. QED  BY <2>1, <2>2
<1>14. QED  BY <1>1, <1>6, <1>7, <1>8, <1>13 DEF n, x, lido, S

\* The valid bytes of a file, block by block.
BytesLidos(im, i, n) ==
  [b \in 1 .. quantBlocos(n) |->
     SubSeq(file_getblock(im, i, b - 1).buf, 1, file_getblock(im, i, b - 1).bytes)]

LEMMA FileBytes ==
  ASSUME NEW a, Valida(a), NEW im, Formatada(im, a), NEW i \in 1 .. Len(a),
         a[i].mode # {}, Acessivel(im, a, i)
  PROVE  FlattenSeq(BytesLidos(im, i, Len(a[i].dados))) = a[i].dados
<1> DEFINE S == DISKIMG_SECTOR_SIZE
           d == a[i].dados
           n == Len(d)
           q == quantBlocos(n)
           T == {d[k] : k \in 1 .. n} \cup {Zeros}
           corte == [j \in 0 .. q |-> IF j * S <= n THEN j * S ELSE n]
           seqs == BytesLidos(im, i, n)
<1>1. n \in Nat /\ S \in Nat \ {0} /\ d = [k \in 1 .. n |-> d[k]]
  BY FileFacts, Sizes DEF ESequencia
<1>2. q \in Nat /\ n <= q * S
  BY <1>1, Blocks
<1>3. d \in Seq(T)
  <2>1. d \in [1 .. n -> T]
    BY <1>1
  <2>2. QED  BY <1>1, <2>1
<1>4. ASSUME NEW j \in 0 .. q PROVE j * S \in Nat /\ corte[j] \in 0 .. n
  <2>1. j * S \in Nat
    BY <1>1, <1>2, Times
  <2> DEFINE x == j * S
  <2>2. corte[j] = IF x <= n THEN x ELSE n
    OBVIOUS
  <2> HIDE DEF corte, x
  <2>3. x \in Nat
    BY <2>1 DEF x
  <2>4. corte[j] \in 0 .. n
    BY <1>1, <2>2, <2>3
  <2>5. QED  BY <2>1, <2>4
<1>5. corte \in [0 .. q -> 0 .. n]
  BY <1>4
<1>6. corte[0] = 0
  BY <1>1, <1>2
<1>7. corte[q] = n
  <2> DEFINE x == q * S
  <2>1. x \in Nat /\ n <= x
    BY <1>2, <1>4
  <2>2. corte[q] = IF x <= n THEN x ELSE n
    BY <1>2
  <2> HIDE DEF x, corte, n, q
  <2>3. QED  BY <1>1, <2>1, <2>2
<1>8. ASSUME NEW j \in 1 .. q
      PROVE  /\ seqs[j] \in Seq(T) /\ corte[j] = corte[j - 1] + Len(seqs[j])
             /\ \A k \in 1 .. Len(seqs[j]) : seqs[j][k] = d[corte[j - 1] + k]
  <2> DEFINE b == j - 1
             x == b * S
             lido == file_getblock(im, i, b)
             m == lido.bytes
  <2>1. b \in 0 .. q - 1 /\ b \in 0 .. q /\ j \in 0 .. q /\ j = b + 1
    BY <1>2
  <2>2. /\ lido.buf = [k \in 1 .. S |-> IF x + k <= n THEN d[x + k] ELSE Zeros]
        /\ m = IF n < x + S THEN n - x ELSE S
        /\ x \in Nat /\ x < n
    BY <2>1, GetBlock
  <2>3. seqs[j] = SubSeq(lido.buf, 1, m)
    BY DEF BytesLidos
  <2>4. j * S = x + S
    BY <1>1, <2>1
  <2>5. corte[b] = IF x <= n THEN x ELSE n
    BY <2>1
  <2>6. corte[j] = IF x + S <= n THEN x + S ELSE n
    BY <2>1, <2>4
  <2> HIDE DEF x, b, lido, m, seqs, corte, S, n
  <2>7. corte[b] = x
    BY <1>1, <2>2, <2>5
  <2>8. m \in Nat /\ m <= S /\ x + m <= n /\ corte[j] = x + m
    BY <1>1, <2>2, <2>6
  <2>9. \A k \in 1 .. m : lido.buf[k] = d[x + k] /\ lido.buf[k] \in T
    <3> SUFFICES ASSUME NEW k \in 1 .. m PROVE lido.buf[k] = d[x + k] /\ lido.buf[k] \in T
      OBVIOUS
    <3>1. k \in 1 .. S /\ x + k <= n /\ x + k \in 1 .. n
      BY <1>1, <2>2, <2>8
    <3>2. lido.buf[k] = d[x + k]
      BY <2>2, <3>1
    <3>3. QED  BY <3>1, <3>2 DEF T
  <2> HIDE DEF T
  <2>10. /\ seqs[j] \in Seq(T) /\ Len(seqs[j]) = m
         /\ \A k \in 1 .. m : seqs[j][k] = lido.buf[k]
    <3>1. \A k \in 1 .. m : lido.buf[k] \in T
      BY <2>9
    <3>2. /\ SubSeq(lido.buf, 1, m) \in Seq(T)
          /\ Len(SubSeq(lido.buf, 1, m)) = IF 1 <= m THEN m - 1 + 1 ELSE 0
          /\ \A k \in 1 .. m - 1 + 1 : SubSeq(lido.buf, 1, m)[k] = lido.buf[1 + k - 1]
      BY <2>8, <3>1, SubSeqProperties
    <3>3. m - 1 + 1 = m /\ (~(1 <= m) => m = 0) /\ \A k \in 1 .. m : 1 + k - 1 = k
      BY <2>8
    <3>4. QED  BY <2>3, <3>2, <3>3
  <2>11. corte[j - 1] = x
    BY <2>7 DEF b
  <2>12. QED  BY <2>8, <2>9, <2>10, <2>11
<1>9. seqs = [j \in 1 .. q |-> seqs[j]]
  BY DEF BytesLidos
<1>10. Pedacos(T, d, q, corte, seqs)
  <2> HIDE DEF T, q, corte, seqs
  <2>1. QED  BY <1>2, <1>3, <1>5, <1>6, <1>7, <1>8, <1>9 DEF Pedacos
<1>11. QED  BY <1>10, Flatten

\* The checksum of a file that can be read is over the file.
LEMMA ChksumRight ==
  ASSUME NEW a, Valida(a), NEW im, Formatada(im, a), NEW i \in 1 .. Len(a),
         a[i].mode # {}, Acessivel(im, a, i)
  PROVE  /\ chksumfile_byinumber(im, i) = a[i].dados
         /\ inode_iget(im, i) = Inode(a, i)
<1>1. inode_iget(im, i) = Inode(a, i) /\ Inode(a, i) # Erro
  BY Position, InodeRead DEF Acessivel
<1>2. Alocado(Inode(a, i))
  BY Modes
<1>3. inode_getsize(Inode(a, i)) = Len(a[i].dados)
  BY SizeRead
<1>4. chksumfile_byinumber(im, i) = FlattenSeq(BytesLidos(im, i, Len(a[i].dados)))
  BY <1>1, <1>2, <1>3 DEF chksumfile_byinumber, BytesLidos
<1>5. QED  BY <1>1, <1>4, FileBytes

\* No checksum is of an inode that is free or cannot be read.
LEMMA ChksumAllocated ==
  ASSUME NEW a, Valida(a), NEW im, Formatada(im, a),
         NEW i \in 0 .. ISize(a) * INODES_POR_SETOR, chksumfile_byinumber(im, i) # Erro
  PROVE  i \in 1 .. Len(a) /\ a[i].mode # {} /\ inode_iget(im, i) = Inode(a, i)
<1>1. inode_iget(im, i) # Erro /\ Alocado(inode_iget(im, i))
  BY DEF chksumfile_byinumber
<1>2. inode_iget(im, i) = Inode(a, i)
  BY <1>1, InodeRead
<1>3. i \in Int
  <2>1. ISize(a) * INODES_POR_SETOR \in Int
    BY TableSize, Sizes, Times
  <2>2. QED  BY <2>1
<1>4. i \in 1 .. Len(a)
  BY <1>1, <1>2, <1>3, Modes DEF Alocado
<1>5. QED  BY <1>1, <1>2, <1>3, <1>4, Modes
-------------------------------------------------------------------------------
\* The image does not change: it stays formatted as Init found it.
DirsLegiveis(im, a) ==
  \A i \in 1 .. Len(a) : EDiretorio(a[i]) =>
    /\ Len(a[i].dados) <= maxNumEntries
    /\ \A r \in 0 .. Regiao - 1 : Bloco(a, i, r) \notin im.ruins

ImagemInv == Valida(arquivos) /\ Formatada(img, arquivos) /\ DirsLegiveis(img, arquivos)

LEMMA OpenedImage ==
  ASSUME OpenImage
  PROVE  \E par \in Imagens : /\ arquivos = par.arquivos /\ img.ruins = par.ruins
                            /\ Valida(arquivos) /\ Formatada(img, arquivos)
<1>1. PICK par \in Imagens :
        /\ arquivos = par.arquivos
        /\ img \in {Formatar(par.arquivos, par.ruins),
                    [Formatar(par.arquivos, par.ruins) EXCEPT !.magic = FALSE]}
  BY DEF OpenImage
<1>2. Valida(arquivos)
  BY <1>1, ImagensAssumption
<1>3. img.s_isize = Formatar(arquivos, par.ruins).s_isize
      /\ img.setores = Formatar(arquivos, par.ruins).setores /\ img.ruins = par.ruins
  <2> DEFINE f == Formatar(par.arquivos, par.ruins)
  <2>1. f = [magic |-> f.magic, s_isize |-> f.s_isize, ruins |-> f.ruins, setores |-> f.setores]
    BY DEF Formatar
  <2>2. f.ruins = par.ruins
    BY DEF Formatar
  <2>3. arquivos = par.arquivos /\ img \in {f, [f EXCEPT !.magic = FALSE]}
    BY <1>1
  <2> HIDE DEF f
  <2>4. img.s_isize = f.s_isize /\ img.setores = f.setores /\ img.ruins = f.ruins
    BY <2>1, <2>3
  <2>5. QED  BY <2>2, <2>3, <2>4 DEF f
<1>4. Formatada(img, arquivos)
  BY <1>2, <1>3, Formatted
<1>5. QED  BY <1>1, <1>2, <1>3, <1>4

LEMMA ImageInit == Init => ImagemInv
<1> SUFFICES ASSUME Init PROVE ImagemInv
  OBVIOUS
<1>1. PICK par \in Imagens : /\ arquivos = par.arquivos /\ img.ruins = par.ruins
                             /\ Valida(arquivos) /\ Formatada(img, arquivos)
  BY OpenedImage DEF Init
<1>2. DirsLegiveis(img, arquivos)
  BY <1>1, ImagensAssumption, EntriesAssumption DEF DirsLegiveis
<1>3. QED  BY <1>1, <1>2 DEF ImagemInv

LEMMA SameImage == [Next]_vars => UNCHANGED <<arquivos, img, lixo>>
BY DEF Next, vars, Main, DumpInodeChecksum, EndInodes, DumpPathnameChecksum, NextEntry, Return,
       EndPaths, Exit

LEMMA ImageInvariance == Spec => []ImagemInv
<1>1. ImagemInv /\ [Next]_vars => ImagemInv'
  BY SameImage DEF ImagemInv
<1>2. QED  BY <1>1, ImageInit, PTL DEF Spec

LEMMA Readable ==
  ASSUME NEW i \in Inumbers, Legivel(i)
  PROVE  Acessivel(img, arquivos, i)
BY DEF Legivel, Setores, Acessivel, SetorDoInode

\* BlocksRight: whatever the size of a file, the checksum of 1/chksumfile.c is
\* over its bytes: inode_iget finds its inode, inode_indexlookup its blocks and
\* file_getblock how much of the last one is the file's.
THEOREM BlocksFound == Spec => []BlocksRight
<1>1. ImagemInv => BlocksRight
  <2> SUFFICES ASSUME ImagemInv, NEW i \in Inumbers, Legivel(i), arquivos[i].mode # {}
               PROVE  chksumfile_byinumber(img, i) = arquivos[i].dados
    BY DEF BlocksRight
  <2>1. Acessivel(img, arquivos, i)
    BY Readable
  <2>2. QED  BY <2>1, ChksumRight DEF ImagemInv, Inumbers
<1>2. QED  BY <1>1, ImageInvariance, PTL
-------------------------------------------------------------------------------
\* InodesDumped. The lines of -i are the allocated inodes before the one the
\* loop is at.
LinhasInv ==
  /\ \A l \in inodes : /\ l.inumber \in Inumbers
                       /\ Legivel(l.inumber) => l.chksum = arquivos[l.inumber].dados
  /\ inumber \in 1 .. img.s_isize * INODES_POR_SETOR
  /\ pc = "main" => inumber = 1
  /\ pc \in {"main", "i"} /\ Inteira =>
       {l.inumber : l \in inodes} =
         {i \in Inumbers : "IALLOC" \in arquivos[i].mode /\ i < inumber}
  /\ pc \notin {"main", "i", "falha"} /\ inumber > 1 /\ Inteira =>
       {l.inumber : l \in inodes} =
         {i \in Inumbers : "IALLOC" \in arquivos[i].mode
                           /\ i < img.s_isize * INODES_POR_SETOR}

\* Every sector of inodes has the inode of a file.
LEMMA TableShared ==
  ASSUME NEW a, Valida(a), NEW i \in 1 .. ISize(a) * INODES_POR_SETOR
  PROVE  \E j \in 1 .. Len(a) : SetorDoInode(i) = SetorDoInode(j)
<1> DEFINE I == INODES_POR_SETOR
           n == i - 1
           q == n \div I
           j == q * I + 1
           N == Len(a)
           s == ISize(a)
<1>1. I \in Nat \ {0} /\ N \in Nat /\ s \in Nat \ {0}
  BY Sizes, TableSize
<1>2. \A b \in 1 .. s : (b - 1) * I < N
  BY <1>1, RoundUp DEF ISize
<1>3. n \in Nat /\ n < s * I /\ n \in Int
  <2> DEFINE x == s * I
  <2>1. x \in Nat /\ i \in 1 .. x
    BY <1>1, Times
  <2> HIDE DEF x
  <2>2. n \in Nat /\ n < x
    BY <2>1
  <2>3. QED  BY <2>2 DEF x
<1> HIDE DEF n, N, s
<1>4. q \in Int /\ q >= 0 /\ q < s
  <2>1. q \in Int
    BY <1>1, <1>3, DivMod
  <2>2. n >= 0 * I /\ 0 \in Int /\ s \in Int
    BY <1>1, <1>3
  <2>3. q >= 0
    BY <1>1, <1>3, <2>2, DivBounds
  <2>4. q < s
    BY <1>1, <1>3, <2>2, DivBounds
  <2>5. QED  BY <2>1, <2>3, <2>4
<1> HIDE DEF q
<1>5. q * I < N
  <2>1. q + 1 \in 1 .. s /\ (q + 1) - 1 = q
    BY <1>1, <1>4
  <2>2. QED  BY <1>2, <2>1
<1>6. q * I \in Nat
  BY <1>1, <1>4, Times
<1>7. j \in 1 .. N /\ j - 1 = q * I + 0
  <2> DEFINE x == q * I
  <2>1. x \in Nat /\ x < N
    BY <1>5, <1>6
  <2> HIDE DEF x
  <2>2. x + 1 \in 1 .. N /\ (x + 1) - 1 = x + 0
    BY <1>1, <2>1
  <2>3. QED  BY <2>2 DEF x
<1>8. (q * I + 0) \div I = q
  <2>1. 0 \in 0 .. I - 1
    BY <1>1
  <2>2. QED  BY <1>1, <1>4, <2>1, DivUnique
<1>9. SetorDoInode(j) = INODE_START_SECTOR + q /\ SetorDoInode(i) = INODE_START_SECTOR + q
  <2>1. (j - 1) \div I = q
    BY <1>7, <1>8
  <2>2. (i - 1) \div I = q
    BY DEF q, n
  <2>3. QED  BY <2>1, <2>2 DEF SetorDoInode
<1>10. QED  BY <1>7, <1>9 DEF N

LEMMA WholeTable ==
  ASSUME ImagemInv, Inteira, NEW i \in 1 .. ISize(arquivos) * INODES_POR_SETOR
  PROVE  inode_iget(img, i) = Inode(arquivos, i) /\ inode_iget(img, i) # Erro
<1> DEFINE n == ISize(arquivos) * INODES_POR_SETOR
<1>1. Valida(arquivos) /\ Formatada(img, arquivos)
  BY DEF ImagemInv
<1>2. PICK j \in 1 .. Len(arquivos) : SetorDoInode(i) = SetorDoInode(j)
  BY <1>1, TableShared
<1>3. SetorDoInode(i) \notin img.ruins
  BY <1>2, Readable DEF Inteira, Inumbers, Acessivel
<1>4. i \in 0 .. n
  <2>1. n \in Nat /\ i \in 1 .. n
    BY <1>1, TableSize, Sizes, Times
  <2> HIDE DEF n
  <2>2. QED  BY <2>1
<1>5. inode_iget(img, i) = Inode(arquivos, i)
  BY <1>1, <1>3, <1>4, InodeRead
<1>6. Inode(arquivos, i) # Erro
  BY <1>1, <1>4 DEF Valida
<1>7. QED  BY <1>5, <1>6

LEMMA SameReadable ==
  ASSUME UNCHANGED <<arquivos, img, lixo>>
  PROVE  (Inumbers' = Inumbers) /\ (Inteira' <=> Inteira) /\ \A i : Legivel(i)' <=> Legivel(i)
<1>1. \A i : Legivel(i)' <=> Legivel(i)
  BY DEF Legivel, Setores
<1>2. QED  BY <1>1 DEF Inteira, Inumbers

LEMMA LinesInit == Init => LinhasInv
<1> SUFFICES ASSUME Init PROVE LinhasInv
  OBVIOUS
<1>1. Valida(arquivos) /\ Formatada(img, arquivos)
  BY ImageInit DEF ImagemInv
<1>2. img.s_isize = ISize(arquivos) /\ ISize(arquivos) \in Nat \ {0}
  BY <1>1, TableSize DEF Formatada
<1>3. 1 \in 1 .. img.s_isize * INODES_POR_SETOR
  <2>1. 1 * INODES_POR_SETOR <= ISize(arquivos) * INODES_POR_SETOR
    BY <1>2, Sizes, Times
  <2>2. ISize(arquivos) * INODES_POR_SETOR \in Nat /\ 1 * INODES_POR_SETOR = INODES_POR_SETOR
    BY <1>2, Sizes, Times
  <2> DEFINE x == ISize(arquivos) * INODES_POR_SETOR
  <2>3. x \in Nat /\ INODES_POR_SETOR <= x
    BY <2>1, <2>2
  <2> HIDE DEF x
  <2>4. 1 \in 1 .. x
    BY <2>3, Sizes
  <2>5. QED  BY <1>2, <2>4 DEF x
<1>4. {l.inumber : l \in inodes} = {i \in Inumbers : "IALLOC" \in arquivos[i].mode /\ i < inumber}
  <2>1. inodes = {} /\ inumber = 1 /\ Len(arquivos) \in Nat
    BY <1>1, TableSize DEF Init
  <2>2. \A i \in Inumbers : ~(i < 1)
    BY <2>1 DEF Inumbers
  <2>3. QED  BY <2>1, <2>2
<1>5. QED  BY <1>3, <1>4 DEF Init, LinhasInv

LEMMA InodeDumped ==
  ASSUME ImagemInv, LinhasInv, DumpInodeChecksum
  PROVE  LinhasInv'
<1> DEFINE n == img.s_isize * INODES_POR_SETOR
           c == chksumfile_byinumber(img, inumber)
<1>1. Valida(arquivos) /\ Formatada(img, arquivos) /\ img.s_isize = ISize(arquivos)
  BY DEF ImagemInv, Formatada
<1>2. n \in Nat
  BY <1>1, TableSize, Sizes, Times
<1>3. inumber \in 1 .. n /\ inumber < n /\ pc = "i"
  BY DEF DumpInodeChecksum, UltimoInode, LinhasInv
<1>4. UNCHANGED <<arquivos, img, lixo>>
  BY DEF DumpInodeChecksum
<1>5. Inumbers' = Inumbers /\ (Inteira' <=> Inteira) /\ \A i : Legivel(i)' <=> Legivel(i)
  BY <1>4, SameReadable
<1>6. inumber \in 1 .. ISize(arquivos) * INODES_POR_SETOR
      /\ inumber \in 0 .. ISize(arquivos) * INODES_POR_SETOR
  <2> HIDE DEF n
  <2>1. inumber \in 1 .. n /\ inumber \in 0 .. n
    BY <1>2, <1>3
  <2>2. QED  BY <1>1, <2>1 DEF n
<1> HIDE DEF n
<1>7. CASE inode_iget(img, inumber) = Erro
  <2>1. ~Inteira
    BY <1>6, <1>7, WholeTable
  <2>2. pc' \in {"p", "fim"} /\ UNCHANGED <<inumber, inodes>>
    BY <1>7 DEF DumpInodeChecksum
  <2>3. QED  BY <1>4, <1>5, <2>1, <2>2 DEF LinhasInv
<1>8. CASE inode_iget(img, inumber) # Erro
  <2>1. /\ inodes' = inodes \cup
               (IF c = Erro THEN {} ELSE {[inumber |-> inumber, chksum |-> c]})
        /\ inumber' = inumber + 1 /\ pc' = "i"
    BY <1>3, <1>8 DEF DumpInodeChecksum
  <2>2. c # Erro => inumber \in Inumbers /\ arquivos[inumber].mode # {}
    BY <1>1, <1>6, ChksumAllocated DEF Inumbers
  <2>3. c # Erro /\ Legivel(inumber) => c = arquivos[inumber].dados
    BY <1>1, <2>2, Readable, ChksumRight DEF Inumbers
  <2>4. Inteira /\ inumber \in Inumbers /\ "IALLOC" \in arquivos[inumber].mode => c # Erro
    <3> SUFFICES ASSUME Inteira, inumber \in Inumbers, "IALLOC" \in arquivos[inumber].mode
                 PROVE  c # Erro
      OBVIOUS
    <3>1. Acessivel(img, arquivos, inumber) /\ arquivos[inumber].mode # {}
      BY Readable DEF Inteira
    <3>2. c = arquivos[inumber].dados
      BY <1>1, <3>1, ChksumRight DEF Inumbers
    <3>3. QED  BY <1>1, <3>2, FileFacts DEF Inumbers
  <2>5. c # Erro => "IALLOC" \in arquivos[inumber].mode
    BY <1>1, <2>2, FileFacts DEF Inumbers
  <2> HIDE DEF c
  <2>6. \A l \in inodes' : /\ l.inumber \in Inumbers'
                           /\ Legivel(l.inumber)' => l.chksum = arquivos'[l.inumber].dados
    <3> SUFFICES ASSUME NEW l \in inodes'
                 PROVE  l.inumber \in Inumbers /\ (Legivel(l.inumber) => l.chksum = arquivos[l.inumber].dados)
      BY <1>4, <1>5
    <3>1. CASE l \in inodes
      BY <3>1 DEF LinhasInv
    <3>2. CASE l \notin inodes
      <4>1. c # Erro /\ l = [inumber |-> inumber, chksum |-> c]
        BY <2>1, <3>2
      <4>2. QED  BY <2>2, <2>3, <4>1
    <3>3. QED  BY <3>1, <3>2
  <2>7. inumber' \in 1 .. n'
    <3>1. n' = n
      BY <1>4 DEF n
    <3>2. QED  BY <1>2, <1>3, <2>1, <3>1
  <2>8. ASSUME Inteira
        PROVE  {l.inumber : l \in inodes'} =
                 {i \in Inumbers : "IALLOC" \in arquivos[i].mode /\ i < inumber'}
    <3>1. {l.inumber : l \in inodes} =
            {i \in Inumbers : "IALLOC" \in arquivos[i].mode /\ i < inumber}
      BY <1>3, <2>8 DEF LinhasInv
    <3>2. \A i \in Inumbers : i < inumber' <=> (i < inumber \/ i = inumber)
      <4>1. Len(arquivos) \in Nat /\ inumber \in Nat
        BY <1>1, <1>2, <1>3, TableSize
      <4>2. QED  BY <2>1, <4>1 DEF Inumbers
    <3>3. {l.inumber : l \in inodes'} =
            {l.inumber : l \in inodes} \cup (IF c = Erro THEN {} ELSE {inumber})
      <4> DEFINE novo == [inumber |-> inumber, chksum |-> c]
      <4>1. novo.inumber = inumber
        OBVIOUS
      <4>2. inodes' = inodes \cup (IF c = Erro THEN {} ELSE {novo})
        BY <2>1
      <4> HIDE DEF novo
      <4>3. CASE c = Erro
        BY <4>2, <4>3
      <4>4. CASE c # Erro
        BY <4>1, <4>2, <4>4
      <4>5. QED  BY <4>3, <4>4
    <3>4. (c # Erro) <=> (inumber \in Inumbers /\ "IALLOC" \in arquivos[inumber].mode)
      BY <2>2, <2>4, <2>5, <2>8
    <3>5. QED  BY <3>1, <3>2, <3>3, <3>4
  <2>9. QED  BY <1>4, <1>5, <2>1, <2>6, <2>7, <2>8 DEF LinhasInv, n
<1>9. QED  BY <1>7, <1>8

LEMMA LinesNext == ImagemInv /\ LinhasInv /\ [Next]_vars => LinhasInv'
<1> SUFFICES ASSUME ImagemInv, LinhasInv, [Next]_vars PROVE LinhasInv'
  OBVIOUS
<1>0. UNCHANGED <<arquivos, img, lixo>>
  BY SameImage
<1>1. Inumbers' = Inumbers /\ (Inteira' <=> Inteira) /\ \A i : Legivel(i)' <=> Legivel(i)
  BY <1>0, SameReadable
<1>2. CASE DumpInodeChecksum
  BY <1>2, InodeDumped
<1>3. CASE Main
  BY <1>0, <1>1, <1>3 DEF Main, LinhasInv
<1>4. CASE EndInodes
  <2>1. inumber = img.s_isize * INODES_POR_SETOR
    <3> DEFINE n == img.s_isize * INODES_POR_SETOR
    <3>1. n \in Nat /\ inumber \in 1 .. n /\ ~(inumber < n)
      BY <1>4, TableSize, Sizes, Times
         DEF EndInodes, UltimoInode, LinhasInv, ImagemInv, Formatada
    <3> HIDE DEF n
    <3>2. inumber = n
      BY <3>1
    <3>3. QED  BY <3>2 DEF n
  <2>2. pc = "i" /\ pc' \in {"p", "fim"} /\ UNCHANGED <<inumber, inodes>>
    BY <1>4 DEF EndInodes
  <2>3. QED  BY <1>0, <1>1, <2>1, <2>2 DEF LinhasInv
<1>5. CASE DumpPathnameChecksum \/ NextEntry \/ Return \/ EndPaths \/ UNCHANGED vars
  <2>1. UNCHANGED <<inumber, inodes>>
    BY <1>5 DEF DumpPathnameChecksum, NextEntry, Return, EndPaths, vars
  <2>2. pc' = pc \/ (pc \in {"p", "entradas"} /\ pc' \in {"abort", "entradas", "fim"})
    BY <1>5 DEF DumpPathnameChecksum, NextEntry, Return, EndPaths, vars, DumpPath, Restam
  <2>3. QED  BY <1>0, <1>1, <2>1, <2>2 DEF LinhasInv
<1>6. QED  BY <1>2, <1>3, <1>4, <1>5 DEF Next, Exit

LEMMA LinesInvariance == Spec => []LinhasInv
BY LinesInit, LinesNext, ImageInvariance, PTL DEF Spec
-------------------------------------------------------------------------------
\* Directories: an entry that is not deleted is the first with its name.
LEMMA MinIs ==
  ASSUME NEW T, T \subseteq Nat, T # {}
  PROVE  Min(T) \in T /\ \A y \in T : Min(T) <= y
BY LeastExists DEF Min

LEMMA DirFacts ==
  ASSUME NEW a, Valida(a), NEW i \in 1 .. Len(a), EDiretorio(a[i]),
         NEW k \in 1 .. Len(a[i].dados)
  PROVE  LET e == a[i].dados[k]
         IN /\ e \in Dirents(a[i]) /\ e.d_inumber \in 0 .. Len(a)
            /\ e.d_inumber # 0 => /\ e.d_inumber \in 1 .. Len(a)
                                  /\ a[e.d_inumber].mode # {}
                                  /\ Primeira(a[i].dados, k)
<1>1. a[i].dados[k] \in Dirents(a[i])
  BY DEF Dirents
<1>2. Aloca(a, a[i].dados[k]) /\ (a[i].dados[k].d_inumber # 0 => Primeira(a[i].dados, k))
  BY <1>1 DEF Valida
<1>3. QED  BY <1>1, <1>2, TableSize DEF Aloca

Achados(arq, nome) == {k \in 1 .. Len(arq.dados) : arq.dados[k].d_name = nome}

LEMMA ChildIn ==
  ASSUME NEW a, Valida(a), NEW i \in 0 .. Len(a), NEW nome
  PROVE  Filho(a, i, nome) \in 0 .. Len(a)
<1>1. Len(a) \in Nat
  BY TableSize
<1>2. CASE i = 0
  BY <1>1, <1>2 DEF Filho
<1>3. CASE i # 0
  <2>1. i \in 1 .. Len(a)
    BY <1>1, <1>3
  <2>2. Filho(a, i, nome) = IF ~EDiretorio(a[i]) \/ Achados(a[i], nome) = {} THEN 0
                            ELSE a[i].dados[Min(Achados(a[i], nome))].d_inumber
    BY <1>3 DEF Filho, Achados
  <2>3. CASE EDiretorio(a[i]) /\ Achados(a[i], nome) # {}
    <3>1. Achados(a[i], nome) \subseteq Nat
      BY DEF Achados
    <3>2. Min(Achados(a[i], nome)) \in 1 .. Len(a[i].dados)
      BY <2>3, <3>1, MinIs DEF Achados
    <3>3. QED  BY <2>1, <2>2, <2>3, <3>2, DirFacts
  <2>4. QED  BY <1>1, <2>2, <2>3
<1>4. QED  BY <1>2, <1>3

LEMMA FirstIs ==
  ASSUME NEW a, Valida(a), NEW i \in 1 .. Len(a), EDiretorio(a[i]),
         NEW k \in 1 .. Len(a[i].dados), a[i].dados[k].d_inumber # 0
  PROVE  /\ k \in Achados(a[i], a[i].dados[k].d_name)
         /\ Min(Achados(a[i], a[i].dados[k].d_name)) = k
<1> DEFINE T == Achados(a[i], a[i].dados[k].d_name)
<1>1. k \in T /\ T \subseteq 1 .. Len(a[i].dados)
  BY DEF Achados
<1>2. \A j \in T : a[i].dados[j].d_name = a[i].dados[k].d_name
  BY DEF Achados
<1>3. Primeira(a[i].dados, k)
  BY DirFacts
<1> HIDE DEF T
<1>4. Min(T) \in T /\ Min(T) <= k
  <2>1. T \subseteq Nat /\ T # {}
    BY <1>1
  <2>2. QED  BY <1>1, <2>1, MinIs
<1>5. Min(T) \in 1 .. Len(a[i].dados)
  BY <1>1, <1>4
<1>6. ~(Min(T) \in 1 .. k - 1)
  BY <1>2, <1>3, <1>4 DEF Primeira
<1>7. Min(T) = k
  BY <1>4, <1>5, <1>6
<1>8. QED  BY <1>1, <1>7 DEF T

LEMMA ChildIs ==
  ASSUME NEW a, Valida(a), NEW i \in 1 .. Len(a), EDiretorio(a[i]),
         NEW k \in 1 .. Len(a[i].dados), a[i].dados[k].d_inumber # 0
  PROVE  Filho(a, i, a[i].dados[k].d_name) = a[i].dados[k].d_inumber
<1> DEFINE nome == a[i].dados[k].d_name
<1>1. k \in Achados(a[i], nome) /\ Min(Achados(a[i], nome)) = k
  BY FirstIs
<1> HIDE DEF nome
<1>2. i # 0
  BY TableSize
<1>3. Filho(a, i, nome) = a[i].dados[Min(Achados(a[i], nome))].d_inumber
  BY <1>1, <1>2 DEF Filho, Achados
<1>4. QED  BY <1>1, <1>3 DEF nome
-------------------------------------------------------------------------------
\* The inumbers on the way down a path, from the root to its destination.
Passos(a, p, f) ==
  /\ f \in [0 .. Len(p) -> 0 .. Len(a)] /\ f[0] = ROOT_INUMBER
  /\ \A k \in 1 .. Len(p) : f[k] = Filho(a, f[k - 1], p[k][1])

LEMMA WayExists ==
  ASSUME NEW a, Valida(a), NEW p, Len(p) \in Nat
  PROVE  \E f : Passos(a, p, f)
<1> DEFINE n == Len(p)
           T == 0 .. Len(a)
           g == [x \in (1 .. n) \X T |-> Filho(a, x[2], p[x[1]][1])]
<1>1. ROOT_INUMBER \in T
  BY TableSize DEF ROOT_INUMBER
<1>2. \A x \in (1 .. n) \X T : Filho(a, x[2], p[x[1]][1]) \in T
  BY ChildIn
<1>3. PICK h : h = g
  OBVIOUS
<1>4. h \in Steps(n, T)
  BY <1>2, <1>3 DEF Steps
<1>5. \A k \in 1 .. n, i \in T : h[<<k, i>>] = Filho(a, i, p[k][1])
  BY <1>3
<1> HIDE DEF g, n, T
<1>6. n \in Nat
  BY DEF n
<1>7. PICK r : Recursive(n, T, ROOT_INUMBER, h, r)
  BY <1>1, <1>4, <1>6, Recursion
<1>8. r \in [0 .. n -> T] /\ r[0] = ROOT_INUMBER /\ \A k \in 1 .. n : r[k] = h[<<k, r[k - 1]>>]
  BY <1>7 DEF Recursive
<1>9. \A k \in 1 .. n : r[k] = Filho(a, r[k - 1], p[k][1])
  <2>1. \A k \in 1 .. n : k - 1 \in 0 .. n
    BY <1>6
  <2>2. QED  BY <1>5, <1>8, <2>1
<1>10. QED  BY <1>8, <1>9 DEF Passos, n, T

LEMMA DestinationIs ==
  ASSUME NEW a, NEW p, Len(p) \in Nat, NEW f, Passos(a, p, f)
  PROVE  Destino(a, p) = f[Len(p)]
<1> DEFINE n == Len(p)
           w == CHOOSE g : g = [k \in 0 .. n |->
                  IF k = 0 THEN ROOT_INUMBER ELSE Filho(a, g[k - 1], p[k][1])]
<1>1. Destino(a, p) = w[n]
  BY DEF Destino
<1>2. f = [k \in 0 .. n |-> IF k = 0 THEN ROOT_INUMBER ELSE Filho(a, f[k - 1], p[k][1])]
  <2>1. \A k \in 0 .. n : k = 0 \/ k \in 1 .. n
    OBVIOUS
  <2>2. QED  BY <2>1 DEF Passos
<1>3. w = [k \in 0 .. n |-> IF k = 0 THEN ROOT_INUMBER ELSE Filho(a, w[k - 1], p[k][1])]
  BY <1>2
<1> HIDE DEF w
<1> DEFINE S == {k \in 0 .. n : w[k] = f[k]}
<1>4. 0 \in S
  BY <1>3 DEF Passos
<1>5. ASSUME NEW k \in 0 .. n - 1, k \in S PROVE k + 1 \in S
  <2>1. k + 1 \in 0 .. n /\ k + 1 # 0 /\ (k + 1) - 1 = k /\ k + 1 \in 1 .. n
    OBVIOUS
  <2>2. w[k + 1] = Filho(a, w[k], p[k + 1][1])
    BY <1>3, <2>1
  <2>3. f[k + 1] = Filho(a, f[k], p[k + 1][1])
    BY <2>1 DEF Passos
  <2>4. QED  BY <1>5, <2>1, <2>2, <2>3
<1>6. \A k \in 0 .. n : k \in S
  <2> HIDE DEF S
  <2>1. QED  BY <1>4, <1>5, UpTo
<1>7. n \in S
  <2> HIDE DEF S
  <2>1. QED  BY <1>6
<1>8. QED  BY <1>1, <1>7

\* Paths: sequences of the components that Nome makes.
Simbolos(a) ==
  {a[x[1]].dados[x[2]].d_name :
     x \in (1 .. Len(a)) \X (1 .. MaxBlocos * DISKIMG_SECTOR_SIZE)}
  \cup {Lixo} \cup (0 .. Len(a))
Caminhadas(a) == Seq(Seq(Simbolos(a)))

LEMMA Destination ==
  ASSUME NEW a, Valida(a), NEW p, Len(p) \in Nat
  PROVE  Destino(a, p) \in 0 .. Len(a)
<1>1. PICK f : Passos(a, p, f)
  BY WayExists
<1>2. f[Len(p)] \in 0 .. Len(a)
  BY <1>1 DEF Passos
<1>3. Destino(a, p) = f[Len(p)]
  BY <1>1, DestinationIs
<1>4. QED  BY <1>2, <1>3

LEMMA WayAppend ==
  ASSUME NEW a, Valida(a), NEW T, NEW p \in Seq(T), NEW x \in T, NEW f, Passos(a, p, f)
  PROVE  \E g : /\ Passos(a, Append(p, x), g)
                /\ \A k \in 0 .. Len(p) : g[k] = f[k]
                /\ g[Len(p) + 1] = Filho(a, f[Len(p)], x[1])
<1> DEFINE n == Len(p)
           q == Append(p, x)
           g == [k \in 0 .. n + 1 |-> IF k <= n THEN f[k] ELSE Filho(a, f[n], x[1])]
<1>1. n \in Nat /\ Len(q) = n + 1 /\ (\A k \in 1 .. n : q[k] = p[k]) /\ q[n + 1] = x
  BY AppendProperties
<1>2. f \in [0 .. n -> 0 .. Len(a)] /\ f[0] = ROOT_INUMBER
      /\ \A k \in 1 .. n : f[k] = Filho(a, f[k - 1], p[k][1])
  BY DEF Passos
<1>3. Filho(a, f[n], x[1]) \in 0 .. Len(a)
  BY <1>1, <1>2, ChildIn
<1> HIDE DEF n, q
<1>4. (\A k \in 0 .. n : g[k] = f[k]) /\ g[n + 1] = Filho(a, f[n], x[1])
  BY <1>1
<1>5. g \in [0 .. n + 1 -> 0 .. Len(a)]
  BY <1>1, <1>2, <1>3
<1>6. ASSUME NEW k \in 1 .. n + 1 PROVE g[k] = Filho(a, g[k - 1], q[k][1])
  <2>1. CASE k = n + 1
    <3>1. k - 1 = n /\ n \in 0 .. n
      BY <1>1, <2>1
    <3>2. QED  BY <1>1, <1>4, <2>1, <3>1
  <2>2. CASE k \in 1 .. n
    <3>1. k - 1 \in 0 .. n /\ k \in 0 .. n
      BY <1>1, <2>2
    <3>2. QED  BY <1>1, <1>2, <1>4, <2>2, <3>1
  <2>3. QED  BY <1>1, <2>1, <2>2
<1> HIDE DEF g
<1>7. g[0] = ROOT_INUMBER
  BY <1>1, <1>2, <1>4
<1>8. Passos(a, q, g)
  BY <1>1, <1>5, <1>6, <1>7 DEF Passos
<1>9. QED  BY <1>4, <1>8 DEF n, q

LEMMA DestinationAppend ==
  ASSUME NEW a, Valida(a), NEW T, NEW p \in Seq(T), NEW x \in T
  PROVE  Destino(a, Append(p, x)) = Filho(a, Destino(a, p), x[1])
<1>1. Len(p) \in Nat /\ Len(Append(p, x)) = Len(p) + 1
  BY AppendProperties
<1>2. PICK f : Passos(a, p, f)
  BY <1>1, WayExists
<1>3. PICK g : Passos(a, Append(p, x), g) /\ g[Len(p) + 1] = Filho(a, f[Len(p)], x[1])
  BY <1>2, WayAppend
<1>4. Destino(a, p) = f[Len(p)]
  BY <1>1, <1>2, DestinationIs
<1>5. Len(Append(p, x)) \in Nat
  BY <1>1
<1>6. Destino(a, Append(p, x)) = g[Len(Append(p, x))]
  BY <1>3, <1>5, DestinationIs
<1>7. QED  BY <1>1, <1>3, <1>4, <1>6

LEMMA RootDestination ==
  ASSUME NEW a, Valida(a)
  PROVE  Destino(a, <<>>) = ROOT_INUMBER /\ <<>> \in Caminhadas(a)
<1>1. Len(<<>>) = 0 /\ Len(<<>>) \in Nat
  OBVIOUS
<1>2. PICK f : Passos(a, <<>>, f)
  BY <1>1, WayExists
<1>3. f[0] = ROOT_INUMBER
  BY <1>2 DEF Passos
<1>4. Destino(a, <<>>) = f[0]
  BY <1>1, <1>2, DestinationIs
<1>5. QED  BY <1>3, <1>4, EmptySeq DEF Caminhadas

\* The k-th entry of directory i leads on in the tree.
Entra(a, i, k) ==
  /\ i \in 1 .. Len(a) /\ EDiretorio(a[i])
  /\ k \in 1 .. Len(a[i].dados) /\ Viva(a[i].dados[k])

Segundo(a, p, x) ==
  \E k \in 1 .. Len(a[Destino(a, p)].dados) :
    /\ Entra(a, Destino(a, p), k)
    /\ x = Append(p, <<a[Destino(a, p)].dados[k].d_name>>)

LEMMA BelowIs ==
  ASSUME NEW a, Valida(a), NEW p, Len(p) \in Nat, NEW x
  PROVE  x \in Abaixo(a, p) <=> Segundo(a, p, x)
<1> DEFINE i == Destino(a, p)
<1>1. i \in 0 .. Len(a) /\ Len(a) \in Nat
  BY Destination, TableSize
<1>2. Abaixo(a, p) = IF i = 0 THEN {}
                     ELSE IF ~EDiretorio(a[i]) THEN {}
                     ELSE {Append(p, <<e.d_name>>) : e \in {d \in Dirents(a[i]) : Viva(d)}}
  BY DEF Abaixo
<1>3. Segundo(a, p, x) <=>
        \E k \in 1 .. Len(a[i].dados) :
          Entra(a, i, k) /\ x = Append(p, <<a[i].dados[k].d_name>>)
  BY DEF Segundo
<1> HIDE DEF i
<1>4. CASE i = 0
  BY <1>2, <1>3, <1>4 DEF Entra
<1>5. CASE i # 0 /\ ~EDiretorio(a[i])
  BY <1>2, <1>3, <1>5 DEF Entra
<1>6. CASE i # 0 /\ EDiretorio(a[i])
  <2>1. i \in 1 .. Len(a)
    BY <1>1, <1>6
  <2>2. x \in Abaixo(a, p) <=>
          \E e \in Dirents(a[i]) : Viva(e) /\ x = Append(p, <<e.d_name>>)
    BY <1>2, <1>6
  <2>3. QED  BY <1>3, <1>6, <2>1, <2>2 DEF Dirents, Entra
<1>7. QED  BY <1>4, <1>5, <1>6

LEMMA NameIn ==
  ASSUME NEW a, Valida(a), NEW i \in 1 .. Len(a), NEW k \in 1 .. Len(a[i].dados)
  PROVE  a[i].dados[k].d_name \in Simbolos(a)
<1> DEFINE m == MaxBlocos * DISKIMG_SECTOR_SIZE
<1>1. m \in Nat /\ Len(a[i].dados) \in Nat /\ Len(a[i].dados) <= m
  BY FileFacts, Sizes, Times
<1> HIDE DEF m
<1>2. k \in 1 .. m
  BY <1>1
<1>3. <<i, k>> \in (1 .. Len(a)) \X (1 .. m)
  BY <1>2
<1>4. QED  BY <1>3 DEF Simbolos, m

LEMMA EntryFacts ==
  ASSUME NEW a, Valida(a), NEW i, NEW k, Entra(a, i, k)
  PROVE  LET e == a[i].dados[k]
         IN /\ e.d_inumber \in 1 .. Len(a) /\ a[e.d_inumber].mode # {}
            /\ Filho(a, i, e.d_name) = e.d_inumber
            /\ e.d_name \in Simbolos(a) /\ <<e.d_name>> \in Seq(Simbolos(a))
<1>1. /\ i \in 1 .. Len(a) /\ EDiretorio(a[i])
      /\ k \in 1 .. Len(a[i].dados) /\ a[i].dados[k].d_inumber # 0
  BY DEF Entra, Viva
<1>2. a[i].dados[k].d_inumber \in 1 .. Len(a) /\ a[a[i].dados[k].d_inumber].mode # {}
  BY <1>1, DirFacts
<1>3. Filho(a, i, a[i].dados[k].d_name) = a[i].dados[k].d_inumber
  BY <1>1, ChildIs
<1>4. a[i].dados[k].d_name \in Simbolos(a)
  BY <1>1, NameIn
<1>5. <<a[i].dados[k].d_name>> \in Seq(Simbolos(a))
  <2> DEFINE T == Simbolos(a)
             x == a[i].dados[k].d_name
  <2> HIDE DEF T, x
  <2>1. x \in T
    BY <1>4 DEF T, x
  <2>2. <<x>> \in Seq(T)
    BY <2>1
  <2>3. QED  BY <2>2 DEF T, x
<1>6. QED  BY <1>2, <1>3, <1>4, <1>5

LEMMA BelowIn ==
  ASSUME NEW a, Valida(a), NEW p \in Caminhadas(a)
  PROVE  Abaixo(a, p) \subseteq Caminhadas(a)
<1> SUFFICES ASSUME NEW x \in Abaixo(a, p) PROVE x \in Caminhadas(a)
  OBVIOUS
<1>1. Len(p) \in Nat
  BY DEF Caminhadas
<1>2. Segundo(a, p, x)
  BY <1>1, BelowIs
<1>3. PICK k : Entra(a, Destino(a, p), k) /\ x = Append(p, <<a[Destino(a, p)].dados[k].d_name>>)
  BY <1>2 DEF Segundo
<1>4. <<a[Destino(a, p)].dados[k].d_name>> \in Seq(Simbolos(a))
  BY <1>3, EntryFacts
<1> DEFINE T == Seq(Simbolos(a))
           y == <<a[Destino(a, p)].dados[k].d_name>>
<1>5. p \in Seq(T) /\ y \in T /\ x = Append(p, y)
  BY <1>3, <1>4 DEF Caminhadas
<1> HIDE DEF T, y
<1>6. x \in Seq(T)
  BY <1>5
<1>7. QED  BY <1>6 DEF T, Caminhadas
-------------------------------------------------------------------------------
\* The tree, level by level.
Nivel(a, C) == UNION {Abaixo(a, p) : p \in C}
Niveis(a, r) ==
  r = [d \in 0 .. Len(a) |-> IF d = 0 THEN {<<>>} ELSE Nivel(a, r[d - 1])]

LEMMA LevelsExist ==
  ASSUME NEW a, Valida(a)
  PROVE  \E r : Niveis(a, r)
<1> DEFINE n == Len(a)
           T == SUBSET Caminhadas(a)
           g == [x \in (1 .. n) \X T |-> Nivel(a, x[2])]
<1>1. n \in Nat /\ {<<>>} \in T
  BY TableSize, RootDestination
<1>2. \A x \in (1 .. n) \X T : Nivel(a, x[2]) \in T
  BY BelowIn DEF Nivel
<1>3. PICK h : h = g
  OBVIOUS
<1>4. h \in Steps(n, T)
  BY <1>2, <1>3 DEF Steps
<1>5. \A k \in 1 .. n, C \in T : h[<<k, C>>] = Nivel(a, C)
  BY <1>3
<1> HIDE DEF g, n, T
<1>6. PICK r : Recursive(n, T, {<<>>}, h, r)
  BY <1>1, <1>4, Recursion
<1>7. r \in [0 .. n -> T] /\ r[0] = {<<>>} /\ \A k \in 1 .. n : r[k] = h[<<k, r[k - 1]>>]
  BY <1>6 DEF Recursive
<1>8. \A d \in 0 .. n : r[d] = IF d = 0 THEN {<<>>} ELSE Nivel(a, r[d - 1])
  <2>1. \A k \in 1 .. n : k - 1 \in 0 .. n
    BY <1>1
  <2>2. \A d \in 0 .. n : d = 0 \/ d \in 1 .. n
    BY <1>1
  <2>3. QED  BY <1>5, <1>7, <2>1, <2>2
<1>9. QED  BY <1>7, <1>8 DEF Niveis, n

LEMMA LevelsAre ==
  ASSUME NEW a, Valida(a), NEW r, Niveis(a, r)
  PROVE  Caminhos(a) = UNION {r[d] : d \in 0 .. Len(a)}
<1> DEFINE n == Len(a)
           w == CHOOSE g : g = [d \in 0 .. n |->
                  IF d = 0 THEN {<<>>} ELSE UNION {Abaixo(a, p) : p \in g[d - 1]}]
<1>1. n \in Nat
  BY TableSize
<1>2. Caminhos(a) = UNION {w[d] : d \in 0 .. n}
  BY DEF Caminhos
<1>3. r = [d \in 0 .. n |->
             IF d = 0 THEN {<<>>} ELSE UNION {Abaixo(a, p) : p \in r[d - 1]}]
  BY DEF Niveis, Nivel
<1>4. w = [d \in 0 .. n |->
             IF d = 0 THEN {<<>>} ELSE UNION {Abaixo(a, p) : p \in w[d - 1]}]
  BY <1>3
<1> HIDE DEF w, n
<1> DEFINE S == {d \in 0 .. n : w[d] = r[d]}
<1>5. 0 \in S
  BY <1>1, <1>3, <1>4
<1>6. ASSUME NEW d \in 0 .. n - 1, d \in S PROVE d + 1 \in S
  <2>1. d + 1 \in 0 .. n /\ d + 1 # 0 /\ (d + 1) - 1 = d
    BY <1>1
  <2>2. w[d + 1] = UNION {Abaixo(a, p) : p \in w[d]}
    BY <1>4, <2>1
  <2>3. r[d + 1] = UNION {Abaixo(a, p) : p \in r[d]}
    BY <1>3, <2>1
  <2>4. QED  BY <1>6, <2>1, <2>2, <2>3
<1>7. \A d \in 0 .. n : d \in S
  <2> HIDE DEF S
  <2>1. QED  BY <1>1, <1>5, <1>6, UpTo
<1>8. \A d \in 0 .. n : w[d] = r[d]
  BY <1>7
<1>9. QED  BY <1>2, <1>8 DEF n

\* A way down the tree, through entries that are not deleted.
Segue(a, p, f) ==
  /\ Passos(a, p, f)
  /\ \A k \in 1 .. Len(p) :
       \E j \in 1 .. Len(a[f[k - 1]].dados) :
         Entra(a, f[k - 1], j) /\ p[k] = <<a[f[k - 1]].dados[j].d_name>>

Fundo(a, nivel, p, d) ==
  /\ p \in Caminhadas(a) /\ Destino(a, p) \in 1 .. Len(a)
  /\ nivel[Destino(a, p)] >= d + 1 /\ \E f : Segue(a, p, f)

Crescente(a, nivel) ==
  /\ nivel \in [1 .. Len(a) -> 1 .. Len(a)]
  /\ \A i \in 1 .. Len(a), k \in Nat :
       Entra(a, i, k) => nivel[i] < nivel[a[i].dados[k].d_inumber]

LEMMA LevelsGrow ==
  ASSUME NEW a, Valida(a)
  PROVE  \E nivel : Crescente(a, nivel)
<1>1. PICK nivel \in [1 .. Len(a) -> 1 .. Len(a)] :
        \A i \in 1 .. Len(a) : EDiretorio(a[i]) =>
          \A e \in Dirents(a[i]) : Viva(e) => nivel[i] < nivel[e.d_inumber]
  BY DEF Valida, Arvore
<1>2. QED  BY <1>1 DEF Crescente, Entra, Dirents

LEMMA Deeper ==
  ASSUME NEW a, Valida(a), NEW nivel, Crescente(a, nivel), NEW d \in Nat, NEW p,
         Fundo(a, nivel, p, d), NEW x \in Abaixo(a, p)
  PROVE  Fundo(a, nivel, x, d + 1)
<1> DEFINE i == Destino(a, p)
<1>1. p \in Caminhadas(a) /\ Len(p) \in Nat
  BY DEF Fundo, Caminhadas
<1>2. Segundo(a, p, x)
  BY <1>1, BelowIs
<1>3. PICK k \in 1 .. Len(a[i].dados) : Entra(a, i, k) /\ x = Append(p, <<a[i].dados[k].d_name>>)
  BY <1>2 DEF Segundo
<1> DEFINE e == a[i].dados[k]
           T == Seq(Simbolos(a))
           y == <<e.d_name>>
<1>4. e.d_inumber \in 1 .. Len(a) /\ Filho(a, i, e.d_name) = e.d_inumber /\ y \in T /\ y[1] = e.d_name
  BY <1>3, EntryFacts
<1>5. i \in 1 .. Len(a) /\ nivel[i] >= d + 1
  BY DEF Fundo
<1>6. PICK f : Segue(a, p, f)
  BY DEF Fundo
<1>7. p \in Seq(T)
  BY <1>1 DEF Caminhadas
<1>8. x \in Caminhadas(a)
  BY <1>1, BelowIn
<1>9. Passos(a, p, f)
  BY <1>6 DEF Segue
<1>10. f[Len(p)] = i
  BY <1>1, <1>9, DestinationIs
<1>11. Destino(a, Append(p, y)) = Filho(a, i, y[1])
  <2> HIDE DEF i, y, T
  <2>1. y \in T
    BY <1>4
  <2>2. QED  BY <1>7, <2>1, DestinationAppend DEF i
<1>12. Destino(a, x) = e.d_inumber
  BY <1>3, <1>4, <1>11
<1>13. nivel[e.d_inumber] >= (d + 1) + 1
  <2>1. nivel[i] < nivel[e.d_inumber]
    <3>1. k \in Nat
      BY <1>3
    <3>2. QED  BY <1>3, <1>5, <3>1 DEF Crescente
  <2>2. nivel[i] \in Int /\ nivel[e.d_inumber] \in Int
    BY <1>4, <1>5 DEF Crescente
  <2>3. QED  BY <1>5, <2>1, <2>2
<1>14. \E g : Segue(a, x, g)
  <2> HIDE DEF i, y, T
  <2>1. y \in T /\ x = Append(p, y)
    BY <1>3, <1>4 DEF y, i
  <2>2. PICK g : /\ Passos(a, Append(p, y), g)
                 /\ \A j \in 0 .. Len(p) : g[j] = f[j]
    BY <1>7, <1>9, <2>1, WayAppend
  <2>3. Len(x) = Len(p) + 1 /\ (\A j \in 1 .. Len(p) : x[j] = p[j]) /\ x[Len(p) + 1] = y
    BY <1>7, <2>1, AppendProperties
  <2>4. ASSUME NEW j \in 1 .. Len(x)
        PROVE  \E l \in 1 .. Len(a[g[j - 1]].dados) :
                 Entra(a, g[j - 1], l) /\ x[j] = <<a[g[j - 1]].dados[l].d_name>>
    <3>1. j - 1 \in 0 .. Len(p)
      BY <1>1, <2>3
    <3>2. g[j - 1] = f[j - 1]
      BY <2>2, <3>1
    <3>3. CASE j \in 1 .. Len(p)
      <4>1. x[j] = p[j]
        BY <2>3, <3>3
      <4>2. QED  BY <1>6, <3>2, <3>3, <4>1 DEF Segue
    <3>4. CASE j = Len(p) + 1
      <4>1. j - 1 = Len(p)
        BY <1>1, <3>4
      <4>2. g[j - 1] = i /\ x[j] = y
        BY <1>10, <2>3, <3>2, <3>4, <4>1
      <4>3. QED  BY <1>3, <4>2 DEF y, i
    <3>5. QED  BY <1>1, <2>3, <3>3, <3>4
  <2>5. Passos(a, x, g)
    BY <2>1, <2>2
  <2>6. Segue(a, x, g)
    BY <2>4, <2>5 DEF Segue
  <2>7. QED  BY <2>6
<1>15. QED  BY <1>4, <1>8, <1>12, <1>13, <1>14 DEF Fundo

LEMMA LevelFacts ==
  ASSUME NEW a, Valida(a), NEW nivel, Crescente(a, nivel), NEW r, Niveis(a, r),
         NEW d \in 0 .. Len(a), NEW p \in r[d]
  PROVE  Fundo(a, nivel, p, d)
<1> DEFINE n == Len(a)
           S == {k \in 0 .. n : \A q \in r[k] : Fundo(a, nivel, q, k)}
<1>1. n \in Nat /\ n >= 1
  BY TableSize
<1>2. r = [k \in 0 .. n |-> IF k = 0 THEN {<<>>} ELSE Nivel(a, r[k - 1])]
  BY DEF Niveis
<1> HIDE DEF n
<1>3. 0 \in S
  <2>1. r[0] = {<<>>} /\ 0 \in 0 .. n
    BY <1>1, <1>2
  <2>2. Destino(a, <<>>) = ROOT_INUMBER /\ <<>> \in Caminhadas(a)
    BY RootDestination
  <2>3. ROOT_INUMBER \in 1 .. n
    BY <1>1 DEF ROOT_INUMBER
  <2>4. nivel[ROOT_INUMBER] >= 0 + 1
    BY <2>3 DEF Crescente, n
  <2>5. \E f : Segue(a, <<>>, f)
    <3>1. Len(<<>>) = 0 /\ Len(<<>>) \in Nat
      OBVIOUS
    <3>2. PICK f : Passos(a, <<>>, f)
      BY <3>1, WayExists
    <3>3. Segue(a, <<>>, f)
      BY <3>1, <3>2 DEF Segue
    <3>4. QED  BY <3>3
  <2>6. Fundo(a, nivel, <<>>, 0)
    BY <2>2, <2>3, <2>4, <2>5 DEF Fundo, n
  <2>7. QED  BY <2>1, <2>6
<1>4. ASSUME NEW k \in 0 .. n - 1, k \in S PROVE k + 1 \in S
  <2>1. k + 1 \in 0 .. n /\ k + 1 # 0 /\ (k + 1) - 1 = k /\ k \in Nat
    BY <1>1
  <2>2. r[k + 1] = Nivel(a, r[k])
    BY <1>2, <2>1
  <2>3. ASSUME NEW q \in r[k + 1] PROVE Fundo(a, nivel, q, k + 1)
    <3>1. PICK o \in r[k] : q \in Abaixo(a, o)
      BY <2>2 DEF Nivel
    <3>2. Fundo(a, nivel, o, k)
      BY <1>4
    <3>3. QED  BY <2>1, <3>1, <3>2, Deeper
  <2>4. QED  BY <2>1, <2>3
<1>5. \A k \in 0 .. n : k \in S
  <2> HIDE DEF S
  <2>1. QED  BY <1>1, <1>3, <1>4, UpTo
<1>6. QED  BY <1>5 DEF n

\* The tree ends: no path has more components than the disk has inodes.
LEMMA TreeFacts ==
  ASSUME NEW a, Valida(a)
  PROVE  /\ <<>> \in Caminhos(a)
         /\ \A p \in Caminhos(a) :
              /\ p \in Caminhadas(a) /\ Destino(a, p) \in 1 .. Len(a)
              /\ \E f : Segue(a, p, f)
              /\ Abaixo(a, p) \subseteq Caminhos(a)
<1>1. PICK r : Niveis(a, r)
  BY LevelsExist
<1>2. PICK nivel : Crescente(a, nivel)
  BY LevelsGrow
<1>3. Caminhos(a) = UNION {r[d] : d \in 0 .. Len(a)}
  BY <1>1, LevelsAre
<1>4. Len(a) \in Nat
  BY TableSize
<1>5. \A d \in 0 .. Len(a) : r[d] = IF d = 0 THEN {<<>>} ELSE Nivel(a, r[d - 1])
  BY <1>1 DEF Niveis
<1>6. <<>> \in Caminhos(a)
  <2>1. 0 \in 0 .. Len(a)
    BY <1>4
  <2>2. QED  BY <1>3, <1>5, <2>1
<1>7. ASSUME NEW p \in Caminhos(a)
      PROVE  /\ p \in Caminhadas(a) /\ Destino(a, p) \in 1 .. Len(a)
             /\ \E f : Segue(a, p, f)
             /\ Abaixo(a, p) \subseteq Caminhos(a)
  <2>1. PICK d \in 0 .. Len(a) : p \in r[d]
    BY <1>3
  <2>2. Fundo(a, nivel, p, d)
    BY <1>1, <1>2, <2>1, LevelFacts
  <2>3. d < Len(a)
    <3>1. nivel[Destino(a, p)] \in 1 .. Len(a) /\ nivel[Destino(a, p)] >= d + 1
      BY <1>2, <2>2 DEF Fundo, Crescente
    <3>2. QED  BY <1>4, <3>1
  <2>4. d + 1 \in 0 .. Len(a) /\ d + 1 # 0 /\ (d + 1) - 1 = d
    BY <1>4, <2>3
  <2>5. r[d + 1] = Nivel(a, r[d])
    BY <1>5, <2>4
  <2>6. Abaixo(a, p) \subseteq r[d + 1]
    BY <2>1, <2>5 DEF Nivel
  <2>7. r[d + 1] \subseteq Caminhos(a)
    BY <1>3, <2>4
  <2>8. QED  BY <2>2, <2>6, <2>7 DEF Fundo
<1>8. QED  BY <1>6, <1>7

LEMMA TreeInduction ==
  ASSUME NEW a, Valida(a), NEW X, <<>> \in X, \A p \in X : Abaixo(a, p) \subseteq X
  PROVE  Caminhos(a) \subseteq X
<1> DEFINE n == Len(a)
<1>1. PICK r : Niveis(a, r)
  BY LevelsExist
<1>2. n \in Nat
  BY TableSize
<1>3. Caminhos(a) = UNION {r[d] : d \in 0 .. n}
  BY <1>1, LevelsAre
<1>4. \A d \in 0 .. n : r[d] = IF d = 0 THEN {<<>>} ELSE Nivel(a, r[d - 1])
  BY <1>1 DEF Niveis
<1> HIDE DEF n
<1> DEFINE S == {d \in 0 .. n : r[d] \subseteq X}
<1>5. 0 \in S
  BY <1>2, <1>4
<1>6. ASSUME NEW d \in 0 .. n - 1, d \in S PROVE d + 1 \in S
  <2>1. d + 1 \in 0 .. n /\ d + 1 # 0 /\ (d + 1) - 1 = d
    BY <1>2
  <2>2. r[d + 1] = Nivel(a, r[d])
    BY <1>4, <2>1
  <2>3. r[d + 1] \subseteq X
    BY <1>6, <2>2 DEF Nivel
  <2>4. QED  BY <2>1, <2>3
<1>7. \A d \in 0 .. n : d \in S
  <2> HIDE DEF S
  <2>1. QED  BY <1>2, <1>5, <1>6, UpTo
<1>8. QED  BY <1>3, <1>7
-------------------------------------------------------------------------------
\* LookupAgrees. A name that does not fill d_name is found in what
\* directory_findname reads of the directory.
LEMMA NameFound ==
  ASSUME NEW ents, NEW k, NEW nome, nome \notin Completos
  PROVE  Nome(ents, k, <<Lixo>>) = <<nome>> <=> ents[k].d_name = nome
<1> DEFINE x == ents[k].d_name
<1>1. x \notin Completos => Nome(ents, k, <<Lixo>>) = <<x>>
  BY DEF Nome
<1>2. x \in Completos => Nome(ents, k, <<Lixo>>)[1] = x
  <2>1. SUFFICES ASSUME x \in Completos PROVE Nome(ents, k, <<Lixo>>)[1] = x
    OBVIOUS
  <2>2. (<<x>> \o <<Lixo>>)[1] = x
    <3> DEFINE T == {x, Lixo}
    <3>1. x \in T /\ Lixo \in T
      OBVIOUS
    <3> HIDE DEF T, x
    <3>2. <<x>> \in Seq(T) /\ <<Lixo>> \in Seq(T) /\ Len(<<x>>) = 1
      BY <3>1
    <3>3. QED  BY <3>2, ConcatProperties
  <2>3. <<x>>[1] = x /\ <<x, ents[k + 1].d_inumber>>[1] = x
    OBVIOUS
  <2>4. \/ Nome(ents, k, <<Lixo>>) = <<x>> \o <<Lixo>>
        \/ Nome(ents, k, <<Lixo>>) = <<x>>
        \/ Nome(ents, k, <<Lixo>>) = <<x, ents[k + 1].d_inumber>>
    BY <2>1 DEF Nome
  <2>5. QED  BY <2>2, <2>3, <2>4
<1> HIDE DEF x
<1>3. <<nome>>[1] = nome /\ <<x>>[1] = x
  OBVIOUS
<1>4. x \in Completos => Nome(ents, k, <<Lixo>>) # <<nome>>
  BY <1>2, <1>3
<1>5. x \notin Completos => (Nome(ents, k, <<Lixo>>) = <<nome>> <=> x = nome)
  BY <1>1, <1>3
<1>6. QED  BY <1>4, <1>5 DEF x

BlocosLidos(im, i, n) == [b \in 1 .. quantBlocos(n) |-> file_getblock(im, i, b - 1).buf]
Cheio(d) ==
  [k \in 1 .. quantBlocos(Len(d)) * DISKIMG_SECTOR_SIZE |-> IF k <= Len(d) THEN d[k] ELSE Zeros]

LEMMA WholeBlocks ==
  ASSUME NEW a, Valida(a), NEW im, Formatada(im, a), NEW i \in 1 .. Len(a),
         a[i].mode # {}, Acessivel(im, a, i)
  PROVE  FlattenSeq(BlocosLidos(im, i, Len(a[i].dados))) = Cheio(a[i].dados)
<1> DEFINE S == DISKIMG_SECTOR_SIZE
           d == a[i].dados
           n == Len(d)
           q == quantBlocos(n)
           m == q * S
           c == Cheio(d)
           T == {d[k] : k \in 1 .. n} \cup {Zeros}
           corte == [j \in 0 .. q |-> j * S]
           seqs == BlocosLidos(im, i, n)
<1>1. n \in Nat /\ S \in Nat \ {0}
  BY FileFacts, Sizes
<1>2. q \in Nat /\ m \in Nat
  <2>1. q \in Nat
    BY <1>1, Blocks
  <2> HIDE DEF q
  <2>2. QED  BY <1>1, <2>1, Times
<1>3. c = [k \in 1 .. m |-> IF k <= n THEN d[k] ELSE Zeros]
  BY DEF Cheio
<1> HIDE DEF m, c
<1>4. c \in Seq(T) /\ Len(c) = m
  <2>1. c \in [1 .. m -> T]
    BY <1>1, <1>2, <1>3
  <2> HIDE DEF T
  <2>2. QED  BY <1>2, <2>1
<1>5. ASSUME NEW j \in 0 .. q PROVE j * S \in 0 .. m
  <2> DEFINE x == j * S
  <2>1. x \in Nat /\ x <= m
    BY <1>1, <1>2, Times DEF m
  <2> HIDE DEF x
  <2>2. x \in 0 .. m
    BY <1>2, <2>1
  <2>3. QED  BY <2>2 DEF x
<1>6. corte \in [0 .. q -> 0 .. m] /\ corte[0] = 0 /\ corte[q] = m
  <2>1. 0 * S = 0 /\ 0 \in 0 .. q /\ q \in 0 .. q
    BY <1>1, <1>2
  <2>2. QED  BY <1>5, <2>1 DEF m
<1>7. ASSUME NEW j \in 1 .. q
      PROVE  /\ seqs[j] \in Seq(T) /\ corte[j] = corte[j - 1] + Len(seqs[j])
             /\ \A k \in 1 .. Len(seqs[j]) : seqs[j][k] = c[corte[j - 1] + k]
  <2> DEFINE b == j - 1
             x == b * S
  <2>1. b \in 0 .. q - 1 /\ b \in 0 .. q /\ j \in 0 .. q /\ j = b + 1
    BY <1>2
  <2>2. /\ file_getblock(im, i, b).buf = [k \in 1 .. S |-> IF x + k <= n THEN d[x + k] ELSE Zeros]
        /\ x \in Nat
    BY <2>1, GetBlock
  <2>3. seqs[j] = file_getblock(im, i, b).buf
    BY DEF BlocosLidos
  <2>4. corte[j] = x + S
    <3>1. j * S = x + S
      BY <1>1, <2>1
    <3>2. QED  BY <2>1, <3>1
  <2>5. corte[j - 1] = x
    BY <2>1
  <2>6. x + S <= m
    <3>1. j * S = x + S
      BY <1>1, <2>1
    <3>2. j * S \in 0 .. m
      BY <1>5, <2>1
    <3>3. QED  BY <1>1, <1>2, <3>1, <3>2
  <2> HIDE DEF x, b, seqs, corte, S, n
  <2>7. \A k \in 1 .. S : seqs[j][k] = c[x + k] /\ seqs[j][k] \in T
    <3> SUFFICES ASSUME NEW k \in 1 .. S PROVE seqs[j][k] = c[x + k] /\ seqs[j][k] \in T
      OBVIOUS
    <3>1. x + k \in 1 .. m
      BY <1>1, <1>2, <2>2, <2>6
    <3>2. seqs[j][k] = IF x + k <= n THEN d[x + k] ELSE Zeros
      BY <2>2, <2>3
    <3>3. c[x + k] = IF x + k <= n THEN d[x + k] ELSE Zeros
      BY <1>3, <3>1
    <3>4. x + k <= n => x + k \in 1 .. n
      BY <1>1, <1>2, <3>1
    <3>5. QED  BY <3>2, <3>3, <3>4 DEF T
  <2> HIDE DEF T
  <2>8. seqs[j] \in Seq(T) /\ Len(seqs[j]) = S
    <3>1. seqs[j] = [k \in 1 .. S |-> IF x + k <= n THEN d[x + k] ELSE Zeros]
      BY <2>2, <2>3
    <3>2. seqs[j] \in [1 .. S -> T]
      BY <2>7, <3>1
    <3>3. QED  BY <1>1, <3>2
  <2>9. QED  BY <2>4, <2>5, <2>7, <2>8
<1>8. seqs = [j \in 1 .. q |-> seqs[j]]
  BY DEF BlocosLidos
<1>9. Pedacos(T, c, q, corte, seqs)
  <2> HIDE DEF T, q, corte, seqs
  <2>1. QED  BY <1>2, <1>4, <1>6, <1>7, <1>8 DEF Pedacos
<1>10. FlattenSeq(seqs) = c
  <2> HIDE DEF T, q, corte, seqs
  <2>1. QED  BY <1>9, Flatten
<1>11. QED  BY <1>10 DEF c

\* directory_findname finds an inumber that the directory holds; for a name
\* of less than full length, that of the first entry of the name.
LEMMA NameSearched ==
  ASSUME NEW a, Valida(a), NEW im, Formatada(im, a), NEW i \in 1 .. Len(a), EDiretorio(a[i]),
         Acessivel(im, a, i), NEW token
  PROVE  LET r == directory_findname(im, token, i)
         IN /\ r \in 0 .. Len(a) \/ r = Erro
            /\ \A nome : token = <<nome>> /\ nome \notin Completos /\ Achados(a[i], nome) # {}
                        => r = Filho(a, i, nome) /\ r \in 0 .. Len(a)
<1> DEFINE ind == inode_iget(im, i)
           size == inode_getsize(ind)
           lidos == FlattenSeq([b \in 1 .. quantBlocos(size) |-> file_getblock(im, i, b - 1).buf])
           achados == {k \in 1 .. size : Nome(lidos, k, <<Lixo>>) = token}
           r == directory_findname(im, token, i)
<1>2. "IFDIR" \in a[i].mode /\ a[i].mode # {}
  BY DEF EDiretorio
<1>3. ind = Inode(a, i)
  BY <1>2, ChksumRight
<1>4. "IFDIR" \in ind.mode
  BY <1>2, <1>3, Modes
<1>5. size = Len(a[i].dados) /\ Len(a[i].dados) \in Nat
  BY <1>3, SizeRead, FileFacts
<1>6. r = IF "IFDIR" \notin ind.mode \/ achados = {} THEN Erro ELSE lidos[Min(achados)].d_inumber
  BY DEF directory_findname
<1> HIDE DEF ind
<1>7. lidos = Cheio(a[i].dados)
  BY <1>2, <1>5, WholeBlocks DEF BlocosLidos
<1> HIDE DEF lidos
<1>8. \A k \in 1 .. size : lidos[k] = a[i].dados[k]
  <2> DEFINE m == quantBlocos(Len(a[i].dados)) * DISKIMG_SECTOR_SIZE
  <2>1. m \in Nat /\ Len(a[i].dados) <= m
    <3> DEFINE l == Len(a[i].dados)
               q == quantBlocos(l)
    <3>1. l \in Nat /\ q \in Nat /\ l <= q * DISKIMG_SECTOR_SIZE
      BY <1>5, Blocks
    <3> HIDE DEF q
    <3>2. q * DISKIMG_SECTOR_SIZE \in Nat
      BY <3>1, Sizes, Times
    <3>3. QED  BY <3>1, <3>2 DEF q
  <2>2. lidos = [k \in 1 .. m |-> IF k <= Len(a[i].dados) THEN a[i].dados[k] ELSE Zeros]
    BY <1>7 DEF Cheio
  <2> HIDE DEF m, size
  <2>3. QED  BY <1>5, <2>1, <2>2
<1> HIDE DEF size, r
<1>9. achados \subseteq Nat /\ achados \subseteq 1 .. Len(a[i].dados)
  BY <1>5
<1>10. ASSUME achados # {}
       PROVE  Min(achados) \in 1 .. Len(a[i].dados) /\ r = a[i].dados[Min(achados)].d_inumber
  <2> DEFINE m == Min(achados)
  <2>1. m \in achados
    <3> HIDE DEF achados
    <3>1. QED  BY <1>9, <1>10, MinIs
  <2>2. m \in 1 .. Len(a[i].dados) /\ lidos[m] = a[i].dados[m]
    BY <1>5, <1>8, <1>9, <2>1
  <2>3. QED  BY <1>4, <1>6, <1>10, <2>2
<1>11. r \in 0 .. Len(a) \/ r = Erro
  <2>1. CASE achados = {}
    BY <1>6, <2>1
  <2>2. CASE achados # {}
    <3> HIDE DEF achados
    <3>1. QED  BY <1>10, <2>2, DirFacts
  <2>3. QED  BY <2>1, <2>2
<1>12. ASSUME NEW nome, token = <<nome>>, nome \notin Completos, Achados(a[i], nome) # {}
       PROVE  r = Filho(a, i, nome) /\ r \in 0 .. Len(a)
  <2>1. \A k \in 1 .. size : Nome(lidos, k, <<Lixo>>) = token <=> lidos[k].d_name = nome
    BY <1>12, NameFound
  <2>2. achados = Achados(a[i], nome)
    BY <1>5, <1>8, <2>1 DEF Achados
  <2>3. r = a[i].dados[Min(achados)].d_inumber
    BY <1>10, <1>12, <2>2
  <2>4. Filho(a, i, nome) = a[i].dados[Min(Achados(a[i], nome))].d_inumber
    <3>1. i # 0
      OBVIOUS
    <3>2. QED  BY <1>12, <3>1 DEF Filho, Achados
  <2>5. Filho(a, i, nome) \in 0 .. Len(a)
    <3>1. i \in 0 .. Len(a)
      OBVIOUS
    <3>2. QED  BY <3>1, ChildIn
  <2> HIDE DEF achados
  <2>6. QED  BY <2>2, <2>3, <2>4, <2>5
<1>13. QED  BY <1>11, <1>12 DEF r

LEMMA FindName ==
  ASSUME NEW a, Valida(a), NEW im, Formatada(im, a), NEW i, NEW j, Entra(a, i, j),
         Acessivel(im, a, i), a[i].dados[j].d_name \notin Completos
  PROVE  directory_findname(im, <<a[i].dados[j].d_name>>, i) = a[i].dados[j].d_inumber
<1> DEFINE nome == a[i].dados[j].d_name
<1>1. /\ i \in 1 .. Len(a) /\ EDiretorio(a[i]) /\ j \in Achados(a[i], nome)
      /\ Filho(a, i, nome) = a[i].dados[j].d_inumber
  BY EntryFacts DEF Entra, Viva, Achados
<1>2. PICK token : token = <<nome>>
  OBVIOUS
<1>3. \A n : token = <<n>> /\ n \notin Completos /\ Achados(a[i], n) # {}
             => directory_findname(im, token, i) = Filho(a, i, n)
  <2>1. LET r == directory_findname(im, token, i)
        IN /\ r \in 0 .. Len(a) \/ r = Erro
           /\ \A n : token = <<n>> /\ n \notin Completos /\ Achados(a[i], n) # {}
                    => r = Filho(a, i, n) /\ r \in 0 .. Len(a)
    BY <1>1, NameSearched, Zenon
  <2>2. QED  BY <2>1
<1>4. QED  BY <1>1, <1>2, <1>3

\* So a way down the tree is the way that pathname_lookup takes, whatever
\* diretorioAtual held before.
LEMMA LookupRight ==
  ASSUME NEW a, Valida(a), NEW im, Formatada(im, a), NEW p, Len(p) \in Nat,
         NEW f, Segue(a, p, f), \A i \in 1 .. Len(a) : Acessivel(im, a, i),
         \A k \in 1 .. Len(p) : p[k][1] \notin Completos, NEW atual
  PROVE  pathname_lookup(im, p, atual) = Destino(a, p)
<1> DEFINE n == Len(p)
           passo == CHOOSE g : g = [k \in 0 .. n |->
                      IF k = 0 THEN [inode |-> ROOT_INUMBER, ent |-> atual]
                      ELSE Componente(im, p[k], g[k - 1])]
           s == [k \in 0 .. n |-> [inode |-> f[k], ent |-> IF k = 0 THEN atual ELSE f[k]]]
<1>1. pathname_lookup(im, p, atual) = passo[n].inode
  BY DEF pathname_lookup
<1>2. Passos(a, p, f)
  BY DEF Segue
<1>3. f[0] = ROOT_INUMBER /\ \A k \in 1 .. n : f[k] = Filho(a, f[k - 1], p[k][1])
  BY <1>2 DEF Passos
<1>4. Destino(a, p) = f[n]
  BY <1>2, DestinationIs
<1>5. ASSUME NEW k \in 1 .. n PROVE Componente(im, p[k], s[k - 1]) = s[k]
  <2>1. PICK j : Entra(a, f[k - 1], j) /\ p[k] = <<a[f[k - 1]].dados[j].d_name>>
    BY DEF Segue
  <2> DEFINE i == f[k - 1]
             e == a[i].dados[j]
  <2>2. i \in 1 .. Len(a)
    BY <2>1 DEF Entra
  <2>3. p[k][1] = e.d_name
    BY <2>1
  <2>4. e.d_inumber \in 1 .. Len(a) /\ Filho(a, i, e.d_name) = e.d_inumber
    BY <2>1, EntryFacts
  <2>5. directory_findname(im, p[k], i) = e.d_inumber
    <3>1. e.d_name \notin Completos /\ Acessivel(im, a, i)
      BY <2>2, <2>3
    <3>2. directory_findname(im, <<e.d_name>>, i) = e.d_inumber
      BY <2>1, <3>1, FindName
    <3>3. QED  BY <2>1, <3>2
  <2>6. f[k] = e.d_inumber
    BY <1>3, <2>3, <2>4
  <2>7. s[k - 1].inode = i /\ s[k] = [inode |-> f[k], ent |-> f[k]]
    <3>1. k - 1 \in 0 .. n /\ k \in 0 .. n /\ k # 0
      OBVIOUS
    <3>2. QED  BY <3>1
  <2>8. e.d_inumber # Erro
    BY <2>4, TableSize, Sizes
  <2> HIDE DEF s, e, i
  <2>9. QED  BY <2>5, <2>6, <2>7, <2>8 DEF Componente
<1>6. s = [k \in 0 .. n |-> IF k = 0 THEN [inode |-> ROOT_INUMBER, ent |-> atual]
                            ELSE Componente(im, p[k], s[k - 1])]
  <2>1. s[0] = [inode |-> ROOT_INUMBER, ent |-> atual]
    BY <1>3
  <2>2. \A k \in 0 .. n : k = 0 \/ k \in 1 .. n
    OBVIOUS
  <2>3. \A k \in 0 .. n : s[k] = IF k = 0 THEN [inode |-> ROOT_INUMBER, ent |-> atual]
                                 ELSE Componente(im, p[k], s[k - 1])
    <3> HIDE DEF s
    <3>1. QED  BY <1>5, <2>1, <2>2
  <2>4. s = [k \in 0 .. n |-> s[k]]
    OBVIOUS
  <2> HIDE DEF s
  <2>5. QED  BY <2>3, <2>4
<1>7. passo = [k \in 0 .. n |-> IF k = 0 THEN [inode |-> ROOT_INUMBER, ent |-> atual]
                                ELSE Componente(im, p[k], passo[k - 1])]
  <2> HIDE DEF s
  <2>1. QED  BY <1>6
<1> HIDE DEF passo
<1>8. s[n].inode = f[n]
  BY <1>3
<1> HIDE DEF s
<1> DEFINE S == {k \in 0 .. n : passo[k] = s[k]}
<1>9. 0 \in S
  BY <1>6, <1>7
<1>10. ASSUME NEW k \in 0 .. n - 1, k \in S PROVE k + 1 \in S
  <2>1. k + 1 \in 0 .. n /\ k + 1 # 0 /\ (k + 1) - 1 = k
    OBVIOUS
  <2>2. passo[k + 1] = Componente(im, p[k + 1], passo[k])
    BY <1>7, <2>1
  <2>3. s[k + 1] = Componente(im, p[k + 1], s[k])
    BY <1>6, <2>1
  <2>4. QED  BY <1>10, <2>1, <2>2, <2>3
<1>11. \A k \in 0 .. n : k \in S
  <2> HIDE DEF S
  <2>1. QED  BY <1>9, <1>10, UpTo
<1>12. passo[n] = s[n]
  <2>1. n \in S
    <3> HIDE DEF S
    <3>1. QED  BY <1>11
  <2>2. QED  BY <2>1
<1>13. QED  BY <1>1, <1>4, <1>8, <1>12

LEMMA TreeLookup ==
  ASSUME ImagemInv, Inteira, NEW p \in Caminhos(arquivos), NEW atual,
         \A k \in 1 .. Len(p) : p[k][1] \notin Completos
  PROVE  pathname_lookup(img, p, atual) = Destino(arquivos, p)
<1>1. Valida(arquivos) /\ Formatada(img, arquivos)
  BY DEF ImagemInv
<1>2. p \in Caminhadas(arquivos) /\ \E f : Segue(arquivos, p, f)
  BY <1>1, TreeFacts
<1>3. Len(p) \in Nat
  BY <1>2 DEF Caminhadas
<1>4. \A i \in 1 .. Len(arquivos) : Acessivel(img, arquivos, i)
  BY Readable DEF Inteira, Inumbers
<1>5. QED  BY <1>1, <1>2, <1>3, <1>4, LookupRight

\* LookupAgrees: on an image that can be read pathname_lookup comes to the
\* inumber that a path of the tree has, though it goes on after a component
\* that it does not find and takes names as C strings.
THEOREM LookupFollows == Spec => []LookupAgrees
<1>1. ImagemInv => LookupAgrees
  BY TreeLookup DEF LookupAgrees
<1>2. QED  BY <1>1, ImageInvariance, PTL
-------------------------------------------------------------------------------
\* The walk of -p. A frame is of a directory and a line of a file that is not
\* free; both are where their path leads when its names are whole, and when
\* all names are whole every path is one of the tree.
Legiveis(im, a) == \A i \in 1 .. Len(a) : Acessivel(im, a, i)
SemCortes(a) ==
  \A i \in 1 .. Len(a), k \in Nat :
    EDiretorio(a[i]) /\ k \in 1 .. Len(a[i].dados) => a[i].dados[k].d_name \notin Completos
Simples(p) == \A k \in 1 .. Len(p) : Len(p[k]) = 1

Lugar(a, p, n) ==
  /\ n \in 1 .. Len(a) /\ p \in Caminhadas(a)
  /\ Simples(p) => Destino(a, p) = n
  /\ SemCortes(a) => p \in Caminhos(a) /\ Simples(p)

Quadros(a) ==
  [path : Caminhadas(a), ents : {a[n].dados : n \in 1 .. Len(a)}, i : Nat]
Quadro(a, f) ==
  /\ \E n \in 1 .. Len(a) : EDiretorio(a[n]) /\ f.ents = a[n].dados /\ Lugar(a, f.path, n)
  /\ f.i \in 1 .. Len(f.ents) + 1

Linha(im, a, l) ==
  /\ Lugar(a, l.path, l.inumber)
  /\ Legiveis(im, a) => l.chksum = a[l.inumber].dados

LEMMA EntryOfDirectory ==
  ASSUME NEW i \in Inumbers, EDiretorio(arquivos[i]), NEW k \in 1 .. Len(arquivos[i].dados)
  PROVE  arquivos[i].dados[k] \in Nomes
BY DEF Nomes

LEMMA WholeNames ==
  ASSUME Valida(arquivos), ~Cortados
  PROVE  SemCortes(arquivos)
BY EntryOfDirectory DEF Cortados, SemCortes, Inumbers

\* What Nome makes of an entry begins with its name.
LEMMA NameIs ==
  ASSUME NEW a, Valida(a), NEW i \in 1 .. Len(a), EDiretorio(a[i]),
         NEW k \in 1 .. Len(a[i].dados), NEW resto \in {<<>>, <<Lixo>>}
  PROVE  LET x == Nome(a[i].dados, k, resto)
             nome == a[i].dados[k].d_name
         IN /\ x \in Seq(Simbolos(a)) /\ x[1] = nome
            /\ nome \notin Completos => x = <<nome>>
<1> DEFINE ents == a[i].dados
           nome == ents[k].d_name
           T == Simbolos(a)
<1>1. nome \in T /\ Lixo \in T
  BY NameIn DEF Simbolos
<1>2. k # Len(ents) => ents[k + 1].d_inumber \in T
  <2>1. SUFFICES ASSUME k # Len(ents) PROVE ents[k + 1].d_inumber \in T
    OBVIOUS
  <2>2. k + 1 \in 1 .. Len(ents)
    <3>1. Len(ents) \in Nat
      BY FileFacts
    <3>2. QED  BY <2>1, <3>1
  <2>3. ents[k + 1].d_inumber \in 0 .. Len(a)
    BY <2>2, DirFacts
  <2>4. QED  BY <2>3 DEF Simbolos
<1>3. \/ Nome(ents, k, resto) = <<nome>>
      \/ nome \in Completos /\ Nome(ents, k, resto) = <<nome>> \o resto
      \/ nome \in Completos /\ k # Len(ents)
         /\ Nome(ents, k, resto) = <<nome, ents[k + 1].d_inumber>>
  BY DEF Nome
<1>4. nome \notin Completos => Nome(ents, k, resto) = <<nome>>
  BY DEF Nome
<1> DEFINE m == ents[k + 1].d_inumber
           x == Nome(ents, k, resto)
<1> HIDE DEF ents, nome, T, m, x
<1>5. <<nome>> \in Seq(T) /\ <<nome>>[1] = nome /\ Len(<<nome>>) = 1
  BY <1>1
<1>6. resto \in Seq(T)
  <2>1. <<Lixo>> \in Seq(T)
    BY <1>1
  <2>2. <<>> \in Seq(T)
    BY EmptySeq
  <2>3. QED  BY <2>1, <2>2
<1>7. <<nome>> \o resto \in Seq(T) /\ (<<nome>> \o resto)[1] = nome
  BY <1>5, <1>6, ConcatProperties
<1>8. m \in T => <<nome, m>> \in Seq(T) /\ <<nome, m>>[1] = nome
  BY <1>1
<1>9. x \in Seq(T) /\ x[1] = nome /\ (nome \notin Completos => x = <<nome>>)
  BY <1>2, <1>3, <1>4, <1>5, <1>7, <1>8 DEF x, m
<1>10. QED  BY <1>9 DEF x, nome, ents, T

LEMMA SimpleAppend ==
  ASSUME NEW T, NEW p \in Seq(T), NEW x \in T
  PROVE  Simples(Append(p, x)) <=> Simples(p) /\ Len(x) = 1
<1> DEFINE q == Append(p, x)
<1>1. Len(q) = Len(p) + 1 /\ Len(p) \in Nat
      /\ (\A k \in 1 .. Len(p) : q[k] = p[k]) /\ q[Len(p) + 1] = x
  BY AppendProperties
<1> HIDE DEF q
<1>2. \A k \in 1 .. Len(q) : k \in 1 .. Len(p) \/ k = Len(p) + 1
  BY <1>1
<1>3. Len(p) + 1 \in 1 .. Len(q) /\ \A k \in 1 .. Len(p) : k \in 1 .. Len(q)
  BY <1>1
<1>4. Simples(q) <=> Simples(p) /\ Len(x) = 1
  BY <1>1, <1>2, <1>3 DEF Simples
<1>5. QED  BY <1>4 DEF q

LEMMA NoName ==
  ASSUME NEW a, Valida(a)
  PROVE  Lugar(a, <<>>, ROOT_INUMBER) /\ EDiretorio(a[ROOT_INUMBER])
         /\ a[ROOT_INUMBER].mode # {}
<1>1. Destino(a, <<>>) = ROOT_INUMBER /\ <<>> \in Caminhadas(a) /\ <<>> \in Caminhos(a)
  BY RootDestination, TreeFacts
<1>2. ROOT_INUMBER \in 1 .. Len(a) /\ EDiretorio(a[ROOT_INUMBER])
  BY TableSize DEF Valida, ROOT_INUMBER
<1>3. Simples(<<>>)
  BY DEF Simples
<1>4. QED  BY <1>1, <1>2, <1>3 DEF Lugar, EDiretorio

\* The call for an entry of a frame.
LEMMA CallFacts ==
  ASSUME NEW a, Valida(a), NEW f, Quadro(a, f), f.i <= Len(f.ents),
         NEW resto \in {<<>>, <<Lixo>>}
  PROVE  LET e == f.ents[f.i]
             q == Append(f.path, Nome(f.ents, f.i, resto))
         IN /\ e.d_inumber \in 0 .. Len(a)
            /\ \E i \in 1 .. Len(a) : EDiretorio(a[i]) /\ f.i \in 1 .. Len(a[i].dados)
                                      /\ e = a[i].dados[f.i]
            /\ SemCortes(a) => q = Append(f.path, <<e.d_name>>)
            /\ e.d_inumber # 0 =>
                 /\ e.d_inumber \in 1 .. Len(a) /\ a[e.d_inumber].mode # {}
                 /\ ~Especial(e.d_name) => Lugar(a, q, e.d_inumber)
<1>1. PICK n \in 1 .. Len(a) :
        EDiretorio(a[n]) /\ f.ents = a[n].dados /\ Lugar(a, f.path, n)
  BY DEF Quadro
<1> DEFINE k == f.i
           e == a[n].dados[k]
           x == Nome(a[n].dados, k, resto)
           p == f.path
           q == Append(p, x)
           T == Seq(Simbolos(a))
<1>2. k \in 1 .. Len(a[n].dados)
  <2>1. Len(a[n].dados) \in Nat
    BY FileFacts
  <2>2. QED  BY <1>1, <2>1 DEF Quadro
<1>3. /\ e.d_inumber \in 0 .. Len(a)
      /\ e.d_inumber # 0 => e.d_inumber \in 1 .. Len(a) /\ a[e.d_inumber].mode # {}
  BY <1>1, <1>2, DirFacts
<1>4. x \in T /\ x[1] = e.d_name /\ (e.d_name \notin Completos => x = <<e.d_name>>)
  <2>1. LET z == Nome(a[n].dados, k, resto)
            nome == a[n].dados[k].d_name
        IN /\ z \in Seq(Simbolos(a)) /\ z[1] = nome
           /\ nome \notin Completos => z = <<nome>>
    <3> HIDE DEF k
    <3>1. EDiretorio(a[n])
      BY <1>1
    <3>2. QED  BY <1>2, <3>1, NameIs, Zenon
  <2>2. QED  BY <2>1
<1>5. SemCortes(a) => x = <<e.d_name>>
  <2>1. k \in Nat
    BY <1>2
  <2>2. QED  BY <1>1, <1>2, <1>4, <2>1 DEF SemCortes
<1>6. p \in Seq(T)
  BY <1>1 DEF Lugar, Caminhadas
<1>7. ASSUME e.d_inumber # 0, ~Especial(e.d_name) PROVE Lugar(a, q, e.d_inumber)
  <2>1. q \in Caminhadas(a)
    <3> HIDE DEF x, T, p
    <3>1. Append(p, x) \in Seq(T)
      BY <1>4, <1>6
    <3>2. QED  BY <3>1 DEF T, Caminhadas
  <2>2. Simples(q) <=> Simples(p) /\ Len(x) = 1
    <3> HIDE DEF x, T, p
    <3>1. QED  BY <1>4, <1>6, SimpleAppend
  <2>3. Destino(a, q) = Filho(a, Destino(a, p), x[1])
    <3> HIDE DEF x, T, p
    <3>1. QED  BY <1>4, <1>6, DestinationAppend
  <2>4. Filho(a, n, e.d_name) = e.d_inumber
    BY <1>1, <1>2, <1>7, ChildIs
  <2>5. Simples(q) => Destino(a, q) = e.d_inumber
    BY <1>1, <1>4, <2>2, <2>3, <2>4 DEF Lugar
  <2>6. ASSUME SemCortes(a) PROVE q \in Caminhos(a) /\ Simples(q)
    <3>1. p \in Caminhos(a) /\ Simples(p) /\ Destino(a, p) = n
      BY <1>1, <2>6 DEF Lugar
    <3>2. Entra(a, n, k)
      BY <1>1, <1>2, <1>7 DEF Entra, Viva
    <3>3. x = <<e.d_name>> /\ Len(x) = 1
      BY <1>5, <2>6
    <3>4. Segundo(a, p, q)
      BY <1>2, <3>1, <3>2, <3>3 DEF Segundo
    <3>5. Len(p) \in Nat
      BY <1>6
    <3>6. q \in Abaixo(a, p)
      BY <3>4, <3>5, BelowIs
    <3>7. q \in Caminhos(a)
      BY <3>1, <3>6, TreeFacts
    <3>8. QED  BY <2>2, <3>1, <3>3, <3>7
  <2>7. QED  BY <1>3, <1>7, <2>1, <2>5, <2>6 DEF Lugar
<1>8. QED  BY <1>1, <1>2, <1>3, <1>5, <1>7

\* The entries of a directory whose inode can be read are the directory's.
LEMMA EntriesRead ==
  ASSUME ImagemInv, NEW n \in 1 .. Len(arquivos), EDiretorio(arquivos[n]),
         inode_iget(img, n) # Erro
  PROVE  GetDirEntries(n) = arquivos[n].dados
<1> DEFINE d == arquivos[n].dados
           in == inode_iget(img, n)
           todas == FlattenSeq([b \in 1 .. quantBlocos(inode_getsize(in)) |->
                      SubSeq(file_getblock(img, n, b - 1).buf, 1,
                             file_getblock(img, n, b - 1).bytes)])
<1>1. Valida(arquivos) /\ Formatada(img, arquivos)
  BY DEF ImagemInv
<1>2. n \in 0 .. ISize(arquivos) * INODES_POR_SETOR
  BY <1>1, Position
<1>3. in = Inode(arquivos, n) /\ SetorDoInode(n) \notin img.ruins
  BY <1>1, <1>2, InodeRead
<1>4. Acessivel(img, arquivos, n) /\ Len(d) <= maxNumEntries
  BY <1>3 DEF ImagemInv, DirsLegiveis, Acessivel
<1>5. arquivos[n].mode # {} /\ arquivos[n].mode \cap {"IFDIR", "IFCHR"} = {"IFDIR"}
  BY DEF EDiretorio
<1>6. Alocado(in) /\ IFMT(in) = {"IFDIR"}
  BY <1>1, <1>3, <1>5, Modes
<1>7. inode_getsize(in) = Len(d)
  BY <1>1, <1>3, SizeRead
<1>8. todas = d
  <2>1. FlattenSeq(BytesLidos(img, n, Len(d))) = d
    BY <1>1, <1>4, <1>5, FileBytes
  <2>2. QED  BY <1>7, <2>1 DEF BytesLidos
<1>9. GetDirEntries(n) =
        IF in = Erro THEN <<>>
        ELSE IF ~Alocado(in) \/ IFMT(in) # {"IFDIR"} THEN <<>>
        ELSE SubSeq(todas, 1, Min({maxNumEntries, Len(todas)}))
  BY DEF GetDirEntries
<1> HIDE DEF in, todas, d
<1>10. Len(d) \in Nat /\ d = [k \in 1 .. Len(d) |-> d[k]]
  BY <1>1, FileFacts DEF ESequencia, d
<1>11. Min({maxNumEntries, Len(d)}) = Len(d)
  <2> DEFINE T == {maxNumEntries, Len(d)}
  <2>1. T \subseteq Nat /\ T # {} /\ Len(d) \in T
    BY <1>10, EntriesAssumption
  <2>2. Min(T) \in T /\ Min(T) <= Len(d)
    <3> HIDE DEF T
    <3>1. QED  BY <2>1, MinIs
  <2>3. QED  BY <1>4, <1>10, <2>1, <2>2
<1>12. SubSeq(d, 1, Len(d)) = d
  <2> DEFINE T == {d[k] : k \in 1 .. Len(d)}
  <2>1. d \in [1 .. Len(d) -> T]
    BY <1>10
  <2> HIDE DEF T
  <2>2. d \in Seq(T)
    BY <1>10, <2>1
  <2>3. QED  BY <2>2, SubSeqFull
<1>13. in # Erro
  BY DEF in
<1>14. GetDirEntries(n) = d
  BY <1>6, <1>8, <1>9, <1>11, <1>12, <1>13
<1>15. QED  BY <1>14 DEF d

\* What a call of DumpPath prints and pushes.
Impresso(path, n) ==
  /\ inode_iget(img, n) # Erro /\ chksumfile_byinumber(img, n) # Erro
  /\ chksumfile_bypathname(img, path, lixo) # Erro
  /\ chksumfile_byinumber(img, n) = chksumfile_bypathname(img, path, lixo)
LinhaDe(path, n) ==
  [path |-> path, inumber |-> n, chksum |-> chksumfile_bypathname(img, path, lixo)]
QuadroDe(path, n) == [path |-> path, ents |-> GetDirEntries(n), i |-> 1]
Desce(path, n) == Impresso(path, n) /\ IFMT(inode_iget(img, n)) = {"IFDIR"}

LEMMA DumpIs ==
  ASSUME NEW base, NEW path, NEW n, DumpPath(base, path, n)
  PROVE  \/ /\ pc' = "abort" /\ pilha' = base /\ caminhos' = caminhos
            /\ inode_iget(img, n) # Erro /\ ~Alocado(inode_iget(img, n))
         \/ /\ pc' = "entradas"
            /\ caminhos' = caminhos \cup (IF Impresso(path, n) THEN {LinhaDe(path, n)} ELSE {})
            /\ pilha' = IF Desce(path, n) THEN Append(base, QuadroDe(path, n)) ELSE base
BY DEF DumpPath, Impresso, LinhaDe, QuadroDe, Desce, chksumfile_compare

LEMMA PrintedFacts ==
  ASSUME ImagemInv, NEW path, NEW n \in 0 .. Len(arquivos), Impresso(path, n)
  PROVE  /\ n \in 1 .. Len(arquivos)
         /\ Legiveis(img, arquivos) => LinhaDe(path, n).chksum = arquivos[n].dados
         /\ Desce(path, n) <=> EDiretorio(arquivos[n])
         /\ EDiretorio(arquivos[n]) => GetDirEntries(n) = arquivos[n].dados
<1>1. Valida(arquivos) /\ Formatada(img, arquivos)
  BY DEF ImagemInv
<1>2. n \in 0 .. ISize(arquivos) * INODES_POR_SETOR
  <2> DEFINE m == ISize(arquivos) * INODES_POR_SETOR
  <2>1. m \in Nat /\ Len(arquivos) <= m /\ Len(arquivos) \in Nat
    BY <1>1, TableSize, Sizes, Times
  <2> HIDE DEF m
  <2>2. n \in 0 .. m
    BY <2>1
  <2>3. QED  BY <2>2 DEF m
<1>3. n \in 1 .. Len(arquivos) /\ arquivos[n].mode # {} /\ inode_iget(img, n) = Inode(arquivos, n)
  BY <1>1, <1>2, ChksumAllocated DEF Impresso
<1>4. IFMT(inode_iget(img, n)) = arquivos[n].mode \cap {"IFDIR", "IFCHR"}
  BY <1>1, <1>3, Modes
<1>5. Desce(path, n) <=> EDiretorio(arquivos[n])
  BY <1>4 DEF Desce, EDiretorio
<1>6. Legiveis(img, arquivos) => chksumfile_byinumber(img, n) = arquivos[n].dados
  BY <1>1, <1>3, ChksumRight DEF Legiveis
<1>7. EDiretorio(arquivos[n]) => GetDirEntries(n) = arquivos[n].dados
  BY <1>3, EntriesRead DEF Impresso
<1>8. LinhaDe(path, n).chksum = chksumfile_byinumber(img, n)
  BY DEF LinhaDe, Impresso
<1>9. QED  BY <1>3, <1>5, <1>6, <1>7, <1>8

LEMMA LineFromDump ==
  ASSUME ImagemInv, NEW path, NEW n, Lugar(arquivos, path, n), Impresso(path, n)
  PROVE  Linha(img, arquivos, LinhaDe(path, n))
<1>1. n \in 0 .. Len(arquivos)
  BY DEF Lugar
<1>2. Legiveis(img, arquivos) => LinhaDe(path, n).chksum = arquivos[n].dados
  BY <1>1, PrintedFacts
<1>3. LinhaDe(path, n).path = path /\ LinhaDe(path, n).inumber = n
  BY DEF LinhaDe
<1>4. QED  BY <1>2, <1>3 DEF Linha

LEMMA FrameFromDump ==
  ASSUME ImagemInv, NEW path, NEW n, Lugar(arquivos, path, n), Desce(path, n)
  PROVE  QuadroDe(path, n) \in Quadros(arquivos) /\ Quadro(arquivos, QuadroDe(path, n))
<1>1. n \in 1 .. Len(arquivos) /\ n \in 0 .. Len(arquivos) /\ path \in Caminhadas(arquivos)
  BY DEF Lugar
<1>2. EDiretorio(arquivos[n]) /\ GetDirEntries(n) = arquivos[n].dados
  BY <1>1, PrintedFacts DEF Desce
<1> DEFINE f == QuadroDe(path, n)
<1>3. f = [path |-> path, ents |-> arquivos[n].dados, i |-> 1]
  BY <1>2 DEF QuadroDe
<1> HIDE DEF f
<1>4. Len(arquivos[n].dados) \in Nat
  BY <1>1, FileFacts DEF ImagemInv
<1>5. f \in Quadros(arquivos)
  BY <1>1, <1>3 DEF Quadros
<1>6. Quadro(arquivos, f)
  <2>1. f.path = path /\ f.ents = arquivos[n].dados /\ f.i = 1
    BY <1>3
  <2>2. f.i \in 1 .. Len(f.ents) + 1
    BY <1>4, <2>1
  <2>3. QED  BY <1>1, <1>2, <2>1, <2>2 DEF Quadro
<1>7. QED  BY <1>5, <1>6 DEF f
-------------------------------------------------------------------------------
\* The stack of DumpPathAndChildren.
BoaPilha(a, s) == s \in Seq(Quadros(a)) /\ \A k \in 1 .. Len(s) : Quadro(a, s[k])
Avanca(s) == [s EXCEPT ![Len(s)].i = @ + 1]

LEMMA EmptyStack ==
  ASSUME NEW a
  PROVE  BoaPilha(a, <<>>)
<1>1. <<>> \in Seq(Quadros(a))
  BY EmptySeq
<1>2. QED  BY <1>1 DEF BoaPilha

LEMMA StackPush ==
  ASSUME NEW a, NEW s, BoaPilha(a, s), NEW f \in Quadros(a), Quadro(a, f)
  PROVE  BoaPilha(a, Append(s, f))
<1> DEFINE T == Quadros(a)
           t == Append(s, f)
<1>1. s \in Seq(T) /\ f \in T
  BY DEF BoaPilha
<1> HIDE DEF T
<1>2. /\ t \in Seq(T) /\ Len(t) = Len(s) + 1 /\ Len(s) \in Nat
      /\ (\A k \in 1 .. Len(s) : t[k] = s[k]) /\ t[Len(s) + 1] = f
  BY <1>1, AppendProperties
<1> HIDE DEF t
<1>3. ASSUME NEW k \in 1 .. Len(t) PROVE Quadro(a, t[k])
  <2>1. k \in 1 .. Len(s) \/ k = Len(s) + 1
    BY <1>2
  <2>2. QED  BY <1>2, <2>1 DEF BoaPilha
<1>4. BoaPilha(a, t)
  BY <1>2, <1>3 DEF BoaPilha, T
<1>5. QED  BY <1>4 DEF t

LEMMA LastFront ==
  ASSUME NEW T, NEW s \in Seq(T), s # <<>>
  PROVE  /\ Len(s) \in Nat /\ Len(s) >= 1 /\ Last(s) = s[Len(s)] /\ Last(s) \in T
         /\ Front(s) \in Seq(T) /\ Len(Front(s)) = Len(s) - 1
         /\ \A k \in 1 .. Len(s) - 1 : Front(s)[k] = s[k] /\ k \in 1 .. Len(s)
<1> DEFINE t == Front(s)
           n == Len(s)
<1>1. n \in Nat /\ n >= 1 /\ s[n] \in T
  OBVIOUS
<1>2. /\ t \in Seq(T) /\ Len(t) = n - 1 /\ \A k \in 1 .. n - 1 : t[k] = s[k]
  <2> DEFINE m == n - 1
  <2>1. m \in Nat /\ \A k \in 1 .. m : s[k] \in T
    BY <1>1
  <2>2. t = SubSeq(s, 1, m)
    BY DEF Front
  <2> HIDE DEF m, t
  <2>3. /\ t \in Seq(T) /\ Len(t) = (IF 1 <= m THEN m - 1 + 1 ELSE 0)
        /\ \A k \in 1 .. m - 1 + 1 : t[k] = s[1 + k - 1]
    BY <2>1, <2>2, SubSeqProperties
  <2>4. m - 1 + 1 = m /\ (~(1 <= m) => m = 0) /\ \A k \in 1 .. m : 1 + k - 1 = k
    BY <2>1
  <2>5. QED  BY <2>3, <2>4 DEF m
<1> HIDE DEF t, n
<1>3. \A k \in 1 .. n - 1 : k \in 1 .. n
  BY <1>1 DEF n
<1>4. QED  BY <1>1, <1>2, <1>3 DEF Last, t, n

LEMMA StackTop ==
  ASSUME NEW a, NEW s, BoaPilha(a, s), s # <<>>
  PROVE  /\ Len(s) \in Nat /\ Len(s) >= 1 /\ Last(s) = s[Len(s)]
         /\ Last(s) \in Quadros(a) /\ Quadro(a, Last(s))
         /\ Len(Front(s)) = Len(s) - 1 /\ \A k \in 1 .. Len(s) - 1 : Front(s)[k] = s[k]
         /\ BoaPilha(a, Front(s))
<1> DEFINE T == Quadros(a)
           t == Front(s)
           n == Len(s)
<1>1. s \in Seq(T)
  BY DEF BoaPilha
<1> HIDE DEF T
<1>2. /\ n \in Nat /\ n >= 1 /\ Last(s) = s[n] /\ s[n] \in T
      /\ t \in Seq(T) /\ Len(t) = n - 1
      /\ \A k \in 1 .. n - 1 : t[k] = s[k] /\ k \in 1 .. n
  BY <1>1, LastFront
<1> HIDE DEF t, n
<1>3. n \in 1 .. n
  BY <1>2
<1>4. BoaPilha(a, t)
  BY <1>2 DEF BoaPilha, T, n
<1>5. QED  BY <1>2, <1>3, <1>4 DEF BoaPilha, T, t, n

LEMMA StackAdvance ==
  ASSUME NEW a, NEW s, BoaPilha(a, s), s # <<>>, Last(s).i <= Len(Last(s).ents)
  PROVE  /\ BoaPilha(a, Avanca(s)) /\ Len(Avanca(s)) = Len(s)
         /\ \A k \in 1 .. Len(s) :
              /\ Avanca(s)[k].path = s[k].path /\ Avanca(s)[k].ents = s[k].ents
              /\ Avanca(s)[k].i = IF k = Len(s) THEN s[k].i + 1 ELSE s[k].i
<1> DEFINE T == Quadros(a)
           n == Len(s)
           f == s[n]
           g == [f EXCEPT !.i = @ + 1]
           t == Avanca(s)
<1>1. s \in Seq(T) /\ n \in Nat /\ n \in 1 .. n /\ f \in T /\ Quadro(a, f) /\ f = Last(s)
  BY StackTop DEF BoaPilha
<1>2. t = [s EXCEPT ![n] = g]
  BY DEF Avanca
<1>3. /\ g \in T /\ g.path = f.path /\ g.ents = f.ents /\ g.i = f.i + 1
  <2>1. f \in Quadros(a)
    BY <1>1
  <2>2. g \in Quadros(a) /\ g.path = f.path /\ g.ents = f.ents /\ g.i = f.i + 1
    <3> HIDE DEF f
    <3>1. QED  BY <2>1 DEF Quadros
  <2>3. QED  BY <2>2
<1>4. Quadro(a, g)
  <2>1. PICK m \in 1 .. Len(a) : EDiretorio(a[m]) /\ f.ents = a[m].dados /\ Lugar(a, f.path, m)
    BY <1>1 DEF Quadro
  <2>2. g.i \in 1 .. Len(g.ents) + 1
    <3>1. f.i \in 1 .. Len(f.ents) + 1 /\ f.i <= Len(f.ents)
      BY <1>1 DEF Quadro
    <3>2. f.i + 1 \in 1 .. Len(f.ents) + 1
      BY <3>1
    <3>3. QED  BY <1>3, <3>2
  <2>3. QED  BY <1>3, <2>1, <2>2 DEF Quadro
<1> HIDE DEF T, t, g
<1>5. t \in Seq(T) /\ Len(t) = n /\ \A k \in 1 .. n : t[k] = IF k = n THEN g ELSE s[k]
  BY <1>1, <1>2, <1>3
<1>6. BoaPilha(a, t)
  BY <1>4, <1>5 DEF BoaPilha, T
<1>7. QED  BY <1>3, <1>5, <1>6 DEF t

\* The inductive invariant of the walk.
CaminhadaInv ==
  /\ pc \in {"main", "i", "p", "entradas", "fim", "abort", "falha"}
  /\ BoaPilha(arquivos, pilha)
  /\ \A l \in caminhos : Linha(img, arquivos, l)
  /\ pc \in {"main", "i", "p", "falha"} => pilha = <<>> /\ caminhos = {}
  /\ pc = "fim" => pilha = <<>>
  /\ pc = "abort" => Removidas

\* What a call of DumpPath is made for.
Chamada(path, n) ==
  /\ n \in 0 .. Len(arquivos)
  /\ n = 0 => Removidas
  /\ n # 0 => arquivos[n].mode # {} /\ Lugar(arquivos, path, n)

LEMMA DumpKeeps ==
  ASSUME ImagemInv, CaminhadaInv, UNCHANGED <<arquivos, img, lixo>>,
         NEW base, BoaPilha(arquivos, base), NEW path, NEW n, Chamada(path, n),
         DumpPath(base, path, n)
  PROVE  CaminhadaInv'
<1>1. Valida(arquivos) /\ Formatada(img, arquivos)
  BY DEF ImagemInv
<1>2. Removidas' <=> Removidas
  BY DEF Removidas, Nomes, Inumbers
<1>3. n \in 0 .. Len(arquivos)
  BY DEF Chamada
<1>4. CASE /\ pc' = "abort" /\ pilha' = base /\ caminhos' = caminhos
           /\ inode_iget(img, n) # Erro /\ ~Alocado(inode_iget(img, n))
  <2>1. n = 0
    <3>1. SUFFICES ASSUME n # 0 PROVE FALSE
      OBVIOUS
    <3>2. n \in 1 .. Len(arquivos) /\ arquivos[n].mode # {}
      BY <1>3, <3>1 DEF Chamada
    <3>3. n \in 0 .. ISize(arquivos) * INODES_POR_SETOR
      BY <1>1, <3>2, Position
    <3>4. inode_iget(img, n) = Inode(arquivos, n)
      BY <1>1, <1>4, <3>3, InodeRead
    <3>5. QED  BY <1>1, <1>4, <3>2, <3>4, Modes
  <2>2. Removidas
    BY <2>1 DEF Chamada
  <2>3. QED  BY <1>2, <1>4, <2>2 DEF CaminhadaInv
<1>5. CASE /\ pc' = "entradas"
           /\ caminhos' = caminhos \cup (IF Impresso(path, n) THEN {LinhaDe(path, n)} ELSE {})
           /\ pilha' = IF Desce(path, n) THEN Append(base, QuadroDe(path, n)) ELSE base
  <2>1. Impresso(path, n) => n \in 1 .. Len(arquivos)
    BY <1>3, PrintedFacts
  <2>2. Impresso(path, n) => Lugar(arquivos, path, n)
    BY <1>3, <2>1 DEF Chamada
  <2>3. \A l \in caminhos' : Linha(img, arquivos, l)
    <3>1. Impresso(path, n) => Linha(img, arquivos, LinhaDe(path, n))
      BY <2>2, LineFromDump
    <3>2. QED  BY <1>5, <3>1 DEF CaminhadaInv
  <2>4. BoaPilha(arquivos, pilha')
    <3>1. CASE Desce(path, n)
      <4> DEFINE f == QuadroDe(path, n)
      <4>1. Lugar(arquivos, path, n)
        BY <2>2, <3>1 DEF Desce
      <4>2. f \in Quadros(arquivos) /\ Quadro(arquivos, f)
        BY <3>1, <4>1, FrameFromDump
      <4> HIDE DEF f
      <4>3. BoaPilha(arquivos, Append(base, f))
        BY <4>2, StackPush
      <4>4. QED  BY <1>5, <3>1, <4>3 DEF f
    <3>2. CASE ~Desce(path, n)
      BY <1>5, <3>2
    <3>3. QED  BY <3>1, <3>2
  <2>5. QED  BY <1>5, <2>3, <2>4 DEF CaminhadaInv
<1>6. QED  BY <1>4, <1>5, DumpIs

LEMMA CallRight ==
  ASSUME ImagemInv, CaminhadaInv, Restam, Topo.i <= Len(Topo.ents),
         ~Especial(Topo.ents[Topo.i].d_name), NEW resto \in {<<>>, <<Lixo>>}
  PROVE  Chamada(Append(Topo.path, Nome(Topo.ents, Topo.i, resto)), Topo.ents[Topo.i].d_inumber)
<1> DEFINE f == Topo
           e == f.ents[f.i]
           q == Append(f.path, Nome(f.ents, f.i, resto))
<1>1. Valida(arquivos)
  BY DEF ImagemInv
<1>2. Quadro(arquivos, f)
  <2>1. BoaPilha(arquivos, pilha) /\ pilha # <<>>
    BY DEF CaminhadaInv, Restam
  <2>2. Quadro(arquivos, Last(pilha))
    BY <2>1, StackTop
  <2>3. QED  BY <2>2 DEF Topo
<1> HIDE DEF f
<1>3. f.i <= Len(f.ents) /\ ~Especial(e.d_name)
  BY DEF f
<1>4. /\ e.d_inumber \in 0 .. Len(arquivos)
      /\ \E i \in 1 .. Len(arquivos) :
           EDiretorio(arquivos[i]) /\ f.i \in 1 .. Len(arquivos[i].dados) /\ e = arquivos[i].dados[f.i]
      /\ e.d_inumber # 0 => arquivos[e.d_inumber].mode # {} /\ Lugar(arquivos, q, e.d_inumber)
  BY <1>1, <1>2, <1>3, CallFacts
<1>5. e.d_inumber = 0 => Removidas
  <2>1. e \in Nomes
    BY <1>4, EntryOfDirectory DEF Inumbers
  <2>2. QED  BY <2>1 DEF Removidas
<1>6. Chamada(q, e.d_inumber)
  BY <1>4, <1>5 DEF Chamada
<1>7. QED  BY <1>6 DEF f

LEMMA RootRight ==
  ASSUME ImagemInv
  PROVE  Chamada(<<>>, ROOT_INUMBER)
<1>1. Valida(arquivos)
  BY DEF ImagemInv
<1>2. Lugar(arquivos, <<>>, ROOT_INUMBER) /\ arquivos[ROOT_INUMBER].mode # {}
  BY <1>1, NoName
<1>3. ROOT_INUMBER \in 0 .. Len(arquivos) /\ ROOT_INUMBER # 0
  BY <1>1, TableSize DEF ROOT_INUMBER
<1>4. QED  BY <1>2, <1>3 DEF Chamada

LEMMA WalkInit == Init => CaminhadaInv
BY EmptyStack DEF Init, CaminhadaInv

LEMMA WalkNext == ImagemInv /\ CaminhadaInv /\ [Next]_vars => CaminhadaInv'
<1> SUFFICES ASSUME ImagemInv, CaminhadaInv, [Next]_vars PROVE CaminhadaInv'
  OBVIOUS
<1>0. UNCHANGED <<arquivos, img, lixo>>
  BY SameImage
<1>1. Removidas' <=> Removidas
  BY <1>0 DEF Removidas, Nomes, Inumbers
<1>2. CASE DumpPathnameChecksum
  <2>1. DumpPath(<<>>, <<>>, ROOT_INUMBER)
    BY <1>2 DEF DumpPathnameChecksum
  <2>2. QED  BY <1>0, <2>1, RootRight, EmptyStack, DumpKeeps
<1>3. CASE NextEntry
  <2>1. Restam /\ Topo.i <= Len(Topo.ents) /\ pilha # <<>> /\ pc = "entradas"
    BY <1>3 DEF NextEntry, Restam
  <2>2. BoaPilha(arquivos, Avanca(pilha))
    <3>1. BoaPilha(arquivos, pilha) /\ Last(pilha).i <= Len(Last(pilha).ents)
      BY <2>1 DEF CaminhadaInv, Topo
    <3>2. QED  BY <2>1, <3>1, StackAdvance
  <2>3. Avancada = Avanca(pilha)
    BY DEF Avancada, Avanca
  <2>4. CASE Especial(Topo.ents[Topo.i].d_name)
    <3>1. pilha' = Avanca(pilha) /\ pc' = pc /\ caminhos' = caminhos
      BY <1>3, <2>3, <2>4 DEF NextEntry
    <3>2. QED  BY <1>0, <2>1, <2>2, <3>1 DEF CaminhadaInv
  <2>5. CASE ~Especial(Topo.ents[Topo.i].d_name)
    <3>1. PICK resto \in {<<>>, <<Lixo>>} :
            DumpPath(Avanca(pilha), Append(Topo.path, Nome(Topo.ents, Topo.i, resto)),
                     Topo.ents[Topo.i].d_inumber)
      BY <1>3, <2>3, <2>5 DEF NextEntry
    <3>2. Chamada(Append(Topo.path, Nome(Topo.ents, Topo.i, resto)), Topo.ents[Topo.i].d_inumber)
      BY <2>1, <2>5, CallRight
    <3>3. QED  BY <1>0, <2>2, <3>1, <3>2, DumpKeeps
  <2>6. QED  BY <2>4, <2>5
<1>4. CASE Return
  <2>1. BoaPilha(arquivos, Front(pilha))
    <3>1. BoaPilha(arquivos, pilha) /\ pilha # <<>>
      BY <1>4 DEF CaminhadaInv, Return, Restam
    <3>2. QED  BY <3>1, StackTop
  <2>2. pilha' = Front(pilha) /\ pc = "entradas" /\ pc' = pc /\ caminhos' = caminhos
    BY <1>4 DEF Return, Restam
  <2>3. QED  BY <1>0, <2>1, <2>2 DEF CaminhadaInv
<1>5. CASE Main \/ DumpInodeChecksum \/ EndInodes \/ EndPaths \/ UNCHANGED vars
  <2>1. UNCHANGED <<pilha, caminhos>>
    BY <1>5 DEF Main, DumpInodeChecksum, EndInodes, EndPaths, vars
  <2>2. \/ pc \in {"main", "i"} /\ pc' \in {"i", "p", "fim", "falha"}
        \/ pc = "entradas" /\ pilha = <<>> /\ pc' = "fim"
        \/ pc' = pc
    BY <1>5 DEF Main, DumpInodeChecksum, EndInodes, EndPaths, vars
  <2>3. QED  BY <1>0, <1>1, <2>1, <2>2 DEF CaminhadaInv
<1>6. QED  BY <1>2, <1>3, <1>4, <1>5 DEF Next, Exit

LEMMA WalkInvariance == Spec => []CaminhadaInv
BY WalkInit, WalkNext, ImageInvariance, PTL DEF Spec

LEMMA TypesHold == LinhasInv /\ CaminhadaInv => TypeOK
<1> SUFFICES ASSUME LinhasInv, CaminhadaInv PROVE TypeOK
  OBVIOUS
<1>1. \A f \in Range(pilha) : f.i \in 1 .. Len(f.ents) + 1
  <2>1. DOMAIN pilha = 1 .. Len(pilha)
    BY DEF CaminhadaInv, BoaPilha
  <2>2. \A k \in 1 .. Len(pilha) : Quadro(arquivos, pilha[k])
    BY DEF CaminhadaInv, BoaPilha
  <2>3. QED  BY <2>1, <2>2 DEF Range, Quadro
<1>2. \A l \in caminhos : l.inumber \in Inumbers
  BY DEF CaminhadaInv, Linha, Lugar, Inumbers
<1>3. QED  BY <1>1, <1>2 DEF TypeOK, LinhasInv, CaminhadaInv

\* InodesDumped: -i prints, of the inodes that are allocated, all but the one
\* in the last slot of the table, each with the checksum of its file, on
\* every image that can be read; and the types of both dumps hold.
THEOREM TableDumped == Spec => []InodesDumped
<1>1. LinhasInv /\ CaminhadaInv => InodesDumped
  <2> SUFFICES ASSUME LinhasInv, CaminhadaInv PROVE InodesDumped
    OBVIOUS
  <2>1. TypeOK
    BY TypesHold
  <2> HIDE DEF TypeOK
  <2>2. QED  BY <2>1 DEF InodesDumped, LinhasInv
<1>2. QED  BY <1>1, LinesInvariance, WalkInvariance, PTL

\* PathsTrue: a line of -p with whole names is of the inode that the path has
\* in the tree, and its checksum is that file's, though the path and the
\* inumber come to it by different ways.
THEOREM PathsHold == Spec => []PathsTrue
<1>1. CaminhadaInv => PathsTrue
  <2> SUFFICES ASSUME CaminhadaInv, NEW l \in caminhos, Inteira,
                      \A k \in 1 .. Len(l.path) : Len(l.path[k]) = 1
               PROVE  /\ Destino(arquivos, l.path) = l.inumber
                      /\ l.chksum = arquivos[l.inumber].dados
    BY DEF PathsTrue
  <2>1. Linha(img, arquivos, l)
    BY DEF CaminhadaInv
  <2>2. Legiveis(img, arquivos)
    BY Readable DEF Legiveis, Inteira, Inumbers
  <2>3. Simples(l.path)
    BY DEF Simples
  <2>4. QED  BY <2>1, <2>2, <2>3 DEF Linha, Lugar
<1>2. QED  BY <1>1, WalkInvariance, PTL
-------------------------------------------------------------------------------
\* TreeDumped. Of a directory that was printed the entries that lead on were
\* printed too, or a frame on the stack has them before it.
Impressos == {l.path : l \in caminhos}
EmAberto(s, p, k) == \E j \in 1 .. Len(s) : s[j].path = p /\ s[j].i <= k

Seguinte(a, p, k) == Append(p, <<a[Destino(a, p)].dados[k].d_name>>)
Coberta(a, ps, s) ==
  /\ <<>> \in ps
  /\ \A p \in ps, k \in Nat :
       Entra(a, Destino(a, p), k) => Seguinte(a, p, k) \in ps \/ EmAberto(s, p, k)

CoberturaInv ==
  /\ caminhos = {} => pilha = <<>>
  /\ Inteira /\ ~Cortados /\ caminhos # {} => Coberta(arquivos, Impressos, pilha)

LEMMA TreeNames ==
  ASSUME NEW a, Valida(a), SemCortes(a), NEW p \in Caminhos(a)
  PROVE  \A k \in 1 .. Len(p) : p[k][1] \notin Completos
<1>1. PICK f : Segue(a, p, f)
  BY TreeFacts
<1> SUFFICES ASSUME NEW k \in 1 .. Len(p) PROVE p[k][1] \notin Completos
  OBVIOUS
<1>2. PICK j : Entra(a, f[k - 1], j) /\ p[k] = <<a[f[k - 1]].dados[j].d_name>>
  BY <1>1 DEF Segue
<1>3. p[k][1] = a[f[k - 1]].dados[j].d_name
  BY <1>2
<1>4. j \in Nat
  BY <1>2 DEF Entra
<1>5. QED  BY <1>2, <1>3, <1>4 DEF Entra, SemCortes

\* A call for a file of the tree prints it.
LEMMA LivePrinted ==
  ASSUME ImagemInv, Inteira, ~Cortados, NEW path, NEW n, Lugar(arquivos, path, n),
         arquivos[n].mode # {}
  PROVE  Impresso(path, n)
<1>1. Valida(arquivos) /\ Formatada(img, arquivos)
  BY DEF ImagemInv
<1>2. SemCortes(arquivos)
  BY <1>1, WholeNames
<1>3. n \in 1 .. Len(arquivos) /\ path \in Caminhos(arquivos) /\ Destino(arquivos, path) = n
  BY <1>2 DEF Lugar
<1>4. \A k \in 1 .. Len(path) : path[k][1] \notin Completos
  BY <1>1, <1>2, <1>3, TreeNames
<1>5. pathname_lookup(img, path, lixo) = n
  BY <1>3, <1>4, TreeLookup
<1>6. Acessivel(img, arquivos, n)
  BY <1>3, Readable DEF Inteira, Inumbers
<1>7. chksumfile_byinumber(img, n) = arquivos[n].dados /\ inode_iget(img, n) = Inode(arquivos, n)
  BY <1>1, <1>3, <1>6, ChksumRight
<1>8. arquivos[n].dados # Erro /\ Inode(arquivos, n) # Erro
  BY <1>1, <1>3, FileFacts, Position
<1>9. chksumfile_bypathname(img, path, lixo) = chksumfile_byinumber(img, n)
  BY <1>5 DEF chksumfile_bypathname
<1>10. QED  BY <1>7, <1>8, <1>9 DEF Impresso

LEMMA OpenPushed ==
  ASSUME NEW T, NEW s \in Seq(T), NEW f \in T
  PROVE  /\ \A p, k : EmAberto(s, p, k) => EmAberto(Append(s, f), p, k)
         /\ \A k : f.i <= k => EmAberto(Append(s, f), f.path, k)
<1> DEFINE t == Append(s, f)
<1>1. /\ Len(t) = Len(s) + 1 /\ Len(s) \in Nat
      /\ (\A j \in 1 .. Len(s) : t[j] = s[j]) /\ t[Len(s) + 1] = f
  BY AppendProperties
<1> HIDE DEF t
<1>2. Len(s) + 1 \in 1 .. Len(t) /\ \A j \in 1 .. Len(s) : j \in 1 .. Len(t)
  BY <1>1
<1>3. \A p, k : EmAberto(s, p, k) => EmAberto(t, p, k)
  BY <1>1, <1>2 DEF EmAberto
<1>4. \A k : f.i <= k => EmAberto(t, f.path, k)
  BY <1>1, <1>2 DEF EmAberto
<1>5. QED  BY <1>3, <1>4 DEF t

LEMMA OpenAdvanced ==
  ASSUME NEW a, NEW s, BoaPilha(a, s), s # <<>>, Last(s).i <= Len(Last(s).ents),
         NEW p, NEW k \in Nat, EmAberto(s, p, k)
  PROVE  EmAberto(Avanca(s), p, k) \/ (p = Last(s).path /\ k = Last(s).i)
<1>1. PICK j \in 1 .. Len(s) : s[j].path = p /\ s[j].i <= k
  BY DEF EmAberto
<1>2. /\ Len(Avanca(s)) = Len(s)
      /\ Avanca(s)[j].path = s[j].path
      /\ Avanca(s)[j].i = IF j = Len(s) THEN s[j].i + 1 ELSE s[j].i
  <2>1. /\ BoaPilha(a, Avanca(s)) /\ Len(Avanca(s)) = Len(s)
        /\ \A m \in 1 .. Len(s) :
             /\ Avanca(s)[m].path = s[m].path /\ Avanca(s)[m].ents = s[m].ents
             /\ Avanca(s)[m].i = IF m = Len(s) THEN s[m].i + 1 ELSE s[m].i
    BY StackAdvance, Zenon
  <2>2. QED  BY <1>1, <2>1
<1>3. CASE j # Len(s)
  BY <1>1, <1>2, <1>3 DEF EmAberto
<1>4. CASE j = Len(s)
  <2>1. s[j] = Last(s) /\ Last(s).i \in Nat
    BY <1>4, StackTop DEF Quadros
  <2>2. Last(s).i = k \/ Last(s).i + 1 <= k
    BY <1>1, <2>1
  <2>3. QED  BY <1>1, <1>2, <1>4, <2>1, <2>2 DEF EmAberto
<1>5. QED  BY <1>3, <1>4

LEMMA OpenReturned ==
  ASSUME NEW a, NEW s, BoaPilha(a, s), s # <<>>, NEW p, NEW k \in Nat, EmAberto(s, p, k)
  PROVE  EmAberto(Front(s), p, k) \/ (p = Last(s).path /\ Last(s).i <= k)
<1>1. PICK j \in 1 .. Len(s) : s[j].path = p /\ s[j].i <= k
  BY DEF EmAberto
<1>2. /\ Len(s) \in Nat /\ Last(s) = s[Len(s)] /\ Len(Front(s)) = Len(s) - 1
      /\ \A l \in 1 .. Len(s) - 1 : Front(s)[l] = s[l]
  BY StackTop
<1>3. CASE j # Len(s)
  <2>1. j \in 1 .. Len(s) - 1
    BY <1>2, <1>3
  <2>2. QED  BY <1>1, <1>2, <2>1 DEF EmAberto
<1>4. QED  BY <1>1, <1>2, <1>3

LEMMA CoverDump ==
  ASSUME ImagemInv, Inteira, ~Cortados, NEW base, BoaPilha(arquivos, base),
         NEW path, NEW n, Chamada(path, n), DumpPath(base, path, n)
  PROVE  /\ Impressos \subseteq Impressos'
         /\ \A p \in Impressos' : p \notin Impressos =>
              p = path /\ \A k \in Nat : Entra(arquivos, Destino(arquivos, p), k) => EmAberto(pilha', p, k)
         /\ n # 0 => path \in Impressos'
         /\ \A p, k : EmAberto(base, p, k) => EmAberto(pilha', p, k)
<1>1. CASE /\ pc' = "abort" /\ pilha' = base /\ caminhos' = caminhos
           /\ inode_iget(img, n) # Erro /\ ~Alocado(inode_iget(img, n))
  <2>1. n = 0
    <3>1. SUFFICES ASSUME n # 0 PROVE FALSE
      OBVIOUS
    <3>2. Impresso(path, n)
      BY <3>1, LivePrinted DEF Chamada
    <3>3. chksumfile_byinumber(img, n) = Erro
      BY <1>1 DEF chksumfile_byinumber
    <3>4. QED  BY <3>2, <3>3 DEF Impresso
  <2>2. QED  BY <1>1, <2>1 DEF Impressos
<1>2. CASE /\ pc' = "entradas"
           /\ caminhos' = caminhos \cup (IF Impresso(path, n) THEN {LinhaDe(path, n)} ELSE {})
           /\ pilha' = IF Desce(path, n) THEN Append(base, QuadroDe(path, n)) ELSE base
  <2>1. n # 0 => Impresso(path, n)
    BY LivePrinted DEF Chamada
  <2>2. Impressos' = Impressos \cup (IF Impresso(path, n) THEN {path} ELSE {})
    <3>1. LinhaDe(path, n).path = path
      BY DEF LinhaDe
    <3> HIDE DEF LinhaDe
    <3>2. QED  BY <1>2, <3>1 DEF Impressos
  <2>3. \A p, k : EmAberto(base, p, k) => EmAberto(pilha', p, k)
    <3>1. CASE Desce(path, n)
      <4>1. n \in 1 .. Len(arquivos) /\ Lugar(arquivos, path, n)
        BY <3>1, PrintedFacts DEF Chamada, Desce
      <4>2. QuadroDe(path, n) \in Quadros(arquivos) /\ base \in Seq(Quadros(arquivos))
        BY <3>1, <4>1, FrameFromDump DEF BoaPilha
      <4>3. QED  BY <1>2, <3>1, <4>2, OpenPushed
    <3>2. QED  BY <1>2, <3>1
  <2>4. ASSUME Impresso(path, n), NEW k \in Nat, Entra(arquivos, Destino(arquivos, path), k)
        PROVE  EmAberto(pilha', path, k)
    <3>1. n \in 1 .. Len(arquivos) /\ (Desce(path, n) <=> EDiretorio(arquivos[n]))
      BY <2>4, PrintedFacts DEF Chamada
    <3>2. Lugar(arquivos, path, n)
      BY <3>1 DEF Chamada
    <3>3. Destino(arquivos, path) = n
      BY <3>2, WholeNames DEF Lugar, ImagemInv
    <3>4. Desce(path, n)
      BY <2>4, <3>1, <3>3 DEF Entra
    <3> DEFINE f == QuadroDe(path, n)
    <3>5. f \in Quadros(arquivos) /\ base \in Seq(Quadros(arquivos)) /\ f.path = path /\ f.i = 1
      BY <3>2, <3>4, FrameFromDump DEF BoaPilha, QuadroDe
    <3>6. 1 <= k
      BY <2>4 DEF Entra
    <3>7. pilha' = Append(base, f)
      BY <1>2, <3>4
    <3> HIDE DEF f
    <3>8. EmAberto(Append(base, f), f.path, k)
      BY <3>5, <3>6, OpenPushed
    <3>9. QED  BY <3>5, <3>7, <3>8
  <2>5. QED  BY <2>1, <2>2, <2>3, <2>4
<1>3. QED  BY <1>1, <1>2, DumpIs

\* The frame on top, when all names are whole.
LEMMA TopFrame ==
  ASSUME ImagemInv, CaminhadaInv, ~Cortados, pilha # <<>>
  PROVE  /\ Topo = Last(pilha) /\ Quadro(arquivos, Topo)
         /\ Destino(arquivos, Topo.path) \in 1 .. Len(arquivos)
         /\ Topo.ents = arquivos[Destino(arquivos, Topo.path)].dados
<1>1. Quadro(arquivos, Topo) /\ Topo = Last(pilha)
  BY StackTop DEF CaminhadaInv, Topo
<1>2. SemCortes(arquivos)
  BY WholeNames DEF ImagemInv
<1>3. PICK n \in 1 .. Len(arquivos) : Topo.ents = arquivos[n].dados /\ Lugar(arquivos, Topo.path, n)
  BY <1>1 DEF Quadro
<1>4. Destino(arquivos, Topo.path) = n
  BY <1>2, <1>3 DEF Lugar
<1>5. QED  BY <1>1, <1>3, <1>4

LEMMA CoverEntry ==
  ASSUME ImagemInv, CaminhadaInv, CoberturaInv, NextEntry, Inteira, ~Cortados
  PROVE  caminhos' # {} /\ Coberta(arquivos, Impressos', pilha')
<1> DEFINE e == Topo.ents[Topo.i]
           d == Destino(arquivos, Topo.path)
<1>1. /\ BoaPilha(arquivos, pilha) /\ pilha # <<>> /\ Topo.i <= Len(Topo.ents)
      /\ Restam /\ Topo = Last(pilha)
  BY DEF CaminhadaInv, NextEntry, Restam, Topo
<1>2. Quadro(arquivos, Topo) /\ d \in 1 .. Len(arquivos) /\ Topo.ents = arquivos[d].dados
  BY <1>1, TopFrame
<1>3. caminhos # {} /\ Coberta(arquivos, Impressos, pilha)
  BY <1>1 DEF CoberturaInv
<1>4. BoaPilha(arquivos, Avanca(pilha))
  BY <1>1, StackAdvance
<1>5. \A p, k : k \in Nat /\ EmAberto(pilha, p, k) =>
        EmAberto(Avanca(pilha), p, k) \/ (p = Topo.path /\ k = Topo.i)
  BY <1>1, OpenAdvanced
<1>6. Avancada = Avanca(pilha)
  BY DEF Avancada, Avanca
<1>7. CASE Especial(e.d_name)
  <2>1. pilha' = Avanca(pilha) /\ caminhos' = caminhos
    BY <1>6, <1>7 DEF NextEntry
  <2>2. Impressos' = Impressos
    BY <2>1 DEF Impressos
  <2>3. ASSUME NEW p \in Impressos, NEW k \in Nat, Entra(arquivos, Destino(arquivos, p), k)
        PROVE  Seguinte(arquivos, p, k) \in Impressos \/ EmAberto(Avanca(pilha), p, k)
    <3>1. ~(p = Topo.path /\ k = Topo.i)
      BY <1>2, <1>7, <2>3 DEF Entra, Viva
    <3>2. Seguinte(arquivos, p, k) \in Impressos \/ EmAberto(pilha, p, k)
      BY <1>3, <2>3 DEF Coberta
    <3>3. QED  BY <1>5, <3>1, <3>2
  <2>4. QED  BY <1>3, <2>1, <2>2, <2>3 DEF Coberta
<1>8. CASE ~Especial(e.d_name)
  <2>1. PICK resto \in {<<>>, <<Lixo>>} :
          DumpPath(Avanca(pilha), Append(Topo.path, Nome(Topo.ents, Topo.i, resto)), e.d_inumber)
    BY <1>6, <1>8 DEF NextEntry
  <2> DEFINE q == Append(Topo.path, Nome(Topo.ents, Topo.i, resto))
             n == e.d_inumber
  <2>2. Chamada(q, n)
    BY <1>1, <1>8, CallRight
  <2>3. q = Seguinte(arquivos, Topo.path, Topo.i)
    <3>1. Valida(arquivos) /\ SemCortes(arquivos)
      BY WholeNames DEF ImagemInv
    <3>2. q = Append(Topo.path, <<e.d_name>>)
      BY <1>1, <1>2, <3>1, CallFacts
    <3>3. QED  BY <1>2, <3>2 DEF Seguinte
  <2> HIDE DEF q, n, e
  <2>4. /\ Impressos \subseteq Impressos'
        /\ \A p \in Impressos' : p \notin Impressos =>
             p = q /\ \A k \in Nat : Entra(arquivos, Destino(arquivos, p), k) => EmAberto(pilha', p, k)
        /\ n # 0 => q \in Impressos'
        /\ \A p, k : EmAberto(Avanca(pilha), p, k) => EmAberto(pilha', p, k)
    <3>1. DumpPath(Avanca(pilha), q, n)
      BY <2>1 DEF q, n
    <3>2. QED  BY <1>4, <2>2, <3>1, CoverDump
  <2>5. ASSUME NEW p \in Impressos', NEW k \in Nat, Entra(arquivos, Destino(arquivos, p), k)
        PROVE  Seguinte(arquivos, p, k) \in Impressos' \/ EmAberto(pilha', p, k)
    <3>1. CASE p \notin Impressos
      BY <2>4, <2>5, <3>1
    <3>2. CASE p \in Impressos /\ ~(p = Topo.path /\ k = Topo.i)
      <4>1. Seguinte(arquivos, p, k) \in Impressos \/ EmAberto(pilha, p, k)
        BY <1>3, <2>5, <3>2 DEF Coberta
      <4>2. QED  BY <1>5, <2>4, <3>2, <4>1
    <3>3. CASE p = Topo.path /\ k = Topo.i
      <4>1. n # 0
        BY <1>2, <2>5, <3>3 DEF Entra, Viva, n, e
      <4>2. QED  BY <2>3, <2>4, <3>3, <4>1
    <3>4. QED  BY <3>1, <3>2, <3>3
  <2>6. <<>> \in Impressos'
    BY <1>3, <2>4 DEF Coberta
  <2>7. caminhos' # {}
    BY <2>6 DEF Impressos
  <2>8. QED  BY <2>5, <2>6, <2>7 DEF Coberta
<1>9. QED  BY <1>7, <1>8

LEMMA CoverInit == Init => CoberturaInv
BY DEF Init, CoberturaInv

LEMMA CoverNext == ImagemInv /\ CaminhadaInv /\ CoberturaInv /\ [Next]_vars => CoberturaInv'
<1> SUFFICES ASSUME ImagemInv, CaminhadaInv, CoberturaInv, [Next]_vars PROVE CoberturaInv'
  OBVIOUS
<1>1. UNCHANGED <<arquivos, img, lixo>>
  BY SameImage
<1>2. (Inteira' <=> Inteira) /\ (Cortados' <=> Cortados)
  BY <1>1, SameReadable DEF Cortados, Nomes, Inumbers
<1> DEFINE Mantem == /\ caminhos' = {} => pilha' = <<>>
                     /\ Inteira /\ ~Cortados /\ caminhos' # {} =>
                          Coberta(arquivos, Impressos', pilha')
<1>3. SUFFICES Mantem
  BY <1>1, <1>2 DEF CoberturaInv
<1>4. CASE DumpPathnameChecksum
  <2>1. DumpPath(<<>>, <<>>, ROOT_INUMBER) /\ caminhos = {} /\ pilha = <<>>
    BY <1>4 DEF DumpPathnameChecksum, CaminhadaInv
  <2>2. Chamada(<<>>, ROOT_INUMBER) /\ BoaPilha(arquivos, <<>>)
    BY RootRight, EmptyStack
  <2>3. caminhos' = {} => pilha' = <<>>
    BY <2>1, DumpIs DEF Desce
  <2>4. ASSUME Inteira, ~Cortados PROVE Coberta(arquivos, Impressos', pilha')
    <3>1. /\ \A p \in Impressos' : p \notin Impressos =>
               p = <<>> /\ \A k \in Nat : Entra(arquivos, Destino(arquivos, p), k) => EmAberto(pilha', p, k)
          /\ ROOT_INUMBER # 0 => <<>> \in Impressos'
      BY <2>1, <2>2, <2>4, CoverDump
    <3>2. Impressos = {}
      BY <2>1 DEF Impressos
    <3>3. QED  BY <3>1, <3>2 DEF Coberta, ROOT_INUMBER
  <2>5. QED  BY <2>3, <2>4
<1>5. CASE NextEntry
  <2>1. caminhos # {}
    BY <1>5 DEF NextEntry, Restam, CoberturaInv
  <2>2. caminhos \subseteq caminhos'
    BY <1>5, DumpIs DEF NextEntry
  <2>3. caminhos' # {}
    BY <2>1, <2>2
  <2>4. QED  BY <1>5, <2>3, CoverEntry
<1>6. CASE Return
  <2>1. pilha # <<>> /\ Topo.i > Len(Topo.ents) /\ pilha' = Front(pilha) /\ caminhos' = caminhos
    BY <1>6 DEF Return, Restam
  <2>2. Impressos' = Impressos /\ caminhos # {}
    BY <2>1 DEF Impressos, CoberturaInv
  <2>3. ASSUME Inteira, ~Cortados PROVE Coberta(arquivos, Impressos', pilha')
    <3>1. Coberta(arquivos, Impressos, pilha)
      BY <2>2, <2>3 DEF CoberturaInv
    <3>2. ASSUME NEW p \in Impressos, NEW k \in Nat, Entra(arquivos, Destino(arquivos, p), k),
                 EmAberto(pilha, p, k)
          PROVE  EmAberto(Front(pilha), p, k)
      <4>1. /\ Topo = Last(pilha) /\ Quadro(arquivos, Topo)
            /\ Topo.ents = arquivos[Destino(arquivos, Topo.path)].dados
            /\ BoaPilha(arquivos, pilha)
        BY <2>1, <2>3, TopFrame DEF CaminhadaInv
      <4>2. ASSUME p = Topo.path, Topo.i <= k PROVE FALSE
        <5>1. k \in 1 .. Len(Topo.ents)
          BY <3>2, <4>1, <4>2 DEF Entra
        <5>2. Topo.i \in 1 .. Len(Topo.ents) + 1
          BY <4>1 DEF Quadro
        <5>3. Len(Topo.ents) \in Nat
          BY <4>1, FileFacts DEF Quadro, ImagemInv
        <5>4. QED  BY <2>1, <4>2, <5>1, <5>2, <5>3
      <4>3. QED  BY <2>1, <3>2, <4>1, <4>2, OpenReturned
    <3>3. QED  BY <2>1, <2>2, <3>1, <3>2 DEF Coberta
  <2>4. QED  BY <2>2, <2>1, <2>3
<1>7. CASE Main \/ DumpInodeChecksum \/ EndInodes \/ EndPaths \/ UNCHANGED vars
  <2>1. UNCHANGED <<pilha, caminhos>>
    BY <1>7 DEF Main, DumpInodeChecksum, EndInodes, EndPaths, vars
  <2>2. QED  BY <2>1 DEF CoberturaInv, Impressos
<1>8. QED  BY <1>4, <1>5, <1>6, <1>7 DEF Next, Exit

\* TreeDumped: the walk of -p ends in the assert of DumpPathAndChildren only
\* over a deleted entry, and when it ends well on an image that can be read it
\* printed the paths of the tree, all and no other.
THEOREM TreePrinted == Spec => []TreeDumped
<1>1. ImagemInv /\ CaminhadaInv /\ CoberturaInv => TreeDumped
  <2> SUFFICES ASSUME ImagemInv, CaminhadaInv, CoberturaInv PROVE TreeDumped
    OBVIOUS
  <2>1. pc = "abort" => Removidas
    BY DEF CaminhadaInv
  <2>2. ASSUME pc = "fim", caminhos # {}, Inteira, ~Cortados
        PROVE  Impressos = Caminhos(arquivos)
    <3>1. Valida(arquivos) /\ SemCortes(arquivos)
      BY <2>2, WholeNames DEF ImagemInv
    <3>2. Impressos \subseteq Caminhos(arquivos) /\ Impressos \subseteq Caminhadas(arquivos)
      BY <3>1 DEF Impressos, CaminhadaInv, Linha, Lugar
    <3>3. Coberta(arquivos, Impressos, <<>>)
      BY <2>2 DEF CaminhadaInv, CoberturaInv
    <3>4. \A p, k : ~EmAberto(<<>>, p, k)
      BY DEF EmAberto
    <3>5. ASSUME NEW p \in Impressos, NEW x \in Abaixo(arquivos, p) PROVE x \in Impressos
      <4>1. Len(p) \in Nat
        BY <3>2 DEF Caminhadas
      <4>2. Segundo(arquivos, p, x)
        BY <3>1, <4>1, BelowIs
      <4>3. PICK k : Entra(arquivos, Destino(arquivos, p), k) /\ x = Seguinte(arquivos, p, k)
        BY <4>2 DEF Segundo, Seguinte
      <4>4. k \in Nat
        BY <4>3 DEF Entra
      <4>5. QED  BY <3>3, <3>4, <4>3, <4>4 DEF Coberta
    <3>6. Caminhos(arquivos) \subseteq Impressos
      <4>1. <<>> \in Impressos
        BY <3>3 DEF Coberta
      <4>2. QED  BY <3>1, <3>5, <4>1, TreeInduction
    <3>7. QED  BY <3>2, <3>6
  <2>3. QED  BY <2>1, <2>2 DEF TreeDumped, Impressos
<1>2. Spec => []CoberturaInv
  BY CoverInit, CoverNext, ImageInvariance, WalkInvariance, PTL DEF Spec
<1>3. QED  BY <1>1, <1>2, ImageInvariance, WalkInvariance, PTL
================================================================================
