---------------------------------- MODULE Disk -----------------------------------
(***************************************************************************)
(* What a reader of sectors is promised (disksim.c): a read fails, or      *)
(* returns the contents of the sector; of a sector past the end of the     *)
(* image it returns 0 bytes and leaves the buffer as it was.               *)
(***************************************************************************)
EXTENDS Integers

CONSTANTS Setores, Conteudos,
          FIM,                      \* a sector the image does not reach
          DISKIMG_SECTOR_SIZE

VARIABLES disco,                    \* the contents of the image
          lido                      \* the last read, what it returned and the buffer

Leituras(s) ==
  [setor : {s}, ret : {-1}, buf : Conteudos]
  \cup (IF disco[s] = FIM
        THEN [setor : {s}, ret : {0}, buf : Conteudos]
        ELSE [setor : {s}, ret : {DISKIMG_SECTOR_SIZE}, buf : {disco[s]}])

Init == /\ disco \in [Setores -> Conteudos \cup {FIM}]
        /\ lido \in [setor : Setores, ret : {-1}, buf : Conteudos]

Read(s) == lido' \in Leituras(s) /\ UNCHANGED disco

Next == \E s \in Setores : Read(s)

Spec == Init /\ [][Next]_<<disco, lido>>
===============================================================================
