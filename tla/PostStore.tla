----------------------------- MODULE PostStore -----------------------------
(***************************************************************************)
(* The raw-flash region that mmem.c keeps POST data in, as operators on a  *)
(* record ff: the one global cursor ff_cpos, the size ff_csize, what each  *)
(* flash cell holds, and (history) what happened since the last erase:     *)
(* whether a reader moved the cursor, and how many writes began past the   *)
(* end of the data and left a hole there.  Everything that touches POST    *)
(* data (httpd.c, cgi.c, cgiwifi.c, stk500.c) goes through this single     *)
(* cursor.                                                                 *)
(***************************************************************************)
EXTENDS Integers

CONSTANTS
  FF_SIZE,    \* cells in the region ff_erase erases (0x19000 in mmem.h)
  StoreCap,   \* bound: the furthest a write goes
  ERASED,     \* the value of a cell after an erase
  MIXED       \* the value of a cell programmed twice without an erase

ASSUME StoreAssumption ==
  /\ FF_SIZE \in Nat \ {0}
  /\ StoreCap \in Nat
  /\ FF_SIZE <= StoreCap

\* What is written behind the region, where nothing is erased, is not kept.
Cells == 0 .. (FF_SIZE - 1)

Erased == [a \in Cells |-> ERASED]

FfInit ==
  [cpos |-> 0, csize |-> 0, cell |-> Erased, moved |-> FALSE, holes |-> 0]

\* ff_seek: a position past the end is moved to the last byte, and to 0 when
\* the store is empty.
FfClamp(csize, pos) ==
  IF pos < csize THEN (IF pos < 0 THEN 0 ELSE pos)
  ELSE IF csize = 0 THEN 0 ELSE csize - 1

FfSeek(ff, pos) == [ff EXCEPT !.cpos = FfClamp(ff.csize, pos)]

FfReset(ff) == FfSeek(ff, 0)

\* A reader leaves the cursor at p.
FfMoveTo(ff, p) == [ff EXCEPT !.cpos = p, !.moved = @ \/ p # ff.cpos]

\* The furthest that ff_mread_str leaves the cursor: it takes the place of the
\* line's last byte or, at the end of the data, the byte after it for a line
\* end, and skips one more if that is a line end as well, be it a leftover of
\* longer data or whatever lies behind the region.
ReadEnd(ff) ==
  LET next == ff.csize + 1 IN
  IF next < FF_SIZE /\ ff.cell[next] = ERASED THEN next ELSE next + 1

\* Where reading lines of the store can leave the cursor.
ReadEnds(ff) == IF ff.csize = 0 THEN {0} ELSE 1 .. ReadEnd(ff)

\* Variants: the size and cursor stay; the sectors are not erased.
FfEraseKeepsSize(ff) ==
  [ff EXCEPT !.cell = Erased, !.moved = FALSE, !.holes = 0]
FfEraseKeepsData(ff) ==
  FfReset([ff EXCEPT !.csize = 0, !.moved = FALSE, !.holes = 0])

\* ff_erase: size 0, cursor reset, the region's sectors erased.
FfErase(ff) ==
  FfReset([ff EXCEPT !.csize = 0, !.cell = Erased,
                     !.moved = FALSE, !.holes = 0])

\* ff_write_bytes: the bytes go to the cursor, whoever left it there, and the
\* size becomes the new cursor.  bytes is a function on 0 .. size-1.  NOR flash
\* only clears bits, so a second write to a cell mixes the two values.
FfWriteBytes(ff, bytes, size) ==
  [cpos  |-> ff.cpos + size,
   csize |-> ff.cpos + size,
   cell  |-> [a \in Cells |->
               IF a < ff.cpos \/ a >= ff.cpos + size THEN ff.cell[a]
               ELSE IF ff.cell[a] = ERASED THEN bytes[a - ff.cpos] ELSE MIXED],
   moved |-> ff.moved,
   holes |-> IF ff.cpos > ff.csize THEN ff.holes + 1 ELSE ff.holes]
=============================================================================
