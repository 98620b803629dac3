------------------------------- MODULE EspFs -------------------------------
(***************************************************************************)
(* The read-only file system: the image mkespfsimage/main.c writes and     *)
(* what espfs.c reads back from it, a piece at a time as cgiEspFsHook and  *)
(* espfstest/main.c do.                                                    *)
(*                                                                         *)
(* An image is a sequence of cells, one per byte; a header is its fields   *)
(* in the first of sixteen cells.  Heatshrink is external: a compressed    *)
(* cell is a unit that expands to up to UNIT characters.                   *)
(***************************************************************************)
EXTENDS Integers, SequencesExt

CONSTANTS
  UNIT,      \* characters a compressed byte may expand to
  IN_BUF     \* input buffer of the decoder, bytes (16)

ASSUME EspFsAssumption == UNIT \in Nat \ {0} /\ IN_BUF \in Nat \ {0}

HEADER == 16
NONE       == "none"         \* COMPRESS_NONE
HEATSHRINK == "heatshrink"   \* COMPRESS_HEATSHRINK

Nul     == <<"nul">>
Char(c) == <<"char", c>>
Parm    == <<"parm">>
Unit(s) == <<"unit", s>>
HeadCell(last, comp, nameLen, lenComp) == <<"head", last, comp, nameLen, lenComp>>
-----------------------------------------------------------------------------
(* mkespfsimage *)

\* The next multiple of four.
Round4(n) == ((n + 3) \div 4) * 4

Pad(cells, n) == cells \o [k \in 1 .. (n - Len(cells)) |-> Nul]

HeaderCells(last, comp, nameLen, lenComp) ==
  Pad(<<HeadCell(last, comp, nameLen, lenComp)>>, HEADER)

Chars(text) == [k \in 1 .. Len(text) |-> Char(text[k])]

\* compressHeatshrink: the encoder's parameters, then what it puts out.
Compressed(text) ==
  <<Parm>> \o
    [k \in 1 .. (Len(text) + UNIT - 1) \div UNIT |->
       Unit(SubSeq(text, (k - 1) * UNIT + 1, Min({k * UNIT, Len(text)})))]

\* handleFile: a file that would grow is stored as it is.  (The bytes after the
\* terminating zero of the name are whatever follows it in memory: no one
\* reads them.)  An empty file cannot be mapped and is left out.
HandleFile(name, text, compression) ==
  LET grows == compression = HEATSHRINK /\ Len(Compressed(text)) > Len(text)
      comp  == IF grows THEN NONE ELSE compression
      data  == IF comp = NONE THEN Chars(text) ELSE Compressed(text)
      nameLen == Round4(Len(name) + 1)
  IN IF text = <<>> THEN <<>>
     ELSE HeaderCells(FALSE, comp, nameLen, Len(data))
            \o Pad(Chars(name), nameLen) \o Pad(data, Round4(Len(data)))

\* finishArchive
FinishArchive == HeaderCells(TRUE, NONE, 0, 0)

\* main's loop over the names it reads: a leading . and then a leading / of
\* the name are dropped.
Drop(name, c) == IF name # <<>> /\ name[1] = c THEN Tail(name) ELSE name
RealName(name) == Drop(Drop(name, "."), "/")

Image(entries, compression) ==
  FlattenSeq([k \in 1 .. Len(entries) |->
    HandleFile(RealName(entries[k].name), entries[k].text, compression)])
    \o FinishArchive
-----------------------------------------------------------------------------
(* espfs.c *)

\* Variant: the next header is looked for right behind the data.
NextHeaderUnaligned(p, h) == p + HEADER + h[4] + h[5]

\* Where the header after the one at p is.
NextHeader(p, h) == Round4(p + HEADER + h[4] + h[5])

\* The name at p: the characters up to the first zero.
NameAt(img, p) ==
  LET end == Min({k \in (p + 1) .. Len(img) : img[k] = Nul}) IN
  [k \in 1 .. (end - p - 1) |-> img[p + k][2]]

StripSlashes(name) ==
  LET from == Min({k \in 1 .. (Len(name) + 1) : k > Len(name) \/ name[k] # "/"})
  IN SubSeq(name, from, Len(name))

\* An open file: its header, the next byte to read (posComp - posStart), and
\* the decoder: its input not decoded yet, how much of the input buffer is
\* taken, and the characters of the unit it is in.
NoFile == [found |-> FALSE]

OpenAt(p, h) ==
  [found |-> TRUE, comp |-> h[3], start |-> p + HEADER + h[4], flen |-> h[5],
   pos |-> IF h[3] = HEATSHRINK THEN 1 ELSE 0,
   in |-> <<>>, used |-> 0, pend |-> <<>>]

\* espFsOpen
Open(img, fileName) ==
  LET name == StripSlashes(fileName)
      from[p \in Nat] ==
        IF p >= Len(img) \/ img[p + 1][1] # "head" THEN NoFile
        ELSE LET h == img[p + 1] IN
             IF h[2] THEN NoFile
             ELSE IF NameAt(img, p + HEADER) = name THEN OpenAt(p, h)
             ELSE from[NextHeader(p, h)]
  IN from[0]

\* heatshrink_decoder_sink with the bytes at the position: what the input buffer
\* has room for.
Sink(img, f) ==
  LET n == Min({IN_BUF - f.used, f.flen - f.pos, IN_BUF}) IN
  [f EXCEPT !.pos = @ + n, !.used = @ + n,
            !.in = @ \o [k \in 1 .. n |-> img[f.start + f.pos + k][2]]]

\* heatshrink_decoder_poll: up to room characters.  The input buffer is free
\* again when its last byte has been taken.
Poll(f, room) ==
  LET enough == {k \in 0 .. Len(f.in) :
                   k = Len(f.in) \/
                   Len(f.pend) + Len(FlattenSeq(SubSeq(f.in, 1, k))) >= room}
      taken  == Min(enough)
      text   == f.pend \o FlattenSeq(SubSeq(f.in, 1, taken))
      n      == Min({room, Len(text)})
  IN [f |-> [f EXCEPT !.in = SubSeq(@, taken + 1, Len(@)),
                      !.used = IF taken = Len(f.in) THEN 0 ELSE @,
                      !.pend = SubSeq(text, n + 1, Len(text))],
      out |-> SubSeq(text, 1, n)]

\* espFsRead of a stored file.
ReadRaw(img, f, len) ==
  LET n == Min({len, f.flen - f.pos}) IN
  [f   |-> [f EXCEPT !.pos = @ + n],
   out |-> [k \in 1 .. n |-> img[f.start + f.pos + k][2]]]

\* espFsRead of a compressed one: sink and poll until the buffer is full, or
\* until the input is used up, whatever the decoder still holds.
ReadHeatshrink(img, f, len) ==
  LET pass[n \in Nat] ==
        IF n = 0 THEN [f |-> f, out |-> <<>>]
        ELSE LET s == pass[n - 1] IN
             IF Len(s.out) >= len \/ s.f.pos = s.f.flen THEN s
             ELSE LET got == Poll(Sink(img, s.f), len - Len(s.out)) IN
                  [f |-> got.f, out |-> s.out \o got.out]
  IN pass[len + 1]

Read(img, f, len) ==
  IF f.comp = NONE THEN ReadRaw(img, f, len) ELSE ReadHeatshrink(img, f, len)

\* cgiEspFsHook's loop (the body it sends): until a piece is short.
\* espfstest's, which ends at an empty one, writes the same.
FileSent(img, f, block) ==
  LET from[n \in Nat] ==
        IF n = 0 THEN [f |-> f, out |-> <<>>, more |-> TRUE]
        ELSE LET s == from[n - 1] IN
             IF ~s.more THEN s
             ELSE LET got == Read(img, s.f, block) IN
                  [f |-> got.f, out |-> s.out \o got.out,
                   more |-> Len(got.out) = block]
  IN from[f.flen * UNIT + 1].out
=============================================================================
