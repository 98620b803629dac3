----------------------------- MODULE PostLines -----------------------------
(***************************************************************************)
(* Reading POST data line by line (ff_mread_str of mmem.c) and finding a   *)
(* part of a multipart body with it (httpdFindMultipartArg of httpd.c).    *)
(*                                                                         *)
(* The data is a sequence of characters: CR and LF, names, and tokens that *)
(* stand for the texts the search looks for.  Offsets count from 0, as the *)
(* code's cursor ff_cpos does.                                             *)
(***************************************************************************)
EXTENDS Integers, SequencesExt

CONSTANT CACHE_SIZE    \* bytes one read of the flash fetches (128)

ASSUME PostLinesAssumption == CACHE_SIZE \in Nat \ {0}

CR == "cr"
LF == "lf"

\* What a cell holds; past the data the flash is erased.
At(data, p) == IF p < Len(data) THEN data[p + 1] ELSE "erased"
IsEol(c)    == c \in {CR, LF}

\* The offsets in the piece read from p at which the line may end.
Ends(data, p) ==
  {i \in 0 .. (CACHE_SIZE - 1) : IsEol(At(data, p + i)) \/ p + i >= Len(data)}

\* Variant: an end of line is one character.
EolLengthOne(data, p, i) == 1

\* The length of the end of line at p+i.  A second character counts when it
\* is in the piece just read: the cell behind the cache is 0.
EolLength(data, p, i) ==
  IF i + 1 < CACHE_SIZE /\ IsEol(At(data, p + i + 1)) THEN 2 ELSE 1

\* ff_mread_str: the text of the line that starts at start, and where the
\* cursor is left.
ReadStr(data, start) ==
  LET read[p \in Nat] ==
        IF p >= Len(data) THEN [text |-> <<>>, next |-> p]
        ELSE IF Ends(data, p) = {}
        THEN LET more == read[p + CACHE_SIZE] IN
             [more EXCEPT !.text = SubSeq(data, p + 1, p + CACHE_SIZE) \o @]
        ELSE LET i == Min(Ends(data, p)) IN
             [text |-> SubSeq(data, p + 1, p + i),
              next |-> p + i + EolLength(data, p, i)]
  IN read[start]

\* ff_mread_str returns NULL at the end of the data.
AtEnd(data, pos) == pos >= Len(data)

\* Every line, by calls until NULL.
AllLines(data) ==
  LET from[p \in Nat] ==
        IF AtEnd(data, p) THEN <<>>
        ELSE LET l == ReadStr(data, p) IN <<l.text>> \o from[l.next]
  IN from[0]
-----------------------------------------------------------------------------
(* httpdFindMultipartArg *)

\* "Content-Disposition:" up to name=" is the token "disp" in front of the
\* name.  (sizeof(cdisp)-1 is the size of a pointer: three characters are
\* compared, so that every Content header passes and the search for name="
\* decides.)

\* Variant: names are compared whole.
NamesWhole(line, arg) == line = <<"disp">> \o arg

\* strncmp with the length of arg: a longer name passes as well.
Names(line, arg) == IsPrefix(<<"disp">> \o arg, line)

\* strstr(line, boundary)
HasBoundary(line) == \E k \in 1 .. Len(line) : line[k] = "boundary"

\* The cursor positions of the lines that ff_mread_str reads from pos on.
LineStarts(data, pos) ==
  LET from[p \in Nat] ==
        IF AtEnd(data, p) THEN {} ELSE {p} \cup from[ReadStr(data, p).next]
  IN from[pos]

\* The loops stop at the first line that passes their test; -1 when the data
\* ends before.
First(starts) == IF starts = {} THEN -1 ELSE Min(starts)

NotFound == [size |-> -1, start |-> -1]

\* The first boundary line from pos on.
Boundary(data, pos) ==
  First({p \in LineStarts(data, pos) : HasBoundary(ReadStr(data, p).text)})

\* Variant: the value ends after the boundary line.
PartValueWithBoundary(data, pos) ==
  LET end == Boundary(data, pos) IN
  IF end = -1 THEN NotFound
  ELSE [size |-> ReadStr(data, end).next - pos, start |-> pos]

\* The value runs from pos to the line with the boundary.
PartValue(data, pos) ==
  LET end == Boundary(data, pos) IN
  IF end = -1 THEN NotFound ELSE [size |-> end - pos, start |-> pos]

\* After the header lines comes an empty one, after that the value.
FindMultipartArg(data, arg) ==
  LET head  == First({p \in LineStarts(data, 0) : Names(ReadStr(data, p).text, arg)})
      blank == First({p \in LineStarts(data, ReadStr(data, head).next) :
                        ReadStr(data, p).text = <<>>})
  IN IF head = -1 \/ blank = -1 THEN NotFound
     ELSE PartValue(data, ReadStr(data, blank).next)
-----------------------------------------------------------------------------
(* What a body is, and what should be read from it. *)

CRLF == <<CR, LF>>

Joined(texts) == FlattenSeq([k \in 1 .. Len(texts) |-> texts[k] \o CRLF])

\* A part has a name, further header lines, and the lines of its value.
Headers(part) == <<<<"disp">> \o part.name>> \o part.headers
PartText(part) ==
  Joined(<<<<"boundary">>>> \o Headers(part) \o <<<<>>>> \o part.lines)

Body(parts) ==
  FlattenSeq([k \in 1 .. Len(parts) |-> PartText(parts[k])])
    \o Joined(<<<<"boundary">>>>)

\* The line does not end on the last character of a read.
WellCut(text) == Len(text) % CACHE_SIZE # CACHE_SIZE - 1

\* What the search should find: the value of the first part whose name begins
\* with arg, with its last end of line.
PartWanted(parts, arg) ==
  LET hits == {k \in 1 .. Len(parts) : IsPrefix(arg, parts[k].name)} IN
  IF hits = {} THEN NotFound
  ELSE LET k     == Min(hits)
           value == Len(Joined(parts[k].lines))
       IN [size  |-> value,
           start |-> Len(Body(SubSeq(parts, 1, k))) - 3 - value]

CutWell(parts) ==
  \A k \in 1 .. Len(parts) :
    \A j \in 1 .. Len(Headers(parts[k])) : WellCut(Headers(parts[k])[j])
=============================================================================
