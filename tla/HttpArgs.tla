------------------------------ MODULE HttpArgs -----------------------------
(***************************************************************************)
(* Form arguments: httpdHexVal, httpdUrlDecode and httpdFindArg of         *)
(* httpd.c, on sequences of character codes.                               *)
(***************************************************************************)
EXTENDS Integers, SequencesExt

Amp     == 38
Equals  == 61
Percent == 37
Plus    == 43
Space   == 32

\* httpdHexVal
HexVal(c) ==
  CASE c \in 48 .. 57  -> c - 48
    [] c \in 65 .. 70  -> c - 65 + 10
    [] c \in 97 .. 102 -> c - 97 + 10
    [] OTHER           -> 0

\* One character of a value.  esced counts the characters of an escape seen.
\* Variant: the second digit replaces the first.
DecodeStepLow(s, c) ==
  CASE s.esced = 1 -> [s EXCEPT !.esced = 2, !.val = HexVal(c) * 16]
    [] s.esced = 2 -> [out |-> Append(s.out, HexVal(c)), esced |-> 0, val |-> 0]
    [] s.esced = 0 /\ c = Percent -> [s EXCEPT !.esced = 1]
    [] s.esced = 0 /\ c = Plus    -> [s EXCEPT !.out = Append(@, Space)]
    [] OTHER       -> [s EXCEPT !.out = Append(@, c)]

DecodeStep(s, c) ==
  CASE s.esced = 1 -> [s EXCEPT !.esced = 2, !.val = HexVal(c) * 16]
    [] s.esced = 2 -> [out |-> Append(s.out, s.val + HexVal(c)), esced |-> 0,
                       val |-> 0]
    [] s.esced = 0 /\ c = Percent -> [s EXCEPT !.esced = 1]
    [] s.esced = 0 /\ c = Plus    -> [s EXCEPT !.out = Append(@, Space)]
    [] OTHER       -> [s EXCEPT !.out = Append(@, c)]

\* httpdUrlDecode: at most retLen characters.
UrlDecode(val, retLen) ==
  FoldLeft(LAMBDA s, c : IF Len(s.out) < retLen THEN DecodeStep(s, c) ELSE s,
           [out |-> <<>>, esced |-> 0, val |-> 0], val).out

\* Variant: the test of the room counts one too many.
StoredPast(out, retLen) == IF Len(out) <= retLen THEN Append(out, 0) ELSE out

\* What it leaves in ret: a zero behind the characters, but only if they leave
\* room for one.
Stored(out, retLen) == IF Len(out) < retLen THEN Append(out, 0) ELSE out

\* What httpdFindArg returns (len) and puts in the buffer (buf): nothing when
\* there is no such argument, or no line to look in.
Missing == [len |-> -1, buf |-> <<>>]
NoLine  == [len |-> 0, buf |-> <<>>]

\* The places of a line where a field begins.
FieldStarts(line) ==
  {p \in 1 .. Len(line) : p = 1 \/ line[p - 1] = Amp}

\* Variant: the character after the name is not looked at.
IsArgPrefix(line, p, arg) ==
  IsPrefix(arg, SubSeq(line, p, Len(line))) /\ p + Len(arg) <= Len(line)

\* The field at p is arg=...
IsArg(line, p, arg) == IsPrefix(Append(arg, Equals), SubSeq(line, p, Len(line)))

\* httpdFindArg: the first field with the name; its value ends at the next &.
FindArg(line, arg, buffLen) ==
  LET hits == {p \in FieldStarts(line) : IsArg(line, p, arg)} IN
  IF hits = {} THEN Missing
  ELSE LET from == Min(hits) + Len(arg) + 1
           ends == {q \in from .. Len(line) : line[q] = Amp}
           to   == IF ends = {} THEN Len(line) ELSE Min(ends) - 1
           out  == UrlDecode(SubSeq(line, from, to), buffLen)
       IN [len |-> Len(out), buf |-> Stored(out, buffLen)]
-----------------------------------------------------------------------------
(* What a browser sends for a form. *)

HexDigit(v) == IF v < 10 THEN 48 + v ELSE 55 + v

Encoded(value) ==
  FlattenSeq([k \in 1 .. Len(value) |->
    IF value[k] = Space THEN <<Plus>>
    ELSE IF value[k] \in 48 .. 57 \cup 65 .. 90 \cup 97 .. 122 THEN <<value[k]>>
    ELSE <<Percent, HexDigit(value[k] \div 16), HexDigit(value[k] % 16)>>])

\* fields is a sequence of [name, value].
FormLine(fields) ==
  FlattenSeq([k \in 1 .. Len(fields) |->
    (IF k = 1 THEN <<>> ELSE <<Amp>>)
      \o fields[k].name \o <<Equals>> \o Encoded(fields[k].value)])

\* A value shorter than the buffer is wanted whole and zero-terminated; of any
\* other the buffer has what fits, and no zero.
ArgWanted(fields, arg, buffLen) ==
  LET hits == {k \in 1 .. Len(fields) : fields[k].name = arg} IN
  IF hits = {} THEN Missing
  ELSE LET v == fields[Min(hits)].value IN
       IF Len(v) < buffLen THEN [len |-> Len(v), buf |-> Append(v, 0)]
       ELSE [len |-> buffLen, buf |-> SubSeq(v, 1, buffLen)]
=============================================================================
