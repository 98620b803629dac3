------------------------------- MODULE MCData ------------------------------
(***************************************************************************)
(* The algorithms that work on data alone, on every input of a small set:  *)
(* a state is an input, and each property compares what the code makes of  *)
(* it with what the input stands for.                                      *)
(***************************************************************************)
EXTENDS PostLines, HttpArgs, Base64, Template, EspFs

VARIABLE input

Texts(S, n) == UNION {[1 .. k -> S] : k \in 0 .. n}

Init == input = [kind |-> "none"]

Choose(S) == input.kind = "none" /\ input' \in S
-----------------------------------------------------------------------------
(* Inputs *)

\* Lines of up to six characters: none, one or two reads long, and ending
\* anywhere in a read.
Line(n) == [k \in 1 .. n |-> "x"]
ReadLines == Choose([kind: {"lines"}, lengths: Texts(0 .. 6, 3)])

\* Bodies of up to two parts; names of which one begins with another, header
\* lines and values of any length.  (A header line that names one of these parts
\* does not end on the last character of a read.)  The name searched for is that
\* of a part or begins two.
Names2 == {<<"a", "b">>, <<"a", "b", "c">>, <<"b", "c">>}
Part == [name: Names2, headers: {<<>>} \cup {<<Line(n)>> : n \in 1 .. 3},
         lines: {<<>>, <<Line(0)>>, <<Line(2), Line(0)>>, <<Line(3), Line(5)>>}]
FindPart == Choose([kind: {"part"}, parts: Texts(Part, 2),
                    arg: Names2 \cup {<<"a">>}])

\* Forms of up to two fields; values with what must be escaped.
Bytes == {0, 32, 37, 38, 43, 61, 65, 255}
FieldNames == {<<97>>, <<97, 98>>}
FindField ==
  Choose([kind: {"form"}, fields: Texts([name: FieldNames, value: Texts(Bytes, 2)], 2),
          arg: FieldNames, room: {1, 2, 3}])

\* Names and passwords, some with a colon, and who is known.
Secrets == {<<>>, <<58>>, <<97>>, <<97, 58>>, <<200, 255, 97>>}
Person == [user: Secrets, pass: Secrets]
Login == Choose([kind: {"login"}, given: Person, users: Texts(Person, 1), room: {4, 9}])
DecodeText == Choose([kind: {"code"}, bytes: Texts({0, 1, 97, 255}, 4), room: {3, 4}])

\* Pages of text and marks; tokens that expand to nothing, something, a lot.
ServePage == Choose([kind: {"page"}, page: Texts({"x", "%"}, 7), grow: {0, 2, 6}])

\* Images of up to two files.
Alphabet == <<"a", "b", "c", "d", "e", "f", "g", "h", "i", "j", "k", "l">>
Entry == [name: {<<"n">>, <<"m", "m", "m">>, <<".", "/", "k">>},
          text: {SubSeq(Alphabet, i, i + n - 1) : i \in {1, 2}, n \in {0, 1, 4, 7, 8, 9, 11}}]
ServeFile ==
  Choose({i \in [kind: {"file"}, entries: Texts(Entry, 2), comp: {NONE, HEATSHRINK},
                 url: {<<"/", "n">>, <<"m", "m", "m">>, <<"/", "/", "k">>}] :
            Cardinality({i.entries[k].name : k \in DOMAIN i.entries}) = Len(i.entries)})

Next ==
  \/ ReadLines \/ FindPart \/ FindField \/ DecodeText \/ Login
  \/ ServePage \/ ServeFile

Spec == Init /\ [][Next]_input
-----------------------------------------------------------------------------
(* Properties *)

\* ff_mread_str, called until NULL, returns the lines of the data, one by one:
\* none split where a read of the flash ends, none joined with the next.
\* (A line that ends on the last character of a read is followed by an empty
\* one: see README.)
LinesRead ==
  input.kind = "lines" =>
    LET texts == [k \in DOMAIN input.lengths |-> Line(input.lengths[k])] IN
    (\A k \in DOMAIN texts : WellCut(texts[k])) => AllLines(Joined(texts)) = texts

\* httpdFindMultipartArg finds the value of the part, from its first byte to
\* the boundary, whatever parts, headers and empty lines come before, as long
\* as no header line ends on the last character of a read.
PartFound ==
  input.kind = "part" /\ CutWell(input.parts) =>
    FindMultipartArg(Body(input.parts), input.arg) = PartWanted(input.parts, input.arg)

\* httpdFindArg gives back the value a browser encoded, zero-terminated, if it is
\* shorter than the buffer.  One that fills the buffer or is cut to it has no
\* terminator, although httpd.c's comments promise one (see README).
ArgFound ==
  input.kind = "form" =>
    FindArg(FormLine(input.fields), input.arg, input.room)
      = ArgWanted(input.fields, input.arg, input.room)

\* base64_decode undoes the encoding of any bytes, and refuses what does not
\* fit in the output.
CodeUndone ==
  input.kind = "code" =>
    Decode(Encode(input.bytes), input.room) =
      IF Len(input.bytes) > input.room THEN [ok |-> FALSE, out |-> <<>>]
      ELSE [ok |-> TRUE, out |-> input.bytes]

\* authBasic lets in exactly those who send the user:password text of a known
\* user that fits the code's buffer.
LoginExact ==
  input.kind = "login" =>
    LET pair(p) == p.user \o <<Colon>> \o p.pass IN
    AuthBasic(Basic \o <<Space>> \o Encode(pair(input.given)), input.users, input.room)
      <=> /\ Len(pair(input.given)) <= input.room
          /\ \E k \in DOMAIN input.users : pair(input.users[k]) = pair(input.given)

\* A page is served as its text with every token replaced, wherever the pieces
\* it is read in cut it, as long as what a piece turns into fits the send
\* buffer and tokens fit the token buffer.
Values == [token \in Texts({"x"}, 7) |-> [k \in 1 .. input.grow |-> "v"]]
Fits(page) ==
  /\ \A n \in 0 .. (Len(page) \div BLOCK) :
       LET piece == SubSeq(page, n * BLOCK + 1, Min({(n + 1) * BLOCK, Len(page)})) IN
       Len(piece) + Cardinality(Marks(piece)) * input.grow <= MAX_SENDBUFF_LEN
  /\ \A k \in 1 .. (Cardinality(Marks(page)) + 1) :
       k % 2 = 0 => Len(Stretch(page, k)) <= MAX_TOKEN
PageWhole ==
  input.kind = "page" /\ Fits(input.page) =>
    PageSent(Values, input.page) = Expand(Values, input.page)

FileOf(entries, url) ==
  LET hits == {k \in DOMAIN entries : RealName(entries[k].name) = StripSlashes(url)} IN
  IF hits = {} THEN <<>> ELSE entries[Min(hits)].text

\* Every file the tool packed is found by its url, and no other; a stored file
\* is served whole, a compressed one up to what the decoder still holds when
\* its input is used up at the end of a block.
FileServed ==
  input.kind = "file" =>
    LET img  == Image(input.entries, input.comp)
        f    == Open(img, input.url)
        text == FileOf(input.entries, input.url)
        sent == FileSent(img, f, BLOCK)
    IN IF text = <<>> THEN ~f.found
       ELSE /\ f.found /\ IsPrefix(sent, text)
            /\ sent = text
               \/ /\ f.comp = HEATSHRINK /\ Len(sent) % BLOCK = 0
                  /\ Len(text) - Len(sent) < IN_BUF * UNIT
=============================================================================
