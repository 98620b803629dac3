------------------------------ MODULE Template -----------------------------
(***************************************************************************)
(* cgiEspFsTemplate of httpdespfs.c: a page is read in pieces of BLOCK     *)
(* characters; %name% is replaced by what the page's callback sends for    *)
(* it, %% by %.  A token may begin in one piece and end in a later one.    *)
(***************************************************************************)
EXTENDS Integers, SequencesExt

CONSTANTS
  BLOCK,              \* characters read per call (1024)
  MAX_SENDBUFF_LEN,   \* room for what one call sends (2048)
  MAX_TOKEN           \* characters of a token that are kept (63)

ASSUME TemplateAssumption ==
  {BLOCK, MAX_SENDBUFF_LEN, MAX_TOKEN} \subseteq Nat \ {0}

Mark == "%"

\* httpdSend: all of it or nothing.
Send(sent, data) ==
  IF Len(sent) + Len(data) > MAX_SENDBUFF_LEN THEN sent ELSE sent \o data

\* One character of a piece.  value gives what the page's callback sends for a
\* token.  The state of the scan: whether a token is being collected and what
\* of it (tokenPos, token: kept between calls), the text not sent yet (e, sp),
\* and the send buffer.
Scan(value, s, c) ==
  CASE ~s.inToken /\ c = Mark ->
         [s EXCEPT !.sent = Send(@, s.raw), !.raw = <<>>,
                   !.inToken = TRUE, !.token = <<>>]
    [] ~s.inToken /\ c # Mark -> [s EXCEPT !.raw = Append(@, c)]
    [] s.inToken /\ c = Mark ->
         [s EXCEPT !.sent = Send(@, IF s.token = <<>> THEN <<Mark>>
                                    ELSE value[s.token]),
                   !.inToken = FALSE, !.raw = <<>>]
    [] OTHER ->
         [s EXCEPT !.token = IF Len(@) < MAX_TOKEN THEN Append(@, c) ELSE @]

\* Variant: a token does not go on in the next piece.
PieceForgets(value, kept, piece) ==
  LET end == FoldLeft(LAMBDA s, c : Scan(value, s, c),
                      [inToken |-> FALSE, token |-> <<>>, raw |-> <<>>,
                       sent |-> <<>>], piece)
  IN [inToken |-> end.inToken, token |-> end.token,
      sent |-> Send(end.sent, end.raw)]

\* One call with a piece of the page: what it sends, and what it keeps.
Piece(value, kept, piece) ==
  LET end == FoldLeft(LAMBDA s, c : Scan(value, s, c),
                      [inToken |-> kept.inToken, token |-> kept.token,
                       raw |-> <<>>, sent |-> <<>>], piece)
  IN [inToken |-> end.inToken, token |-> end.token,
      sent |-> Send(end.sent, end.raw)]

\* The whole page: calls until one reads less than BLOCK characters.
PageSent(value, page) ==
  LET after[n \in Nat] ==
        IF n = 0 THEN [inToken |-> FALSE, token |-> <<>>, sent |-> <<>>]
        ELSE LET before == after[n - 1]
                 p == Piece(value, before,
                        SubSeq(page, (n - 1) * BLOCK + 1,
                               Min({n * BLOCK, Len(page)})))
             IN [p EXCEPT !.sent = before.sent \o @]
  IN after[Len(page) \div BLOCK + 1].sent
-----------------------------------------------------------------------------
(* What a page stands for: text and tokens in turn, parted by the marks. *)

Marks(page) == {k \in 1 .. Len(page) : page[k] = Mark}

\* The k-th mark: k marks stand up to it.
MarkAt(page, k) ==
  CHOOSE m \in Marks(page) : Cardinality({i \in Marks(page) : i <= m}) = k

\* The k-th stretch between marks; the last one, if it is a token, is not ended.
Stretch(page, k) ==
  SubSeq(page, IF k = 1 THEN 1 ELSE MarkAt(page, k - 1) + 1,
               IF k > Cardinality(Marks(page)) THEN Len(page) ELSE MarkAt(page, k) - 1)

Expand(value, page) ==
  LET n == Cardinality(Marks(page)) + 1 IN
  FlattenSeq([k \in 1 .. n |->
    CASE k % 2 = 1 -> Stretch(page, k)
      [] k % 2 = 0 /\ k = n -> <<>>
      [] OTHER -> IF Stretch(page, k) = <<>> THEN <<Mark>>
                  ELSE value[Stretch(page, k)]])
=============================================================================
