------------------------------- MODULE Base64 ------------------------------
(***************************************************************************)
(* base64.c and the check of the Authorization header in auth.c, on        *)
(* sequences of character codes.                                           *)
(***************************************************************************)
EXTENDS Integers, SequencesExt

\* base64dec_tab; 255 for a character that is none of the alphabet's.
DecTab(c) ==
  CASE c \in 65 .. 90  -> c - 65
    [] c \in 97 .. 122 -> c - 97 + 26
    [] c \in 48 .. 57  -> c - 48 + 52
    [] c = 43          -> 62
    [] c = 47          -> 63
    [] c = 61          -> 0
    [] OTHER           -> 255

IsSpace(c) == c \in (9 .. 13) \cup {32}
Stops(c)   == c = 61 \/ DecTab(c) = 255

\* Variant: a byte is taken only when more than eight bits are there.
TakeCharLate(s, c) ==
  LET v   == s.v * 64 + DecTab(c)
      rem == s.rem + 6
  IN IF rem <= 8 THEN [v |-> v, rem |-> rem, out |-> s.out, stop |-> FALSE]
     ELSE [v |-> v % 2^(rem - 8), rem |-> rem - 8,
           out |-> Append(s.out, v \div 2^(rem - 8)), stop |-> FALSE]

\* One character of the alphabet.  v keeps the rem bits not put out yet (the
\* code keeps 32, and never looks at those above).
TakeChar(s, c) ==
  LET v   == s.v * 64 + DecTab(c)
      rem == s.rem + 6
  IN IF rem < 8 THEN [v |-> v, rem |-> rem, out |-> s.out, stop |-> FALSE]
     ELSE [v |-> v % 2^(rem - 8), rem |-> rem - 8,
           out |-> Append(s.out, v \div 2^(rem - 8)), stop |-> FALSE]

\* One turn of the loop: white space is skipped, the first character outside
\* the alphabet ends the text.
TakeNext(s, c) ==
  IF s.stop \/ IsSpace(c) THEN s
  ELSE IF Stops(c) THEN [s EXCEPT !.stop = TRUE]
  ELSE TakeChar(s, c)

\* base64_decode, which refuses a text that does not fit.
Decode(in, outLen) ==
  LET after[k \in 0 .. Len(in)] ==
        IF k = 0 THEN [v |-> 0, rem |-> 0, out |-> <<>>, stop |-> FALSE]
        ELSE TakeNext(after[k - 1], in[k])
      all == after[Len(in)].out
  IN IF Len(all) > outLen THEN [ok |-> FALSE, out |-> <<>>]
                          ELSE [ok |-> TRUE, out |-> all]
-----------------------------------------------------------------------------
(* authBasic *)

Colon  == 58
Basic  == <<66, 97, 115, 105, 99>>

\* Variant: the colon is not looked at.
MatchesNoColon(userpass, user, pass) ==
  /\ Len(userpass) = Len(user) + Len(pass) + 1
  /\ IsPrefix(user, userpass) /\ IsSuffix(pass, userpass)

Matches(userpass, user, pass) ==
  /\ Len(userpass) = Len(user) + Len(pass) + 1
  /\ IsPrefix(user, userpass)
  /\ userpass[Len(user) + 1] = Colon
  /\ SubSeq(userpass, Len(user) + 2, Len(userpass)) = pass

\* The text up to the first zero, which is where strlen and strcmp stop.
CString(s) ==
  LET zeros == {k \in 1 .. Len(s) : s[k] = 0} IN
  IF zeros = {} THEN s ELSE SubSeq(s, 1, Min(zeros) - 1)

\* header is the value of Authorization, <<>> when there is none; users the
\* pairs AuthGetUserPw returns, in order; outLen the size of userpass.  (A header
\* of exactly five characters, for which strlen(hdr)-6 is below 0, is left out.)
AuthBasic(header, users, outLen) ==
  /\ IsPrefix(Basic, header)
  /\ \E k \in 1 .. Len(users) :
       Matches(CString(Decode(SubSeq(header, 7, Len(header)), outLen).out),
               users[k].user, users[k].pass)
-----------------------------------------------------------------------------
(* The encoding of RFC 4648, which clients use. *)

EncTab(v) ==
  CASE v \in 0 .. 25  -> 65 + v
    [] v \in 26 .. 51 -> 97 + v - 26
    [] v \in 52 .. 61 -> 48 + v - 52
    [] v = 62         -> 43
    [] OTHER          -> 47

\* Three bytes make four characters; missing ones are padding.
Quad(a, b, c) ==
  <<EncTab(a \div 4), EncTab((a % 4) * 16 + b \div 16),
    EncTab((b % 16) * 4 + c \div 64), EncTab(c % 64)>>

Group(s) ==
  CASE Len(s) = 1 -> SubSeq(Quad(s[1], 0, 0), 1, 2) \o <<61, 61>>
    [] Len(s) = 2 -> SubSeq(Quad(s[1], s[2], 0), 1, 3) \o <<61>>
    [] OTHER      -> Quad(s[1], s[2], s[3])

Encode(bytes) ==
  FlattenSeq([k \in 1 .. (Len(bytes) + 2) \div 3 |->
    Group(SubSeq(bytes, 3 * k - 2, Min({3 * k, Len(bytes)})))])
=============================================================================
