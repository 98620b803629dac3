---------------------------- MODULE TelnetProofs ---------------------------
(***************************************************************************)
(* The bridge over the receive buffer, for any buffer, any number of slots *)
(* and clients, and any command lines.  The invariant numbers what is in   *)
(* the buffer: the board's characters up to Gone have left it, and the     *)
(* ones after Gone are in it, in order.  Then what a client got, what the  *)
(* programmer took and what was forgotten are all settled up to Gone.      *)
(***************************************************************************)
EXTENDS Telnet, AtConfigProofs, FiniteSetTheorems
-----------------------------------------------------------------------------
(* The receive buffer of any size holds the newest characters in order.    *)
(* TypeOK and KeepsNewest together are inductive.                          *)

IInv == TypeOK /\ KeepsNewest

\* Adding a character, with room for it and without.
LEMMA AddKeeps ==
  ASSUME IInv, NEW c \in Chars, AddChar(c)
  PROVE  IInv'
<1> USE UartRingAssumption DEF IInv, TypeOK, KeepsNewest, Cells
<1>1. CASE pos + 1 >= SIZE
  <2>1. pos = SIZE - 1 /\ pos' = pos
    BY <1>1 DEF AddChar, Full
  <2>2. buf' = MoveDown([buf EXCEPT ![pos] = c])
    BY <1>1 DEF AddChar, Full
  <2> DEFINE rest == Tail(unread)
  <2>3. Len(unread) = SIZE - 1 /\ Len(unread) > 0
    BY <2>1
  <2>4. /\ rest \in Seq(Chars) /\ Len(rest) = pos - 1
        /\ \A k \in 1 .. (pos - 1) : rest[k] = unread[k + 1]
    BY <2>1, <2>3
  <2>5. unread' = Append(rest, c)
    BY <2>3 DEF AddChar, Put
  <2> HIDE DEF rest
  <2>6. unread' \in Seq(Chars) /\ Len(unread') = pos
    BY <2>1, <2>4, <2>5
  <2>7. ASSUME NEW k \in 1 .. pos
        PROVE  buf'[k - 1] = unread'[k]
    <3>1. CASE k < pos
      <4>1. unread'[k] = rest[k] /\ rest[k] = unread[k + 1]
        <5>1. pos \in Nat /\ k \in 1 .. (pos - 1)
          BY <2>1, <3>1
        <5>2. k \in 1 .. Len(rest) /\ rest[k] = unread[k + 1]
          BY <2>4, <5>1
        <5>3. Append(rest, c)[k] = rest[k]
          BY <2>4, <5>2
        <5> QED
          BY <2>5, <5>2, <5>3
      <4>2. buf'[k - 1] = buf[k]
        BY <2>1, <2>2, <3>1 DEF MoveDown
      <4> QED
        BY <2>1, <3>1, <4>1, <4>2
    <3>2. CASE k = pos
      <4>1. unread'[k] = c
        BY <2>1, <2>4, <2>5, <3>2
      <4> QED
        BY <2>1, <2>2, <3>2, <4>1 DEF MoveDown
    <3> QED
      BY <3>1, <3>2
  <2>8. buf' \in [Cells -> Chars]
    BY <2>1, <2>2 DEF MoveDown
  <2> QED
    BY <2>1, <2>6, <2>7, <2>8 DEF AddChar
<1>2. CASE pos + 1 < SIZE
  <2>1. pos' = pos + 1 /\ buf' = [buf EXCEPT ![pos] = c]
    BY <1>2 DEF AddChar, Full
  <2>2. unread' = Append(unread, c)
    BY <1>2 DEF AddChar, Put
  <2> QED
    BY <1>2, <2>1, <2>2 DEF AddChar
<1> QED
  BY <1>1, <1>2

LEMMA GetKeeps ==
  ASSUME IInv, GetChar
  PROVE  IInv' /\ rs' = <<Head(unread)>>
<1> USE UartRingAssumption DEF IInv, TypeOK, KeepsNewest, Cells
<1>1. unread # <<>> /\ unread' = Tail(unread) /\ pos' = pos - 1
  BY DEF GetChar, Shift
<1>2. buf' = MoveDown(buf) /\ rs' = <<buf[0]>>
  BY DEF GetChar, Shift
<1>3. Head(unread) = buf[0]
  <2>1. Len(unread) \in Nat \ {0} /\ Head(unread) = unread[1]
    BY <1>1
  <2>2. 1 \in 1 .. pos
    BY <2>1
  <2>3. buf[1 - 1] = unread[1]
    BY <2>2
  <2> QED
    BY <2>1, <2>3
<1>4. unread' \in Seq(Chars) /\ Len(unread') = pos'
  BY <1>1
<1>5. ASSUME NEW k \in 1 .. pos'
      PROVE  buf'[k - 1] = unread'[k]
  BY <1>1, <1>2, <1>5 DEF MoveDown
<1>6. buf' \in [Cells -> Chars] /\ rs' \in Seq(Chars)
  BY <1>2 DEF MoveDown
<1> QED
  BY <1>1, <1>2, <1>3, <1>4, <1>5, <1>6

\* The invariant of the receive buffer is kept by uart0_add_char,
\* uart0_get_char and uart0_clean_chars.
THEOREM RingInductive == Spec => []IInv
<1>1. Init => IInv
  BY UartRingAssumption DEF Init, IInv, TypeOK, KeepsNewest, Cells
<1>2. IInv /\ [Next]_vars => IInv'
  <2> SUFFICES ASSUME IInv, [Next]_vars PROVE IInv'
    OBVIOUS
  <2>1. CASE \E c \in Chars : AddChar(c)
    BY <2>1, AddKeeps
  <2>2. CASE GetChar
    BY <2>2, GetKeeps
  <2>3. CASE GetNothing
    BY <2>3 DEF GetNothing, IInv, TypeOK, KeepsNewest
  <2>4. CASE CleanChars
    BY <2>4, UartRingAssumption DEF CleanChars, IInv, TypeOK, KeepsNewest, Cells
  <2>5. CASE UNCHANGED vars
    BY <2>5 DEF vars, IInv, TypeOK, KeepsNewest
  <2> QED
    BY <2>1, <2>2, <2>3, <2>4, <2>5 DEF Next
<1> QED
  BY <1>1, <1>2, PTL DEF Spec

\* uart0_buf and uart1_buf always hold the newest characters not read yet, in
\* the order they arrived.
THEOREM RingKeepsNewest == Spec => []KeepsNewest
BY RingInductive, PTL DEF IInv

\* uart0_get_char returns the oldest of them, and -1 only for an empty buffer.
THEOREM RingReadsOldest == Spec => ReadsOldest
<1>1. IInv /\ [Next]_vars
        => [(GetChar => rs' = <<Head(unread)>>) /\ (GetNothing => unread = <<>>)]_vars
  BY GetKeeps DEF GetNothing, IInv, TypeOK, KeepsNewest
<1> QED
  BY <1>1, RingInductive, PTL DEF Spec, ReadsOldest
-----------------------------------------------------------------------------
(* The bridge. *)

\* The last character that is no longer in the buffer.
Gone == said - Len(unread)

Numbered ==
  /\ Len(unread) <= said
  /\ \A k \in 1 .. Len(unread) : unread[k] = Gone + k
  /\ forgotten \cup kept \subseteq 1 .. Gone

\* A sequence of rising numbers.
Rising(s) == \A j, k \in DOMAIN s : j < k => s[j] < s[k]

\* The client has what left the buffer since it came, but for what the
\* programmer took and what was forgotten.
Followed(c) ==
  /\ Rising(got[c])
  /\ Range(got[c]) = ((since[c] + 1) .. Gone) \ (forgotten \cup kept)

Sent ==
  \A c \in Conns :
    /\ esp[c] = "free" => got[c] = <<>>
    /\ esp[c] = "open" => /\ HasSlot(c) /\ since[c] <= Gone
                          /\ c \notin missed => Followed(c)

Private ==
  lock =>
    /\ ~heard
    /\ mark >= 0 =>
         /\ mark <= Gone
         /\ (\A k \in forgotten : k <= mark) => taken = Run1(mark, Gone)

SlotsApart ==
  ~broke =>
    /\ \A i \in Slots : conn[i] # NULL => esp[conn[i]] \in {"open", "closing"}
    /\ \A i, j \in Slots : conn[i] # NULL /\ conn[i] = conn[j] => i = j

TelnetInv == TelnetTypeOK /\ KeepsNewest /\ Numbered /\ Sent /\ Private /\ SlotsApart
-----------------------------------------------------------------------------
(* Steps that leave a part of the state. *)

Counted == <<unread, said, forgotten, kept>>

LEMMA RingStays ==
  ASSUME TelnetInv, UNCHANGED ringVars
  PROVE  TypeOK' /\ KeepsNewest'
BY DEF TelnetInv, TelnetTypeOK, ringVars, TypeOK, KeepsNewest

LEMMA NumberedStays ==
  ASSUME Numbered, UNCHANGED Counted
  PROVE  Numbered' /\ Gone' = Gone
BY DEF Numbered, Counted, Gone

LEMMA PrivateStays ==
  ASSUME Private, UNCHANGED <<Counted, lock, sessVars>>
  PROVE  Private'
BY DEF Private, Counted, Gone, sessVars, Run1

\* What is settled about one client stays, when nothing of its own changes.
LEMMA ClientStays ==
  ASSUME NEW c \in Conns, UNCHANGED Counted,
         since'[c] = since[c], got'[c] = got[c], Followed(c)
  PROVE  Followed(c)'
BY DEF Counted, Gone, Followed

LEMMA SentStays ==
  ASSUME Sent, UNCHANGED <<Counted, conn, esp, clientVars>>
  PROVE  Sent'
BY DEF Sent, Followed, Counted, Gone, HasSlot, clientVars

LEMMA SlotsApartStays ==
  ASSUME SlotsApart, UNCHANGED <<conn, esp, broke>>
  PROVE  SlotsApart'
BY DEF SlotsApart

-----------------------------------------------------------------------------
(* uart0 and the timer. *)

\* What read_uart sends is what the buffer holds.
LEMMA TextIsUnread ==
  ASSUME TypeOK, KeepsNewest
  PROVE  Text = unread
BY DEF Text, TypeOK, KeepsNewest

LEMMA DrainKeeps ==
  ASSUME TypeOK, KeepsNewest, Drain
  PROVE  TypeOK' /\ KeepsNewest' /\ unread' = <<>>
<1> USE UartRingAssumption DEF TypeOK, KeepsNewest, Drain, Cells
<1>1. buf' \in [Cells -> Chars]
  OBVIOUS
<1>2. rs' \in Seq(Chars)
  OBVIOUS
<1> QED
  BY <1>1, <1>2

\* A full buffer after a character.
LEMMA PushedOut ==
  ASSUME NEW S, NEW q \in Seq(S), q # <<>>, NEW x \in S
  PROVE  /\ Len(Append(Tail(q), x)) = Len(q)
         /\ \A k \in 1 .. Len(q) :
              Append(Tail(q), x)[k] = IF k < Len(q) THEN q[k + 1] ELSE x
<1> DEFINE rest == Tail(q)
<1>1. /\ rest \in Seq(S) /\ Len(rest) = Len(q) - 1 /\ Len(q) > 0
      /\ \A k \in 1 .. (Len(q) - 1) : rest[k] = q[k + 1]
  OBVIOUS
<1> HIDE DEF rest
<1>2. Len(Append(rest, x)) = Len(q)
  BY <1>1
<1>3. ASSUME NEW k \in 1 .. Len(q)
      PROVE  Append(rest, x)[k] = IF k < Len(q) THEN q[k + 1] ELSE x
  <2>1. CASE k < Len(q)
    BY <1>1, <2>1
  <2>2. CASE k = Len(q)
    BY <1>1, <2>2
  <2>3. k < Len(q) \/ k = Len(q)
    OBVIOUS
  <2> QED
    BY <2>1, <2>2, <2>3
<1> QED
  BY <1>2, <1>3 DEF rest

LEMMA BoardKeeps ==
  ASSUME TelnetInv, BoardSays
  PROVE  TelnetInv'
<1> USE DEF TelnetInv
<1>1. said' = said + 1 /\ said \in Nat /\ said' \in 0 .. MaxSaid /\ said' \in Chars
  BY TelnetAssumption DEF BoardSays, TelnetTypeOK
<1>2. IInv'
  BY <1>1, AddKeeps DEF IInv, BoardSays, TelnetTypeOK
<1>3. UNCHANGED <<connVars, lock, dbg, dev, clientVars, kept, sessVars>>
  BY DEF BoardSays
<1>4. CASE Len(unread) = SIZE - 1
  <2>1. unread # <<>> /\ unread' = Append(Tail(unread), said + 1)
    BY <1>4, UartRingAssumption DEF BoardSays, AddChar, Put, TelnetTypeOK, TypeOK
  <2>2. Head(unread) = Gone + 1 /\ forgotten' = forgotten \cup {Gone + 1}
    BY <1>4, <2>1 DEF BoardSays, Numbered, TelnetTypeOK, TypeOK
  <2>3. Len(unread') = Len(unread) /\ Gone' = Gone + 1
    BY <1>1, <2>1 DEF Gone, TelnetTypeOK, TypeOK
  <2>4. ASSUME NEW k \in 1 .. Len(unread')
        PROVE  unread'[k] = Gone' + k
    <3>1. k \in 1 .. Len(unread) /\ unread \in Seq(Chars) /\ Len(unread) \in Nat
      BY <2>3 DEF TelnetTypeOK, TypeOK
    <3>2. unread'[k] = IF k < Len(unread) THEN unread[k + 1] ELSE said + 1
      BY <1>1, <2>1, <3>1, PushedOut
    <3>3. Gone + Len(unread) = said /\ Gone' + k = Gone + k + 1
      BY <1>1, <2>3, <3>1 DEF Gone
    <3>4. CASE k < Len(unread)
      <4>1. k + 1 \in 1 .. Len(unread)
        BY <3>1, <3>4
      <4>2. unread[k + 1] = Gone + (k + 1)
        BY <4>1 DEF Numbered
      <4> QED
        BY <1>1, <3>1, <3>2, <3>3, <3>4, <4>2 DEF Gone
    <3>5. CASE k = Len(unread)
      BY <1>1, <3>1, <3>2, <3>3, <3>5 DEF Gone
    <3> QED
      BY <3>1, <3>4, <3>5
  <2>5. Gone \in Nat /\ Gone + 1 \in Chars
    BY <1>1, TelnetAssumption DEF Gone, Numbered, TelnetTypeOK, TypeOK
  <2>6. Numbered'
    BY <1>1, <1>3, <2>2, <2>3, <2>4, <2>5 DEF Numbered
  <2>7. TelnetTypeOK' /\ KeepsNewest'
    BY <1>1, <1>2, <1>3, <2>2, <2>5
       DEF TelnetTypeOK, IInv, connVars, clientVars, sessVars
  <2>8. ASSUME NEW c \in Conns, esp[c] = "open", since[c] <= Gone, Followed(c)
        PROVE  Followed(c)'
    BY <1>3, <2>2, <2>3, <2>5, <2>8
       DEF Followed, Numbered, clientVars, TelnetTypeOK
  <2>9. Sent'
    BY <1>3, <2>3, <2>5, <2>8 DEF Sent, HasSlot, connVars, clientVars, TelnetTypeOK
  <2>10. Private'
    <3>1. lock' = lock /\ heard' = heard /\ mark' = mark /\ mark \in -1 .. MaxSaid
      BY <1>3 DEF sessVars, TelnetTypeOK
    <3>2. mark' \in Int /\ Gone + 1 \in forgotten'
      BY <2>2, <3>1, TelnetAssumption
    <3>3. mark' <= Gone => mark' <= Gone' /\ ~(Gone + 1 <= mark')
      BY <2>3, <2>5, <3>2
    <3> QED
      BY <3>1, <3>2, <3>3 DEF Private
  <2> QED
    BY <1>3, <2>6, <2>7, <2>9, <2>10, SlotsApartStays DEF connVars, clientVars
<1>5. CASE Len(unread) # SIZE - 1
  <2>1. unread' = Append(unread, said + 1) /\ forgotten' = forgotten
    BY <1>5 DEF BoardSays, AddChar, Put
  <2>2. Len(unread') = Len(unread) + 1 /\ Gone' = Gone
    BY <1>1, <2>1 DEF Gone, TelnetTypeOK, TypeOK
  <2>3. ASSUME NEW k \in 1 .. Len(unread')
        PROVE  unread'[k] = Gone' + k
    <3>1. CASE k <= Len(unread)
      <4>1. unread'[k] = unread[k]
        BY <1>1, <2>1, <2>2, <3>1 DEF TelnetTypeOK, TypeOK
      <4> QED
        BY <2>2, <3>1, <4>1 DEF Numbered, TelnetTypeOK, TypeOK
    <3>2. CASE k = Len(unread) + 1
      <4>1. unread'[k] = said + 1
        BY <1>1, <2>1, <2>2, <3>2 DEF TelnetTypeOK, TypeOK
      <4> QED
        BY <2>2, <3>2, <4>1 DEF Gone, TelnetTypeOK, TypeOK
    <3> QED
      BY <2>2, <3>1, <3>2 DEF TelnetTypeOK, TypeOK
  <2>4. Numbered'
    BY <1>1, <1>3, <2>1, <2>2, <2>3 DEF Numbered, TelnetTypeOK, TypeOK
  <2>5. TelnetTypeOK' /\ KeepsNewest'
    BY <1>1, <1>2, <1>3, <2>1 DEF TelnetTypeOK, IInv, connVars, clientVars, sessVars
  <2>6. Sent'
    BY <1>3, <2>1, <2>2 DEF Sent, Followed, HasSlot, connVars, clientVars
  <2>7. Private'
    BY <1>3, <2>1, <2>2 DEF Private, Run1, sessVars
  <2> QED
    BY <1>3, <2>4, <2>5, <2>6, <2>7, SlotsApartStays DEF connVars, clientVars
<1> QED
  BY <1>4, <1>5

\* What a client has, and what is sent to it.
LEMMA RisingOn ==
  ASSUME NEW s \in Seq(Nat), NEW t \in Seq(Nat), NEW g \in Nat,
         Rising(s), \A k \in 1 .. Len(s) : s[k] <= g,
         \A k \in 1 .. Len(t) : t[k] = g + k
  PROVE  Rising(s \o t) /\ Range(s \o t) = Range(s) \cup ((g + 1) .. (g + Len(t)))
<1> DEFINE u == s \o t
<1>1. /\ u \in Seq(Nat) /\ Len(u) = Len(s) + Len(t)
      /\ \A k \in 1 .. Len(s) : u[k] = s[k]
      /\ \A k \in 1 .. Len(t) : u[Len(s) + k] = t[k]
  OBVIOUS
<1> HIDE DEF u
<1>2. ASSUME NEW k \in 1 .. Len(u)
      PROVE  IF k <= Len(s) THEN u[k] = s[k] ELSE u[k] = g + (k - Len(s))
  <2>1. CASE k <= Len(s)
    BY <1>1, <2>1
  <2>2. CASE k > Len(s)
    <3>1. k - Len(s) \in 1 .. Len(t) /\ Len(s) + (k - Len(s)) = k
      BY <1>1, <2>2
    <3>2. u[Len(s) + (k - Len(s))] = t[k - Len(s)]
      BY <1>1, <3>1
    <3> QED
      BY <2>2, <3>1, <3>2
  <2>3. k <= Len(s) \/ k > Len(s)
    BY <1>1
  <2> QED
    BY <2>1, <2>2, <2>3
<1>3. Rising(u)
  <2> SUFFICES ASSUME NEW j \in 1 .. Len(u), NEW k \in 1 .. Len(u), j < k
               PROVE  u[j] < u[k]
    BY <1>1 DEF Rising
  <2>1. CASE k <= Len(s)
    <3>1. j \in 1 .. Len(s) /\ k \in 1 .. Len(s)
      BY <1>1, <2>1
    <3>2. u[j] = s[j] /\ u[k] = s[k]
      BY <1>1, <3>1
    <3>3. DOMAIN s = 1 .. Len(s)
      OBVIOUS
    <3>4. s[j] < s[k]
      BY <3>1, <3>3 DEF Rising
    <3> QED
      BY <3>2, <3>4
  <2>2. CASE j > Len(s)
    BY <1>1, <1>2, <2>2
  <2>3. CASE j <= Len(s) /\ k > Len(s)
    <3>1. u[j] = s[j] /\ s[j] <= g /\ s[j] \in Nat
      BY <1>1, <1>2, <2>3
    <3>2. u[k] = g + (k - Len(s)) /\ k - Len(s) >= 1
      BY <1>1, <1>2, <2>3
    <3> QED
      BY <3>1, <3>2
  <2> QED
    BY <1>1, <2>1, <2>2, <2>3
<1>4. Range(u) \subseteq Range(s) \cup ((g + 1) .. (g + Len(t)))
  <2> SUFFICES ASSUME NEW k \in 1 .. Len(u)
               PROVE  u[k] \in Range(s) \cup ((g + 1) .. (g + Len(t)))
    BY <1>1 DEF Range
  <2>1. CASE k <= Len(s)
    <3>1. k \in DOMAIN s /\ u[k] = s[k]
      BY <1>1, <2>1
    <3> QED
      BY <3>1 DEF Range
  <2>2. CASE k > Len(s)
    BY <1>1, <1>2, <2>2
  <2>3. k <= Len(s) \/ k > Len(s)
    BY <1>1
  <2> QED
    BY <2>1, <2>2, <2>3
<1>5. \A k \in 1 .. Len(u) : u[k] \in Range(u)
  <2>1. u \in Seq(Nat)
    BY <1>1
  <2>2. DOMAIN u = 1 .. Len(u)
    BY <2>1
  <2> QED
    BY <2>2 DEF Range
<1>6. Range(s) \subseteq Range(u)
  <2> SUFFICES ASSUME NEW k \in 1 .. Len(s)
               PROVE  s[k] \in Range(u)
    BY DEF Range
  <2> QED
    BY <1>1, <1>5
<1>7. ASSUME NEW k \in 1 .. Len(t)
      PROVE  g + k \in Range(u)
  <2>1. Len(s) + k \in 1 .. Len(u) /\ u[Len(s) + k] = g + k
    BY <1>1
  <2> QED
    BY <1>5, <2>1
<1>8. (g + 1) .. (g + Len(t)) \subseteq Range(u)
  <2> SUFFICES ASSUME NEW x \in (g + 1) .. (g + Len(t))
               PROVE  x \in Range(u)
    OBVIOUS
  <2>1. x - g \in 1 .. Len(t) /\ g + (x - g) = x
    OBVIOUS
  <2> QED
    BY <1>7, <2>1
<1> QED
  BY <1>3, <1>4, <1>6, <1>8 DEF u

\* Nothing is in the buffer once it was emptied.
LEMMA EmptiedNumbered ==
  ASSUME TelnetInv, unread' = <<>>, said' = said,
         forgotten' \cup kept' \subseteq 1 .. said
  PROVE  Numbered' /\ Gone' = said /\ said \in Nat
<1>1. said \in Nat /\ Len(unread') = 0
  BY TelnetAssumption DEF TelnetInv, TelnetTypeOK
<1>2. Gone' = said
  BY <1>1 DEF Gone
<1> QED
  BY <1>1, <1>2 DEF Numbered

LEMMA ReadKeeps ==
  ASSUME TelnetInv, ReadUart
  PROVE  TelnetInv'
<1> USE DEF TelnetInv
<1>1. /\ Drain /\ ~lock
      /\ UNCHANGED <<conn, esp, lock, dev, since, broke, boardVars, sessVars>>
      /\ missed' = missed \cup (Hearing \cap Busy)
      /\ got' = [c \in Conns |-> IF c \in Hearing \ (Busy \cup missed) THEN got[c] \o Text
                                 ELSE IF c \in Hearing \cap Busy THEN <<>> ELSE got[c]]
      /\ SendDebug(Hearing)
  BY DEF ReadUart, Unlocked, Listeners
<1>2. TypeOK' /\ KeepsNewest' /\ unread' = <<>>
  BY <1>1, DrainKeeps DEF TelnetTypeOK
<1>3. Text = unread /\ unread \in Seq(Chars)
  BY TextIsUnread DEF TelnetTypeOK, TypeOK
<1>4. Gone \in Nat /\ Gone + Len(unread) = said /\ forgotten \cup kept \subseteq 1 .. Gone
  BY <1>3, TelnetAssumption DEF Numbered, Gone, TelnetTypeOK
<1>5. Numbered' /\ Gone' = said /\ said \in Nat
  BY <1>1, <1>2, <1>3, <1>4, EmptiedNumbered DEF boardVars
<1>6. TelnetTypeOK'
  <2>1. got' \in [Conns -> Seq(Chars)]
    BY <1>1, <1>3 DEF TelnetTypeOK
  <2>2. inflight' \in [Conns -> BOOLEAN] /\ dbg' \in BOOLEAN
    <3>1. inflight' = [c \in Conns |-> inflight[c] \/ c \in Hearing
                                         \/ (HasDebug /\ c \in Hearing)]
      BY <1>1 DEF SendDebug
    <3>2. dbg' = (dbg /\ ~HasDebug)
      BY <1>1 DEF SendDebug
    <3> QED
      BY <3>1, <3>2
  <2> QED
    BY <1>1, <1>2, <2>1, <2>2 DEF TelnetTypeOK, Hearing, boardVars, sessVars
<1>7. ASSUME NEW c \in Conns, esp[c] = "open", c \notin missed'
      PROVE  Followed(c)'
  <2>1. c \in Hearing /\ c \notin Busy \cup missed /\ Followed(c) /\ since[c] <= Gone
    BY <1>1, <1>7 DEF Hearing, Receives, Sent
  <2>2. got'[c] = got[c] \o unread
    BY <1>1, <1>3, <2>1 DEF TelnetTypeOK
  <2>3. got[c] \in Seq(Nat) /\ unread \in Seq(Nat) /\ since[c] \in Nat
    BY <1>3, TelnetAssumption DEF TelnetTypeOK
  <2>4. Range(got[c]) = ((since[c] + 1) .. Gone) \ (forgotten \cup kept)
    BY <2>1 DEF Followed
  <2>5. \A k \in 1 .. Len(got[c]) : got[c][k] <= Gone
    BY <1>4, <2>3, <2>4 DEF Range
  <2>6. \A k \in 1 .. Len(unread) : unread[k] = Gone + k
    BY DEF Numbered
  <2>7. /\ Rising(got'[c])
        /\ Range(got'[c]) = Range(got[c]) \cup ((Gone + 1) .. (Gone + Len(unread)))
    <3>1. Rising(got[c])
      BY <2>1 DEF Followed
    <3> DEFINE q == got[c]
    <3>2. Gone \in Nat /\ q \in Seq(Nat) /\ Rising(q)
          /\ \A k \in 1 .. Len(q) : q[k] <= Gone
      BY <1>4, <2>3, <2>5, <3>1
    <3> HIDE DEF q
    <3>3. /\ Rising(q \o unread)
          /\ Range(q \o unread) = Range(q) \cup ((Gone + 1) .. (Gone + Len(unread)))
      BY <2>3, <2>6, <3>2, RisingOn
    <3> QED
      BY <2>2, <3>3 DEF q
  <2>8. Range(got'[c]) = ((since[c] + 1) .. said) \ (forgotten \cup kept)
    BY <1>4, <2>1, <2>3, <2>4, <2>7
  <2> QED
    BY <1>1, <1>5, <2>7, <2>8 DEF Followed, boardVars
<1>8. ASSUME NEW c \in Conns, esp[c] = "free"
      PROVE  got'[c] = <<>>
  <2>1. c \notin Hearing /\ got[c] = <<>>
    BY <1>8 DEF Hearing, Receives, Sent
  <2> QED
    BY <1>1, <2>1
<1>9. ASSUME NEW c \in Conns, esp[c] = "open"
      PROVE  HasSlot(c)' /\ since'[c] <= Gone'
  BY <1>1, <1>4, <1>5, <1>9 DEF Sent, HasSlot, TelnetTypeOK
<1>10. Sent'
  BY <1>1, <1>7, <1>8, <1>9 DEF Sent
<1>11. Private'
  BY <1>1 DEF Private
<1> QED
  BY <1>1, <1>2, <1>5, <1>6, <1>10, <1>11, SlotsApartStays

\* The debug output only.
LEMMA DebugKeeps ==
  ASSUME TelnetInv, DebugOutput \/ ReadDebug
  PROVE  TelnetInv'
<1> USE DEF TelnetInv
<1>1. /\ UNCHANGED <<ringVars, conn, esp, lock, dev, clientVars, boardVars, sessVars>>
      /\ dbg' \in BOOLEAN /\ inflight' \in [Conns -> BOOLEAN]
  <2>1. CASE DebugOutput
    BY <2>1 DEF DebugOutput, connVars, TelnetTypeOK
  <2>2. CASE ReadDebug
    <3>1. /\ dbg' = (dbg /\ ~HasDebug)
          /\ inflight' = [c \in Conns |-> inflight[c] \/ c \in {}
                                            \/ (HasDebug /\ c \in Hearing)]
      BY <2>2 DEF ReadDebug, SendDebug
    <3>2. UNCHANGED <<ringVars, conn, esp, lock, dev, clientVars, boardVars, sessVars>>
      BY <2>2 DEF ReadDebug
    <3> QED
      BY <3>1, <3>2
  <2> QED
    BY <2>1, <2>2
<1>2. UNCHANGED Counted /\ TypeOK' /\ KeepsNewest'
  BY <1>1, RingStays DEF ringVars, boardVars, Counted
<1>3. TelnetTypeOK'
  BY <1>1, <1>2 DEF TelnetTypeOK, clientVars, boardVars, sessVars
<1> QED
  BY <1>1, <1>2, <1>3, NumberedStays, PrivateStays, SentStays, SlotsApartStays
     DEF clientVars
-----------------------------------------------------------------------------
(* A session of the programmer. *)

LEMMA SessionKeeps ==
  ASSUME TelnetInv, SessionBegins \/ SessionEnds
  PROVE  TelnetInv'
<1> USE DEF TelnetInv
<1>1. /\ UNCHANGED <<ringVars, connVars, dbg, dev, clientVars, boardVars>>
      /\ lock' \in BOOLEAN /\ heard' = FALSE /\ mark' = -1 /\ taken' = <<>>
  BY DEF SessionBegins, SessionEnds
<1>2. UNCHANGED Counted /\ TypeOK' /\ KeepsNewest'
  BY <1>1, RingStays DEF ringVars, boardVars, Counted
<1>3. mark' \in -1 .. MaxSaid /\ ~(mark' >= 0) /\ taken' \in Seq(Chars)
  BY <1>1, TelnetAssumption
<1>4. TelnetTypeOK'
  BY <1>1, <1>2, <1>3 DEF TelnetTypeOK, connVars, clientVars, boardVars
<1>5. Private'
  BY <1>1, <1>3 DEF Private
<1> QED
  BY <1>1, <1>2, <1>4, <1>5, NumberedStays, SentStays, SlotsApartStays
     DEF clientVars, connVars

\* What the buffer remembers are the numbers after Gone.
LEMMA Remembers ==
  ASSUME TelnetInv
  PROVE  /\ said \in Nat /\ Gone \in Nat /\ Gone + Len(unread) = said
         /\ unread \in Seq(Nat) /\ \A k \in 1 .. Len(unread) : unread[k] = Gone + k
         /\ Remembered = (Gone + 1) .. said
<1> USE DEF TelnetInv
<1>1. unread \in Seq(Chars) /\ unread \in Seq(Nat) /\ Len(unread) \in Nat /\ said \in Nat
  BY TelnetAssumption DEF TelnetTypeOK, TypeOK
<1>2. Gone \in Nat /\ Gone + Len(unread) = said
  BY <1>1 DEF Numbered, Gone
<1>3. \A k \in 1 .. Len(unread) : unread[k] = Gone + k
  BY DEF Numbered
<1>4. Remembered \subseteq (Gone + 1) .. said
  <2> SUFFICES ASSUME NEW k \in 1 .. Len(unread)
               PROVE  unread[k] \in (Gone + 1) .. said
    BY <1>1 DEF Remembered
  <2> QED
    BY <1>1, <1>2, <1>3
<1>5. ASSUME NEW x \in (Gone + 1) .. said
      PROVE  x \in Remembered
  <2>1. x - Gone \in 1 .. Len(unread) /\ unread[x - Gone] = x
    BY <1>1, <1>2, <1>3
  <2> QED
    BY <1>1, <2>1 DEF Remembered
<1> QED
  BY <1>1, <1>2, <1>3, <1>4, <1>5

LEMMA CleansKeeps ==
  ASSUME TelnetInv, ProgrammerCleans
  PROVE  TelnetInv'
<1> USE DEF TelnetInv
<1>1. /\ CleanChars /\ lock /\ mark' = said /\ taken' = <<>>
      /\ kept' = kept \cup Remembered
      /\ UNCHANGED <<connVars, lock, dbg, dev, clientVars, said, forgotten, heard>>
  BY DEF ProgrammerCleans
<1>2. unread \in Seq(Chars) /\ Len(unread) \in Nat
  BY DEF TelnetTypeOK, TypeOK
<1>3. TypeOK' /\ KeepsNewest' /\ unread' = <<>>
  BY <1>1, UartRingAssumption DEF CleanChars, TelnetTypeOK, TypeOK, KeepsNewest, Cells
<1>4. Gone \in Nat /\ Gone + Len(unread) = said /\ forgotten \cup kept \subseteq 1 .. Gone
  BY <1>2, TelnetAssumption DEF Numbered, Gone, TelnetTypeOK
<1>5. Remembered = (Gone + 1) .. said
  BY Remembers
<1>6. kept' \subseteq 1 .. said /\ said \in 0 .. MaxSaid
  BY <1>1, <1>4, <1>5 DEF TelnetTypeOK
<1>7. Numbered' /\ Gone' = said
  BY <1>1, <1>3, <1>4, <1>6, EmptiedNumbered
<1>8. TelnetTypeOK'
  <2>1. kept' \subseteq Chars /\ mark' \in -1 .. MaxSaid
    BY <1>1, <1>6, TelnetAssumption
  <2> QED
    BY <1>1, <1>3, <2>1 DEF TelnetTypeOK, connVars, clientVars
<1>9. ASSUME NEW c \in Conns, esp[c] = "open", since[c] <= Gone, Followed(c)
      PROVE  Followed(c)'
  BY <1>1, <1>4, <1>5, <1>7, <1>9 DEF Followed, clientVars, TelnetTypeOK
<1>10. Sent'
  BY <1>1, <1>4, <1>7, <1>9 DEF Sent, HasSlot, connVars, clientVars, TelnetTypeOK
<1>11. Private'
  <2>1. Run1(said, said) = <<>>
    BY <1>6 DEF Run1
  <2> QED
    BY <1>1, <1>6, <1>7, <2>1 DEF Private
<1> QED
  BY <1>1, <1>3, <1>7, <1>8, <1>10, <1>11, SlotsApartStays DEF connVars, clientVars

LEMMA ReadsKeeps ==
  ASSUME TelnetInv, ProgrammerReads
  PROVE  TelnetInv'
<1> USE DEF TelnetInv
<1>1. /\ GetChar /\ lock /\ taken' = Append(taken, buf[0])
      /\ kept' = kept \cup {Head(unread)}
      /\ UNCHANGED <<connVars, lock, dbg, dev, clientVars, said, forgotten, mark, heard>>
  BY DEF ProgrammerReads
<1>2. TypeOK' /\ KeepsNewest'
  BY <1>1, GetKeeps DEF IInv, TelnetTypeOK
<1>3. /\ unread \in Seq(Chars) /\ unread # <<>> /\ unread' = Tail(unread)
      /\ buf[0] = unread[1]
  BY <1>1 DEF GetChar, TelnetTypeOK, TypeOK, KeepsNewest
<1>4. /\ Len(unread) \in Nat \ {0} /\ Len(unread') = Len(unread) - 1
      /\ \A k \in 1 .. Len(unread') : unread'[k] = unread[k + 1]
      /\ Head(unread) = unread[1]
  BY <1>3
<1>5. /\ Gone \in Nat /\ said \in 0 .. MaxSaid /\ Gone + Len(unread) = said
      /\ Gone' = Gone + 1
      /\ forgotten \cup kept \subseteq 1 .. Gone
  BY <1>1, <1>4, TelnetAssumption DEF Numbered, Gone, TelnetTypeOK
<1>6. /\ unread[1] = Gone + 1 /\ Gone + 1 \in Chars /\ kept' = kept \cup {Gone + 1}
      /\ taken' = Append(taken, Gone + 1)
  BY <1>1, <1>3, <1>4, <1>5, TelnetAssumption DEF Numbered
<1>7. Numbered'
  <2>1. ASSUME NEW k \in 1 .. Len(unread')
        PROVE  unread'[k] = Gone' + k
    <3>1. k + 1 \in 1 .. Len(unread)
      BY <1>4
    <3>2. unread[k + 1] = Gone + (k + 1)
      BY <3>1 DEF Numbered
    <3> QED
      BY <1>4, <1>5, <3>2
  <2> QED
    BY <1>1, <1>4, <1>5, <1>6, <2>1 DEF Numbered
<1>8. TelnetTypeOK'
  BY <1>1, <1>2, <1>6 DEF TelnetTypeOK, connVars, clientVars
<1>9. ASSUME NEW c \in Conns, esp[c] = "open", since[c] <= Gone, Followed(c)
      PROVE  Followed(c)'
  BY <1>1, <1>5, <1>6, <1>9 DEF Followed, clientVars, TelnetTypeOK
<1>10. Sent'
  BY <1>1, <1>5, <1>9 DEF Sent, HasSlot, connVars, clientVars, TelnetTypeOK
<1>11. Private'
  <2> SUFFICES ASSUME mark >= 0, \A k \in forgotten : k <= mark
               PROVE  /\ mark <= Gone'
                      /\ taken' = Run1(mark, Gone')
    BY <1>1, <1>5 DEF Private, TelnetTypeOK
  <2>1. mark <= Gone /\ taken = Run1(mark, Gone) /\ mark \in Nat
    BY <1>1 DEF Private, TelnetTypeOK
  <2>2. Append(Run1(mark, Gone), Gone + 1) = Run1(mark, Gone + 1)
    BY <1>5, <2>1 DEF Run1
  <2> QED
    BY <1>5, <1>6, <2>1, <2>2
<1> QED
  BY <1>1, <1>2, <1>7, <1>8, <1>10, <1>11, SlotsApartStays DEF connVars, clientVars

LEMMA ReadsNothingKeeps ==
  ASSUME TelnetInv, ProgrammerReadsNothing
  PROVE  TelnetInv'
<1> USE DEF TelnetInv
<1>1. /\ GetNothing
      /\ UNCHANGED <<connVars, lock, dbg, dev, clientVars, boardVars, sessVars>>
  BY DEF ProgrammerReadsNothing
<1>2. UNCHANGED Counted /\ TypeOK' /\ KeepsNewest'
  <2>1. UNCHANGED <<buf, pos, unread>> /\ rs' = <<>>
    BY <1>1 DEF GetNothing
  <2>2. UNCHANGED Counted
    BY <1>1, <2>1 DEF boardVars, Counted
  <2> QED
    BY <2>1, <2>2 DEF TelnetTypeOK, TypeOK, KeepsNewest
<1>3. TelnetTypeOK'
  BY <1>1, <1>2 DEF TelnetTypeOK, connVars, clientVars, boardVars, sessVars
<1> QED
  BY <1>1, <1>2, <1>3, NumberedStays, PrivateStays, SentStays, SlotsApartStays
     DEF clientVars, connVars
-----------------------------------------------------------------------------
(* Clients. *)

\* A client's step that is no restart leaves the buffer and the session.
OnlyClients ==
  UNCHANGED <<ringVars, lock, dbg, boardVars, mark, taken>> /\ dev' \in DevType

LEMMA ClientsLeave ==
  ASSUME TelnetInv, OnlyClients, heard' \in BOOLEAN, lock => heard' = heard
  PROVE  /\ UNCHANGED Counted
         /\ TypeOK' /\ KeepsNewest' /\ Numbered' /\ Private' /\ Gone' = Gone
<1> USE DEF TelnetInv, OnlyClients
<1>1. UNCHANGED Counted
  BY DEF ringVars, boardVars, Counted
<1>2. Private'
  BY <1>1 DEF Private, Counted, Gone, Run1
<1> QED
  BY <1>1, <1>2, RingStays, NumberedStays

\* A client's step that leaves connections as they are, too.
LEMMA ReceivedKeeps ==
  ASSUME TelnetInv, OnlyClients, heard' \in BOOLEAN, lock => heard' = heard,
         UNCHANGED <<conn, esp, clientVars>>, inflight' \in [Conns -> BOOLEAN]
  PROVE  TelnetInv'
<1> USE DEF TelnetInv
<1>1. /\ UNCHANGED Counted
      /\ TypeOK' /\ KeepsNewest' /\ Numbered' /\ Private'
  BY ClientsLeave
<1>2. TelnetTypeOK'
  BY <1>1 DEF TelnetTypeOK, OnlyClients, ringVars, boardVars, clientVars
<1> QED
  BY <1>1, <1>2, SentStays, SlotsApartStays DEF clientVars

LEMMA RecvKeeps ==
  ASSUME TelnetInv, NEW c \in Conns,
         \/ RecvData(c) \/ RecvLocked(c) \/ \E l \in Lines : RecvCommand(c, l)
         \/ ServerSentCb(c)
  PROVE  TelnetInv'
<1> USE DEF TelnetInv
<1>1. dev \in DevType /\ heard \in BOOLEAN /\ lock \in BOOLEAN
      /\ inflight \in [Conns -> BOOLEAN]
  BY DEF TelnetTypeOK
<1>2. CASE RecvData(c)
  <2>1. OnlyClients /\ UNCHANGED <<conn, esp, inflight, clientVars>> /\ ~lock
        /\ heard' = (heard \/ lock)
    BY <1>1, <1>2 DEF RecvData, ForBoard, OnlyClients, connVars
  <2> QED
    BY <1>1, <2>1, ReceivedKeeps
<1>3. ASSUME Reply(c)
      PROVE  inflight' \in [Conns -> BOOLEAN]
  <2>1. inflight' = [inflight EXCEPT ![c] = inflight[c] \/ esp[c] = "open"]
    BY <1>3 DEF Reply
  <2> QED
    BY <1>1, <2>1
<1>4. CASE RecvLocked(c)
  <2>1. OnlyClients /\ UNCHANGED <<conn, esp, heard, clientVars>> /\ Reply(c)
    BY <1>1, <1>4 DEF RecvLocked, OnlyClients, sessVars
  <2> QED
    BY <1>1, <1>3, <2>1, ReceivedKeeps
<1>5. ASSUME NEW l \in Lines, RecvCommand(c, l)
      PROVE  TelnetInv'
  <2>1. dev' \in DevType
    BY <1>1, <1>5, ParseDev, TelnetAssumption DEF RecvCommand
  <2>2. OnlyClients /\ UNCHANGED <<conn, esp, heard, clientVars>> /\ Reply(c)
    BY <1>5, <2>1 DEF RecvCommand, OnlyClients, sessVars
  <2> QED
    BY <1>1, <1>3, <2>2, ReceivedKeeps
<1>6. CASE ServerSentCb(c)
  <2>1. OnlyClients /\ UNCHANGED <<conn, esp, heard, clientVars>>
        /\ inflight' = [inflight EXCEPT ![c] = FALSE]
    BY <1>1, <1>6 DEF ServerSentCb, OnlyClients, sessVars
  <2> QED
    BY <1>1, <2>1, ReceivedKeeps
<1> QED
  BY <1>2, <1>4, <1>5, <1>6

LEMMA ConnectKeeps ==
  ASSUME TelnetInv, NEW c \in Conns, NEW i \in Slots, ServerConnectCb(i, c)
  PROVE  TelnetInv'
<1> USE DEF TelnetInv
<1>1. /\ esp[c] = "free" /\ esp' = [esp EXCEPT ![c] = "open"]
      /\ conn[i] = NULL /\ conn' = [conn EXCEPT ![i] = c]
      /\ since' = [since EXCEPT ![c] = IF unread = <<>> THEN said ELSE Head(unread) - 1]
      /\ dbg' = TRUE
      /\ UNCHANGED <<ringVars, inflight, lock, dev, got, missed, broke, boardVars, sessVars>>
  BY DEF ServerConnectCb
<1>2. /\ UNCHANGED Counted
      /\ TypeOK' /\ KeepsNewest' /\ Numbered' /\ Private' /\ Gone' = Gone
  <2>1. UNCHANGED Counted
    BY <1>1 DEF ringVars, boardVars, Counted
  <2> QED
    BY <1>1, <2>1, RingStays, NumberedStays, PrivateStays
<1>3. since'[c] = Gone /\ Gone \in 0 .. MaxSaid
  <2>1. unread \in Seq(Chars) /\ said \in 0 .. MaxSaid /\ since \in [Conns -> 0 .. MaxSaid]
    BY DEF TelnetTypeOK, TypeOK
  <2>2. Gone \in 0 .. MaxSaid
    BY <2>1, TelnetAssumption DEF Gone, Numbered
  <2>3. since'[c] = IF unread = <<>> THEN said ELSE Head(unread) - 1
    BY <1>1, <2>1
  <2>4. CASE unread = <<>>
    BY <2>1, <2>2, <2>3, <2>4 DEF Gone
  <2>5. CASE unread # <<>>
    <3>1. 1 \in 1 .. Len(unread) /\ Head(unread) = unread[1]
      BY <2>1, <2>5
    <3>2. unread[1] = Gone + 1
      BY <3>1 DEF Numbered
    <3> QED
      BY <2>2, <2>3, <2>5, <3>1, <3>2
  <2> QED
    BY <2>2, <2>4, <2>5
<1>4. TelnetTypeOK'
  <2>1. since' \in [Conns -> 0 .. MaxSaid]
    BY <1>1, <1>3 DEF TelnetTypeOK
  <2>2. conn' \in [Slots -> Conns \cup {NULL}]
        /\ esp' \in [Conns -> {"free", "open", "closing", "refused"}]
    BY <1>1 DEF TelnetTypeOK
  <2> QED
    BY <1>1, <1>2, <2>1, <2>2 DEF TelnetTypeOK, boardVars, sessVars
<1>5. Sent'
  <2>1. HasSlot(c)' /\ got'[c] = <<>> /\ c \in DOMAIN esp /\ esp'[c] = "open"
    BY <1>1 DEF HasSlot, Sent, TelnetTypeOK
  <2>2. Followed(c)'
    <3>1. Rising(got'[c]) /\ Range(got'[c]) = {}
      BY <2>1 DEF Rising, Range
    <3> QED
      BY <1>2, <1>3, <3>1 DEF Followed, Numbered
  <2>3. ASSUME NEW d \in Conns, d # c
        PROVE  /\ esp'[d] = "free" => got'[d] = <<>>
               /\ esp'[d] = "open" => /\ HasSlot(d)' /\ since'[d] <= Gone'
                                      /\ d \notin missed' => Followed(d)'
    <3>1. esp'[d] = esp[d] /\ since'[d] = since[d] /\ got'[d] = got[d] /\ missed' = missed
      BY <1>1, <2>3 DEF TelnetTypeOK
    <3>2. HasSlot(d) => HasSlot(d)'
      BY <1>1, TelnetAssumption DEF HasSlot, TelnetTypeOK
    <3> QED
      BY <1>2, <3>1, <3>2, ClientStays DEF Sent
  <2> QED
    BY <1>2, <1>3, <2>1, <2>2, <2>3 DEF Sent
<1>6. SlotsApart'
  BY <1>1, TelnetAssumption DEF SlotsApart, TelnetTypeOK
<1> QED
  BY <1>2, <1>4, <1>5, <1>6

\* A step of espconns: nobody becomes open, and whoever is open keeps its slot
\* and what it got.
LEMMA EndsKeep ==
  ASSUME TelnetInv, NEW c \in Conns,
         UNCHANGED <<ringVars, lock, dbg, dev, boardVars, sessVars>>,
         conn' \in [Slots -> Conns \cup {NULL}],
         inflight' \in [Conns -> BOOLEAN], broke' \in BOOLEAN,
         missed' \subseteq Conns, \A d \in Conns : d \in missed => d = c \/ d \in missed',
         \A d \in Conns \ {c} : /\ esp'[d] = esp[d] /\ got'[d] = got[d]
                                /\ since'[d] = since[d],
         esp' \in [Conns -> {"free", "open", "closing", "refused"}],
         got' \in [Conns -> Seq(Chars)], since' \in [Conns -> 0 .. MaxSaid],
         esp'[c] # "open", esp'[c] = "free" => got'[c] = <<>>,
         \A i \in Slots : esp'[conn[i]] = "open" => conn'[i] = conn[i],
         SlotsApart'
  PROVE  TelnetInv'
<1> USE DEF TelnetInv
<1>1. UNCHANGED Counted
  BY DEF ringVars, boardVars, Counted
<1>2. TypeOK' /\ KeepsNewest' /\ Numbered' /\ Private' /\ Gone' = Gone
  BY <1>1, RingStays, NumberedStays, PrivateStays
<1>3. TelnetTypeOK'
  BY <1>2 DEF TelnetTypeOK, boardVars, sessVars
<1>4. ASSUME NEW d \in Conns, d # c
      PROVE  /\ esp'[d] = "free" => got'[d] = <<>>
             /\ esp'[d] = "open" => /\ HasSlot(d)' /\ since'[d] <= Gone'
                                    /\ d \notin missed' => Followed(d)'
  <2>1. esp'[d] = esp[d] /\ since'[d] = since[d] /\ got'[d] = got[d]
    BY <1>4
  <2>2. esp'[d] = "open" /\ HasSlot(d) => HasSlot(d)'
    BY DEF HasSlot
  <2>3. d \notin missed' => d \notin missed
    BY <1>4
  <2> QED
    BY <1>1, <1>2, <2>1, <2>2, <2>3, ClientStays DEF Sent
<1>5. Sent'
  BY <1>4 DEF Sent
<1> QED
  BY <1>2, <1>3, <1>5

LEMMA ClosesKeep ==
  ASSUME TelnetInv, NEW c \in Conns, ServerConnectCbFull(c) \/ RemoteClose(c)
  PROVE  TelnetInv'
<1> USE DEF TelnetInv
<1>1. /\ UNCHANGED <<ringVars, conn, lock, dbg, dev, clientVars, boardVars, sessVars>>
      /\ \/ esp[c] = "free" /\ esp' = [esp EXCEPT ![c] = "refused"] /\ UNCHANGED inflight
         \/ esp[c] = "open" /\ esp' = [esp EXCEPT ![c] = "closing"]
            /\ inflight' = [inflight EXCEPT ![c] = FALSE]
  BY DEF ServerConnectCbFull, RemoteClose
<1>2. /\ esp' \in [Conns -> {"free", "open", "closing", "refused"}]
      /\ inflight' \in [Conns -> BOOLEAN]
      /\ \A d \in Conns \ {c} : esp'[d] = esp[d]
      /\ esp'[c] \in {"refused", "closing"}
  BY <1>1 DEF TelnetTypeOK
<1>3. SlotsApart'
  BY <1>1 DEF SlotsApart, TelnetTypeOK, clientVars
<1> QED
  BY <1>1, <1>2, <1>3, EndsKeep DEF TelnetTypeOK, clientVars

\* The SDK frees an espconn.
LEMMA FreedType ==
  ASSUME TelnetInv, NEW c \in Conns, Freed(c)
  PROVE  /\ esp' \in [Conns -> {"free", "open", "closing", "refused"}]
         /\ inflight' \in [Conns -> BOOLEAN]
         /\ since' \in [Conns -> 0 .. MaxSaid] /\ got' \in [Conns -> Seq(Chars)]
         /\ missed' \subseteq Conns /\ \A d \in Conns : d \in missed => d = c \/ d \in missed'
         /\ esp'[c] = "free" /\ got'[c] = <<>>
         /\ \A d \in Conns \ {c} : /\ esp'[d] = esp[d] /\ got'[d] = got[d]
                                   /\ since'[d] = since[d]
BY TelnetAssumption DEF TelnetInv, TelnetTypeOK, Freed

LEMMA DisconKeeps ==
  ASSUME TelnetInv, NEW c \in Conns, ServerDisconCb(c)
  PROVE  TelnetInv'
<1> USE DEF TelnetInv
<1>1. /\ esp[c] = "closing" /\ Freed(c)
      /\ UNCHANGED <<ringVars, lock, dbg, dev, broke, boardVars, sessVars>>
  BY DEF ServerDisconCb
<1>2. PICK g \in SUBSET Garbage :
        conn' = [i \in Slots |-> IF i \in Closed \cup g THEN NULL ELSE conn[i]]
  BY DEF ServerDisconCb
<1>3. conn' \in [Slots -> Conns \cup {NULL}]
  BY <1>2 DEF TelnetTypeOK
<1>4. ASSUME NEW i \in Slots, esp'[conn[i]] = "open"
      PROVE  conn'[i] = conn[i]
  <2>1. CASE conn[i] = NULL
    BY <1>2, <2>1
  <2>2. CASE conn[i] \in Conns
    <3>1. esp[conn[i]] = "open"
      BY <1>1, <1>4, <2>2, FreedType
    <3>2. i \notin Closed /\ i \notin Garbage
      BY <3>1 DEF Closed, Garbage
    <3> QED
      BY <1>2, <3>2
  <2> QED
    BY <2>1, <2>2 DEF TelnetTypeOK
<1>5. SlotsApart'
  <2> SUFFICES ASSUME ~broke
               PROVE  /\ \A i \in Slots : conn'[i] # NULL
                                            => esp'[conn'[i]] \in {"open", "closing"}
                      /\ \A i, j \in Slots : conn'[i] # NULL /\ conn'[i] = conn'[j] => i = j
    BY <1>1 DEF SlotsApart
  <2>1. ASSUME NEW i \in Slots, conn'[i] # NULL
        PROVE  conn'[i] = conn[i] /\ conn[i] \in Conns \ {c} /\ esp'[conn[i]] = esp[conn[i]]
    <3>1. conn'[i] = conn[i] /\ i \notin Closed
      BY <1>2, <2>1
    <3>2. conn[i] # c /\ conn[i] \in Conns
      BY <1>1, <2>1, <3>1 DEF Closed, TelnetTypeOK
    <3> QED
      BY <1>1, <3>1, <3>2, FreedType
  <2> QED
    BY <2>1 DEF SlotsApart
<1> QED
  BY <1>1, <1>3, <1>4, <1>5, FreedType, EndsKeep DEF TelnetTypeOK

LEMMA GoneKeeps ==
  ASSUME TelnetInv, NEW c \in Conns, RefusedGone(c) \/ ServerReconCb(c)
  PROVE  TelnetInv'
<1> USE DEF TelnetInv
<1>1. /\ UNCHANGED <<ringVars, conn, lock, dbg, dev, boardVars, sessVars>> /\ Freed(c)
      /\ broke' \in BOOLEAN
      /\ \/ esp[c] = "refused" /\ UNCHANGED broke
         \/ broke' = TRUE
  BY DEF RefusedGone, ServerReconCb, TelnetTypeOK
<1>2. SlotsApart'
  <2>1. CASE broke' = TRUE
    BY <2>1 DEF SlotsApart
  <2>2. CASE esp[c] = "refused" /\ UNCHANGED broke
    <3>1. ASSUME ~broke, NEW i \in Slots, conn[i] # NULL
          PROVE  esp'[conn[i]] = esp[conn[i]]
      <4>1. conn[i] \in Conns \ {c}
        BY <2>2, <3>1 DEF SlotsApart, TelnetTypeOK
      <4> QED
        BY <1>1, <4>1, FreedType
    <3> QED
      BY <1>1, <2>2, <3>1 DEF SlotsApart
  <2> QED
    BY <1>1, <2>1, <2>2
<1> QED
  BY <1>1, <1>2, FreedType, EndsKeep DEF TelnetTypeOK

LEMMA RestartKeeps ==
  ASSUME TelnetInv, NEW c \in Conns, NEW l \in Lines, RecvRestart(c, l)
  PROVE  TelnetInv'
<1> USE DEF TelnetInv
<1>1. /\ buf' = [k \in Cells |-> NUL] /\ pos' = 0 /\ rs' = <<>> /\ unread' = <<>>
      /\ conn' = [i \in Slots |-> NULL]
      /\ esp' = [d \in Conns |-> "free"] /\ inflight' = [d \in Conns |-> FALSE]
      /\ lock' = FALSE /\ dbg' = TRUE
      /\ since' = [d \in Conns |-> 0] /\ got' = [d \in Conns |-> <<>>] /\ missed' = {}
      /\ broke' = FALSE
      /\ forgotten' = {} /\ kept' = {} /\ UNCHANGED said
      /\ mark' = -1 /\ taken' = <<>> /\ heard' = FALSE
      /\ dev' = After(dev, l)
  BY DEF RecvRestart
<1>2. TypeOK' /\ KeepsNewest'
  BY <1>1, UartRingAssumption DEF TypeOK, KeepsNewest, Cells
<1>3. Numbered'
  BY <1>1, EmptiedNumbered
<1>4. dev' \in DevType
  BY <1>1, ParseDev, TelnetAssumption DEF TelnetTypeOK
<1>5. TelnetTypeOK'
  <2>1. {lock', dbg', broke', heard'} \subseteq BOOLEAN
    BY <1>1, Zenon
  <2>2. /\ esp' \in [Conns -> {"free", "open", "closing", "refused"}]
        /\ inflight' \in [Conns -> BOOLEAN] /\ conn' \in [Slots -> Conns \cup {NULL}]
    BY <1>1
  <2>3. /\ since' \in [Conns -> 0 .. MaxSaid] /\ got' \in [Conns -> Seq(Chars)]
        /\ said' \in 0 .. MaxSaid /\ mark' \in -1 .. MaxSaid /\ taken' \in Seq(Chars)
        /\ missed' \subseteq Conns /\ forgotten' \subseteq Chars /\ kept' \subseteq Chars
    BY <1>1, TelnetAssumption DEF TelnetTypeOK
  <2> QED
    BY <1>2, <1>4, <2>1, <2>2, <2>3 DEF TelnetTypeOK
<1>6. Sent' /\ Private' /\ SlotsApart'
  BY <1>1 DEF Sent, Private, SlotsApart
<1> QED
  BY <1>2, <1>3, <1>5, <1>6

\* The invariant of the bridge holds whatever read_uart, the espconn callbacks,
\* the command lines and the programmer do in between.
THEOREM TelnetInductive == TelnetSpec => []TelnetInv
<1>1. TelnetInit => TelnetInv
  <2> SUFFICES ASSUME TelnetInit PROVE TelnetInv
    OBVIOUS
  <2>1. TypeOK /\ KeepsNewest
    BY UartRingAssumption DEF TelnetInit, Init, TypeOK, KeepsNewest, Cells
  <2>2. dev \in DevType
    <3>1. <<NoNetwork, FALSE>> \in (Networks \cup {NoNetwork}) \X BOOLEAN
      OBVIOUS
    <3>2. 3 \in 0 .. 3 /\ FirstBaud \in 1 .. MaxBaud
      BY AtConfigAssumption
    <3>3. NewDevice \in DevType
      BY <3>1, <3>2, Zenon DEF NewDevice, DevType
    <3> QED
      BY <3>3 DEF TelnetInit
  <2>3. {lock, dbg, broke, heard} \subseteq BOOLEAN
    BY Zenon DEF TelnetInit
  <2>4. TelnetTypeOK
    BY <2>1, <2>2, <2>3, TelnetAssumption DEF TelnetInit, TelnetTypeOK
  <2>5. Numbered
    BY DEF TelnetInit, Init, Numbered, Gone
  <2>6. Sent /\ Private /\ SlotsApart
    BY DEF TelnetInit, Sent, Private, SlotsApart
  <2> QED
    BY <2>1, <2>4, <2>5, <2>6 DEF TelnetInv
<1>2. TelnetInv /\ [TelnetNext]_telnetVars => TelnetInv'
  <2> SUFFICES ASSUME TelnetInv, [TelnetNext]_telnetVars PROVE TelnetInv'
    OBVIOUS
  <2>1. CASE UNCHANGED telnetVars
    <3>1. /\ UNCHANGED <<ringVars, lock, dbg, dev, boardVars, mark, taken>>
          /\ UNCHANGED <<conn, esp, inflight, clientVars, heard>>
      BY <2>1 DEF telnetVars, connVars, sessVars
    <3> QED
      BY <3>1, ReceivedKeeps DEF OnlyClients, TelnetInv, TelnetTypeOK
  <2>2. CASE UartNext
    BY <2>2, BoardKeeps, DebugKeeps, ReadKeeps, SessionKeeps, CleansKeeps, ReadsKeeps,
       ReadsNothingKeeps DEF UartNext
  <2>3. ASSUME NEW c \in Conns, ClientNext(c)
        PROVE  TelnetInv'
    BY <2>3, ConnectKeeps, ClosesKeep, DisconKeeps, GoneKeeps, RecvKeeps, RestartKeeps
       DEF ClientNext
  <2> QED
    BY <2>1, <2>2, <2>3 DEF TelnetNext
<1> QED
  BY <1>1, <1>2, PTL DEF TelnetSpec
-----------------------------------------------------------------------------
(* What the runs check of the bridge. *)

\* Every variable of the bridge keeps its type; so the next character always has
\* a place in uart0_buf, whoever reads and cleans it.
THEOREM TelnetTypes == TelnetSpec => []TelnetTypeOK
BY TelnetInductive, PTL DEF TelnetInv

\* With the board, the timer and the programmer on it, uart0_buf holds the
\* newest characters nobody has taken, in order.
THEOREM TelnetKeepsNewest == TelnetSpec => []KeepsNewest
BY TelnetInductive, PTL DEF TelnetInv

\* uart0_get_char returns the oldest of them, in every step of the bridge.
THEOREM TelnetReadsOldest == TelnetSpec => ReadsOldest
<1>1. TelnetInv /\ [TelnetNext]_telnetVars
        => [(GetChar => rs' = <<Head(unread)>>) /\ (GetNothing => unread = <<>>)]_vars
  <2> SUFFICES ASSUME TelnetInv
               PROVE  (GetChar => rs' = <<Head(unread)>>) /\ (GetNothing => unread = <<>>)
    OBVIOUS
  <2>1. IInv
    BY DEF TelnetInv, TelnetTypeOK, IInv
  <2> QED
    BY <2>1, GetKeeps DEF GetNothing, IInv, TypeOK, KeepsNewest
<1> QED
  BY <1>1, TelnetInductive, PTL DEF TelnetSpec, ReadsOldest

\* While uart0 is locked no client's byte reaches the board, and what the board
\* said since the programmer cleaned uart0_buf is what it has read and what it
\* can still read: read_uart takes none of it.
THEOREM SessionIsPrivate == TelnetSpec => []SessionPrivate
<1>1. TelnetInv => SessionPrivate
  <2> SUFFICES ASSUME TelnetInv, lock
               PROVE  /\ ~heard
                      /\ mark >= 0 /\ (\A k \in forgotten : k <= mark)
                           => taken \o unread = Run1(mark, said)
    BY DEF SessionPrivate
  <2>1. ~heard
    BY DEF TelnetInv, Private
  <2>2. ASSUME mark >= 0, \A k \in forgotten : k <= mark
        PROVE  taken \o unread = Run1(mark, said)
    <3>1. /\ mark \in Nat /\ mark <= Gone /\ taken = Run1(mark, Gone)
          /\ taken \in Seq(Chars) /\ unread \in Seq(Chars)
      BY <2>2 DEF TelnetInv, Private, TelnetTypeOK, TypeOK
    <3>2. /\ said \in Nat /\ Gone \in Nat /\ Gone + Len(unread) = said
          /\ \A k \in 1 .. Len(unread) : unread[k] = Gone + k
      BY Remembers
    <3>3. Len(taken) = Gone - mark /\ \A k \in 1 .. Len(taken) : taken[k] = mark + k
      BY <3>1, <3>2 DEF Run1
    <3> DEFINE u == taken \o unread
    <3>4. /\ u \in Seq(Chars) /\ Len(u) = Len(taken) + Len(unread)
          /\ \A k \in 1 .. Len(taken) : u[k] = taken[k]
          /\ \A k \in 1 .. Len(unread) : u[Len(taken) + k] = unread[k]
      BY <3>1
    <3> HIDE DEF u
    <3>5. Len(u) = said - mark
      BY <3>1, <3>2, <3>3, <3>4
    <3>6. ASSUME NEW k \in 1 .. (said - mark)
          PROVE  u[k] = mark + k
      <4>1. CASE k <= Len(taken)
        BY <3>1, <3>2, <3>3, <3>4, <4>1
      <4>2. CASE k > Len(taken)
        <5>1. k - Len(taken) \in 1 .. Len(unread) /\ Len(taken) + (k - Len(taken)) = k
          BY <3>1, <3>2, <3>3, <4>2
        <5>2. u[k] = Gone + (k - Len(taken))
          BY <3>2, <3>4, <5>1
        <5> QED
          BY <3>1, <3>2, <3>3, <5>2
      <4>3. k <= Len(taken) \/ k > Len(taken)
        BY <3>1
      <4> QED
        BY <4>1, <4>2, <4>3
    <3>7. u = Run1(mark, said)
      BY <3>1, <3>2, <3>4, <3>5, <3>6 DEF Run1
    <3> QED
      BY <3>7 DEF u
  <2> QED
    BY <2>1, <2>2
<1> QED
  BY <1>1, TelnetInductive, PTL

\* The bridge is transparent: in order and once, a client that was never busy
\* has all the board said since it came, but for what the programmer took, the
\* full buffer forgot, and read_uart has still to send.
THEOREM BridgeIsTransparent == TelnetSpec => []Transparent
<1>1. TelnetInv => Transparent
  <2> SUFFICES ASSUME TelnetInv, NEW c \in Conns, esp[c] = "open", c \notin missed
               PROVE  /\ Rising(got[c])
                      /\ Range(got[c]) = ((since[c] + 1) .. said)
                                           \ (forgotten \cup kept \cup Remembered)
    BY DEF Transparent, Rising
  <2>1. Followed(c) /\ since[c] <= Gone /\ since[c] \in Nat
    BY TelnetAssumption DEF TelnetInv, Sent, TelnetTypeOK
  <2>2. ((since[c] + 1) .. said) \ Remembered = (since[c] + 1) .. Gone
    BY <2>1, Remembers
  <2> QED
    BY <2>1, <2>2 DEF Followed
<1> QED
  BY <1>1, TelnetInductive, PTL

\* However closes, refusals and new connections overlap, an open client has one
\* connData entry and one that is gone has none, as long as no connection breaks.
THEOREM ClientHasOneSlot == TelnetSpec => []OneSlotEach
<1>1. TelnetInv => OneSlotEach
  <2> SUFFICES ASSUME TelnetInv, ~broke, NEW c \in Conns
               PROVE  Cardinality({i \in Slots : conn[i] = c}) =
                        (IF esp[c] = "open" THEN 1
                         ELSE IF esp[c] = "closing" /\ HasSlot(c) THEN 1 ELSE 0)
    BY DEF OneSlotEach
  <2> DEFINE held == {i \in Slots : conn[i] = c}
  <2>1. c # NULL
    BY TelnetAssumption
  <2>2. esp[c] = "open" => HasSlot(c)
    BY DEF TelnetInv, Sent
  <2>3. CASE HasSlot(c)
    <3>1. PICK i \in Slots : conn[i] = c
      BY <2>3 DEF HasSlot
    <3>2. held = {i} /\ esp[c] \in {"open", "closing"}
      BY <2>1, <3>1 DEF TelnetInv, SlotsApart
    <3>3. Cardinality(held) = 1
      BY <3>2, FS_Singleton
    <3> QED
      BY <2>3, <3>2, <3>3
  <2>4. CASE ~HasSlot(c)
    <3>1. held = {}
      BY <2>4 DEF HasSlot
    <3>2. Cardinality(held) = 0
      BY <3>1, FS_EmptySet
    <3> QED
      BY <2>2, <2>4, <3>2
  <2> QED
    BY <2>3, <2>4
<1> QED
  BY <1>1, TelnetInductive, PTL
=============================================================================
