------------------------------ MODULE UartRing -----------------------------
(***************************************************************************)
(* The receive buffer of driver/uart.c (uart0_buf; uart1_buf, which keeps  *)
(* the debug output, has the same code): an array whose first pos bytes    *)
(* are unread, moved down by one when a byte is read and when it is full.  *)
(* The buffer is filled by a task and read by timers and handlers, and     *)
(* tasks do not preempt each other, so every operation is one step.        *)
(***************************************************************************)
EXTENDS Integers, Sequences

CONSTANTS
  SIZE,      \* UART0_BUF_SIZE (512)
  Chars,
  NUL        \* what the array holds at first

ASSUME UartRingAssumption == SIZE \in Nat /\ SIZE > 1 /\ NUL \in Chars

VARIABLES
  buf,       \* [0 .. SIZE-1 -> Chars]
  pos,       \* uart0_buf_pos
  rs,        \* what uart0_get_char returned last (<<>> for its -1)
  unread     \* history: what was added and neither read, forgotten nor cleaned

vars == <<buf, pos, rs, unread>>

Cells == 0 .. (SIZE - 1)

\* What the buffer promises: the newest SIZE-1 characters.
Put(q, c) == IF Len(q) = SIZE - 1 THEN Append(Tail(q), c) ELSE Append(q, c)

Init ==
  /\ buf = [k \in Cells |-> NUL]
  /\ pos = 0 /\ rs = <<>> /\ unread = <<>>
-----------------------------------------------------------------------------
\* memmove(buf, buf+1, SIZE-1)
MoveDown(b) == [k \in Cells |-> IF k < SIZE - 1 THEN b[k + 1] ELSE b[k]]

\* Variants: a full buffer drops the character just added; it is not noticed
\* until the next character has no room.
FullKeepsOldest(p, b) == buf' = b /\ pos' = (IF p >= SIZE THEN SIZE - 1 ELSE p)
FullTooLate(p, b)     ==
  IF p > SIZE THEN pos' = SIZE - 1 /\ buf' = MoveDown(b) ELSE pos' = p /\ buf' = b

\* When the buffer is full the oldest character is forgotten.
Full(p, b) ==
  IF p >= SIZE THEN pos' = SIZE - 1 /\ buf' = MoveDown(b)
               ELSE pos' = p /\ buf' = b

AddChar(c) ==
  /\ Full(pos + 1, [buf EXCEPT ![pos] = c])
  /\ unread' = Put(unread, c)
  /\ UNCHANGED rs

\* Variant: the array stays where it is.
ShiftNothing == buf' = buf /\ pos' = pos - 1
Shift == buf' = MoveDown(buf) /\ pos' = pos - 1

GetChar ==
  /\ pos > 0
  /\ rs' = <<buf[0]>>
  /\ Shift
  /\ unread' = Tail(unread)

GetNothing ==
  /\ pos = 0
  /\ rs' = <<>>
  /\ UNCHANGED <<buf, pos, unread>>

CleanChars ==
  /\ pos' = 0 /\ unread' = <<>>
  /\ UNCHANGED <<buf, rs>>

Next ==
  \/ \E c \in Chars : AddChar(c)
  \/ GetChar
  \/ GetNothing
  \/ CleanChars

Spec == Init /\ [][Next]_vars
-----------------------------------------------------------------------------
(* Properties *)

\* The next character to arrive always has a place in the array.
TypeOK ==
  /\ buf \in [Cells -> Chars]
  /\ pos \in Cells
  /\ rs \in Seq(Chars)
  /\ unread \in Seq(Chars)

\* The buffer holds the characters not read yet, oldest first; when there were
\* more than it has room for, the oldest are gone.
KeepsNewest ==
  /\ pos = Len(unread)
  /\ \A k \in 1 .. pos : buf[k - 1] = unread[k]

\* A read returns the oldest character not read yet, and -1 only when there is
\* none.
ReadsOldest ==
  [][(GetChar => rs' = <<Head(unread)>>) /\ (GetNothing => unread = <<>>)]_vars
=============================================================================
