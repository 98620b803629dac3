------------------------------- MODULE Telnet ------------------------------
(***************************************************************************)
(* The telnet bridge of server.c over the receive buffer of uart0: what    *)
(* the board says goes to every client, and what a client says to the      *)
(* board, except while the programmer has uart0 to itself.  Lines that     *)
(* begin with +++AT are commands (AtConfig).                               *)
(*                                                                         *)
(* The board's characters are numbered in the order it says them.  A batch *)
(* that recvCharTaskCb adds in one task is a run of BoardSays.  A session  *)
(* of the programmer (Stk500) is what it does with the buffer: it cleans   *)
(* it and reads from it, while the lock is set.  The reset pulse and the   *)
(* pins are left to Stk500.  An espconn is external, as in Httpd.          *)
(***************************************************************************)
EXTENDS UartRing, AtConfig

CONSTANTS
  NSlots,      \* MAX_CONN
  Conns,       \* espconn control blocks the SDK hands out
  NULL,        \* no espconn
  Lines,       \* the command lines clients give
  MaxSaid      \* bound: characters the board says

Slots == 0 .. (NSlots - 1)

ASSUME TelnetAssumption ==
  /\ NSlots \in Nat \ {0}
  /\ NULL \notin Conns
  /\ Lines \subseteq LineType
  /\ MaxSaid \in Nat /\ Chars = 0 .. MaxSaid /\ NUL = 0

VARIABLES
  conn,        \* [Slots -> espconn or NULL]    connData[i].conn
  esp,         \* [Conns -> SDK state of the espconn]
  inflight,    \* [Conns -> an espconn_sent awaits its sent callback]
  lock,        \* uart0_lock # 0
  dbg,         \* uart1_buf is not empty
  dev,         \* the settings (AtConfig)
  said,        \* history: characters the board has said
  since,       \* history: [Conns -> the last one before what it is to get]
  got,         \* history: [Conns -> what it was sent of uart0]
  missed,      \* history: connections a send was dropped for, being busy
  forgotten,   \* history: characters the full buffer forgot
  kept,        \* history: characters the programmer read or cleaned
  mark, taken, \* history: the last one cleaned, -1 before that, and what the
               \* programmer has read since
  broke,       \* history: a connection was lost without a disconnect
  heard        \* history: a client's bytes reached the board in this session

ringVars   == <<buf, pos, rs, unread>>
connVars   == <<conn, esp, inflight>>
clientVars == <<since, got, missed, broke>>
boardVars  == <<said, forgotten, kept>>
sessVars   == <<mark, taken, heard>>
telnetVars == <<ringVars, connVars, lock, dbg, dev, clientVars, boardVars, sessVars>>

TelnetInit ==
  /\ Init
  /\ conn = [i \in Slots |-> NULL]
  /\ esp = [c \in Conns |-> "free"]
  /\ inflight = [c \in Conns |-> FALSE]
  /\ lock = FALSE /\ dbg = TRUE /\ dev = NewDevice
  /\ said = 0 /\ forgotten = {} /\ kept = {}
  /\ since = [c \in Conns |-> 0]
  /\ got = [c \in Conns |-> <<>>]
  /\ missed = {} /\ broke = FALSE
  /\ mark = -1 /\ taken = <<>> /\ heard = FALSE
-----------------------------------------------------------------------------
(* Connections. *)

\* serverFindConnData: callbacks of an espconn no slot points at return.
HasSlot(c) == \E i \in Slots : conn[i] = c

\* espconn_sent on c: nothing is sent on a connection that is not open, or
\* while a send is under way.
Reply(c) == inflight' = [inflight EXCEPT ![c] = @ \/ esp[c] = "open"]

\* serverConnectCb; what is still in the buffer is for the new client too.
ServerConnectCb(i, c) ==
  /\ esp[c] = "free" /\ esp' = [esp EXCEPT ![c] = "open"]
  /\ conn[i] = NULL /\ \A j \in Slots : j < i => conn[j] # NULL
  /\ conn' = [conn EXCEPT ![i] = c]
  /\ dbg' = TRUE
  /\ since' = [since EXCEPT ![c] = IF unread = <<>> THEN said ELSE Head(unread) - 1]
  /\ UNCHANGED <<ringVars, inflight, lock, dev, got, missed, broke, boardVars, sessVars>>

\* No slot is free: the connection is closed.
ServerConnectCbFull(c) ==
  /\ esp[c] = "free" /\ esp' = [esp EXCEPT ![c] = "refused"]
  /\ \A j \in Slots : conn[j] # NULL
  /\ UNCHANGED <<ringVars, conn, inflight, lock, dbg, dev, clientVars, boardVars,
                 sessVars>>

\* serverSentCb does nothing.
ServerSentCb(c) ==
  /\ inflight[c] /\ inflight' = [inflight EXCEPT ![c] = FALSE]
  /\ UNCHANGED <<ringVars, conn, esp, lock, dbg, dev, clientVars, boardVars, sessVars>>

\* The client closes the connection.
RemoteClose(c) ==
  /\ esp[c] = "open" /\ esp' = [esp EXCEPT ![c] = "closing"]
  /\ inflight' = [inflight EXCEPT ![c] = FALSE]
  /\ UNCHANGED <<ringVars, conn, lock, dbg, dev, clientVars, boardVars, sessVars>>

\* The SDK frees the espconn.
Freed(c) ==
  /\ esp' = [esp EXCEPT ![c] = "free"]
  /\ inflight' = [inflight EXCEPT ![c] = FALSE]
  /\ since' = [since EXCEPT ![c] = 0]
  /\ got' = [got EXCEPT ![c] = <<>>]
  /\ missed' = missed \ {c}

\* Variants: a closed connection is not recognised; every slot is killed.
ClosedMissed == {}
ClosedAll    == {i \in Slots : conn[i] # NULL}

\* The slots whose espconn's state reads ESPCONN_NONE or ESPCONN_CLOSE; one the
\* SDK has freed reads as anything.
Closed  == {i \in Slots : conn[i] # NULL /\ esp[conn[i]] = "closing"}
Garbage == {i \in Slots : conn[i] # NULL /\ esp[conn[i]] = "free"}

\* serverDisconCb: every slot is looked at.
ServerDisconCb(c) ==
  /\ esp[c] = "closing"
  /\ \E g \in SUBSET Garbage :
       conn' = [i \in Slots |-> IF i \in Closed \cup g THEN NULL ELSE conn[i]]
  /\ Freed(c)
  /\ UNCHANGED <<ringVars, lock, dbg, dev, broke, boardVars, sessVars>>

\* The SDK is done with a connection that was refused.
RefusedGone(c) ==
  /\ esp[c] = "refused"
  /\ Freed(c)
  /\ UNCHANGED <<ringVars, conn, lock, dbg, dev, broke, boardVars, sessVars>>

\* serverReconCb: the connection broke; the callback does nothing.
ServerReconCb(c) ==
  /\ esp[c] = "open"
  /\ Freed(c) /\ broke' = TRUE
  /\ UNCHANGED <<ringVars, conn, lock, dbg, dev, boardVars, sessVars>>
-----------------------------------------------------------------------------
(* serverRecvCb *)

Receives(c) == esp[c] = "open" /\ HasSlot(c)

\* Variant: the lock is not looked at.
ForBoardAlways == TRUE
ForBoard == ~lock

\* uart0_tx_buffer
RecvData(c) ==
  /\ Receives(c) /\ ForBoard
  /\ heard' = (heard \/ lock)
  /\ UNCHANGED <<ringVars, connVars, lock, dbg, dev, clientVars, boardVars, mark, taken>>

\* "LOCKED"
RecvLocked(c) ==
  /\ Receives(c) /\ ~ForBoard
  /\ Reply(c)
  /\ UNCHANGED <<ringVars, conn, esp, lock, dbg, dev, clientVars, boardVars, sessVars>>

\* A +++AT line whose command does not restart the device.  What some print is
\* a DebugOutput of its own.
RecvCommand(c, l) ==
  /\ Receives(c) /\ ~Parse(dev, l).restart
  /\ dev' = Parse(dev, l).dev
  /\ Reply(c)
  /\ UNCHANGED <<ringVars, conn, esp, lock, dbg, clientVars, boardVars, sessVars>>

\* One that does: everything in RAM starts again, and the board talks on.
RecvRestart(c, l) ==
  /\ Receives(c) /\ Parse(dev, l).restart
  /\ dev' = After(dev, l)
  /\ buf' = [k \in Cells |-> NUL] /\ pos' = 0 /\ rs' = <<>> /\ unread' = <<>>
  /\ conn' = [i \in Slots |-> NULL]
  /\ esp' = [d \in Conns |-> "free"] /\ inflight' = [d \in Conns |-> FALSE]
  /\ lock' = FALSE /\ dbg' = TRUE
  /\ since' = [d \in Conns |-> 0] /\ got' = [d \in Conns |-> <<>>] /\ missed' = {}
  /\ broke' = FALSE
  /\ forgotten' = {} /\ kept' = {} /\ UNCHANGED said
  /\ mark' = -1 /\ taken' = <<>> /\ heard' = FALSE
-----------------------------------------------------------------------------
(* uart0 and the timer. *)

\* recvCharTaskCb adds a character.
BoardSays ==
  /\ said < MaxSaid /\ said' = said + 1
  /\ AddChar(said + 1)
  /\ forgotten' = (IF Len(unread) = SIZE - 1 THEN forgotten \cup {Head(unread)}
                   ELSE forgotten)
  /\ UNCHANGED <<connVars, lock, dbg, dev, clientVars, kept, sessVars>>

\* os_printf: uart1_write_char adds to uart1_buf.
DebugOutput ==
  /\ ~dbg /\ dbg' = TRUE
  /\ UNCHANGED <<ringVars, connVars, lock, dev, clientVars, boardVars, sessVars>>

\* What pos calls of uart0_get_char return, and leave.
Text == [k \in 1 .. pos |-> buf[k - 1]]
Drain ==
  /\ buf' = [k \in Cells |-> IF k + pos < SIZE THEN buf[k + pos] ELSE buf[SIZE - 1]]
  /\ pos' = 0 /\ unread' = <<>>
  /\ rs' = (IF pos = 0 THEN rs ELSE <<buf[pos - 1]>>)

Hearing == {c \in Conns : Receives(c)}
Busy    == {c \in Conns : inflight[c]}

\* Variants: the first slot that takes it gets it; the timer reads on while
\* uart0 is locked.
ListenersFirst(cs) == {c \in cs : conn[0] = c}
UnlockedAlways == TRUE

\* Every slot in use.
Listeners(cs) == cs
Unlocked == ~lock

\* The debug output is sent after uart0's, and dropped when that was sent.
HasDebug == dev.debug /\ dbg
SendDebug(told) ==
  /\ dbg' = (dbg /\ ~HasDebug)
  /\ inflight' = [c \in Conns |-> inflight[c] \/ c \in told
                                    \/ (HasDebug /\ c \in Hearing)]

\* read_uart, every 10 ms: uart0's characters go to every client that is not
\* busy; for the others they are lost.
ReadUart ==
  LET to == Listeners(Hearing) IN
  /\ Unlocked /\ pos > 0
  /\ Drain
  /\ got' = [c \in Conns |-> IF c \in to \ (Busy \cup missed) THEN got[c] \o Text
                             ELSE IF c \in Hearing \cap Busy THEN <<>> ELSE got[c]]
  /\ missed' = missed \cup (Hearing \cap Busy)
  /\ SendDebug(to)
  /\ UNCHANGED <<conn, esp, lock, dev, since, broke, boardVars, sessVars>>

\* There is nothing from uart0, or it is locked.
ReadDebug ==
  /\ ~Unlocked \/ pos = 0
  /\ HasDebug
  /\ SendDebug({})
  /\ UNCHANGED <<ringVars, conn, esp, lock, dev, clientVars, boardVars, sessVars>>
-----------------------------------------------------------------------------
(* A session of the programmer, as Stk500 has it. *)

SessionBegins ==
  /\ lock' = TRUE
  /\ mark' = -1 /\ taken' = <<>> /\ heard' = FALSE
  /\ UNCHANGED <<ringVars, connVars, dbg, dev, clientVars, boardVars>>

SessionEnds ==
  /\ lock /\ lock' = FALSE
  /\ mark' = -1 /\ taken' = <<>> /\ heard' = FALSE
  /\ UNCHANGED <<ringVars, connVars, dbg, dev, clientVars, boardVars>>

Remembered == {unread[k] : k \in DOMAIN unread}

ProgrammerCleans ==
  /\ lock /\ CleanChars
  /\ mark' = said /\ taken' = <<>>
  /\ kept' = kept \cup Remembered
  /\ UNCHANGED <<connVars, lock, dbg, dev, clientVars, said, forgotten, heard>>

ProgrammerReads ==
  /\ lock /\ GetChar
  /\ taken' = Append(taken, buf[0])
  /\ kept' = kept \cup {Head(unread)}
  /\ UNCHANGED <<connVars, lock, dbg, dev, clientVars, said, forgotten, mark, heard>>

\* It reads more than there is.
ProgrammerReadsNothing ==
  /\ lock /\ GetNothing
  /\ UNCHANGED <<connVars, lock, dbg, dev, clientVars, boardVars, sessVars>>
-----------------------------------------------------------------------------
ClientNext(c) ==
  \/ \E i \in Slots : ServerConnectCb(i, c)
  \/ ServerConnectCbFull(c) \/ RefusedGone(c)
  \/ ServerSentCb(c)
  \/ RemoteClose(c) \/ ServerDisconCb(c) \/ ServerReconCb(c)
  \/ RecvData(c) \/ RecvLocked(c)
  \/ \E l \in Lines : RecvCommand(c, l) \/ RecvRestart(c, l)

UartNext ==
  \/ BoardSays \/ DebugOutput \/ ReadUart \/ ReadDebug
  \/ SessionBegins \/ SessionEnds
  \/ ProgrammerCleans \/ ProgrammerReads \/ ProgrammerReadsNothing

TelnetNext == UartNext \/ \E c \in Conns : ClientNext(c)

TelnetSpec == TelnetInit /\ [][TelnetNext]_telnetVars
-----------------------------------------------------------------------------
(* Properties *)

TelnetTypeOK ==
  /\ TypeOK
  /\ conn \in [Slots -> Conns \cup {NULL}]
  /\ esp \in [Conns -> {"free", "open", "closing", "refused"}]
  /\ inflight \in [Conns -> BOOLEAN]
  /\ {lock, dbg, broke, heard} \subseteq BOOLEAN
  /\ dev \in DevType
  /\ said \in 0 .. MaxSaid /\ mark \in -1 .. MaxSaid /\ taken \in Seq(Chars)
  /\ since \in [Conns -> 0 .. MaxSaid] /\ got \in [Conns -> Seq(Chars)]
  /\ missed \subseteq Conns /\ forgotten \subseteq Chars /\ kept \subseteq Chars

\* The numbers from m + 1 to n, in order.
Run1(m, n) == [k \in 1 .. (n - m) |-> m + k]

\* While the programmer has uart0 the line is its own: nothing of a client's
\* reaches the board, and what the board has said since the programmer cleaned
\* the buffer is what it has read and what it can still read, in order; the
\* timer of the bridge, which drains the same buffer, takes none of it.
SessionPrivate ==
  lock =>
    /\ ~heard
    /\ mark >= 0 /\ (\A k \in forgotten : k <= mark)
         => taken \o unread = Run1(mark, said)

\* The bridge is transparent: a client that was never busy when the timer fired
\* has got, once and in order, everything the board said since it came, but for
\* what the programmer took, a full buffer forgot, or is still to be read.
Transparent ==
  \A c \in Conns :
    esp[c] = "open" /\ c \notin missed =>
      /\ \A j, k \in DOMAIN got[c] : j < k => got[c][j] < got[c][k]
      /\ Range(got[c]) = ((since[c] + 1) .. said) \ (forgotten \cup kept \cup Remembered)

\* A client of the bridge has one slot until its connection is over, however
\* closes and new connections overlap; then none is left behind.  A connection
\* that breaks leaves its slot taken.
OneSlotEach ==
  ~broke =>
    \A c \in Conns :
      Cardinality({i \in Slots : conn[i] = c}) =
        (IF esp[c] = "open" THEN 1
         ELSE IF esp[c] = "closing" /\ HasSlot(c) THEN 1 ELSE 0)
=============================================================================
