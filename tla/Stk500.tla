------------------------------- MODULE Stk500 ------------------------------
(***************************************************************************)
(* The Arduino programmer of stk500.c: a 100 ms timer that walks an        *)
(* STK500 bootloader through stages 0 .. 11, reading the posted hex file   *)
(* from the POST store through its own saved copy of the store's cursor.   *)
(* Between two ticks anything else of the firmware may run: bytes arrive   *)
(* (driver/uart.c), the reset pulse ends, requests are handled.            *)
(*                                                                         *)
(* The store is modelled in lines: a position counts the lines before it.  *)
(* The bootloader is external: it answers a command, or does not.          *)
(***************************************************************************)
EXTENDS Integers, Sequences

CONSTANTS
  Bytes,        \* the values a byte may have; "FF" is that of erased flash
  Files,        \* the hex files that may be posted
  PAGE_SIZE,    \* bytes in a page
  TICK_MAX,     \* ticks without progress before the timeout
  SYNC_STEP,    \* ticks between two attempts to sync
  SyncTries,    \* further attempts (5 in the code)
  Replies,      \* how the bootloader may answer: subset of {"ok", "bad", "none"}
  Mishaps,      \* what may get in the way of a session (see mishaps)
  MaxSessions,  \* bound: calls of program()
  MaxReads,     \* bound: times another handler reads the store
  FlashCap      \* bound: bytes of Arduino flash modelled

\* An answer is still under way when the timer fires; a file is posted while one
\* is being programmed; a session begins with part of a line left in cline; a
\* POST to another url, or one given up, erases the store; another handler
\* reads the store before the programmer has a cursor of its own.
AllMishaps == {"late", "overlap", "leftover", "erased", "reader"}

\* A line of the store: a data record has an address and its values; any other
\* record, or a line that is no record, has none.
Line == {l \in [data: BOOLEAN, addr: Nat, vals: Seq(Bytes)] : l.data => l.vals # <<>>}

ASSUME Stk500Assumption ==
  /\ "FF" \in Bytes
  /\ Files \subseteq Seq(Line)
  /\ PAGE_SIZE \in Nat \ {0}
  /\ TICK_MAX \in Nat /\ SYNC_STEP \in Nat \ {0} /\ SyncTries \in Nat
  /\ Replies \subseteq {"ok", "bad", "none"}
  /\ Mishaps \subseteq AllMishaps
  /\ MaxSessions \in Nat /\ MaxReads \in Nat /\ FlashCap \in Nat

VARIABLES
  stage, tick, err, descr,  \* stk_stage, stk_tick, stk_error, stk_error_descr
  syncCnt, address,         \* statics of runProgrammer
  fposStart, fsize, fcur,   \* fpos_start, fsize, fcur_pos
  cline,                    \* the values of cline not yet read
  armed,                    \* delayTimer is armed
  isPrim, primary,          \* is_prim, _uart0_primary
  lock,                     \* uart0_lock # 0
  resetLow,                 \* GPIO 4 is low and resetTimer is armed
  ring, wire,               \* uart0_buf; answers under way on the serial line
  lines, cpos,              \* the POST store and its cursor ff_cpos
  flash, loaded,            \* the Arduino's flash; the address loaded last
  file, sessions, bad,      \* history: file being programmed, calls of
                            \* program(), a bad answer was sent to this session
  reads,                    \* history: reads by other handlers
  mishaps                   \* history: those this session met; an overlap in
                            \* any session before counts

progVars  == <<stage, tick, err, descr, syncCnt, address>>
fileVars  == <<fposStart, fsize, fcur, cline>>
pinVars   == <<armed, isPrim, primary, lock, resetLow>>
lineVars  == <<ring, wire>>
storeVars == <<lines, cpos>>
devVars   == <<flash, loaded>>
histVars  == <<file, sessions, bad, reads>>
vars == <<progVars, fileVars, pinVars, lineVars, storeVars, devVars, histVars,
          mishaps>>

Init ==
  /\ stage = 0 /\ tick = 0 /\ err = FALSE /\ descr = "none"
  /\ syncCnt = 0 /\ address = -1
  /\ fposStart = -1 /\ fsize = -1 /\ fcur = -1 /\ cline = <<>>
  /\ armed = FALSE /\ isPrim = TRUE /\ primary = TRUE /\ lock = FALSE
  /\ resetLow = FALSE
  /\ ring = <<>> /\ wire = <<>>
  /\ lines = <<>> /\ cpos = 0
  /\ flash = [a \in 0 .. (FlashCap - 1) |-> "FF"] /\ loaded = 0
  /\ file = <<>> /\ sessions = 0 /\ bad = FALSE /\ reads = 0
  /\ mishaps = {}
-----------------------------------------------------------------------------
(* The store (mmem.c), in lines. *)

Csize == Len(lines)

\* Variant: an empty store is not told apart.
SeekNoFloor(pos) == IF pos < Csize THEN pos ELSE Csize - 1

\* ff_seek
Seek(pos) ==
  IF pos < Csize THEN (IF pos < 0 THEN 0 ELSE pos)
  ELSE IF Csize = 0 THEN 0 ELSE Csize - 1

\* The cursor runProgrammer works with: its saved one, once it has one.
Enter == IF fcur >= 0 THEN Seek(fcur) ELSE cpos

\* On the way out the cursor found is put back and the programmer's is saved,
\* if fpos >= 0; fpos is uninitialised while there is no saved cursor.
Leave(cursor) ==
  \E fpos \in (IF fcur >= 0 THEN {cpos} ELSE {-1} \cup 0 .. Csize) :
    /\ cpos' = (IF fpos >= 0 THEN Seek(fpos) ELSE cursor)
    /\ fcur' = (IF fpos >= 0 THEN cursor ELSE fcur)

\* read_next_byte on s = [pos, rest, out]: pos the cursor, rest what is left of
\* cline.  A line that is no data record yields nothing (written as 0xFF), and
\* the next call reads the line after it.
ReadNextByte(s) ==
  LET fetch == s.rest = <<>> /\ s.pos - fposStart < fsize /\ s.pos < Csize
      line  == lines[s.pos + 1]
      rest  == IF ~fetch THEN s.rest
               ELSE IF line.data THEN line.vals ELSE <<>>
      pos   == IF fetch THEN s.pos + 1 ELSE s.pos
  IN IF rest = <<>>
     THEN [pos |-> pos, rest |-> rest, out |-> Append(s.out, "FF"), end |-> TRUE]
     ELSE [pos |-> pos, rest |-> Tail(rest), out |-> Append(s.out, Head(rest)),
           end |-> FALSE]

\* Variant: what is left of the line is dropped between pages.
PageDropsRest(cursor) ==
  LET fill[i \in 0 .. PAGE_SIZE] ==
        IF i = 0 THEN [pos |-> cursor, rest |-> <<>>, out |-> <<>>, end |-> TRUE]
                 ELSE ReadNextByte(fill[i - 1])
  IN fill[PAGE_SIZE]

\* The page that stage 7 sends, read from the given cursor.
Page(cursor) ==
  LET fill[i \in 0 .. PAGE_SIZE] ==
        IF i = 0 THEN [pos |-> cursor, rest |-> cline, out |-> <<>>, end |-> TRUE]
                 ELSE ReadNextByte(fill[i - 1])
  IN fill[PAGE_SIZE]
-----------------------------------------------------------------------------
(* The serial line.  "I" is STK_INSYNC, "O" STK_OK, "V" a value. *)

AnswerTo(cmd) ==
  CASE cmd = "param"     -> <<"I", "V", "O">>
    [] cmd = "signature" -> <<"I", "V", "V", "V", "O">>
    [] OTHER             -> <<"I", "O">>

\* A command is sent; a board held in reset does not answer.
Send(cmd) ==
  \E r \in Replies :
    /\ resetLow => r = "none"
    /\ wire' = (CASE r = "ok"  -> wire \o AnswerTo(cmd)
                  [] r = "bad" -> wire \o <<"X", "O">>
                  [] OTHER     -> wire)
    /\ bad' = (bad \/ r = "bad")

\* The bootloader programs a page at the (word) address loaded last.
ProgramPage(page) ==
  flash' = [a \in DOMAIN flash |->
              IF a >= 2 * loaded /\ a < 2 * loaded + PAGE_SIZE
              THEN page[a - 2 * loaded + 1] ELSE flash[a]]

\* recvCharTaskCb: n bytes move to uart0_buf.
RecvCharTask(n) ==
  /\ n <= Len(wire)
  /\ ring' = ring \o SubSeq(wire, 1, n)
  /\ wire' = SubSeq(wire, n + 1, Len(wire))
  /\ UNCHANGED <<progVars, fileVars, pinVars, storeVars, devVars, histVars, mishaps>>
-----------------------------------------------------------------------------
(* runProgrammer *)

\* Variants: the lock stays; the pins stay.
StopTickingKeepsLock ==
  /\ armed' = FALSE
  /\ primary' = (primary \/ isPrim)
  /\ fposStart' = -1 /\ fsize' = -1
  /\ UNCHANGED <<isPrim, lock>>
StopTickingKeepsPins ==
  /\ armed' = FALSE /\ lock' = FALSE
  /\ fposStart' = -1 /\ fsize' = -1
  /\ UNCHANGED <<isPrim, primary>>

\* stop_ticking (fcur_pos apart: see Leave and Fail).
StopTicking ==
  /\ armed' = FALSE /\ lock' = FALSE
  /\ primary' = (primary \/ isPrim)
  /\ fposStart' = -1 /\ fsize' = -1
  /\ UNCHANGED isPrim

\* The bytes a stage waits for before it reads its answer, and how many it
\* reads then.
TakeTwo(s) == CASE s = 5 -> 5 [] OTHER -> 2   \* variant
Need(s) == CASE s \in {2, 3, 5} -> 3 [] OTHER -> 2
Take(s) == CASE s = 5 -> 5 [] s \in {2, 3} -> 3 [] OTHER -> 2

Waits    == {1, 2, 3, 4, 5, 7, 8, 9, 10}
Answered == stage \in Waits /\ Len(ring) >= Need(stage)

\* uart0_get_char k times; it returns -1 when nothing is left.
GetChar(k) == IF k <= Len(ring) THEN ring[k] ELSE "none"
InSync     == GetChar(1) = "I" /\ GetChar(Take(stage)) = "O"
Consumed   == SubSeq(ring, Take(stage) + 1, Len(ring))

\* The timer fires.
Meets(what) == what \subseteq Mishaps /\ mishaps' = mishaps \cup what

Fires == armed /\ Meets(IF wire = <<>> THEN {} ELSE {"late"})

\* In time.
Ticks == Fires /\ tick + 1 <= TICK_MAX

CountTickReset == tick' = 0   \* variant
CountTick == tick' = tick + 1

\* Variant: the error is not recorded.
FailSilently(why) ==
  /\ UNCHANGED <<err, descr>> /\ CountTick
  /\ StopTicking
  /\ fcur' = -1
  /\ UNCHANGED <<stage, syncCnt, address, cline, resetLow, wire, lines,
                 devVars, histVars>>

\* An error stops the session.
Fail(why) ==
  /\ err' = TRUE /\ descr' = why /\ CountTick
  /\ StopTicking
  /\ fcur' = -1
  /\ UNCHANGED <<stage, syncCnt, address, cline, resetLow, wire, lines,
                 devVars, histVars>>

\* The cursor on an error: put back as Leave does, before it is forgotten.
Forget ==
  \E fpos \in (IF fcur >= 0 THEN {cpos} ELSE {-1} \cup 0 .. Csize) :
    cpos' = IF fpos >= 0 THEN Seek(fpos) ELSE Enter

TimeOut ==
  /\ Fires
  /\ tick + 1 > TICK_MAX
  /\ Fail("stk_timeout") /\ UNCHANGED <<ring, cpos>>

OutOfSync ==
  /\ Ticks /\ Answered /\ ~InSync
  /\ ring' = Consumed
  /\ Fail("OUT_of_sync") /\ Forget

NotConnected ==
  /\ Ticks /\ stage = 1 /\ ~Answered
  /\ (tick + 1) % SYNC_STEP = 0 /\ syncCnt >= SyncTries
  /\ Fail("not_connected") /\ Forget /\ UNCHANGED ring

\* What every other tick leaves alone.
GoesOn == UNCHANGED <<err, descr, fposStart, fsize, armed, isPrim, primary,
                      lock, resetLow, lines, file, sessions, reads>>

NothingYet ==
  /\ Ticks /\ GoesOn
  /\ stage \in Waits /\ ~Answered
  /\ stage = 1 => (tick + 1) % SYNC_STEP # 0
  /\ CountTick
  /\ Leave(Enter)
  /\ UNCHANGED <<stage, syncCnt, address, cline, lineVars, devVars, bad>>

\* Stage 0, and a further attempt in stage 1.
Sync ==
  /\ Ticks /\ GoesOn
  /\ \/ stage = 0 /\ syncCnt' = 0 /\ tick' = 0
     \/ /\ stage = 1 /\ ~Answered
        /\ (tick + 1) % SYNC_STEP = 0 /\ syncCnt < SyncTries
        /\ syncCnt' = syncCnt + 1 /\ CountTick
  /\ stage' = 1
  /\ ring' = <<>>
  /\ Send("sync")
  /\ Leave(Enter)
  /\ UNCHANGED <<address, cline, devVars>>

\* The answer awaited is in sync: go to stage s.
Advance(s) ==
  /\ Ticks /\ Answered /\ InSync
  /\ stage' = s
  /\ ring' = Consumed
  /\ UNCHANGED syncCnt

GetVersion ==
  /\ stage \in {1, 2} /\ Advance(stage + 1) /\ GoesOn /\ tick' = 0
  /\ Send("param") /\ Leave(Enter)
  /\ UNCHANGED <<address, cline, devVars>>

EnterProgMode ==
  /\ stage = 3 /\ Advance(4) /\ GoesOn /\ tick' = 0
  /\ address' = -1
  /\ Send("prog_mode") /\ Leave(Seek(fposStart))
  /\ UNCHANGED <<cline, devVars>>

\* The tick count goes on from stage 4 into stage 5.
AskSignature ==
  /\ stage = 4 /\ Advance(5) /\ GoesOn /\ CountTick
  /\ Send("signature") /\ Leave(Enter)
  /\ UNCHANGED <<address, cline, devVars>>

GotSignature ==
  /\ stage = 5 /\ Advance(6) /\ GoesOn /\ tick' = 0
  /\ address' = 0
  /\ Leave(Enter)
  /\ UNCHANGED <<wire, bad, cline, devVars>>

PageWords == PAGE_SIZE \div 2

\* Stage 6 never sees an address below 0: stage 5 has set it.
LoadAddress ==
  /\ Ticks /\ GoesOn
  /\ stage = 6 /\ stage' = 7 /\ tick' = 0
  /\ address' = address + PageWords
  /\ loaded' = address
  /\ Send("load_address") /\ Leave(Enter)
  /\ UNCHANGED <<syncCnt, ring, cline, flash>>

\* A page is sent; when its last byte is past the data the file is done.
SendPage ==
  LET page == Page(Enter) IN
  /\ stage = 7 /\ Advance(IF page.end THEN 9 ELSE 8) /\ GoesOn /\ tick' = 0
  /\ cline' = page.rest
  /\ ProgramPage(page.out)
  /\ Send("program_page") /\ Leave(page.pos)
  /\ UNCHANGED <<address, loaded>>

PageDone ==
  /\ stage = 8 /\ Advance(6) /\ GoesOn /\ tick' = 0
  /\ Leave(Enter)
  /\ UNCHANGED <<wire, bad, address, cline, devVars>>

LeaveProgMode ==
  /\ stage = 9 /\ Advance(10) /\ GoesOn /\ tick' = 0
  /\ Send("leave") /\ Leave(Enter)
  /\ UNCHANGED <<address, cline, devVars>>

\* stop_ticking and reset_arduino; the cursor is saved after that.
Finish ==
  /\ stage = 10 /\ Advance(11) /\ CountTick
  /\ StopTicking
  /\ resetLow' = TRUE
  /\ Leave(Enter)
  /\ UNCHANGED <<err, descr, wire, bad, address, cline, lines, file, sessions,
                 reads, devVars>>
-----------------------------------------------------------------------------
(* What happens between the ticks. *)

\* stopReset: 500 ms after reset_arduino.
StopReset ==
  /\ resetLow /\ resetLow' = FALSE
  /\ UNCHANGED <<progVars, fileVars, armed, isPrim, primary, lock, lineVars,
                 storeVars, devVars, histVars, mishaps>>

\* program(): the whole file has been posted after one line of multipart header
\* and cgiProgram has found it; its search leaves the cursor anywhere.
Program(f) ==
  /\ sessions < MaxSessions /\ sessions' = sessions + 1
  /\ LET met == (IF armed THEN {"overlap"} ELSE {})
               \cup (IF cline # <<>> THEN {"leftover"} ELSE {})
     IN /\ met \subseteq Mishaps
        /\ mishaps' = met \cup (mishaps \cap {"overlap"})
  /\ lines' = <<[data |-> FALSE, addr |-> 0, vals |-> <<>>]>> \o f
  /\ cpos' \in 0 .. (Len(f) + 1)
  /\ fposStart' = 1 /\ fsize' = Len(f) /\ file' = f
  /\ stage' = 0 /\ tick' = 0 /\ err' = FALSE /\ descr' = "none"
  /\ resetLow' = TRUE /\ lock' = TRUE
  /\ isPrim' = primary /\ primary' = FALSE
  /\ armed' = TRUE /\ bad' = FALSE
  /\ UNCHANGED <<syncCnt, address, fcur, cline, lineVars, devVars, reads>>

\* A POST to another url, or one that is given up: ff_erase.
OtherPost ==
  /\ Meets({"erased"})
  /\ lines' = <<>> /\ cpos' = 0
  /\ UNCHANGED <<progVars, fileVars, pinVars, lineVars, devVars, histVars>>

\* A handler such as cgiLed reads from the start of the store.
OtherReader ==
  /\ reads < MaxReads /\ reads' = reads + 1
  /\ Meets(IF armed /\ fcur < 0 THEN {"reader"} ELSE {})
  /\ cpos' = (IF Csize = 0 THEN 0 ELSE 1)
  /\ UNCHANGED <<progVars, fileVars, pinVars, lineVars, lines, devVars, file,
                 sessions, bad>>
-----------------------------------------------------------------------------
RunProgrammer ==
  \/ TimeOut \/ OutOfSync \/ NotConnected \/ NothingYet \/ Sync
  \/ GetVersion \/ EnterProgMode \/ AskSignature \/ GotSignature
  \/ LoadAddress \/ SendPage \/ PageDone \/ LeaveProgMode \/ Finish

Next ==
  \/ RunProgrammer
  \/ StopReset
  \/ \E n \in 1 .. 5 : RecvCharTask(n)
  \/ \E f \in Files : Program(f)
  \/ OtherPost
  \/ OtherReader

\* Timers fire, and what is on the serial line arrives.
Fairness ==
  /\ WF_vars(RunProgrammer) /\ WF_vars(StopReset)
  /\ WF_vars(\E n \in 1 .. 5 : RecvCharTask(n))

Spec     == Init /\ [][Next]_vars
FairSpec == Spec /\ Fairness
-----------------------------------------------------------------------------
(* Properties *)

TypeOK ==
  /\ stage \in 0 .. 11 /\ tick \in 0 .. (TICK_MAX + 1)
  /\ err \in BOOLEAN
  /\ descr \in {"none", "stk_timeout", "OUT_of_sync", "not_connected"}
  /\ syncCnt \in 0 .. SyncTries /\ address \in Nat \cup {-1}
  /\ fposStart \in {-1, 1} /\ fsize \in Nat \cup {-1} /\ fcur \in Nat \cup {-1}
  /\ armed \in BOOLEAN /\ isPrim \in BOOLEAN /\ primary \in BOOLEAN
  /\ lock \in BOOLEAN /\ resetLow \in BOOLEAN /\ bad \in BOOLEAN
  /\ cpos \in 0 .. Csize
  /\ sessions \in 0 .. MaxSessions /\ reads \in 0 .. MaxReads /\ loaded \in Nat
  /\ mishaps \subseteq Mishaps

\* uart0 is locked against telnet exactly while the programmer's timer runs: no
\* path leaves the port locked with nobody to unlock it, or open to telnet
\* while the bootloader is being talked to.
LockedWhileTicking == lock = armed

\* A session that is over has failed or has reached its last stage.
EndedForReason == ~armed /\ sessions > 0 => err \/ stage = 11

\* When no session runs, uart0 is back on the pins it had before,
\* unless a session was begun in another.
PinsRestored == ~armed /\ "overlap" \notin mishaps => primary

\* "Finished" means programmed: every byte of every data record of the posted
\* file is in the Arduino's flash, at the record's address.  What a session
\* finds disturbed can spoil it; late answers cannot.
Programmed ==
  \A k \in 1 .. Len(file) :
    file[k].data =>
      \A j \in 1 .. Len(file[k].vals) :
        LET a == file[k].addr + j - 1 IN
        a \in DOMAIN flash => flash[a] = file[k].vals[j]
FinishedIsComplete == stage = 11 /\ mishaps \subseteq {"late"} => Programmed

\* The programmer reports a board out of sync only when it is, as long as every
\* answer is there before the next tick.
NoFalseAlarm == descr = "OUT_of_sync" /\ "late" \notin mishaps => bad

\* What README_n says of a finished session, and stk500.c of an error.
FinishedMeansProgrammed == stage = 11 => Programmed
AlarmIsTrue == descr = "OUT_of_sync" => bad

\* Every session ends: the timer is stopped and the port unlocked, whatever the
\* board answers.
SessionEnds == armed ~> ~armed
=============================================================================
