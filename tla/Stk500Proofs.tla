--------------------------- MODULE Stk500Proofs ----------------------------
(***************************************************************************)
(* Theorems about Stk500, for every file, page size, bootloader and number *)
(* of sessions.                                                            *)
(***************************************************************************)
EXTENDS Stk500, TLAPS, WellFoundedInduction, SequenceTheorems

\* A tick that keeps the session going, and anything between two ticks, leaves
\* the timer, the lock and the pins alone.
Untouched == UNCHANGED <<armed, lock, isPrim, primary, err, stage, sessions>>

\* A tick that goes on may change the stage, of a session that runs.
Running == armed /\ UNCHANGED <<armed, lock, isPrim, primary, err, sessions>>

\* A tick that stops the session, with an error or in the last stage.
Stops ==
  /\ armed /\ armed' = FALSE /\ lock' = FALSE
  /\ primary' = (primary \/ isPrim) /\ isPrim' = isPrim
  /\ err' = TRUE \/ stage' = 11
  /\ sessions' = sessions

\* program()
Starts ==
  /\ armed => "overlap" \in mishaps'
  /\ armed' = TRUE /\ lock' = TRUE
  /\ isPrim' = primary /\ primary' = FALSE

\* Every step is one of the four.
LEMMA StepKinds ==
  ASSUME [Next]_vars
  PROVE  Untouched \/ Running \/ Stops \/ Starts
<1> USE DEF GoesOn, Ticks, Fires
<1>1. CASE TimeOut \/ OutOfSync \/ NotConnected
  BY <1>1 DEF TimeOut, OutOfSync, NotConnected, Fail, StopTicking, Stops, histVars
<1>2. CASE Finish
  BY <1>2 DEF Finish, Advance, StopTicking, Stops
<1>3. CASE NothingYet \/ Sync
  BY <1>3 DEF NothingYet, Sync, Running
<1>4. CASE GetVersion \/ EnterProgMode \/ AskSignature \/ GotSignature
  BY <1>4 DEF GetVersion, EnterProgMode, AskSignature, GotSignature, Advance,
     Running
<1>5. CASE LoadAddress \/ SendPage \/ PageDone \/ LeaveProgMode
  BY <1>5 DEF LoadAddress, SendPage, PageDone, LeaveProgMode, Advance, Running
<1>6. CASE \E f \in Files : Program(f)
  BY <1>6 DEF Program, Starts
<1>7. CASE StopReset \/ (\E n \in 1 .. 5 : RecvCharTask(n)) \/ OtherPost \/ OtherReader
  BY <1>7 DEF StopReset, RecvCharTask, OtherPost, OtherReader, Untouched,
     progVars, pinVars, histVars
<1>8. CASE UNCHANGED vars
  BY <1>8 DEF vars, progVars, pinVars, histVars, Untouched
<1> QED
  BY <1>1, <1>2, <1>3, <1>4, <1>5, <1>6, <1>7, <1>8 DEF Next, RunProgrammer
-----------------------------------------------------------------------------
\* uart0 is locked against telnet exactly while the programmer's timer runs.
THEOREM LockTheorem == Spec => []LockedWhileTicking
<1>1. Init => LockedWhileTicking
  BY DEF Init, LockedWhileTicking
<1>2. LockedWhileTicking /\ [Next]_vars => LockedWhileTicking'
  <2> SUFFICES ASSUME LockedWhileTicking, [Next]_vars PROVE LockedWhileTicking'
    OBVIOUS
  <2> USE DEF LockedWhileTicking
  <2>1. CASE Untouched
    BY <2>1 DEF Untouched
  <2>2. CASE Running
    BY <2>2 DEF Running
  <2>3. CASE Stops
    BY <2>3 DEF Stops
  <2>4. CASE Starts
    BY <2>4 DEF Starts
  <2> QED
    BY <2>1, <2>2, <2>3, <2>4, StepKinds
<1> QED
  BY <1>1, <1>2, PTL DEF Spec

\* A session that is over has failed or reached the last stage.
THEOREM ReasonTheorem == Spec => []EndedForReason
<1>1. Init => EndedForReason
  BY DEF Init, EndedForReason
<1>2. EndedForReason /\ [Next]_vars => EndedForReason'
  <2> SUFFICES ASSUME EndedForReason, [Next]_vars PROVE EndedForReason'
    OBVIOUS
  <2> USE DEF EndedForReason
  <2>1. CASE Untouched
    BY <2>1 DEF Untouched
  <2>2. CASE Running
    BY <2>2 DEF Running
  <2>3. CASE Stops
    BY <2>3 DEF Stops
  <2>4. CASE Starts
    BY <2>4 DEF Starts
  <2> QED
    BY <2>1, <2>2, <2>3, <2>4, StepKinds
<1> QED
  BY <1>1, <1>2, PTL DEF Spec

\* An overlap is remembered.
LEMMA OverlapStays ==
  ASSUME [Next]_vars, "overlap" \in mishaps
  PROVE  "overlap" \in mishaps'
<1> USE DEF Ticks, Fires, Meets
<1>1. CASE TimeOut \/ OutOfSync \/ NotConnected
  BY <1>1 DEF TimeOut, OutOfSync, NotConnected
<1>2. CASE Finish
  BY <1>2 DEF Finish, Advance
<1>3. CASE NothingYet \/ Sync
  BY <1>3 DEF NothingYet, Sync
<1>4. CASE GetVersion \/ EnterProgMode \/ AskSignature \/ GotSignature
  BY <1>4 DEF GetVersion, EnterProgMode, AskSignature, GotSignature, Advance
<1>5. CASE LoadAddress \/ SendPage \/ PageDone \/ LeaveProgMode
  BY <1>5 DEF LoadAddress, SendPage, PageDone, LeaveProgMode, Advance
<1>6. CASE \E f \in Files : Program(f)
  BY <1>6 DEF Program
<1>7. CASE StopReset \/ (\E n \in 1 .. 5 : RecvCharTask(n)) \/ OtherPost \/ OtherReader
  BY <1>7 DEF StopReset, RecvCharTask, OtherPost, OtherReader
<1>8. CASE UNCHANGED vars
  BY <1>8 DEF vars
<1> QED
  BY <1>1, <1>2, <1>3, <1>4, <1>5, <1>6, <1>7, <1>8 DEF Next, RunProgrammer

\* As long as no session was begun in another the pins are put back: while a
\* session runs the pins it found are remembered as the primary ones.
THEOREM PinsTheorem == Spec => []PinsRestored
<1> DEFINE Inv == PinsRestored /\ ("overlap" \notin mishaps /\ armed => isPrim)
<1>1. Init => Inv
  BY DEF Init, PinsRestored
<1>2. Inv /\ [Next]_vars => Inv'
  <2> SUFFICES ASSUME Inv, [Next]_vars, "overlap" \notin mishaps' PROVE Inv'
    BY DEF PinsRestored
  <2>0. "overlap" \notin mishaps
    BY OverlapStays
  <2> USE <2>0 DEF PinsRestored
  <2>1. CASE Untouched
    BY <2>1 DEF Untouched
  <2>2. CASE Running
    BY <2>2 DEF Running
  <2>3. CASE Stops
    BY <2>3 DEF Stops
  <2>4. CASE Starts
    BY <2>4 DEF Starts
  <2> QED
    BY <2>1, <2>2, <2>3, <2>4, StepKinds
<1>3. Inv => PinsRestored
  OBVIOUS
<1> QED
  BY <1>1, <1>2, <1>3, PTL DEF Spec
-----------------------------------------------------------------------------
(* Induction, from the library's theorem that the order of the naturals is   *)
(* well founded: it is stated for sets, which the provers can instantiate.   *)

LEMMA LessIsWellFounded == IsWellFoundedOn({p \in Nat \X Nat : p[1] < p[2]}, Nat)
BY NatLessThanWellFounded DEF OpToRel

LEMMA SetInduction ==
  ASSUME NEW S, 0 \in S, \A n \in Nat : n \in S => n + 1 \in S
  PROVE  Nat \subseteq S
<1> DEFINE R == {p \in Nat \X Nat : p[1] < p[2]}
           T == Nat \ S
<1>1. IsWellFoundedOn(R, Nat)
  BY LessIsWellFounded
<1> HIDE DEF R
<1>2. SUFFICES ASSUME T # {} PROVE FALSE
  OBVIOUS
<1>3. PICK x \in T : \A y \in T : <<y, x>> \notin R
  <2>1. T \subseteq Nat
    OBVIOUS
  <2> HIDE DEF T
  <2> QED
    BY <1>1, <1>2, <2>1, WFMin
<1>4. \A y \in T : ~(y < x)
  BY <1>3 DEF R
<1>5. x \in Nat \ {0} /\ x - 1 \in Nat /\ x - 1 < x
  BY <1>3
<1>6. x - 1 \in S
  BY <1>4, <1>5
<1> QED
  BY <1>3, <1>5, <1>6

\* g is a run of step from s that stays in S.
Run(g, n, S, s, step) ==
  /\ g \in [0 .. n -> S] /\ g[0] = s
  /\ \A i \in 1 .. n : g[i] = step[g[i - 1]]

LEMMA RunsExist ==
  ASSUME NEW S, NEW s \in S, NEW step \in [S -> S]
  PROVE  \A n \in Nat : \E g : Run(g, n, S, s, step)
<1> DEFINE D == {n \in Nat : \E g : Run(g, n, S, s, step)}
<1>1. 0 \in D
  <2>1. Run([i \in 0 .. 0 |-> s], 0, S, s, step)
    BY DEF Run
  <2> QED
    BY <2>1
<1>2. ASSUME NEW n \in Nat, n \in D PROVE n + 1 \in D
  <2>1. PICK g : Run(g, n, S, s, step)
    BY <1>2
  <2> DEFINE h == [i \in 0 .. (n + 1) |-> IF i = n + 1 THEN step[g[n]] ELSE g[i]]
  <2>2. step[g[n]] \in S
    BY <2>1 DEF Run
  <2>3. h \in [0 .. (n + 1) -> S] /\ h[0] = s
    BY <2>1, <2>2 DEF Run
  <2>4. \A i \in 1 .. (n + 1) : h[i] = step[h[i - 1]]
    <3> SUFFICES ASSUME NEW i \in 1 .. (n + 1) PROVE h[i] = step[h[i - 1]]
      OBVIOUS
    <3>1. h[i - 1] = g[i - 1]
      OBVIOUS
    <3>2. CASE i = n + 1
      BY <3>1, <3>2
    <3>3. CASE i # n + 1
      BY <2>1, <3>1, <3>3 DEF Run
    <3> QED
      BY <3>2, <3>3
  <2> HIDE DEF h
  <2>5. Run(h, n + 1, S, s, step)
    BY <2>3, <2>4 DEF Run
  <2> QED
    BY <2>5
<1> HIDE DEF D
<1>3. Nat \subseteq D
  BY <1>1, <1>2, SetInduction
<1> QED
  BY <1>3 DEF D
-----------------------------------------------------------------------------
(* The pages. *)

\* Where reading a page may be.
Reading == [pos: 0 .. Csize, rest: Seq(Bytes), out: Seq(Bytes), end: BOOLEAN]

StoreTyped == lines \in Seq(Line) /\ cline \in Seq(Bytes) /\ fposStart \in Int /\ fsize \in Int

LEMMA ReadType ==
  ASSUME StoreTyped, Stk500Assumption, NEW s \in Reading
  PROVE  ReadNextByte(s) \in Reading
<1> DEFINE fetch == s.rest = <<>> /\ s.pos - fposStart < fsize /\ s.pos < Csize
           line == lines[s.pos + 1]
           rest == IF ~fetch THEN s.rest ELSE IF line.data THEN line.vals ELSE <<>>
           pos == IF fetch THEN s.pos + 1 ELSE s.pos
<1>1. s.pos \in 0 .. Csize /\ s.rest \in Seq(Bytes) /\ s.out \in Seq(Bytes) /\ Csize \in Nat
  BY DEF Reading, StoreTyped, Csize
<1>2. fetch => line.vals \in Seq(Bytes)
  <2>1. ASSUME fetch PROVE line \in Line
    <3>1. s.pos + 1 \in 1 .. Len(lines)
      BY <1>1, <2>1 DEF Csize, StoreTyped
    <3> QED
      BY <3>1, ElementOfSeq DEF StoreTyped
  <2> QED
    BY <2>1 DEF Line
<1>3. pos \in 0 .. Csize /\ rest \in Seq(Bytes)
  BY <1>1, <1>2
<1>4. ReadNextByte(s) =
        IF rest = <<>>
        THEN [pos |-> pos, rest |-> rest, out |-> Append(s.out, "FF"), end |-> TRUE]
        ELSE [pos |-> pos, rest |-> Tail(rest), out |-> Append(s.out, Head(rest)),
              end |-> FALSE]
  BY DEF ReadNextByte
<1> HIDE DEF rest, pos
<1>5. CASE rest = <<>>
  BY <1>1, <1>3, <1>4, <1>5 DEF Reading, Stk500Assumption
<1>6. CASE rest # <<>>
  <2>1. Head(rest) \in Bytes /\ Tail(rest) \in Seq(Bytes)
    BY <1>3, <1>6
  <2> QED
    BY <1>1, <1>3, <1>4, <1>6, <2>1 DEF Reading
<1> QED
  BY <1>5, <1>6

ReadStep == [s \in Reading |-> ReadNextByte(s)]
PageStart(cursor) == [pos |-> cursor, rest |-> cline, out |-> <<>>, end |-> TRUE]

\* A page is PAGE_SIZE calls of read_next_byte, one after the other.
LEMMA PageRuns ==
  ASSUME StoreTyped, Stk500Assumption, NEW cursor \in 0 .. Csize
  PROVE  \E g : /\ Run(g, PAGE_SIZE, Reading, PageStart(cursor), ReadStep)
                /\ Page(cursor) = g[PAGE_SIZE]
<1> DEFINE IsFill(f) ==
             f = [i \in 0 .. PAGE_SIZE |->
                    IF i = 0 THEN PageStart(cursor) ELSE ReadNextByte(f[i - 1])]
           fill == CHOOSE f : IsFill(f)
<1>1. PAGE_SIZE \in Nat
  BY DEF Stk500Assumption
<1>2. PageStart(cursor) \in Reading /\ ReadStep \in [Reading -> Reading]
  BY ReadType DEF PageStart, Reading, StoreTyped, ReadStep
<1>3. PICK g : Run(g, PAGE_SIZE, Reading, PageStart(cursor), ReadStep)
  BY <1>1, <1>2, RunsExist
<1>4. IsFill(g)
  <2>1. \A i \in 1 .. PAGE_SIZE : g[i] = ReadNextByte(g[i - 1])
    <3> SUFFICES ASSUME NEW i \in 1 .. PAGE_SIZE PROVE g[i] = ReadNextByte(g[i - 1])
      OBVIOUS
    <3>1. i - 1 \in 0 .. PAGE_SIZE
      BY <1>1
    <3>2. g[i - 1] \in Reading /\ g[i] = ReadStep[g[i - 1]]
      BY <1>3, <3>1 DEF Run
    <3> QED
      BY <3>2 DEF ReadStep
  <2> QED
    BY <1>1, <1>3, <2>1 DEF Run
<1>5. IsFill(fill)
  BY <1>4
<1>6. Page(cursor) = fill[PAGE_SIZE]
  BY DEF Page, PageStart
<1> HIDE DEF fill
<1>7. fill \in [0 .. PAGE_SIZE -> Reading]
  <2> DEFINE D == {n \in Nat : n <= PAGE_SIZE => fill[n] \in Reading}
  <2>1. 0 \in D
    BY <1>1, <1>2, <1>5
  <2>2. ASSUME NEW n \in Nat, n \in D PROVE n + 1 \in D
    <3>1. n + 1 <= PAGE_SIZE => fill[n + 1] = ReadNextByte(fill[n])
      BY <1>1, <1>5
    <3> QED
      BY <1>1, <2>2, <3>1, ReadType
  <2> HIDE DEF D
  <2>3. Nat \subseteq D
    BY <2>1, <2>2, SetInduction
  <2>4. \A n \in 0 .. PAGE_SIZE : fill[n] \in Reading
    BY <1>1, <2>3 DEF D
  <2> QED
    BY <1>5, <2>4
<1>8. Run(fill, PAGE_SIZE, Reading, PageStart(cursor), ReadStep)
  <2>1. fill[0] = PageStart(cursor) /\ \A i \in 1 .. PAGE_SIZE : fill[i] = ReadNextByte(fill[i - 1])
    BY <1>1, <1>5
  <2>2. \A i \in 1 .. PAGE_SIZE : fill[i] = ReadStep[fill[i - 1]]
    BY <1>1, <1>7, <2>1 DEF ReadStep
  <2> QED
    BY <1>7, <2>1, <2>2 DEF Run
<1> QED
  BY <1>6, <1>8
-----------------------------------------------------------------------------
(* Types. *)

Chars == {"I", "O", "V", "X"}

StkInv ==
  /\ TypeOK
  /\ lines \in Seq(Line) /\ cline \in Seq(Bytes)
  /\ ring \in Seq(Chars) /\ wire \in Seq(Chars)
  /\ armed => tick <= TICK_MAX
  /\ stage >= 6 => address >= 0

LEMMA SeekType ==
  ASSUME lines \in Seq(Line), NEW pos \in Int
  PROVE  Seek(pos) \in 0 .. Csize /\ Csize \in Nat
BY DEF Seek, Csize

LEMMA EnterType ==
  ASSUME StkInv
  PROVE  Enter \in 0 .. Csize
<1>1. cpos \in 0 .. Csize /\ fcur \in Int
  BY DEF StkInv, TypeOK
<1>2. Seek(fcur) \in 0 .. Csize
  BY <1>1, SeekType DEF StkInv
<1> QED
  BY <1>1, <1>2 DEF Enter

LEMMA LeaveType ==
  ASSUME StkInv, NEW cursor \in 0 .. Csize, Leave(cursor)
  PROVE  cpos' \in 0 .. Csize /\ fcur' \in Nat \cup {-1}
<1>1. Csize \in Nat /\ cpos \in 0 .. Csize /\ fcur \in Nat \cup {-1}
  BY DEF StkInv, TypeOK, Csize
<1>2. PICK fpos \in (IF fcur >= 0 THEN {cpos} ELSE {-1} \cup 0 .. Csize) :
         /\ cpos' = (IF fpos >= 0 THEN Seek(fpos) ELSE cursor)
         /\ fcur' = (IF fpos >= 0 THEN cursor ELSE fcur)
  BY DEF Leave
<1>3. fpos \in Int
  BY <1>1, <1>2
<1>4. Seek(fpos) \in 0 .. Csize
  BY <1>3, SeekType DEF StkInv
<1> QED
  BY <1>1, <1>2, <1>4

LEMMA SendType ==
  ASSUME StkInv, NEW cmd, Send(cmd)
  PROVE  wire' \in Seq(Chars) /\ bad' \in BOOLEAN
<1>1. AnswerTo(cmd) \in Seq(Chars) /\ <<"X", "O">> \in Seq(Chars)
  <2>1. {"I", "O", "V", "X"} = Chars
    BY DEF Chars
  <2>2. <<"I", "V", "O">> \in Seq(Chars)
    BY <2>1
  <2>3. <<"I", "V", "V", "V", "O">> \in Seq(Chars)
    BY <2>1
  <2>4. <<"I", "O">> \in Seq(Chars) /\ <<"X", "O">> \in Seq(Chars)
    BY <2>1
  <2> QED
    BY <2>2, <2>3, <2>4 DEF AnswerTo
<1>2. wire \in Seq(Chars)
  BY DEF StkInv
<1>3. wire \o AnswerTo(cmd) \in Seq(Chars) /\ wire \o <<"X", "O">> \in Seq(Chars)
  BY <1>1, <1>2
<1> QED
  BY <1>2, <1>3 DEF Send, StkInv, TypeOK

LEMMA AnsweredType ==
  ASSUME StkInv
  PROVE  Consumed \in Seq(Chars) /\ (Answered => stage \in 1 .. 10)
<1>1. Take(stage) \in Nat /\ ring \in Seq(Chars) /\ Len(ring) \in Nat
  BY DEF Take, StkInv
<1>2. \A i \in (Take(stage) + 1) .. Len(ring) : ring[i] \in Chars
  BY <1>1, ElementOfSeq
<1>3. Consumed \in Seq(Chars)
  BY <1>1, <1>2, SubSeqProperties DEF Consumed
<1>4. Answered => stage \in 1 .. 10
  BY DEF Answered, Waits
<1> QED
  BY <1>3, <1>4

LEMMA PageType ==
  ASSUME StkInv
  PROVE  Page(Enter) \in Reading
<1>1. StoreTyped
  BY DEF StkInv, TypeOK, StoreTyped
<1>2. PAGE_SIZE \in Nat
  BY Stk500Assumption DEF Stk500Assumption
<1> QED
  BY <1>1, <1>2, EnterType, PageRuns, Stk500Assumption DEF Run

\* A tick that keeps the session going.
LEMMA GoesOnKeepsType ==
  ASSUME StkInv, Ticks, GoesOn,
         cpos' \in 0 .. Csize, fcur' \in Nat \cup {-1},
         ring' \in Seq(Chars), wire' \in Seq(Chars), bad' \in BOOLEAN,
         stage' \in 0 .. 11, tick' = 0 \/ CountTick, syncCnt' \in 0 .. SyncTries,
         address' \in Nat \cup {-1}, stage' >= 6 => address' >= 0,
         cline' \in Seq(Bytes), loaded' \in Nat
  PROVE  StkInv'
<1>1. tick' \in 0 .. TICK_MAX
  BY Stk500Assumption DEF Stk500Assumption, Ticks, CountTick, StkInv, TypeOK
<1>2. mishaps' \subseteq Mishaps
  BY DEF Ticks, Fires, Meets, StkInv, TypeOK
<1>3. TypeOK'
  BY <1>1, <1>2, Stk500Assumption DEF Stk500Assumption, GoesOn, StkInv, TypeOK, Csize
<1> QED
  BY <1>1, <1>3 DEF GoesOn, StkInv

\* A tick that ends it.
LEMMA StopKeepsType ==
  ASSUME StkInv, Fires, CountTick, StopTicking,
         cpos' \in 0 .. Csize, fcur' \in Nat \cup {-1}, ring' \in Seq(Chars),
         err' \in BOOLEAN, resetLow' \in BOOLEAN,
         descr' \in {"none", "stk_timeout", "OUT_of_sync", "not_connected"},
         stage' \in 0 .. 11, stage' >= 6 => address >= 0,
         UNCHANGED <<syncCnt, address, cline, wire, lines, devVars, histVars>>
  PROVE  StkInv'
<1>1. tick' \in 0 .. (TICK_MAX + 1)
  BY Stk500Assumption DEF Stk500Assumption, Fires, CountTick, StkInv, TypeOK
<1>2. mishaps' \subseteq Mishaps
  BY DEF Fires, Meets, StkInv, TypeOK
<1>3. TypeOK'
  BY <1>1, <1>2 DEF StopTicking, StkInv, TypeOK, Csize, devVars, histVars
<1> QED
  BY <1>1, <1>3 DEF StopTicking, StkInv

LEMMA RingReads ==
  ASSUME StkInv, NEW n \in 1 .. 5, RecvCharTask(n)
  PROVE  /\ ring' \in Seq(Chars) /\ wire' \in Seq(Chars)
         /\ ring' \o wire' = ring \o wire
<1> DEFINE a == SubSeq(wire, 1, n)
           b == SubSeq(wire, n + 1, Len(wire))
<1>1. n \in 1 .. Len(wire) /\ wire \in Seq(Chars) /\ ring \in Seq(Chars) /\ Len(wire) \in Nat
  BY DEF RecvCharTask, StkInv
<1>2. a \o b = SubSeq(wire, 1, Len(wire)) /\ SubSeq(wire, 1, Len(wire)) = wire
  BY <1>1, ConcatAdjacentSubSeq, SubSeqFull
<1>3. \A i \in 1 .. Len(wire) : wire[i] \in Chars
  BY <1>1, ElementOfSeq
<1>4. a \in Seq(Chars) /\ b \in Seq(Chars)
  BY <1>1, <1>3, SubSeqProperties
<1>5. ring' = ring \o a /\ wire' = b
  BY DEF RecvCharTask
<1> HIDE DEF a, b
<1>6. (ring \o a) \o b = ring \o (a \o b)
  <2>1. \A s, t, u \in Seq(Chars) : (s \o t) \o u = s \o (t \o u)
    <3> TAKE s, t, u \in Seq(Chars)
    <3>1. /\ s \o t \in Seq(Chars) /\ t \o u \in Seq(Chars)
          /\ Len(s) \in Nat /\ Len(t) \in Nat /\ Len(u) \in Nat
      BY ConcatProperties
    <3>2. /\ Len(s \o t) = Len(s) + Len(t) /\ Len(t \o u) = Len(t) + Len(u)
          /\ (s \o t) \o u \in Seq(Chars) /\ s \o (t \o u) \in Seq(Chars)
      BY <3>1, ConcatProperties
    <3>3. Len((s \o t) \o u) = Len(s \o (t \o u))
      BY <3>1, <3>2, ConcatProperties
    <3>4. \A i \in 1 .. Len((s \o t) \o u) : ((s \o t) \o u)[i] = (s \o (t \o u))[i]
      BY <3>1, <3>2, ConcatProperties
    <3> QED
      BY <3>2, <3>3, <3>4, SeqEqual
  <2> QED
    BY <1>1, <1>4, <2>1, Zenon
<1> QED
  BY <1>1, <1>2, <1>4, <1>5, <1>6, ConcatProperties

LEMMA TickKeepsType ==
  ASSUME StkInv, RunProgrammer
  PROVE  StkInv'
<1>1. /\ Enter \in 0 .. Csize /\ Consumed \in Seq(Chars)
      /\ ring \in Seq(Chars) /\ wire \in Seq(Chars) /\ cline \in Seq(Bytes)
      /\ stage \in 0 .. 11 /\ address \in Nat \cup {-1} /\ syncCnt \in 0 .. SyncTries
      /\ loaded \in Nat /\ bad \in BOOLEAN /\ (stage >= 6 => address >= 0)
      /\ PAGE_SIZE \in Nat \ {0} /\ fcur \in Nat \cup {-1} /\ cpos \in 0 .. Csize
      /\ Seek(fposStart) \in 0 .. Csize /\ SyncTries \in Nat
  <2>1. fposStart \in Int
    BY DEF StkInv, TypeOK
  <2>2. Seek(fposStart) \in 0 .. Csize
    BY <2>1, SeekType DEF StkInv
  <2> QED
    BY <2>2, EnterType, AnsweredType, Stk500Assumption DEF StkInv, TypeOK, Stk500Assumption
<1>2. CASE NothingYet
  <2>1. cpos' \in 0 .. Csize /\ fcur' \in Nat \cup {-1}
    BY <1>1, <1>2, LeaveType DEF NothingYet
  <2> QED
    BY <1>1, <1>2, <2>1, GoesOnKeepsType DEF NothingYet, lineVars, devVars
<1>3. CASE Sync
  <2>1. cpos' \in 0 .. Csize /\ fcur' \in Nat \cup {-1} /\ wire' \in Seq(Chars) /\ bad' \in BOOLEAN
    BY <1>1, <1>3, LeaveType, SendType DEF Sync
  <2>2. syncCnt' \in 0 .. SyncTries /\ (tick' = 0 \/ CountTick) /\ stage' = 1 /\ ring' = <<>>
    BY <1>1, <1>3 DEF Sync
  <2>3. <<>> \in Seq(Chars)
    OBVIOUS
  <2> QED
    BY <1>1, <1>3, <2>1, <2>2, <2>3, GoesOnKeepsType DEF Sync, devVars
<1>4. CASE GetVersion
  <2>1. cpos' \in 0 .. Csize /\ fcur' \in Nat \cup {-1} /\ wire' \in Seq(Chars) /\ bad' \in BOOLEAN
    BY <1>1, <1>4, LeaveType, SendType DEF GetVersion
  <2>2. stage' \in 2 .. 3 /\ ring' = Consumed /\ syncCnt' = syncCnt /\ Ticks
    BY <1>1, <1>4 DEF GetVersion, Advance
  <2> QED
    BY <1>1, <1>4, <2>1, <2>2, GoesOnKeepsType DEF GetVersion, devVars
<1>5. CASE EnterProgMode
  <2>1. cpos' \in 0 .. Csize /\ fcur' \in Nat \cup {-1} /\ wire' \in Seq(Chars) /\ bad' \in BOOLEAN
    BY <1>1, <1>5, LeaveType, SendType DEF EnterProgMode
  <2>2. stage' = 4 /\ ring' = Consumed /\ syncCnt' = syncCnt /\ Ticks
    BY <1>1, <1>5 DEF EnterProgMode, Advance
  <2> QED
    BY <1>1, <1>5, <2>1, <2>2, GoesOnKeepsType DEF EnterProgMode, devVars
<1>6. CASE AskSignature
  <2>1. cpos' \in 0 .. Csize /\ fcur' \in Nat \cup {-1} /\ wire' \in Seq(Chars) /\ bad' \in BOOLEAN
    BY <1>1, <1>6, LeaveType, SendType DEF AskSignature
  <2>2. stage' = 5 /\ ring' = Consumed /\ syncCnt' = syncCnt /\ Ticks
    BY <1>1, <1>6 DEF AskSignature, Advance
  <2> QED
    BY <1>1, <1>6, <2>1, <2>2, GoesOnKeepsType DEF AskSignature, devVars
<1>7. CASE GotSignature
  <2>1. cpos' \in 0 .. Csize /\ fcur' \in Nat \cup {-1}
    BY <1>1, <1>7, LeaveType DEF GotSignature
  <2>2. stage' = 6 /\ ring' = Consumed /\ syncCnt' = syncCnt /\ Ticks /\ address' = 0
    BY <1>1, <1>7 DEF GotSignature, Advance
  <2> QED
    BY <1>1, <1>7, <2>1, <2>2, GoesOnKeepsType DEF GotSignature, devVars
<1>8. CASE LoadAddress
  <2>1. cpos' \in 0 .. Csize /\ fcur' \in Nat \cup {-1} /\ wire' \in Seq(Chars) /\ bad' \in BOOLEAN
    BY <1>1, <1>8, LeaveType, SendType DEF LoadAddress
  <2>2. address \in Nat /\ PageWords \in Nat
    BY <1>1, <1>8 DEF LoadAddress, PageWords
  <2>3. address' \in Nat /\ loaded' \in Nat
    BY <1>8, <2>2 DEF LoadAddress
  <2> QED
    BY <1>1, <1>8, <2>1, <2>3, GoesOnKeepsType DEF LoadAddress
<1>9. CASE SendPage
  <2>1. Page(Enter).pos \in 0 .. Csize /\ Page(Enter).rest \in Seq(Bytes)
    BY PageType DEF Reading
  <2>2. cpos' \in 0 .. Csize /\ fcur' \in Nat \cup {-1} /\ wire' \in Seq(Chars) /\ bad' \in BOOLEAN
    BY <1>1, <1>9, <2>1, LeaveType, SendType DEF SendPage
  <2>3. stage = 7 /\ stage' \in {8, 9} /\ ring' = Consumed /\ syncCnt' = syncCnt /\ Ticks
    BY <1>1, <1>9 DEF SendPage, Advance
  <2>4. cline' \in Seq(Bytes)
    BY <1>9, <2>1 DEF SendPage
  <2> QED
    BY <1>1, <1>9, <2>2, <2>3, <2>4, GoesOnKeepsType DEF SendPage
<1>10. CASE PageDone
  <2>1. cpos' \in 0 .. Csize /\ fcur' \in Nat \cup {-1}
    BY <1>1, <1>10, LeaveType DEF PageDone
  <2>2. stage = 8 /\ stage' = 6 /\ ring' = Consumed /\ syncCnt' = syncCnt /\ Ticks
    BY <1>1, <1>10 DEF PageDone, Advance
  <2> QED
    BY <1>1, <1>10, <2>1, <2>2, GoesOnKeepsType DEF PageDone, devVars
<1>11. CASE LeaveProgMode
  <2>1. cpos' \in 0 .. Csize /\ fcur' \in Nat \cup {-1} /\ wire' \in Seq(Chars) /\ bad' \in BOOLEAN
    BY <1>1, <1>11, LeaveType, SendType DEF LeaveProgMode
  <2>2. stage = 9 /\ stage' = 10 /\ ring' = Consumed /\ syncCnt' = syncCnt /\ Ticks
    BY <1>1, <1>11 DEF LeaveProgMode, Advance
  <2> QED
    BY <1>1, <1>11, <2>1, <2>2, GoesOnKeepsType DEF LeaveProgMode, devVars
<1>12. CASE Finish
  <2>1. cpos' \in 0 .. Csize /\ fcur' \in Nat \cup {-1}
    BY <1>1, <1>12, LeaveType DEF Finish
  <2>2. stage = 10 /\ stage' = 11 /\ ring' = Consumed /\ syncCnt' = syncCnt /\ Fires
    BY <1>1, <1>12 DEF Finish, Advance, Ticks
  <2> QED
    BY <1>1, <1>12, <2>1, <2>2, StopKeepsType DEF Finish, devVars, histVars, StkInv, TypeOK
<1>13. ASSUME Fires, NEW why \in {"stk_timeout", "OUT_of_sync", "not_connected"}, Fail(why),
              cpos' \in 0 .. Csize, ring' \in Seq(Chars)
       PROVE  StkInv'
  BY <1>1, <1>13, StopKeepsType DEF Fail, StkInv, TypeOK
<1>14. ASSUME Forget PROVE cpos' \in 0 .. Csize
  <2>1. PICK fpos \in (IF fcur >= 0 THEN {cpos} ELSE {-1} \cup 0 .. Csize) :
           cpos' = IF fpos >= 0 THEN Seek(fpos) ELSE Enter
    BY <1>14 DEF Forget
  <2>2. fpos \in Int /\ Csize \in Nat
    BY <1>1, <2>1 DEF StkInv, Csize
  <2>3. Seek(fpos) \in 0 .. Csize
    BY <2>2, SeekType DEF StkInv
  <2> QED
    BY <1>1, <2>1, <2>3
<1>15. CASE TimeOut \/ OutOfSync \/ NotConnected
  BY <1>1, <1>13, <1>14, <1>15 DEF TimeOut, OutOfSync, NotConnected, Ticks
<1> QED
  BY <1>2, <1>3, <1>4, <1>5, <1>6, <1>7, <1>8, <1>9, <1>10, <1>11, <1>12, <1>15
     DEF RunProgrammer

\* program() stores a header line before the posted file.
LEMMA ProgramKeepsType ==
  ASSUME StkInv, NEW f \in Files, Program(f)
  PROVE  StkInv'
<1>1. f \in Seq(Line) /\ TICK_MAX \in Nat
  BY Stk500Assumption DEF Stk500Assumption
<1> DEFINE header == [data |-> FALSE, addr |-> 0, vals |-> <<>>]
<1>2. header \in Line
  <2>1. <<>> \in Seq(Bytes)
    OBVIOUS
  <2>2. header \in [data : BOOLEAN, addr : Nat, vals : Seq(Bytes)] /\ ~header.data
    BY <2>1
  <2> HIDE DEF header
  <2> QED
    BY <2>2 DEF Line
<1>3. <<header>> \in Seq(Line) /\ Len(<<header>>) = 1
  <2> HIDE DEF header
  <2> QED
    BY <1>2
<1>4. /\ lines' = <<header>> \o f /\ cpos' \in 0 .. (Len(f) + 1)
      /\ fposStart' = 1 /\ fsize' = Len(f)
      /\ stage' = 0 /\ tick' = 0 /\ err' = FALSE /\ descr' = "none"
  BY DEF Program
<1>5. /\ resetLow' = TRUE /\ lock' = TRUE /\ isPrim' = primary /\ primary' = FALSE
      /\ armed' = TRUE /\ bad' = FALSE /\ sessions < MaxSessions /\ sessions' = sessions + 1
      /\ UNCHANGED <<syncCnt, address, fcur, cline, ring, wire, flash, loaded, reads>>
  BY DEF Program, lineVars, devVars
<1>6. mishaps' \subseteq Mishaps
  BY DEF Program, StkInv, TypeOK
<1> HIDE DEF header
<1>7. lines' \in Seq(Line) /\ Len(lines') = Len(f) + 1 /\ Len(f) \in Nat
  BY <1>1, <1>3, <1>4, ConcatProperties
<1>8. sessions' \in 0 .. MaxSessions
  BY <1>5, Stk500Assumption DEF Stk500Assumption, StkInv, TypeOK
<1>9. cpos' \in 0 .. Csize'
  BY <1>4, <1>7 DEF Csize
<1>10. TypeOK'
  <2>1. /\ err' \in BOOLEAN /\ armed' \in BOOLEAN /\ isPrim' \in BOOLEAN /\ primary' \in BOOLEAN
        /\ lock' \in BOOLEAN /\ resetLow' \in BOOLEAN /\ bad' \in BOOLEAN
    BY <1>4, <1>5, Zenon DEF StkInv, TypeOK
  <2> QED
    BY <1>1, <1>4, <1>5, <1>6, <1>7, <1>8, <1>9, <2>1 DEF StkInv, TypeOK
<1> QED
  BY <1>1, <1>4, <1>5, <1>7, <1>10 DEF StkInv

\* What happens between two ticks.
LEMMA BetweenKeepsType ==
  ASSUME StkInv,
         \/ StopReset \/ (\E n \in 1 .. 5 : RecvCharTask(n))
         \/ OtherPost \/ OtherReader \/ UNCHANGED vars
  PROVE  StkInv'
<1>1. CASE StopReset
  <2>1. resetLow' \in BOOLEAN
    BY <1>1, Zenon DEF StopReset
  <2> QED
    BY <1>1, <2>1 DEF StopReset, progVars, fileVars, lineVars, storeVars, devVars, histVars,
       StkInv, TypeOK, Csize
<1>2. ASSUME NEW n \in 1 .. 5, RecvCharTask(n) PROVE StkInv'
  <2>1. ring' \in Seq(Chars) /\ wire' \in Seq(Chars)
    BY <1>2, RingReads
  <2> QED
    BY <1>2, <2>1 DEF RecvCharTask, progVars, fileVars, pinVars, storeVars, devVars,
       histVars, StkInv, TypeOK, Csize
<1>3. CASE OtherPost
  <2>1. lines' = <<>> /\ cpos' = 0 /\ lines' \in Seq(Line) /\ Len(lines') = 0
    BY <1>3 DEF OtherPost
  <2>2. cpos' \in 0 .. Csize' /\ mishaps' \subseteq Mishaps
    BY <1>3, <2>1 DEF OtherPost, Meets, Csize, StkInv, TypeOK
  <2> QED
    BY <1>3, <2>1, <2>2 DEF OtherPost, progVars, fileVars, pinVars, lineVars, devVars,
       histVars, StkInv, TypeOK
<1>4. CASE OtherReader
  <2>1. lines' = lines /\ Len(lines) \in Nat
    BY <1>4 DEF OtherReader, StkInv
  <2>2. cpos' \in 0 .. Csize' /\ mishaps' \subseteq Mishaps
    BY <1>4, <2>1 DEF OtherReader, Meets, Csize, StkInv, TypeOK
  <2>3. reads' \in 0 .. MaxReads
    BY <1>4, Stk500Assumption DEF Stk500Assumption, OtherReader, StkInv, TypeOK
  <2> QED
    BY <1>4, <2>1, <2>2, <2>3 DEF OtherReader, progVars, fileVars, pinVars, lineVars, devVars,
       StkInv, TypeOK
<1>5. CASE UNCHANGED vars
  BY <1>5 DEF vars, progVars, fileVars, pinVars, lineVars, storeVars, devVars, histVars,
     StkInv, TypeOK, Csize
<1> QED
  BY <1>1, <1>2, <1>3, <1>4, <1>5

\* The inductive invariant: the types, what the store, the line being read and the
\* serial line hold, a tick count below its limit while the timer runs, and an
\* address that is set from stage 6 on (no command is sent for address -1).
THEOREM StkInductive == Spec => []StkInv
<1>1. Init => StkInv
  <2> SUFFICES ASSUME Init PROVE StkInv
    OBVIOUS
  <2>1. <<>> \in Seq(Line) /\ <<>> \in Seq(Bytes) /\ <<>> \in Seq(Chars) /\ Len(<<>>) = 0
    OBVIOUS
  <2>2. cpos \in 0 .. Csize
    BY <2>1 DEF Init, Csize
  <2>3. /\ TICK_MAX \in Nat /\ SyncTries \in Nat /\ MaxSessions \in Nat /\ MaxReads \in Nat
    BY Stk500Assumption DEF Stk500Assumption
  <2>4. /\ err \in BOOLEAN /\ armed \in BOOLEAN /\ isPrim \in BOOLEAN /\ primary \in BOOLEAN
        /\ lock \in BOOLEAN /\ resetLow \in BOOLEAN /\ bad \in BOOLEAN
    BY Zenon DEF Init
  <2>5. armed => tick <= TICK_MAX
    BY DEF Init
  <2> QED
    BY <2>1, <2>2, <2>3, <2>4, <2>5 DEF Init, StkInv, TypeOK
<1>2. StkInv /\ [Next]_vars => StkInv'
  <2> SUFFICES ASSUME StkInv, [Next]_vars PROVE StkInv'
    OBVIOUS
  <2>1. CASE RunProgrammer
    BY <2>1, TickKeepsType
  <2>2. ASSUME NEW f \in Files, Program(f) PROVE StkInv'
    BY <2>2, ProgramKeepsType
  <2>3. CASE StopReset \/ (\E n \in 1 .. 5 : RecvCharTask(n)) \/ OtherPost \/ OtherReader
             \/ UNCHANGED vars
    BY <2>3, BetweenKeepsType
  <2> QED
    BY <2>1, <2>2, <2>3 DEF Next
<1> QED
  BY <1>1, <1>2, PTL DEF Spec

\* Every variable of stk500.c keeps its range in every interleaving of ticks,
\* requests and bytes: the tick count never passes its limit by more than one,
\* and the cursor of the POST store never leaves it.
THEOREM StkTypes == Spec => []TypeOK
<1>1. StkInv => TypeOK
  BY DEF StkInv
<1> QED
  BY <1>1, StkInductive, PTL
-----------------------------------------------------------------------------
(* False alarms. *)

\* The answer awaited in a stage.
Expected(s) == CASE s \in {2, 3} -> <<"I", "V", "O">>
                 [] s = 5        -> <<"I", "V", "V", "V", "O">>
                 [] OTHER        -> <<"I", "O">>

\* No answer was late and none was bad.
Clean == "late" \notin mishaps /\ ~bad

\* Between the ring and the wire there is the answer awaited, all of it, or
\* nothing.
Undisturbed ==
  \/ stage = 0
  \/ stage \in Waits /\ ring \o wire \in {<<>>, Expected(stage)}
  \/ stage = 6 /\ ring \o wire = <<>>

AlarmInv ==
  /\ Clean => descr # "OUT_of_sync"
  /\ armed /\ Clean => Undisturbed

LEMMA InTime ==
  ASSUME StkInv, AlarmInv, Fires, "late" \notin mishaps', ~bad
  PROVE  /\ Clean /\ wire = <<>> /\ descr # "OUT_of_sync"
         /\ stage \in Waits => ring \in {<<>>, Expected(stage)}
         /\ stage = 6 => ring = <<>>
<1>1. armed /\ "late" \notin mishaps /\ wire = <<>>
  BY DEF Fires, Meets
<1>2. ring \o wire = ring
  BY <1>1, ConcatEmptySeq DEF StkInv
<1>3. Clean /\ Undisturbed /\ descr # "OUT_of_sync"
  BY <1>1 DEF AlarmInv, Clean
<1>4. 0 \notin Waits /\ 6 \notin Waits
  BY DEF Waits
<1> QED
  BY <1>1, <1>2, <1>3, <1>4 DEF Undisturbed

\* What is read in time is in sync, and nothing of it is left.
LEMMA AnswerWhole ==
  ASSUME StkInv, AlarmInv, Fires, "late" \notin mishaps', ~bad, Answered
  PROVE  InSync /\ Consumed = <<>>
<1>1. stage \in Waits /\ Len(ring) >= Need(stage) /\ ring \in {<<>>, Expected(stage)}
  BY InTime DEF Answered
<1>2. Need(stage) \in {2, 3} /\ Len(<<>>) = 0
  BY DEF Need
<1>3. ring = Expected(stage)
  BY <1>1, <1>2
<1>4. CASE stage \in {2, 3}
  <2>1. ring = <<"I", "V", "O">> /\ Take(stage) = 3 /\ Len(ring) = 3
    BY <1>3, <1>4 DEF Expected, Take
  <2>2. SubSeq(ring, 4, 3) = <<>>
    BY SubSeqEmpty
  <2> QED
    BY <2>1, <2>2 DEF InSync, GetChar, Consumed
<1>5. CASE stage = 5
  <2>1. ring = <<"I", "V", "V", "V", "O">> /\ Take(stage) = 5 /\ Len(ring) = 5
    BY <1>3, <1>5 DEF Expected, Take
  <2>2. SubSeq(ring, 6, 5) = <<>>
    BY SubSeqEmpty
  <2> QED
    BY <2>1, <2>2 DEF InSync, GetChar, Consumed
<1>6. CASE stage \notin {2, 3, 5}
  <2>1. ring = <<"I", "O">> /\ Take(stage) = 2 /\ Len(ring) = 2
    BY <1>3, <1>6 DEF Expected, Take
  <2>2. SubSeq(ring, 3, 2) = <<>>
    BY SubSeqEmpty
  <2> QED
    BY <2>1, <2>2 DEF InSync, GetChar, Consumed
<1> QED
  BY <1>4, <1>5, <1>6

LEMMA SendClean ==
  ASSUME NEW cmd, Send(cmd), wire = <<>>, ~bad'
  PROVE  ~bad /\ wire' \in {<<>>, AnswerTo(cmd)}
<1>1. PICK r \in Replies :
        /\ wire' = (CASE r = "ok"  -> wire \o AnswerTo(cmd)
                      [] r = "bad" -> wire \o <<"X", "O">>
                      [] OTHER     -> wire)
        /\ bad' = (bad \/ r = "bad")
  BY DEF Send
<1>2. ~bad /\ r # "bad"
  BY <1>1
<1>3. <<>> \o AnswerTo(cmd) = AnswerTo(cmd)
  <2>1. {"I", "O", "V", "X"} = Chars
    BY DEF Chars
  <2>2. <<"I", "V", "O">> \in Seq(Chars) /\ <<"I", "O">> \in Seq(Chars)
    BY <2>1
  <2>3. <<"I", "V", "V", "V", "O">> \in Seq(Chars)
    BY <2>1
  <2>4. AnswerTo(cmd) \in Seq(Chars)
    BY <2>2, <2>3 DEF AnswerTo
  <2> QED
    BY <2>4, ConcatEmptySeq
<1> QED
  BY <1>1, <1>2, <1>3

\* A stage is entered with nothing left of the answer before.
LEMMA StageEntered ==
  ASSUME ring' = <<>>, wire' \in {<<>>, Expected(stage')},
         stage' \in Waits \/ (stage' = 6 /\ wire' = <<>>)
  PROVE  Undisturbed'
<1>1. {"I", "O", "V", "X"} = Chars
  BY DEF Chars
<1>2. <<"I", "V", "O">> \in Seq(Chars) /\ <<"I", "O">> \in Seq(Chars) /\ <<>> \in Seq(Chars)
  BY <1>1
<1>3. <<"I", "V", "V", "V", "O">> \in Seq(Chars)
  BY <1>1
<1>4. wire' \in Seq(Chars)
  BY <1>2, <1>3 DEF Expected
<1>5. <<>> \o wire' = wire'
  BY <1>4, ConcatEmptySeq
<1>6. ring' \o wire' = wire'
  BY <1>5
<1> QED
  BY <1>6 DEF Undisturbed

LEMMA TickKeepsAlarm ==
  ASSUME StkInv, AlarmInv, RunProgrammer, Clean'
  PROVE  descr' # "OUT_of_sync" /\ (armed' => Undisturbed')
<1>1. /\ Fires /\ "late" \notin mishaps' /\ ~bad
  <2>1. Fires /\ (bad => bad')
    <3> USE DEF Ticks, Advance, histVars
    <3>1. ASSUME NEW cmd, Send(cmd), bad PROVE bad'
      BY <3>1, Zenon DEF Send
    <3>2. CASE TimeOut \/ OutOfSync \/ NotConnected
      BY <3>2 DEF TimeOut, OutOfSync, NotConnected, Fail
    <3>3. CASE NothingYet \/ Sync \/ GetVersion \/ EnterProgMode \/ AskSignature
      BY <3>3, <3>1 DEF NothingYet, Sync, GetVersion, EnterProgMode, AskSignature
    <3>4. CASE GotSignature \/ LoadAddress \/ SendPage
      BY <3>4, <3>1 DEF GotSignature, LoadAddress, SendPage
    <3>5. CASE PageDone \/ LeaveProgMode \/ Finish
      BY <3>5, <3>1 DEF PageDone, LeaveProgMode, Finish
    <3> QED
      BY <3>2, <3>3, <3>4, <3>5 DEF RunProgrammer
  <2> QED
    BY <2>1 DEF Clean
<1>2. /\ Clean /\ wire = <<>> /\ descr # "OUT_of_sync" /\ ~bad'
      /\ stage \in Waits => ring \in {<<>>, Expected(stage)}
      /\ stage = 6 => ring = <<>>
  BY <1>1, InTime DEF Clean
<1>3. Answered => InSync /\ Consumed = <<>>
  BY <1>1, AnswerWhole
<1>4. /\ 1 \in Waits /\ 2 \in Waits /\ 3 \in Waits /\ 4 \in Waits /\ 5 \in Waits
      /\ 7 \in Waits /\ 8 \in Waits /\ 9 \in Waits /\ 10 \in Waits
  BY DEF Waits
<1>5. ~OutOfSync
  BY <1>3 DEF OutOfSync
<1>6. CASE TimeOut \/ NotConnected
  BY <1>6 DEF TimeOut, NotConnected, Fail, StopTicking
<1>7. CASE Finish
  BY <1>2, <1>7 DEF Finish, StopTicking
<1>8. CASE NothingYet
  <2>1. descr' = descr /\ stage' = stage /\ ring' = ring /\ wire' = wire /\ armed
    BY <1>8 DEF NothingYet, GoesOn, lineVars, Ticks, Fires
  <2> QED
    BY <1>2, <2>1 DEF AlarmInv, Undisturbed, Expected
<1>9. CASE Sync
  <2>1. descr' = descr /\ stage' = 1 /\ ring' = <<>> /\ Send("sync")
    BY <1>9 DEF Sync, GoesOn
  <2>2. wire' \in {<<>>, Expected(stage')}
    BY <1>2, <2>1, SendClean DEF AnswerTo, Expected
  <2> QED
    BY <1>2, <1>4, <2>1, <2>2, StageEntered
<1>10. CASE GetVersion
  <2>1. descr' = descr /\ stage' \in {2, 3} /\ ring' = <<>> /\ Send("param")
    BY <1>3, <1>10 DEF GetVersion, GoesOn, Advance
  <2>2. wire' \in {<<>>, Expected(stage')}
    BY <1>2, <2>1, SendClean DEF AnswerTo, Expected
  <2> QED
    BY <1>2, <1>4, <2>1, <2>2, StageEntered
<1>11. CASE EnterProgMode
  <2>1. descr' = descr /\ stage' = 4 /\ ring' = <<>> /\ Send("prog_mode")
    BY <1>3, <1>11 DEF EnterProgMode, GoesOn, Advance
  <2>2. wire' \in {<<>>, Expected(stage')}
    BY <1>2, <2>1, SendClean DEF AnswerTo, Expected
  <2> QED
    BY <1>2, <1>4, <2>1, <2>2, StageEntered
<1>12. CASE AskSignature
  <2>1. descr' = descr /\ stage' = 5 /\ ring' = <<>> /\ Send("signature")
    BY <1>3, <1>12 DEF AskSignature, GoesOn, Advance
  <2>2. wire' \in {<<>>, Expected(stage')}
    BY <1>2, <2>1, SendClean DEF AnswerTo, Expected
  <2> QED
    BY <1>2, <1>4, <2>1, <2>2, StageEntered
<1>13. CASE GotSignature \/ PageDone
  <2>1. descr' = descr /\ stage' = 6 /\ ring' = <<>> /\ wire' = <<>>
    BY <1>2, <1>3, <1>13 DEF GotSignature, PageDone, GoesOn, Advance
  <2> QED
    BY <1>2, <1>4, <2>1, StageEntered
<1>14. CASE LoadAddress
  <2>1. descr' = descr /\ stage' = 7 /\ ring' = <<>> /\ Send("load_address")
    BY <1>2, <1>14 DEF LoadAddress, GoesOn
  <2>2. wire' \in {<<>>, Expected(stage')}
    BY <1>2, <2>1, SendClean DEF AnswerTo, Expected
  <2> QED
    BY <1>2, <1>4, <2>1, <2>2, StageEntered
<1>15. CASE SendPage
  <2>1. descr' = descr /\ stage' \in {8, 9} /\ ring' = <<>> /\ Send("program_page")
    BY <1>3, <1>15 DEF SendPage, GoesOn, Advance
  <2>2. wire' \in {<<>>, Expected(stage')}
    BY <1>2, <2>1, SendClean DEF AnswerTo, Expected
  <2> QED
    BY <1>2, <1>4, <2>1, <2>2, StageEntered
<1>16. CASE LeaveProgMode
  <2>1. descr' = descr /\ stage' = 10 /\ ring' = <<>> /\ Send("leave")
    BY <1>3, <1>16 DEF LeaveProgMode, GoesOn, Advance
  <2>2. wire' \in {<<>>, Expected(stage')}
    BY <1>2, <2>1, SendClean DEF AnswerTo, Expected
  <2> QED
    BY <1>2, <1>4, <2>1, <2>2, StageEntered
<1> QED
  BY <1>5, <1>6, <1>7, <1>8, <1>9, <1>10, <1>11, <1>12, <1>13, <1>14, <1>15, <1>16
     DEF RunProgrammer

\* The programmer reports a board out of sync only when it is, as long as every
\* answer is there before the next tick (stk500.c reads uart0_buf in the order
\* the answers came and never drops a byte of one it waits for): for every
\* number of sync attempts, and whatever is posted, read or given up meanwhile.
\* The invariant: the ring and the wire together hold the whole answer that the
\* stage awaits, or nothing.
THEOREM AlarmTheorem == Spec => []NoFalseAlarm
<1>1. Init => AlarmInv
  BY DEF Init, AlarmInv
<1>2. StkInv /\ AlarmInv /\ [Next]_vars => AlarmInv'
  <2> SUFFICES ASSUME StkInv, AlarmInv, [Next]_vars, Clean'
               PROVE  descr' # "OUT_of_sync" /\ (armed' => Undisturbed')
    BY DEF AlarmInv
  <2>1. CASE RunProgrammer
    BY <2>1, TickKeepsAlarm
  <2>2. ASSUME NEW f \in Files, Program(f) PROVE descr' # "OUT_of_sync" /\ Undisturbed'
    BY <2>2 DEF Program, Undisturbed
  <2>3. ASSUME NEW n \in 1 .. 5, RecvCharTask(n)
        PROVE  descr' # "OUT_of_sync" /\ (armed' => Undisturbed')
    <3>1. ring' \o wire' = ring \o wire
      BY <2>3, RingReads
    <3>2. /\ UNCHANGED <<stage, descr, armed, bad, mishaps>>
      BY <2>3 DEF RecvCharTask, progVars, pinVars, histVars
    <3>3. Clean
      BY <3>2 DEF Clean
    <3> QED
      BY <3>1, <3>2, <3>3 DEF AlarmInv, Undisturbed, Expected
  <2>4. CASE StopReset \/ OtherPost \/ OtherReader \/ UNCHANGED vars
    <3>1. UNCHANGED <<stage, descr, armed, bad, ring, wire>> /\ mishaps \subseteq mishaps'
      BY <2>4 DEF StopReset, OtherPost, OtherReader, Meets, vars, progVars, pinVars,
         lineVars, histVars
    <3>2. Clean
      BY <3>1 DEF Clean
    <3> QED
      BY <3>1, <3>2 DEF AlarmInv, Undisturbed, Expected
  <2> QED
    BY <2>1, <2>2, <2>3, <2>4 DEF Next
<1>3. AlarmInv => NoFalseAlarm
  BY DEF AlarmInv, NoFalseAlarm, Clean
<1> QED
  BY <1>1, <1>2, <1>3, StkInductive, PTL DEF Spec
-----------------------------------------------------------------------------
(* A finished session. *)

\* The data records of a hex file come first and leave no gap: the code never
\* looks at the address of a record.
Contiguous(f) ==
  \A k \in 1 .. Len(f) :
    f[k].data =>
      /\ k = 1 => f[k].addr = 0
      /\ k > 1 => f[k - 1].data /\ f[k].addr = f[k - 1].addr + Len(f[k - 1].vals)

\* The file in the store is the one that was posted.
Header == [data |-> FALSE, addr |-> 0, vals |-> <<>>]
FileIn == /\ file \in Files /\ Contiguous(file)
          /\ lines = <<Header>> \o file /\ fposStart = 1 /\ fsize = Len(file)

EndOf(k)    == file[k].addr + Len(file[k].vals)
LastData(k) == k = Len(file) \/ ~file[k + 1].data

\* All data is before d.
Past(d) == \A k \in 1 .. Len(file) : file[k].data => EndOf(k) <= d

\* rest is what record k holds from d on.
RestOf(rest, k, d) ==
  /\ k \in 1 .. Len(file) /\ file[k].data
  /\ file[k].addr <= d /\ d + Len(rest) = EndOf(k)
  /\ \A i \in 1 .. Len(rest) : rest[i] = file[k].vals[d - file[k].addr + i]

\* With the cursor at pos and rest in cline, the next byte read is that at d.
\* Once the last record is in cline it does not matter where the cursor is:
\* ff_seek may have put it back from the end to the last line.
ReadsFrom(pos, rest, d) ==
  \/ \E k \in 1 .. Len(file) : RestOf(rest, k, d) /\ (pos = k + 1 \/ LastData(k))
  \/ pos = 1 /\ rest = <<>> /\ d = 0
  \/ Past(d)

\* b is what the file has at d, if it has anything.
ByteAt(d, b) ==
  \A k \in 1 .. Len(file) :
    file[k].data =>
      \A j \in 1 .. Len(file[k].vals) : file[k].addr + j - 1 = d => file[k].vals[j] = b

LEMMA FileLines ==
  ASSUME FileIn
  PROVE  /\ file \in Seq(Line) /\ Len(file) \in Nat /\ Csize = Len(file) + 1
         /\ \A k \in 1 .. Len(file) : /\ lines[k + 1] = file[k] /\ file[k] \in Line
                                      /\ file[k].addr \in Nat
                                      /\ file[k].vals \in Seq(Bytes)
                                      /\ Len(file[k].vals) \in Nat
                                      /\ file[k].data => file[k].vals # <<>>
<1>1. file \in Seq(Line)
  BY Stk500Assumption DEF Stk500Assumption, FileIn
<1>2. Header \in Line
  <2>1. <<>> \in Seq(Bytes)
    OBVIOUS
  <2>2. Header \in [data : BOOLEAN, addr : Nat, vals : Seq(Bytes)] /\ ~Header.data
    BY <2>1 DEF Header
  <2> QED
    BY <2>2 DEF Line
<1>3. <<Header>> \in Seq(Line) /\ Len(<<Header>>) = 1
  BY <1>2
<1>4. Len(lines) = Len(file) + 1 /\ \A k \in 1 .. Len(file) : lines[k + 1] = file[k]
  BY <1>1, <1>3, ConcatProperties DEF FileIn
<1>5. \A k \in 1 .. Len(file) : file[k] \in Line
  BY <1>1, ElementOfSeq
<1>6. \A l \in Line : l.addr \in Nat /\ l.vals \in Seq(Bytes) /\ (l.data => l.vals # <<>>)
  BY DEF Line
<1>7. \A k \in 1 .. Len(file) : file[k].vals \in Seq(Bytes) /\ Len(file[k].vals) \in Nat
  BY <1>5, <1>6
<1> QED
  BY <1>1, <1>4, <1>5, <1>6, <1>7 DEF Csize

\* Records do not overlap, and those before a data record are data records.
LEMMA Ordered ==
  ASSUME FileIn, NEW k \in 1 .. Len(file), NEW l \in 1 .. Len(file), k < l, file[l].data
  PROVE  file[k].data /\ EndOf(k) <= file[l].addr
<1> DEFINE D == {n \in Nat : \A m \in 1 .. Len(file) :
                   m = k + 1 + n /\ file[m].data => file[k].data /\ EndOf(k) <= file[m].addr}
<1>1. /\ Len(file) \in Nat
      /\ \A m \in 1 .. Len(file) : file[m].addr \in Nat /\ Len(file[m].vals) \in Nat
  BY FileLines
<1>2. \A m \in 1 .. Len(file) :
        file[m].data /\ m > 1 => file[m - 1].data /\ file[m].addr = EndOf(m - 1)
  BY DEF FileIn, Contiguous, EndOf
<1>3. 0 \in D
  BY <1>1, <1>2 DEF EndOf
<1>4. ASSUME NEW n \in Nat, n \in D PROVE n + 1 \in D
  <2> SUFFICES ASSUME NEW m \in 1 .. Len(file), m = k + 1 + (n + 1), file[m].data
               PROVE  file[k].data /\ EndOf(k) <= file[m].addr
    OBVIOUS
  <2>1. m - 1 \in 1 .. Len(file) /\ m - 1 = k + 1 + n /\ m > 1
    BY <1>1
  <2>2. file[m - 1].data /\ file[m].addr = EndOf(m - 1)
    BY <1>2, <2>1
  <2>3. file[k].data /\ EndOf(k) <= file[m - 1].addr
    BY <1>4, <2>1, <2>2
  <2>4. EndOf(m - 1) = file[m - 1].addr + Len(file[m - 1].vals)
    BY DEF EndOf
  <2>5. EndOf(k) \in Nat /\ file[m - 1].addr \in Nat /\ Len(file[m - 1].vals) \in Nat
    BY <1>1, <2>1 DEF EndOf
  <2> QED
    BY <2>2, <2>3, <2>4, <2>5
<1> HIDE DEF D
<1>5. Nat \subseteq D
  BY <1>3, <1>4, SetInduction
<1>6. l - (k + 1) \in D
  BY <1>1, <1>5
<1> QED
  BY <1>1, <1>6 DEF D

\* The next byte of a record.
LEMMA RestRead ==
  ASSUME FileIn, NEW rest \in Seq(Bytes), NEW k, NEW d \in Nat, RestOf(rest, k, d), rest # <<>>
  PROVE  RestOf(Tail(rest), k, d + 1) /\ ByteAt(d, Head(rest))
<1>1. /\ k \in 1 .. Len(file) /\ file[k].data /\ file[k].addr <= d /\ d + Len(rest) = EndOf(k)
      /\ \A i \in 1 .. Len(rest) : rest[i] = file[k].vals[d - file[k].addr + i]
  BY DEF RestOf
<1>2. /\ Len(file) \in Nat
      /\ \A m \in 1 .. Len(file) : file[m].addr \in Nat /\ Len(file[m].vals) \in Nat
  BY FileLines
<1>3. /\ Len(rest) \in Nat \ {0} /\ Tail(rest) \in Seq(Bytes) /\ Len(Tail(rest)) = Len(rest) - 1
      /\ Head(rest) = rest[1]
      /\ \A i \in 1 .. Len(rest) - 1 : Tail(rest)[i] = rest[i + 1]
  BY EmptySeq, HeadTailProperties
<1>4. RestOf(Tail(rest), k, d + 1)
  <2>1. EndOf(k) \in Nat /\ file[k].addr \in Nat /\ file[k].addr <= d + 1
    BY <1>1, <1>2 DEF EndOf
  <2>2. d + 1 + Len(Tail(rest)) = EndOf(k)
    BY <1>1, <1>3, <2>1
  <2> DEFINE t == Tail(rest)
             e == d + 1
  <2>3. ASSUME NEW i \in 1 .. Len(t)
        PROVE  t[i] = file[k].vals[e - file[k].addr + i]
    <3>1. i + 1 \in 1 .. Len(rest) /\ Tail(rest)[i] = rest[i + 1]
      BY <1>3
    <3> DEFINE x == d - file[k].addr + (i + 1)
               y == e - file[k].addr + i
    <3>2. rest[i + 1] = file[k].vals[x]
      BY <1>1, <3>1
    <3>3. i \in Int /\ x = y
      BY <1>3, <2>1
    <3> HIDE DEF x, y, t
    <3>4. rest[i + 1] = file[k].vals[y]
      BY <3>2, <3>3
    <3>5. t[i] = file[k].vals[y]
      BY <3>1, <3>4, Zenon DEF t
    <3> QED
      BY <3>5 DEF y
  <2>4. k \in 1 .. Len(file) /\ file[k].data /\ file[k].addr <= e /\ e + Len(t) = EndOf(k)
    BY <1>1, <2>1, <2>2
  <2> HIDE DEF t, e
  <2>5. RestOf(t, k, e)
    BY <2>3, <2>4 DEF RestOf
  <2> QED
    BY <2>5 DEF t, e
<1>5. ByteAt(d, Head(rest))
  <2> SUFFICES ASSUME NEW m \in 1 .. Len(file), file[m].data,
                      NEW j \in 1 .. Len(file[m].vals), file[m].addr + j - 1 = d
               PROVE  file[m].vals[j] = Head(rest)
    BY DEF ByteAt
  <2>1. d < EndOf(m) /\ file[m].addr <= d /\ d < EndOf(k)
    <3>1. file[m].addr \in Nat /\ Len(file[m].vals) \in Nat
      BY <1>2
    <3>2. d < EndOf(m) /\ file[m].addr <= d
      BY <3>1 DEF EndOf
    <3>3. EndOf(k) = d + Len(rest) /\ Len(rest) >= 1
      BY <1>1, <1>3
    <3> QED
      BY <3>2, <3>3
  <2>2. ~(m < k) /\ ~(k < m)
    <3>1. EndOf(m) \in Int /\ EndOf(k) \in Int /\ file[m].addr \in Nat /\ file[k].addr \in Nat
      BY <1>1, <1>2 DEF EndOf
    <3>2. m < k => EndOf(m) <= file[k].addr
      BY <1>1, Ordered
    <3>3. k < m => EndOf(k) <= file[m].addr
      BY <1>1, Ordered
    <3>4. file[k].addr <= d
      BY <1>1
    <3> QED
      BY <2>1, <3>1, <3>2, <3>3, <3>4
  <2>3. m = k
    BY <1>1, <1>2, <2>2
  <2>4. file[k].addr + j - 1 = d /\ file[k].addr \in Nat /\ j \in Nat
    BY <1>1, <1>2, <2>3
  <2>5. d - file[k].addr + 1 = j
    BY <2>4
  <2>6. 1 \in 1 .. Len(rest)
    BY <1>3
  <2>7. rest[1] = file[k].vals[d - file[k].addr + 1]
    BY <1>1, <2>6
  <2> QED
    BY <1>3, <2>3, <2>5, <2>7
<1> QED
  BY <1>4, <1>5

\* When nothing is left of the last record, all data is past.
LEMMA LastRead ==
  ASSUME FileIn, NEW k, NEW d \in Nat, RestOf(<<>>, k, d), LastData(k)
  PROVE  Past(d)
<1>1. k \in 1 .. Len(file) /\ file[k].data /\ d = EndOf(k)
  BY FileLines DEF RestOf, EndOf
<1> SUFFICES ASSUME NEW m \in 1 .. Len(file), file[m].data PROVE EndOf(m) <= d
  BY DEF Past
<1>2. Len(file) \in Nat /\ \A l \in 1 .. Len(file) : file[l].addr \in Nat /\ Len(file[l].vals) \in Nat
  BY FileLines
<1>3. CASE m = k
  BY <1>1, <1>2, <1>3 DEF EndOf
<1>4. CASE m < k
  BY <1>1, <1>2, <1>4, Ordered DEF EndOf
<1>5. CASE k < m
  <2>1. k + 1 \in 1 .. Len(file) /\ ~file[k + 1].data
    BY <1>1, <1>2, <1>5 DEF LastData
  <2>2. k + 1 < m
    BY <1>1, <1>2, <1>5, <2>1
  <2> QED
    BY <2>1, <2>2, Ordered
<1> QED
  BY <1>1, <1>2, <1>3, <1>4, <1>5

\* A record that is fetched.
LEMMA FetchWhole ==
  ASSUME FileIn, NEW k \in 1 .. Len(file), file[k].data
  PROVE  RestOf(file[k].vals, k, file[k].addr)
<1>1. file[k].addr \in Nat /\ Len(file[k].vals) \in Nat
  BY FileLines
<1>2. \A i \in 1 .. Len(file[k].vals) : file[k].addr - file[k].addr + i = i
  BY <1>1
<1> QED
  BY <1>1, <1>2 DEF RestOf, EndOf

\* read_next_byte, outside the data.
LEMMA PastRead ==
  ASSUME FileIn, NEW d \in Nat, Past(d), NEW b
  PROVE  Past(d + 1) /\ ByteAt(d, b)
<1>1. \A l \in 1 .. Len(file) : file[l].addr \in Nat /\ Len(file[l].vals) \in Nat
  BY FileLines
<1>2. Past(d + 1)
  BY <1>1 DEF Past, EndOf
<1>3. ByteAt(d, b)
  <2> SUFFICES ASSUME NEW m \in 1 .. Len(file), file[m].data,
                      NEW j \in 1 .. Len(file[m].vals), file[m].addr + j - 1 = d
               PROVE  FALSE
    BY DEF ByteAt
  <2>1. file[m].addr + Len(file[m].vals) <= d
    BY DEF Past, EndOf
  <2> QED
    BY <1>1, <2>1
<1> QED
  BY <1>2, <1>3

\* read_next_byte takes the byte at d, and says "end" only past the data.
LEMMA ByteRead ==
  ASSUME StoreTyped, FileIn, NEW s \in Reading, NEW d \in Nat, ReadsFrom(s.pos, s.rest, d)
  PROVE  LET r == ReadNextByte(s) IN
         /\ ReadsFrom(r.pos, r.rest, d + 1)
         /\ r.end => Past(d + 1)
         /\ \E b : r.out = Append(s.out, b) /\ ByteAt(d, b)
<1> DEFINE r == ReadNextByte(s)
           fetch == s.rest = <<>> /\ s.pos - fposStart < fsize /\ s.pos < Csize
           line == lines[s.pos + 1]
           rest == IF ~fetch THEN s.rest ELSE IF line.data THEN line.vals ELSE <<>>
           pos == IF fetch THEN s.pos + 1 ELSE s.pos
<1> SUFFICES /\ ReadsFrom(r.pos, r.rest, d + 1)
             /\ r.end => Past(d + 1)
             /\ \E b : r.out = Append(s.out, b) /\ ByteAt(d, b)
  OBVIOUS
<1>1. r = IF rest = <<>>
          THEN [pos |-> pos, rest |-> rest, out |-> Append(s.out, "FF"), end |-> TRUE]
          ELSE [pos |-> pos, rest |-> Tail(rest), out |-> Append(s.out, Head(rest)),
                end |-> FALSE]
  BY DEF ReadNextByte
<1>2. /\ s.pos \in 0 .. Csize /\ s.rest \in Seq(Bytes)
      /\ file \in Seq(Line) /\ Len(file) \in Nat /\ Csize = Len(file) + 1
      /\ fposStart = 1 /\ fsize = Len(file)
  BY FileLines DEF Reading, FileIn
<1>3. fetch <=> s.rest = <<>> /\ s.pos <= Len(file)
  BY <1>2
<1>4. ASSUME NEW k, rest \in Seq(Bytes), rest # <<>>, RestOf(rest, k, d), pos = k + 1 \/ LastData(k)
      PROVE  /\ ReadsFrom(r.pos, r.rest, d + 1)
             /\ r.end => Past(d + 1)
             /\ \E b : r.out = Append(s.out, b) /\ ByteAt(d, b)
  <2>1. r.pos = pos /\ r.rest = Tail(rest) /\ r.out = Append(s.out, Head(rest)) /\ r.end = FALSE
    BY <1>1, <1>4
  <2> HIDE DEF r, rest, pos
  <2>2. RestOf(Tail(rest), k, d + 1) /\ ByteAt(d, Head(rest))
    BY <1>4, RestRead
  <2>3. k \in 1 .. Len(file)
    BY <1>4 DEF RestOf
  <2> QED
    BY <1>4, <2>1, <2>2, <2>3 DEF ReadsFrom
<1>5. CASE Past(d)
  <2>1. \E b : r.out = Append(s.out, b)
    BY <1>1
  <2> HIDE DEF r
  <2> QED
    BY <1>5, <2>1, PastRead DEF ReadsFrom
<1>6. CASE ~Past(d) /\ s.rest # <<>>
  <2>1. rest = s.rest /\ pos = s.pos
    BY <1>3, <1>6
  <2>2. PICK k \in 1 .. Len(file) : RestOf(s.rest, k, d) /\ (s.pos = k + 1 \/ LastData(k))
    BY <1>6 DEF ReadsFrom
  <2> HIDE DEF rest, pos, r
  <2> QED
    BY <1>2, <1>4, <1>6, <2>1, <2>2
<1>7. CASE ~Past(d) /\ s.rest = <<>>
  <2>1. PICK k \in 0 .. Len(file) :
          /\ s.pos = k + 1
          /\ k = 0 => d = 0
          /\ k # 0 => RestOf(<<>>, k, d) /\ ~LastData(k)
    <3>1. CASE s.pos = 1 /\ d = 0
      BY <1>2, <3>1
    <3>2. CASE \E k \in 1 .. Len(file) : RestOf(<<>>, k, d) /\ (s.pos = k + 1 \/ LastData(k))
      BY <1>2, <1>7, <3>2, LastRead
    <3> QED
      BY <1>7, <3>1, <3>2 DEF ReadsFrom
  <2>2. k + 1 \in 1 .. Len(file) /\ file[k + 1].data
    <3>1. CASE k # 0
      BY <1>2, <2>1, <3>1 DEF LastData
    <3>2. CASE k = 0
      <4> SUFFICES ASSUME ~(1 \in 1 .. Len(file) /\ file[1].data) PROVE FALSE
        BY <3>2
      <4>1. ASSUME NEW m \in 1 .. Len(file), file[m].data PROVE FALSE
        <5>1. 1 \in 1 .. Len(file)
          BY <1>2
        <5>2. m = 1 \/ 1 < m
          BY <1>2
        <5> QED
          BY <4>1, <5>1, <5>2, Ordered
      <4> QED
        BY <1>7, <4>1 DEF Past
    <3> QED
      BY <3>1, <3>2
  <2>3. file[k + 1].addr = d
    <3>1. CASE k = 0
      BY <2>1, <2>2, <3>1 DEF FileIn, Contiguous
    <3>2. CASE k # 0
      <4>1. k \in 1 .. Len(file) /\ d = EndOf(k)
        BY <1>2, <2>1, <3>2, FileLines DEF RestOf, EndOf
      <4>2. k + 1 > 1 /\ (k + 1) - 1 = k
        BY <4>1
      <4> QED
        BY <2>2, <4>1, <4>2 DEF FileIn, Contiguous, EndOf
    <3> QED
      BY <3>1, <3>2
  <2>4. /\ lines[k + 2] = file[k + 1] /\ file[k + 1].vals \in Seq(Bytes)
        /\ file[k + 1].vals # <<>> /\ s.pos + 1 = k + 2
    BY <1>2, <2>1, <2>2, FileLines
  <2>5. rest = file[k + 1].vals /\ pos = (k + 1) + 1
    BY <1>2, <1>3, <1>7, <2>1, <2>2, <2>4
  <2>6. RestOf(file[k + 1].vals, k + 1, d)
    BY <2>2, <2>3, FetchWhole
  <2> HIDE DEF rest, pos, r
  <2> QED
    BY <1>4, <2>4, <2>5, <2>6
<1> HIDE DEF r
<1> QED
  BY <1>5, <1>6, <1>7

\* A page holds what the file has from d on, and ends only past the data.
LEMMA PageBytes ==
  ASSUME StoreTyped, FileIn, NEW cursor \in 0 .. Csize, NEW d \in Nat,
         ReadsFrom(cursor, cline, d)
  PROVE  /\ ReadsFrom(Page(cursor).pos, Page(cursor).rest, d + PAGE_SIZE)
         /\ Page(cursor).end => Past(d + PAGE_SIZE)
         /\ \A n \in 1 .. PAGE_SIZE : ByteAt(d + n - 1, Page(cursor).out[n])
<1>1. PAGE_SIZE \in Nat \ {0}
  BY Stk500Assumption DEF Stk500Assumption
<1>2. PICK g : /\ Run(g, PAGE_SIZE, Reading, PageStart(cursor), ReadStep)
               /\ Page(cursor) = g[PAGE_SIZE]
  BY Stk500Assumption, PageRuns
<1>3. /\ g \in [0 .. PAGE_SIZE -> Reading] /\ g[0] = PageStart(cursor)
      /\ \A i \in 1 .. PAGE_SIZE : g[i] = ReadStep[g[i - 1]]
  BY <1>2 DEF Run
<1> DEFINE Holds(i) == /\ ReadsFrom(g[i].pos, g[i].rest, d + i)
                       /\ i > 0 /\ g[i].end => Past(d + i)
                       /\ Len(g[i].out) = i
                       /\ \A n \in 1 .. i : ByteAt(d + n - 1, g[i].out[n])
           D == {i \in Nat : i <= PAGE_SIZE => Holds(i)}
<1>4. 0 \in D
  <2>1. g[0].pos = cursor /\ g[0].rest = cline /\ g[0].out = <<>> /\ d + 0 = d
    BY <1>3 DEF PageStart
  <2> HIDE DEF D
  <2>2. Holds(0)
    BY <2>1
  <2> QED
    BY <2>2 DEF D
<1>5. ASSUME NEW i \in Nat, i \in D PROVE i + 1 \in D
  <2> SUFFICES ASSUME i + 1 <= PAGE_SIZE PROVE Holds(i + 1)
    OBVIOUS
  <2>1. Holds(i) /\ g[i] \in Reading /\ g[i + 1] \in Reading
    BY <1>1, <1>3, <1>5
  <2>2. g[i + 1] = ReadNextByte(g[i])
    <3>1. i + 1 \in 1 .. PAGE_SIZE /\ (i + 1) - 1 = i
      BY <1>1
    <3>2. g[i + 1] = ReadStep[g[i]]
      BY <1>3, <3>1
    <3> QED
      BY <2>1, <3>2 DEF ReadStep
  <2> DEFINE s == g[i]
             r == g[i + 1]
             e == d + i
  <2>3. s \in Reading /\ ReadsFrom(s.pos, s.rest, e) /\ e \in Nat
    BY <2>1
  <2>4. /\ ReadsFrom(r.pos, r.rest, e + 1)
        /\ r.end => Past(e + 1)
        /\ \E b : r.out = Append(s.out, b) /\ ByteAt(e, b)
    <3> HIDE DEF s, e, Holds, D
    <3> QED
      BY <2>2, <2>3, ByteRead DEF s
  <2>5. e + 1 = d + (i + 1)
    BY <2>3
  <2>6. PICK b : r.out = Append(s.out, b) /\ ByteAt(e, b)
    BY <2>4
  <2>7. s.out \in Seq(Bytes) /\ r.out \in Seq(Bytes) /\ Len(s.out) = i
    BY <2>1 DEF Reading
  <2>8. Len(r.out) = i + 1 /\ r.out[i + 1] = b /\ \A n \in 1 .. i : r.out[n] = s.out[n]
    <3> HIDE DEF r, s, Holds, D
    <3> QED
      BY <2>6, <2>7
  <2>9. ASSUME NEW n \in 1 .. (i + 1) PROVE ByteAt(d + n - 1, r.out[n])
    <3>1. CASE n = i + 1
      <4>1. d + n - 1 = e /\ r.out[n] = b
        BY <2>8, <3>1
      <4> HIDE DEF r, e
      <4> QED
        BY <2>6, <4>1
    <3>2. CASE n # i + 1
      <4>1. n \in 1 .. i
        BY <3>2
      <4>2. ByteAt(d + n - 1, s.out[n])
        BY <2>1, <4>1
      <4> HIDE DEF r, s
      <4> QED
        BY <2>8, <4>1, <4>2
    <3> QED
      BY <3>1, <3>2
  <2> QED
    BY <2>4, <2>5, <2>8, <2>9
<1> HIDE DEF D, Holds
<1>6. Nat \subseteq D
  BY <1>4, <1>5, SetInduction
<1>7. Holds(PAGE_SIZE)
  BY <1>1, <1>6 DEF D
<1> QED
  BY <1>1, <1>2, <1>7 DEF Holds

\* What the file has before d is in the flash.
Written(d) ==
  \A k \in 1 .. Len(file) :
    file[k].data =>
      \A j \in 1 .. Len(file[k].vals) :
        LET a == file[k].addr + j - 1 IN
        a < d /\ a \in DOMAIN flash => flash[a] = file[k].vals[j]

\* A page written at the address loaded last.
LEMMA PageWritten ==
  ASSUME StoreTyped, FileIn, file' = file, loaded \in Nat,
         NEW e, e = 2 * loaded + PAGE_SIZE,
         NEW cursor \in 0 .. Csize, ReadsFrom(cursor, cline, 2 * loaded), Written(2 * loaded),
         ProgramPage(Page(cursor).out)
  PROVE  Written(e)'
<1> DEFINE d == 2 * loaded
           out == Page(cursor).out
<1>1. d \in Nat /\ PAGE_SIZE \in Nat
  BY Stk500Assumption DEF Stk500Assumption
<1>2. \A n \in 1 .. PAGE_SIZE : ByteAt(d + n - 1, out[n])
  BY <1>1, PageBytes
<1>3. flash' = [a \in DOMAIN flash |-> IF a >= d /\ a < d + PAGE_SIZE THEN out[a - d + 1] ELSE flash[a]]
  BY DEF ProgramPage
<1>4. \A k \in 1 .. Len(file) : file[k].addr \in Nat /\ Len(file[k].vals) \in Nat
  BY FileLines
<1>5. Written(d)
  OBVIOUS
<1> HIDE DEF d, out
<1>6. ASSUME NEW k \in 1 .. Len(file), file[k].data, NEW j \in 1 .. Len(file[k].vals), NEW a,
             a = file[k].addr + j - 1, a < d + PAGE_SIZE, a \in DOMAIN flash'
      PROVE  flash'[a] = file[k].vals[j]
  <2>1. a \in Nat /\ a \in DOMAIN flash
    BY <1>3, <1>4, <1>6
  <2>2. CASE a < d
    BY <1>1, <1>3, <1>5, <1>6, <2>1, <2>2 DEF Written
  <2>3. CASE a >= d
    <3>1. flash'[a] = out[a - d + 1]
      BY <1>3, <1>6, <2>1, <2>3
    <3>2. a - d + 1 \in 1 .. PAGE_SIZE /\ d + (a - d + 1) - 1 = a
      BY <1>1, <1>6, <2>1, <2>3
    <3>3. ByteAt(a, out[a - d + 1])
      BY <1>2, <3>2
    <3> QED
      BY <1>6, <3>1, <3>3 DEF ByteAt
  <2> QED
    BY <1>1, <2>1, <2>2, <2>3
<1>7. e = d + PAGE_SIZE
  BY DEF d
<1> QED
  BY <1>6, <1>7 DEF Written

\* Reading goes on at d, and what is before d has been written.
At(d) == ReadsFrom(Enter, cline, d) /\ Written(d)

Quiet == mishaps \subseteq {"late"}

InFile ==
  /\ FileIn
  /\ stage <= 5 => cline = <<>>
  /\ stage \in {4, 5} => At(0)
  /\ stage \in {6, 8} => \E d \in Nat : d = 2 * address /\ At(d)
  /\ stage = 7 => address = loaded + PageWords /\ \E d \in Nat : d = 2 * loaded /\ At(d)
  /\ stage \in {9, 10} => Programmed

DoneInv == Quiet => (stage = 11 => Programmed) /\ (armed => InFile)

\* ff_seek puts the cursor back from the end; it reads on all the same.
LEMMA SeekReads ==
  ASSUME FileIn, NEW pos \in 0 .. Csize, NEW rest, NEW d \in Nat, ReadsFrom(pos, rest, d)
  PROVE  ReadsFrom(Seek(pos), rest, d)
<1>1. Csize = Len(file) + 1 /\ Len(file) \in Nat
  BY FileLines
<1>2. CASE pos < Csize
  <2>1. Seek(pos) = pos
    BY <1>1, <1>2 DEF Seek
  <2> QED
    BY <2>1
<1>3. CASE pos = Csize
  <2>1. CASE pos = 1
    BY <1>1, <1>3, <2>1 DEF ReadsFrom, Past
  <2>2. CASE pos # 1
    <3>1. \A k \in 1 .. Len(file) : pos = k + 1 => LastData(k)
      BY <1>1, <1>3 DEF LastData
    <3> QED
      BY <2>2, <3>1 DEF ReadsFrom
  <2> QED
    BY <2>1, <2>2
<1> QED
  BY <1>1, <1>2, <1>3

\* The next tick enters where this one left, or where ff_seek puts that.
LEMMA LeaveEnter ==
  ASSUME StkInv, NEW cursor \in 0 .. Csize, Leave(cursor), lines' = lines
  PROVE  Enter' \in {cursor, Seek(cursor)}
<1>1. Csize \in Nat /\ cpos \in 0 .. Csize /\ fcur \in Nat \cup {-1}
  BY DEF StkInv, TypeOK, Csize
<1>2. PICK fpos \in (IF fcur >= 0 THEN {cpos} ELSE {-1} \cup 0 .. Csize) :
         /\ cpos' = (IF fpos >= 0 THEN Seek(fpos) ELSE cursor)
         /\ fcur' = (IF fpos >= 0 THEN cursor ELSE fcur)
  BY DEF Leave
<1>3. CASE fpos >= 0
  <2>1. fcur' = cursor /\ cursor >= 0
    BY <1>1, <1>2, <1>3
  <2>2. Enter' = Seek(cursor)
    BY <2>1 DEF Enter, Seek, Csize
  <2> QED
    BY <2>2
<1>4. CASE ~(fpos >= 0)
  <2>1. ~(fcur >= 0)
    BY <1>1, <1>2, <1>4
  <2>2. ~(fcur' >= 0) /\ cpos' = cursor
    BY <1>2, <1>4, <2>1
  <2> QED
    BY <2>2 DEF Enter
<1> QED
  BY <1>3, <1>4

LEMMA AtStays ==
  ASSUME StkInv, FileIn, NEW cursor \in 0 .. Csize, Leave(cursor), lines' = lines,
         NEW d \in Nat, ReadsFrom(cursor, cline', d), Written(d)', file' = file
  PROVE  At(d)'
<1>1. ReadsFrom(Enter', cline', d)
  BY LeaveEnter, SeekReads
<1>2. ReadsFrom(Enter, cline, d)'
  BY <1>1 DEF ReadsFrom, RestOf, LastData, Past, EndOf
<1> QED
  BY <1>2 DEF At

\* A tick that reads and programs nothing.
LEMMA TickStays ==
  ASSUME StkInv, FileIn, Leave(Enter), lines' = lines, NEW d \in Nat, At(d),
         UNCHANGED <<file, flash, cline>>
  PROVE  At(d)'
<1>1. ReadsFrom(Enter, cline, d) /\ Written(d)
  BY DEF At
<1>2. Written(d)'
  BY <1>1 DEF Written
<1>3. cline' = cline /\ file' = file
  OBVIOUS
<1>4. ReadsFrom(Enter, cline', d)
  BY <1>1, <1>3
<1> QED
  BY <1>2, <1>3, <1>4, EnterType, AtStays

LEMMA PastProgrammed ==
  ASSUME FileIn, file' = file, NEW d \in Nat, Past(d), Written(d)'
  PROVE  Programmed'
<1>1. \A k \in 1 .. Len(file) : file[k].addr \in Nat /\ Len(file[k].vals) \in Nat
  BY FileLines
<1>2. ASSUME NEW k \in 1 .. Len(file), file[k].data, NEW j \in 1 .. Len(file[k].vals), NEW a,
             a = file[k].addr + j - 1, a \in DOMAIN flash'
      PROVE  flash'[a] = file[k].vals[j]
  <2>1. a < d
    BY <1>1, <1>2 DEF Past, EndOf
  <2> QED
    BY <1>2, <2>1 DEF Written
<1> QED
  BY <1>2 DEF Programmed

\* Hypotheses: every file that is posted is contiguous, and pages are whole words.
GoodFiles == \A f \in Files : Contiguous(f)
EvenPages == PAGE_SIZE = 2 * PageWords

LEMMA TickKeepsDone ==
  ASSUME StkInv, DoneInv, EvenPages, RunProgrammer, Quiet'
  PROVE  (stage' = 11 => Programmed') /\ (armed' => InFile')
<1>1. /\ armed /\ mishaps \subseteq mishaps' /\ file' = file
      /\ flash' = flash \/ SendPage
  <2> USE DEF Ticks, Fires, Meets, Advance, histVars, devVars
  <2>1. CASE TimeOut \/ OutOfSync \/ NotConnected
    BY <2>1 DEF TimeOut, OutOfSync, NotConnected, Fail
  <2>2. CASE NothingYet \/ Sync \/ GetVersion \/ EnterProgMode \/ AskSignature
    BY <2>2 DEF NothingYet, Sync, GetVersion, EnterProgMode, AskSignature, GoesOn
  <2>3. CASE GotSignature \/ LoadAddress \/ SendPage
    BY <2>3 DEF GotSignature, LoadAddress, SendPage, GoesOn
  <2>4. CASE PageDone \/ LeaveProgMode \/ Finish
    BY <2>4 DEF PageDone, LeaveProgMode, Finish, GoesOn
  <2> QED
    BY <2>1, <2>2, <2>3, <2>4 DEF RunProgrammer
<1>2. InFile /\ FileIn /\ (stage = 11 => Programmed)
  BY <1>1 DEF Quiet, DoneInv, InFile
<1>3. flash' = flash /\ Programmed => Programmed'
  BY <1>1 DEF Programmed
<1>4. GoesOn => FileIn'
  BY <1>1, <1>2 DEF GoesOn, FileIn
<1>5. Enter \in 0 .. Csize /\ address \in Int /\ loaded \in Nat /\ PAGE_SIZE \in Nat
      /\ PageWords \in Int /\ (stage >= 6 => address >= 0) /\ stage \in 0 .. 11
  BY EnterType, Stk500Assumption DEF Stk500Assumption, StkInv, TypeOK, PageWords
<1>6. ASSUME GoesOn, Leave(Enter), UNCHANGED <<flash, cline>>, NEW d \in Nat, At(d)
      PROVE  At(d)'
  BY <1>1, <1>2, <1>6, TickStays DEF GoesOn
<1>7. CASE TimeOut \/ OutOfSync \/ NotConnected
  <2>1. armed' = FALSE /\ stage' = stage /\ flash' = flash
    BY <1>7 DEF TimeOut, OutOfSync, NotConnected, Fail, StopTicking, devVars
  <2> QED
    BY <1>2, <1>3, <2>1
<1>8. CASE Finish
  <2>1. armed' = FALSE /\ stage = 10 /\ flash' = flash
    BY <1>8 DEF Finish, StopTicking, devVars
  <2> QED
    BY <1>2, <1>3, <2>1 DEF InFile
<1>9. CASE NothingYet
  <2>1. /\ UNCHANGED <<stage, address, cline, flash, loaded>> /\ GoesOn /\ Leave(Enter)
    BY <1>9 DEF NothingYet, devVars
  <2>2. FileIn'
    BY <1>4, <2>1
  <2>3. \A d \in Nat : At(d) => At(d)'
    BY <1>6, <2>1
  <2>4. stage \in Waits /\ stage' = stage /\ stage # 11
    BY <1>9 DEF NothingYet, Waits
  <2>5. /\ stage \in {4, 5} => At(0)'
        /\ stage \in {6, 8} => \E d \in Nat : d = 2 * address /\ At(d)'
        /\ stage = 7 => \E d \in Nat : d = 2 * loaded /\ At(d)'
    BY <1>2, <2>3 DEF InFile
  <2>6. stage \in {9, 10} => Programmed'
    BY <1>2, <1>3, <2>1 DEF InFile
  <2>7. /\ stage <= 5 => cline = <<>>
        /\ stage = 7 => address = loaded + PageWords
    BY <1>2 DEF InFile
  <2> QED
    BY <2>1, <2>2, <2>4, <2>5, <2>6, <2>7 DEF InFile
<1>10. CASE Sync \/ GetVersion
  <2>1. /\ stage <= 3 /\ stage' \in 1 .. 3 /\ cline' = cline /\ GoesOn
    BY <1>10 DEF Sync, GetVersion, Advance
  <2>2. FileIn'
    BY <1>4, <2>1
  <2>3. cline' = <<>>
    BY <1>2, <1>5, <2>1 DEF InFile
  <2> QED
    BY <2>1, <2>2, <2>3 DEF InFile
<1>11. CASE EnterProgMode
  <2>1. /\ stage = 3 /\ stage' = 4 /\ cline' = cline /\ GoesOn /\ flash' = flash
        /\ Leave(Seek(fposStart))
    BY <1>11 DEF EnterProgMode, Advance, devVars
  <2>2. FileIn' /\ cline = <<>> /\ cline' = <<>> /\ lines' = lines
    BY <1>2, <1>4, <2>1 DEF InFile, GoesOn
  <2>3. /\ Csize = Len(file) + 1 /\ Len(file) \in Nat /\ fposStart = 1
        /\ \A k \in 1 .. Len(file) : file[k].addr \in Nat /\ Len(file[k].vals) \in Nat
    BY <1>2, FileLines DEF FileIn
  <2>4. ReadsFrom(1, <<>>, 0) /\ 1 \in 0 .. Csize
    BY <2>3 DEF ReadsFrom
  <2>5. ReadsFrom(Seek(1), <<>>, 0)
    BY <1>2, <2>4, SeekReads
  <2>6. Seek(fposStart) \in 0 .. Csize
    BY <2>3, SeekType DEF StkInv
  <2>7. Written(0)'
    BY <1>1, <2>3 DEF Written
  <2>8. At(0)'
    <3>1. ReadsFrom(Seek(fposStart), cline', 0)
      BY <2>2, <2>3, <2>5
    <3> QED
      BY <1>1, <1>2, <2>1, <2>2, <2>6, <2>7, <3>1, AtStays
  <2> QED
    BY <2>1, <2>2, <2>8 DEF InFile
<1>12. CASE AskSignature
  <2>1. /\ stage = 4 /\ stage' = 5 /\ cline' = cline /\ GoesOn /\ flash' = flash /\ Leave(Enter)
    BY <1>12 DEF AskSignature, Advance, devVars
  <2>2. FileIn' /\ cline = <<>> /\ At(0)
    BY <1>2, <1>4, <2>1 DEF InFile
  <2>3. At(0)'
    BY <1>6, <2>1, <2>2
  <2> QED
    BY <2>1, <2>2, <2>3 DEF InFile
<1>13. CASE GotSignature
  <2>1. /\ stage = 5 /\ stage' = 6 /\ cline' = cline /\ GoesOn /\ flash' = flash /\ Leave(Enter)
        /\ address' = 0
    BY <1>13 DEF GotSignature, Advance, devVars
  <2>2. FileIn' /\ At(0)
    BY <1>2, <1>4, <2>1 DEF InFile
  <2>3. At(0)' /\ 0 = 2 * address'
    BY <1>6, <2>1, <2>2
  <2> QED
    BY <2>1, <2>2, <2>3 DEF InFile
<1>14. CASE LoadAddress
  <2>1. /\ stage = 6 /\ stage' = 7 /\ cline' = cline /\ GoesOn /\ flash' = flash /\ Leave(Enter)
        /\ address' = address + PageWords /\ loaded' = address
    BY <1>14 DEF LoadAddress
  <2>2. FileIn' /\ \E d \in Nat : d = 2 * address /\ At(d)
    BY <1>2, <1>4, <2>1 DEF InFile
  <2>3. \E d \in Nat : d = 2 * loaded' /\ At(d)'
    BY <1>6, <2>1, <2>2
  <2> QED
    BY <2>1, <2>2, <2>3 DEF InFile
<1>15. CASE SendPage
  <2> DEFINE page == Page(Enter)
  <2>0. PICK e \in Nat : e = 2 * loaded + PAGE_SIZE
    BY <1>5
  <2>1. /\ stage = 7 /\ stage' = (IF page.end THEN 9 ELSE 8) /\ GoesOn
        /\ cline' = page.rest /\ ProgramPage(page.out) /\ Leave(page.pos)
        /\ address' = address /\ loaded' = loaded
    BY <1>15 DEF SendPage, Advance
  <2>2. /\ FileIn' /\ lines' = lines /\ address = loaded + PageWords
        /\ ReadsFrom(Enter, cline, 2 * loaded) /\ Written(2 * loaded)
    BY <1>2, <1>4, <2>1 DEF InFile, GoesOn, At
  <2>3. StoreTyped /\ 2 * loaded \in Nat /\ page \in Reading
    BY <1>5, PageType DEF StoreTyped, StkInv, TypeOK
  <2>4. ReadsFrom(page.pos, page.rest, e) /\ (page.end => Past(e))
    BY <1>2, <1>5, <2>0, <2>2, <2>3, PageBytes
  <2>5. Written(e)'
    BY <1>1, <1>2, <1>5, <2>0, <2>1, <2>2, <2>3, PageWritten
  <2>6. page.pos \in 0 .. Csize
    BY <2>3 DEF Reading
  <2>7. e = 2 * address'
    BY <1>5, <2>0, <2>1, <2>2 DEF EvenPages
  <2> HIDE DEF page
  <2>8. At(e)'
    BY <1>1, <1>2, <2>1, <2>2, <2>3, <2>4, <2>5, <2>6, AtStays
  <2>9. CASE page.end
    <3>1. Programmed'
      BY <1>1, <1>2, <2>3, <2>4, <2>5, <2>9, PastProgrammed
    <3> QED
      BY <2>1, <2>2, <2>9, <3>1 DEF InFile
  <2>10. CASE ~page.end
    BY <2>1, <2>2, <2>3, <2>7, <2>8, <2>10 DEF InFile
  <2> QED
    BY <2>9, <2>10
<1>16. CASE PageDone
  <2>1. /\ stage = 8 /\ stage' = 6 /\ cline' = cline /\ GoesOn /\ flash' = flash /\ Leave(Enter)
        /\ address' = address
    BY <1>16 DEF PageDone, Advance, devVars
  <2>2. FileIn' /\ \E d \in Nat : d = 2 * address /\ At(d)
    BY <1>2, <1>4, <2>1 DEF InFile
  <2>3. \E d \in Nat : d = 2 * address' /\ At(d)'
    BY <1>6, <2>1, <2>2
  <2> QED
    BY <2>1, <2>2, <2>3 DEF InFile
<1>17. CASE LeaveProgMode
  <2>1. stage = 9 /\ stage' = 10 /\ GoesOn /\ flash' = flash
    BY <1>17 DEF LeaveProgMode, Advance, devVars
  <2>2. FileIn' /\ Programmed'
    BY <1>2, <1>3, <1>4, <2>1 DEF InFile
  <2> QED
    BY <2>1, <2>2 DEF InFile
<1> QED
  BY <1>7, <1>8, <1>9, <1>10, <1>11, <1>12, <1>13, <1>14, <1>15, <1>16, <1>17 DEF RunProgrammer

\* "Finished" means programmed: when runProgrammer reaches stage 11 every byte of
\* the posted file is in the Arduino's flash at its address, whatever the length of
\* its records and of the pages, whenever the cursor of the POST store is put back
\* by ff_seek, however the answers trickle in; for files without gaps and sessions
\* that met no mishap but late answers.
THEOREM FinishedTheorem ==
  ASSUME GoodFiles, EvenPages
  PROVE  Spec => []FinishedIsComplete
<1>1. Init => DoneInv
  BY DEF Init, DoneInv
<1>2. StkInv /\ DoneInv /\ [Next]_vars => DoneInv'
  <2> SUFFICES ASSUME StkInv, DoneInv, [Next]_vars, Quiet'
               PROVE  (stage' = 11 => Programmed') /\ (armed' => InFile')
    BY DEF DoneInv
  <2>1. CASE RunProgrammer
    BY <2>1, TickKeepsDone
  <2>2. ASSUME NEW f \in Files, Program(f) PROVE stage' # 11 /\ InFile'
    <3>1. cline = <<>> /\ cline' = cline /\ stage' = 0
      BY <2>2 DEF Program, Quiet
    <3>2. FileIn'
      BY <2>2 DEF Program, FileIn, GoodFiles, Header
    <3> QED
      BY <3>1, <3>2 DEF InFile
  <2>3. CASE StopReset \/ (\E n \in 1 .. 5 : RecvCharTask(n)) \/ UNCHANGED vars
    <3>1. UNCHANGED <<progVars, fileVars, armed, storeVars, devVars, file, mishaps>>
      BY <2>3 DEF StopReset, RecvCharTask, vars, pinVars, histVars
    <3>2. Quiet
      BY <3>1 DEF Quiet
    <3> QED
      BY <3>1, <3>2 DEF DoneInv, InFile, FileIn, At, Written, ReadsFrom, RestOf, LastData, Past,
         EndOf, Enter, Seek, Csize, Programmed, progVars, fileVars, storeVars, devVars
  <2>4. CASE OtherPost
    BY <2>4 DEF OtherPost, Meets, Quiet
  <2>5. CASE OtherReader
    <3>1. /\ UNCHANGED <<progVars, fileVars, pinVars, lines, devVars, file>>
          /\ mishaps \subseteq mishaps' /\ (armed /\ fcur < 0 => "reader" \in mishaps')
      BY <2>5 DEF OtherReader, Meets
    <3>2. Quiet /\ (armed => ~(fcur < 0))
      BY <3>1 DEF Quiet
    <3>3. armed => Enter' = Enter
      BY <3>1, <3>2 DEF Enter, Seek, Csize, fileVars, StkInv, TypeOK
    <3>4. UNCHANGED <<stage, address, fposStart, fsize, cline, armed, lines, flash, loaded, file>>
      BY <3>1 DEF progVars, fileVars, pinVars, devVars
    <3>5. CASE ~armed
      BY <3>2, <3>4, <3>5 DEF DoneInv, Programmed
    <3>6. CASE armed
      <4>1. Enter' = Enter /\ InFile /\ (stage = 11 => Programmed)
        BY <3>2, <3>3, <3>6 DEF DoneInv
      <4> QED
        BY <3>4, <4>1 DEF InFile, FileIn, At, Written, ReadsFrom, RestOf, LastData,
           Past, EndOf, Programmed
    <3> QED
      BY <3>5, <3>6
  <2> QED
    BY <2>1, <2>2, <2>3, <2>4, <2>5 DEF Next
<1>3. DoneInv => FinishedIsComplete
  BY DEF DoneInv, FinishedIsComplete, Quiet
<1> QED
  BY <1>1, <1>2, <1>3, StkInductive, PTL DEF Spec
=============================================================================
