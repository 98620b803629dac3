---------------------------- MODULE HttpService ----------------------------
(***************************************************************************)
(* What the web server promises each client, without slots, handlers or    *)
(* callbacks: a connection is accepted, asks, gets the pieces of its       *)
(* answer one at a time, and is closed by the server once the last piece   *)
(* has arrived and not before.  A client may go away at any time.          *)
(***************************************************************************)
EXTENDS Naturals

CONSTANTS
  Conns,
  Answers   \* the numbers of pieces answers may have, all positive

VARIABLES phase, owed      \* owed: pieces of the answer still to arrive

svars == <<phase, owed>>

Init ==
  /\ phase = [c \in Conns |-> "none"]
  /\ owed = [c \in Conns |-> 0]

Step(c, from, to, left) ==
  /\ phase[c] = from
  /\ phase' = [phase EXCEPT ![c] = to]
  /\ owed' = [owed EXCEPT ![c] = left]

Accept(c) == Step(c, "none", "asking", 0)
Ask(c)    == \E n \in Answers : Step(c, "asking", "answering", n)
Piece(c)  == owed[c] > 1 /\ Step(c, "answering", "answering", owed[c] - 1)
Finish(c) == owed[c] = 1 /\ Step(c, "answering", "ending", 0)
Abort(c)  == \E from \in {"asking", "answering"} : Step(c, from, "ending", 0)
Gone(c)   == Step(c, "ending", "none", 0)

Next == \E c \in Conns :
  Accept(c) \/ Ask(c) \/ Piece(c) \/ Finish(c) \/ Abort(c) \/ Gone(c)

\* An answer that was begun goes on, and a closed connection is released.
Fairness == \A c \in Conns :
  WF_svars(Piece(c) \/ Finish(c)) /\ WF_svars(Gone(c))

Safety == Init /\ [][Next]_svars
Spec   == Safety /\ Fairness
=============================================================================
