------------------------------ MODULE MCTelnet -----------------------------
(***************************************************************************)
(* An instance of Telnet for TLC: the board's characters and the command   *)
(* lines that matter to the bridge.                                        *)
(***************************************************************************)
EXTENDS Telnet, TLC

MCChars == 0 .. MaxSaid

\* The debug mode on, and a restart.
MCLines == {Line({"DEBUG"}, 1, 1, NoNetwork), Cmd("RESET")}

Symmetry == Permutations(Conns)
=============================================================================
