------------------------------- MODULE MCWifi ------------------------------
(***************************************************************************)
(* An instance of Wifi for TLC: every command, with arguments that are     *)
(* missing, right, too many or out of range.                               *)
(***************************************************************************)
EXTENDS Wifi

\* "L" is the first of three commands; "M" is one.
MCLines ==
  {Line({"LON", "LOFF", "LFLASH"}, 0, 0, NoNetwork), Cmd("LOFF"), Cmd("LFLASH"),
   Cmd("RESET"), Blank, Cmd("IORST"), Cmd("HELP"), Cmd("XYZ"), Cmd("USEC"), Cmd("UPRI"),
   Line({"MODE"}, 1, 1, NoNetwork), Line({"MODE"}, 1, 2, NoNetwork),
   Line({"MODE"}, 1, 259, NoNetwork), Line({"MODE"}, 1, 7, NoNetwork),
   Line({"BAUD"}, 1, MaxBaud, NoNetwork), Line({"BAUD"}, 1, MaxBaud + 1, NoNetwork),
   Line({"DEBUG"}, 1, 1, NoNetwork), Line({"DEBUG"}, 2, 1, NoNetwork)}
  \cup {Line({"STA"}, 2, 0, n) : n \in Networks}
  \cup {Line({"AP"}, 1, 0, n) : n \in Working}
=============================================================================
