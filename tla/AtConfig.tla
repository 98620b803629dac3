------------------------------ MODULE AtConfig -----------------------------
(***************************************************************************)
(* The +++AT command lines of config.c, as operators on a record dev of    *)
(* the settings they read and change.  Telnet and Wifi give them to their  *)
(* clients.                                                                *)
(*                                                                         *)
(* A line is a record: word, the commands its first word is a prefix of    *)
(* (none when the line has no word), whether it has a word, argc, and what *)
(* its arguments say: num is atoi of the first, net the names given.       *)
(* Lines are shorter than 256 characters: the loop that looks for their    *)
(* end (config.c:351) counts in eight bits.                                *)
(***************************************************************************)
EXTENDS Integers, SequencesExt

CONSTANTS
  MaxBaud,      \* UART_CLK_FREQ / 16
  FirstBaud,    \* BIT_RATE_115200
  Networks,     \* what a station or access point can be set to
  NoNetwork     \* the setting of a new device

ASSUME AtConfigAssumption ==
  /\ MaxBaud \in Nat \ {0} /\ FirstBaud \in 1 .. MaxBaud
  /\ NoNetwork \notin Networks

\* config_commands, in the order it is searched.
Commands ==
  <<"HELP", "VER", "BAUD", "USEC", "UPRI", "IFCONFIG", "RESET", "MODE", "STA",
    "AP", "IORST", "LON", "LOFF", "LFLASH", "VOLTS", "DEBUG">>

\* The settings.  opmode: 1 station, 2 access point, 3 both.  sta and ap are
\* kept by the SDK over a restart; status is the station's.
DevType ==
  [opmode: 0 .. 3, sta: Networks \cup {NoNetwork}, status: {"idle", "connecting", "gotip"},
   ap: (Networks \cup {NoNetwork}) \X BOOLEAN,
   baud: 1 .. MaxBaud, primary: BOOLEAN, debug: BOOLEAN,
   led: BOOLEAN, ledTimer: BOOLEAN, resetLow: BOOLEAN]

\* After a restart: what user_init and the initial values set.  The SDK joins
\* the station's network by itself.
Booted(dev) ==
  [dev EXCEPT !.status = IF dev.opmode \in {1, 3} /\ dev.sta # NoNetwork
                         THEN "connecting" ELSE "idle",
              !.baud = FirstBaud, !.primary = TRUE, !.debug = FALSE,
              !.led = FALSE, !.ledTimer = FALSE, !.resetLow = FALSE]

NewDevice ==
  [opmode |-> 3, sta |-> NoNetwork, status |-> "idle", ap |-> <<NoNetwork, FALSE>>,
   baud |-> FirstBaud, primary |-> TRUE, debug |-> FALSE,
   led |-> FALSE, ledTimer |-> FALSE, resetLow |-> FALSE]

\* wifi_station_disconnect, wifi_station_set_config, wifi_station_connect.
\* Variant: the station is not disconnected first.
JoinStays(dev, net) == [dev EXCEPT !.sta = net]
Join(dev, net) ==
  [dev EXCEPT !.sta = net,
              !.status = IF dev.opmode \in {1, 3} THEN "connecting" ELSE "idle"]
-----------------------------------------------------------------------------
\* What a line does: the settings, the answer, and whether the device restarts
\* (after the answer was handed over).
Did(dev, reply, restart) == [dev |-> dev, reply |-> reply, restart |-> restart]
Ok(dev)    == Did(dev, "OK", FALSE)
Error(dev) == Did(dev, "ERROR", FALSE)

Baud(dev, l) ==
  IF l.argc = 1 /\ l.num \in 1 .. MaxBaud
  THEN Ok([dev EXCEPT !.baud = l.num]) ELSE Error(dev)

\* Variant: any mode is taken.
ModeUnchecked(dev, l) ==
  IF l.argc = 1 THEN Did([dev EXCEPT !.opmode = l.num % 256], "OK", TRUE) ELSE Error(dev)

\* The mode is kept in eight bits.
Mode(dev, l) ==
  LET mode == l.num % 256 IN
  CASE l.argc = 0 -> Ok(dev)
    [] l.argc = 1 /\ mode = dev.opmode -> Ok(dev)
    [] l.argc = 1 /\ mode # dev.opmode /\ mode \in 0 .. 3 ->
         Did([dev EXCEPT !.opmode = mode], "OK", TRUE)
    [] OTHER -> Error(dev)

Sta(dev, l) ==
  CASE l.argc = 0 -> Ok(dev)
    [] l.argc = 2 -> Ok(Join(dev, l.net))
    [] OTHER      -> Error(dev)

\* With a password the network is protected.
Ap(dev, l) ==
  CASE l.argc = 0       -> Ok(dev)
    [] l.argc \in {1, 2} -> Ok([dev EXCEPT !.ap = <<l.net, l.argc = 2>>])
    [] OTHER            -> Error(dev)

Debug(dev, l) ==
  CASE l.argc = 0 -> Ok(dev)
    [] l.argc = 1 -> Ok([dev EXCEPT !.debug = (l.num # 0)])
    [] OTHER      -> Error(dev)

Run(cmd, dev, l) ==
  CASE cmd = "BAUD"   -> Baud(dev, l)
    [] cmd = "USEC"   -> Ok([dev EXCEPT !.primary = FALSE])
    [] cmd = "UPRI"   -> Ok([dev EXCEPT !.primary = TRUE])
    [] cmd = "RESET"  -> Did(dev, "OK", TRUE)
    [] cmd = "MODE"   -> Mode(dev, l)
    [] cmd = "STA"    -> Sta(dev, l)
    [] cmd = "AP"     -> Ap(dev, l)
    [] cmd = "IORST"  -> Ok([dev EXCEPT !.resetLow = TRUE])
    [] cmd = "LON"    -> Ok([dev EXCEPT !.led = TRUE])
    [] cmd = "LOFF"   -> Ok([dev EXCEPT !.led = FALSE])
    [] cmd = "LFLASH" -> Ok([dev EXCEPT !.led = TRUE, !.ledTimer = TRUE])
    [] cmd = "DEBUG"  -> Debug(dev, l)
    [] OTHER          -> Ok(dev)    \* HELP, VER, IFCONFIG, VOLTS

\* config_parse: the first command the word is a prefix of.
Parse(dev, l) ==
  LET hits == {k \in 1 .. Len(Commands) : Commands[k] \in l.word} IN
  IF ~l.hasWord THEN Ok(dev)
  ELSE IF hits = {} THEN Did(dev, "UNKNOWN COMMAND", FALSE)
  ELSE Run(Commands[Min(hits)], dev, l)

\* The device after a line.
After(dev, l) ==
  LET did == Parse(dev, l) IN IF did.restart THEN Booted(did.dev) ELSE did.dev

\* LFLASH's timer, and the end of the reset pulse (stopReset).
LedTimerCb(dev)  == [dev EXCEPT !.led = FALSE, !.ledTimer = FALSE]
StopReset(dev) == [dev EXCEPT !.resetLow = FALSE]

\* Lines, for the modules that check them.
LineType ==
  [hasWord: BOOLEAN, word: SUBSET STRING, argc: Nat, num: Int,
   net: Networks \cup {NoNetwork}]
Line(word, argc, num, net) ==
  [hasWord |-> TRUE, word |-> word, argc |-> argc, num |-> num, net |-> net]
Cmd(name) == Line({name}, 0, 0, NoNetwork)
Blank == [Cmd("") EXCEPT !.hasWord = FALSE]
=============================================================================
