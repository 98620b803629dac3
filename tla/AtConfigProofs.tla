---------------------------- MODULE AtConfigProofs --------------------------
(***************************************************************************)
(* What every +++AT command line does to the settings, for any line: the   *)
(* settings keep their types, nothing but the station itself makes an      *)
(* address, and a line that changes the mode restarts the device.          *)
(***************************************************************************)
EXTENDS AtConfig, TLAPS

\* A change of the settings that makes no address: the network and the status
\* stay, or the status is not that there is one.
Keeps(d, e) == (e.sta = d.sta /\ e.status = d.status) \/ e.status # "gotip"

LEMMA BootedDev ==
  ASSUME NEW d \in DevType
  PROVE  /\ Booted(d) \in DevType /\ Keeps(d, Booted(d))
         /\ Booted(d).opmode = d.opmode /\ Booted(d).sta = d.sta
         /\ Booted(d).status # "gotip"
BY AtConfigAssumption DEF Booted, DevType, Keeps

LEMMA JoinDev ==
  ASSUME NEW d \in DevType, NEW n \in Networks \cup {NoNetwork}
  PROVE  Join(d, n) \in DevType /\ Keeps(d, Join(d, n))
BY DEF Join, DevType, Keeps

LEMMA RunDev ==
  ASSUME NEW d \in DevType, NEW l \in LineType, NEW cmd
  PROVE  Run(cmd, d, l).dev \in DevType /\ Keeps(d, Run(cmd, d, l).dev)
<1>1. Baud(d, l).dev \in DevType /\ Keeps(d, Baud(d, l).dev)
  BY DEF Baud, Ok, Error, Did, DevType, Keeps
<1>2. Mode(d, l).dev \in DevType /\ Keeps(d, Mode(d, l).dev)
  BY DEF Mode, Ok, Error, Did, DevType, Keeps
<1>3. Sta(d, l).dev \in DevType /\ Keeps(d, Sta(d, l).dev)
  BY JoinDev DEF Sta, Ok, Error, Did, LineType, Keeps
<1>4. Ap(d, l).dev \in DevType /\ Keeps(d, Ap(d, l).dev)
  BY DEF Ap, Ok, Error, Did, DevType, LineType, Keeps
<1>5. Debug(d, l).dev \in DevType /\ Keeps(d, Debug(d, l).dev)
  BY DEF Debug, Ok, Error, Did, DevType, Keeps
<1> HIDE DEF Baud, Mode, Sta, Ap, Debug
<1>6. ASSUME cmd \in {"USEC", "UPRI", "RESET", "IORST", "LON", "LOFF", "LFLASH"}
      PROVE  Run(cmd, d, l).dev \in DevType /\ Keeps(d, Run(cmd, d, l).dev)
  <2>1. CASE cmd \in {"USEC", "UPRI"}
    BY <2>1 DEF Run, Ok, Did, DevType, Keeps
  <2>2. CASE cmd = "RESET"
    BY <2>2 DEF Run, Did, Keeps
  <2>3. CASE cmd = "IORST"
    BY <2>3 DEF Run, Ok, Did, DevType, Keeps
  <2>4. CASE cmd \in {"LON", "LOFF"}
    BY <2>4 DEF Run, Ok, Did, DevType, Keeps
  <2>5. CASE cmd = "LFLASH"
    BY <2>5 DEF Run, Ok, Did, DevType, Keeps
  <2> QED
    BY <1>6, <2>1, <2>2, <2>3, <2>4, <2>5
<1>7. ASSUME cmd \notin {"BAUD", "USEC", "UPRI", "RESET", "MODE", "STA", "AP", "IORST",
                         "LON", "LOFF", "LFLASH", "DEBUG"}
      PROVE  Run(cmd, d, l) = Ok(d)
  BY <1>7 DEF Run
<1>8. Ok(d).dev \in DevType /\ Keeps(d, Ok(d).dev)
  BY DEF Ok, Did, Keeps
<1>9. ASSUME cmd \in {"BAUD", "MODE", "STA", "AP", "DEBUG"}
      PROVE  Run(cmd, d, l) \in {Baud(d, l), Mode(d, l), Sta(d, l), Ap(d, l), Debug(d, l)}
  BY <1>9 DEF Run
<1> QED
  BY <1>1, <1>2, <1>3, <1>4, <1>5, <1>6, <1>7, <1>8, <1>9

LEMMA ParseDev ==
  ASSUME NEW d \in DevType, NEW l \in LineType
  PROVE  /\ Parse(d, l).dev \in DevType /\ Keeps(d, Parse(d, l).dev)
         /\ After(d, l) \in DevType /\ Keeps(d, After(d, l))
<1>1. Parse(d, l).dev \in DevType /\ Keeps(d, Parse(d, l).dev)
  <2> DEFINE hits == {k \in 1 .. Len(Commands) : Commands[k] \in l.word}
             cmd  == Commands[Min(hits)]
  <2>1. CASE ~l.hasWord
    BY <2>1 DEF Parse, Ok, Did, Keeps
  <2>2. CASE l.hasWord /\ hits = {}
    BY <2>2 DEF Parse, Did, Keeps
  <2>3. CASE l.hasWord /\ hits # {}
    <3>1. Parse(d, l) = Run(cmd, d, l)
      BY <2>3 DEF Parse
    <3> QED
      BY <3>1, RunDev
  <2> QED
    BY <2>1, <2>2, <2>3 DEF LineType
<1>2. After(d, l) = Parse(d, l).dev \/ After(d, l) = Booted(Parse(d, l).dev)
  BY DEF After
<1>3. Keeps(d, Booted(Parse(d, l).dev))
  BY <1>1, BootedDev DEF Keeps
<1> QED
  BY <1>1, <1>2, <1>3, BootedDev

\* A line that does not restart the device leaves its mode.
RestartsForMode(did, d) == did.restart \/ did.dev.opmode = d.opmode

LEMMA RunMode ==
  ASSUME NEW d \in DevType, NEW l \in LineType, NEW cmd
  PROVE  RestartsForMode(Run(cmd, d, l), d)
<1>1. RestartsForMode(Baud(d, l), d)
  BY DEF Baud, Ok, Error, Did, DevType, RestartsForMode
<1>2. RestartsForMode(Mode(d, l), d)
  BY DEF Mode, Ok, Error, Did, DevType, RestartsForMode
<1>3. RestartsForMode(Sta(d, l), d)
  BY DEF Sta, Join, Ok, Error, Did, DevType, LineType, RestartsForMode
<1>4. RestartsForMode(Ap(d, l), d)
  BY DEF Ap, Ok, Error, Did, DevType, RestartsForMode
<1>5. RestartsForMode(Debug(d, l), d)
  BY DEF Debug, Ok, Error, Did, DevType, RestartsForMode
<1>6. ASSUME cmd \notin {"BAUD", "MODE", "STA", "AP", "DEBUG"}
      PROVE  RestartsForMode(Run(cmd, d, l), d)
  BY <1>6 DEF Run, Ok, Did, DevType, RestartsForMode
<1>7. ASSUME cmd \in {"BAUD", "MODE", "STA", "AP", "DEBUG"}
      PROVE  Run(cmd, d, l) \in {Baud(d, l), Mode(d, l), Sta(d, l), Ap(d, l), Debug(d, l)}
  <2> HIDE DEF Baud, Mode, Sta, Ap, Debug
  <2> QED
    BY <1>7 DEF Run
<1> HIDE DEF Baud, Mode, Sta, Ap, Debug
<1> QED
  BY <1>1, <1>2, <1>3, <1>4, <1>5, <1>6, <1>7

LEMMA ParseMode ==
  ASSUME NEW d \in DevType, NEW l \in LineType
  PROVE  RestartsForMode(Parse(d, l), d)
<1> DEFINE hits == {k \in 1 .. Len(Commands) : Commands[k] \in l.word}
           cmd  == Commands[Min(hits)]
<1>1. CASE ~l.hasWord
  BY <1>1 DEF Parse, Ok, Did, RestartsForMode
<1>2. CASE l.hasWord /\ hits = {}
  BY <1>2 DEF Parse, Did, RestartsForMode
<1>3. CASE l.hasWord /\ hits # {}
  <2>1. Parse(d, l) = Run(cmd, d, l)
    BY <1>3 DEF Parse
  <2> QED
    BY <2>1, RunMode
<1> QED
  BY <1>1, <1>2, <1>3 DEF LineType
=============================================================================
