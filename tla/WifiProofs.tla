----------------------------- MODULE WifiProofs ----------------------------
(***************************************************************************)
(* The timer that switches the access point off locks nobody out, for any  *)
(* set of networks and any command lines.  What makes the invariant        *)
(* inductive is GotIp: an address is always one of the network stored.     *)
(***************************************************************************)
EXTENDS Wifi, AtConfigProofs

GotIp == dev.status = "gotip" => dev.sta \in Working

IInv == WifiTypeOK /\ GotIp /\ SwitchSafe

\* A step somebody asked for.
LEMMA AskedKeeps ==
  ASSUME IInv, Asks, dev' \in DevType, Keeps(dev, dev'),
         dev'.sta = dev.sta \/ dev'.status # "gotip"
  PROVE  GotIp' /\ SwitchSafe' /\ asked' \in BOOLEAN
BY DEF IInv, WifiTypeOK, GotIp, SwitchSafe, Asks, Keeps, AccessPoint

\* One that changes neither the mode nor the network.
LEMMA SameKeeps ==
  ASSUME IInv, dev' \in DevType, Keeps(dev, dev'), UNCHANGED asked,
         dev'.sta = dev.sta, dev'.opmode = dev.opmode
  PROVE  GotIp' /\ SwitchSafe'
BY DEF IInv, WifiTypeOK, GotIp, SwitchSafe, Keeps, AccessPoint

LEMMA ForgottenType ==
  ASSUME Forgotten
  PROVE  /\ {scanning', sdkScan', refused', reassTimer', resetTimer'} \subseteq BOOLEAN
         /\ noAps' \in 0 .. MaxAps /\ stconf' \in Networks \cup {NoNetwork}
<1>1. {scanning', sdkScan', refused', reassTimer', resetTimer'} \subseteq BOOLEAN
  BY Zenon DEF Forgotten
<1>2. noAps' \in 0 .. MaxAps /\ stconf' \in Networks \cup {NoNetwork}
  BY WifiAssumption DEF Forgotten
<1> QED
  BY <1>1, <1>2

LEMMA SdkKeeps ==
  ASSUME IInv, StationUp \/ StationFails \/ StationDown \/ ScanEnd
  PROVE  IInv'
<1>1. CASE StationUp
  BY <1>1 DEF StationUp, IInv, WifiTypeOK, GotIp, SwitchSafe, AccessPoint, DevType,
              scanVars, timerVars
<1>2. CASE StationFails
  BY <1>2 DEF StationFails, IInv, WifiTypeOK, GotIp, SwitchSafe, AccessPoint, DevType,
              scanVars, timerVars
<1>3. CASE StationDown
  BY <1>3 DEF StationDown, IInv, WifiTypeOK, GotIp, SwitchSafe, AccessPoint, DevType,
              scanVars, timerVars
<1>4. CASE ScanFailed
  BY <1>4 DEF ScanFailed, FailClearsFlag, IInv, WifiTypeOK, GotIp, SwitchSafe,
              AccessPoint, timerVars
<1>5. ASSUME NEW n \in 0 .. MaxAps, ScanDone(n)
      PROVE  IInv'
  BY <1>5 DEF ScanDone, IInv, WifiTypeOK, GotIp, SwitchSafe, AccessPoint, timerVars
<1> QED
  BY <1>1, <1>2, <1>3, <1>4, <1>5 DEF ScanEnd

LEMMA RequestKeeps ==
  ASSUME IInv, Requests
  PROVE  IInv'
<1> USE DEF IInv, WifiTypeOK
<1>1. CASE CgiWiFiScan
  BY <1>1 DEF CgiWiFiScan, Station, GotIp, SwitchSafe, AccessPoint, timerVars
<1>2. ASSUME NEW net \in Networks, CgiWiFiConnect(net)
      PROVE  IInv'
  BY <1>2 DEF CgiWiFiConnect, GotIp, SwitchSafe, AccessPoint, scanVars
<1>3. ASSUME NEW m \in 0 .. 4, CgiWifiSetMode(m)
      PROVE  IInv'
  <2> DEFINE d == SetOpmode(dev, m)
  <2>1. d \in DevType /\ d.sta = dev.sta
    BY DEF SetOpmode, DevType
  <2>2. dev' = Booted(d) /\ Forgotten /\ Asks
    BY <1>3 DEF CgiWifiSetMode
  <2>3. dev' \in DevType /\ dev'.status # "gotip"
    BY <2>1, <2>2, BootedDev
  <2> QED
    BY <2>2, <2>3, AskedKeeps, ForgottenType DEF Keeps
<1>4. ASSUME NEW l \in Lines, Command(l)
      PROVE  IInv'
  <2>1. l \in LineType
    BY WifiAssumption
  <2>2. dev' \in DevType /\ Keeps(dev, dev') /\ Asks
    BY <1>4, <2>1, ParseDev DEF Command
  <2>3. /\ {scanning', sdkScan', refused', reassTimer', resetTimer'} \subseteq BOOLEAN
        /\ noAps' \in 0 .. MaxAps /\ stconf' \in Networks \cup {NoNetwork}
    BY <1>4, ForgottenType DEF Command, scanVars, timerVars
  <2> QED
    BY <2>2, <2>3, AskedKeeps DEF Keeps
<1> QED
  BY <1>1, <1>2, <1>3, <1>4 DEF Requests

LEMMA TimerKeeps ==
  ASSUME IInv, Timers
  PROVE  IInv'
<1> USE DEF IInv, WifiTypeOK
<1>1. CASE ReassTimerCb
  <2>1. dev' \in DevType /\ Keeps(dev, dev') /\ Asks
    BY <1>1, JoinDev DEF ReassTimerCb
  <2>2. /\ reassTimer' \in BOOLEAN /\ resetTimer' \in BOOLEAN
        /\ UNCHANGED <<stconf, scanVars>>
    BY <1>1 DEF ReassTimerCb
  <2> QED
    BY <2>1, <2>2, AskedKeeps DEF Keeps, scanVars
<1>2. CASE SwitchToSta
  <2> DEFINE d == [dev EXCEPT !.opmode = 1]
  <2>1. d \in DevType /\ d.sta = dev.sta /\ dev.sta \in Working
    BY <1>2 DEF SwitchToSta, Joined, GotIp, DevType
  <2>2. dev' = Booted(d) /\ Forgotten /\ UNCHANGED asked
    BY <1>2 DEF SwitchToSta
  <2>3. dev' \in DevType /\ dev'.sta \in Working
    BY <2>1, <2>2, BootedDev
  <2> QED
    BY <2>2, <2>3, ForgottenType DEF GotIp, SwitchSafe
<1>3. CASE StayInMode
  BY <1>3 DEF StayInMode, GotIp, SwitchSafe, AccessPoint, scanVars
<1>4. CASE PinTimers
  <2>1. /\ dev' \in DevType /\ Keeps(dev, dev') /\ UNCHANGED asked
        /\ dev'.sta = dev.sta /\ dev'.opmode = dev.opmode
    BY <1>4 DEF PinTimers, LedTimerCb, StopReset, DevType, Keeps
  <2> QED
    BY <1>4, <2>1, SameKeeps DEF PinTimers, scanVars, timerVars
<1> QED
  BY <1>1, <1>2, <1>3, <1>4 DEF Timers

\* The invariant of the wifi configuration holds whatever requests, command
\* lines and timers of cgiwifi.c and config.c come in between.
THEOREM WifiInductive == WifiSpec => []IInv
<1>1. WifiInit => IInv
  <2> SUFFICES ASSUME WifiInit PROVE IInv
    OBVIOUS
  <2>1. dev \in DevType
    <3>1. <<NoNetwork, FALSE>> \in (Networks \cup {NoNetwork}) \X BOOLEAN
      OBVIOUS
    <3>2. 3 \in 0 .. 3 /\ FirstBaud \in 1 .. MaxBaud
      BY AtConfigAssumption
    <3>3. NewDevice \in DevType
      BY <3>1, <3>2, Zenon DEF NewDevice, DevType
    <3> QED
      BY <3>3 DEF WifiInit
  <2>2. {scanning, sdkScan, refused, reassTimer, resetTimer, asked} \subseteq BOOLEAN
    BY Zenon DEF WifiInit
  <2>3. noAps \in 0 .. MaxAps /\ stconf \in Networks \cup {NoNetwork}
    BY WifiAssumption DEF WifiInit
  <2>4. GotIp /\ SwitchSafe
    BY DEF WifiInit, NewDevice, GotIp, SwitchSafe, AccessPoint
  <2> QED
    BY <2>1, <2>2, <2>3, <2>4 DEF IInv, WifiTypeOK
<1>2. IInv /\ [WifiNext]_wifiVars => IInv'
  <2> SUFFICES ASSUME IInv, [WifiNext]_wifiVars PROVE IInv'
    OBVIOUS
  <2>1. CASE UNCHANGED wifiVars
    BY <2>1 DEF wifiVars, scanVars, timerVars, IInv, WifiTypeOK, GotIp, SwitchSafe,
                AccessPoint
  <2> QED
    BY <2>1, SdkKeeps, RequestKeeps, TimerKeeps DEF WifiNext
<1> QED
  BY <1>1, <1>2, PTL DEF WifiSpec

\* Every variable of the wifi set-up keeps its type: no command line, and no
\* mode a request asks for, puts the settings out of range.
THEOREM WifiTypes == WifiSpec => []WifiTypeOK
BY WifiInductive, PTL DEF IInv

\* resetTimerCb never leaves the device on a network that does not let it in,
\* whatever else changes the network while the timer runs.
THEOREM SwitchIsSafe == WifiSpec => []SwitchSafe
BY WifiInductive, PTL DEF IInv

-----------------------------------------------------------------------------
(* Scans: one the SDK does not run was begun without a station, or the SDK   *)
(* refused it; the mode cannot change without a restart, which ends either,  *)
(* and nothing else does.                                                    *)

Stuck == scanning /\ ~sdkScan

StuckForReason == Stuck => ~Station(dev) \/ refused

RefusedIsStuck == refused => Stuck

ScanInv == StuckForReason /\ RefusedIsStuck

\* A step that leaves the scan and the mode.
LEMMA ScanStays ==
  ASSUME ScanInv, UNCHANGED scanVars, dev'.opmode = dev.opmode
  PROVE  ScanInv'
BY DEF ScanInv, StuckForReason, RefusedIsStuck, Stuck, scanVars, Station

LEMMA StuckKept ==
  ASSUME IInv, ScanInv, WifiNext
  PROVE  ScanInv'
<1> USE DEF IInv, WifiTypeOK
<1>1. CASE StationUp \/ StationFails \/ StationDown
  BY <1>1, ScanStays DEF StationUp, StationFails, StationDown, DevType
<1>2. CASE ScanEnd
  BY <1>2 DEF ScanEnd, ScanDone, ScanFailed, FailClearsFlag, ScanInv,
              StuckForReason, RefusedIsStuck, Stuck
<1>3. CASE CgiWiFiScan
  <2>1. PICK taken \in BOOLEAN : sdkScan' = taken /\ refused' = (Station(dev) /\ ~taken)
    BY <1>3 DEF CgiWiFiScan
  <2>2. scanning' = TRUE /\ dev' = dev
    BY <1>3 DEF CgiWiFiScan
  <2>3. refused' <=> Station(dev) /\ ~sdkScan'
    BY <2>1, Zenon
  <2>4. Station(dev') <=> Station(dev)
    BY <2>2
  <2> QED
    BY <2>2, <2>3, <2>4, Zenon DEF ScanInv, StuckForReason, RefusedIsStuck, Stuck
<1>4. ASSUME NEW net \in Networks, CgiWiFiConnect(net)
      PROVE  ScanInv'
  BY <1>4, ScanStays DEF CgiWiFiConnect
<1>5. CASE Forgotten
  BY <1>5 DEF Forgotten, ScanInv, StuckForReason, RefusedIsStuck, Stuck
<1>6. ASSUME NEW m \in 0 .. 4, CgiWifiSetMode(m)
      PROVE  ScanInv'
  BY <1>5, <1>6 DEF CgiWifiSetMode
<1>7. ASSUME NEW l \in Lines, Command(l)
      PROVE  ScanInv'
  <2>1. l \in LineType
    BY WifiAssumption
  <2>2. CASE Parse(dev, l).restart
    BY <1>5, <1>7, <2>2 DEF Command
  <2>3. CASE ~Parse(dev, l).restart
    <3>1. dev' = Parse(dev, l).dev /\ UNCHANGED scanVars
      BY <1>7, <2>3 DEF Command, After
    <3>2. dev'.opmode = dev.opmode
      BY <2>1, <2>3, <3>1, ParseMode DEF RestartsForMode
    <3> QED
      BY <3>1, <3>2, ScanStays
  <2> QED
    BY <2>2, <2>3
<1>8. CASE ReassTimerCb
  BY <1>8, ScanStays DEF ReassTimerCb, Join, DevType
<1>9. CASE SwitchToSta
  BY <1>5, <1>9 DEF SwitchToSta
<1>10. CASE StayInMode
  BY <1>10, ScanStays DEF StayInMode
<1>11. CASE PinTimers
  BY <1>11, ScanStays DEF PinTimers, LedTimerCb, StopReset, DevType
<1> QED
  BY <1>1, <1>2, <1>3, <1>4, <1>6, <1>7, <1>8, <1>9, <1>10, <1>11
     DEF WifiNext, Requests, Timers

LEMMA ScanInductive == WifiSpec => [](IInv /\ ScanInv)
<1>1. WifiInit => ScanInv
  BY DEF WifiInit, ScanInv, StuckForReason, RefusedIsStuck, Stuck
<1>2. IInv /\ ScanInv /\ [WifiNext]_wifiVars => ScanInv'
  <2> SUFFICES ASSUME IInv, ScanInv, [WifiNext]_wifiVars
               PROVE  ScanInv'
    OBVIOUS
  <2>1. CASE UNCHANGED wifiVars
    BY <2>1, ScanStays DEF wifiVars
  <2> QED
    BY <2>1, StuckKept
<1> QED
  BY <1>1, <1>2, WifiInductive, PTL DEF WifiSpec

\* wifiscan.cgi answers "in progress" for good only where tplWlan's page says
\* that the device cannot scan, or after the SDK refused a scan to a station,
\* which wifiStartScan ignores; whatever modes and command lines came between.
THEOREM StuckScanShown == WifiSpec => []ScanStuckIsShown
<1>1. IInv /\ ScanInv => ScanStuckIsShown
  BY DEF IInv, WifiTypeOK, ScanInv, StuckForReason, Stuck, ScanStuckIsShown, Reachable,
         Station, AccessPoint, CantScanShown
<1> QED
  BY <1>1, ScanInductive, PTL

\* After one refused scan wifiscan.cgi answers "in progress", although the SDK
\* does not scan, until the device restarts: neither a later request nor the SDK
\* ends it.
THEOREM RefusedScanSticks ==
  WifiSpec => [][refused /\ ~ScanAnswer'.inProgress => Forgotten]_wifiVars
<1> DEFINE Sticks == refused /\ ~ScanAnswer'.inProgress => Forgotten
<1>1. ASSUME IInv, ScanInv, WifiNext, refused, ~scanning' PROVE Forgotten
  <2>1. scanning /\ ~sdkScan
    BY <1>1 DEF ScanInv, RefusedIsStuck, Stuck
  <2>2. CASE UNCHANGED scanVars
    BY <1>1, <2>1, <2>2 DEF scanVars
  <2>3. CASE ScanEnd \/ CgiWiFiScan
    BY <2>1, <2>3 DEF ScanEnd, ScanDone, ScanFailed, CgiWiFiScan
  <2>4. UNCHANGED scanVars \/ ScanEnd \/ CgiWiFiScan \/ Forgotten
    BY <1>1 DEF WifiNext, StationUp, StationFails, StationDown, Requests, CgiWiFiConnect,
                CgiWifiSetMode, Command, Timers, ReassTimerCb, SwitchToSta, StayInMode,
                PinTimers
  <2> QED
    BY <2>2, <2>3, <2>4
<1>2. IInv /\ ScanInv /\ [WifiNext]_wifiVars => [Sticks]_wifiVars
  BY <1>1 DEF ScanAnswer
<1> QED
  BY <1>2, ScanInductive, PTL DEF WifiSpec
=============================================================================
