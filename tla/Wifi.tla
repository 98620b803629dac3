-------------------------------- MODULE Wifi -------------------------------
(***************************************************************************)
(* Wifi set-up: the handlers under /wifi and the two timers of cgiwifi.c,  *)
(* with the +++AT lines that change the same settings (AtConfig).          *)
(*                                                                         *)
(* The SDK is external: it scans, joins the network it was told to, and    *)
(* loses it.  A client can only ask while it can reach the device, over    *)
(* its access point or over the network it has joined.                     *)
(***************************************************************************)
EXTENDS AtConfig, FiniteSets

CONSTANTS
  Working,     \* the networks that let the device in, with the password given
  Lines,       \* the command lines clients give
  ApsFit,      \* access points whose entries fit in one answer
  MaxAps       \* bound: access points a scan finds

ASSUME WifiAssumption ==
  /\ Working \subseteq Networks
  /\ Lines \subseteq LineType
  /\ ApsFit \in Nat /\ MaxAps \in Nat

VARIABLES
  dev,         \* the settings (AtConfig)
  scanning,    \* cgiWifiAps.scanInProgress
  noAps,       \* cgiWifiAps.noAps; 0 when there is no data yet
  sdkScan,     \* the SDK scans and will call wifiScanDoneCb
  refused,     \* history: it refused the scan although there is a station
  stconf,      \* the static stconf of cgiWiFiConnect
  reassTimer,  \* armed
  resetTimer,  \* armed
  asked        \* history: somebody chose the mode the device is in, or the
               \* network it is on in that mode

scanVars  == <<scanning, noAps, sdkScan, refused>>
timerVars == <<stconf, reassTimer, resetTimer>>
wifiVars  == <<dev, scanVars, timerVars, asked>>

\* What a restart leaves of RAM.
Forgotten ==
  /\ scanning' = FALSE /\ noAps' = 0 /\ sdkScan' = FALSE /\ refused' = FALSE
  /\ stconf' = NoNetwork /\ reassTimer' = FALSE /\ resetTimer' = FALSE

WifiInit ==
  /\ dev = NewDevice
  /\ scanning = FALSE /\ noAps = 0 /\ sdkScan = FALSE /\ refused = FALSE
  /\ stconf = NoNetwork /\ reassTimer = FALSE /\ resetTimer = FALSE
  /\ asked = FALSE

Station(d)     == d.opmode \in {1, 3}
AccessPoint(d) == d.opmode \in {2, 3}
Reachable      == AccessPoint(dev) \/ (Station(dev) /\ dev.status = "gotip")

\* asked after a step somebody asked for; with the access point on it is moot.
Asks ==
  asked' = (/\ ~AccessPoint(dev')
            /\ asked \/ <<dev'.opmode, dev'.sta>> # <<dev.opmode, dev.sta>>)
-----------------------------------------------------------------------------
(* The SDK. *)

StationUp ==
  /\ Station(dev) /\ dev.status = "connecting" /\ dev.sta \in Working
  /\ dev' = [dev EXCEPT !.status = "gotip"]
  /\ UNCHANGED <<scanVars, timerVars, asked>>

\* It gives up, with a wrong password or no such network.
StationFails ==
  /\ dev.status = "connecting" /\ dev.sta \notin Working
  /\ dev' = [dev EXCEPT !.status = "idle"]
  /\ UNCHANGED <<scanVars, timerVars, asked>>

\* The network goes away for a while.
StationDown ==
  /\ dev.status = "gotip"
  /\ dev' = [dev EXCEPT !.status = "connecting"]
  /\ UNCHANGED <<scanVars, timerVars, asked>>

\* wifiScanDoneCb
ScanDone(n) ==
  /\ sdkScan /\ sdkScan' = FALSE
  /\ scanning' = FALSE /\ noAps' = n
  /\ UNCHANGED <<refused, dev, timerVars, asked>>

\* Variant: the flag is cleared after the list is stored only.
FailKeepsFlag == scanning' = scanning
FailClearsFlag == scanning' = FALSE

\* With any status but OK the list stays.
ScanFailed ==
  /\ sdkScan /\ sdkScan' = FALSE
  /\ FailClearsFlag
  /\ UNCHANGED <<noAps, refused, dev, timerVars, asked>>
-----------------------------------------------------------------------------
(* The handlers. *)

\* What cgiWiFiScan answers: that a scan is in progress, or the access points
\* of the last one, cut where the send buffer ends.
ScanAnswer == [inProgress |-> scanning, aps |-> IF scanning THEN 0 ELSE Min({noAps, ApsFit})]

\* cgiWiFiScan: an answer with a list starts a new scan.  wifiStartScan sets the
\* flag and ignores what the SDK says, which scans in no mode without a station
\* and may refuse in any.
CgiWiFiScan ==
  /\ Reachable
  /\ ~scanning
  /\ scanning' = TRUE
  /\ \E taken \in BOOLEAN :
       /\ taken => Station(dev)
       /\ sdkScan' = taken
       /\ refused' = (Station(dev) /\ ~taken)
  /\ UNCHANGED <<noAps, dev, timerVars, asked>>

\* cgiWiFiConnect; without an essid the network is what the stack held.
CgiWiFiConnect(net) ==
  /\ Reachable
  /\ stconf' = net
  /\ reassTimer' = TRUE
  /\ UNCHANGED <<resetTimer, dev, scanVars, asked>>

\* A mode of more than two bits is refused by the SDK.
SetOpmode(d, m) == IF m \in 0 .. 3 THEN [d EXCEPT !.opmode = m] ELSE d

\* cgiWifiSetMode; with arguments but no mode it is what the stack held.  The
\* device restarts, whatever the mode.
CgiWifiSetMode(m) ==
  /\ Reachable
  /\ dev' = Booted(SetOpmode(dev, m))
  /\ Forgotten
  /\ Asks

\* tplWlan: the mode and the warning it puts on the page.
\* Variant: the warning is for the other mode.
CantScanShownBoth(d) == d.opmode = 3
CantScanShown(d) == d.opmode = 2

\* A +++AT line.
Command(l) ==
  /\ Reachable
  /\ dev' = After(dev, l)
  /\ IF Parse(dev, l).restart THEN Forgotten ELSE UNCHANGED <<scanVars, timerVars>>
  /\ Asks
-----------------------------------------------------------------------------
(* The timers. *)

\* reassTimerCb: joins the network; if there is an access point to switch off,
\* looks 4 s later what came of it.
ReassTimerCb ==
  /\ reassTimer /\ reassTimer' = FALSE
  /\ dev' = Join(dev, stconf)
  /\ resetTimer' = (resetTimer \/ dev.opmode # 1)
  /\ UNCHANGED <<stconf, scanVars>>
  /\ Asks

\* Variants: the status is not looked at; a station that still tries will do.
JoinedAlways == TRUE
JoinedSoon   == dev.status \in {"gotip", "connecting"}
Joined == dev.status = "gotip"

\* resetTimerCb, once there is an address: into STA mode, with a restart.
SwitchToSta ==
  /\ resetTimer
  /\ Joined
  /\ dev' = Booted([dev EXCEPT !.opmode = 1])
  /\ Forgotten
  /\ UNCHANGED asked

\* resetTimerCb, otherwise.
StayInMode ==
  /\ resetTimer /\ resetTimer' = FALSE
  /\ ~Joined
  /\ UNCHANGED <<stconf, reassTimer, dev, scanVars, asked>>

\* LFLASH's timer, and the end of IORST's pulse.
PinTimers ==
  /\ \/ dev.ledTimer /\ dev' = LedTimerCb(dev)
     \/ dev.resetLow /\ dev' = StopReset(dev)
  /\ UNCHANGED <<scanVars, timerVars, asked>>
-----------------------------------------------------------------------------
ScanEnd == ScanFailed \/ \E n \in 0 .. MaxAps : ScanDone(n)

Requests ==
  \/ CgiWiFiScan
  \/ \E net \in Networks : CgiWiFiConnect(net)
  \/ \E m \in 0 .. 4 : CgiWifiSetMode(m)
  \/ \E l \in Lines : Command(l)

Timers == ReassTimerCb \/ SwitchToSta \/ StayInMode \/ PinTimers

WifiNext ==
  \/ StationUp \/ StationFails \/ StationDown
  \/ ScanEnd
  \/ Requests
  \/ Timers

\* The SDK ends a scan it has begun, and timers fire.  Nothing is assumed of
\* clients, or of networks.
WifiSpec     == WifiInit /\ [][WifiNext]_wifiVars
WifiFairSpec ==
  /\ WifiSpec
  /\ WF_wifiVars(ScanEnd)
  /\ WF_wifiVars(ReassTimerCb) /\ WF_wifiVars(SwitchToSta \/ StayInMode)
-----------------------------------------------------------------------------
(* Properties *)

WifiTypeOK ==
  /\ dev \in DevType
  /\ {scanning, sdkScan, refused, reassTimer, resetTimer, asked} \subseteq BOOLEAN
  /\ noAps \in 0 .. MaxAps
  /\ stconf \in Networks \cup {NoNetwork}

\* The timer never locks anybody out: a device whose access point is off is on a
\* network that lets it in, unless somebody chose its mode, or its network in
\* that mode, by hand.  The verdict the timer acts on is about the network that
\* is stored, although requests, AT lines and failures come between the two.
SwitchSafe == ~AccessPoint(dev) /\ ~asked => dev.sta \in Working

\* A scan that will never be over, so that wifiscan.cgi answers "in progress"
\* for good, is one begun where the page says that it cannot be done, or one the
\* SDK refused to a station: wifiStartScan ignores that, and no page shows it.
ScanStuckIsShown ==
  scanning /\ ~sdkScan /\ Reachable => CantScanShown(dev) \/ refused

\* With a station, and a scan the SDK did not refuse, the answer becomes a list.
ScanEnds ==
  (ScanAnswer.inProgress /\ Station(dev) /\ ~refused) ~> ~ScanAnswer.inProgress
=============================================================================
