# A specification of esphttpd_n

TLA+ modules for the firmware in `src/`: a web server for the ESP8266 that also
flashes a posted Arduino hex file through its serial port and bridges that port
to telnet. The modules are checked with TLC on small instances; theorems about
them, for every value of the constants, are checked with TLAPS. Paths below
are relative to `src/`.

## 1. The system

The firmware is single threaded. Everything runs in callbacks of the SDK
(network events, timers, a task fed by the uart interrupt), and a callback runs
to its end before the next one starts. So a callback is one action; what
interleaves is the order of callbacks, and state kept in globals between them
is where things go wrong.

| part | state | operations | interacts with |
|---|---|---|---|
| web server core, `user/httpd.c` | `connData[8]`, `connPrivData[8]` | connect, receive, sent, disconnect, reconnect callbacks; `httpdSendResp`, `httpdParseHeader`, `httpdSend` | calls the handlers of `builtInUrls`, writes bodies to the POST store, sends through espconn |
| file handlers, `user/httpdespfs.c` | per slot: `cgiData` (an open file) | `cgiEspFsHook`, `cgiEspFsTemplate`, called once per sent piece, and once more with `conn == NULL` when the connection went away | file system, `httpdSend`, `espconn_sent` |
| CGI handlers, `user/cgi.c` | LED state, hit counter | redirect, led, flash download, program, camera | POST store, programmer |
| POST store, `user/mmem.c` | one cursor `ff_cpos`, one size `ff_csize`, a region of raw flash | seek, erase, write, read a line | used by the core, CGIs, wifi CGIs and the programmer, all through the same cursor |
| Arduino programmer, `user/stk500.c` | stage, tick, error, a parsed line, a saved cursor | `program`, `runProgrammer` (every 100 ms), `stop_ticking`, `reset_arduino`/`stopReset` | POST store, uart0, `uart0_lock`, the pins |
| uart driver, `driver/uart.c` | two receive buffers, the pin mapping, the lock | add, get, count, clean; the receive task | programmer, telnet, camera, debug output |
| telnet bridge, `user/server.c` | `connData[5]`, `reset_sent` | the espconn callbacks, `read_uart` (every 10 ms) | uart driver, AT commands |
| AT commands, `user/config.c` | `debug_mode`, the LED timer | command line and 16 commands | wifi, uart, pins |
| read-only file system, `user/espfs.c`, `mkespfsimage/` | open files | open, read (raw or heatshrink), close; writing the image | file handlers |
| wifi configuration, `user/cgiwifi.c` | scan result and flag, two timers | scan, connect, set mode | SDK wifi, POST store |
| authentication, `user/auth.c`, `user/base64.c` | none | `authBasic` (only under `AUTH_PASSWORD`) | core |
| camera, `user/cmucam4.c` | none | stubs, a busy-waiting send | uart driver |

What makes each correct, in short:

- core: a connection has one slot and a slot one connection; nothing of one
  connection is carried to the next; a request is answered once, piece by piece,
  and the connection ends; a handle is closed once; no send is made while an
  earlier one is under way;
- POST store: when a handler is called for a body, the body is there;
- programmer: a session ends, unlocks the port and restores the pins on every
  path; "finished" means the file is in the Arduino; an error reported is one;
- uart driver: bytes come out in the order they went in, and the newest survive
  an overflow;
- telnet: what comes from uart0 reaches every client that keeps up, once and in
  order, except during programming, when the line is the programmer's;
- wifi: a scan ends; the device never switches its access point off on a network
  that does not let it in;
- file system: reading gives what the image tool packed; a page is its text with
  every token replaced;
- the parsers (lines, multipart parts, form arguments, base64): decoding gives
  back what was encoded, whatever the cuts.

Hard behaviours: callbacks of different connections in any order; the SDK
telling `httpdDisconCb` the wrong connection; connections that break and are
not reported at all; sends dropped by the SDK when one is under way; segments
cut anywhere; one store shared by everything; a programming session of many
seconds in the middle of all that; a bootloader that answers late, wrongly, in
part or not at all; restarts that forget everything but the stored settings;
timers that act on a verdict which requests and AT commands may have outdated. `PROJECT.json` lists them as hazards, each at its line.


## 2. Modules

| module | what it is |
|---|---|
| `PostStore` | operators on the POST store: a record of cursor, size and flash cells |
| `Httpd` | the core with its handlers and the store, and the programmer's use of the store |
| `HttpService` | the abstract specification of what a client is promised |
| `HttpdProofs` | inductive invariants and theorems about `Httpd`: slots and sends, the store, the answers, and that `Httpd` implements `HttpService` |
| `MCHttpd` | requests for TLC |
| `Stk500` | the programmer, the serial line and a bootloader |
| `Stk500Proofs` | theorems about `Stk500` |
| `MCStk500` | hex files for TLC |
| `UartRing` | the receive buffer of the uart driver, as an array |
| `Telnet` | the telnet bridge on `UartRing`, with its clients, the AT commands and the programmer's sessions |
| `TelnetProofs` | inductive invariants and theorems about `UartRing` and `Telnet` |
| `MCTelnet` | characters and command lines for TLC |
| `AtConfig` | the AT commands, as operators on a record of the settings |
| `AtConfigProofs` | lemmas on what a command line does to the settings |
| `Wifi` | the handlers and timers of the wifi configuration, with the SDK and the AT commands |
| `WifiProofs` | inductive invariant and theorems about `Wifi` |
| `MCWifi` | command lines for TLC |
| `PostLines` | reading lines of the store, finding a part of a multipart body |
| `HttpArgs` | form arguments and their escapes |
| `Base64` | base64 and the check of a login |
| `Template` | the token scanner of a page |
| `EspFs` | the image of the file system: writing, opening, reading |
| `MCData` | the inputs and properties of the last five |
| `DataProofs` | theorems about lines of POST data, base64 and logins, for data of any length |
| `FormProofs` | the same about form arguments and multipart bodies |
| `PageProofs` | the same about pages and files |

Names of operators called "variant" in a comment are plausible mistakes in the
operator next to them; `PROJECT.json` lists which property each one breaks.

### Httpd

A slot (an element of `connData` with its `connPrivData`) is an index; an
`espconn` is an element of `Conns`. The variables keep the source's names:
`conn`, `cgi`, `headPos`, `postLen`, `postPos` per slot. `calls` counts the calls
of the handler for this request and stands for `cgiData`, `pos` and the file
position, which together only say how far the handler is. `files` counts the
open `EspFsFile` handles. `job` is what the head was parsed to.

An `espconn` is external: `esp` is its state, `req` what the client sends, `rcvd`
how much of it has arrived, `inflight` whether a send awaits its callback. A
send while another is under way is recorded in `lost`. The SDK frees a control
block after its disconnect callback, after a refused connection and, with
`CanReset`, when a connection breaks (`ReconCb`), and then may use it again; a
slot that still points at it reads anything (`Garbage`).

| code | action |
|---|---|
| `httpdConnectCb` | `ConnectCb`, `ConnectCbFull` |
| `httpdRecvCb` | `RecvHead` (head goes on), `RecvRequest` (head ends, no body), `RecvPost` (head ends, body begins), `RecvBody`, `RecvIgnored` (already answered) |
| `httpdSendResp`, handlers | `SendResp`, `Call` and the operators it uses, inside the actions above and below |
| `httpdSentCb` | `SentCbClose`, `SentCbCall` |
| `httpdDisconCb` | `DisconCb`: `Closed` (+ any of `Garbage`), `Flush`, `RetireConn` |
| `httpdReconCb` | `ReconCb` |
| a tick of `runProgrammer`, as far as it moves the store's cursor | `ProgrammerTick`, with `CanProgram` |
| the client closes; the SDK frees a refused one | `RemoteClose`, `RefusedGone` |

A request is a record: the handler its url selects, whether what it names
exists, the file's size in blocks of 1024 bytes and whether a shorter one
follows, the length of the head and `Content-Length`. The text of heads is not
modelled: `Parsed` says what a head parses to, including that a head stored
after the leftovers of an earlier connection may be an unknown url. The handlers
that answer on their first call (redirect, led, those under `/wifi`) are
`ShortCgis`. The bytes of a body are told apart by connection and offset, so a
cell of the store shows whose byte it holds; a cell written twice without an
erase holds `MIXED`.

The store's cursor is moved by handlers that read (`CursorAfter`) and by the
programmer's ticks (`CursorAfterTick`). Reading lines leaves it anywhere in the
data, or a byte past it, where `mmem.c:119` leaves it after the last line, or two
bytes past it when `mmem.c:112` takes what lies behind the data for the second
character of a line end (`ReadEnds`). A tick puts the cursor back with `ff_seek`
only if `fpos >= 0` (`stk500.c:404`); `fpos` is uninitialised until the programmer has
a cursor to save, so a tick may also put nothing back and leave the cursor where it
was or where its own reads took it. Two histories since the last erase: `ff.moved`
says that a reader or a tick moved the cursor, `ff.holes` counts the writes that
began past the end of the data. The programmer's `Enter` and `Leave` are detailed in
`Stk500`. What is written behind the region is not kept; it only counts in
`ff.csize`.

Left out: the contents of answers (`Template` and `EspFs` have them), a negative
`Content-Length`, and the watchdog.

### HttpService

A client's view: asking, answering with so many pieces owed, ending. `Httpd`
defines `Service` as an instance of it, with `owed` the pieces of the answer
(`Pieces`) minus the sent callbacks, and `ImplementsService` says that every
behaviour of `FairSpec` is one of it: no piece skipped or repeated, the close by
the server right after the last piece arrived, and answers that were begun go on.

### Stk500

`stage`, `tick`, `err`, `descr`, `fposStart`, `fsize`, `fcur`, `isPrim`, `lock`
are the statics of `stk500.c`; `armed` is the timer. The store is a sequence of
lines and `cpos` counts lines: the programmer only reads lines. `cline` is the
part of the parsed line not yet used. A tick of `runProgrammer` is one action, and
there is one for each stage and outcome: an answer in sync, out of sync, not
there yet, a further attempt to sync, the timeout. `Enter` and `Leave` are the
swap of the shared cursor at the two ends of each tick; `Leave` leaves open what
the uninitialised `fpos` is before a cursor was saved. `resetLow` is the reset
pulse, `StopReset` its end.

The bootloader is external: to a command it sends the right answer, a wrong one
or none (`Replies`), nothing while it is held in reset, and the answer moves to
`uart0_buf` in any portions (`RecvCharTask`). A page it is sent goes to its flash
at the address loaded last; a byte is a member of `Bytes`. Between ticks a file may be posted (`Program`), the
store may be erased by another request (`OtherPost`) or its cursor moved by
another handler (`OtherReader`).

`mishaps` is a history of what this session met: an answer that was still under
way when the timer fired (`late`), a file posted during a session (`overlap`), a
part of a line left in `cline` by the session before (`leftover`), the store
`erased` under it, another `reader` of the store before the programmer had saved
its own cursor. `Mishaps` says which of them a run allows (`Meets`), and a
property names those it does not survive.

Left out: `stk_percent` (and its division by `fsize`), the version and signature
values, CRC warnings, which only print; hex lines longer than a page, which are
lines without data.

### UartRing and Telnet

`UartRing` has `buf` and `pos` as in the code, with the shift of the array.
`unread` is what the buffer promises: the last SIZE-1 characters that were added
and not read.

`Telnet` extends it with the bridge. `conn` is `connData`, `lock` is `uart0_lock`,
`dbg` whether `uart1_buf` holds debug output, `dev` the settings; `esp` and
`inflight` are the SDK's. The board's characters are numbered in the order it says
them, so that a text shows what is missing, doubled or out of order.

| code | action |
|---|---|
| `serverConnectCb` | `ServerConnectCb`, `ServerConnectCbFull` |
| `serverSentCb` | `ServerSentCb` |
| `serverRecvCb` | `RecvData` (to the board), `RecvLocked`, `RecvCommand`, `RecvRestart` (a +++AT line) |
| `serverDisconCb`, `serverReconCb` | `ServerDisconCb`, `ServerReconCb` |
| `read_uart`, every 10 ms | `ReadUart` (uart0's characters, then the debug output), `ReadDebug` |
| `recvCharTaskCb` | `BoardSays`, once per character |
| `os_printf` to uart1 | `DebugOutput` |
| a session of the programmer | `SessionBegins`, `ProgrammerCleans`, `ProgrammerReads`, `ProgrammerReadsNothing`, `SessionEnds` |
| the client closes; the SDK frees a refused one | `RemoteClose`, `RefusedGone` |

The histories say what each client was to get (`since`) and got, which clients
were busy when the timer fired (`missed`: the SDK drops that send), what the
buffer forgot when it was full, what the programmer kept, and what it could have
read since it last cleaned the buffer (`mark`, `taken`).

### AtConfig and Wifi

A command line is a record: the commands its first word is a prefix of, the number
of arguments and what they say. `Parse` finds the first command in the order of
`config_commands` and gives the new settings, the answer and whether the device
restarts; `Booted` is what a restart brings back. `Telnet` and `Wifi` use it.

`Wifi` has the statics of `cgiwifi.c`: `scanning` and `noAps` (`cgiWifiAps`),
`stconf`, the two timers. `sdkScan` and the station's status belong to the SDK,
which takes a scan or refuses it (always without a station; with one it may, as
`wifi_station_scan` has a result and `cgiwifi.c:99` ignores it), ends one it took with
a list or a failure (`ScanDone`, `ScanFailed`), joins a network in `Working` and no other (`StationUp`, `StationFails`) and may lose it
(`StationDown`). The handlers are `CgiWiFiScan`, `CgiWiFiConnect` and
`CgiWifiSetMode`; a request or a command line arrives only while the device is
`Reachable`. The timers are `ReassTimerCb` and `SwitchToSta` or `StayInMode`
(`resetTimerCb`). A restart forgets everything but the stored settings. Two
histories: `asked`, the mode, or the network in that mode, is one that somebody chose;
`refused`, the SDK refused the present scan though there was a station.

### The data modules

`PostLines`, `HttpArgs`, `Base64`, `Template` and `EspFs` are algorithms without
state of their own, written as recursive functions and folds. In `MCData` a state
is an input, and each property compares what the code makes of the input with
what the input stands for: the lines that were joined, the value of the part, the
encoded bytes, the page with its tokens replaced, the file that was packed.
`EspFs` has both ends, `mkespfsimage` and `espfs.c`; the decoder of heatshrink is
external (a compressed byte is a unit of up to `UNIT` characters) while its input
buffer, and when `espFsRead` stops asking it, are modelled.

## 3. Runs

Every cfg gives the constants; `Offers`, `Files` and `Lines` name definitions in
the MC modules.

| run | shows | instance |
|---|---|---|
| `MCHttpdAll` | `TypeOK`, `HandleOwned`, `OneSendAtATime`, `OpenHasSlot` | 2 slots, 2 connections that may break; requests that go wrong next to posts that fit or do not |
| `MCHttpdCrowd` | `HandlerOnlyWhenAnswered`, `UniqueSlot`, `StoreInBounds`, `UploadIntact` | 3 connections for 2 slots: one posts 1 or 3 bytes, one reads the store, one is answered from a file; the programmer ticks |
| `MCHttpdAnswers` | `NoStall`, `AnswerEnds`, `ImplementsService` | 2 connections, requests that are answered |
| `MCStkHostile` | `TypeOK`, `LockedWhileTicking`, `EndedForReason`, `PinsRestored`, `FinishedIsComplete`, `NoFalseAlarm` | 2 sessions, 2 files, any answers, every mishap |
| `MCStkEnds` | `SessionEnds` | 2 sessions that may overlap, answers before the next tick or never |
| `MCTelnet` | `TelnetTypeOK`, `KeepsNewest`, `ReadsOldest`, `SessionPrivate`, `Transparent`, `OneSlotEach` | 2 clients, a buffer of 3, a session, debug mode, a restart |
| `MCWifi` | `WifiTypeOK`, `SwitchSafe`, `ScanStuckIsShown`, `ScanEnds` | two networks of which one lets the device in, 21 command lines, an SDK that may refuse any scan |
| `MCData` | `LinesRead`, `PartFound`, `ArgFound`, `CodeUndone`, `LoginExact`, `PageWhole`, `FileServed` | every input of the sets in `MCData` |

Four runs end in a violation, each of something the repository says:

| run | what the code does |
|---|---|
| `MCHttpdTwoPosters` | `UploadIntact` fails: two uploads share the store (`httpd.c:427`, `475`) though the README promises several connections |
| `MCHttpdExactFile` | `AnswerEnds` fails: a file of exactly 1024 bytes is never finished (`httpdespfs.c:56`) |
| `MCStkStale` | `FinishedMeansProgrammed` fails: what is left in `cline` goes to the next file (`stk500.c:99`) |
| `MCStkSignature` | `AlarmIsTrue` fails: five bytes are read when three have arrived (`stk500.c:293`) |

### What the properties leave out

The properties that pass name the circumstances in which the code does not do what
it should, so that they show everything else:

- `UniqueSlot` with `CanReset`: `httpdReconCb` keeps the slot of a broken
  connection, and when the SDK uses the control block again two slots have it.
  `OneSlotEach` ends at the first break for the same reason (`server.c:60`);
- `StoreInBounds` and `UploadIntact` with two posters: each body fits, together
  they do not, and each erases the other;
- `UploadIntact` for a body between whose segments the cursor was moved, by a tick
  (`stk500.c:406`: `ff_seek` puts a cursor at the end of the data one byte back) or
  by a handler that reads;
- `StoreInBounds` holds with readers and ticks, but what it promises is less once
  one of them has left the cursor past the end of the data: the write that goes on
  there leaves a hole of one or two bytes and may end as far outside the region, and
  so may each further one. Without such a write nothing leaves the region;
- `PinsRestored` once a session met an overlap: `program()` called in a session
  saves the swapped pins as those to restore (`stk500.c:429`);
- `FinishedIsComplete` for sessions with a mishap other than a late answer: an
  erased store is programmed as blanks, and so on. The files in the runs have no gap
  in their addresses: for one that leaves a page out `stk500.c:301` sets the address
  to 0 and lines 310-318 are never reached;
- `NoFalseAlarm` for sessions with late answers, which `MCStkSignature` shows.
  `SessionEnds` is checked without late answers as well, with an answer before the
  next tick or never; `EndedForReason` and the other properties of `MCStkHostile` with
  them;
- `NoStall` for `cgiProgram` without a datafile part and for `cgiCmuCam4color`,
  which finish or go on without sending, and for a file that is an exact multiple
  of 1024 bytes: `MCHttpdAnswers` makes no such request, `MCHttpdAll` makes all
  but the first;
- `NoStall`, `AnswerEnds` and `ImplementsService` for a request whose handler returns
  `HTTPD_CGI_ERROR`: the 500 text is sent and the handler stays installed
  (`httpd.c:362`), so the connection may end only when the client closes it. Such
  requests are in `MCHttpdAll` only;
- `SessionPrivate` covers the characters on the line: a reset pulse or another baud
  rate asked for with `AT+IORST` or `AT+BAUD` during a session are not seen by it, nor
  what `cgiCmuCam4tw` sends without looking at the lock;
- `Transparent` for a client that was busy when the timer fired: what `read_uart`
  sends it then is dropped and not kept for it;
- `LinesRead` and `PartFound` for lines whose end falls on the last byte of a
  128-byte read: the LF that follows is looked up past what was read
  (`mmem.c:108`) and an empty line appears. `PartFound` takes names whole only as
  far as the one asked for goes, as `strncmp` does;
- `FileServed` for the end of a compressed file: when the decoder's input is used
  up just as a block is full, what the decoder still holds is not read
  (`espfs.c:197`). The property bounds that loss by what the input buffer can hold;
- `PageWhole` for pieces that expand beyond the send buffer, of which `httpdSend`
  drops a whole text (`httpd.c:299`), and for tokens longer than the token buffer;
- `SwitchSafe` once somebody has chosen the mode or the network by hand: `AT+MODE`
  and `AT+STA` obey without looking at the result;
- `ArgFound` for the terminator: two comments promise a zero-terminated result
  (`httpd.c:116` "Also zero-terminates the ret buffer", `httpd.c:143` "The
  zero-terminated result is written in buff, with at most buffLen bytes used") and
  line 138 writes the zero only if the value is shorter than the buffer. A value that
  fills the buffer, or is cut to it, has none, and the callers use the buffer as a
  string (`cgi.c:49`, `cgiwifi.c:195`). `ArgFound` states what the code leaves in both
  cases; it does not say that this is what the comments promise. Nor does it cover
  callers that take -1 as found (`cgi.c:48`);
- `ScanStuckIsShown` and `ScanEnds` allow two stuck scans. That of a device without a
  station is shown: the page says there that it cannot scan. One that the SDK refused to
  a device with a station is not: `cgiwifi.c:99` ignores what `wifi_station_scan`
  returns, the flag stays set, and every request is answered "in progress" until the
  device restarts (`RefusedScanSticks`). It is excluded by name, with `refused`.

### Bounds, and why they are enough

- `NSlots` 2 of 8, 2 or 3 connections: slots interact only through the store, the
  first-match searches and the disconnect scan, all of which need two. Three
  connections make the pool overflow while both slots are busy.
- `MAX_HEAD_LEN` 3 of 1024, heads of 1, 2 and 4 bytes: a head that fits with room, and
  one that does not. `MaxChunk` 2: a segment may hold head and body, or a part
  of either.
- `FF_SIZE` 3, bodies below, at and above it (1, 2, 3 and 9 bytes). `StoreCap` is 6,
  two bodies, or in `MCHttpdCrowd` 7, a body with two holes of two bytes: a write
  past the end, a tick that puts nothing back, and another write past the end
  happen there. Three bytes cannot have a third hole, since the first is written at 0.
- `FlashBlocks` 2 of 512, files of 0 or 1 full blocks and a rest: the first, a
  middle and the last call of each handler.
- `PAGE_SIZE` 4 of 128: records ending at and across page borders, a last page
  filled exactly. `TICK_MAX` 4 or 5 of 100, `SYNC_STEP` 2 of 5, one further attempt
  of 5: the retry, giving up and the timeout all happen (in `MCStkSignature`
  `SYNC_STEP` is out of reach, so that no second command explains the answer). Two
  sessions: what one leaves to the next. `FlashCap` 8 holds every file.
- `SIZE` 3 of 512 and three characters: empty, partly filled, full and overflowing.
  Two clients, two slots, and control blocks that are used again; the clients are
  interchangeable, hence the symmetry of `MCTelnet`. The pool of two is full only
  after a break has left a slot behind.
- Networks: one that lets the device in and one that does not. Lists of 0, 1 and 2
  access points where one fits.
- `MCData`: reads of 3 characters and lines of up to 6, so every place a line can
  end; pieces of 4 and pages of up to 7, so tokens in one piece, across two and
  unended; bodies of parts named ab, abc and bc, so that the part asked for stands behind
  another, also behind one that begins with its name; blocks of 4, units of 3, an input buffer of 2 and files of 0 to 11.

`CHECK_DEADLOCK FALSE` in the Stk500 runs: after `MaxSessions` sessions the system
is idle. In `MCWifi` nothing need happen once a device cannot be reached, in
`MCData` a state is an input and has no next one. In the Httpd runs and in
`MCTelnet` a client can always connect, so deadlock is checked.

### Fairness

`Httpd`: weak fairness of the sent callback and of the disconnect callback of each
connection. The SDK completes a send or reports the connection closed, and a
close it has begun is reported; nothing is assumed of clients, who need not send
or read anything. `Stk500`: weak fairness of the timer, of the end of the reset
pulse and of the receive task; none of the bootloader's answers. `Wifi`: the SDK
ends a scan it has begun and the two timers fire; nothing of clients, or of
networks, which may never answer. `Telnet` promises nothing that needs fairness.

## 4. Proofs

Every invariant and action property of the runs that pass is a theorem for all values
of the constants; `FileServed` needs one more assumption about them, given below. Each module of proofs has an invariant that
is inductive, one lemma for each action or group of actions, and the
theorems that follow from it. TLC checked each invariant on the instance of its run
before it was proved.

`HttpdProofs` proves `TypeOK`, `HandleOwned`, `OneSendAtATime`,
`HandlerOnlyWhenAnswered` and `OpenHasSlot` as invariants of `Spec` for all
constants that satisfy `HttpdAssumption` and `StoreAssumption`, breaking
connections and the programmer's ticks included. They are not inductive one by one:
that a handler's first call opens exactly one handle needs the slot to hold none
before, which needs `cgi` to be clear in a slot whose head is being read, which is
`HandlerOnlyWhenAnswered`; that a response is the only send under way needs that
nothing is in flight for a slot that has not answered. `IInv` conjoins them with
these facts, one lemma per action shows that it is kept, and `Inductive` puts the
lemmas together. `OneSlotPerConn` proves `UniqueSlot` under `~CanReset` from an
invariant of its own, `UInv`: a slot's connection is one the SDK has not freed.

Its second part goes on from there, under `~CanReset`: with a broken connection
a slot may hold another's leftovers, and what follows is not true. `Base` adds
`Progress`: `headPos`, `postLen` and `postPos` of a slot say exactly how much of its
connection's request has arrived, and `job` is that request. From it come
`StoreInBounds` and `UploadIntact`, if one client at most has bodies that fit
(`OnePoster`; `MCHttpdCrowd` is such an instance, `MCHttpdTwoPosters` is not). Neither
is inductive: both need that the bytes of a body that is still arriving are in the
store up to `postPos`, with the cursor at their end (`StoreInv`), unless something moved
the cursor; that the cursor is never more than two bytes past the data, wherever reads and
ticks leave it, so that each hole costs two bytes at most (`ReadsNearEnd`, `TickNear`); and that a second request cannot be writing, since `ff_erase` and
`ff_write` are only reached for a body that fits.

The third part proves `NoStall` and that every step of the server is a step of
`HttpService` or a stutter of it, if every request is one that is answered
(`GoodOffers`, the requests `NoStall` is said not to hold for left out; the requests of
`MCHttpdAnswers` are such). The invariant, `AnswersGoOn`, counts: a handler has been
called once for each piece sent, all but the last piece have arrived, and the handler
is cleared by the call that sends the last one. The refinement mapping is that of
`Httpd`: `PhaseOf` and `OwedOf`. Its fairness half stays with TLC.

`Stk500Proofs` proves all six properties of `MCStkHostile`, for every file, page size and
bootloader. `LockedWhileTicking`, `EndedForReason` and `PinsRestored` sort the
steps into those that start a session, stop it and leave it alone (`StepKinds`); the
invariant for the pins adds that `is_prim` holds what the pins were when the
timer was armed, unless sessions overlapped. For `NoFalseAlarm` (`AlarmInv`) the
buffer and the serial line together hold the whole answer the stage awaits, or
nothing: this is why stage 5 may ask for three bytes and read five, as long as the
answer is there in time. `FinishedIsComplete` is proved from `DoneInv`: in each stage, `At(d)`
says that what the file has before address d is in the flash and that the next
byte `read_next_byte` yields is the one at d. The cursor alone does not say that:
`ff_seek` puts a cursor at the end of the data back to the last line, which
`ReadsFrom` shows to be harmless once the last record is in `cline`. It takes two
hypotheses, both of which the runs meet: files are contiguous (`GoodFiles`: data records
first, from address 0, without gaps; the code never looks at a record's address) and a
page is whole words (`EvenPages`; the code's page is 128 bytes).

`TelnetProofs` proves `KeepsNewest` and `ReadsOldest` of `UartRing` for every size
above 1: `TypeOK` with `KeepsNewest` is inductive, and adding to a full buffer is the
step that needs both. It then proves all six properties of `MCTelnet`, with these
lemmas for each access to `uart0_buf`. `Numbered` says that the buffer
holds the board's last characters, numbered from `Gone` + 1 on; so what a client got, what
the programmer took and what was forgotten are all settled up to `Gone` (`Sent`, `Private`),
and `Transparent` and `SessionPrivate` follow. `SlotsApart` is the invariant for
`OneSlotEach`: until a connection breaks no slot points at a freed control block.

`WifiProofs` proves `WifiTypeOK`, `SwitchSafe` and `ScanStuckIsShown` for any networks,
any command lines and any lengths of lists. `SwitchSafe` alone is not inductive: the timer
switches when the status says "joined", so the invariant adds that the status is
about a network that lets the device in and is the one stored. That survives
because whatever stores another network (`Join`, a restart) also puts the status
back; `RunDev` and `ParseDev` of `AtConfigProofs` show it for every command. A scan that is
stuck was begun without a station or refused to one (`ScanInv`), and no command line
changes the mode without a restart, which forgets the scan (`ParseMode`).
`RefusedScanSticks` is the other side of it: nothing but a restart ends a refused scan.

Induction. The library's induction theorems take an operator, which the provers
cannot instantiate; `SetInduction` in `Stk500Proofs` gets induction over the naturals for
sets instead, from the well-foundedness of their order. `PageRuns` uses it to show that a
page is PAGE_SIZE calls of `read_next_byte`, `PageBytes` that these yield what the
file has from d on, and `Ordered` that records do not overlap.

`DataProofs` is about recursive functions: `ff_mread_str` and the loop that calls it,
the loop of `base64_decode`, and the library's `FlattenSeq`. For each, a lemma shows that a
function with the recursive equation exists (`ReaderExists`, `WalkExists`,
`DecodingExists`, `FlatExists`: the set of lengths for which one exists is all of
Nat), so that the definition unfolds, and then the loop is followed by set induction.
`LinesReadBack` holds for any characters, lines and length of a read: `LineIsRead` follows
one line over as many reads as it is long, and `FlattenCut` says where each line
begins in the data. Its hypothesis `WellCut` (no line ends on the last character of a
read) is the condition of `LinesRead`: without it an empty line appears (section 3). `DecodeUndoesEncode` holds for every sequence of bytes and every size of the output: the state
of the loop after 4k characters is 3k bytes and no bits left (`FourTaken`), and the
last group ends with one byte, two or none (`ShortGroup`). `LoginIsExact` adds that the
three comparisons of `authBasic` are a comparison with `user:password` (`MatchesPair`),
whatever colons either contains. Its text has no zero: at a zero `strlen` stops. The
theorems named after the runs' properties (`LinesTheorem`, `CodeTheorem`, `LoginTheorem`
and those below) apply these to the inputs of `MCData`.

`FormProofs` has the two searches in a request. `DecodeUndoesEncoding`: `httpdUrlDecode` undoes
the encoding of any bytes, cut to the buffer; each escape is followed on its own
(`Escaped`), and the buffer's end falls between two of them. `ArgIsFound`, for forms of any
number of fields, needs that a field can begin nowhere else: no encoded value has a
`&` in it, so the places `FieldStarts` lists are the beginnings of the fields and nothing
more, and at each of them `IsArg` is equality of names because a name has no `=`. What it
says of the buffer (`CutStored`) has both cases: with a terminator and without.
`PartIsFound` holds for any parts whose characters are no ends of lines, with any
number of value lines. The loop of `httpdFindMultipartArg` is followed over a part that is
passed over, header by header and line by line, in two states: looking for a
boundary, and behind one (`Midway`); a value's own lines hold, by
hypothesis, neither a boundary nor a Content-Disposition. It ends at the part that is
looked for, whose value begins behind the empty line and ends before the boundary. Its
hypothesis `CutWell` is the one of `PartFound`, and the reason is that of `WellCut`.

`PageProofs` proves `PageIsWhole` for every page, every value of its tokens, every size of
a piece and of the two buffers. The state of the scan after j characters of the page is
told by the marks up to j: odd or even says whether a token is being collected, the
last one where it began (`Before`, `MarkAt`); what has been sent is the expansion of the
stretches that are ended, and, outside a token, of the current one up to the end of the
last piece. That is an invariant of one character, then of one piece, then of the page, so it
does not matter where the pieces cut. It is `Send`, which drops what does not fit, that needs
the hypothesis: `PiecesFit` bounds what a piece can turn into.

It also proves `FileIsServed`, for any files with different names, any url and either
compression. The image is followed record by record (`IsLayout`): a header at a multiple
of four, the name, the data (`FileAt`). The search of `espFsOpen` steps from one header to
the next (`PassedBy`) and stops at the one whose name is the url without its slashes, or
at the last header of the image. A stored file is sent by lengths alone (`StoredSent`). For a
compressed one the invariant is `HeldAs`: what the decoder holds is what the units
between those that are out and those that are read expand to. It holds from one
refill and one poll of the decoder to the next, and at the end of the input bounds
what is lost by what `IN_BUF` units expand to (`CompressedSent`). The
theorem assumes that a block holds what one byte expands to (`UNIT <= BLOCK`): with
IN_BUF = 1, UNIT = 9 and BLOCK = 4 a file of two units of 9 characters loses 10. In the
code a block has 1024 bytes and a byte of a compressed file expands to 16 at most
(`mkespfsimage/main.c:40`).

Model-checked only is liveness: `AnswerEnds`, `SessionEnds`, `ScanEnds` and the fairness
half of `ImplementsService`.
Liveness and ENABLED are out of the prover's reach.

## 5. Not modelled

Left out, with the reason:

- heatshrink: its code is not in the repository (a submodule);
- the pages and scripts in `html/`, the client scripts: programs for a browser or a
  PC, with no state of the firmware;
- SDK headers: declarations and register addresses. Most lines of the C sources
  that no module covers are in `include/lwipopts.h` and `driver/eagle_soc_ext.h`;
- register programming in `uart_config`, and what a changed baud rate or a reset
  pulse given by hand (`AT+BAUD`, `AT+IORST`) does to a board that is being
  programmed;
- `cmucam4_send` and `cgiCmuCam4tw`: a loop inside one callback that waits for a byte
  only another callback could bring. There are no two steps to interleave;
- command lines of 256 characters and more, for which the loop in `config_parse` does
  not end (`config.c:351`);
- the watchdog, which nothing reads, and the heap: allocation failures and the
  blocks `cgiEspFsTemplate` does not free;
- `reset_sent` of `server.c`, written and never read;
- a login header of exactly five characters; percentages and texts that are only
  shown.
