------------------------------- MODULE Httpd -------------------------------
(***************************************************************************)
(* The web server core: httpd.c with the handlers it calls (httpdespfs.c,  *)
(* cgi.c) and the POST store of mmem.c.  The firmware is single threaded,  *)
(* so each espconn callback runs to completion and is one action; what     *)
(* interleaves is the order of the callbacks of different connections.     *)
(*                                                                         *)
(* A slot is an entry of connData[] with its connPrivData[].  An espconn   *)
(* belongs to the SDK: its state, what the client sent and whether a send  *)
(* is under way are modelled from how httpd.c uses them (external).        *)
(***************************************************************************)
EXTENDS PostStore, FiniteSets

CONSTANTS
  NSlots,        \* MAX_CONN
  Conns,         \* espconn control blocks the SDK hands out
  NULL,          \* no espconn
  MAX_HEAD_LEN,  \* bytes of request head kept per slot
  FlashBlocks,   \* 1 KByte pieces of cgiReadFlash (512 in the code)
  MaxChunk,      \* bound: bytes in one TCP segment
  Offers,        \* [Conns -> sets of requests the client may send]
  CanReset,      \* whether connections may be lost without a disconnect
  CanProgram     \* whether the programmer's timer may fire (Stk500)

Slots == 0 .. (NSlots - 1)

Cgis == {"none", "cgiRedirect", "cgiReadFlash", "cgiEspFsHook",
         "cgiEspFsTemplate", "cgiLed", "cgiProgram", "cgiWiFiScan",
         "cgiWiFiConnect", "cgiWifiSetMode", "cgiCmuCam4color",
         "cgiCmuCam4bw", "cgiCmuCam4tc"}
FileCgis == {"cgiEspFsHook", "cgiEspFsTemplate"}

\* The handlers that answer all there is on their first call, from the send
\* buffer (cgiWifiSetMode: without a mode; with one the firmware restarts).
ShortCgis == {"cgiRedirect", "cgiLed", "cgiWiFiScan", "cgiWiFiConnect",
              "cgiWifiSetMode"}

\* A request: the handler its url selects in builtInUrls, whether the file (or
\* the multipart part) it names exists, the file's size as full 1024-byte
\* blocks and whether a shorter block follows, the length of the head, and
\* Content-Length (-1: no such header).
RequestType ==
  [cgi: Cgis \ {"none"}, found: BOOLEAN, full: Nat, tail: BOOLEAN,
   head: Nat \ {0}, len: Nat \cup {-1}]

ASSUME HttpdAssumption ==
  /\ NSlots \in Nat \ {0}
  /\ NULL \notin Conns
  /\ MAX_HEAD_LEN \in Nat \ {0}
  /\ FlashBlocks \in Nat \ {0}
  /\ MaxChunk \in Nat \ {0}
  /\ Offers \in [Conns -> SUBSET RequestType]
  /\ CanReset \in BOOLEAN /\ CanProgram \in BOOLEAN

NoRequest == [cgi |-> "cgiEspFsHook", found |-> FALSE, full |-> 0,
              tail |-> FALSE, head |-> 1, len |-> -1]

VARIABLES
  conn,      \* [Slots -> espconn or NULL]      connData[i].conn
  cgi,       \* [Slots -> handler or "none"]    connData[i].cgi
  job,       \* [Slots -> parsed request]       url, getArgs, boundary
  calls,     \* [Slots -> calls of cgi so far]  cgiData, pos and file position
  files,     \* [Slots -> EspFsFile handles the slot's handlers hold open]
  headPos,   \* [Slots -> bytes of head stored]
  postLen,   \* [Slots -> -1 while the head is read, then the body's length]
  postPos,   \* [Slots -> body bytes stored, -1 when the body is complete]
  esp,       \* [Conns -> SDK state of the espconn]
  req,       \* [Conns -> request the client sends]
  rcvd,      \* [Conns -> bytes of it delivered to httpdRecvCb]
  inflight,  \* [Conns -> an espconn_sent awaits its sent callback]
  acked,     \* [Conns -> sent callbacks so far]
  lost,      \* an espconn_sent was made while another was under way
  ff         \* the POST store

slotVars == <<conn, cgi, job, calls, files, headPos, postLen, postPos>>
espVars  == <<esp, req, rcvd, inflight, acked>>
vars     == <<slotVars, espVars, lost, ff>>

EspState == {"free", "open", "closing", "refused"}

Init ==
  /\ conn = [i \in Slots |-> NULL]
  /\ cgi = [i \in Slots |-> "none"]
  /\ job = [i \in Slots |-> NoRequest]
  /\ calls = [i \in Slots |-> 0]
  /\ files = [i \in Slots |-> 0]
  /\ headPos = [i \in Slots |-> 0]
  /\ postLen = [i \in Slots |-> 0]
  /\ postPos = [i \in Slots |-> 0]
  /\ esp = [c \in Conns |-> "free"]
  /\ req = [c \in Conns |-> NoRequest]
  /\ rcvd = [c \in Conns |-> 0]
  /\ inflight = [c \in Conns |-> FALSE]
  /\ acked = [c \in Conns |-> 0]
  /\ lost = FALSE
  /\ ff = FfInit
-----------------------------------------------------------------------------
(* The handlers.  What a handler returns on its (k+1)-th call for a request,
   given the postLen it sees, and what it sends: buf into the send buffer that
   httpd.c transmits after the call, direct by its own espconn_sent. *)

Outcome == [res: {"MORE", "DONE", "NOTFOUND", "ERROR"},
            buf: BOOLEAN, direct: BOOLEAN]
Result(res, buf, direct) == [res |-> res, buf |-> buf, direct |-> direct]

HookCall(q, k) ==
  IF k = 0
  THEN IF q.found THEN Result("MORE", TRUE, FALSE)
                  ELSE Result("NOTFOUND", FALSE, FALSE)
  ELSE IF k <= q.full THEN Result("MORE", FALSE, TRUE)
                      ELSE Result("DONE", FALSE, q.tail)

\* Variant: the text after the last token is not sent.
TemplateCallNoRest(q, k) ==
  LET r == HookCall(q, k) IN
  Result(r.res, r.buf \/ (r.direct /\ r.res = "MORE"), FALSE)

\* The same walk over the file, but every piece is put in the send buffer.
TemplateCall(q, k) ==
  LET r == HookCall(q, k) IN Result(r.res, r.buf \/ r.direct, FALSE)

\* Variant: the end is tested before the piece just sent is counted.
ReadFlashCallLate(k) ==
  IF k = 0 THEN Result("MORE", TRUE, FALSE)
  ELSE Result(IF k > FlashBlocks THEN "DONE" ELSE "MORE", FALSE, TRUE)

ReadFlashCall(k) ==
  IF k = 0 THEN Result("MORE", TRUE, FALSE)
  ELSE Result(IF k >= FlashBlocks THEN "DONE" ELSE "MORE", FALSE, TRUE)

\* cgiProgram answers only when the "datafile" part is found.
ProgramCall(q, plen) ==
  IF plen <= 0 THEN Result("ERROR", FALSE, FALSE)
               ELSE Result("DONE", q.found, FALSE)

Call(q, k, plen) ==
  CASE q.cgi \in ShortCgis -> Result("DONE", TRUE, FALSE)
    [] q.cgi = "cgiReadFlash"     -> ReadFlashCall(k)
    [] q.cgi = "cgiEspFsHook"     -> HookCall(q, k)
    [] q.cgi = "cgiEspFsTemplate" -> TemplateCall(q, k)
    [] q.cgi = "cgiProgram"       -> ProgramCall(q, plen)
    [] q.cgi = "cgiCmuCam4color"  -> Result("MORE", FALSE, FALSE)
    [] OTHER                      -> Result("ERROR", FALSE, FALSE)

\* Where a handler that reads the POST store, from ff_reset on, leaves the
\* shared cursor.
CursorAfter(q, plen, store) ==
  IF q.cgi \in {"cgiLed", "cgiWiFiConnect"} \/ (q.cgi = "cgiProgram" /\ plen > 0)
  THEN ReadEnds(store)
  ELSE {store.cpos}
-----------------------------------------------------------------------------
(* httpd.c helpers. *)

Holds(i, c) == conn[i] = c

\* httpdFindConnData: the first slot whose conn is c.
IsSlotOf(i, c) == Holds(i, c) /\ \A j \in 0 .. (i - 1) : ~Holds(j, c)

\* A pool search: the first slot whose conn is NULL.
FirstFree(i) == IsSlotOf(i, NULL)

\* The response was started: the head is complete and no body is awaited.
Answered(i) == postLen[i] >= 0 /\ (postLen[i] = 0 \/ postPos[i] = -1)

\* The espconn_sent calls of one callback: a handler's own (direct), then
\* xmitSendBuff's (buf).  One made while a send is under way is dropped.
EspconnSent(c, busy, direct, buf) ==
  /\ inflight' = [inflight EXCEPT ![c] = busy \/ direct \/ buf]
  /\ lost' = (lost \/ (direct /\ buf) \/ (busy /\ (direct \/ buf)))

\* httpdSendResp, up to xmitSendBuff: the handler is called afresh.  When it
\* finds nothing the rest of builtInUrls ends in the 404 text; on an error the
\* 500 text is sent and the handler stays installed.
SendResp(i, c, q, plen, store) ==
  LET r == Call(q, 0, plen) IN
  /\ job' = [job EXCEPT ![i] = q]
  /\ calls' = [calls EXCEPT ![i] = 1]
  /\ cgi' = [cgi EXCEPT ![i] = IF r.res \in {"DONE", "NOTFOUND"}
                               THEN "none" ELSE q.cgi]
  /\ files' = [files EXCEPT ![i] =
                 IF q.cgi \in FileCgis /\ r.res = "MORE" THEN @ + 1 ELSE @]
  /\ EspconnSent(c, inflight[c], r.direct,
                 r.buf \/ r.res \in {"NOTFOUND", "ERROR"})
  /\ \E p \in CursorAfter(q, plen, store) : ff' = FfMoveTo(store, p)

\* Variant: the handler stays installed.
RetireConnKeepsCgi(dead) ==
  /\ conn' = [i \in Slots |-> IF i \in dead THEN NULL ELSE conn[i]]
  /\ cgi' = cgi
  /\ job' = [i \in Slots |-> IF i \in dead THEN NoRequest ELSE job[i]]

\* httpdRetireConn.  (The url and body fields of a retired slot are stale in
\* the code and never read: job is put back to keep the states few.)
RetireConn(dead) ==
  /\ conn' = [i \in Slots |-> IF i \in dead THEN NULL ELSE conn[i]]
  /\ cgi' = [i \in Slots |-> IF i \in dead THEN "none" ELSE cgi[i]]
  /\ job' = [i \in Slots |-> IF i \in dead THEN NoRequest ELSE job[i]]
-----------------------------------------------------------------------------
(* httpdConnectCb *)

Connect(c, s) ==
  /\ esp[c] = "free"
  /\ esp' = [esp EXCEPT ![c] = s]
  /\ \E q \in Offers[c] : req' = [req EXCEPT ![c] = q]
  /\ UNCHANGED <<rcvd, inflight, acked>>

\* A free slot is taken; cgi and cgiData are left as they are.
ConnectCb(i, c) ==
  /\ FirstFree(i)
  /\ Connect(c, "open")
  /\ conn' = [conn EXCEPT ![i] = c]
  /\ headPos' = [headPos EXCEPT ![i] = 0]
  /\ postPos' = [postPos EXCEPT ![i] = 0]
  /\ postLen' = [postLen EXCEPT ![i] = -1]
  /\ UNCHANGED <<cgi, job, calls, files, lost, ff>>

\* The pool is full: espconn_disconnect, and no callback is registered.
ConnectCbFull(c) ==
  /\ \A i \in Slots : ~Holds(i, NULL)
  /\ Connect(c, "refused")
  /\ UNCHANGED <<slotVars, lost, ff>>
-----------------------------------------------------------------------------
(* httpdRecvCb, called with the next n bytes of what the client sends. *)

Length(q) == q.head + (IF q.len > 0 THEN q.len ELSE 0)

Receive(i, c, n) ==
  /\ esp[c] = "open"
  /\ IsSlotOf(i, c)
  /\ rcvd[c] + n <= Length(req[c])
  /\ rcvd' = [rcvd EXCEPT ![c] = @ + n]
  /\ UNCHANGED <<conn, esp, req, acked>>

\* Variant: no test against MAX_HEAD_LEN.
StoreHeadUnbounded(i, n) == headPos' = [headPos EXCEPT ![i] = @ + n]

StoreHead(i, n) ==
  headPos' = [headPos EXCEPT ![i] = IF @ + n < MAX_HEAD_LEN THEN @ + n
                                                            ELSE MAX_HEAD_LEN]

\* The blank line arrives with these n bytes, and there was room to store it.
HeadEnds(i, c, n) ==
  LET rest == req[c].head - rcvd[c] IN
  rest \in 1 .. n /\ headPos[i] + rest <= MAX_HEAD_LEN

\* httpdParseHeader, Content-Length: the length the body is read with; a body
\* that does not fit is treated as none and the store is not erased.
PostLen(q) == IF q.len < 0 \/ q.len > FF_SIZE THEN 0 ELSE q.len
ParsedStore(q) == IF q.len < 0 \/ q.len > FF_SIZE THEN ff ELSE FfErase(ff)

\* What the parsed head asks for.  A slot whose head began with the bytes of an
\* earlier connection may parse to a url nobody sent.
Parsed(i, c) ==
  {req[c]} \cup
    (IF headPos[i] = rcvd[c] THEN {}
     ELSE {[req[c] EXCEPT !.cgi = "cgiEspFsHook", !.found = FALSE]})

\* The bytes of the client's body from offset on, told apart by their place.
BodyBytes(c, offset, sz) == [k \in 0 .. (sz - 1) |-> <<c, offset + k>>]

\* The body branch of the loop, reached with b bytes left of this segment and
\* pos of plen stored: the store's cursor decides where they go.
Body(i, c, q, plen, pos, store, n, b) ==
  LET sz    == IF pos + b > plen THEN plen - pos ELSE b
      after == FfWriteBytes(store,
                 BodyBytes(c, rcvd[c] + n - b - req[c].head, sz), sz)
  IN /\ store.cpos + sz <= StoreCap
     /\ postLen' = [postLen EXCEPT ![i] = plen]
     /\ \/ /\ pos + sz < plen
           /\ postPos' = [postPos EXCEPT ![i] = pos + sz]
           /\ ff' = after
           /\ job' = [job EXCEPT ![i] = q]
           /\ UNCHANGED <<cgi, calls, files, inflight, lost>>
        \/ /\ pos + sz >= plen
           /\ postPos' = [postPos EXCEPT ![i] = -1]
           /\ SendResp(i, c, q, plen, after)

RecvHead(i, c, n) ==
  /\ Receive(i, c, n)
  /\ postLen[i] < 0
  /\ ~HeadEnds(i, c, n)
  /\ StoreHead(i, n)
  /\ UNCHANGED <<cgi, job, calls, files, postLen, postPos, inflight, lost, ff>>

\* The head ends and no body is to be read: respond at once.
RecvRequest(i, c, n) ==
  /\ Receive(i, c, n)
  /\ postLen[i] < 0
  /\ HeadEnds(i, c, n)
  /\ PostLen(req[c]) = 0
  /\ StoreHead(i, req[c].head - rcvd[c])
  /\ postLen' = [postLen EXCEPT ![i] = 0]
  /\ postPos' = postPos
  /\ \E q \in Parsed(i, c) : SendResp(i, c, q, 0, ParsedStore(q))

\* The head ends: the store is erased and the body's first bytes, if the
\* segment has any, are written.
RecvPost(i, c, n) ==
  /\ Receive(i, c, n)
  /\ postLen[i] < 0
  /\ HeadEnds(i, c, n)
  /\ PostLen(req[c]) > 0
  /\ StoreHead(i, req[c].head - rcvd[c])
  /\ \E q \in Parsed(i, c) :
       Body(i, c, q, PostLen(q), 0, ParsedStore(q), n,
            n - (req[c].head - rcvd[c]))

\* Variant: the test postLen>0 of the body branch is missing.
AwaitsBodyAnyLen(i) ==
  postLen[i] >= 0 /\ postPos[i] # -1 /\ postPos[i] <= postLen[i]

AwaitsBody(i) ==
  postLen[i] > 0 /\ postPos[i] # -1 /\ postPos[i] <= postLen[i]

RecvBody(i, c, n) ==
  /\ Receive(i, c, n)
  /\ AwaitsBody(i)
  /\ Body(i, c, job[i], postLen[i], postPos[i], ff, n, n)
  /\ UNCHANGED headPos

\* Bytes after the request was answered are dropped.
RecvIgnored(i, c, n) ==
  /\ Receive(i, c, n)
  /\ Answered(i)
  /\ UNCHANGED <<cgi, job, calls, files, headPos, postLen, postPos,
                 inflight, lost, ff>>
-----------------------------------------------------------------------------
(* httpdSentCb: the send under way on c is complete. *)

Sent(i, c) ==
  /\ esp[c] = "open"
  /\ inflight[c]
  /\ IsSlotOf(i, c)
  /\ acked' = [acked EXCEPT ![c] = @ + 1]
  /\ UNCHANGED <<headPos, postLen, postPos, req, rcvd, ff>>

\* Marked for destruction: disconnect and retire the slot.
SentCbClose(i, c) ==
  /\ Sent(i, c)
  /\ cgi[i] = "none"
  /\ esp' = [esp EXCEPT ![c] = "closing"]
  /\ inflight' = [inflight EXCEPT ![c] = FALSE]
  /\ RetireConn({i})
  /\ UNCHANGED <<calls, files, lost>>

\* Otherwise the handler goes on; DONE marks the slot for destruction.
SentCbCall(i, c) ==
  LET r == Call(job[i], calls[i], postLen[i]) IN
  /\ Sent(i, c)
  /\ cgi[i] # "none"
  /\ calls' = [calls EXCEPT ![i] = @ + 1]
  /\ cgi' = [cgi EXCEPT ![i] = IF r.res = "DONE" THEN "none" ELSE @]
  /\ files' = [files EXCEPT ![i] =
                 IF cgi[i] \in FileCgis /\ r.res = "DONE" THEN @ - 1 ELSE @]
  /\ EspconnSent(c, FALSE, r.direct, r.buf)
  /\ UNCHANGED <<conn, job, esp>>
-----------------------------------------------------------------------------
(* The end of a connection. *)

\* The SDK frees the espconn (nothing of it is left to read).
Freed(c) ==
  /\ esp' = [esp EXCEPT ![c] = "free"]
  /\ req' = [req EXCEPT ![c] = NoRequest]
  /\ rcvd' = [rcvd EXCEPT ![c] = 0]
  /\ inflight' = [inflight EXCEPT ![c] = FALSE]
  /\ acked' = [acked EXCEPT ![c] = 0]

\* The client closes: the SDK sets the state to ESPCONN_CLOSE and will call
\* httpdDisconCb.  A send under way gets no sent callback.
RemoteClose(c) ==
  /\ esp[c] = "open"
  /\ esp' = [esp EXCEPT ![c] = "closing"]
  /\ inflight' = [inflight EXCEPT ![c] = FALSE]
  /\ UNCHANGED <<slotVars, req, rcvd, acked, lost, ff>>

\* Variants: a closed connection is not recognised; every slot is killed.
ClosedMissed == {i \in Slots : conn[i] # NULL /\ esp[conn[i]] = "refused"}
ClosedAll    == {i \in Slots : conn[i] # NULL}

\* The slots whose espconn's state reads ESPCONN_CLOSE; an espconn the SDK has
\* freed reads as anything.
Closed  == {i \in Slots : conn[i] # NULL /\ esp[conn[i]] \in {"closing", "refused"}}
Garbage == {i \in Slots : conn[i] # NULL /\ esp[conn[i]] = "free"}

\* Variant: the handlers of dead slots are not called.
FlushNothing(dead) == files' = files

\* The handlers of the dead slots are called with conn NULL, and those that
\* read a file close it.
Flush(dead) ==
  files' = [i \in Slots |-> IF i \in dead /\ cgi[i] \in FileCgis
                            THEN files[i] - 1 ELSE files[i]]

\* httpdDisconCb: it is told the wrong espconn, so every slot is looked at.
DisconCb(c) ==
  /\ esp[c] = "closing"
  /\ \E g \in SUBSET Garbage :
       Flush(Closed \cup g) /\ RetireConn(Closed \cup g)
  /\ Freed(c)
  /\ UNCHANGED <<calls, headPos, postLen, postPos, lost, ff>>

\* The SDK is done with a connection httpdConnectCb refused.
RefusedGone(c) ==
  /\ esp[c] = "refused"
  /\ Freed(c)
  /\ UNCHANGED <<slotVars, lost, ff>>

\* httpdReconCb: the connection broke and the SDK frees the espconn; the
\* callback does nothing.
ReconCb(c) ==
  /\ CanReset
  /\ esp[c] = "open"
  /\ Freed(c)
  /\ UNCHANGED <<slotVars, lost, ff>>
-----------------------------------------------------------------------------
\* Where a tick leaves the cursor.  With fpos >= 0, saved by this tick or left on
\* the stack, it is put back with ff_seek.  While the programmer has no cursor
\* of its own fpos may be negative: nothing is put back, and the cursor is where
\* it was (a timeout, too) or where ff_seek(fpos_start) or a page read took it.
CursorAfterTick(store) ==
  {FfClamp(store.csize, fpos) : fpos \in 0 .. store.csize}
    \cup {store.cpos} \cup ReadEnds(store)

\* A tick of runProgrammer, as far as the web server is concerned (Stk500 has
\* the rest).
ProgrammerTick ==
  /\ CanProgram
  /\ \E p \in CursorAfterTick(ff) : ff' = FfMoveTo(ff, p)
  /\ UNCHANGED <<slotVars, espVars, lost>>
-----------------------------------------------------------------------------
SlotNext(i, c) ==
  \/ ConnectCb(i, c)
  \/ SentCbClose(i, c)
  \/ SentCbCall(i, c)
  \/ \E n \in 1 .. MaxChunk :
       \/ RecvHead(i, c, n)
       \/ RecvRequest(i, c, n)
       \/ RecvPost(i, c, n)
       \/ RecvBody(i, c, n)
       \/ RecvIgnored(i, c, n)

Next ==
  \/ \E c \in Conns :
       \/ \E i \in Slots : SlotNext(i, c)
       \/ ConnectCbFull(c)
       \/ RemoteClose(c)
       \/ DisconCb(c)
       \/ RefusedGone(c)
       \/ ReconCb(c)
  \/ ProgrammerTick

SentCb(c) == \E i \in Slots : SentCbClose(i, c) \/ SentCbCall(i, c)

\* The SDK reports every send that completes and every close.
Fairness == \A c \in Conns : WF_vars(SentCb(c)) /\ WF_vars(DisconCb(c))

Spec     == Init /\ [][Next]_vars
FairSpec == Spec /\ Fairness
-----------------------------------------------------------------------------
(* Properties *)

StoreType == [cpos: Nat, csize: Nat,
              cell: [Cells -> {ERASED, MIXED} \cup (Conns \X Int)],
              moved: BOOLEAN, holes: Nat]

TypeOK ==
  /\ conn \in [Slots -> Conns \cup {NULL}]
  /\ cgi \in [Slots -> Cgis]
  /\ job \in [Slots -> RequestType]
  /\ calls \in [Slots -> Nat]
  /\ files \in [Slots -> Int]
  /\ headPos \in [Slots -> 0 .. MAX_HEAD_LEN]
  /\ postLen \in [Slots -> (0 .. FF_SIZE) \cup {-1}]
  /\ postPos \in [Slots -> (0 .. FF_SIZE) \cup {-1}]
  /\ esp \in [Conns -> EspState]
  /\ req \in [Conns -> RequestType]
  /\ rcvd \in [Conns -> Nat]
  /\ inflight \in [Conns -> BOOLEAN]
  /\ acked \in [Conns -> Nat]
  /\ lost \in BOOLEAN
  /\ ff \in StoreType

\* A slot runs a handler only for a connection whose request it has answered:
\* httpdConnectCb relies on finding cgi clear, because it does not clear it and
\* httpdDisconCb would flush a handler that was never called.
HandlerOnlyWhenAnswered ==
  \A i \in Slots : cgi[i] # "none" => conn[i] # NULL /\ Answered(i)

\* A slot holds one EspFsFile handle exactly while it runs a handler that reads
\* a file: whichever of the end of the file, a close by the client and the
\* wrong-argument disconnect scan comes first, the handle is closed once.
HandleOwned ==
  \A i \in Slots : files[i] = (IF cgi[i] \in FileCgis THEN 1 ELSE 0)

\* No espconn_sent is made while an earlier one awaits its sent callback (the
\* SDK would drop the data): a request is answered once, and every later piece
\* is sent from the callback of the piece before.
OneSendAtATime == ~lost

\* Every open connection can be looked up by its callbacks.
OpenHasSlot ==
  \A c \in Conns : esp[c] = "open" => \E i \in Slots : Holds(i, c)

\* httpdFindConnData has at most one answer: no two slots are for one espconn.
UniqueSlot ==
  \A i, j \in Slots : conn[i] = conn[j] /\ conn[i] # NULL => i = j

\* A connection whose whole request has arrived waits for a sent callback: if
\* it did not, nothing but the client could ever move it on.
NoStall ==
  \A i \in Slots, c \in Conns :
    esp[c] = "open" /\ IsSlotOf(i, c) /\ rcvd[c] = Length(req[c]) => inflight[c]

\* POST data leaves the region that ff_erase erases by two bytes at most for each
\* write that found the cursor past the end of the data, where the programmer's
\* ticks and the handlers that read to the end may put it; without such a write
\* it stays inside, wherever in the data they leave the cursor.
StoreInBounds == ff.csize <= FF_SIZE + 2 * ff.holes

\* When a slot declares its POST body complete and calls the handler, the store
\* holds that connection's body, whole, in order and from the start, unless a
\* reader of the store has moved the cursor between two segments of the body.
BodyStored(i) ==
  /\ ff'.csize = postLen'[i]
  /\ \A k \in 0 .. (postLen'[i] - 1) : ff'.cell[k] = <<conn[i], k>>
UploadIntact ==
  [][\A i \in Slots :
       postPos[i] # -1 /\ postPos'[i] = -1 /\ ~(postLen[i] > 0 /\ ff.moved)
         => BodyStored(i)]_vars

\* An answered connection ends: its slot is free again, whether the client
\* reads the answer to its end or goes away.
AnswerEnds ==
  \A i \in Slots : (conn[i] # NULL /\ Answered(i)) ~> (conn[i] = NULL)

\* The pieces an answer to q has: one sent callback each.
Pieces(q) ==
  CASE q.cgi \in FileCgis /\ q.found -> 1 + q.full + (IF q.tail THEN 1 ELSE 0)
    [] q.cgi = "cgiReadFlash" -> 1 + FlashBlocks
    [] OTHER -> 1

InAnswer(c) == \E i \in Slots : IsSlotOf(i, c) /\ Answered(i)

\* A connection as its client sees it, and the pieces it has still to get.
PhaseOf(c) ==
  CASE esp[c] = "open"    -> (IF InAnswer(c) THEN "answering" ELSE "asking")
    [] esp[c] = "closing" -> "ending"
    [] OTHER              -> "none"
OwedOf(c) ==
  IF esp[c] = "open" /\ InAnswer(c) THEN Pieces(req[c]) - acked[c] ELSE 0

\* The server as its clients see it.
Service == INSTANCE HttpService WITH
  Answers <- {Pieces(q) : q \in UNION {Offers[c] : c \in Conns}},
  phase <- [c \in Conns |-> PhaseOf(c)],
  owed <- [c \in Conns |-> OwedOf(c)]

\* Slots, handlers, send buffer and callbacks implement that service: no piece
\* is skipped or repeated, and the close comes after the last one arrived.
ImplementsService == Service!Spec
=============================================================================
