---------------------------- MODULE HttpdProofs ----------------------------
(***************************************************************************)
(* Theorems about Httpd, for every number of slots, connections and every  *)
(* set of requests the clients may send: one slot and one send at a time   *)
(* for each connection; how far a slot is with its connection's request,   *)
(* and what the POST store holds; the answers, and the server as an        *)
(* implementation of HttpService.                                          *)
(***************************************************************************)
EXTENDS Httpd, TLAPS

\* Until a slot answers, nothing is sent on the connection it is found for.
QuietUntilAnswered ==
  \A i \in Slots, c \in Conns :
    esp[c] = "open" /\ IsSlotOf(i, c) /\ ~Answered(i) => ~inflight[c]

\* Only an open connection has a send under way.
QuietUnlessOpen == \A c \in Conns : inflight[c] => esp[c] = "open"

\* The inductive invariant.
IInv ==
  /\ TypeOK
  /\ HandlerOnlyWhenAnswered
  /\ HandleOwned
  /\ OneSendAtATime
  /\ OpenHasSlot
  /\ QuietUntilAnswered
  /\ QuietUnlessOpen

Assumptions == StoreAssumption /\ HttpdAssumption
-----------------------------------------------------------------------------
\* What a handler's call returns is one of the results of httpd.h.
LEMMA CallType ==
  ASSUME NEW q \in RequestType, NEW k \in Nat, NEW plen \in Int
  PROVE  Call(q, k, plen) \in Outcome
<1> USE DEF Outcome, Result
<1>1. HookCall(q, k) \in Outcome
  BY DEF HookCall, RequestType
<1>2. TemplateCall(q, k) \in Outcome
  BY <1>1 DEF TemplateCall
<1>3. ReadFlashCall(k) \in Outcome
  BY DEF ReadFlashCall
<1>4. ProgramCall(q, plen) \in Outcome
  BY DEF ProgramCall, RequestType
<1> QED
  BY <1>1, <1>2, <1>3, <1>4 DEF Call

\* No handler both sends by itself and fills the send buffer in one call.
LEMMA OneWayOut ==
  ASSUME NEW q \in RequestType, NEW k \in Nat, NEW plen \in Int
  PROVE  /\ ~(Call(q, k, plen).direct /\ Call(q, k, plen).buf)
         /\ Call(q, 0, plen).direct = FALSE
<1> USE DEF Result
<1> DEFINE Single(r) == ~(r.direct /\ r.buf)
<1>1. Single(HookCall(q, k)) /\ HookCall(q, 0).direct = FALSE
  BY DEF HookCall, RequestType
<1>2. Single(TemplateCall(q, k)) /\ TemplateCall(q, 0).direct = FALSE
  BY DEF TemplateCall
<1>3. Single(ReadFlashCall(k)) /\ ReadFlashCall(0).direct = FALSE
  BY DEF ReadFlashCall
<1>4. Single(ProgramCall(q, plen)) /\ ProgramCall(q, plen).direct = FALSE
  BY DEF ProgramCall
<1> QED
  BY <1>1, <1>2, <1>3, <1>4 DEF Call

\* A handler that reads a file goes on after its first call or finds nothing.
LEMMA FileCall ==
  ASSUME NEW q \in RequestType, NEW plen \in Int, q.cgi \in FileCgis
  PROVE  Call(q, 0, plen).res \in {"MORE", "NOTFOUND"}
BY DEF FileCgis, Call, HookCall, TemplateCall, Result, RequestType
-----------------------------------------------------------------------------
\* The operations of the POST store keep its type.
LEMMA EraseType ==
  ASSUME NEW s \in StoreType
  PROVE  FfErase(s) \in StoreType
BY DEF StoreType, FfErase, FfReset, FfSeek, FfClamp, Erased

LEMMA WriteType ==
  ASSUME NEW s \in StoreType, NEW c \in Conns, NEW o \in Int, NEW sz \in Nat
  PROVE  FfWriteBytes(s, BodyBytes(c, o, sz), sz) \in StoreType
<1> DEFINE b == BodyBytes(c, o, sz)
<1>1. \A k \in 0 .. (sz - 1) : b[k] \in Conns \X Int
  BY DEF BodyBytes
<1>2. \A a \in Cells : ~(a < s.cpos \/ a >= s.cpos + sz) => a - s.cpos \in 0 .. (sz - 1)
  BY DEF StoreType, Cells
<1> HIDE DEF b
<1>3. \A a \in Cells : FfWriteBytes(s, b, sz).cell[a] \in {ERASED, MIXED} \cup (Conns \X Int)
  BY <1>1, <1>2 DEF FfWriteBytes, StoreType
<1> QED
  BY <1>3 DEF FfWriteBytes, StoreType, b

LEMMA MoveType ==
  ASSUME NEW s \in StoreType, NEW p \in Nat
  PROVE  FfMoveTo(s, p) \in StoreType
<1> DEFINE m == s.moved \/ p # s.cpos
<1>1. m \in BOOLEAN
  OBVIOUS
<1>2. FfMoveTo(s, p) = [s EXCEPT !.cpos = p, !.moved = m]
  BY DEF FfMoveTo, StoreType
<1> HIDE DEF m
<1> QED
  BY <1>1, <1>2 DEF StoreType

\* A reader takes the cursor two bytes past the end of the data at most.
LEMMA ReadsNearEnd ==
  ASSUME NEW s \in StoreType, NEW p \in ReadEnds(s)
  PROVE  p \in 0 .. (s.csize + 2)
<1>1. s.csize \in Nat /\ ReadEnd(s) \in {s.csize + 1, s.csize + 2}
  BY DEF StoreType, ReadEnd
<1> QED
  BY <1>1 DEF ReadEnds

LEMMA CursorNear ==
  ASSUME NEW q, NEW plen, NEW s \in StoreType, NEW p \in CursorAfter(q, plen, s)
  PROVE  p \in Nat /\ (p = s.cpos \/ p <= s.csize + 2)
<1>1. p \in ReadEnds(s) \/ p = s.cpos
  BY DEF CursorAfter
<1>2. s.csize \in Nat /\ s.cpos \in Nat
  BY DEF StoreType
<1> QED
  BY <1>1, <1>2, ReadsNearEnd

LEMMA TickNear ==
  ASSUME NEW s \in StoreType, NEW p \in CursorAfterTick(s)
  PROVE  p \in Nat /\ (p = s.cpos \/ p <= s.csize + 2)
<1>1. s.csize \in Nat /\ s.cpos \in Nat
  BY DEF StoreType
<1>2. \A f \in 0 .. s.csize : FfClamp(s.csize, f) \in 0 .. s.csize
  BY <1>1 DEF FfClamp
<1>3. p \in ReadEnds(s) \/ p = s.cpos \/ p \in 0 .. s.csize
  BY <1>2 DEF CursorAfterTick
<1> QED
  BY <1>1, <1>3, ReadsNearEnd

LEMMA CursorType ==
  ASSUME NEW q, NEW plen, NEW s \in StoreType, NEW p \in CursorAfter(q, plen, s)
  PROVE  FfMoveTo(s, p) \in StoreType
<1> QED
  BY CursorNear, MoveType
-----------------------------------------------------------------------------
\* The slot of a connection is unique: it is the first that holds it.
LEMMA FirstSlot ==
  ASSUME NEW i \in Slots, NEW k \in Slots, NEW c, IsSlotOf(i, c), IsSlotOf(k, c)
  PROVE  i = k
BY HttpdAssumption DEF IsSlotOf, Slots

\* What a call of httpdRecvCb for slot i and connection c may do to the rest.
RecvEffect(i, c) ==
  /\ cgi' \in [Slots -> Cgis]
  /\ job' \in [Slots -> RequestType]
  /\ calls' \in [Slots -> Nat]
  /\ files' \in [Slots -> Int]
  /\ postLen' \in [Slots -> (0 .. FF_SIZE) \cup {-1}]
  /\ postPos' \in [Slots -> (0 .. FF_SIZE) \cup {-1}]
  /\ inflight' \in [Conns -> BOOLEAN]
  /\ lost' = FALSE
  /\ ff' \in StoreType
  /\ \A k \in Slots : k # i =>
       /\ cgi'[k] = cgi[k]
       /\ files'[k] = files[k]
       /\ postLen'[k] = postLen[k]
       /\ postPos'[k] = postPos[k]
  /\ files'[i] = (IF cgi'[i] \in FileCgis THEN 1 ELSE 0)
  /\ cgi'[i] # "none" => Answered(i)'
  /\ \A d \in Conns : d # c => inflight'[d] = inflight[d]
  /\ ~Answered(i)' => ~inflight'[c]

\* httpdSendResp for a slot that has not answered yet: a handler takes over an
\* idle slot, and the response is the first send on the connection.
LEMMA SendRespEffect ==
  ASSUME IInv, NEW i \in Slots, NEW c \in Conns, NEW q \in RequestType,
         NEW plen \in Int, NEW s \in StoreType,
         IsSlotOf(i, c), esp[c] = "open", ~Answered(i),
         SendResp(i, c, q, plen, s),
         postLen' \in [Slots -> (0 .. FF_SIZE) \cup {-1}],
         postPos' \in [Slots -> (0 .. FF_SIZE) \cup {-1}],
         \A k \in Slots : k # i =>
           postLen'[k] = postLen[k] /\ postPos'[k] = postPos[k],
         Answered(i)'
  PROVE  RecvEffect(i, c)
<1> DEFINE r == Call(q, 0, plen)
<1>1. r \in Outcome /\ r.direct = FALSE
  BY CallType, OneWayOut
<1>2. cgi[i] = "none" /\ files[i] = 0
  BY DEF IInv, HandlerOnlyWhenAnswered, HandleOwned, FileCgis, TypeOK
<1>3. ~inflight[c]
  BY DEF IInv, QuietUntilAnswered
<1>4. job' = [job EXCEPT ![i] = q] /\ job' \in [Slots -> RequestType]
  BY DEF SendResp, IInv, TypeOK
<1>5. calls' \in [Slots -> Nat]
  BY DEF SendResp, IInv, TypeOK
<1>6. /\ cgi' = [cgi EXCEPT ![i] = IF r.res \in {"DONE", "NOTFOUND"}
                                   THEN "none" ELSE q.cgi]
      /\ cgi' \in [Slots -> Cgis]
  BY DEF SendResp, IInv, TypeOK, RequestType, Cgis
<1>7. /\ files' = [files EXCEPT ![i] =
                     IF q.cgi \in FileCgis /\ r.res = "MORE" THEN @ + 1 ELSE @]
      /\ files' \in [Slots -> Int]
  BY DEF SendResp, IInv, TypeOK
<1>8. /\ inflight' = [inflight EXCEPT ![c] = @ \/ r.direct \/ (r.buf \/ r.res \in {"NOTFOUND", "ERROR"})]
      /\ lost' = (lost \/ (r.direct /\ (r.buf \/ r.res \in {"NOTFOUND", "ERROR"}))
                  \/ (inflight[c] /\ (r.direct \/ (r.buf \/ r.res \in {"NOTFOUND", "ERROR"}))))
  BY DEF SendResp, EspconnSent, IInv, TypeOK
<1>9. inflight' \in [Conns -> BOOLEAN] /\ lost' = FALSE
  BY <1>1, <1>3, <1>8 DEF IInv, TypeOK, OneSendAtATime, Outcome
<1>10. ff' \in StoreType
  BY CursorType DEF SendResp
<1>11. files'[i] = (IF cgi'[i] \in FileCgis THEN 1 ELSE 0)
  <2>1. CASE q.cgi \in FileCgis
    BY <1>2, <1>6, <1>7, <2>1, FileCall DEF IInv, TypeOK, FileCgis
  <2>2. CASE q.cgi \notin FileCgis
    BY <1>2, <1>6, <1>7, <2>2 DEF IInv, TypeOK, FileCgis
  <2> QED
    BY <2>1, <2>2
<1>12. \A k \in Slots : k # i => cgi'[k] = cgi[k] /\ files'[k] = files[k]
  BY <1>6, <1>7 DEF IInv, TypeOK
<1>13. \A d \in Conns : d # c => inflight'[d] = inflight[d]
  BY <1>8 DEF IInv, TypeOK
<1> QED
  BY <1>4, <1>5, <1>6, <1>7, <1>9, <1>10, <1>11, <1>12, <1>13 DEF RecvEffect

\* A call of httpdRecvCb with such an effect keeps the invariant.
LEMMA RecvPreserves ==
  ASSUME IInv, NEW i \in Slots, NEW c \in Conns, NEW n \in 1 .. MaxChunk,
         Receive(i, c, n), headPos' \in [Slots -> 0 .. MAX_HEAD_LEN],
         RecvEffect(i, c)
  PROVE  IInv'
<1>1. conn' = conn /\ esp' = esp /\ req' = req /\ acked' = acked
  BY DEF Receive
<1>2. esp[c] = "open" /\ IsSlotOf(i, c) /\ conn[i] = c
  BY DEF Receive, IsSlotOf, Holds
<1>3. rcvd' \in [Conns -> Nat]
  BY HttpdAssumption DEF Receive, IInv, TypeOK
<1>4. TypeOK'
  BY <1>1, <1>3 DEF IInv, TypeOK, RecvEffect
<1>5. HandlerOnlyWhenAnswered'
  <2> SUFFICES ASSUME NEW k \in Slots, cgi'[k] # "none"
               PROVE  conn'[k] # NULL /\ Answered(k)'
    BY DEF HandlerOnlyWhenAnswered
  <2>1. CASE k = i
    BY <1>1, <1>2, <2>1, HttpdAssumption DEF RecvEffect
  <2>2. CASE k # i
    BY <1>1, <2>2 DEF RecvEffect, IInv, HandlerOnlyWhenAnswered, Answered
  <2> QED
    BY <2>1, <2>2
<1>6. HandleOwned'
  BY DEF RecvEffect, IInv, HandleOwned
<1>7. OneSendAtATime'
  BY DEF RecvEffect, OneSendAtATime
<1>8. OpenHasSlot'
  BY <1>1 DEF IInv, OpenHasSlot, Holds
<1>9. QuietUntilAnswered'
  <2> SUFFICES ASSUME NEW k \in Slots, NEW d \in Conns, esp[d] = "open",
                      IsSlotOf(k, d), ~Answered(k)'
               PROVE  ~inflight'[d]
    BY <1>1 DEF QuietUntilAnswered, IsSlotOf, Holds
  <2>1. CASE d = c
    <3>1. k = i
      BY <1>2, <2>1, FirstSlot
    <3> QED
      BY <2>1, <3>1 DEF RecvEffect
  <2>2. CASE d # c
    <3>1. k # i
      BY <1>2, <2>2 DEF IsSlotOf, Holds
    <3>2. ~Answered(k)
      BY <3>1 DEF RecvEffect, Answered
    <3> QED
      BY <2>2, <3>2 DEF RecvEffect, IInv, QuietUntilAnswered
  <2> QED
    BY <2>1, <2>2
<1>10. QuietUnlessOpen'
  BY <1>1, <1>2 DEF RecvEffect, IInv, QuietUnlessOpen
<1> QED
  BY <1>4, <1>5, <1>6, <1>7, <1>8, <1>9, <1>10 DEF IInv
-----------------------------------------------------------------------------
(* httpdRecvCb. *)

LEMMA StoreHeadType ==
  ASSUME TypeOK, NEW i \in Slots, NEW n \in Nat, StoreHead(i, n)
  PROVE  headPos' \in [Slots -> 0 .. MAX_HEAD_LEN]
BY HttpdAssumption DEF StoreHead, TypeOK

\* What a head parses to, and the length its body is read with.
LEMMA ParsedType ==
  ASSUME TypeOK, NEW i \in Slots, NEW c \in Conns, NEW q \in Parsed(i, c)
  PROVE  /\ q \in RequestType
         /\ PostLen(q) = PostLen(req[c])
         /\ PostLen(q) \in 0 .. FF_SIZE
         /\ ParsedStore(q) \in StoreType
<1>1. q \in RequestType /\ q.len = req[c].len
  <2>1. req[c] \in RequestType
    BY DEF TypeOK
  <2>2. CASE q = [req[c] EXCEPT !.cgi = "cgiEspFsHook", !.found = FALSE]
    BY <2>1, <2>2 DEF RequestType, Cgis
  <2> QED
    BY <2>1, <2>2 DEF Parsed
<1>2. PostLen(q) \in 0 .. FF_SIZE /\ PostLen(q) = PostLen(req[c])
  BY <1>1, StoreAssumption DEF PostLen, RequestType
<1>3. ParsedStore(q) \in StoreType
  BY EraseType DEF ParsedStore, TypeOK
<1> QED
  BY <1>1, <1>2, <1>3

LEMMA RecvHeadStep ==
  ASSUME IInv, NEW i \in Slots, NEW c \in Conns, NEW n \in 1 .. MaxChunk,
         RecvHead(i, c, n)
  PROVE  IInv'
<1>1. headPos' \in [Slots -> 0 .. MAX_HEAD_LEN]
  BY StoreHeadType DEF RecvHead, IInv
<1>2. ~Answered(i)
  BY StoreAssumption DEF RecvHead, Answered, IInv, TypeOK
<1>3. ~inflight[c]
  BY <1>2 DEF RecvHead, Receive, IInv, QuietUntilAnswered
<1>4. RecvEffect(i, c)
  BY <1>2, <1>3 DEF RecvHead, RecvEffect, IInv, TypeOK, HandleOwned,
     OneSendAtATime, HandlerOnlyWhenAnswered, Answered
<1> QED
  BY <1>1, <1>4, RecvPreserves DEF RecvHead

LEMMA RecvIgnoredStep ==
  ASSUME IInv, NEW i \in Slots, NEW c \in Conns, NEW n \in 1 .. MaxChunk,
         RecvIgnored(i, c, n)
  PROVE  IInv'
<1>1. RecvEffect(i, c)
  BY DEF RecvIgnored, RecvEffect, IInv, TypeOK, HandleOwned, OneSendAtATime,
     HandlerOnlyWhenAnswered, Answered
<1> QED
  BY <1>1, RecvPreserves DEF RecvIgnored, IInv, TypeOK

LEMMA RecvRequestStep ==
  ASSUME IInv, NEW i \in Slots, NEW c \in Conns, NEW n \in 1 .. MaxChunk,
         RecvRequest(i, c, n)
  PROVE  IInv'
<1>1. req[c].head - rcvd[c] \in Nat
  BY DEF RecvRequest, HeadEnds
<1>2. headPos' \in [Slots -> 0 .. MAX_HEAD_LEN]
  BY <1>1, StoreHeadType DEF RecvRequest, IInv
<1>3. PICK q \in Parsed(i, c) : SendResp(i, c, q, 0, ParsedStore(q))
  BY DEF RecvRequest
<1>4. q \in RequestType /\ ParsedStore(q) \in StoreType
  BY <1>3, ParsedType DEF IInv
<1>5. /\ postLen' \in [Slots -> (0 .. FF_SIZE) \cup {-1}]
      /\ postPos' \in [Slots -> (0 .. FF_SIZE) \cup {-1}]
      /\ \A k \in Slots : k # i =>
           postLen'[k] = postLen[k] /\ postPos'[k] = postPos[k]
      /\ postLen'[i] = 0
  BY StoreAssumption DEF RecvRequest, IInv, TypeOK
<1>6. Answered(i)' /\ ~Answered(i)
  BY <1>5, StoreAssumption DEF RecvRequest, Answered, IInv, TypeOK
<1>7. RecvEffect(i, c)
  BY <1>3, <1>4, <1>5, <1>6, SendRespEffect DEF RecvRequest, Receive
<1> QED
  BY <1>2, <1>7, RecvPreserves DEF RecvRequest

\* The body branch, for a slot that still waits for its body.
LEMMA BodyEffect ==
  ASSUME IInv, NEW i \in Slots, NEW c \in Conns, NEW n \in 1 .. MaxChunk,
         Receive(i, c, n), ~Answered(i),
         NEW q \in RequestType, NEW plen \in 1 .. FF_SIZE, NEW pos \in 0 .. plen,
         NEW s \in StoreType, NEW b \in Nat,
         Body(i, c, q, plen, pos, s, n, b)
  PROVE  RecvEffect(i, c)
<1> DEFINE sz    == IF pos + b > plen THEN plen - pos ELSE b
           o     == rcvd[c] + n - b - req[c].head
           after == FfWriteBytes(s, BodyBytes(c, o, sz), sz)
<1>1. sz \in Nat /\ o \in Int
  BY HttpdAssumption DEF IInv, TypeOK, RequestType
<1>2. after \in StoreType
  BY <1>1, WriteType
<1>3. postLen' = [postLen EXCEPT ![i] = plen]
  BY DEF Body
<1>4. CASE /\ pos + sz < plen
           /\ postPos' = [postPos EXCEPT ![i] = pos + sz]
           /\ ff' = after
           /\ job' = [job EXCEPT ![i] = q]
           /\ UNCHANGED <<cgi, calls, files, inflight, lost>>
  <2> HIDE DEF sz, after
  <2>1. ~Answered(i)' /\ ~inflight[c] /\ cgi[i] = "none"
    BY <1>1, <1>3, <1>4 DEF Answered, Receive, IInv, TypeOK, QuietUntilAnswered,
       HandlerOnlyWhenAnswered
  <2>2. /\ postLen' \in [Slots -> (0 .. FF_SIZE) \cup {-1}]
        /\ postPos' \in [Slots -> (0 .. FF_SIZE) \cup {-1}]
        /\ \A k \in Slots : k # i =>
             postLen'[k] = postLen[k] /\ postPos'[k] = postPos[k]
    BY <1>1, <1>3, <1>4, StoreAssumption DEF IInv, TypeOK
  <2> QED
    BY <1>2, <1>4, <2>1, <2>2 DEF RecvEffect, IInv, TypeOK, HandleOwned,
       OneSendAtATime, FileCgis
<1>5. CASE /\ pos + sz >= plen
           /\ postPos' = [postPos EXCEPT ![i] = -1]
           /\ SendResp(i, c, q, plen, after)
  <2> HIDE DEF sz, after
  <2>1. /\ postLen' \in [Slots -> (0 .. FF_SIZE) \cup {-1}]
        /\ postPos' \in [Slots -> (0 .. FF_SIZE) \cup {-1}]
        /\ \A k \in Slots : k # i =>
             postLen'[k] = postLen[k] /\ postPos'[k] = postPos[k]
        /\ postPos'[i] = -1 /\ postLen'[i] = plen
    BY <1>3, <1>5, StoreAssumption DEF IInv, TypeOK
  <2>2. Answered(i)'
    BY <2>1 DEF Answered
  <2> QED
    BY <1>2, <1>5, <2>1, <2>2, SendRespEffect DEF Receive
<1> QED
  BY <1>4, <1>5 DEF Body

LEMMA RecvPostStep ==
  ASSUME IInv, NEW i \in Slots, NEW c \in Conns, NEW n \in 1 .. MaxChunk,
         RecvPost(i, c, n)
  PROVE  IInv'
<1> DEFINE rest == req[c].head - rcvd[c]
<1>1. rest \in 1 .. n
  BY DEF RecvPost, HeadEnds
<1>2. headPos' \in [Slots -> 0 .. MAX_HEAD_LEN]
  BY <1>1, StoreHeadType DEF RecvPost, IInv
<1>3. PICK q \in Parsed(i, c) :
        Body(i, c, q, PostLen(q), 0, ParsedStore(q), n, n - rest)
  BY DEF RecvPost
<1>4. q \in RequestType /\ ParsedStore(q) \in StoreType /\ PostLen(q) \in 1 .. FF_SIZE
  BY <1>3, ParsedType, StoreAssumption DEF IInv, RecvPost
<1>5. ~Answered(i)
  BY StoreAssumption DEF RecvPost, Answered, IInv, TypeOK
<1>6. n - rest \in Nat /\ 0 \in 0 .. PostLen(q)
  BY <1>1, <1>4, HttpdAssumption, StoreAssumption
<1> HIDE DEF rest
<1>7. RecvEffect(i, c)
  BY <1>3, <1>4, <1>5, <1>6, BodyEffect DEF RecvPost
<1> QED
  BY <1>2, <1>7, RecvPreserves DEF RecvPost

LEMMA RecvBodyStep ==
  ASSUME IInv, NEW i \in Slots, NEW c \in Conns, NEW n \in 1 .. MaxChunk,
         RecvBody(i, c, n)
  PROVE  IInv'
<1>1. /\ postLen[i] \in 1 .. FF_SIZE
      /\ postPos[i] \in 0 .. postLen[i]
      /\ job[i] \in RequestType
      /\ ff \in StoreType
      /\ n \in Nat
  BY StoreAssumption, HttpdAssumption DEF RecvBody, AwaitsBody, IInv, TypeOK
<1>2. ~Answered(i)
  BY <1>1 DEF RecvBody, AwaitsBody, Answered
<1>3. RecvEffect(i, c)
  BY <1>1, <1>2, BodyEffect DEF RecvBody
<1> QED
  BY <1>3, RecvPreserves DEF RecvBody, IInv, TypeOK
-----------------------------------------------------------------------------
(* httpdConnectCb, httpdSentCb and the end of a connection. *)

LEMMA ConnectCbStep ==
  ASSUME IInv, NEW i \in Slots, NEW c \in Conns, ConnectCb(i, c)
  PROVE  IInv'
<1>1. /\ conn' = [conn EXCEPT ![i] = c]
      /\ esp' = [esp EXCEPT ![c] = "open"]
      /\ conn[i] = NULL /\ esp[c] = "free"
      /\ inflight' = inflight
  BY DEF ConnectCb, Connect, FirstFree, IsSlotOf, Holds
<1>2. cgi[i] = "none" /\ ~inflight[c]
  BY <1>1 DEF IInv, HandlerOnlyWhenAnswered, QuietUnlessOpen
<1>3. PICK q \in Offers[c] : req' = [req EXCEPT ![c] = q]
  BY DEF ConnectCb, Connect
<1>4. q \in RequestType
  BY <1>3, HttpdAssumption
<1>5. TypeOK'
  BY <1>3, <1>4, StoreAssumption, HttpdAssumption
     DEF ConnectCb, Connect, IInv, TypeOK, EspState
<1>6. HandlerOnlyWhenAnswered'
  <2> SUFFICES ASSUME NEW k \in Slots, cgi'[k] # "none"
               PROVE  conn'[k] # NULL /\ Answered(k)'
    BY DEF HandlerOnlyWhenAnswered
  <2>1. k # i /\ cgi[k] # "none"
    BY <1>2 DEF ConnectCb
  <2> QED
    BY <1>1, <2>1 DEF ConnectCb, IInv, TypeOK, HandlerOnlyWhenAnswered, Answered
<1>7. HandleOwned' /\ OneSendAtATime'
  BY DEF ConnectCb, IInv, HandleOwned, OneSendAtATime
<1>8. OpenHasSlot'
  <2> SUFFICES ASSUME NEW d \in Conns, esp'[d] = "open"
               PROVE  \E k \in Slots : conn'[k] = d
    BY DEF OpenHasSlot, Holds
  <2>1. CASE d = c
    BY <1>1, <2>1 DEF IInv, TypeOK
  <2>2. CASE d # c
    <3>1. PICK k \in Slots : conn[k] = d
      BY <1>1, <2>2 DEF IInv, TypeOK, OpenHasSlot, Holds
    <3> QED
      BY <1>1, <3>1, HttpdAssumption DEF IInv, TypeOK
  <2> QED
    BY <2>1, <2>2
<1>9. QuietUntilAnswered'
  <2> SUFFICES ASSUME NEW k \in Slots, NEW d \in Conns, esp'[d] = "open",
                      IsSlotOf(k, d)', ~Answered(k)'
               PROVE  ~inflight[d]
    BY <1>1 DEF QuietUntilAnswered
  <2>1. CASE d = c
    BY <1>2, <2>1
  <2>2. CASE d # c
    <3>1. conn'[k] = d /\ k # i
      BY <1>1, <2>2 DEF IsSlotOf, Holds, IInv, TypeOK
    <3>2. \A j \in Slots : conn'[j] # d => conn[j] # d
      BY <1>1, HttpdAssumption DEF IInv, TypeOK
    <3>3. IsSlotOf(k, d)
      BY <1>1, <3>1, <3>2 DEF IsSlotOf, Holds, IInv, TypeOK, Slots
    <3>4. ~Answered(k)
      BY <3>1 DEF ConnectCb, Answered, IInv, TypeOK
    <3> QED
      BY <1>1, <2>2, <3>3, <3>4 DEF IInv, TypeOK, QuietUntilAnswered
  <2> QED
    BY <2>1, <2>2
<1>10. QuietUnlessOpen'
  BY <1>1 DEF IInv, TypeOK, QuietUnlessOpen
<1> QED
  BY <1>5, <1>6, <1>7, <1>8, <1>9, <1>10 DEF IInv

\* An espconn leaves the open state, or was not in it, and nothing else that
\* matters to the slots changes: they keep the invariant.
LEMMA EspLeavesOpen ==
  ASSUME IInv, NEW c \in Conns, NEW to \in EspState, to # "open",
         esp' = [esp EXCEPT ![c] = to],
         inflight' = [inflight EXCEPT ![c] = FALSE],
         UNCHANGED <<slotVars, lost, ff>>,
         req' \in [Conns -> RequestType], rcvd' \in [Conns -> Nat],
         acked' \in [Conns -> Nat]
  PROVE  IInv'
<1> USE DEF slotVars
<1>1. \A d \in Conns : esp'[d] = "open" => d # c /\ esp[d] = "open"
  BY DEF IInv, TypeOK
<1>2. TypeOK'
  BY DEF IInv, TypeOK
<1>3. HandlerOnlyWhenAnswered' /\ HandleOwned' /\ OneSendAtATime'
  BY DEF IInv, HandlerOnlyWhenAnswered, HandleOwned, OneSendAtATime, Answered
<1>4. OpenHasSlot'
  BY <1>1 DEF IInv, OpenHasSlot, Holds
<1>5. QuietUntilAnswered'
  BY <1>1 DEF IInv, TypeOK, QuietUntilAnswered, IsSlotOf, Holds, Answered
<1>6. QuietUnlessOpen'
  BY DEF IInv, TypeOK, QuietUnlessOpen
<1> QED
  BY <1>2, <1>3, <1>4, <1>5, <1>6 DEF IInv

LEMMA ConnectCbFullStep ==
  ASSUME IInv, NEW c \in Conns, ConnectCbFull(c)
  PROVE  IInv'
<1>1. PICK q \in Offers[c] : req' = [req EXCEPT ![c] = q]
  BY DEF ConnectCbFull, Connect
<1>2. q \in RequestType
  BY <1>1, HttpdAssumption
<1>3. req' \in [Conns -> RequestType] /\ rcvd' \in [Conns -> Nat]
      /\ acked' \in [Conns -> Nat]
  BY <1>1, <1>2 DEF ConnectCbFull, Connect, IInv, TypeOK
<1>4. inflight' = [inflight EXCEPT ![c] = FALSE]
  BY DEF ConnectCbFull, Connect, IInv, TypeOK, QuietUnlessOpen
<1> QED
  BY <1>3, <1>4, EspLeavesOpen DEF ConnectCbFull, Connect, EspState

LEMMA CloseStep ==
  ASSUME IInv, NEW c \in Conns,
         RemoteClose(c) \/ RefusedGone(c) \/ ReconCb(c)
  PROVE  IInv'
<1>1. NoRequest \in RequestType
  BY DEF NoRequest, RequestType, Cgis
<1>2. CASE RemoteClose(c)
  BY <1>2, EspLeavesOpen DEF RemoteClose, EspState, IInv, TypeOK
<1>3. CASE RefusedGone(c)
  BY <1>1, <1>3, EspLeavesOpen DEF RefusedGone, Freed, EspState, IInv, TypeOK
<1>4. CASE ReconCb(c)
  BY <1>1, <1>4, EspLeavesOpen DEF ReconCb, Freed, EspState, IInv, TypeOK
<1> QED
  BY <1>2, <1>3, <1>4

\* Slots are retired, none of which holds a connection that stays open.
LEMMA RetireKeeps ==
  ASSUME IInv, NEW dead \in SUBSET Slots, NEW c \in Conns,
         NEW to \in EspState, to # "open",
         RetireConn(dead),
         esp' = [esp EXCEPT ![c] = to],
         inflight' = [inflight EXCEPT ![c] = FALSE],
         files' \in [Slots -> Int],
         \A k \in Slots : files'[k] = (IF cgi'[k] \in FileCgis THEN 1 ELSE 0),
         \A k \in dead : conn[k] # c => esp[conn[k]] # "open",
         UNCHANGED <<calls, headPos, postLen, postPos, lost, ff>>,
         req' \in [Conns -> RequestType], rcvd' \in [Conns -> Nat],
         acked' \in [Conns -> Nat]
  PROVE  IInv'
<1>1. \A d \in Conns : esp'[d] = "open" => d # c /\ esp[d] = "open"
  BY DEF IInv, TypeOK
<1>2. TypeOK'
  <2>1. conn' \in [Slots -> Conns \cup {NULL}]
    BY DEF RetireConn, IInv, TypeOK
  <2>2. cgi' \in [Slots -> Cgis]
    BY DEF RetireConn, IInv, TypeOK, Cgis
  <2>3. NoRequest \in RequestType
    BY DEF NoRequest, RequestType, Cgis
  <2>4. job' \in [Slots -> RequestType]
    BY <2>3 DEF RetireConn, IInv, TypeOK
  <2>5. esp' \in [Conns -> EspState] /\ inflight' \in [Conns -> BOOLEAN]
    BY DEF IInv, TypeOK
  <2> QED
    BY <2>1, <2>2, <2>4, <2>5 DEF IInv, TypeOK
<1>3. HandlerOnlyWhenAnswered'
  BY DEF RetireConn, IInv, HandlerOnlyWhenAnswered, Answered
<1>4. HandleOwned' /\ OneSendAtATime'
  BY DEF IInv, HandleOwned, OneSendAtATime
<1>5. \A k \in Slots, d \in Conns : esp'[d] = "open" => (conn'[k] = d <=> conn[k] = d)
  BY <1>1, HttpdAssumption DEF RetireConn
<1>6. OpenHasSlot'
  BY <1>1, <1>5 DEF IInv, OpenHasSlot, Holds
<1>7. QuietUntilAnswered'
  <2> SUFFICES ASSUME NEW k \in Slots, NEW d \in Conns, esp'[d] = "open",
                      IsSlotOf(k, d)', ~Answered(k)'
               PROVE  ~inflight'[d]
    BY DEF QuietUntilAnswered
  <2>1. IsSlotOf(k, d)
    <3>1. \A j \in 0 .. (k - 1) : j \in Slots
      BY HttpdAssumption DEF Slots
    <3> QED
      BY <1>5, <3>1 DEF IsSlotOf, Holds
  <2>2. ~Answered(k)
    BY DEF Answered
  <2> QED
    BY <1>1, <2>1, <2>2 DEF IInv, TypeOK, QuietUntilAnswered
<1>8. QuietUnlessOpen'
  BY DEF IInv, TypeOK, QuietUnlessOpen
<1> QED
  BY <1>2, <1>3, <1>4, <1>6, <1>7, <1>8 DEF IInv

LEMMA SentCbCloseStep ==
  ASSUME IInv, NEW i \in Slots, NEW c \in Conns, SentCbClose(i, c)
  PROVE  IInv'
<1>1. conn[i] = c /\ cgi[i] = "none"
  BY DEF SentCbClose, Sent, IsSlotOf, Holds
<1>2. \A k \in Slots : files'[k] = (IF cgi'[k] \in FileCgis THEN 1 ELSE 0)
  BY <1>1 DEF SentCbClose, RetireConn, IInv, TypeOK, HandleOwned, FileCgis
<1>3. \A k \in {i} : conn[k] # c => esp[conn[k]] # "open"
  BY <1>1
<1>4. acked' \in [Conns -> Nat] /\ files' \in [Slots -> Int]
      /\ req' \in [Conns -> RequestType] /\ rcvd' \in [Conns -> Nat]
  BY DEF SentCbClose, Sent, IInv, TypeOK
<1>5. /\ RetireConn({i})
      /\ esp' = [esp EXCEPT ![c] = "closing"] /\ inflight' = [inflight EXCEPT ![c] = FALSE]
      /\ UNCHANGED <<calls, headPos, postLen, postPos, lost, ff>>
  BY DEF SentCbClose, Sent
<1>6. {i} \in SUBSET Slots /\ "closing" \in EspState /\ "closing" # "open"
  BY DEF EspState
<1> QED
  BY <1>2, <1>3, <1>4, <1>5, <1>6, RetireKeeps

LEMMA SentCbCallStep ==
  ASSUME IInv, NEW i \in Slots, NEW c \in Conns, SentCbCall(i, c)
  PROVE  IInv'
<1> DEFINE r == Call(job[i], calls[i], postLen[i])
<1>1. r \in Outcome /\ ~(r.direct /\ r.buf)
  <2>1. job[i] \in RequestType /\ calls[i] \in Nat /\ postLen[i] \in Int
    BY StoreAssumption DEF IInv, TypeOK
  <2> QED
    BY <2>1, CallType, OneWayOut
<1>2. /\ UNCHANGED <<conn, job, esp, headPos, postLen, postPos, req, rcvd, ff>>
      /\ acked' \in [Conns -> Nat]
      /\ conn[i] = c /\ cgi[i] # "none" /\ IsSlotOf(i, c) /\ esp[c] = "open"
  BY DEF SentCbCall, Sent, IsSlotOf, Holds, IInv, TypeOK
<1>3. /\ calls' \in [Slots -> Nat]
      /\ cgi' = [cgi EXCEPT ![i] = IF r.res = "DONE" THEN "none" ELSE @]
      /\ cgi' \in [Slots -> Cgis]
      /\ files' = [files EXCEPT ![i] =
            IF cgi[i] \in FileCgis /\ r.res = "DONE" THEN @ - 1 ELSE @]
      /\ files' \in [Slots -> Int]
  BY DEF SentCbCall, IInv, TypeOK, Cgis
<1>4. /\ inflight' = [inflight EXCEPT ![c] = r.direct \/ r.buf]
      /\ lost' = (lost \/ (r.direct /\ r.buf))
  BY DEF SentCbCall, EspconnSent
<1>5. inflight' \in [Conns -> BOOLEAN] /\ lost' = FALSE
  BY <1>1, <1>4 DEF IInv, TypeOK, OneSendAtATime, Outcome
<1> HIDE DEF r
<1>6. TypeOK'
  BY <1>2, <1>3, <1>5 DEF IInv, TypeOK
<1>7. HandlerOnlyWhenAnswered'
  BY <1>2, <1>3 DEF IInv, TypeOK, HandlerOnlyWhenAnswered, Answered
<1>8. HandleOwned' /\ OneSendAtATime'
  BY <1>3, <1>5 DEF IInv, TypeOK, HandleOwned, OneSendAtATime, FileCgis
<1>9. OpenHasSlot'
  BY <1>2 DEF IInv, OpenHasSlot, Holds
<1>10. QuietUntilAnswered'
  <2> SUFFICES ASSUME NEW k \in Slots, NEW d \in Conns, esp[d] = "open",
                      IsSlotOf(k, d), ~Answered(k)
               PROVE  ~inflight'[d]
    BY <1>2 DEF QuietUntilAnswered, IsSlotOf, Holds, Answered
  <2>1. Answered(i)
    BY <1>2 DEF IInv, HandlerOnlyWhenAnswered
  <2>2. d # c
    BY <1>2, <2>1, FirstSlot
  <2> QED
    BY <1>4, <2>2 DEF IInv, TypeOK, QuietUntilAnswered
<1>11. QuietUnlessOpen'
  BY <1>2, <1>4 DEF IInv, TypeOK, QuietUnlessOpen
<1> QED
  BY <1>6, <1>7, <1>8, <1>9, <1>10, <1>11 DEF IInv

LEMMA DisconCbStep ==
  ASSUME IInv, NEW c \in Conns, DisconCb(c)
  PROVE  IInv'
<1>1. PICK g \in SUBSET Garbage : Flush(Closed \cup g) /\ RetireConn(Closed \cup g)
  BY DEF DisconCb
<1> DEFINE dead == Closed \cup g
<1>2. dead \in SUBSET Slots /\ \A k \in dead : esp[conn[k]] # "open"
  BY <1>1 DEF Closed, Garbage
<1>3. /\ files' \in [Slots -> Int]
      /\ \A k \in Slots : files'[k] = (IF cgi'[k] \in FileCgis THEN 1 ELSE 0)
  BY <1>1 DEF Flush, RetireConn, IInv, TypeOK, HandleOwned, FileCgis
<1>4. NoRequest \in RequestType
  BY DEF NoRequest, RequestType, Cgis
<1>5. /\ req' \in [Conns -> RequestType] /\ rcvd' \in [Conns -> Nat]
      /\ acked' \in [Conns -> Nat]
  BY <1>4 DEF DisconCb, Freed, IInv, TypeOK
<1> HIDE DEF dead
<1>6. RetireConn(dead)
  BY <1>1 DEF dead
<1> QED
  BY <1>2, <1>3, <1>5, <1>6, RetireKeeps DEF DisconCb, Freed, EspState
\* A tick of the programmer only moves the cursor.
LEMMA ProgrammerTickStep ==
  ASSUME IInv, ProgrammerTick
  PROVE  IInv'
<1>1. PICK p \in CursorAfterTick(ff) : ff' = FfMoveTo(ff, p)
  BY DEF ProgrammerTick
<1>2. ff \in StoreType
  BY DEF IInv, TypeOK
<1>3. p \in Nat
  BY <1>1, <1>2, TickNear
<1>4. ff' \in StoreType
  BY <1>1, <1>2, <1>3, MoveType
<1>5. UNCHANGED <<slotVars, espVars, lost>>
  BY DEF ProgrammerTick
<1> QED
  BY <1>4, <1>5 DEF slotVars, espVars, IInv, TypeOK, HandlerOnlyWhenAnswered,
     HandleOwned, OneSendAtATime, OpenHasSlot, QuietUntilAnswered,
     QuietUnlessOpen, Answered, IsSlotOf, Holds
-----------------------------------------------------------------------------
LEMMA InitIInv == Init => IInv
<1> SUFFICES ASSUME Init PROVE IInv
  OBVIOUS
<1>1. NoRequest \in RequestType
  BY DEF NoRequest, RequestType, Cgis
<1>2. FfInit \in StoreType
  BY DEF FfInit, StoreType, Erased
<1>3. TypeOK
  <2>1. /\ conn \in [Slots -> Conns \cup {NULL}]
        /\ cgi \in [Slots -> Cgis]
        /\ esp \in [Conns -> EspState]
    BY DEF Init, Cgis, EspState
  <2>2. /\ headPos \in [Slots -> 0 .. MAX_HEAD_LEN]
        /\ postLen \in [Slots -> (0 .. FF_SIZE) \cup {-1}]
        /\ postPos \in [Slots -> (0 .. FF_SIZE) \cup {-1}]
    BY StoreAssumption, HttpdAssumption DEF Init
  <2>3. /\ job \in [Slots -> RequestType]
        /\ calls \in [Slots -> Nat]
        /\ files \in [Slots -> Int]
    BY <1>1 DEF Init
  <2>4. /\ req \in [Conns -> RequestType]
        /\ rcvd \in [Conns -> Nat]
        /\ inflight \in [Conns -> BOOLEAN]
        /\ acked \in [Conns -> Nat]
        /\ lost \in BOOLEAN
        /\ ff \in StoreType
    BY <1>1, <1>2 DEF Init
  <2> QED
    BY <2>1, <2>2, <2>3, <2>4 DEF TypeOK
<1>4. HandlerOnlyWhenAnswered /\ HandleOwned /\ OneSendAtATime /\ OpenHasSlot
  BY DEF Init, HandlerOnlyWhenAnswered, HandleOwned, OneSendAtATime,
     OpenHasSlot, FileCgis
<1>5. QuietUntilAnswered /\ QuietUnlessOpen
  BY DEF Init, QuietUntilAnswered, QuietUnlessOpen
<1> QED
  BY <1>3, <1>4, <1>5 DEF IInv

LEMMA NextIInv == IInv /\ [Next]_vars => IInv'
<1> SUFFICES ASSUME IInv, [Next]_vars PROVE IInv'
  OBVIOUS
<1>1. CASE \E c \in Conns, i \in Slots : SlotNext(i, c)
  <2>1. PICK c \in Conns, i \in Slots : SlotNext(i, c)
    BY <1>1
  <2>2. CASE ConnectCb(i, c)
    BY <2>2, ConnectCbStep
  <2>3. CASE SentCbClose(i, c)
    BY <2>3, SentCbCloseStep
  <2>4. CASE SentCbCall(i, c)
    BY <2>4, SentCbCallStep
  <2>5. CASE \E n \in 1 .. MaxChunk : RecvHead(i, c, n)
    BY <2>5, RecvHeadStep
  <2>6. CASE \E n \in 1 .. MaxChunk : RecvRequest(i, c, n)
    BY <2>6, RecvRequestStep
  <2>7. CASE \E n \in 1 .. MaxChunk : RecvPost(i, c, n)
    BY <2>7, RecvPostStep
  <2>8. CASE \E n \in 1 .. MaxChunk : RecvBody(i, c, n)
    BY <2>8, RecvBodyStep
  <2>9. CASE \E n \in 1 .. MaxChunk : RecvIgnored(i, c, n)
    BY <2>9, RecvIgnoredStep
  <2> QED
    BY <2>1, <2>2, <2>3, <2>4, <2>5, <2>6, <2>7, <2>8, <2>9 DEF SlotNext
<1>2. CASE \E c \in Conns : ConnectCbFull(c)
  BY <1>2, ConnectCbFullStep
<1>3. CASE \E c \in Conns : RemoteClose(c) \/ RefusedGone(c) \/ ReconCb(c)
  BY <1>3, CloseStep
<1>4. CASE \E c \in Conns : DisconCb(c)
  BY <1>4, DisconCbStep
<1>5. CASE ProgrammerTick
  BY <1>5, ProgrammerTickStep
<1>6. CASE UNCHANGED vars
  BY <1>6 DEF vars, slotVars, espVars, IInv, TypeOK, HandlerOnlyWhenAnswered,
     HandleOwned, OneSendAtATime, OpenHasSlot, QuietUntilAnswered,
     QuietUnlessOpen, Answered, IsSlotOf, Holds
<1> QED
  BY <1>1, <1>2, <1>3, <1>4, <1>5, <1>6 DEF Next

\* The invariant holds in every reachable state.
THEOREM Inductive == Spec => []IInv
BY InitIInv, NextIInv, PTL DEF Spec

\* Every variable keeps its type: in particular headPos stays within head[] and
\* postPos within the body's length.
THEOREM TypeCorrect == Spec => []TypeOK
<1>1. IInv => TypeOK
  BY DEF IInv
<1> QED
  BY <1>1, Inductive, PTL

\* A file handle is closed exactly once, on whatever path its response ends.
THEOREM HandlesOwned == Spec => []HandleOwned
<1>1. IInv => HandleOwned
  BY DEF IInv
<1> QED
  BY <1>1, Inductive, PTL

\* No espconn_sent is dropped because an earlier one is under way, even when
\* connections break and their espconn is used again.
THEOREM OneSend == Spec => []OneSendAtATime
<1>1. IInv => OneSendAtATime
  BY DEF IInv
<1> QED
  BY <1>1, Inductive, PTL

\* No slot keeps a handler for httpdDisconCb to flush that was not called for
\* the connection it holds.
THEOREM HandlersAnswered == Spec => []HandlerOnlyWhenAnswered
<1>1. IInv => HandlerOnlyWhenAnswered
  BY DEF IInv
<1> QED
  BY <1>1, Inductive, PTL

\* The callbacks of an open connection always find a slot.
THEOREM OpenConnsHaveSlots == Spec => []OpenHasSlot
<1>1. IInv => OpenHasSlot
  BY DEF IInv
<1> QED
  BY <1>1, Inductive, PTL
-----------------------------------------------------------------------------
(* Without broken connections, one slot per connection. *)

\* A slot holds an espconn the SDK has not freed.
HeldLive ==
  \A i \in Slots : conn[i] # NULL => esp[conn[i]] \in {"open", "closing"}

UInv == conn \in [Slots -> Conns \cup {NULL}] /\ esp \in [Conns -> EspState]
        /\ HeldLive /\ UniqueSlot

LEMMA NextUInv ==
  ASSUME ~CanReset, UInv, [Next]_vars
  PROVE  UInv'
<1> USE HttpdAssumption DEF UInv, HeldLive, UniqueSlot, EspState
<1>1. CASE UNCHANGED <<conn, esp>>
  BY <1>1
<1>2. ASSUME NEW c \in Conns, NEW i \in Slots, ConnectCb(i, c)
      PROVE  UInv'
  <2>1. /\ conn' = [conn EXCEPT ![i] = c]
        /\ esp' = [esp EXCEPT ![c] = "open"]
        /\ esp[c] = "free"
    BY <1>2 DEF ConnectCb, Connect
  <2>2. \A k \in Slots : conn[k] # c
    BY <2>1
  <2> QED
    BY <2>1, <2>2
<1>3. ASSUME NEW c \in Conns, ConnectCbFull(c) \/ RefusedGone(c)
      PROVE  UInv'
  <2>1. /\ conn' = conn /\ esp[c] \in {"free", "refused"}
        /\ \E s \in EspState : esp' = [esp EXCEPT ![c] = s]
    BY <1>3 DEF ConnectCbFull, Connect, RefusedGone, Freed, slotVars
  <2>2. \A k \in Slots : conn[k] # c
    BY <2>1
  <2> QED
    BY <2>1, <2>2
<1>4. ASSUME NEW c \in Conns, RemoteClose(c)
      PROVE  UInv'
  BY <1>4 DEF RemoteClose, slotVars
<1>5. ASSUME NEW c \in Conns, NEW i \in Slots, SentCbClose(i, c)
      PROVE  UInv'
  <2>1. /\ conn' = [k \in Slots |-> IF k \in {i} THEN NULL ELSE conn[k]]
        /\ esp' = [esp EXCEPT ![c] = "closing"]
    BY <1>5 DEF SentCbClose, RetireConn
  <2> QED
    BY <2>1
<1>6. ASSUME NEW c \in Conns, DisconCb(c)
      PROVE  UInv'
  <2>1. Garbage = {}
    BY DEF Garbage
  <2>2. conn' = [k \in Slots |-> IF k \in Closed THEN NULL ELSE conn[k]]
    BY <1>6, <2>1 DEF DisconCb, RetireConn
  <2>3. esp[c] = "closing" /\ esp' = [esp EXCEPT ![c] = "free"]
    BY <1>6 DEF DisconCb, Freed
  <2>4. \A k \in Slots : conn'[k] # NULL => conn'[k] = conn[k] /\ conn[k] # c
    BY <2>2, <2>3 DEF Closed
  <2> QED
    BY <2>2, <2>3, <2>4
<1>7. ASSUME NEW c \in Conns, NEW i \in Slots, NEW n \in 1 .. MaxChunk,
             \/ RecvHead(i, c, n) \/ RecvRequest(i, c, n) \/ RecvPost(i, c, n)
             \/ RecvBody(i, c, n) \/ RecvIgnored(i, c, n)
      PROVE  UNCHANGED <<conn, esp>>
  BY <1>7 DEF RecvHead, RecvRequest, RecvPost, RecvBody, RecvIgnored, Receive
<1>8. ASSUME NEW c \in Conns, NEW i \in Slots, SentCbCall(i, c)
      PROVE  UNCHANGED <<conn, esp>>
  BY <1>8 DEF SentCbCall
<1>9. CASE ProgrammerTick \/ UNCHANGED vars
  BY <1>1, <1>9 DEF ProgrammerTick, vars, slotVars, espVars
<1> QED
  BY <1>1, <1>2, <1>3, <1>4, <1>5, <1>6, <1>7, <1>8, <1>9
     DEF Next, SlotNext, ReconCb

\* As long as the SDK reports every close, httpdFindConnData finds the one slot
\* its connection was given.
THEOREM OneSlotPerConn ==
  ASSUME ~CanReset
  PROVE  Spec => []UniqueSlot
<1>1. Init => UInv
  BY HttpdAssumption DEF Init, UInv, HeldLive, UniqueSlot, EspState
<1>2. UInv /\ [Next]_vars => UInv'
  BY NextUInv
<1>3. UInv => UniqueSlot
  BY DEF UInv
<1> QED
  BY <1>1, <1>2, <1>3, PTL DEF Spec
-----------------------------------------------------------------------------
(***************************************************************************)
(* How far each slot is with its connection's request, while the SDK       *)
(* reports every close.  Progress ties what the slot has stored (headPos,  *)
(* postLen, postPos, job) to what the client has sent (rcvd, req); from it *)
(* follow the theorems about the POST store and about the answers.         *)
(***************************************************************************)

OpenAt(i, c) == esp[c] = "open" /\ conn[i] = c

\* The head is stored as far as there is room, and is not complete.
Asking(i, c) ==
  /\ headPos[i] = (IF rcvd[c] < MAX_HEAD_LEN THEN rcvd[c] ELSE MAX_HEAD_LEN)
  /\ rcvd[c] < req[c].head \/ req[c].head > MAX_HEAD_LEN

ProgressAt(i, c) ==
  /\ req[c] \in Offers[c]
  /\ postLen[i] < 0 => Asking(i, c)
  /\ postLen[i] >= 0 => job[i] = req[c] /\ postLen[i] = PostLen(req[c])
  /\ postLen[i] > 0 /\ postPos[i] # -1 =>
       rcvd[c] = req[c].head + postPos[i] /\ postPos[i] < postLen[i]
  /\ ~Answered(i) => acked[c] = 0

Progress == \A i \in Slots, c \in Conns : OpenAt(i, c) => ProgressAt(i, c)

\* A freed espconn has received and sent nothing.
Fresh == \A c \in Conns : esp[c] = "free" => rcvd[c] = 0 /\ acked[c] = 0

Base == IInv /\ UInv /\ Fresh /\ Progress
-----------------------------------------------------------------------------
\* Without a second slot, the first slot of a connection is the one it has.
LEMMA SlotOf ==
  ASSUME UInv, NEW i \in Slots, NEW c \in Conns
  PROVE  IsSlotOf(i, c) <=> conn[i] = c
<1>1. \A j \in 0 .. (i - 1) : j \in Slots /\ j # i
  BY HttpdAssumption DEF Slots
<1> QED
  BY <1>1, HttpdAssumption DEF UInv, UniqueSlot, IsSlotOf, Holds

\* Only slot i and connection c are touched by a call of httpdRecvCb.
RecvOnly(i, c) ==
  /\ UNCHANGED <<conn, esp, req, acked>>
  /\ \A k \in Slots \ {i} :
       /\ cgi'[k] = cgi[k] /\ job'[k] = job[k] /\ calls'[k] = calls[k]
       /\ headPos'[k] = headPos[k]
       /\ postLen'[k] = postLen[k] /\ postPos'[k] = postPos[k]
  /\ \A d \in Conns \ {c} : rcvd'[d] = rcvd[d] /\ inflight'[d] = inflight[d]

Recv(i, c, n) ==
  \/ RecvHead(i, c, n) \/ RecvRequest(i, c, n) \/ RecvPost(i, c, n)
  \/ RecvBody(i, c, n) \/ RecvIgnored(i, c, n)

LEMMA SendRespOnly ==
  ASSUME TypeOK, NEW i \in Slots, NEW c \in Conns, NEW q, NEW plen, NEW s,
         SendResp(i, c, q, plen, s)
  PROVE  /\ \A k \in Slots \ {i} :
              cgi'[k] = cgi[k] /\ job'[k] = job[k] /\ calls'[k] = calls[k]
         /\ \A d \in Conns \ {c} : inflight'[d] = inflight[d]
BY DEF TypeOK, SendResp, EspconnSent

LEMMA RecvTouches ==
  ASSUME TypeOK, NEW i \in Slots, NEW c \in Conns, NEW n \in 1 .. MaxChunk,
         Recv(i, c, n)
  PROVE  RecvOnly(i, c) /\ OpenAt(i, c) /\ IsSlotOf(i, c)
<1>1. Receive(i, c, n)
  BY DEF Recv, RecvHead, RecvRequest, RecvPost, RecvBody, RecvIgnored
<1>2. /\ UNCHANGED <<conn, esp, req, acked>> /\ OpenAt(i, c) /\ IsSlotOf(i, c)
      /\ \A d \in Conns \ {c} : rcvd'[d] = rcvd[d]
  BY <1>1 DEF Receive, OpenAt, IsSlotOf, Holds, TypeOK
<1>3. CASE RecvHead(i, c, n) \/ RecvIgnored(i, c, n)
  BY <1>2, <1>3 DEF RecvHead, RecvIgnored, StoreHead, RecvOnly, TypeOK
<1>4. CASE RecvRequest(i, c, n)
  <2>1. PICK q \in Parsed(i, c) : SendResp(i, c, q, 0, ParsedStore(q))
    BY <1>4 DEF RecvRequest
  <2> QED
    BY <1>2, <1>4, <2>1, SendRespOnly DEF RecvRequest, StoreHead, RecvOnly, TypeOK
<1>5. ASSUME NEW q, NEW plen, NEW pos, NEW s, NEW b, Body(i, c, q, plen, pos, s, n, b),
             \A k \in Slots \ {i} : headPos'[k] = headPos[k]
      PROVE  RecvOnly(i, c)
  <2>1. \A k \in Slots \ {i} : postLen'[k] = postLen[k] /\ postPos'[k] = postPos[k]
    BY <1>5 DEF Body, TypeOK
  <2>2. \/ job' = [job EXCEPT ![i] = q] /\ UNCHANGED <<cgi, calls, inflight>>
        \/ \E t : SendResp(i, c, q, plen, t)
    BY <1>5 DEF Body
  <2>3. CASE job' = [job EXCEPT ![i] = q] /\ UNCHANGED <<cgi, calls, inflight>>
    BY <1>2, <1>5, <2>1, <2>3 DEF RecvOnly, TypeOK
  <2>4. CASE \E t : SendResp(i, c, q, plen, t)
    BY <1>2, <1>5, <2>1, <2>4, SendRespOnly DEF RecvOnly
  <2> QED
    BY <2>2, <2>3, <2>4
<1>6. CASE RecvPost(i, c, n)
  <2>1. \A k \in Slots \ {i} : headPos'[k] = headPos[k]
    BY <1>6 DEF RecvPost, StoreHead, TypeOK
  <2> QED
    BY <1>2, <1>5, <1>6, <2>1 DEF RecvPost
<1>7. CASE RecvBody(i, c, n)
  BY <1>2, <1>5, <1>7 DEF RecvBody
<1> QED
  BY <1>2, <1>3, <1>4, <1>6, <1>7 DEF Recv

\* A slot and its connection that a step leaves alone.
LEMMA LeftAlone ==
  ASSUME Progress, NEW i \in Slots, NEW c \in Conns, OpenAt(i, c),
         job'[i] = job[i], headPos'[i] = headPos[i],
         postLen'[i] = postLen[i], postPos'[i] = postPos[i],
         req'[c] = req[c], rcvd'[c] = rcvd[c], acked'[c] = acked[c]
  PROVE  ProgressAt(i, c)'
BY DEF Progress, ProgressAt, Asking, Answered

LEMMA RecvOthers ==
  ASSUME Base, NEW i \in Slots, NEW c \in Conns, RecvOnly(i, c), OpenAt(i, c),
         ProgressAt(i, c)'
  PROVE  Progress' /\ Fresh'
<1>1. Fresh'
  BY DEF RecvOnly, OpenAt, Base, Fresh
<1>2. ASSUME NEW k \in Slots, NEW d \in Conns, OpenAt(k, d)'
      PROVE  ProgressAt(k, d)'
  <2>1. OpenAt(k, d)
    BY <1>2 DEF RecvOnly, OpenAt
  <2>2. (k = i) <=> (d = c)
    BY <2>1, HttpdAssumption DEF OpenAt, Base, UInv, UniqueSlot
  <2>3. CASE k # i
    BY <2>1, <2>2, <2>3, LeftAlone DEF RecvOnly, Base
  <2> QED
    BY <2>2, <2>3
<1> QED
  BY <1>1, <1>2 DEF Progress
-----------------------------------------------------------------------------
(* httpdRecvCb. *)

\* What the type invariant says of a slot and its connection.
LEMMA AtType ==
  ASSUME TypeOK, NEW i \in Slots, NEW c \in Conns
  PROVE  /\ req[c] \in RequestType /\ job[i] \in RequestType
         /\ req[c].head \in Nat \ {0} /\ req[c].len \in Nat \cup {-1}
         /\ rcvd[c] \in Nat /\ acked[c] \in Nat /\ calls[i] \in Nat
         /\ headPos[i] \in 0 .. MAX_HEAD_LEN
         /\ postLen[i] \in (0 .. FF_SIZE) \cup {-1}
         /\ postPos[i] \in (0 .. FF_SIZE) \cup {-1}
         /\ PostLen(req[c]) \in 0 .. FF_SIZE /\ FF_SIZE \in Nat /\ MAX_HEAD_LEN \in Nat
BY StoreAssumption, HttpdAssumption DEF TypeOK, RequestType, PostLen

\* A head that ends was stored whole, so that it parses to what was sent.
LEMMA HeadWhole ==
  ASSUME Base, NEW i \in Slots, NEW c \in Conns, NEW n \in 1 .. MaxChunk,
         OpenAt(i, c), postLen[i] < 0, HeadEnds(i, c, n)
  PROVE  /\ Parsed(i, c) = {req[c]}
         /\ req[c].head - rcvd[c] \in 1 .. n
<1>1. Asking(i, c)
  BY DEF Base, Progress, ProgressAt
<1>2. rcvd[c] \in Nat /\ req[c].head \in Nat /\ MAX_HEAD_LEN \in Nat \ {0}
  BY AtType, HttpdAssumption DEF Base, IInv
<1>3. req[c].head - rcvd[c] \in 1 .. n /\ headPos[i] + (req[c].head - rcvd[c]) <= MAX_HEAD_LEN
  BY DEF HeadEnds
<1>4. headPos[i] = rcvd[c]
  BY <1>1, <1>2, <1>3 DEF Asking
<1> QED
  BY <1>3, <1>4 DEF Parsed

LEMMA RecvHeadProgress ==
  ASSUME Base, NEW i \in Slots, NEW c \in Conns, NEW n \in 1 .. MaxChunk,
         RecvHead(i, c, n)
  PROVE  Progress' /\ Fresh'
<1>1. RecvOnly(i, c) /\ OpenAt(i, c)
  BY RecvTouches DEF Recv, Base, IInv
<1>2. ProgressAt(i, c) /\ postLen[i] < 0 /\ Asking(i, c)
  BY <1>1 DEF RecvHead, Base, Progress, ProgressAt
<1>3. /\ postLen' = postLen /\ postPos' = postPos /\ job' = job
      /\ req' = req /\ acked' = acked /\ rcvd'[c] = rcvd[c] + n
      /\ headPos'[i] = IF headPos[i] + n < MAX_HEAD_LEN THEN headPos[i] + n
                                                        ELSE MAX_HEAD_LEN
      /\ ~HeadEnds(i, c, n)
  BY DEF RecvHead, Receive, StoreHead, Base, IInv, TypeOK
<1>4. /\ rcvd[c] \in Nat /\ req[c].head \in Nat /\ MAX_HEAD_LEN \in Nat \ {0}
      /\ n \in Nat /\ n > 0
  BY AtType, HttpdAssumption DEF Base, IInv
<1>5. headPos'[i] = IF rcvd'[c] < MAX_HEAD_LEN THEN rcvd'[c] ELSE MAX_HEAD_LEN
  BY <1>2, <1>3, <1>4 DEF Asking
<1>6. rcvd'[c] < req[c].head \/ req[c].head > MAX_HEAD_LEN
  <2> SUFFICES ASSUME req[c].head <= MAX_HEAD_LEN, rcvd'[c] >= req[c].head
               PROVE  FALSE
    BY <1>3, <1>4
  <2>1. rcvd[c] < req[c].head /\ headPos[i] = rcvd[c]
    BY <1>2, <1>4 DEF Asking
  <2> QED
    BY <1>3, <1>4, <2>1 DEF HeadEnds
<1>7. ProgressAt(i, c)'
  <2>1. postLen'[i] < 0 /\ ~(postLen'[i] >= 0) /\ ~(postLen'[i] > 0)
    BY <1>2, <1>3, AtType DEF Base, IInv
  <2>2. Asking(i, c)'
    BY <1>3, <1>5, <1>6 DEF Asking
  <2>3. req'[c] \in Offers[c] /\ acked'[c] = 0
    BY <1>2, <1>3, <2>1 DEF ProgressAt, Answered
  <2> QED
    BY <2>1, <2>2, <2>3 DEF ProgressAt
<1> QED
  BY <1>1, <1>7, RecvOthers

\* The head ends, and no body is read: the handler is called for what was sent.
LEMMA RequestIsOwn ==
  ASSUME Base, NEW i \in Slots, NEW c \in Conns, NEW n \in 1 .. MaxChunk,
         RecvRequest(i, c, n)
  PROVE  /\ SendResp(i, c, req[c], 0, ParsedStore(req[c]))
         /\ PostLen(req[c]) = 0 /\ postLen'[i] = 0 /\ postLen[i] < 0
         /\ RecvOnly(i, c) /\ OpenAt(i, c) /\ IsSlotOf(i, c)
         /\ UNCHANGED postPos
<1>1. RecvOnly(i, c) /\ OpenAt(i, c) /\ IsSlotOf(i, c)
  BY RecvTouches DEF Recv, Base, IInv
<1>2. Parsed(i, c) = {req[c]}
  BY <1>1, HeadWhole DEF RecvRequest
<1> QED
  BY <1>1, <1>2 DEF RecvRequest, Base, IInv, TypeOK

LEMMA RecvRequestProgress ==
  ASSUME Base, NEW i \in Slots, NEW c \in Conns, NEW n \in 1 .. MaxChunk,
         RecvRequest(i, c, n)
  PROVE  Progress' /\ Fresh'
<1>1. /\ RecvOnly(i, c) /\ OpenAt(i, c) /\ postLen'[i] = 0 /\ PostLen(req[c]) = 0
      /\ job'[i] = req[c] /\ req'[c] = req[c]
  BY RequestIsOwn DEF SendResp, RecvOnly, Base, IInv, TypeOK
<1>2. req[c] \in Offers[c]
  BY <1>1 DEF Base, Progress, ProgressAt
<1>3. ProgressAt(i, c)'
  BY <1>1, <1>2 DEF ProgressAt, Answered, PostLen
<1> QED
  BY <1>1, <1>3, RecvOthers

\* The body branch: what it leaves of the body to read.
BodyStep(i, c, pos, sz) ==
  /\ job'[i] = req[c] /\ postLen'[i] = PostLen(req[c])
  /\ sz \in Nat /\ pos + sz <= PostLen(req[c])
  /\ IF pos + sz < PostLen(req[c])
     THEN /\ postPos'[i] = pos + sz /\ rcvd'[c] = req[c].head + postPos'[i]
          /\ UNCHANGED <<cgi, calls, inflight>>
     ELSE postPos'[i] = -1

\* The place of the bytes written, and what they are.
Written(s, c, pos, sz) == FfWriteBytes(s, BodyBytes(c, pos, sz), sz)

\* The body branch runs for connection c with the request it sent.
BodyRuns(i, c, pos, sz, s) ==
  /\ BodyStep(i, c, pos, sz)
  /\ IF pos + sz < PostLen(req[c])
     THEN ff' = Written(s, c, pos, sz)
     ELSE SendResp(i, c, req[c], PostLen(req[c]), Written(s, c, pos, sz))

LEMMA BodyDoes ==
  ASSUME TypeOK, NEW i \in Slots, NEW c \in Conns, NEW n \in 1 .. MaxChunk, NEW s,
         NEW pos \in 0 .. PostLen(req[c]), NEW b \in Nat,
         rcvd'[c] = rcvd[c] + n, rcvd[c] + n - b - req[c].head = pos,
         Body(i, c, req[c], PostLen(req[c]), pos, s, n, b)
  PROVE  \E sz \in Nat : BodyRuns(i, c, pos, sz, s)
<1> DEFINE plen == PostLen(req[c])
           sz   == IF pos + b > plen THEN plen - pos ELSE b
<1>1. /\ plen \in Nat /\ pos \in Nat /\ rcvd[c] \in Nat /\ req[c].head \in Nat /\ n \in Nat
      /\ sz \in Nat /\ pos + sz <= plen /\ (pos + sz < plen => sz = b)
  BY AtType, HttpdAssumption
<1>2. /\ postLen' = [postLen EXCEPT ![i] = plen]
      /\ \/ /\ pos + sz < plen
            /\ postPos' = [postPos EXCEPT ![i] = pos + sz]
            /\ ff' = Written(s, c, pos, sz)
            /\ job' = [job EXCEPT ![i] = req[c]]
            /\ UNCHANGED <<cgi, calls, files, inflight, lost>>
         \/ /\ pos + sz >= plen
            /\ postPos' = [postPos EXCEPT ![i] = -1]
            /\ SendResp(i, c, req[c], plen, Written(s, c, pos, sz))
  BY DEF Body, Written
<1> HIDE DEF sz, plen
<1>3. CASE pos + sz < plen
  <2>1. /\ job'[i] = req[c] /\ postLen'[i] = plen /\ postPos'[i] = pos + sz
        /\ ff' = Written(s, c, pos, sz) /\ UNCHANGED <<cgi, calls, inflight>>
    BY <1>1, <1>2, <1>3 DEF TypeOK
  <2>2. rcvd'[c] = req[c].head + postPos'[i]
    BY <1>1, <1>3, <2>1
  <2> QED
    BY <1>1, <1>3, <2>1, <2>2 DEF BodyRuns, BodyStep, plen
<1>4. CASE ~(pos + sz < plen)
  <2>1. /\ postLen'[i] = plen /\ postPos'[i] = -1
        /\ SendResp(i, c, req[c], plen, Written(s, c, pos, sz))
    BY <1>1, <1>2, <1>4 DEF TypeOK
  <2>2. job'[i] = req[c]
    BY <2>1 DEF SendResp, TypeOK
  <2> QED
    BY <1>1, <1>4, <2>1, <2>2 DEF BodyRuns, BodyStep, plen
<1> QED
  BY <1>3, <1>4

LEMMA PostIsOwn ==
  ASSUME Base, NEW i \in Slots, NEW c \in Conns, NEW n \in 1 .. MaxChunk,
         RecvPost(i, c, n)
  PROVE  /\ \E sz \in Nat : BodyRuns(i, c, 0, sz, ParsedStore(req[c]))
         /\ PostLen(req[c]) > 0 /\ postLen[i] < 0
         /\ RecvOnly(i, c) /\ OpenAt(i, c) /\ IsSlotOf(i, c)
<1>1. RecvOnly(i, c) /\ OpenAt(i, c) /\ IsSlotOf(i, c)
  BY RecvTouches DEF Recv, Base, IInv
<1> DEFINE b == n - (req[c].head - rcvd[c])
<1>2. /\ Body(i, c, req[c], PostLen(req[c]), 0, ParsedStore(req[c]), n, b)
      /\ req[c].head - rcvd[c] \in 1 .. n
  BY <1>1, HeadWhole DEF RecvPost
<1>3. rcvd'[c] = rcvd[c] + n
  BY DEF RecvPost, Receive, Base, IInv, TypeOK
<1>4. /\ b \in Nat /\ rcvd[c] + n - b - req[c].head = 0
      /\ 0 \in 0 .. PostLen(req[c])
  BY <1>2, AtType, HttpdAssumption DEF Base, IInv
<1> HIDE DEF b
<1>5. \E sz \in Nat : BodyRuns(i, c, 0, sz, ParsedStore(req[c]))
  BY <1>2, <1>3, <1>4, BodyDoes DEF Base, IInv
<1> QED
  BY <1>1, <1>5 DEF RecvPost

LEMMA BodyIsOwn ==
  ASSUME Base, NEW i \in Slots, NEW c \in Conns, NEW n \in 1 .. MaxChunk,
         RecvBody(i, c, n)
  PROVE  /\ \E sz \in Nat : BodyRuns(i, c, postPos[i], sz, ff)
         /\ PostLen(req[c]) = postLen[i] /\ postLen[i] > 0
         /\ postPos[i] \in 0 .. (postLen[i] - 1)
         /\ RecvOnly(i, c) /\ OpenAt(i, c) /\ IsSlotOf(i, c)
<1>1. RecvOnly(i, c) /\ OpenAt(i, c) /\ IsSlotOf(i, c)
  BY RecvTouches DEF Recv, Base, IInv
<1>2. postLen[i] > 0 /\ postPos[i] # -1
  BY DEF RecvBody, AwaitsBody
<1>3. /\ job[i] = req[c] /\ postLen[i] = PostLen(req[c])
      /\ rcvd[c] = req[c].head + postPos[i] /\ postPos[i] < postLen[i]
  BY <1>1, <1>2, AtType DEF Base, IInv, Progress, ProgressAt
<1>4. rcvd'[c] = rcvd[c] + n
  BY DEF RecvBody, Receive, Base, IInv, TypeOK
<1>5. /\ Body(i, c, req[c], PostLen(req[c]), postPos[i], ff, n, n)
      /\ n \in Nat /\ postPos[i] \in 0 .. (postLen[i] - 1)
      /\ rcvd[c] + n - n - req[c].head = postPos[i]
      /\ postPos[i] \in 0 .. PostLen(req[c])
  BY <1>2, <1>3, AtType, HttpdAssumption DEF RecvBody, Base, IInv
<1>6. \E sz \in Nat : BodyRuns(i, c, postPos[i], sz, ff)
  BY <1>4, <1>5, BodyDoes DEF Base, IInv
<1> QED
  BY <1>1, <1>2, <1>3, <1>5, <1>6

LEMMA RecvBodyProgress ==
  ASSUME Base, NEW i \in Slots, NEW c \in Conns, NEW n \in 1 .. MaxChunk,
         RecvPost(i, c, n) \/ RecvBody(i, c, n)
  PROVE  Progress' /\ Fresh'
<1>1. /\ RecvOnly(i, c) /\ OpenAt(i, c) /\ PostLen(req[c]) > 0
      /\ \E pos, sz \in Nat : BodyStep(i, c, pos, sz)
  <2>1. CASE RecvPost(i, c, n)
    BY <2>1, PostIsOwn DEF BodyRuns
  <2>2. CASE RecvBody(i, c, n)
    BY <2>2, BodyIsOwn, AtType DEF BodyRuns, Base, IInv
  <2> QED
    BY <2>1, <2>2
<1>2. PICK pos, sz \in Nat : BodyStep(i, c, pos, sz)
  BY <1>1
<1>3. /\ req'[c] = req[c] /\ acked'[c] = acked[c] /\ req[c] \in Offers[c] /\ acked[c] = 0
      /\ PostLen(req[c]) \in Nat
  <2>1. ~Answered(i)
    BY AtType DEF RecvPost, RecvBody, AwaitsBody, Answered, Base, IInv
  <2> QED
    BY <1>1, <2>1, AtType DEF RecvOnly, Base, IInv, Progress, ProgressAt
<1>4. ProgressAt(i, c)'
  <2>1. /\ postLen'[i] = PostLen(req[c]) /\ job'[i] = req[c]
        /\ postPos'[i] # -1 => rcvd'[c] = req[c].head + postPos'[i]
                               /\ postPos'[i] < PostLen(req[c])
    BY <1>2 DEF BodyStep
  <2>2. PostLen(req[c])' = PostLen(req[c])
    BY <1>3 DEF PostLen
  <2> QED
    BY <1>1, <1>3, <2>1, <2>2 DEF ProgressAt, Answered
<1> QED
  BY <1>1, <1>4, RecvOthers

LEMMA RecvIgnoredProgress ==
  ASSUME Base, NEW i \in Slots, NEW c \in Conns, NEW n \in 1 .. MaxChunk,
         RecvIgnored(i, c, n)
  PROVE  Progress' /\ Fresh'
<1>1. RecvOnly(i, c) /\ OpenAt(i, c)
  BY RecvTouches DEF Recv, Base, IInv
<1>2. /\ UNCHANGED <<job, postLen, postPos>> /\ Answered(i)
      /\ req'[c] = req[c] /\ acked'[c] = acked[c]
  BY <1>1 DEF RecvIgnored, RecvOnly
<1>3. ProgressAt(i, c)'
  BY <1>1, <1>2 DEF Base, Progress, ProgressAt, Answered, PostLen
<1> QED
  BY <1>1, <1>3, RecvOthers
-----------------------------------------------------------------------------
(* The other callbacks. *)

LEMMA ConnectProgress ==
  ASSUME Base, NEW i \in Slots, NEW c \in Conns, ConnectCb(i, c)
  PROVE  Progress' /\ Fresh'
<1>1. /\ conn' = [conn EXCEPT ![i] = c] /\ esp' = [esp EXCEPT ![c] = "open"]
      /\ conn[i] = NULL /\ esp[c] = "free"
      /\ UNCHANGED <<rcvd, acked, job>>
      /\ headPos' = [headPos EXCEPT ![i] = 0] /\ postPos' = [postPos EXCEPT ![i] = 0]
      /\ postLen' = [postLen EXCEPT ![i] = -1]
  BY DEF ConnectCb, Connect, FirstFree, IsSlotOf, Holds
<1>2. PICK q \in Offers[c] : req' = [req EXCEPT ![c] = q]
  BY DEF ConnectCb, Connect
<1>3. rcvd[c] = 0 /\ acked[c] = 0 /\ req'[c] = q /\ q.head \in Nat \ {0}
  <2>1. q \in RequestType
    BY <1>2, HttpdAssumption
  <2>2. q.head \in Nat \ {0}
    BY <2>1 DEF RequestType
  <2> QED
    BY <1>1, <1>2, <2>2 DEF Base, Fresh, IInv, TypeOK
<1>4. \A k \in Slots : conn[k] # c
  BY <1>1, HttpdAssumption DEF Base, UInv, HeldLive
<1>5. Fresh'
  BY <1>1 DEF Base, Fresh, IInv, TypeOK
<1>6. ASSUME NEW k \in Slots, NEW d \in Conns, OpenAt(k, d)'
      PROVE  ProgressAt(k, d)'
  <2>1. CASE k = i
    <3>1. d = c
      BY <1>1, <1>6, <2>1 DEF OpenAt, Base, IInv, TypeOK
    <3>2. /\ postLen'[k] = -1 /\ headPos'[k] = 0 /\ rcvd'[d] = 0 /\ acked'[d] = 0
          /\ req'[d] = q
      BY <1>1, <1>3, <2>1, <3>1 DEF Base, IInv, TypeOK
    <3> QED
      BY <1>2, <1>3, <3>1, <3>2, HttpdAssumption DEF ProgressAt, Asking
  <2>2. CASE k # i
    <3>1. conn[k] = d /\ d # c
      BY <1>1, <1>4, <1>6, <2>2 DEF OpenAt, Base, IInv, TypeOK
    <3>2. OpenAt(k, d) /\ req'[d] = req[d]
      BY <1>1, <1>2, <1>6, <3>1 DEF OpenAt, Base, IInv, TypeOK
    <3> QED
      BY <1>1, <2>2, <3>2, LeftAlone DEF Base, IInv, TypeOK
  <2> QED
    BY <2>1, <2>2
<1> QED
  BY <1>5, <1>6 DEF Progress

\* A step of one connection that ends, or of one that never had a slot.
LEMMA EndProgress ==
  ASSUME Base, NEW c \in Conns,
         esp' \in [Conns -> EspState], \A d \in Conns \ {c} : esp'[d] = esp[d],
         esp'[c] # "open", esp'[c] = "free" => rcvd'[c] = 0 /\ acked'[c] = 0,
         \A d \in Conns \ {c} : /\ req'[d] = req[d] /\ rcvd'[d] = rcvd[d]
                                /\ acked'[d] = acked[d],
         UNCHANGED <<headPos, postLen, postPos>>,
         \A k \in Slots : conn'[k] # NULL => conn'[k] = conn[k] /\ job'[k] = job[k]
  PROVE  Progress' /\ Fresh'
<1>1. Fresh'
  BY DEF Base, Fresh
<1>2. ASSUME NEW k \in Slots, NEW d \in Conns, OpenAt(k, d)'
      PROVE  ProgressAt(k, d)'
  <2>1. d # c /\ conn[k] = d /\ job'[k] = job[k] /\ OpenAt(k, d)
    BY <1>2, HttpdAssumption DEF OpenAt
  <2> QED
    BY <2>1, LeftAlone DEF Base
<1> QED
  BY <1>1, <1>2 DEF Progress

\* Nothing is retired but slots of connections that are over.
LEMMA DisconRetires ==
  ASSUME UInv, NEW c \in Conns, DisconCb(c)
  PROVE  RetireConn(Closed)
<1>1. Garbage = {}
  BY DEF Garbage, UInv, HeldLive
<1>2. PICK g \in SUBSET Garbage : RetireConn(Closed \cup g)
  BY DEF DisconCb
<1>3. Closed \cup g = Closed
  BY <1>1, <1>2
<1> QED
  BY <1>2, <1>3

LEMMA EndsProgress ==
  ASSUME Base, ~CanReset, NEW c \in Conns,
         \/ ConnectCbFull(c) \/ RemoteClose(c) \/ DisconCb(c) \/ RefusedGone(c)
         \/ \E i \in Slots : SentCbClose(i, c)
  PROVE  Progress' /\ Fresh'
<1> USE DEF Base, IInv, TypeOK
<1>1. CASE ConnectCbFull(c)
  <2>1. rcvd[c] = 0 /\ acked[c] = 0
    BY <1>1 DEF ConnectCbFull, Connect, Fresh
  <2>2. \E q : req' = [req EXCEPT ![c] = q]
    BY <1>1 DEF ConnectCbFull, Connect
  <2> QED
    BY <1>1, <2>1, <2>2, EndProgress DEF ConnectCbFull, Connect, slotVars, EspState
<1>2. CASE RemoteClose(c)
  BY <1>2, EndProgress DEF RemoteClose, slotVars, EspState
<1>3. CASE RefusedGone(c)
  BY <1>3, EndProgress DEF RefusedGone, Freed, slotVars, EspState
<1>4. CASE DisconCb(c)
  <2>1. RetireConn(Closed)
    BY <1>4, DisconRetires
  <2>2. \A k \in Slots : conn'[k] # NULL => conn'[k] = conn[k] /\ job'[k] = job[k]
    BY <2>1 DEF RetireConn
  <2> QED
    BY <1>4, <2>2, EndProgress DEF DisconCb, Freed, EspState
<1>5. ASSUME NEW i \in Slots, SentCbClose(i, c)
      PROVE  Progress' /\ Fresh'
  <2>1. \A k \in Slots : conn'[k] # NULL => conn'[k] = conn[k] /\ job'[k] = job[k]
    BY <1>5 DEF SentCbClose, RetireConn
  <2> QED
    BY <1>5, <2>1, EndProgress DEF SentCbClose, Sent, EspState
<1> QED
  BY <1>1, <1>2, <1>3, <1>4, <1>5

LEMMA SentProgress ==
  ASSUME Base, NEW i \in Slots, NEW c \in Conns, SentCbCall(i, c)
  PROVE  Progress' /\ Fresh'
<1>1. /\ UNCHANGED <<conn, esp, job, headPos, postLen, postPos, req, rcvd>>
      /\ acked' = [acked EXCEPT ![c] = acked[c] + 1]
      /\ esp[c] = "open" /\ conn[i] = c /\ cgi[i] # "none"
  BY DEF SentCbCall, Sent, IsSlotOf, Holds
<1>2. Answered(i)
  BY <1>1 DEF Base, IInv, HandlerOnlyWhenAnswered
<1>3. Fresh'
  BY <1>1 DEF Base, IInv, TypeOK, Fresh
<1>4. ASSUME NEW k \in Slots, NEW d \in Conns, OpenAt(k, d)
      PROVE  ProgressAt(k, d)'
  <2>1. (k = i) <=> (d = c)
    BY <1>1, <1>4, HttpdAssumption DEF OpenAt, Base, UInv, UniqueSlot
  <2>2. CASE k # i
    BY <1>1, <1>4, <2>1, <2>2, LeftAlone DEF Base, IInv, TypeOK
  <2>3. CASE k = i
    BY <1>1, <1>2, <1>4, <2>1, <2>3
       DEF Base, Progress, ProgressAt, Asking, Answered, PostLen
  <2> QED
    BY <2>2, <2>3
<1> QED
  BY <1>1, <1>3, <1>4 DEF Progress, OpenAt

LEMMA BaseInit == Init => Base
<1> SUFFICES ASSUME Init PROVE Base
  OBVIOUS
<1>1. IInv
  BY InitIInv
<1>2. UInv /\ Fresh /\ Progress
  BY HttpdAssumption
     DEF Init, UInv, HeldLive, UniqueSlot, EspState, Fresh, Progress, OpenAt
<1> QED
  BY <1>1, <1>2 DEF Base

LEMMA BaseNext ==
  ASSUME ~CanReset, Base, [Next]_vars
  PROVE  Base'
<1>1. IInv' /\ UInv'
  BY NextIInv, NextUInv DEF Base
<1>2. CASE UNCHANGED vars \/ ProgrammerTick
  <2>1. UNCHANGED <<slotVars, espVars>>
    BY <1>2 DEF vars, ProgrammerTick
  <2>2. Fresh'
    BY <2>1 DEF espVars, Base, Fresh
  <2>3. Progress'
    BY <2>1, LeftAlone DEF slotVars, espVars, Base, Progress, OpenAt
  <2> QED
    BY <1>1, <2>2, <2>3 DEF Base
<1>3. ASSUME NEW c \in Conns, NEW i \in Slots, SlotNext(i, c)
      PROVE  Progress' /\ Fresh'
  BY <1>3, RecvHeadProgress, RecvRequestProgress, RecvBodyProgress, RecvIgnoredProgress,
     ConnectProgress, EndsProgress, SentProgress DEF SlotNext
<1>4. ASSUME NEW c \in Conns,
             \/ ConnectCbFull(c) \/ RemoteClose(c) \/ DisconCb(c) \/ RefusedGone(c)
      PROVE  Progress' /\ Fresh'
  BY <1>4, EndsProgress
<1> QED
  BY <1>1, <1>2, <1>3, <1>4 DEF Next, ReconCb, Base

\* While the SDK reports every close, a slot reads the request of the connection
\* it holds and no other: what it has stored is what that client has sent.
THEOREM BaseInductive ==
  ASSUME ~CanReset
  PROVE  Spec => []Base
BY BaseInit, BaseNext, PTL DEF Spec
-----------------------------------------------------------------------------
(* The POST store, when one client at most sends bodies that fit it.         *)

OnePoster ==
  \A c, d \in Conns : \A q \in Offers[c], r \in Offers[d] :
    q.len \in 0 .. FF_SIZE /\ r.len \in 0 .. FF_SIZE => c = d

\* The cursor is within the data, and the data within the region.
SoundStore(s) ==
  s.cpos <= s.csize + 2 /\ s.csize <= FF_SIZE + 2 * s.holes

\* The store has pos bytes of c's body: no more than those and the holes, and
\* exactly those, with the cursor behind them, when no reader moved it.
HasBody(s, c, pos) ==
  /\ s.csize <= pos + 2 * s.holes
  /\ ~s.moved =>
       /\ s.cpos = s.csize /\ s.csize = pos
       /\ \A k \in 0 .. (FF_SIZE - 1) :
            s.cell[k] = (IF k < pos THEN <<c, k>> ELSE ERASED)

Waits(i) == postLen[i] > 0 /\ postPos[i] # -1

StoreInv ==
  /\ SoundStore(ff)
  /\ \A i \in Slots, c \in Conns : OpenAt(i, c) /\ Waits(i) => HasBody(ff, c, postPos[i])

LEMMA EraseSound ==
  ASSUME NEW s \in StoreType, NEW c \in Conns
  PROVE  SoundStore(FfErase(s)) /\ HasBody(FfErase(s), c, 0) /\ ~FfErase(s).moved
<1> DEFINE e == [s EXCEPT !.csize = 0, !.cell = Erased, !.moved = FALSE, !.holes = 0]
<1>1. FfErase(s) = [e EXCEPT !.cpos = FfClamp(e.csize, 0)]
  BY DEF FfErase, FfReset, FfSeek
<1>2. /\ e.csize = 0 /\ e.moved = FALSE /\ e.holes = 0 /\ e.cell = Erased
      /\ e = [e EXCEPT !.cpos = e.cpos]
      /\ DOMAIN e = {"cpos", "csize", "cell", "moved", "holes"}
  BY DEF StoreType
<1>3. FfClamp(0, 0) = 0
  BY DEF FfClamp
<1> HIDE DEF e
<1>4. /\ FfErase(s).cpos = 0 /\ FfErase(s).csize = 0 /\ FfErase(s).moved = FALSE
      /\ FfErase(s).holes = 0 /\ FfErase(s).cell = Erased
  BY <1>1, <1>2, <1>3
<1>5. \A k \in 0 .. (FF_SIZE - 1) : Erased[k] = ERASED
  BY StoreAssumption DEF Cells, Erased
<1> QED
  BY <1>4, <1>5, StoreAssumption DEF SoundStore, HasBody

LEMMA MoveSound ==
  ASSUME NEW s \in StoreType, NEW p \in Nat, p = s.cpos \/ p <= s.csize + 2,
         SoundStore(s)
  PROVE  /\ SoundStore(FfMoveTo(s, p))
         /\ \A c \in Conns, pos \in Nat : HasBody(s, c, pos) => HasBody(FfMoveTo(s, p), c, pos)
<1> DEFINE t == FfMoveTo(s, p)
<1>1. /\ t.cpos = p /\ t.csize = s.csize /\ t.cell = s.cell
      /\ t.holes = s.holes /\ t.moved = (s.moved \/ p # s.cpos)
      /\ s.csize \in Nat /\ s.cpos \in Nat /\ s.holes \in Nat
  BY DEF FfMoveTo, StoreType
<1> HIDE DEF t
<1>2. ~t.moved => ~s.moved /\ p = s.cpos
  BY <1>1
<1>3. SoundStore(t)
  BY <1>1 DEF SoundStore
<1>4. \A c \in Conns, pos \in Nat : HasBody(s, c, pos) => HasBody(t, c, pos)
  BY <1>1, <1>2 DEF HasBody
<1> QED
  BY <1>3, <1>4 DEF t

LEMMA WriteSound ==
  ASSUME NEW s \in StoreType, NEW c \in Conns, NEW pos \in Nat, NEW sz \in Nat,
         SoundStore(s), HasBody(s, c, pos), pos + sz <= FF_SIZE
  PROVE  LET t == Written(s, c, pos, sz) IN
         /\ t \in StoreType /\ SoundStore(t) /\ HasBody(t, c, pos + sz)
         /\ t.moved = s.moved
<1> DEFINE t == Written(s, c, pos, sz)
           bytes == BodyBytes(c, pos, sz)
<1>1. t \in StoreType
  BY WriteType DEF Written
<1>2. /\ t.cpos = s.cpos + sz /\ t.csize = s.cpos + sz /\ t.moved = s.moved
      /\ t.holes = (IF s.cpos > s.csize THEN s.holes + 1 ELSE s.holes)
      /\ \A a \in Cells :
           t.cell[a] = IF a < s.cpos \/ a >= s.cpos + sz THEN s.cell[a]
                       ELSE IF s.cell[a] = ERASED THEN bytes[a - s.cpos] ELSE MIXED
  BY DEF Written, FfWriteBytes
<1>3. \A k \in 0 .. (sz - 1) : bytes[k] = <<c, pos + k>>
  BY DEF BodyBytes
<1>4. s.cpos \in Nat /\ s.csize \in Nat /\ s.holes \in Nat
  BY DEF StoreType
<1> HIDE DEF t, bytes
<1>6. t.csize <= pos + sz + 2 * t.holes
  <2>1. s.cpos <= s.csize + 2 /\ s.csize <= pos + 2 * s.holes
    BY DEF SoundStore, HasBody
  <2>2. CASE s.cpos > s.csize
    <3>1. t.holes = s.holes + 1 /\ s.cpos <= pos + 2 * s.holes + 2
      BY <1>2, <1>4, <2>1, <2>2
    <3> QED
      BY <1>2, <1>4, <3>1
  <2>3. CASE ~(s.cpos > s.csize)
    BY <1>2, <1>4, <2>1, <2>3
  <2> QED
    BY <2>2, <2>3
<1>5. SoundStore(t)
  <2>1. t.csize <= FF_SIZE + 2 * t.holes
    BY <1>2, <1>4, <1>6, StoreAssumption
  <2> QED
    BY <1>2, <1>4, <2>1 DEF SoundStore
<1>7. ASSUME ~t.moved
      PROVE  /\ t.cpos = t.csize /\ t.csize = pos + sz
             /\ \A k \in 0 .. (FF_SIZE - 1) :
                  t.cell[k] = (IF k < pos + sz THEN <<c, k>> ELSE ERASED)
  <2>1. s.cpos = pos /\ \A k \in 0 .. (FF_SIZE - 1) :
                          s.cell[k] = (IF k < pos THEN <<c, k>> ELSE ERASED)
    BY <1>2, <1>7 DEF HasBody
  <2>2. ASSUME NEW k \in 0 .. (FF_SIZE - 1)
        PROVE  t.cell[k] = (IF k < pos + sz THEN <<c, k>> ELSE ERASED)
    <3>1. k \in Cells
      BY StoreAssumption DEF Cells
    <3>2. CASE k < pos \/ k >= pos + sz
      BY <1>2, <2>1, <3>1, <3>2
    <3>3. CASE ~(k < pos \/ k >= pos + sz)
      <4>1. k - pos \in 0 .. (sz - 1) /\ pos + (k - pos) = k
        BY <3>3, StoreAssumption
      <4>2. bytes[k - pos] = <<c, k>>
        BY <1>3, <4>1
      <4> QED
        BY <1>2, <2>1, <3>1, <3>3, <4>2
    <3> QED
      BY <3>2, <3>3
  <2> QED
    BY <1>2, <2>1, <2>2
<1> QED
  BY <1>1, <1>2, <1>5, <1>6, <1>7 DEF HasBody, t

\* The store is not touched, and nobody begins to wait.
LEMMA StoreStays ==
  ASSUME StoreInv, UNCHANGED ff,
         \A i \in Slots, c \in Conns :
           OpenAt(i, c)' /\ Waits(i)' =>
             OpenAt(i, c) /\ Waits(i) /\ postPos'[i] = postPos[i]
  PROVE  StoreInv'
BY DEF StoreInv

\* While the one client that can waits, nobody else posts.
LEMMA NobodyElseWaits ==
  ASSUME OnePoster, Base, NEW i \in Slots, NEW c \in Conns, OpenAt(i, c),
         req[c].len \in 0 .. FF_SIZE,
         NEW k \in Slots, NEW d \in Conns, OpenAt(k, d), Waits(k)
  PROVE  k = i /\ d = c
<1>1. req[c] \in Offers[c] /\ req[d] \in Offers[d]
  BY DEF Base, Progress, ProgressAt
<1>2. postLen[k] = PostLen(req[d]) /\ PostLen(req[d]) > 0
  BY AtType DEF Waits, Base, IInv, Progress, ProgressAt
<1>3. req[d].len \in 0 .. FF_SIZE
  BY <1>2, AtType DEF PostLen, Base, IInv
<1>4. d = c
  BY <1>1, <1>3 DEF OnePoster
<1> QED
  BY <1>4, HttpdAssumption DEF OpenAt, Base, UInv, UniqueSlot

\* What httpdSendResp does to the store it is given.
LEMMA SendRespMoves ==
  ASSUME NEW i \in Slots, NEW c \in Conns, NEW q, NEW plen, NEW s \in StoreType,
         SendResp(i, c, q, plen, s), SoundStore(s)
  PROVE  /\ SoundStore(ff)'
         /\ \A d \in Conns, pos \in Nat : HasBody(s, d, pos) => HasBody(ff, d, pos)'
         /\ ff'.csize = s.csize /\ ff'.cell = s.cell
<1>1. PICK p \in CursorAfter(q, plen, s) : ff' = FfMoveTo(s, p)
  BY DEF SendResp
<1>2. p \in Nat /\ (p = s.cpos \/ p <= s.csize + 2)
  BY CursorNear
<1>3. /\ SoundStore(FfMoveTo(s, p))
      /\ \A d \in Conns, pos \in Nat : HasBody(s, d, pos) => HasBody(FfMoveTo(s, p), d, pos)
  BY <1>2, MoveSound
<1>4. FfMoveTo(s, p).csize = s.csize /\ FfMoveTo(s, p).cell = s.cell
  BY DEF FfMoveTo, StoreType
<1> QED
  BY <1>1, <1>3, <1>4 DEF SoundStore, HasBody

LEMMA BodyKeepsStore ==
  ASSUME OnePoster, Base, NEW i \in Slots, NEW c \in Conns, NEW s \in StoreType,
         NEW pos \in Nat, NEW sz \in Nat,
         RecvOnly(i, c), OpenAt(i, c), PostLen(req[c]) > 0,
         SoundStore(s), HasBody(s, c, pos), BodyRuns(i, c, pos, sz, s)
  PROVE  /\ StoreInv'
         /\ postPos'[i] = -1 /\ ~s.moved => BodyStored(i)
<1> DEFINE t == Written(s, c, pos, sz)
           plen == PostLen(req[c])
<1>1. /\ plen \in 1 .. FF_SIZE /\ FF_SIZE \in Nat /\ req[c].len \in 0 .. FF_SIZE
      /\ req[c].len = plen
  BY AtType DEF PostLen, Base, IInv
<1>2. pos + sz <= plen /\ postLen'[i] = plen
  BY DEF BodyRuns, BodyStep
<1>3. /\ t \in StoreType /\ SoundStore(t) /\ HasBody(t, c, pos + sz)
      /\ t.moved = s.moved
  BY <1>1, <1>2, WriteSound
<1>4. IF pos + sz < plen THEN postPos'[i] = pos + sz /\ ff' = t
                         ELSE postPos'[i] = -1 /\ SendResp(i, c, req[c], plen, t)
  BY DEF BodyRuns, BodyStep
<1> HIDE DEF t, plen
<1>5. SoundStore(ff)'
  BY <1>3, <1>4, SendRespMoves DEF SoundStore
<1>6. ASSUME NEW k \in Slots, NEW d \in Conns, OpenAt(k, d)', Waits(k)'
      PROVE  HasBody(ff, d, postPos[k])'
  <2>1. OpenAt(k, d)
    BY <1>6 DEF OpenAt, RecvOnly
  <2>2. CASE k = i
    <3>1. d = c
      BY <2>1, <2>2 DEF OpenAt
    <3>2. postPos'[i] # -1
      BY <1>6, <2>2 DEF Waits
    <3> QED
      BY <1>3, <1>4, <2>2, <3>1, <3>2 DEF HasBody
  <2>3. CASE k # i
    <3>1. Waits(k)
      BY <1>6, <2>3 DEF Waits, RecvOnly
    <3> QED
      BY <1>1, <2>1, <2>3, <3>1, NobodyElseWaits
  <2> QED
    BY <2>2, <2>3
<1>7. ASSUME postPos'[i] = -1, ~s.moved PROVE BodyStored(i)
  <2>1. SendResp(i, c, req[c], plen, t) /\ pos + sz = plen
    BY <1>1, <1>2, <1>4, <1>7
  <2>2. ff'.csize = t.csize /\ ff'.cell = t.cell
    BY <1>3, <2>1, SendRespMoves
  <2>3. /\ t.csize = plen
        /\ \A k \in 0 .. (FF_SIZE - 1) :
             t.cell[k] = (IF k < plen THEN <<c, k>> ELSE ERASED)
    BY <1>3, <1>7, <2>1 DEF HasBody
  <2>4. ASSUME NEW k \in 0 .. (plen - 1) PROVE t.cell[k] = <<c, k>>
    <3>1. k \in 0 .. (FF_SIZE - 1) /\ k < plen
      BY <1>1
    <3> QED
      BY <2>3, <3>1
  <2>5. conn[i] = c
    BY DEF OpenAt
  <2> QED
    BY <1>2, <2>2, <2>3, <2>4, <2>5 DEF BodyStored
<1> QED
  BY <1>5, <1>6, <1>7 DEF StoreInv

\* One step: the store stays sound, and a body that becomes complete is stored.
LEMMA PostKeepsStore ==
  ASSUME OnePoster, Base, StoreInv, NEW i \in Slots, NEW c \in Conns,
         NEW n \in 1 .. MaxChunk, RecvPost(i, c, n)
  PROVE  StoreInv' /\ (postPos'[i] = -1 => BodyStored(i))
<1>1. PICK sz \in Nat : BodyRuns(i, c, 0, sz, ParsedStore(req[c]))
  BY PostIsOwn
<1>2. PostLen(req[c]) > 0 /\ RecvOnly(i, c) /\ OpenAt(i, c)
  BY PostIsOwn
<1>3. ParsedStore(req[c]) = FfErase(ff)
  BY <1>2 DEF PostLen, ParsedStore
<1>4. ff \in StoreType
  BY DEF Base, IInv, TypeOK
<1>5. /\ FfErase(ff) \in StoreType /\ SoundStore(FfErase(ff))
      /\ HasBody(FfErase(ff), c, 0) /\ ~FfErase(ff).moved
  BY <1>4, EraseType, EraseSound
<1> QED
  BY <1>1, <1>2, <1>3, <1>5, BodyKeepsStore

LEMMA BodyKeeps ==
  ASSUME OnePoster, Base, StoreInv, NEW i \in Slots, NEW c \in Conns,
         NEW n \in 1 .. MaxChunk, RecvBody(i, c, n)
  PROVE  /\ StoreInv' /\ postLen[i] > 0
         /\ postPos'[i] = -1 /\ ~ff.moved => BodyStored(i)
<1>1. PICK sz \in Nat : BodyRuns(i, c, postPos[i], sz, ff)
  BY BodyIsOwn
<1>2. /\ PostLen(req[c]) > 0 /\ RecvOnly(i, c) /\ OpenAt(i, c)
      /\ postPos[i] \in 0 .. (postLen[i] - 1) /\ postLen[i] > 0
      /\ PostLen(req[c]) = postLen[i]
  BY BodyIsOwn
<1>3. postPos[i] \in Nat /\ Waits(i)
  BY <1>2, AtType DEF Waits, Base, IInv
<1>4. ff \in StoreType /\ SoundStore(ff) /\ HasBody(ff, c, postPos[i])
  BY <1>2, <1>3 DEF StoreInv, Base, IInv, TypeOK
<1> QED
  BY <1>1, <1>2, <1>3, <1>4, BodyKeepsStore

LEMMA RequestKeepsStore ==
  ASSUME OnePoster, Base, StoreInv, NEW i \in Slots, NEW c \in Conns,
         NEW n \in 1 .. MaxChunk, RecvRequest(i, c, n)
  PROVE  StoreInv'
<1> DEFINE s == ParsedStore(req[c])
<1>1. /\ SendResp(i, c, req[c], 0, s) /\ postLen'[i] = 0
      /\ RecvOnly(i, c) /\ OpenAt(i, c)
  BY RequestIsOwn
<1>2. ff \in StoreType /\ SoundStore(ff)
  BY DEF Base, IInv, TypeOK, StoreInv
<1>3. (s = FfErase(ff) /\ req[c].len \in 0 .. FF_SIZE) \/ s = ff
  BY AtType DEF ParsedStore, Base, IInv
<1>4. s \in StoreType /\ SoundStore(s)
  BY <1>2, <1>3, EraseType, EraseSound
<1> HIDE DEF s
<1>5. ASSUME NEW k \in Slots, NEW d \in Conns, OpenAt(k, d)', Waits(k)'
      PROVE  HasBody(ff, d, postPos[k])'
  <2>1. k # i
    BY <1>1, <1>5 DEF Waits
  <2>2. OpenAt(k, d) /\ Waits(k) /\ postPos'[k] = postPos[k]
    BY <1>1, <1>5, <2>1 DEF OpenAt, Waits, RecvOnly
  <2>3. s = ff
    BY <1>1, <1>3, <2>1, <2>2, NobodyElseWaits
  <2>4. postPos[k] \in Nat
    BY <2>2, AtType DEF Waits, Base, IInv
  <2>5. HasBody(s, d, postPos[k])
    BY <2>2, <2>3 DEF StoreInv
  <2>6. \A pos \in Nat : HasBody(s, d, pos) => HasBody(ff, d, pos)'
    BY <1>1, <1>4, SendRespMoves
  <2> QED
    BY <2>2, <2>4, <2>5, <2>6 DEF HasBody
<1>6. SoundStore(ff)'
  BY <1>1, <1>4, SendRespMoves
<1> QED
  BY <1>5, <1>6 DEF StoreInv

LEMMA TickKeepsStore ==
  ASSUME Base, StoreInv, ProgrammerTick
  PROVE  StoreInv'
<1>1. PICK p \in CursorAfterTick(ff) : ff' = FfMoveTo(ff, p)
  BY DEF ProgrammerTick
<1>2. ff \in StoreType /\ SoundStore(ff)
  BY DEF Base, IInv, TypeOK, StoreInv
<1>3. p \in Nat /\ (p = ff.cpos \/ p <= ff.csize + 2)
  BY <1>1, <1>2, TickNear
<1>4. /\ SoundStore(ff')
      /\ \A d \in Conns, pos \in Nat : HasBody(ff, d, pos) => HasBody(ff', d, pos)
  BY <1>1, <1>2, <1>3, MoveSound
<1>5. UNCHANGED <<conn, esp, postLen, postPos>>
  BY DEF ProgrammerTick, slotVars, espVars
<1>6. ASSUME NEW k \in Slots, NEW d \in Conns, OpenAt(k, d)', Waits(k)'
      PROVE  HasBody(ff, d, postPos[k])'
  <2>1. HasBody(ff, d, postPos[k]) /\ postPos[k] \in Nat
    BY <1>5, <1>6, AtType DEF OpenAt, Waits, StoreInv, Base, IInv
  <2> QED
    BY <1>4, <1>5, <2>1 DEF HasBody
<1> QED
  BY <1>4, <1>6 DEF StoreInv, SoundStore

\* The callbacks that leave the store alone.
LEMMA OthersKeepStore ==
  ASSUME Base, StoreInv, NEW c \in Conns,
         \/ \E i \in Slots, n \in 1 .. MaxChunk : RecvHead(i, c, n) \/ RecvIgnored(i, c, n)
         \/ \E i \in Slots : ConnectCb(i, c) \/ SentCbClose(i, c) \/ SentCbCall(i, c)
         \/ ConnectCbFull(c) \/ RemoteClose(c) \/ DisconCb(c) \/ RefusedGone(c)
  PROVE  StoreInv' /\ \A k \in Slots : postPos'[k] = -1 => postPos[k] = -1
<1> USE DEF Base, IInv, TypeOK, OpenAt, Waits
<1>1. ASSUME NEW i \in Slots, NEW n \in 1 .. MaxChunk,
             RecvHead(i, c, n) \/ RecvIgnored(i, c, n)
      PROVE  UNCHANGED <<conn, esp, postLen, postPos, ff>>
  BY <1>1 DEF RecvHead, RecvIgnored, Receive
<1>2. ASSUME NEW i \in Slots, SentCbCall(i, c)
      PROVE  UNCHANGED <<conn, esp, postLen, postPos, ff>>
  BY <1>2 DEF SentCbCall, Sent
<1>3. ASSUME NEW i \in Slots, ConnectCb(i, c)
      PROVE  StoreInv' /\ \A k \in Slots : postPos'[k] = -1 => postPos[k] = -1
  <2>1. /\ conn' = [conn EXCEPT ![i] = c] /\ esp' = [esp EXCEPT ![c] = "open"]
        /\ postPos' = [postPos EXCEPT ![i] = 0] /\ postLen' = [postLen EXCEPT ![i] = -1]
        /\ esp[c] = "free" /\ ff' = ff
    BY <1>3 DEF ConnectCb, Connect
  <2>2. \A k \in Slots : conn[k] # c
    BY <2>1, HttpdAssumption DEF UInv, HeldLive
  <2>3. ASSUME NEW k \in Slots, NEW d \in Conns, OpenAt(k, d)', Waits(k)'
        PROVE  OpenAt(k, d) /\ Waits(k) /\ postPos'[k] = postPos[k]
    <3>1. k # i
      BY <2>1, <2>3
    <3> QED
      BY <2>1, <2>2, <2>3, <3>1
  <2> QED
    BY <2>1, <2>3, StoreStays
<1>4. ASSUME UNCHANGED <<postLen, postPos, ff>>,
             \A k \in Slots : conn'[k] # NULL => conn'[k] = conn[k],
             \A d \in Conns : esp'[d] = "open" => esp[d] = "open"
      PROVE  StoreInv' /\ \A k \in Slots : postPos'[k] = -1 => postPos[k] = -1
  BY <1>4, StoreStays, HttpdAssumption
<1>5. ASSUME NEW i \in Slots, SentCbClose(i, c)
      PROVE  StoreInv' /\ \A k \in Slots : postPos'[k] = -1 => postPos[k] = -1
  BY <1>4, <1>5 DEF SentCbClose, Sent, RetireConn
<1>6. CASE DisconCb(c)
  <2>1. RetireConn(Closed)
    BY <1>6, DisconRetires
  <2> QED
    BY <1>4, <1>6, <2>1 DEF DisconCb, Freed, RetireConn
<1>7. CASE ConnectCbFull(c) \/ RemoteClose(c) \/ RefusedGone(c)
  BY <1>4, <1>7 DEF ConnectCbFull, Connect, RemoteClose, RefusedGone, Freed, slotVars
<1>8. ASSUME UNCHANGED <<conn, esp, postLen, postPos, ff>>
      PROVE  StoreInv' /\ \A k \in Slots : postPos'[k] = -1 => postPos[k] = -1
  BY <1>4, <1>8
<1> QED
  BY <1>1, <1>2, <1>3, <1>5, <1>6, <1>7, <1>8

LEMMA StoreNext ==
  ASSUME ~CanReset, OnePoster, Base, StoreInv, [Next]_vars
  PROVE  /\ StoreInv'
         /\ \A i \in Slots :
              postPos[i] # -1 /\ postPos'[i] = -1 /\ ~(postLen[i] > 0 /\ ff.moved)
                => BodyStored(i)
<1> DEFINE Kept == \A k \in Slots : postPos'[k] = -1 => postPos[k] = -1
           Stored == \A k \in Slots :
              postPos[k] # -1 /\ postPos'[k] = -1 /\ ~(postLen[k] > 0 /\ ff.moved)
                => BodyStored(k)
<1>1. ASSUME Kept PROVE Stored
  BY <1>1
<1> HIDE DEF Stored
<1>2. CASE UNCHANGED vars
  <2>1. StoreInv' /\ Kept
    BY <1>2, StoreStays DEF vars, slotVars, espVars, OpenAt, Waits
  <2> QED
    BY <1>1, <2>1 DEF Stored
<1>3. CASE ProgrammerTick
  <2>1. Kept
    BY <1>3 DEF ProgrammerTick, slotVars
  <2> QED
    BY <1>1, <1>3, <2>1, TickKeepsStore DEF Stored
<1>4. ASSUME NEW c \in Conns, NEW i \in Slots, NEW n \in 1 .. MaxChunk, RecvRequest(i, c, n)
      PROVE  StoreInv' /\ Stored
  <2>1. Kept
    BY <1>4 DEF RecvRequest
  <2> QED
    BY <1>1, <1>4, <2>1, RequestKeepsStore DEF Stored
<1>5. ASSUME NEW c \in Conns, NEW i \in Slots, NEW n \in 1 .. MaxChunk, RecvPost(i, c, n)
      PROVE  StoreInv' /\ Stored
  <2>1. RecvOnly(i, c)
    BY <1>5, PostIsOwn
  <2> QED
    BY <1>5, <2>1, PostKeepsStore DEF Stored, RecvOnly
<1>6. ASSUME NEW c \in Conns, NEW i \in Slots, NEW n \in 1 .. MaxChunk, RecvBody(i, c, n)
      PROVE  StoreInv' /\ Stored
  <2>1. RecvOnly(i, c)
    BY <1>6, BodyIsOwn
  <2> QED
    BY <1>6, <2>1, BodyKeeps DEF Stored, RecvOnly
<1>7. ASSUME NEW c \in Conns,
             \/ \E i \in Slots, n \in 1 .. MaxChunk : RecvHead(i, c, n) \/ RecvIgnored(i, c, n)
             \/ \E i \in Slots : ConnectCb(i, c) \/ SentCbClose(i, c) \/ SentCbCall(i, c)
             \/ ConnectCbFull(c) \/ RemoteClose(c) \/ DisconCb(c) \/ RefusedGone(c)
      PROVE  StoreInv' /\ Stored
  BY <1>1, <1>7, OthersKeepStore
<1> QED
  BY <1>2, <1>3, <1>4, <1>5, <1>6, <1>7 DEF Next, SlotNext, ReconCb, Stored

LEMMA StoreInit == Init => StoreInv
BY StoreAssumption DEF Init, StoreInv, SoundStore, FfInit, OpenAt

\* While one client at most posts bodies that fit the store and the SDK reports
\* every close, POST data leaves the flash region that ff_erase erases by two
\* bytes at most for each write that began past the end of the data.  The
\* programmer's ticks are included: those that put the cursor back, and those
\* with a negative fpos, which leave it where their own reads did.
THEOREM StoreStaysInBounds ==
  ASSUME ~CanReset, OnePoster
  PROVE  Spec => []StoreInBounds
<1>1. Base /\ StoreInv /\ [Next]_vars => StoreInv'
  BY StoreNext
<1>2. StoreInv => StoreInBounds
  BY DEF StoreInv, SoundStore, StoreInBounds
<1> QED
  BY <1>1, <1>2, StoreInit, BaseInductive, PTL DEF Spec

\* Under the same conditions, a handler of POST data is called for a body that
\* lies whole and in order in the store, unless the cursor was moved meanwhile.
THEOREM UploadsIntact ==
  ASSUME ~CanReset, OnePoster
  PROVE  Spec => UploadIntact
<1> DEFINE Stored == \A i \in Slots :
             postPos[i] # -1 /\ postPos'[i] = -1 /\ ~(postLen[i] > 0 /\ ff.moved)
               => BodyStored(i)
<1>1. Base /\ StoreInv /\ [Next]_vars => StoreInv' /\ Stored
  BY StoreNext
<1> HIDE DEF Stored
<1>2. Base /\ StoreInv /\ [Next]_vars => StoreInv' /\ [Stored]_vars
  BY <1>1
<1>3. Spec => [][Stored]_vars
  BY <1>2, StoreInit, BaseInductive, PTL DEF Spec
<1> QED
  BY <1>3 DEF UploadIntact, Stored
-----------------------------------------------------------------------------
(***************************************************************************)
(* The answers: a request that the handlers can answer is answered to its  *)
(* end, and the server implements HttpService, while the SDK reports every *)
(* close.                                                                  *)
(***************************************************************************)

\* A request that is answered in full: its head fits, it is not for a camera
\* handler that sends nothing, the file it names is no exact multiple of 1024
\* bytes, and a sketch to program is posted whole.
Good(q) ==
  /\ q.head <= MAX_HEAD_LEN
  /\ q.cgi \notin {"cgiCmuCam4color", "cgiCmuCam4bw", "cgiCmuCam4tc"}
  /\ q.cgi \in FileCgis /\ q.found => q.tail
  /\ q.cgi = "cgiProgram" => q.found /\ q.len \in 1 .. FF_SIZE

GoodOffers == \A c \in Conns : \A q \in Offers[c] : Good(q)

\* An answer under way: the handler was called once for every piece, all but
\* the last piece has arrived, and the handler goes with the last call.
AnswerAt(i, c) ==
  Answered(i) =>
    /\ inflight[c]
    /\ calls[i] \in 1 .. Pieces(req[c])
    /\ acked[c] = calls[i] - 1
    /\ cgi[i] = (IF calls[i] = Pieces(req[c]) THEN "none" ELSE req[c].cgi)

AnswersGoOn == \A i \in Slots, c \in Conns : OpenAt(i, c) => AnswerAt(i, c)

SInv == Base /\ AnswersGoOn
-----------------------------------------------------------------------------
(* The handlers. *)

LEMMA PiecesType ==
  ASSUME NEW q \in RequestType
  PROVE  Pieces(q) \in Nat \ {0}
<1>1. q.full \in Nat /\ FlashBlocks \in Nat
  BY HttpdAssumption DEF RequestType
<1> QED
  BY <1>1 DEF Pieces

\* A handler sends something on each call, and says that it is done on the call
\* for the last piece.
LEMMA CallGoesOn ==
  ASSUME NEW q \in RequestType, Good(q), NEW k \in Nat, k < Pieces(q)
  PROVE  LET r == Call(q, k, PostLen(q)) IN
         /\ r.res = (IF k + 1 < Pieces(q) THEN "MORE"
                     ELSE IF k = 0 /\ q.cgi \in FileCgis THEN "NOTFOUND" ELSE "DONE")
         /\ k > 0 => r.direct \/ r.buf
         /\ r.buf \/ r.direct \/ r.res = "NOTFOUND"
<1> USE DEF Result
<1>1. q.full \in Nat /\ FlashBlocks \in Nat \ {0} /\ q.found \in BOOLEAN /\ q.tail \in BOOLEAN
  BY HttpdAssumption DEF RequestType
<1>2. CASE q.cgi \in FileCgis
  <2>1. Pieces(q) = IF q.found THEN 1 + q.full + (IF q.tail THEN 1 ELSE 0) ELSE 1
    BY <1>2 DEF Pieces, FileCgis
  <2>2. q.found => q.tail
    BY <1>2 DEF Good
  <2>3. CASE q.found
    BY <1>1, <1>2, <2>1, <2>2, <2>3 DEF Call, HookCall, TemplateCall, FileCgis, ShortCgis
  <2>4. CASE ~q.found
    <3>1. k = 0 /\ Pieces(q) = 1
      BY <2>1, <2>4
    <3> QED
      BY <1>2, <2>4, <3>1 DEF Call, HookCall, TemplateCall, FileCgis, ShortCgis
  <2> QED
    BY <2>3, <2>4
<1>3. CASE q.cgi = "cgiReadFlash"
  <2>1. Pieces(q) = 1 + FlashBlocks
    BY <1>3 DEF Pieces, FileCgis
  <2> QED
    BY <1>1, <1>3, <2>1 DEF Call, ReadFlashCall, FileCgis, ShortCgis
<1>4. CASE q.cgi \in ShortCgis
  <2>1. Pieces(q) = 1 /\ k = 0
    BY <1>4 DEF Pieces, FileCgis, ShortCgis
  <2> QED
    BY <1>4, <2>1 DEF Call, FileCgis, ShortCgis
<1>5. CASE q.cgi = "cgiProgram"
  <2>1. Pieces(q) = 1 /\ k = 0
    BY <1>5 DEF Pieces, FileCgis
  <2>2. PostLen(q) \in Nat /\ PostLen(q) > 0 /\ q.found
    BY <1>5, StoreAssumption DEF Good, PostLen
  <2> QED
    BY <1>5, <2>1, <2>2 DEF Call, ProgramCall, FileCgis, ShortCgis
<1> QED
  BY <1>2, <1>3, <1>4, <1>5 DEF RequestType, Cgis, FileCgis, ShortCgis, Good
-----------------------------------------------------------------------------
(* Answers go on. *)

\* httpdSendResp begins an answer.
LEMMA SendRespBegins ==
  ASSUME Base, GoodOffers, NEW i \in Slots, NEW c \in Conns, NEW s,
         RecvOnly(i, c), OpenAt(i, c), ~Answered(i),
         SendResp(i, c, req[c], PostLen(req[c]), s)
  PROVE  AnswerAt(i, c)'
<1> DEFINE q == req[c]
           r == Call(q, 0, PostLen(q))
<1>1. q \in RequestType /\ Good(q) /\ q.cgi # "none"
  BY AtType DEF Base, IInv, Progress, ProgressAt, GoodOffers, RequestType
<1>2. acked[c] = 0
  BY DEF Base, Progress, ProgressAt
<1>3. Pieces(q) \in Nat \ {0}
  BY <1>1, PiecesType
<1>4. /\ r.res = (IF 1 < Pieces(q) THEN "MORE"
                  ELSE IF q.cgi \in FileCgis THEN "NOTFOUND" ELSE "DONE")
      /\ r.buf \/ r.direct \/ r.res = "NOTFOUND"
  BY <1>1, <1>3, CallGoesOn
<1>5. /\ calls'[i] = 1
      /\ cgi'[i] = (IF r.res \in {"DONE", "NOTFOUND"} THEN "none" ELSE q.cgi)
      /\ inflight'[c] = (inflight[c] \/ r.direct \/ (r.buf \/ r.res \in {"NOTFOUND", "ERROR"}))
  BY DEF SendResp, EspconnSent, Base, IInv, TypeOK
<1>6. req'[c] = q /\ acked'[c] = 0
  BY <1>2 DEF RecvOnly
<1> HIDE DEF q, r
<1>7. Pieces(req[c])' = Pieces(q)
  BY <1>6 DEF Pieces, q
<1>8. cgi'[i] = (IF 1 = Pieces(q) THEN "none" ELSE q.cgi)
  BY <1>3, <1>4, <1>5
<1>9. inflight'[c]
  BY <1>4, <1>5
<1> QED
  BY <1>3, <1>5, <1>6, <1>7, <1>8, <1>9 DEF AnswerAt

\* A slot and its connection that a step leaves alone.
LEMMA AnswerKept ==
  ASSUME AnswersGoOn, NEW i \in Slots, NEW c \in Conns, OpenAt(i, c),
         Answered(i)' => Answered(i),
         calls'[i] = calls[i], cgi'[i] = cgi[i], inflight'[c] = inflight[c],
         req'[c] = req[c], acked'[c] = acked[c]
  PROVE  AnswerAt(i, c)'
BY DEF AnswersGoOn, AnswerAt, Pieces

\* A call of httpdRecvCb begins an answer or leaves all answers alone.
LEMMA RecvBegins ==
  ASSUME SInv, GoodOffers, NEW i \in Slots, NEW c \in Conns, NEW n \in 1 .. MaxChunk,
         Recv(i, c, n)
  PROVE  /\ RecvOnly(i, c) /\ OpenAt(i, c)
         /\ Answered(i) => Answered(i)'
         /\ AnswersGoOn'
<1> USE DEF SInv
<1>1. RecvOnly(i, c) /\ OpenAt(i, c)
  BY RecvTouches DEF Base, IInv
<1>2. ASSUME AnswerAt(i, c)' PROVE AnswersGoOn'
  <2>1. ASSUME NEW k \in Slots, NEW d \in Conns, OpenAt(k, d)'
        PROVE  AnswerAt(k, d)'
    <3>1. OpenAt(k, d)
      BY <1>1, <2>1 DEF RecvOnly, OpenAt
    <3>2. (k = i) <=> (d = c)
      BY <1>1, <3>1, HttpdAssumption DEF OpenAt, Base, UInv, UniqueSlot
    <3>3. CASE k # i
      BY <1>1, <3>1, <3>2, <3>3, AnswerKept DEF RecvOnly, Answered
    <3> QED
      BY <1>2, <3>2, <3>3
  <2> QED
    BY <2>1 DEF AnswersGoOn
<1>3. CASE RecvHead(i, c, n) \/ RecvIgnored(i, c, n)
  <2>1. UNCHANGED <<calls, cgi, inflight, postLen, postPos>>
    BY <1>3 DEF RecvHead, RecvIgnored
  <2>2. AnswerAt(i, c)'
    BY <1>1, <2>1, AnswerKept DEF RecvOnly, Answered
  <2> QED
    BY <1>1, <1>2, <2>1, <2>2 DEF Answered
<1>4. CASE RecvRequest(i, c, n)
  <2>1. /\ SendResp(i, c, req[c], 0, ParsedStore(req[c])) /\ PostLen(req[c]) = 0
        /\ postLen[i] < 0
    BY <1>4, RequestIsOwn
  <2>2. ~Answered(i)
    BY <2>1, AtType DEF Answered, Base, IInv
  <2> QED
    BY <1>1, <1>2, <2>1, <2>2, SendRespBegins
<1>5. CASE RecvPost(i, c, n) \/ RecvBody(i, c, n)
  <2>1. ~Answered(i)
    BY <1>5, AtType DEF RecvPost, RecvBody, AwaitsBody, Answered, Base, IInv
  <2>2. PostLen(req[c]) > 0 /\ \E pos, sz \in Nat : \E s : BodyRuns(i, c, pos, sz, s)
    BY <1>5, PostIsOwn, BodyIsOwn, AtType DEF Base, IInv
  <2> PICK pos, sz \in Nat : \E s : BodyRuns(i, c, pos, sz, s)
    BY <2>2
  <2>3. PICK s : BodyRuns(i, c, pos, sz, s)
    OBVIOUS
  <2>4. CASE pos + sz < PostLen(req[c])
    <3>1. UNCHANGED <<calls, cgi, inflight>> /\ postPos'[i] \in Nat /\ postLen'[i] > 0
      BY <2>2, <2>3, <2>4 DEF BodyRuns, BodyStep
    <3>2. ~Answered(i)'
      BY <3>1 DEF Answered
    <3> QED
      BY <1>1, <1>2, <2>1, <3>2 DEF AnswerAt
  <2>5. CASE ~(pos + sz < PostLen(req[c]))
    BY <1>1, <1>2, <2>1, <2>3, <2>5, SendRespBegins DEF BodyRuns
  <2> QED
    BY <2>4, <2>5
<1> QED
  BY <1>1, <1>3, <1>4, <1>5 DEF Recv

\* httpdSentCb for an answer that is not complete: one more piece has arrived
\* and one more is sent.
LEMMA SentGoesOn ==
  ASSUME SInv, GoodOffers, NEW i \in Slots, NEW c \in Conns, SentCbCall(i, c)
  PROVE  /\ AnswersGoOn'
         /\ OpenAt(i, c) /\ Answered(i) /\ Pieces(req[c]) - acked[c] > 1
         /\ acked' = [acked EXCEPT ![c] = @ + 1]
         /\ UNCHANGED <<conn, esp, req, postLen, postPos>>
<1> USE DEF SInv
<1> DEFINE q == req[c]
           r == Call(q, calls[i], PostLen(q))
<1>1. /\ UNCHANGED <<conn, esp, job, headPos, postLen, postPos, req, rcvd>>
      /\ acked' = [acked EXCEPT ![c] = acked[c] + 1]
      /\ OpenAt(i, c) /\ cgi[i] # "none"
  BY DEF SentCbCall, Sent, IsSlotOf, Holds, OpenAt
<1>2. Answered(i)
  BY <1>1 DEF Base, IInv, HandlerOnlyWhenAnswered
<1>3. job[i] = q /\ postLen[i] = PostLen(q) /\ q \in RequestType /\ Good(q)
  BY <1>1, <1>2, AtType DEF Base, IInv, Progress, ProgressAt, Answered, GoodOffers
<1>4. /\ calls[i] \in Nat \ {0} /\ calls[i] < Pieces(q) /\ acked[c] = calls[i] - 1
      /\ cgi[i] = q.cgi /\ Pieces(q) \in Nat
  BY <1>1, <1>3, <1>2, PiecesType, AtType DEF AnswersGoOn, AnswerAt
<1>5. /\ calls' = [calls EXCEPT ![i] = calls[i] + 1]
      /\ cgi' = [cgi EXCEPT ![i] = IF r.res = "DONE" THEN "none" ELSE cgi[i]]
      /\ inflight' = [inflight EXCEPT ![c] = FALSE \/ r.direct \/ r.buf]
  BY <1>3 DEF SentCbCall, EspconnSent
<1>6. r.res = (IF calls[i] + 1 < Pieces(q) THEN "MORE" ELSE "DONE") /\ (r.direct \/ r.buf)
  BY <1>3, <1>4, CallGoesOn
<1> HIDE DEF r
<1>7. /\ calls'[i] = calls[i] + 1 /\ inflight'[c]
      /\ cgi'[i] = (IF calls[i] + 1 < Pieces(q) THEN q.cgi ELSE "none")
      /\ acked'[c] = calls[i] /\ Pieces(req[c])' = Pieces(q)
  <2>1. calls'[i] = calls[i] + 1 /\ acked'[c] = calls[i]
    BY <1>1, <1>4, <1>5 DEF Base, IInv, TypeOK
  <2>2. inflight'[c] = (FALSE \/ r.direct \/ r.buf)
    BY <1>5 DEF Base, IInv, TypeOK
  <2>3. cgi'[i] = (IF r.res = "DONE" THEN "none" ELSE cgi[i])
    BY <1>5 DEF Base, IInv, TypeOK
  <2>4. Pieces(req[c])' = Pieces(q)
    BY <1>1 DEF Pieces
  <2>5. inflight'[c]
    BY <1>6, <2>2
  <2> QED
    BY <1>4, <1>6, <2>1, <2>3, <2>4, <2>5
<1>8. AnswerAt(i, c)'
  BY <1>1, <1>4, <1>7 DEF AnswerAt
<1>9. ASSUME NEW k \in Slots, NEW d \in Conns, OpenAt(k, d)'
      PROVE  AnswerAt(k, d)'
  <2>1. OpenAt(k, d)
    BY <1>1, <1>9 DEF OpenAt
  <2>2. (k = i) <=> (d = c)
    BY <1>1, <2>1, HttpdAssumption DEF OpenAt, Base, UInv, UniqueSlot
  <2>3. CASE k # i
    <3>1. calls'[k] = calls[k] /\ cgi'[k] = cgi[k]
      BY <1>5, <2>3 DEF Base, IInv, TypeOK
    <3>2. inflight'[d] = inflight[d] /\ acked'[d] = acked[d]
      BY <1>1, <1>5, <2>2, <2>3 DEF Base, IInv, TypeOK
    <3> QED
      BY <1>1, <2>1, <3>1, <3>2, AnswerKept DEF Answered
  <2> QED
    BY <1>8, <2>2, <2>3
<1> QED
  BY <1>1, <1>2, <1>4, <1>9 DEF AnswersGoOn

\* The callbacks at the two ends of a connection leave the other answers alone.
LEMMA EndsLeaveAnswers ==
  ASSUME SInv, NEW c \in Conns,
         \/ \E i \in Slots : ConnectCb(i, c) \/ SentCbClose(i, c)
         \/ ConnectCbFull(c) \/ RemoteClose(c) \/ DisconCb(c) \/ RefusedGone(c)
  PROVE  /\ AnswersGoOn'
         /\ \A d \in Conns \ {c} :
              /\ esp'[d] = esp[d] /\ req'[d] = req[d] /\ acked'[d] = acked[d]
              /\ \A k \in Slots : OpenAt(k, d) => conn'[k] = d /\ (Answered(k)' <=> Answered(k))
<1> USE DEF SInv, Base, IInv, TypeOK
<1> DEFINE Others ==
     \A d \in Conns \ {c} :
       /\ esp'[d] = esp[d] /\ req'[d] = req[d] /\ acked'[d] = acked[d]
       /\ inflight'[d] = inflight[d]
       /\ \A k \in Slots : OpenAt(k, d) =>
            conn'[k] = d /\ (Answered(k)' <=> Answered(k))
     Slot ==
       /\ \A k \in Slots, d \in Conns \ {c} : OpenAt(k, d)' =>
            OpenAt(k, d) /\ calls'[k] = calls[k] /\ cgi'[k] = cgi[k]
       /\ \A k \in Slots : OpenAt(k, c)' => ~Answered(k)'
<1>1. ASSUME Others, Slot PROVE AnswersGoOn'
  <2> SUFFICES ASSUME NEW k \in Slots, NEW d \in Conns, OpenAt(k, d)'
               PROVE  AnswerAt(k, d)'
    BY DEF AnswersGoOn
  <2>1. CASE d = c
    BY <1>1, <2>1 DEF AnswerAt
  <2>2. CASE d # c
    <3>1. /\ OpenAt(k, d) /\ calls'[k] = calls[k] /\ cgi'[k] = cgi[k]
          /\ inflight'[d] = inflight[d] /\ req'[d] = req[d] /\ acked'[d] = acked[d]
          /\ Answered(k)' <=> Answered(k)
      BY <1>1, <2>2
    <3> QED
      BY <3>1, AnswerKept
  <2> QED
    BY <2>1, <2>2
<1>2. ASSUME NEW i \in Slots, ConnectCb(i, c) PROVE Others /\ Slot
  <2>1. /\ conn' = [conn EXCEPT ![i] = c] /\ esp' = [esp EXCEPT ![c] = "open"]
        /\ postPos' = [postPos EXCEPT ![i] = 0] /\ postLen' = [postLen EXCEPT ![i] = -1]
        /\ \E q : req' = [req EXCEPT ![c] = q]
        /\ conn[i] = NULL /\ esp[c] = "free" /\ UNCHANGED <<inflight, acked, calls, cgi>>
    BY <1>2 DEF ConnectCb, Connect, FirstFree, IsSlotOf, Holds
  <2>2. \A k \in Slots : conn[k] # c
    BY <2>1, HttpdAssumption DEF UInv, HeldLive
  <2>3. Others
    BY <2>1, HttpdAssumption DEF OpenAt, Answered
  <2>4. ~Answered(i)'
    BY <2>1 DEF Answered
  <2>5. \A k \in Slots, d \in Conns \ {c} : OpenAt(k, d)' => OpenAt(k, d)
    BY <2>1 DEF OpenAt
  <2>6. \A k \in Slots : OpenAt(k, c)' => k = i
    BY <2>1, <2>2 DEF OpenAt
  <2> QED
    BY <2>1, <2>3, <2>4, <2>5, <2>6
<1>3. ASSUME NEW i \in Slots, SentCbClose(i, c) PROVE Others /\ Slot
  <2>1. /\ conn' = [k \in Slots |-> IF k = i THEN NULL ELSE conn[k]]
        /\ cgi' = [k \in Slots |-> IF k = i THEN "none" ELSE cgi[k]]
        /\ esp' = [esp EXCEPT ![c] = "closing"]
        /\ acked' = [acked EXCEPT ![c] = acked[c] + 1]
        /\ inflight' = [inflight EXCEPT ![c] = FALSE]
        /\ conn[i] = c /\ UNCHANGED <<postLen, postPos, req, calls>>
    BY <1>3 DEF SentCbClose, Sent, RetireConn, IsSlotOf, Holds
  <2> QED
    BY <2>1, HttpdAssumption DEF OpenAt, Answered
<1>4. CASE DisconCb(c)
  <2>1. RetireConn(Closed)
    BY <1>4, DisconRetires
  <2> QED
    BY <1>1, <1>4, <2>1, HttpdAssumption
       DEF DisconCb, Freed, RetireConn, Closed, OpenAt, Answered
<1>5. CASE ConnectCbFull(c)
  <2>1. \E q : req' = [req EXCEPT ![c] = q]
    BY <1>5 DEF ConnectCbFull, Connect
  <2> QED
    BY <1>1, <1>5, <2>1 DEF ConnectCbFull, Connect, slotVars, OpenAt, Answered
<1>6. CASE RemoteClose(c) \/ RefusedGone(c)
  BY <1>1, <1>6 DEF RemoteClose, RefusedGone, Freed, slotVars, OpenAt, Answered
<1> QED
  BY <1>1, <1>2, <1>3, <1>4, <1>5, <1>6

LEMMA AnswersInit == Init => AnswersGoOn
BY DEF Init, AnswersGoOn, OpenAt

LEMMA AnswersNext ==
  ASSUME ~CanReset, GoodOffers, SInv, [Next]_vars
  PROVE  SInv'
<1>1. Base'
  BY BaseNext DEF SInv
<1>2. CASE UNCHANGED vars \/ ProgrammerTick
  <2>1. UNCHANGED <<slotVars, espVars>>
    BY <1>2 DEF vars, ProgrammerTick
  <2>2. ASSUME NEW i \in Slots, NEW c \in Conns, OpenAt(i, c)' PROVE AnswerAt(i, c)'
    <3>1. OpenAt(i, c)
      BY <2>1, <2>2 DEF slotVars, espVars, OpenAt
    <3> QED
      BY <2>1, <3>1, AnswerKept DEF slotVars, espVars, Answered, SInv
  <2> QED
    BY <1>1, <2>2 DEF SInv, AnswersGoOn
<1>3. ASSUME NEW c \in Conns, NEW i \in Slots, NEW n \in 1 .. MaxChunk, Recv(i, c, n)
      PROVE  AnswersGoOn'
  BY <1>3, RecvBegins
<1>4. ASSUME NEW c \in Conns, NEW i \in Slots, SentCbCall(i, c)
      PROVE  AnswersGoOn'
  BY <1>4, SentGoesOn
<1>5. ASSUME NEW c \in Conns,
             \/ \E i \in Slots : ConnectCb(i, c) \/ SentCbClose(i, c)
             \/ ConnectCbFull(c) \/ RemoteClose(c) \/ DisconCb(c) \/ RefusedGone(c)
      PROVE  AnswersGoOn'
  BY <1>5, EndsLeaveAnswers
<1> QED
  BY <1>1, <1>2, <1>3, <1>4, <1>5 DEF Next, SlotNext, ReconCb, SInv, Recv

\* The invariant of the answers: how often httpdSentCb called the handler of a
\* slot, and how many pieces of its answer have arrived, never come apart.
THEOREM AnswersInductive ==
  ASSUME ~CanReset, GoodOffers
  PROVE  Spec => []SInv
<1>1. Init => SInv
  BY BaseInit, AnswersInit DEF SInv
<1>2. SInv /\ [Next]_vars => SInv'
  BY AnswersNext
<1> QED
  BY <1>1, <1>2, PTL DEF Spec

\* A connection whose whole request has arrived waits for the sent callback
\* that moves it on, if the requests are ones the handlers answer.
THEOREM NothingStalls ==
  ASSUME ~CanReset, GoodOffers
  PROVE  Spec => []NoStall
<1>1. SInv => NoStall
  <2> SUFFICES ASSUME SInv, NEW i \in Slots, NEW c \in Conns, esp[c] = "open",
                      IsSlotOf(i, c), rcvd[c] = Length(req[c])
               PROVE  inflight[c]
    BY DEF NoStall
  <2>1. OpenAt(i, c) /\ ProgressAt(i, c) /\ AnswerAt(i, c)
    BY DEF IsSlotOf, Holds, OpenAt, SInv, Base, Progress, AnswersGoOn
  <2>2. /\ rcvd[c] \in Nat /\ req[c].head \in Nat \ {0} /\ req[c].len \in Nat \cup {-1}
        /\ postLen[i] \in (0 .. FF_SIZE) \cup {-1} /\ FF_SIZE \in Nat
    BY AtType DEF SInv, Base, IInv
  <2>3. postLen[i] >= 0
    <3>1. req[c].head <= MAX_HEAD_LEN /\ MAX_HEAD_LEN \in Nat
      BY <2>1, HttpdAssumption DEF ProgressAt, GoodOffers, Good
    <3> QED
      BY <2>1, <2>2, <3>1 DEF ProgressAt, Asking, Length
  <2>4. ASSUME postLen[i] > 0, postPos[i] # -1 PROVE FALSE
    <3>1. rcvd[c] = req[c].head + postPos[i] /\ postPos[i] < postLen[i]
          /\ postLen[i] = PostLen(req[c])
      BY <2>1, <2>4, <2>2 DEF ProgressAt
    <3>2. req[c].len > 0 /\ PostLen(req[c]) = req[c].len
      BY <2>2, <2>4, <3>1 DEF PostLen
    <3>3. postPos[i] \in Nat
      BY <2>4, AtType DEF SInv, Base, IInv
    <3> QED
      BY <2>2, <3>1, <3>2, <3>3 DEF Length
  <2>5. Answered(i)
    BY <2>2, <2>3, <2>4 DEF Answered
  <2> QED
    BY <2>1, <2>5 DEF AnswerAt
<1> QED
  BY <1>1, AnswersInductive, PTL
-----------------------------------------------------------------------------
(* The refinement: what a client of an open connection sees. *)

Phases ==
  \A i \in Slots, c \in Conns : OpenAt(i, c) =>
    /\ PhaseOf(c) = (IF Answered(i) THEN "answering" ELSE "asking")
    /\ OwedOf(c) = (IF Answered(i) THEN Pieces(req[c]) - acked[c] ELSE 0)

LEMMA OpenPhase == Base => Phases
<1> SUFFICES ASSUME Base, NEW i \in Slots, NEW c \in Conns, OpenAt(i, c)
             PROVE  /\ PhaseOf(c) = (IF Answered(i) THEN "answering" ELSE "asking")
                    /\ OwedOf(c) = (IF Answered(i) THEN Pieces(req[c]) - acked[c] ELSE 0)
  BY DEF Phases
<1>1. \A k \in Slots : IsSlotOf(k, c) <=> k = i
  BY SlotOf, HttpdAssumption DEF Base, UInv, UniqueSlot, OpenAt
<1>2. InAnswer(c) <=> Answered(i)
  BY <1>1 DEF InAnswer
<1> QED
  BY <1>2 DEF PhaseOf, OwedOf, OpenAt

LEMMA OpenPhaseNext == Base' => Phases'
BY OpenPhase, PTL

LEMMA ClosedPhase ==
  ASSUME NEW c \in Conns
  PROVE  /\ esp[c] = "closing" => PhaseOf(c) = "ending"
         /\ esp[c] \notin {"open", "closing"} => PhaseOf(c) = "none"
         /\ esp[c] # "open" => OwedOf(c) = 0
         /\ esp'[c] = "closing" => PhaseOf(c)' = "ending"
         /\ esp'[c] \notin {"open", "closing"} => PhaseOf(c)' = "none"
         /\ esp'[c] # "open" => OwedOf(c)' = 0
BY DEF PhaseOf, OwedOf

PhaseKept(d) == PhaseOf(d)' = PhaseOf(d) /\ OwedOf(d)' = OwedOf(d)

\* A connection a step leaves alone is in the same phase.
LEMMA PhaseStays ==
  ASSUME Base, Base', NEW d \in Conns,
         esp'[d] = esp[d], req'[d] = req[d], acked'[d] = acked[d],
         \A k \in Slots : OpenAt(k, d) => conn'[k] = d /\ (Answered(k)' <=> Answered(k))
  PROVE  PhaseKept(d)
<1>1. CASE esp[d] # "open"
  BY <1>1 DEF PhaseKept, PhaseOf, OwedOf
<1>2. CASE esp[d] = "open"
  <2>1. PICK k \in Slots : OpenAt(k, d)
    BY <1>2 DEF Base, IInv, OpenHasSlot, Holds, OpenAt
  <2>2. OpenAt(k, d)' /\ (Answered(k)' <=> Answered(k))
    BY <1>2, <2>1 DEF OpenAt
  <2>3. (Pieces(req[d]) - acked[d])' = Pieces(req[d]) - acked[d]
    BY DEF Pieces
  <2> QED
    BY <2>1, <2>2, <2>3, OpenPhase, OpenPhaseNext DEF PhaseKept, Phases
<1> QED
  BY <1>1, <1>2

\* A step of one connection, and one of none.
LEMMA ServiceStep ==
  ASSUME NEW c \in Conns, \A d \in Conns \ {c} : PhaseKept(d), NEW from, NEW to, NEW left,
         PhaseOf(c) = from, PhaseOf(c)' = to, OwedOf(c)' = left
  PROVE  Service!Step(c, from, to, left)
BY DEF Service!Step, PhaseKept

LEMMA ServiceStutters ==
  ASSUME \A d \in Conns : PhaseKept(d)
  PROVE  UNCHANGED Service!svars
BY DEF Service!svars, PhaseKept

LEMMA RecvService ==
  ASSUME SInv, SInv', GoodOffers, NEW i \in Slots, NEW c \in Conns,
         NEW n \in 1 .. MaxChunk, Recv(i, c, n)
  PROVE  [Service!Next]_(Service!svars)
<1> USE DEF SInv
<1>1. RecvOnly(i, c) /\ OpenAt(i, c) /\ (Answered(i) => Answered(i)')
  BY RecvBegins
<1>2. ASSUME NEW d \in Conns \ {c} PROVE PhaseKept(d)
  <2>1. \A k \in Slots : OpenAt(k, d) => k # i
    BY <1>1, HttpdAssumption DEF OpenAt
  <2>2. \A k \in Slots : OpenAt(k, d) => conn'[k] = d /\ (Answered(k)' <=> Answered(k))
    BY <1>1, <2>1 DEF RecvOnly, OpenAt, Answered
  <2> QED
    BY <1>1, <2>2, PhaseStays DEF RecvOnly
<1>3. OpenAt(i, c)' /\ UNCHANGED <<esp, req, acked, conn>>
  BY <1>1 DEF OpenAt, RecvOnly
<1>4. CASE Answered(i)' <=> Answered(i)
  <2>1. \A k \in Slots : OpenAt(k, c) => k = i
    BY <1>1, HttpdAssumption DEF OpenAt, Base, UInv, UniqueSlot
  <2>2. PhaseKept(c)
    BY <1>3, <1>4, <2>1, PhaseStays DEF OpenAt
  <2> QED
    BY <1>2, <2>2, ServiceStutters
<1>5. CASE ~Answered(i) /\ Answered(i)'
  <2>1. PhaseOf(c) = "asking" /\ PhaseOf(c)' = "answering"
        /\ OwedOf(c)' = (Pieces(req[c]) - acked[c])'
    BY <1>1, <1>3, <1>5, OpenPhase, OpenPhaseNext DEF Phases
  <2>2. acked[c] = 0 /\ req[c] \in Offers[c] /\ Pieces(req[c]) \in Nat
    BY <1>1, <1>5, AtType, PiecesType DEF Base, IInv, Progress, ProgressAt
  <2>3. (Pieces(req[c]) - acked[c])' = Pieces(req[c])
    BY <1>3, <2>2 DEF Pieces
  <2>4. Pieces(req[c]) \in {Pieces(q) : q \in UNION {Offers[d] : d \in Conns}}
    BY <2>2
  <2>5. Service!Step(c, "asking", "answering", Pieces(req[c]))
    BY <1>2, <2>1, <2>3, ServiceStep
  <2> QED
    BY <2>4, <2>5 DEF Service!Next, Service!Ask
<1> QED
  BY <1>1, <1>4, <1>5

LEMMA SentService ==
  ASSUME SInv, SInv', GoodOffers, NEW i \in Slots, NEW c \in Conns, SentCbCall(i, c)
  PROVE  [Service!Next]_(Service!svars)
<1> USE DEF SInv
<1>1. /\ OpenAt(i, c) /\ Answered(i) /\ Pieces(req[c]) - acked[c] > 1
      /\ acked' = [acked EXCEPT ![c] = @ + 1]
      /\ UNCHANGED <<conn, esp, req, postLen, postPos>>
  BY SentGoesOn
<1>2. ASSUME NEW d \in Conns \ {c} PROVE PhaseKept(d)
  BY <1>1, PhaseStays DEF OpenAt, Answered, Base, IInv, TypeOK
<1>3. OpenAt(i, c)' /\ Answered(i)'
  BY <1>1 DEF OpenAt, Answered
<1>4. (Pieces(req[c]) - acked[c])' = (Pieces(req[c]) - acked[c]) - 1
  <2>1. Pieces(req[c])' = Pieces(req[c]) /\ Pieces(req[c]) \in Nat /\ acked[c] \in Nat
    BY <1>1, AtType, PiecesType DEF Pieces, Base, IInv
  <2> QED
    BY <1>1, <2>1 DEF Base, IInv, TypeOK
<1>5. /\ PhaseOf(c) = "answering" /\ PhaseOf(c)' = "answering"
      /\ OwedOf(c) = Pieces(req[c]) - acked[c] /\ OwedOf(c)' = OwedOf(c) - 1
  BY <1>1, <1>3, <1>4, OpenPhase, OpenPhaseNext DEF Phases
<1>6. Service!Step(c, "answering", "answering", OwedOf(c) - 1)
  BY <1>2, <1>5, ServiceStep
<1> QED
  BY <1>1, <1>5, <1>6 DEF Service!Next, Service!Piece

LEMMA EndsService ==
  ASSUME SInv, SInv', GoodOffers, NEW c \in Conns,
         \/ \E i \in Slots : ConnectCb(i, c) \/ SentCbClose(i, c)
         \/ ConnectCbFull(c) \/ RemoteClose(c) \/ DisconCb(c) \/ RefusedGone(c)
  PROVE  [Service!Next]_(Service!svars)
<1> USE DEF SInv
<1>1. ASSUME NEW d \in Conns \ {c} PROVE PhaseKept(d)
  BY EndsLeaveAnswers, PhaseStays
<1>2. esp \in [Conns -> EspState]
  BY DEF Base, IInv, TypeOK
<1>3. ASSUME NEW i \in Slots, ConnectCb(i, c) PROVE Service!Next
  <2>1. /\ esp[c] = "free" /\ esp'[c] = "open" /\ conn'[i] = c /\ postLen'[i] = -1
    BY <1>2, <1>3 DEF ConnectCb, Connect, Base, IInv, TypeOK
  <2>2. OpenAt(i, c)' /\ ~Answered(i)'
    BY <2>1 DEF OpenAt, Answered
  <2>3. PhaseOf(c) = "none" /\ PhaseOf(c)' = "asking" /\ OwedOf(c)' = 0
    BY <2>1, <2>2, ClosedPhase, OpenPhaseNext DEF Phases
  <2> QED
    BY <1>1, <2>3, ServiceStep DEF Service!Next, Service!Accept
<1>4. ASSUME NEW i \in Slots, SentCbClose(i, c) PROVE Service!Next
  <2>1. OpenAt(i, c) /\ inflight[c] /\ cgi[i] = "none" /\ esp'[c] = "closing" /\ IsSlotOf(i, c)
    BY <1>2, <1>4 DEF SentCbClose, Sent, OpenAt, IsSlotOf, Holds
  <2>2. Answered(i)
    BY <2>1 DEF OpenAt, Base, IInv, QuietUntilAnswered
  <2>3. Pieces(req[c]) - acked[c] = 1
    <3>1. AnswerAt(i, c) /\ req[c].cgi # "none" /\ Pieces(req[c]) \in Nat
      BY <2>1, AtType, PiecesType DEF AnswersGoOn, Base, IInv, RequestType
    <3>2. calls[i] = Pieces(req[c]) /\ acked[c] = calls[i] - 1
      BY <2>1, <2>2, <3>1 DEF AnswerAt
    <3> QED
      BY <3>1, <3>2
  <2>4. /\ PhaseOf(c) = "answering" /\ OwedOf(c) = 1
        /\ PhaseOf(c)' = "ending" /\ OwedOf(c)' = 0
    BY <2>1, <2>2, <2>3, ClosedPhase, OpenPhase DEF Phases
  <2> QED
    BY <1>1, <2>4, ServiceStep DEF Service!Next, Service!Finish
<1>5. CASE RemoteClose(c)
  <2>1. esp[c] = "open" /\ esp'[c] = "closing"
    BY <1>2, <1>5 DEF RemoteClose
  <2>2. PhaseOf(c) \in {"asking", "answering"}
    BY <2>1 DEF PhaseOf
  <2>3. PhaseOf(c)' = "ending" /\ OwedOf(c)' = 0
    BY <2>1, ClosedPhase
  <2> QED
    BY <1>1, <2>2, <2>3, ServiceStep DEF Service!Next, Service!Abort
<1>6. CASE DisconCb(c)
  <2>1. esp[c] = "closing" /\ esp'[c] = "free"
    BY <1>2, <1>6 DEF DisconCb, Freed
  <2>2. PhaseOf(c) = "ending" /\ PhaseOf(c)' = "none" /\ OwedOf(c)' = 0
    BY <2>1, ClosedPhase
  <2> QED
    BY <1>1, <2>2, ServiceStep DEF Service!Next, Service!Gone
<1>7. CASE ConnectCbFull(c) \/ RefusedGone(c)
  <2>1. esp[c] \in {"free", "refused"} /\ esp'[c] \in {"free", "refused"}
    BY <1>2, <1>7 DEF ConnectCbFull, Connect, RefusedGone, Freed
  <2>2. PhaseKept(c)
    BY <2>1, ClosedPhase DEF PhaseKept
  <2> QED
    BY <1>1, <2>2, ServiceStutters
<1> QED
  BY <1>3, <1>4, <1>5, <1>6, <1>7

LEMMA StepService ==
  ASSUME ~CanReset, GoodOffers, SInv, SInv', [Next]_vars
  PROVE  [Service!Next]_(Service!svars)
<1>1. CASE UNCHANGED vars \/ ProgrammerTick
  <2>1. UNCHANGED <<slotVars, espVars>>
    BY <1>1 DEF vars, ProgrammerTick
  <2>2. \A d \in Conns : PhaseKept(d)
    BY <2>1, PhaseStays DEF slotVars, espVars, OpenAt, Answered, SInv
  <2> QED
    BY <2>2, ServiceStutters
<1>2. ASSUME NEW c \in Conns, NEW i \in Slots, NEW n \in 1 .. MaxChunk, Recv(i, c, n)
      PROVE  [Service!Next]_(Service!svars)
  BY <1>2, RecvService
<1>3. ASSUME NEW c \in Conns, NEW i \in Slots, SentCbCall(i, c)
      PROVE  [Service!Next]_(Service!svars)
  BY <1>3, SentService
<1>4. ASSUME NEW c \in Conns,
             \/ \E i \in Slots : ConnectCb(i, c) \/ SentCbClose(i, c)
             \/ ConnectCbFull(c) \/ RemoteClose(c) \/ DisconCb(c) \/ RefusedGone(c)
      PROVE  [Service!Next]_(Service!svars)
  BY <1>4, EndsService
<1> QED
  BY <1>1, <1>2, <1>3, <1>4 DEF Next, SlotNext, ReconCb, Recv

\* Slots, handlers, send buffer and callbacks implement the service a client
\* sees: no piece of an answer is skipped or repeated, and the server closes a
\* connection when the last piece has arrived and not before.
THEOREM ServiceImplemented ==
  ASSUME ~CanReset, GoodOffers
  PROVE  Spec => Service!Safety
<1>1. Init => Service!Init
  BY DEF Init, Service!Init, PhaseOf, OwedOf
<1>2. SInv /\ SInv' /\ [Next]_vars => [Service!Next]_(Service!svars)
  BY StepService
<1> QED
  BY <1>1, <1>2, AnswersInductive, PTL DEF Spec, Service!Safety
=============================================================================
