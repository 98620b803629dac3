------------------------------ MODULE MCHttpd ------------------------------
(***************************************************************************)
(* Instances of Httpd for TLC: what the clients may send.                  *)
(***************************************************************************)
EXTENDS Httpd

CONSTANTS c1, c2, c3

Req(g, found, full, tail, head, len) ==
  [cgi |-> g, found |-> found, full |-> full, tail |-> tail, head |-> head,
   len |-> len]
Get(g)  == Req(g, TRUE, 0, TRUE, 2, -1)
File(g, full, tail) == Req(g, TRUE, full, tail, 2, -1)

\* Requests the handlers answer to the end.
GoodGets ==
  {Get("cgiRedirect"), Get("cgiReadFlash"), File("cgiEspFsHook", 1, TRUE),
   File("cgiEspFsTemplate", 0, TRUE), Req("cgiEspFsHook", FALSE, 0, FALSE, 2, -1)}

\* Requests that end without an answer, or are never answered in full: an
\* exact multiple of 1024 bytes, a head that does not fit, a handler that
\* returns an error, one that sends nothing.
BadGets ==
  {File("cgiEspFsHook", 1, FALSE), Req("cgiRedirect", TRUE, 0, FALSE, 4, -1),
   Get("cgiProgram"), Get("cgiCmuCam4color")}

Led(len)  == Req("cgiLed", TRUE, 0, FALSE, 2, len)
Prog(found, len) == Req("cgiProgram", found, 0, FALSE, 2, len)

\* More clients than slots; one of them posts, another reads the store.
OffersCrowd ==
  [c \in {c1, c2, c3} |->
     IF c = c1 THEN {Req("cgiEspFsTemplate", TRUE, 0, TRUE, 1, -1)}
     ELSE IF c = c2 THEN {Req("cgiProgram", len = 3, 0, FALSE, 1, len) : len \in {1, 3}}
     ELSE {Req("cgiLed", TRUE, 0, FALSE, 1, -1)}]

\* The requests that go wrong, next to posts that fit the store or do not.
OffersAll ==
  [c \in {c1, c2} |->
     IF c = c1 THEN BadGets \cup {File("cgiEspFsTemplate", 0, TRUE)}
     ELSE {Led(1), Led(9), Req("cgiWiFiConnect", TRUE, 0, FALSE, 2, 1)}]

\* Two clients post.
OffersTwoPosters == [c \in {c1, c2} |-> {Prog(TRUE, 2)}]

\* Only requests that are answered to the end.
OffersGood ==
  [c \in {c1, c2} |->
     IF c = c1 THEN GoodGets ELSE {File("cgiEspFsHook", 1, TRUE), Prog(TRUE, 2)}]

\* A file whose size is a multiple of 1024.
OffersExactFile ==
  [c \in {c1, c2} |-> {File("cgiEspFsHook", 1, FALSE), Get("cgiRedirect")}]
=============================================================================
