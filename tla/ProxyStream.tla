----------------------------- MODULE ProxyStream -----------------------------
(***************************************************************************)
(* The bytes of a proxied exchange: from the backend through its socket,   *)
(* upstream_rbuf and the client's socket to the client, and the copy that  *)
(* goes to the cache.  Every system call of proxy_on_upstream_event and of *)
(* handle_write is a step, so that the peers and the edge-triggered epoll  *)
(* can act between any two of them.                                        *)
(*                                                                         *)
(* Buffers and sockets keep bytes in order, so positions in the response   *)
(* stand for the bytes: read - written is what upstream_rbuf holds.        *)
(***************************************************************************)
EXTENDS Integers, Sequences

CONSTANTS
  N,           \* length of a response
  Req,         \* length of a request in upstream_wbuf
  Cap,         \* capacity of upstream_rbuf
  UWin, CWin,  \* what the upstream and the client socket can hold
  Exchanges,   \* bound: exchanges that use the conn_t one after the other
  Faults       \* what the peers may do besides answering and reading

ASSUME StreamAssumption ==
  /\ {N, Req, Cap, UWin, CWin, Exchanges} \subseteq Nat \ {0}
  /\ Faults \subseteq {"early", "short", "reset", "leave"}

VARIABLES
  pc,          \* the next system call; "epoll" between two events
  ev,          \* the events of the call in progress
  open,        \* the conn_t is in use
  x,           \* number of the exchange
  wbuf,        \* bytes of the request still in upstream_wbuf
  sent, read, written, got,   \* bytes of the response, from hand to hand
  fin, rst,  \* the backend has closed, or reset, its connection
  room,        \* the upstream socket takes bytes
  gone,        \* the client has left
  uint, ulisted, cint, clisted,  \* epoll: interest; waiting to be reported
  cache_buf,   \* exchange and position of every byte copied
  stored,      \* what cache_insert was given in this exchange
  error,       \* bytes the client had been sent before a 502, or -1
  smooth       \* history: the client's socket has never been full, and no
               \* earlier exchange was cut off

vars == <<pc, ev, open, x, wbuf, sent, read, written, got, fin, rst, room,
          gone, uint, ulisted, cint, clisted, cache_buf, stored, error, smooth>>

R  == {"READ"}
RW == {"READ", "WRITE"}

LeastOf(a, b) == IF a <= b THEN a ELSE b

rbuf == read - written
Writable == written - got < CWin

UReady == (IF sent > read \/ fin \/ rst THEN R ELSE {})
          \cup (IF room \/ rst THEN {"WRITE"} ELSE {})

\* proxy_handle has registered the upstream socket.  An idle socket takes
\* bytes at once, a new one when it is connected.
Init ==
  /\ pc = "epoll" /\ ev = {} /\ open = TRUE /\ x = 1 /\ wbuf = Req
  /\ sent = 0 /\ read = 0 /\ written = 0 /\ got = 0
  /\ fin = FALSE /\ rst = FALSE /\ room \in BOOLEAN /\ gone = FALSE
  /\ uint = RW /\ ulisted = room /\ cint = R /\ clisted = FALSE
  /\ cache_buf = <<>> /\ stored = <<>> /\ error = -1 /\ smooth = TRUE

\* The conn_t is taken from the pool for another exchange: conn_reset does
\* not touch the cache fields.
NextExchange ==
  /\ ~open /\ (gone \/ got = written) /\ x < Exchanges
  /\ pc' = "epoll" /\ ev' = {} /\ open' = TRUE /\ x' = x + 1 /\ wbuf' = Req
  /\ sent' = 0 /\ read' = 0 /\ written' = 0 /\ got' = 0
  /\ fin' = FALSE /\ rst' = FALSE /\ room' \in BOOLEAN /\ gone' = FALSE
  /\ uint' = RW /\ ulisted' = room' /\ cint' = R /\ clisted' = FALSE
  /\ cache_buf' = cache_buf /\ stored' = <<>> /\ error' = -1
  /\ smooth' = (smooth /\ ~rst /\ ~gone)

-----------------------------------------------------------------------------
(* proxy_conn.c: upstream events *)

proxy_on_upstream_event ==
  /\ pc = "epoll" /\ open /\ ulisted /\ ulisted' = FALSE
  /\ ev' = uint \cap UReady
  /\ pc' = CASE "WRITE" \in ev' -> "upstream_write"
             [] ev' = R         -> "upstream_read"
             [] OTHER           -> "epoll"
  /\ UNCHANGED <<open, x, wbuf, sent, read, written, got, fin, rst, room,
                 gone, uint, cint, clisted, cache_buf, stored, error, smooth>>

\* Mutant: buf_consume is missing, so that the request is sent again and again.
WriteUnconsumed ==
  /\ pc = "upstream_write" /\ ~(rst /\ wbuf > 0)
  /\ wbuf' = wbuf /\ room' = (room /\ wbuf = 0)
  /\ uint' = IF wbuf' = 0 THEN R ELSE uint
  /\ ulisted' = (ulisted \/ (wbuf' = 0 /\ "READ" \in UReady))
  /\ pc' = IF "READ" \in ev THEN "upstream_read" ELSE "epoll"
  /\ UNCHANGED <<ev, open, x, sent, read, written, got, fin, rst, gone, cint,
                 clisted, cache_buf, stored, error, smooth>>

\* Lines 64, 71-74: one write; when nothing is left the interest is reduced,
\* which makes epoll look at the socket again.
UpstreamWrite ==
  /\ pc = "upstream_write" /\ ~(rst /\ wbuf > 0)
  /\ \/ wbuf = 0 /\ UNCHANGED <<wbuf, room>>
     \/ /\ wbuf > 0 /\ wbuf' \in 0..(wbuf - 1)
        /\ room' = (wbuf' = 0)
  /\ uint' = IF wbuf' = 0 THEN R ELSE uint
  /\ ulisted' = (ulisted \/ (wbuf' = 0 /\ "READ" \in UReady))
  /\ pc' = IF "READ" \in ev THEN "upstream_read" ELSE "epoll"
  /\ UNCHANGED <<ev, open, x, sent, read, written, got, fin, rst, gone, cint,
                 clisted, cache_buf, stored, error, smooth>>

\* Lines 65-70: 502, one write of it to the client, worker_conn_close.
UpstreamWriteError ==
  /\ pc = "upstream_write" /\ rst /\ wbuf > 0
  /\ error' = IF Writable /\ ~gone THEN written ELSE error
  /\ open' = FALSE /\ pc' = "epoll"
  /\ UNCHANGED <<ev, x, wbuf, sent, read, written, got, fin, rst, room, gone,
                 uint, ulisted, cint, clisted, cache_buf, stored, smooth>>

\* Lines 91-108: what goes to cache_buf after a read of n bytes.
Copied(n) == [k \in 1..(rbuf + n) |-> <<x, written + k>>]

\* Line 79 when bytes arrive: upstream_rbuf takes what fits.
UpstreamRead ==
  /\ pc = "upstream_read" /\ rbuf < Cap /\ sent > read
  /\ LET n == LeastOf(Cap - rbuf, sent - read)
     IN  read' = read + n /\ cache_buf' = cache_buf \o Copied(n)
  /\ pc' = "client_write"
  /\ UNCHANGED <<ev, open, x, wbuf, sent, written, got, fin, rst, room, gone,
                 uint, ulisted, cint, clisted, stored, error, smooth>>

\* Mutant: the interest is changed only after a read that found no data.
DoneNoMod ==
  /\ pc = "upstream_read" /\ (rbuf = Cap \/ (sent = read /\ ~fin /\ ~rst))
  /\ pc' = "epoll"
  /\ IF rbuf > 0 /\ rbuf < Cap
     THEN cint' = RW /\ clisted' = (clisted \/ Writable \/ gone)
     ELSE UNCHANGED <<cint, clisted>>
  /\ UNCHANGED <<ev, open, x, wbuf, sent, read, written, got, fin, rst, room,
                 gone, uint, ulisted, cache_buf, stored, error, smooth>>

\* Line 79 when upstream_rbuf is full or nothing has arrived, then 116-118.
UpstreamReadDone ==
  /\ pc = "upstream_read" /\ (rbuf = Cap \/ (sent = read /\ ~fin /\ ~rst))
  /\ pc' = "epoll"
  /\ IF rbuf > 0 THEN cint' = RW /\ clisted' = (clisted \/ Writable \/ gone)
     ELSE UNCHANGED <<cint, clisted>>
  /\ UNCHANGED <<ev, open, x, wbuf, sent, read, written, got, fin, rst, room,
                 gone, uint, ulisted, cache_buf, stored, error, smooth>>

\* Mutant: a hang-up ends the exchange before the data is read.
ClosedOnHangup ==
  /\ pc = "upstream_read" /\ ~rst /\ rbuf < Cap /\ fin
  /\ stored' = cache_buf /\ cache_buf' = <<>>
  /\ open' = FALSE /\ pc' = "epoll"
  /\ UNCHANGED <<ev, x, wbuf, sent, read, written, got, fin, rst, room, gone,
                 uint, ulisted, cint, clisted, error, smooth>>

\* Mutant: the copy is not dropped once it is stored.
ClosedKeepsCopy ==
  /\ pc = "upstream_read" /\ ~rst /\ rbuf < Cap /\ sent = read /\ fin
  /\ stored' = cache_buf /\ cache_buf' = cache_buf
  /\ open' = FALSE /\ pc' = "epoll"
  /\ UNCHANGED <<ev, x, wbuf, sent, read, written, got, fin, rst, room, gone,
                 uint, ulisted, cint, clisted, error, smooth>>

\* Line 79 at the end of the stream, then 122-149: what was copied goes to
\* the cache, the socket to the idle pool, and the connection is closed.
UpstreamClosed ==
  /\ pc = "upstream_read" /\ ~rst /\ rbuf < Cap /\ sent = read /\ fin
  /\ stored' = cache_buf /\ cache_buf' = <<>>
  /\ open' = FALSE /\ pc' = "epoll"
  /\ UNCHANGED <<ev, x, wbuf, sent, read, written, got, fin, rst, room, gone,
                 uint, ulisted, cint, clisted, error, smooth>>

\* Line 79 when the read fails, then 152-153.
UpstreamReadError ==
  /\ pc = "upstream_read" /\ rst /\ rbuf < Cap /\ sent = read
  /\ open' = FALSE /\ pc' = "epoll"
  /\ UNCHANGED <<ev, x, wbuf, sent, read, written, got, fin, rst, room, gone,
                 uint, ulisted, cint, clisted, cache_buf, stored, error, smooth>>

\* Mutant: the upstream socket is read once per event.
ClientWriteReturns ==
  /\ pc = "client_write"
  /\ IF rbuf > 0 /\ Writable /\ ~gone
     THEN /\ written' = written + LeastOf(rbuf, CWin - (written - got))
          /\ UNCHANGED <<pc, cint, clisted, smooth>>
     ELSE /\ pc' = "epoll" /\ written' = written
          /\ cint' = (IF rbuf > 0 THEN RW ELSE cint)
          /\ clisted' = (clisted \/ (rbuf > 0 /\ (Writable \/ gone)))
          /\ smooth' = (smooth /\ rbuf = 0)
  /\ UNCHANGED <<ev, open, x, wbuf, sent, read, got, fin, rst, room, gone,
                 uint, ulisted, cache_buf, stored, error>>

\* Lines 110-112: write until nothing is left, EAGAIN or an error.
ClientWrite ==
  /\ pc = "client_write"
  /\ IF rbuf > 0 /\ Writable /\ ~gone
     THEN /\ written' = written + LeastOf(rbuf, CWin - (written - got))
          /\ UNCHANGED <<pc, smooth>>
     ELSE /\ pc' = "upstream_read" /\ written' = written
          /\ smooth' = (smooth /\ rbuf = 0)
  /\ UNCHANGED <<ev, open, x, wbuf, sent, read, got, fin, rst, room, gone,
                 uint, ulisted, cint, clisted, cache_buf, stored, error>>

-----------------------------------------------------------------------------
(* worker.c: client events while the connection is proxied *)

\* A hang-up closes the connection; EV_WRITE enters handle_write.
on_client_event ==
  /\ pc = "epoll" /\ open /\ clisted /\ clisted' = FALSE
  /\ open' = ~gone
  /\ pc' = IF ~gone /\ "WRITE" \in cint /\ Writable THEN "handle_write" ELSE "epoll"
  /\ UNCHANGED <<ev, x, wbuf, sent, read, written, got, fin, rst, room, gone,
                 uint, ulisted, cint, cache_buf, stored, error, smooth>>

\* Mutant: wbuf is written instead of upstream_rbuf.
WriteWrongBuffer ==
  /\ pc = "handle_write" /\ pc' = "epoll"
  /\ cint' = (IF rbuf = 0 THEN R ELSE RW)
  /\ clisted' = (clisted \/ gone \/ (rbuf > 0 /\ Writable))
  /\ smooth' = (smooth /\ rbuf = 0)
  /\ UNCHANGED <<ev, open, x, wbuf, sent, read, written, got, fin, rst, room,
                 gone, uint, ulisted, cache_buf, stored, error>>

\* Lines 98-110.
handle_write ==
  /\ pc = "handle_write"
  /\ IF rbuf > 0 /\ Writable /\ ~gone
     THEN /\ written' = written + LeastOf(rbuf, CWin - (written - got))
          /\ UNCHANGED <<pc, cint, clisted, smooth>>
     ELSE /\ pc' = "epoll" /\ cint' = (IF rbuf = 0 THEN R ELSE RW)
          /\ clisted' = (clisted \/ gone \/ (rbuf > 0 /\ Writable))
          /\ written' = written /\ smooth' = (smooth /\ rbuf = 0)
  /\ UNCHANGED <<ev, open, x, wbuf, sent, read, got, fin, rst, room, gone,
                 uint, ulisted, cache_buf, stored, error>>

-----------------------------------------------------------------------------
(* The peers and the kernel *)

\* The backend answers once it has the request, or some of it.
BackendSends ==
  /\ open /\ ~fin /\ ~rst /\ sent < N /\ sent - read < UWin
  /\ IF "early" \in Faults THEN wbuf < Req ELSE wbuf = 0
  /\ sent' = sent + 1 /\ ulisted' = TRUE
  /\ UNCHANGED <<pc, ev, open, x, wbuf, read, written, got, fin, rst, room,
                 gone, uint, cint, clisted, cache_buf, stored, error, smooth>>

BackendCloses ==
  /\ open /\ ~fin /\ ~rst /\ wbuf < Req /\ (sent = N \/ "short" \in Faults)
  /\ fin' = TRUE /\ ulisted' = TRUE
  /\ UNCHANGED <<pc, ev, open, x, wbuf, sent, read, written, got, rst, room,
                 gone, uint, cint, clisted, cache_buf, stored, error, smooth>>

\* The connect fails, or the connection is reset.
BackendResets ==
  /\ "reset" \in Faults /\ open /\ ~rst
  /\ rst' = TRUE /\ ulisted' = TRUE
  /\ UNCHANGED <<pc, ev, open, x, wbuf, sent, read, written, got, fin, room,
                 gone, uint, cint, clisted, cache_buf, stored, error, smooth>>

\* The connection is established, or the backend has read.
BackendReads ==
  /\ open /\ ~room /\ room' = TRUE
  /\ ulisted' = (ulisted \/ "WRITE" \in uint)
  /\ UNCHANGED <<pc, ev, open, x, wbuf, sent, read, written, got, fin, rst,
                 gone, uint, cint, clisted, cache_buf, stored, error, smooth>>

\* The client is woken only by the room it makes in a full socket.
ClientReads ==
  /\ ~gone /\ got < written /\ got' = got + 1
  /\ clisted' = (clisted \/ (~Writable /\ "WRITE" \in cint))
  /\ UNCHANGED <<pc, ev, open, x, wbuf, sent, read, written, fin, rst, room,
                 gone, uint, ulisted, cint, cache_buf, stored, error, smooth>>

ClientLeaves ==
  /\ "leave" \in Faults /\ open /\ ~gone /\ gone' = TRUE /\ clisted' = TRUE
  /\ UNCHANGED <<pc, ev, open, x, wbuf, sent, read, written, got, fin, rst,
                 room, uint, ulisted, cint, cache_buf, stored, error, smooth>>

UpstreamHandler ==
  \/ UpstreamWrite \/ UpstreamWriteError \/ UpstreamRead \/ UpstreamReadDone
  \/ UpstreamClosed \/ UpstreamReadError \/ ClientWrite

Next ==
  \/ proxy_on_upstream_event \/ on_client_event \/ UpstreamHandler
  \/ handle_write \/ NextExchange
  \/ BackendSends \/ BackendCloses \/ BackendResets \/ BackendReads
  \/ ClientReads \/ ClientLeaves

Spec == Init /\ [][Next]_vars

\* epoll reports what is listed and the worker runs on; the backend answers
\* and closes; the client reads.
FairSpec ==
  /\ Spec
  /\ WF_vars(proxy_on_upstream_event) /\ WF_vars(on_client_event)
  /\ WF_vars(UpstreamHandler) /\ WF_vars(handle_write)
  /\ WF_vars(BackendSends) /\ WF_vars(BackendCloses) /\ WF_vars(BackendReads)
  /\ WF_vars(ClientReads)

-----------------------------------------------------------------------------
TypeOK ==
  /\ pc \in {"epoll", "upstream_write", "upstream_read", "client_write",
             "handle_write"}
  /\ {open, fin, rst, room, gone, ulisted, clisted} \subseteq BOOLEAN
  /\ {ev, uint, cint} \subseteq SUBSET RW
  /\ x \in 1..Exchanges /\ wbuf \in 0..Req /\ error \in -1..N
  /\ 0 <= got /\ got <= written /\ written <= read /\ read <= sent /\ sent <= N
  /\ read - written <= Cap /\ written - got <= CWin
  /\ cache_buf \in Seq((1..Exchanges) \X (1..N))
  /\ stored \in Seq((1..Exchanges) \X (1..N))

\* No wake-up is lost towards the client: while upstream_rbuf holds bytes,
\* EV_WRITE is registered and either the event is due or the socket is full.
ClientWoken ==
  pc = "epoll" /\ open /\ rbuf > 0
    => "WRITE" \in cint /\ (clisted \/ ~Writable)

\* No wake-up is lost towards the backend: the rest of the request is sent as
\* soon as the socket takes it.
RequestWoken ==
  pc = "epoll" /\ open /\ wbuf > 0 => "WRITE" \in uint /\ (ulisted \/ ~room)

\* Edge-triggered epoll loses no wake-up: whenever the worker waits, the bytes
\* for the client and the bytes for the backend are either due to be written
\* or their socket is full and watched, whatever the peers do.
NoLostWakeup == ClientWoken /\ RequestWoken

\* architecture.md:94: "This requires draining the socket fully on each
\* event": when the worker waits, the upstream socket has nothing to read that
\* epoll will not report.
Drained ==
  pc = "epoll" /\ open /\ ~ulisted => sent = read /\ ~fin /\ ~rst

\* The same as long as the client takes what it is sent: proxy_on_upstream_event
\* reads until EAGAIN, also when bytes arrive during its writes.
DrainedWhileSmooth == smooth => Drained

\* architecture.md:188, "stream response back": a connection that ends because
\* the backend has closed has passed on every byte of the backend.
NotTruncated ==
  ~open /\ fin /\ ~rst /\ ~gone => written = sent

\* A response is cut short only if the client's socket was full at some moment:
\* a hang-up of the backend never overtakes the bytes sent before it.
WholeWhileSmooth == smooth => NotTruncated

\* README.md:71, "HTTP response cache": cache_insert is given the bytes of the
\* response, each once and in order.
CacheExact ==
  stored # <<>> => stored = [k \in 1..sent |-> <<x, k>>]

\* The copy is exact, also for the second exchange of a conn_t, unless the
\* client's socket was full or an earlier exchange was cut off.
CacheExactWhileSmooth == smooth => CacheExact

\* proxy.md:113: 502 tells the client that no backend could be reached; it is
\* not sent in the middle of a response.
OneResponse == error \in {-1, 0}

\* The client gets the whole response and the connection is closed, if both
\* peers behave and the client's socket never fills up.
Disturbed == ~smooth \/ rst \/ gone \/ (fin /\ sent < N)

ResponseDelivered ==
  \A n \in 1..Exchanges : x = n ~> (x = n /\ ~open /\ got = N) \/ Disturbed

\* Whatever was read for a client that stays and reads reaches it.
BufferEmpties == rbuf > 0 ~> (rbuf = 0 \/ ~open)
=============================================================================
