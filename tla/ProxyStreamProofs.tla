-------------------------- MODULE ProxyStreamProofs --------------------------
(***************************************************************************)
(* Edge-triggered epoll loses no wake-up towards the client and none for   *)
(* the request, for every size of response, buffer and socket and whatever *)
(* the peers do.  Between two events the statements hold as they stand; a  *)
(* handler may break them and has to restore them before it returns, so    *)
(* the invariant says in which of its steps each of them holds.            *)
(***************************************************************************)
EXTENDS ProxyStream, SequenceTheorems, TLAPS

Numbers ==
  /\ wbuf \in Int /\ sent \in Int /\ read \in Int /\ written \in Int /\ got \in Int
  /\ written <= read

Flags ==
  /\ ulisted \in BOOLEAN /\ clisted \in BOOLEAN /\ room \in BOOLEAN
  /\ gone \in BOOLEAN /\ rst \in BOOLEAN /\ open \in BOOLEAN

Positions == Numbers /\ Flags

ClientDue == "WRITE" \in cint /\ (clisted \/ ~Writable)

Inv ==
  /\ Positions
  /\ pc \in {"epoll", "upstream_write"} /\ open /\ rbuf > 0 => ClientDue
  /\ open /\ wbuf > 0 => /\ "WRITE" \in uint
                         /\ pc # "upstream_write" => ulisted \/ ~room

\* The sizes are integers.
LEMMA Sizes == Req \in Int /\ Cap \in Int /\ CWin \in Int /\ Cap > 0 /\ CWin > 0
BY StreamAssumption

\* The number of bytes a step moves.
LEMMA LeastOfNat ==
  ASSUME NEW a \in Int, NEW b \in Int
  PROVE  LeastOf(a, b) \in Int /\ LeastOf(a, b) <= a /\ LeastOf(a, b) <= b
BY DEF LeastOf

\* Nothing is buffered for the client yet.
LEMMA InitInv == Init => Inv
<1>. SUFFICES ASSUME Init PROVE Inv
  OBVIOUS
<1>1. /\ open = TRUE /\ read = 0 /\ written = 0 /\ uint = RW
      /\ ulisted = room /\ room \in BOOLEAN
  BY DEF Init
<1>2. Positions
  <2>1. Numbers
    BY Sizes DEF Init, Numbers
  <2>2. Flags
    BY DEF Init, Flags
  <2>. QED
    BY <2>1, <2>2 DEF Positions
<1>3. rbuf = 0 /\ "WRITE" \in uint
  BY <1>1 DEF rbuf, RW
<1>4. ulisted \/ ~room
  BY <1>1
<1>. QED
  BY <1>2, <1>3, <1>4 DEF Inv

\* Steps of the upstream handler.
LEMMA UpstreamInv ==
  Inv /\ (proxy_on_upstream_event \/ UpstreamHandler) => Inv'
<1>. SUFFICES ASSUME Inv, proxy_on_upstream_event \/ UpstreamHandler PROVE Inv'
  OBVIOUS
<1>. USE Sizes DEF Inv, Positions, Numbers, Flags, ClientDue, rbuf, Writable, R, RW
<1>1. CASE proxy_on_upstream_event
  <2>0. pc = "epoll" /\ ulisted' = FALSE /\ ev' = uint \cap UReady
        /\ UNCHANGED <<open, wbuf, sent, read, written, got, rst, room, gone,
                       uint, cint, clisted>>
    BY <1>1 DEF proxy_on_upstream_event
  <2>1. Positions'
    BY <2>0
  <2>2. (pc \in {"epoll", "upstream_write"} /\ open /\ rbuf > 0 => ClientDue)'
    BY <2>0
  <2>3. "WRITE" \in ev' => pc' = "upstream_write"
    BY <1>1 DEF proxy_on_upstream_event
  <2>4. "WRITE" \in uint /\ room => "WRITE" \in ev'
    BY <2>0 DEF UReady
  <2>. QED
    BY <2>0, <2>1, <2>2, <2>3, <2>4
<1>2. CASE UpstreamWrite
  <2>0. /\ \/ wbuf = 0 /\ wbuf' = wbuf /\ room' = room
           \/ wbuf > 0 /\ wbuf' \in 0..(wbuf - 1) /\ room' = (wbuf' = 0)
        /\ uint' = IF wbuf' = 0 THEN R ELSE uint
        /\ ulisted' = (ulisted \/ (wbuf' = 0 /\ "READ" \in UReady))
        /\ pc = "upstream_write" /\ pc' \in {"upstream_read", "epoll"}
        /\ UNCHANGED <<open, sent, read, written, got, rst, gone, cint, clisted>>
    BY <1>2 DEF UpstreamWrite
  <2>a. wbuf' \in Int
    BY <2>0
  <2>b. room' \in BOOLEAN
    BY <2>0
  <2>c. ulisted' \in BOOLEAN
    BY <2>0
  <2>2. Positions'
    BY <2>0, <2>a, <2>b, <2>c
  <2>d. wbuf' > 0 => wbuf > 0 /\ wbuf' # 0
    BY <2>0, <2>a
  <2>e. wbuf' # 0 => uint' = uint /\ (wbuf > 0 => ~room')
    BY <2>0, <2>a, Zenon
  <2>3. open' /\ wbuf' > 0 => "WRITE" \in uint' /\ ~room'
    BY <2>0, <2>d, <2>e
  <2>4. (pc \in {"epoll", "upstream_write"} /\ open /\ rbuf > 0 => ClientDue)'
    BY <1>2 DEF UpstreamWrite
  <2>. QED
    BY <2>2, <2>3, <2>4
<1>3. CASE UpstreamWriteError
  BY <1>3 DEF UpstreamWriteError
<1>4. CASE UpstreamRead
  <2>1. LeastOf(Cap - (read - written), sent - read) >= 0
        /\ LeastOf(Cap - (read - written), sent - read) \in Int
    BY <1>4 DEF UpstreamRead, LeastOf
  <2>. QED
    BY <1>4, <2>1 DEF UpstreamRead
<1>5. CASE UpstreamReadDone
  BY <1>5 DEF UpstreamReadDone
<1>6. CASE UpstreamClosed \/ UpstreamReadError
  BY <1>6 DEF UpstreamClosed, UpstreamReadError
<1>7. CASE ClientWrite
  <2>1. LeastOf(read - written, CWin - (written - got)) \in Int
        /\ LeastOf(read - written, CWin - (written - got)) <= read - written
    BY LeastOfNat
  <2>. QED
    BY <1>7, <2>1 DEF ClientWrite
<1>. QED
  BY <1>1, <1>2, <1>3, <1>4, <1>5, <1>6, <1>7 DEF UpstreamHandler

\* Steps of the client's handler, of the pool and of the peers.
LEMMA OtherInv ==
  Inv /\ (on_client_event \/ handle_write \/ NextExchange \/ BackendSends
          \/ BackendCloses \/ BackendResets \/ BackendReads \/ ClientReads
          \/ ClientLeaves) => Inv'
<1>. USE Sizes DEF Inv, Positions, Numbers, Flags, ClientDue, rbuf, Writable, R, RW
<1>1. ASSUME Inv, on_client_event PROVE Inv'
  BY <1>1 DEF on_client_event
<1>2. ASSUME Inv, handle_write PROVE Inv'
  <2>1. LeastOf(read - written, CWin - (written - got)) \in Int
        /\ LeastOf(read - written, CWin - (written - got)) <= read - written
    BY <1>2, LeastOfNat
  <2>. QED
    BY <1>2, <2>1 DEF handle_write
<1>3. ASSUME Inv, NextExchange PROVE Inv'
  <2>1. Numbers'
    BY <1>3 DEF NextExchange
  <2>2. Flags'
    BY <1>3, Zenon DEF NextExchange
  <2>3. rbuf' = 0 /\ "WRITE" \in uint' /\ (ulisted' \/ ~room')
    BY <1>3 DEF NextExchange
  <2>4. ~(rbuf' > 0)
    BY <2>3
  <2>. QED
    BY <2>1, <2>2, <2>3, <2>4, Zenon
<1>4. ASSUME Inv, BackendSends \/ BackendCloses \/ BackendResets PROVE Inv'
  <2>1. Flags' /\ ulisted'
    BY <1>4, Zenon DEF BackendSends, BackendCloses, BackendResets
  <2>. QED
    BY <1>4, <2>1 DEF BackendSends, BackendCloses, BackendResets
<1>5. ASSUME Inv, BackendReads PROVE Inv'
  BY <1>5 DEF BackendReads
<1>6. ASSUME Inv, ClientReads PROVE Inv'
  BY <1>6 DEF ClientReads
<1>7. ASSUME Inv, ClientLeaves PROVE Inv'
  BY <1>7 DEF ClientLeaves
<1>. QED
  BY <1>1, <1>2, <1>3, <1>4, <1>5, <1>6, <1>7

\* proxy_on_upstream_event and handle_write always leave epoll in charge of
\* what is still to be written, to the client and to the backend.
THEOREM WakeupsKept == Spec => []NoLostWakeup
<1>1. Inv => NoLostWakeup
  BY DEF Inv, NoLostWakeup, ClientWoken, RequestWoken, ClientDue
<1>2. Inv /\ UNCHANGED vars => Inv'
  BY DEF vars, Inv, Positions, Numbers, Flags, ClientDue, rbuf, Writable
<1>3. Inv /\ [Next]_vars => Inv'
  BY <1>2, UpstreamInv, OtherInv DEF Next
<1>. QED
  BY <1>1, <1>3, InitInv, PTL DEF Spec

-----------------------------------------------------------------------------
\* The upstream socket has nothing to report.
Quiet == sent = read /\ ~fin /\ ~rst

\* While the client takes what it is sent, upstream_rbuf is empty outside the
\* copying loop, and the upstream handler leaves only once the socket is quiet.
SmoothInv ==
  /\ fin \in BOOLEAN /\ smooth \in BOOLEAN /\ "READ" \in uint /\ read <= sent
  /\ pc # "epoll" => open
  /\ smooth /\ pc # "client_write" => rbuf = 0
  /\ smooth /\ open /\ ~ulisted =>
       /\ pc \in {"epoll", "handle_write"} => Quiet
       /\ pc = "upstream_write" /\ "READ" \notin ev => Quiet
  /\ smooth => NotTruncated

\* Nothing has been sent yet.
LEMMA InitSmooth == Init => SmoothInv
<1>. SUFFICES ASSUME Init PROVE SmoothInv
  OBVIOUS
<1>1. /\ sent = 0 /\ read = 0 /\ written = 0 /\ uint = RW /\ pc = "epoll"
  BY DEF Init
<1>2. ~fin /\ ~rst /\ open /\ fin \in BOOLEAN /\ smooth \in BOOLEAN
  BY Zenon DEF Init
<1>. QED
  BY <1>1, <1>2 DEF SmoothInv, rbuf, RW, Quiet, NotTruncated

\* Steps of the two handlers.
LEMMA HandlersSmooth ==
  ASSUME Numbers, Flags, Flags', SmoothInv,
         proxy_on_upstream_event \/ UpstreamHandler \/ on_client_event \/ handle_write
  PROVE  SmoothInv'
<1>. USE DEF Numbers, Flags, SmoothInv, rbuf, Quiet, NotTruncated
<1>1. CASE proxy_on_upstream_event
  <2>0. /\ pc = "epoll" /\ ev' = uint \cap UReady
        /\ pc' \in {"upstream_write", "upstream_read", "epoll"}
        /\ pc' = "epoll" => ev' # R /\ "WRITE" \notin ev'
        /\ open /\ UNCHANGED <<open, sent, read, written, fin, rst, gone, uint, smooth>>
    BY <1>1 DEF proxy_on_upstream_event
  <2>1. ev' \subseteq RW
    BY <2>0 DEF UReady, R, RW
  <2>2. "READ" \notin ev' => "READ" \notin UReady
    BY <2>0
  <2>3. "READ" \notin ev' => ~(sent > read) /\ ~fin /\ ~rst
    BY <2>2 DEF UReady, R
  <2>4. pc' = "epoll" => "READ" \notin ev'
    BY <2>0, <2>1 DEF R, RW
  <2>5. "READ" \notin ev' => Quiet'
    BY <2>0, <2>3
  <2>. QED
    BY <2>0, <2>4, <2>5
<1>2. CASE UpstreamWrite
  <2>0. /\ pc = "upstream_write" /\ uint' \in {R, uint}
        /\ pc' = IF "READ" \in ev THEN "upstream_read" ELSE "epoll"
        /\ UNCHANGED <<open, sent, read, written, fin, rst, gone, smooth>>
    BY <1>2 DEF UpstreamWrite
  <2>1. ulisted => ulisted'
    BY <1>2 DEF UpstreamWrite
  <2>. QED
    BY <2>0, <2>1 DEF R
<1>3. CASE UpstreamWriteError
  BY <1>3 DEF UpstreamWriteError
<1>4. CASE UpstreamRead
  <2>0. /\ pc' = "client_write"
        /\ read' = read + LeastOf(Cap - rbuf, sent - read)
        /\ UNCHANGED <<open, sent, written, fin, rst, gone, uint, smooth>>
    BY <1>4 DEF UpstreamRead
  <2>1. open
    BY <1>4 DEF UpstreamRead
  <2>2. LeastOf(Cap - rbuf, sent - read) \in Int
        /\ LeastOf(Cap - rbuf, sent - read) <= sent - read
    BY Sizes, LeastOfNat
  <2>. QED
    BY <2>0, <2>1, <2>2
<1>5. CASE UpstreamReadDone
  <2>0. /\ pc' = "epoll" /\ pc = "upstream_read"
        /\ rbuf = Cap \/ (sent = read /\ ~fin /\ ~rst)
        /\ UNCHANGED <<open, sent, read, written, fin, rst, gone, uint, smooth>>
    BY <1>5 DEF UpstreamReadDone
  <2>. QED
    BY <2>0, Sizes
<1>6. CASE UpstreamClosed \/ UpstreamReadError
  <2>0. /\ pc = "upstream_read" /\ sent = read /\ ~open' /\ pc' = "epoll"
        /\ UNCHANGED <<sent, read, written, fin, rst, gone, uint, smooth>>
    BY <1>6 DEF UpstreamClosed, UpstreamReadError
  <2>. QED
    BY <2>0
<1>7. CASE ClientWrite
  <2>0. /\ pc = "client_write" /\ UNCHANGED <<open, sent, read, fin, rst, gone, uint>>
    BY <1>7 DEF ClientWrite
  <2>1. smooth' \in BOOLEAN /\ (smooth' => smooth) /\ pc' \in {"client_write", "upstream_read"}
    BY <1>7 DEF ClientWrite
  <2>2. smooth' /\ pc' = "upstream_read" => rbuf = 0 /\ written' = written
    BY <1>7 DEF ClientWrite
  <2>3. open
    BY <1>7 DEF ClientWrite
  <2>. QED
    BY <2>0, <2>1, <2>2, <2>3
<1>8. CASE on_client_event
  <2>0. /\ pc = "epoll" /\ pc' \in {"epoll", "handle_write"} /\ open /\ open' = ~gone
        /\ UNCHANGED <<sent, read, written, fin, rst, gone, uint, ulisted, smooth>>
    BY <1>8 DEF on_client_event
  <2>1. pc' = "handle_write" => open'
    BY <1>8 DEF on_client_event
  <2>. QED
    BY <2>0, <2>1
<1>9. CASE handle_write
  <2>0. /\ pc = "handle_write"
        /\ UNCHANGED <<open, sent, read, fin, rst, gone, uint, ulisted>>
    BY <1>9 DEF handle_write
  <2>1. smooth' \in BOOLEAN /\ (smooth' => smooth)
    BY <1>9 DEF handle_write
  <2>2. smooth => pc' = "epoll" /\ written' = written
    BY <1>9 DEF handle_write
  <2>. QED
    BY <2>0, <2>1, <2>2
<1>. QED
  BY <1>1, <1>2, <1>3, <1>4, <1>5, <1>6, <1>7, <1>8, <1>9 DEF UpstreamHandler

\* Steps of the pool and of the peers.
LEMMA PeersSmooth ==
  ASSUME Numbers, Flags, Flags', SmoothInv,
         NextExchange \/ BackendSends \/ BackendCloses \/ BackendResets \/ BackendReads
         \/ ClientReads \/ ClientLeaves
  PROVE  SmoothInv'
<1>. USE DEF Numbers, Flags, SmoothInv, rbuf, Quiet, NotTruncated
<1>1. CASE NextExchange
  <2>0. sent' = 0 /\ read' = 0 /\ written' = 0 /\ uint' = RW /\ pc' = "epoll"
    BY <1>1 DEF NextExchange
  <2>1. ~fin' /\ ~rst' /\ open' /\ fin' \in BOOLEAN /\ smooth' \in BOOLEAN
    BY <1>1, Zenon DEF NextExchange
  <2>. QED
    BY <2>0, <2>1 DEF RW
<1>2. CASE BackendSends \/ BackendCloses \/ BackendResets
  <2>0. sent' \in {sent, sent + 1} /\ UNCHANGED <<pc, read, written, uint, smooth>>
    BY <1>2 DEF BackendSends, BackendCloses, BackendResets
  <2>1. open /\ open' /\ ulisted' /\ fin' \in BOOLEAN
    BY <1>2, Zenon DEF BackendSends, BackendCloses, BackendResets
  <2>. QED
    BY <2>0, <2>1
<1>3. CASE BackendReads
  <2>0. ulisted => ulisted'
    BY <1>3 DEF BackendReads
  <2>1. UNCHANGED <<pc, ev, open, sent, read, written, fin, rst, gone, uint, smooth>>
    BY <1>3 DEF BackendReads
  <2>. QED
    BY <2>0, <2>1
<1>4. CASE ClientReads \/ ClientLeaves
  <2>0. /\ UNCHANGED <<pc, ev, open, sent, read, written, fin, rst, uint, ulisted, smooth>>
        /\ gone => gone'
    BY <1>4 DEF ClientReads, ClientLeaves
  <2>. QED
    BY <2>0
<1>. QED
  BY <1>1, <1>2, <1>3, <1>4

\* The two invariants together are inductive.
LEMMA NextSmooth == Inv /\ SmoothInv /\ [Next]_vars => Inv' /\ SmoothInv'
<1>. DEFINE J == Inv /\ SmoothInv
<1>1. J /\ UNCHANGED vars => J'
  BY DEF vars, Inv, Positions, Numbers, Flags, ClientDue, rbuf, Writable, SmoothInv,
         Quiet, NotTruncated
<1>2. ASSUME J, Next PROVE J'
  <2>1. Inv'
    BY <1>2, UpstreamInv, OtherInv DEF Next
  <2>2. Numbers /\ Flags /\ Flags'
    BY <1>2, <2>1 DEF Inv, Positions
  <2>. QED
    BY <1>2, <2>1, <2>2, HandlersSmooth, PeersSmooth DEF Next
<1>. QED
  BY <1>1, <1>2

\* For every size of response, buffer and socket: until the client's socket is
\* full for the first time, the worker never waits with unread bytes that epoll
\* will not report.
THEOREM SmoothDrains == Spec => []DrainedWhileSmooth
<1>1. Inv /\ SmoothInv => DrainedWhileSmooth
  BY DEF SmoothInv, DrainedWhileSmooth, Drained, Quiet
<1>. QED
  BY <1>1, InitInv, InitSmooth, NextSmooth, PTL DEF Spec

\* Until then, too, a response that ends has been passed on to its last byte.
THEOREM SmoothWhole == Spec => []WholeWhileSmooth
<1>1. Inv /\ SmoothInv => WholeWhileSmooth
  BY DEF SmoothInv, WholeWhileSmooth
<1>. QED
  BY <1>1, InitInv, InitSmooth, NextSmooth, PTL DEF Spec

-----------------------------------------------------------------------------
\* The first n bytes of the exchange.
Bytes(n) == [k \in 1..n |-> <<x, k>>]

\* While the client takes what it is sent, cache_buf holds what has been read
\* of this exchange, and nothing once the exchange has ended well.
CopyInv ==
  /\ 0 <= read
  /\ smooth /\ open => cache_buf = Bytes(read)
  /\ smooth /\ ~open /\ ~rst /\ ~gone => cache_buf = <<>>
  /\ open => stored = <<>>
  /\ smooth => CacheExact

\* Copies that follow one another make one copy.
LEMMA BytesConcat ==
  ASSUME NEW m \in Nat, NEW n \in Nat
  PROVE  Bytes(m) \o [k \in 1..n |-> <<x, m + k>>] = Bytes(m + n)
<1>. DEFINE b == [k \in 1..n |-> <<x, m + k>>]
            S == {<<x, k>> : k \in 1..(m + n)}
<1>1. Bytes(m) \in Seq(S) /\ Len(Bytes(m)) = m /\ \A k \in 1..m : Bytes(m)[k] = <<x, k>>
  <2>1. \A k \in 1..m : <<x, k>> \in S
    OBVIOUS
  <2>. HIDE DEF S
  <2>. QED
    BY <2>1 DEF Bytes
<1>2. b \in Seq(S) /\ Len(b) = n /\ \A k \in 1..n : b[k] = <<x, m + k>>
  <2>1. \A k \in 1..n : <<x, m + k>> \in S
    OBVIOUS
  <2>. HIDE DEF S
  <2>. QED
    BY <2>1
<1>. HIDE DEF b, S
<1>3. /\ Bytes(m) \o b \in Seq(S) /\ Len(Bytes(m) \o b) = m + n
      /\ \A k \in 1..(m + n) :
           (Bytes(m) \o b)[k] = IF k <= m THEN Bytes(m)[k] ELSE b[k - m]
  <2>. DEFINE a == Bytes(m)
  <2>1. a \in Seq(S) /\ b \in Seq(S) /\ Len(a) = m /\ Len(b) = n
    BY <1>1, <1>2
  <2>. HIDE DEF a
  <2>2. /\ a \o b \in Seq(S) /\ Len(a \o b) = Len(a) + Len(b)
        /\ \A k \in 1..(Len(a) + Len(b)) :
             (a \o b)[k] = IF k <= Len(a) THEN a[k] ELSE b[k - Len(a)]
    BY ONLY <2>1, ConcatProperties, Zenon
  <2>. QED
    BY <2>1, <2>2, Zenon DEF a
<1>4. ASSUME NEW k \in 1..(m + n) PROVE (Bytes(m) \o b)[k] = <<x, k>>
  <2>1. CASE k <= m
    BY <1>1, <1>3, <2>1
  <2>2. CASE ~(k <= m)
    <3>1. k - m \in 1..n /\ m + (k - m) = k
      BY <2>2
    <3>2. b[k - m] = <<x, m + (k - m)>>
      BY <1>2, <3>1
    <3>. QED
      BY <1>3, <2>2, <3>1, <3>2, SMTT(30)
  <2>. QED
    BY <2>1, <2>2
<1>. DEFINE c == Bytes(m) \o b
<1>5. c \in Seq(S) /\ Len(c) = m + n /\ \A k \in 1..(m + n) : c[k] = <<x, k>>
  BY <1>3, <1>4
<1>. HIDE DEF c
<1>6. c = [k \in 1..(m + n) |-> <<x, k>>]
  <2>1. c = [k \in 1..Len(c) |-> c[k]]
    BY <1>5
  <2>. QED
    BY <1>5, <2>1
<1>. QED
  BY <1>6 DEF b, c, Bytes

\* Every step keeps the copy exact.
LEMMA CopyKept ==
  ASSUME Numbers, Flags, Flags', SmoothInv, SmoothInv', CopyInv, Next
  PROVE  CopyInv'
<1>. USE DEF Numbers, Flags, SmoothInv, CopyInv, CacheExact
<1>1. CASE UpstreamRead
  <2>. DEFINE n == LeastOf(Cap - rbuf, sent - read)
  <2>0. /\ pc = "upstream_read" /\ rbuf < Cap /\ sent > read
        /\ read' = read + n /\ cache_buf' = cache_buf \o Copied(n)
        /\ UNCHANGED <<open, x, sent, stored, smooth>>
    BY <1>1 DEF UpstreamRead
  <2>1. n \in Nat /\ read \in Nat
    BY <2>0, Sizes DEF LeastOf, rbuf
  <2>. HIDE DEF n
  <2>2. ASSUME smooth PROVE cache_buf' = Bytes(read)'
    <3>1. rbuf = 0 /\ written = read /\ cache_buf = Bytes(read)
      BY <2>0, <2>2 DEF rbuf
    <3>2. Copied(n) = [k \in 1..n |-> <<x, read + k>>]
      BY <2>1, <3>1 DEF Copied
    <3>3. cache_buf' = Bytes(read + n)
      BY <2>0, <2>1, <3>1, <3>2, BytesConcat
    <3>. QED
      BY <2>0, <3>3 DEF Bytes
  <2>. QED
    BY <2>0, <2>1, <2>2
<1>2. CASE UpstreamClosed
  <2>0. /\ pc = "upstream_read" /\ sent = read /\ stored' = cache_buf /\ cache_buf' = <<>>
        /\ UNCHANGED <<x, sent, read, smooth>>
    BY <1>2 DEF UpstreamClosed
  <2>1. ~open'
    BY <1>2, Zenon DEF UpstreamClosed
  <2>. QED
    BY <2>0, <2>1 DEF Bytes
<1>3. CASE UpstreamWriteError \/ UpstreamReadError
  <2>0. UNCHANGED <<x, sent, read, rst, gone, cache_buf, stored, smooth>>
    BY <1>3 DEF UpstreamWriteError, UpstreamReadError
  <2>1. ~open' /\ rst
    BY <1>3, Zenon DEF UpstreamWriteError, UpstreamReadError
  <2>. QED
    BY <2>0, <2>1
<1>4. CASE on_client_event
  <2>0. UNCHANGED <<x, sent, read, rst, gone, cache_buf, stored, smooth>>
    BY <1>4 DEF on_client_event
  <2>1. open /\ (~open' => gone)
    BY <1>4 DEF on_client_event
  <2>. QED
    BY <2>0, <2>1 DEF Bytes
<1>5. CASE NextExchange
  <2>0. read' = 0 /\ stored' = <<>> /\ cache_buf' = cache_buf
    BY <1>5 DEF NextExchange
  <2>1. open' /\ (smooth' => smooth /\ ~open /\ ~rst /\ ~gone)
    BY <1>5, Zenon DEF NextExchange
  <2>2. Bytes(read)' = <<>>
    BY <2>0 DEF Bytes
  <2>. QED
    BY <2>0, <2>1, <2>2
<1>6. CASE BackendSends \/ BackendCloses \/ BackendResets
  <2>0. UNCHANGED <<x, open, read, cache_buf, stored, smooth>>
    BY <1>6 DEF BackendSends, BackendCloses, BackendResets
  <2>1. open
    BY <1>6 DEF BackendSends, BackendCloses, BackendResets
  <2>. QED
    BY <2>0, <2>1 DEF Bytes
<1>7. CASE proxy_on_upstream_event \/ UpstreamWrite \/ UpstreamReadDone \/ ClientWrite
           \/ handle_write \/ BackendReads \/ ClientReads \/ ClientLeaves
  <2>0. UNCHANGED <<x, open, sent, read, rst, cache_buf, stored>> /\ (smooth' => smooth)
    BY <1>7 DEF proxy_on_upstream_event, UpstreamWrite, UpstreamReadDone, ClientWrite,
                handle_write, BackendReads, ClientReads, ClientLeaves
  <2>1. gone => gone'
    BY <1>7 DEF proxy_on_upstream_event, UpstreamWrite, UpstreamReadDone, ClientWrite,
                handle_write, BackendReads, ClientReads, ClientLeaves
  <2>. QED
    BY <2>0, <2>1 DEF Bytes
<1>. QED
  BY <1>1, <1>2, <1>3, <1>4, <1>5, <1>6, <1>7 DEF Next, UpstreamHandler

\* For every size of response, buffer and socket, and over any number of
\* exchanges of a conn_t: cache_insert is given the response byte for byte,
\* until the client's socket is full or an exchange is cut off.
THEOREM CacheCopyExact == Spec => []CacheExactWhileSmooth
<1>. DEFINE K == Inv /\ SmoothInv /\ CopyInv
<1>1. K => CacheExactWhileSmooth
  BY DEF CopyInv, CacheExactWhileSmooth
<1>2. K /\ UNCHANGED vars => K'
  BY DEF vars, Inv, Positions, Numbers, Flags, ClientDue, rbuf, Writable, SmoothInv,
         Quiet, NotTruncated, CopyInv, Bytes, CacheExact
<1>3. ASSUME K, Next PROVE K'
  <2>1. Inv' /\ SmoothInv'
    BY <1>3, NextSmooth
  <2>2. Numbers /\ Flags /\ Flags'
    BY <1>3, <2>1 DEF Inv, Positions
  <2>. QED
    BY <1>3, <2>1, <2>2, CopyKept
<1>4. K /\ [Next]_vars => K'
  BY <1>2, <1>3
<1>5. Init => K
  <2>1. ASSUME Init PROVE CopyInv
    <3>1. read = 0 /\ cache_buf = <<>> /\ stored = <<>>
      BY <2>1 DEF Init
    <3>2. Bytes(read) = <<>>
      BY <3>1 DEF Bytes
    <3>. QED
      BY <3>1, <3>2 DEF CopyInv, CacheExact
  <2>. QED
    BY <2>1, InitInv, InitSmooth
<1>. QED
  BY <1>1, <1>4, <1>5, PTL DEF Spec
=============================================================================
