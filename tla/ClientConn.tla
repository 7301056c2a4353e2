----------------------------- MODULE ClientConn -----------------------------
(***************************************************************************)
(* One client connection of a worker, from accept to close (proc/worker.c, *)
(* on_client_event, handle_read, handle_write), at the level of the bytes  *)
(* that the client sends and gets.  The read and write buffers are queues, *)
(* which Buffer shows np_buf_t to be.  The socket is edge-triggered: an    *)
(* event is due when bytes or room arrive, and again after a MOD.          *)
(***************************************************************************)
EXTENDS Handler

CONSTANTS
  Scripts,   \* what clients may ask: sequences of requests
  Pipelines, \* {FALSE}: a client waits for each answer; TRUE: it need not
  AnyCut,    \* a segment may end right behind a header line
  HangsUp,   \* a client may close at any time
  RCap,      \* NP_READ_BUF_SIZE
  SCap       \* the room of the socket's send queue

VARIABLES
  script,    \* the client: its requests and their bytes
  sent,      \* how many of the bytes it has sent
  sock,      \* the bytes that the kernel holds for the worker
  hup,       \* the client has closed
  conn,      \* the conn_t
  pend,      \* the events that epoll_wait will report
  snd,       \* the bytes that the kernel holds for the client
  got,       \* the bytes that the client has
  seen,      \* history: what handle_read has taken for requests
  requests_total

vars == <<script, sent, sock, hup, conn, pend, snd, got, seen, requests_total>>

client == <<script, sent, hup, got>>

\* A client with these requests: ends[k] bytes spell the first k of them.
Client(requests, pipelined) ==
  LET spelled(k) == FlattenSeq([i \in 1..k |-> Spelled(requests[i])])
  IN  [requests |-> requests, pipelined |-> pipelined,
       bytes |-> spelled(Len(requests)),
       ends |-> [k \in DOMAIN requests |-> Len(spelled(k))]]

\* The answers in a string of bytes: heads with all that they announce.
Heads(s) == {i \in DOMAIN s : s[i][1] = "head"}

Answers(s) == Cardinality({i \in Heads(s) : i + s[i][3] <= Len(s)})

Announced(s) == \E i \in Heads(s) : s[i][4] = "close"

-----------------------------------------------------------------------------
\* conn_pool_get and event_loop_add.
Init ==
  /\ script \in {Client(r, p) : r \in Scripts, p \in Pipelines}
  /\ sent = 0 /\ sock = <<>> /\ hup = FALSE
  /\ conn = [open |-> TRUE, state |-> "READING", keep_alive |-> FALSE,
             rbuf |-> <<>>, wbuf |-> <<>>, mask |-> {"in"}]
  /\ pend = {} /\ snd = <<>> /\ got = <<>> /\ seen = <<>> /\ requests_total = 0

\* A segment ends behind a header line that is not the last of its request.
BehindLine(n) ==
  /\ n >= 2 /\ SubSeq(script.bytes, n - 1, n) = <<"CR", "LF">>
  /\ ~(n >= 4 /\ SubSeq(script.bytes, n - 3, n) = <<"CR", "LF", "CR", "LF">>)

\* The next bytes of the client arrive, as many as the network likes.
ClientSends ==
  /\ conn.open /\ ~hup /\ ~Announced(got)
  /\ \E n \in (sent + 1)..Len(script.bytes) :
       /\ AnyCut \/ ~BehindLine(n)
       /\ script.pipelined \/ n <= script.ends[Answers(got) + 1]
       /\ sent' = n /\ sock' = sock \o SubSeq(script.bytes, sent + 1, n)
  /\ pend' = pend \cup ({"in"} \cap conn.mask)
  /\ UNCHANGED <<script, hup, conn, snd, got, seen, requests_total>>

ClientReads ==
  /\ ~hup /\ snd # <<>>
  /\ got' = got \o snd /\ snd' = <<>>
  /\ pend' = IF conn.open /\ Len(snd) = SCap THEN pend \cup ({"out"} \cap conn.mask)
             ELSE pend
  /\ UNCHANGED <<script, sent, sock, hup, conn, seen, requests_total>>

ClientHangsUp ==
  /\ HangsUp /\ ~hup /\ conn.open
  /\ hup' = TRUE /\ pend' = pend \cup {"hup"}
  /\ UNCHANGED <<script, sent, sock, conn, snd, got, seen, requests_total>>

-----------------------------------------------------------------------------
\* Mutant: what a short write left is taken for written.
WriteForgetsRest(w, room) ==
  [out |-> SubSeq(w, 1, Min({Len(w), room})), rest |-> <<>>]

\* do n = buf_write_fd(...) while (n > 0).
WriteAll(w, room) ==
  [out |-> SubSeq(w, 1, Min({Len(w), room})), rest |-> SubSeq(w, room + 1, Len(w))]

Closed(c) == [c EXCEPT !.open = FALSE, !.mask = {}]

\* Mutant: the switch to EV_WRITE is forgotten.
WritingUnarmed(c) == [c EXCEPT !.state = "WRITING"]

\* event_loop_mod(EV_WRITE | EV_HUP | EV_EDGE)
Writing(c) == [c EXCEPT !.state = "WRITING", !.mask = {"out"}]

\* Mutant: conn->keep_alive is not looked at.
NeverCloses(c) == [c EXCEPT !.state = "READING", !.mask = {"in"}]

\* The end of a response: close, or wait for the next request.
Finished(c) ==
  IF c.keep_alive THEN [c EXCEPT !.state = "READING", !.mask = {"in"}]
  ELSE Closed(c)

\* EPOLL_CTL_MOD reports again what is ready.
Ready(c, in, out) ==
  (IF in # <<>> THEN {"in"} \cap c.mask ELSE {}) \cup
  (IF Len(out) < SCap THEN {"out"} \cap c.mask ELSE {})

\* The rest of handle_read, with the request in c.rbuf parsed.
Dispatched(c, ps) ==
  \E left \in handler_dispatch(c.wbuf, ps) :
    LET w == WriteAll(left.wbuf, SCap - Len(snd))
        d == [c EXCEPT !.wbuf = w.rest, !.keep_alive = ps.keep_alive,
                       !.rbuf = SubSeq(@, ps.parsed_bytes + 1, Len(@))]
    IN  /\ seen' = Append(seen, ps)
        /\ requests_total' = metrics_inc_requests(requests_total, left.counted)
        /\ IF left.state \in {"PROXYING", "TUNNEL"}
           THEN /\ conn' = [d EXCEPT !.state = left.state, !.wbuf = left.wbuf]
                /\ pend' = {} /\ snd' = snd
           ELSE /\ conn' = IF w.rest = <<>> THEN Finished(d) ELSE Writing(d)
                /\ snd' = snd \o w.out
                /\ pend' = Ready(conn', sock', snd')

ReadDue == conn.open /\ pend = {"in"} /\ conn.state = "READING"

\* handle_read, on EV_READ.
handle_read ==
  /\ ReadDue
  /\ \E n \in {Min({Len(sock), RCap - Len(conn.rbuf)})} :
     \E c \in {[conn EXCEPT !.rbuf = @ \o SubSeq(sock, 1, n)]} :
     \E p \in {http_parse_request(c.rbuf)} :
       /\ sock' = SubSeq(sock, n + 1, Len(sock))
       /\ \/ /\ c.rbuf = <<>> \/ p.pr = "INCOMPLETE"
             /\ conn' = c /\ pend' = {} /\ UNCHANGED <<snd, seen, requests_total>>
          \/ /\ p.pr = "ERROR"
             /\ conn' = Writing([c EXCEPT !.wbuf = response_write_error(@, 400, FALSE)])
             /\ pend' = Ready(conn', sock', snd)
             /\ seen' = Append(seen, p)
             /\ UNCHANGED <<snd, requests_total>>
          \/ p.pr = "DONE" /\ Dispatched(c, p)
  /\ UNCHANGED client

\* handle_write, on EV_WRITE.  A connection never waits in CONN_SENDFILE:
\* handle_read has left it in READING or WRITING.
handle_write ==
  /\ conn.open /\ pend = {"out"}
  /\ conn.state = "WRITING"
  /\ LET w == WriteAll(conn.wbuf, SCap - Len(snd))
         c == [conn EXCEPT !.wbuf = w.rest]
     IN  /\ snd' = snd \o w.out
         /\ conn' = IF w.rest = <<>> THEN Finished(c) ELSE c
         /\ pend' = IF w.rest = <<>> THEN Ready(conn', sock, snd') ELSE {}
  /\ UNCHANGED <<client, sock, seen, requests_total>>

\* on_client_event with EV_HUP, whatever else is reported with it.
OnHup ==
  /\ conn.open /\ "hup" \in pend
  /\ conn' = Closed(conn) /\ pend' = {}
  /\ UNCHANGED <<client, sock, snd, seen, requests_total>>

Next ==
  \/ ClientSends \/ ClientReads \/ ClientHangsUp
  \/ handle_read \/ handle_write \/ OnHup

\* The worker serves a reported event; the client sends what it has to say
\* and reads what there is.  The first conjunct is WF_vars(handle_read), for
\* handle_read can be taken whenever it is due.
Fairness ==
  /\ []<>~ReadDue \/ []<><<handle_read>>_vars
  /\ WF_vars(handle_write) /\ WF_vars(OnHup)
  /\ WF_vars(ClientSends) /\ WF_vars(ClientReads)

Spec == Init /\ [][Next]_vars /\ Fairness

-----------------------------------------------------------------------------
\* What the connection has answered so far, on its way or not.
Flow == got \o snd \o conn.wbuf

HandedOver == conn.state \in {"PROXYING", "TUNNEL"}

\* architecture.md:179: however the network cuts the client's bytes into
\* segments, and however many requests a read finds, handle_read takes them
\* for the requests that the client wrote, each once and in order, and
\* refuses exactly those that the parser is written to refuse.
AnswersInOrder ==
  /\ Len(seen) <= Len(script.requests)
  /\ \A i \in DOMAIN seen :
       IF Acceptable(script.requests[i])
       THEN seen[i].pr = "DONE" /\ Means(seen[i], script.requests[i])
       ELSE seen[i].pr = "ERROR"

\* architecture.md:185-187: each request is answered by one response, whole:
\* a head and as many bytes as it announces, through short writes and
\* keep-alive, before the next response begins.
AnswersWhole ==
  LET heads == Heads(Flow)
      next(i) == {j \in heads : j > i}
  IN  /\ Cardinality(heads) = Len(seen) - (IF HandedOver THEN 1 ELSE 0)
      /\ Flow # <<>> => 1 \in heads
      /\ \A i \in heads : i + Flow[i][3] + 1 =
           IF next(i) = {} THEN Len(Flow) + 1 ELSE Min(next(i))

\* architecture.md:189: a response that announces "close" is the last one, and
\* the connection does not go back to reading behind it; and the worker
\* closes a connection whose client is there only when it has written
\* everything and has not announced keep-alive.
CloseHonoured ==
  LET said == IF Heads(Flow) = {} THEN "nothing" ELSE Flow[Max(Heads(Flow))][4]
  IN  /\ \A i, j \in Heads(Flow) : i < j => Flow[i][4] # "close"
      /\ conn.open /\ conn.state = "READING" => said # "close"
      /\ ~conn.open /\ ~hup => conn.wbuf = <<>> /\ said \in {"close", "none"}

\* A client that waits for each answer gets one for each request that it has
\* sent whole, unless it hangs up or the request goes to a backend: no event
\* that the connection depends on is lost to the edge trigger.
RequestAnswered ==
  \A k \in 1..3 :
    (~script.pipelined /\ k \in DOMAIN script.ends /\ sent >= script.ends[k])
      ~> (Answers(got) >= k \/ hup \/ HandedOver)

\* The same of a client that does not wait.
PipelinedAnswered ==
  \A k \in 1..3 :
    (k \in DOMAIN script.ends /\ sent >= script.ends[k])
      ~> (Answers(got) >= k \/ hup \/ HandedOver)

\* observability.md:42, "Total HTTP requests received".
RequestsCounted == requests_total = Len(seen)
=============================================================================
