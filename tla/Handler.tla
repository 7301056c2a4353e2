------------------------------ MODULE Handler -------------------------------
(***************************************************************************)
(* handler_dispatch (http/handler.c) and the handlers that answer from     *)
(* this process: what each appends to the connection's write buffer.       *)
(*                                                                         *)
(* A response is its head, <<"head", status, length, connection>>, and     *)
(* bytes <<"b">> behind it.  A path is a sequence of symbols, as in        *)
(* HttpParser.                                                             *)
(***************************************************************************)
EXTENDS HttpParser

CONSTANTS
  Servers,       \* config->servers, see below
  ModulePaths,   \* what the loaded modules answer
  RateLimiting,  \* ctx->rate_limiter is there
  MetricsPath,   \* config->metrics.path, <<>> without [metrics]
  Hits,          \* responses that cache_lookup may find
  WCap           \* NP_WRITE_BUF_SIZE

\* A server block has a server_name, rewrite rules (a function on paths),
\* the switches cache, proxy and static_root, and the sizes of the files that
\* static_root, index.html and try_files lead a path to.
ASSUME HandlerAssumption ==
  \A i \in DOMAIN Servers :
    DOMAIN Servers[i] = {"server_name", "rewrite", "cache", "proxy",
                         "static_root", "files"}

Bytes(n) == [i \in 1..n |-> <<"b">>]

HeadOf(status, length, keep_alive) ==
  <<"head", status, length, IF keep_alive THEN "keep-alive" ELSE "close">>

\* memcpy and buf_produce, when the string fits into the write buffer.
Fitting(wbuf, s) == IF WCap - Len(wbuf) >= Len(s) THEN wbuf \o s ELSE wbuf

ErrorBody == 2   \* the length of an error page
PageBody == 1    \* of any other generated page

\* response_write_error and response_write_simple: head and body, each
\* left out on its own when there is no room.
Response(wbuf, status, body, keep_alive) ==
  Fitting(Fitting(wbuf, <<HeadOf(status, body, keep_alive)>>), Bytes(body))

response_write_error(wbuf, status, keep_alive) ==
  Response(wbuf, status, ErrorBody, keep_alive)

response_write_simple(wbuf, status, body, keep_alive) ==
  Response(wbuf, status, body, keep_alive)

\* What a handler leaves: the write buffer, conn->state, and the statuses
\* it has passed to metrics_inc_requests.
Left(wbuf, state, counted) ==
  [wbuf |-> wbuf, state |-> state, counted |-> counted]

\* The literal announces 16 bytes and holds 15.
health_handle(wbuf, req) ==
  Left(Fitting(wbuf, <<HeadOf(200, PageBody + 1, req.keep_alive)>> \o Bytes(PageBody)),
       "WRITING", {})

metrics_handle(wbuf, req) ==
  Left(response_write_simple(wbuf, 200, PageBody, req.keep_alive), "WRITING", {})

\* A handler counts at most one status.
metrics_inc_requests(total, counted) == total + Cardinality(counted)

module_run_request_handlers(path) == path \in ModulePaths

path_is_safe(path) == \A i \in DOMAIN path : path[i] # ".."

\* For a file, the head is buffered and CONN_SENDFILE set.  The write at the
\* end only starts the flush of handle_read.
file_server_handle(wbuf, req, path, files) ==
  LET none(status) == Left(response_write_error(wbuf, status, req.keep_alive),
                           "WRITING", {})
  IN  IF ~path_is_safe(path) THEN none(403)
      ELSE IF path \notin DOMAIN files THEN none(404)
      ELSE IF request_header(req, <<"If-None-Match">>) = <<"etag">>
      THEN Left(response_write_simple(wbuf, 304, 0, req.keep_alive), "WRITING", {})
      ELSE Left(Fitting(wbuf, <<HeadOf(200, files[path], req.keep_alive)>>),
                "SENDFILE", {})

\* The block whose server_name is the Host header without a port, else the
\* first.
VirtualHost(req) ==
  LET host == request_header(req, <<"Host">>)
      name == IF memchr(host, 1, Len(host), ":") = 0 THEN host
              ELSE SubSeq(host, 1, memchr(host, 1, Len(host), ":") - 1)
      i    == Least({k \in DOMAIN Servers : /\ Servers[k].server_name # <<>>
                                           /\ Servers[k].server_name = name})
  IN  IF host = <<>> \/ i = 0 THEN Servers[1] ELSE Servers[i]

\* The first rule that matches replaces the path, once.
Rewritten(server, path) ==
  IF path \in DOMAIN server.rewrite THEN server.rewrite[path] ELSE path

\* No backend or no connection to one answers here; else module ProxyStream
\* goes on.
proxy_handle(wbuf, req) ==
  {Left(response_write_error(wbuf, status, req.keep_alive), "WRITING", {}) :
     status \in {502, 503}}
  \cup {Left(wbuf, IF req.upgrade THEN "TUNNEL" ELSE "PROXYING", {})}

path_matches(path, prefix) == IsPrefix(prefix, path)

\* The handlers in the order of handler.c; a set, because the token bucket
\* and the cache decide on state that is not part of this module.
handler_dispatch(wbuf, req) ==
  LET server == VirtualHost(req)
      asked  == Path(req.uri)
      path   == Rewritten(server, asked)
      error(status) == Left(response_write_error(wbuf, status, req.keep_alive),
                            "WRITING", {status})
      hits   == IF server.cache /\ req.method = "GET"
                THEN {Left(Fitting(wbuf, h), "WRITING", {}) : h \in Hits}
                ELSE {}
      missed == IF server.proxy THEN proxy_handle(wbuf, req)
                ELSE IF server.static_root
                THEN {file_server_handle(wbuf, req, path, server.files)}
                ELSE {error(404)}
  IN  IF module_run_request_handlers(asked)
      THEN {Left(response_write_simple(wbuf, 200, PageBody, req.keep_alive),
                 "WRITING", {})}
      ELSE (IF RateLimiting THEN {error(429)} ELSE {}) \cup
           (IF MetricsPath # <<>> /\ path_matches(path, MetricsPath)
            THEN {metrics_handle(wbuf, req)}
            ELSE IF path_matches(path, <<"/healthz">>)
            THEN {health_handle(wbuf, req)}
            ELSE hits \cup missed)
=============================================================================
