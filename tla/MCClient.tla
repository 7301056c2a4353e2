------------------------------ MODULE MCClient ------------------------------
(***************************************************************************)
(* Clients and server blocks for ClientConn.                               *)
(***************************************************************************)
EXTENDS ClientConn

Req(method, uri, version, headers, body) ==
  [method |-> method, uri |-> uri, version |-> version, headers |-> headers,
   body |-> body]

Get(path, headers) == Req("GET", <<path>>, "HTTP/1.1", headers, <<>>)

MCModulePaths == {<<"/hello">>}
MCMetricsPath == <<"/metrics">>

Hdr(name, value) == <<<<name>>, <<value>>>>

Close == Hdr("Connection", "close")

\* A body, a query, an old version, a close, a page that is not there, an
\* answer from the cache, a request of two headers and one of three.
Post  == Req("POST", <<"/a">>, "HTTP/1.1", <<Hdr("Content-Length", "2")>>, <<"x", "y">>)
Query == Req("GET", <<"/metrics", "?", "q">>, "HTTP/1.1", <<>>, <<>>)
Old   == Req("GET", <<"/a">>, "HTTP/1.0", <<>>, <<>>)
Leaving  == Get("/old", <<Close>>)
Vhost == Get("/a", <<Hdr("Host", "b"), Hdr("Accept", "x")>>)
Proxied == Get("/a", <<Hdr("Host", "p")>>)
Wide  == Get("/a", <<Hdr("Host", "b"), Hdr("Accept", "x"), Close>>)
Odd   == Req("GET", <<"/a">>, "HTTP/2.0", <<>>, <<>>)
Hello == Get("/hello", <<>>)
Tagged == Get("/f", <<Hdr("If-None-Match", "etag")>>)
File  == Get("/f", <<>>)
Health == Get("/healthz", <<>>)
Chunked == Req("POST", <<"/a">>, "HTTP/1.1", <<Hdr("Transfer-Encoding", "chunked")>>,
               <<"1", "CR", "LF", "x", "CR", "LF", "0", "CR", "LF", "CR", "LF">>)

Block(name, rewrite, cache, proxy, static_root) ==
  [server_name |-> name, rewrite |-> rewrite, cache |-> cache, proxy |-> proxy,
   static_root |-> static_root,
   files |-> [p \in {<<"/f">>} |-> 2]]

MCServers ==
  <<Block(<<>>, [p \in {<<"/old">>} |-> <<"/new">>], FALSE, FALSE, TRUE),
    Block(<<"b">>, <<>>, TRUE, FALSE, FALSE),
    Block(<<"p">>, <<>>, FALSE, TRUE, FALSE)>>

\* A response that fits into the write buffer, and one that does not.
MCHits == {<<<<"head", 200, 2, "none">>, <<"b">>, <<"b">>>>}

LargeHits == {<<<<"head", 200, 5, "none">>>> \o Bytes(5)}

MCScripts ==
  {<<Post, Vhost>>, <<Query, Leaving>>, <<Old>>, <<Hello, Proxied>>,
   <<Wide>>, <<Odd>>, <<Tagged, Post, Old>>}

WithBody == {<<Post, Vhost>>}
OneFile == {<<File>>}
OneHealth == {<<Health>>}
OneChunked == {<<Chunked>>}
LateBad == {<<Hello, Odd>>}
Cached == {<<Vhost>>}
=============================================================================
