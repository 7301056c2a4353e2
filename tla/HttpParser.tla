----------------------------- MODULE HttpParser -----------------------------
(***************************************************************************)
(* http_parse_request (http/parser.c) and request_populate                 *)
(* (http/request.c).  Input is a sequence of symbols: "CR", "LF", "SP",    *)
(* ":", "?" and words (a method, a path, a header's name, a number, ...),  *)
(* which no rule of the parser looks into.                                 *)
(***************************************************************************)
EXTENDS Integers, SequencesExt, FiniteSetsExt

CONSTANT NP_MAX_HEADERS

Methods == {"GET", "POST", "PUT", "DELETE", "HEAD", "OPTIONS", "PATCH"}

\* strtoll of the words that are numbers.
Numbers == [w \in {"-1", "0", "1", "2", "3"} |->
              CASE w = "-1" -> -1 [] w = "0" -> 0 [] w = "1" -> 1
                [] w = "2" -> 2 [] w = "3" -> 3]

\* The first of some positions, 0 for NULL.
Least(S) == IF S = {} THEN 0 ELSE Min(S)

memchr(s, from, to, c) == Least({i \in from..to : s[i] = c})

str_trim(s) ==
  LET word == {i \in DOMAIN s : s[i] # "SP"}
  IN  IF word = {} THEN <<>> ELSE SubSeq(s, Min(word), Max(word))

parse_method(word) ==
  IF Len(word) = 1 /\ word[1] \in Methods THEN word[1] ELSE "UNKNOWN"

\* Where find_crlf can stop.
Crlfs(s) == {i \in 1..(Len(s) - 1) : s[i] = "CR" /\ s[i + 1] = "LF"}

\* The header lines of s behind the request line, first..last of each: up to
\* the empty line, or all whole lines when there is none.
HeaderLines(s) ==
  LET ends  == Crlfs(s)
      blank == Least({i \in ends : i - 2 \in ends})
      lines == {i \in ends : i > Min(ends) /\ (blank = 0 \/ i < blank)}
  IN  [k \in 1..Cardinality(lines) |->
         LET end == SetToSortSeq(lines, <)[k]
         IN  <<Max({j \in ends : j < end}) + 2, end - 1>>]

\* Name and value around the first colon of the line.
HeaderOf(s, line) ==
  LET colon == memchr(s, line[1], line[2], ":")
  IN  <<str_trim(SubSeq(s, line[1], colon - 1)),
        str_trim(SubSeq(s, colon + 1, line[2]))>>

\* Of the headers at some positions, the value of the last.
LastOf(headers, found) == IF found = {} THEN <<>> ELSE headers[Max(found)][2]

\* content_length, chunked, keep_alive and upgrade from the headers, with
\* the defaults of the version.
Framing(headers, version) ==
  LET number(h)  == /\ h[1] = <<"Content-Length">> /\ Len(h[2]) = 1
                    /\ h[2][1] \in DOMAIN Numbers
      option(h)  == h[1] = <<"Connection">>
      length     == LastOf(headers, {k \in DOMAIN headers : number(headers[k])})
      connection == LastOf(headers, {k \in DOMAIN headers : option(headers[k])})
      chunked    == <<<<"Transfer-Encoding">>, <<"chunked">>>> \in Range(headers)
  IN  [content_length |-> IF length # <<>> /\ ~(/\ Numbers[length[1]] < 0 /\ ~chunked
                                                /\ version = <<"HTTP/1.1">>)
                          THEN Numbers[length[1]]
                          ELSE IF version = <<"HTTP/1.1">> /\ ~chunked THEN 0 ELSE -1,
       chunked        |-> chunked,
       keep_alive     |-> IF \E h \in Range(headers) : option(h)
                          THEN connection # <<"close">>
                          ELSE version = <<"HTTP/1.1">>,
       upgrade        |-> \E h \in Range(headers) :
                            option(h) /\ "upgrade" \in Range(h[2])]

\* Mutant: the body is not counted as parsed.
BodyUnread(content_length) == 0

\* What is read behind the headers.
BodyLength(content_length) == IF content_length > 0 THEN content_length ELSE 0

\* The result and, when it is DONE, the parse state.  The headers end with
\* the empty line, or where the input ends behind a whole line.
http_parse_request(s) ==
  LET ends    == Crlfs(s)
      sp1     == memchr(s, 1, Min(ends) - 1, "SP")
      sp2     == memchr(s, sp1 + 1, Min(ends) - 1, "SP")
      version == SubSeq(s, sp2 + 1, Min(ends) - 1)
      lines   == HeaderLines(s)
      blank   == Least({i \in ends : i - 2 \in ends})
      offset  == 1 + IF blank # 0 THEN blank ELSE Max(ends)
      headers == [k \in DOMAIN lines |-> HeaderOf(s, lines[k])]
      framing == Framing(headers, version)
      body    == BodyLength(framing.content_length)
      wrong   == \/ sp1 = 0 \/ sp2 = 0
                 \/ version \notin {<<"HTTP/1.1">>, <<"HTTP/1.0">>}
                 \/ Len(lines) > NP_MAX_HEADERS
                 \/ \E k \in DOMAIN lines : memchr(s, lines[k][1], lines[k][2], ":") = 0
  IN  CASE ends = {} -> [pr |-> "INCOMPLETE"]
        [] ends # {} /\ wrong -> [pr |-> "ERROR"]
        [] ends # {} /\ ~wrong ->
             IF (blank = 0 /\ offset < Len(s)) \/ Len(s) - offset < body
             THEN [pr |-> "INCOMPLETE"]
             ELSE [pr |-> "DONE",
                   method |-> parse_method(SubSeq(s, 1, sp1 - 1)),
                   uri |-> SubSeq(s, sp1 + 1, sp2 - 1), version |-> version[1],
                   headers |-> headers, keep_alive |-> framing.keep_alive,
                   upgrade |-> framing.upgrade,
                   body |-> SubSeq(s, offset + 1, offset + body),
                   parsed_bytes |-> offset + body]

\* request_populate: the path is what stands before the first "?".
Path(uri) ==
  LET q == memchr(uri, 1, Len(uri), "?")
  IN  IF q = 0 THEN uri ELSE SubSeq(uri, 1, q - 1)

\* request_header: the first header of that name, <<>> when there is none.
request_header(ps, name) ==
  LET i == Least({k \in DOMAIN ps.headers : ps.headers[k][1] = name})
  IN  IF i = 0 THEN <<>> ELSE ps.headers[i][2]

-----------------------------------------------------------------------------
\* What a client means by a request, and how it spells it.
Spelled(r) ==
  LET line(h) == h[1] \o <<":", "SP">> \o h[2] \o <<"CR", "LF">>
      lines == FlattenSeq([i \in DOMAIN r.headers |-> line(r.headers[i])])
  IN  <<r.method, "SP">> \o r.uri \o <<"SP", r.version, "CR", "LF">>
        \o lines \o <<"CR", "LF">> \o r.body

\* The requests that http_parse_request is written to accept.
Acceptable(r) ==
  r.version \in {"HTTP/1.1", "HTTP/1.0"} /\ Len(r.headers) <= NP_MAX_HEADERS

\* A parse that means the request r.
Means(ps, r) ==
  /\ ps.method = r.method /\ ps.uri = r.uri /\ ps.version = r.version
  /\ ps.headers = r.headers /\ ps.body = r.body
=============================================================================
