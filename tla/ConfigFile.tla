----------------------------- MODULE ConfigFile -----------------------------
(***************************************************************************)
(* config_load (core/config.c): what a configuration file sets.  A file is *)
(* a sequence of lines, after comments and white space are stripped: a     *)
(* section header, a key with its value, or noise (an empty line, a header *)
(* without "]", text without "=").  A value that the code takes apart is   *)
(* the tuple of its parts.                                                 *)
(***************************************************************************)
EXTENDS Integers, SequencesExt, FiniteSetsExt, TLC

CONSTANTS
  CONFIG_MAX_SERVERS,
  CONFIG_MAX_LIST,   \* modules, rewrites, try_files and backends of a server
  Atoi,              \* atoi: the number a text begins with, or 0
  Regexes            \* the patterns that regcomp accepts

Section(name) == [kind |-> "section", name |-> name]
Set(key, val) == [kind |-> "set", key |-> key, val |-> val]
Noise == [kind |-> "noise"]

-----------------------------------------------------------------------------
(* The fields of np_config_t, each named by its section and key. *)

listen_port == <<"server", "listen_port">>
load_module == <<"server", "load_module">>
rewrite == <<"server", "rewrite">>
try_files == <<"server", "try_files">>
backend == <<"upstream", "backend">>
mode == <<"proxy", "mode">>
log_level == <<"log", "level">>
pid_file == <<"process", "pid_file">>
daemon == <<"process", "daemon">>
worker_processes == <<"server", "worker_processes">>

Lists == {load_module, rewrite, try_files, backend}

PortFields == {listen_port, <<"tls", "listen_port">>}

ServerInts ==
  PortFields \cup ({"proxy"} \X {"connect_timeout", "upstream_timeout", "keepalive_conns"})
  \cup ({"cache"} \X {"default_ttl", "max_entries"}) \cup {<<"gzip", "min_length">>}

ServerBools == {"tls", "proxy", "cache", "gzip"} \X {"enabled"}

ServerTexts ==
  ({"server"} \X {"server_name", "static_root"}) \cup ({"tls"} \X {"cert_file", "key_file"})
  \cup {<<"cache", "root">>}

ServerFields == ServerInts \cup ServerBools \cup ServerTexts \cup {mode} \cup Lists

GlobalInts ==
  ({"server"} \X {"worker_processes", "backlog", "max_connections", "keepalive_timeout",
                  "read_timeout", "write_timeout"})
  \cup ({"rate_limit"} \X {"requests_per_second", "burst"})
  \cup {<<"global", "shutdown_timeout">>}

GlobalBools == {<<"rate_limit", "enabled">>, <<"metrics", "enabled">>, daemon}

GlobalTexts ==
  {<<"server", "listen_addr">>, <<"log", "access_log">>, <<"log", "error_log">>,
   <<"metrics", "path">>, pid_file}

GlobalFields == GlobalInts \cup GlobalBools \cup GlobalTexts \cup {log_level}

-----------------------------------------------------------------------------
(* Values *)

parse_bool(v) == v \in {"true", "1", "yes"}

\* What a field holds once it is given value v and held old before.
Converted(f, v, old) ==
  CASE f \in PortFields                    -> Atoi[v] % 65536
    [] f \in ServerInts \cup GlobalInts    -> Atoi[v]
    [] f \in ServerBools \cup GlobalBools  -> parse_bool(v)
    [] f = mode                            -> IF v = "least_conn" THEN v ELSE "round_robin"
    [] f = log_level -> IF v \in {"debug", "info", "warn", "error"} THEN v ELSE old
    [] OTHER                               -> v

\* What value v adds to a list: a backend without a port has port 80, a
\* rewrite needs a replacement and a pattern that compiles.
Items(f, v) ==
  CASE f = backend   -> <<[host |-> v[1],
                           port |-> IF Len(v) = 1 THEN 80 ELSE Atoi[v[2]] % 65536]>>
    [] f = rewrite   -> IF Len(v) = 2 /\ v[1] \in Regexes THEN <<v>> ELSE <<>>
    [] f = try_files -> v
    [] OTHER         -> <<v>>

Limited(s) == SubSeq(s, 1, Min({Len(s), CONFIG_MAX_LIST}))

-----------------------------------------------------------------------------
(* Defaults *)

\* memset to zero
Zeroed(f) ==
  CASE f \in Lists -> <<>>
    [] f \in ServerInts \cup GlobalInts -> 0
    [] f \in ServerBools \cup GlobalBools -> FALSE
    [] f = mode -> "round_robin"
    [] OTHER -> ""

DefaultGlobal ==
  [f \in GlobalFields |->
     CASE f = worker_processes -> 4
       [] f = <<"server", "listen_addr">> -> "0.0.0.0"
       [] f = <<"server", "backlog">> -> 4096
       [] f = <<"server", "max_connections">> -> 100000
       [] f = <<"server", "keepalive_timeout">> -> 75
       [] f \in {"server"} \X {"read_timeout", "write_timeout"} -> 60
       [] f = <<"rate_limit", "requests_per_second">> -> 1000
       [] f = <<"rate_limit", "burst">> -> 200
       [] f = log_level -> "info"
       [] f = <<"log", "access_log">> -> "./logs/access.log"
       [] f = <<"log", "error_log">> -> "./logs/error.log"
       [] f = <<"metrics", "path">> -> "/metrics"
       [] OTHER -> Zeroed(f)]

\* Lines 91-93: a further server.
NewServer ==
  [f \in ServerFields |->
     CASE f = listen_port -> 8080
       [] f = <<"server", "static_root">> -> "./www"
       [] OTHER -> Zeroed(f)]

\* Lines 38-47: the first server.
FirstServer ==
  <<"tls", "listen_port">> :> 8443 @@ <<"proxy", "connect_timeout">> :> 5
  @@ <<"proxy", "upstream_timeout">> :> 30 @@ <<"proxy", "keepalive_conns">> :> 16
  @@ NewServer

-----------------------------------------------------------------------------
(* config_load *)

\* strncmp(p + 1, "server", 6) == 0
IsServer(name) == name \in {"server", "server2", "servers"}

\* Mutant: the header of the first block allocates a server too.
OpenAlways(c, name) ==
  [c EXCEPT !.section = name, !.seen_server = @ \/ IsServer(name),
            !.servers = IF IsServer(name) /\ Len(@) < CONFIG_MAX_SERVERS
                        THEN Append(@, NewServer) ELSE @]

\* Lines 76-102: the first server block is servers[0]; a further one gets a
\* slot of its own while there is one.
Header(c, name) ==
  [c EXCEPT !.section = name, !.seen_server = @ \/ IsServer(name),
            !.servers = IF IsServer(name) /\ c.seen_server /\ Len(@) < CONFIG_MAX_SERVERS
                        THEN Append(@, NewServer) ELSE @]

\* Lines 124-260: the key goes to the last server or to the global settings.
Assign(c, f, v) ==
  LET n == Len(c.servers)
      srv == c.servers[n]
  IN  IF f \in Lists
      THEN [c EXCEPT !.servers[n] = f :> Limited(srv[f] \o Items(f, v)) @@ srv]
      ELSE IF f \in ServerFields
      THEN [c EXCEPT !.servers[n] = f :> Converted(f, v, srv[f]) @@ srv]
      ELSE IF f \in GlobalFields
      THEN [c EXCEPT !.global = f :> Converted(f, v, c.global[f]) @@ c.global]
      ELSE c

ReadLine(c, l) ==
  CASE l.kind = "section" -> Header(c, l.name)
    [] l.kind = "set"     -> Assign(c, <<c.section, l.key>>, l.val)
    [] OTHER              -> c

config_load(file) ==
  LET c == FoldLeft(ReadLine, [servers |-> <<FirstServer>>, global |-> DefaultGlobal,
                               section |-> "", seen_server |-> FALSE], file)
  IN  [servers |-> c.servers, global |-> c.global]

-----------------------------------------------------------------------------
(* What a file means, by its blocks *)

Headers(file, n) == {m \in 1..n : file[m].kind = "section"}

SectionAt(file, n) ==
  IF Headers(file, n) = {} THEN "" ELSE file[Max(Headers(file, n))].name

Blocks(file) == {n \in DOMAIN file : file[n].kind = "section" /\ IsServer(file[n].name)}

\* The block that line n belongs to; what precedes the first belongs to it.
BlockOf(file, n) == Max({1, Cardinality({m \in Blocks(file) : m <= n})})

\* The lines that set field f.
Setting(file, f) ==
  {n \in DOMAIN file : file[n].kind = "set" /\ <<SectionAt(file, n), file[n].key>> = f}

\* The last of the lines ns decides; those of a list add up.
ValueFrom(file, ns, f, default) ==
  IF f \in Lists
  THEN Limited(FlattenSeq([k \in 1..Cardinality(ns) |->
                             Items(f, file[SetToSortSeq(ns, <)[k]].val)]))
  ELSE LET valid == IF f # log_level THEN ns
                    ELSE {n \in ns : file[n].val \in {"debug", "info", "warn", "error"}}
       IN  IF valid = {} THEN default ELSE Converted(f, file[Max(valid)].val, default)

ServerMeans(file, i) ==
  [f \in ServerFields |->
     ValueFrom(file, {n \in Setting(file, f) : BlockOf(file, n) = i}, f,
               (IF i = 1 THEN FirstServer ELSE NewServer)[f])]

GlobalMeans(file) ==
  [f \in GlobalFields |-> ValueFrom(file, Setting(file, f), f, DefaultGlobal[f])]

Means(file) ==
  [servers |-> [i \in 1..Max({1, Cardinality(Blocks(file))}) |-> ServerMeans(file, i)],
   global |-> GlobalMeans(file)]
=============================================================================
