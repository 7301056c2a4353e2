----------------------------- MODULE CacheStore -----------------------------
(***************************************************************************)
(* The response cache: cache.c, and the parts of handler_dispatch and      *)
(* proxy_on_upstream_event that call it.  The entries are files that all   *)
(* worker processes share, so every system call is a step.  A worker is    *)
(* one thread: while one of its connections is in a cache call the others  *)
(* wait.                                                                   *)
(*                                                                         *)
(* A file is a sequence of cells: the header, then the bytes of a response *)
(* in a few pieces, each marked with the response it belongs to.           *)
(***************************************************************************)
EXTENDS Integers, Sequences, FiniteSets

CONSTANTS
  Conns,         \* the conn_t objects of all workers
  Workers,
  WorkerOf,      \* the worker a conn_t belongs to
  Keys,          \* cache_key_from_request: method, host and path
  Cached,        \* keys of a server with a cache
  Gets,          \* keys of a GET request
  Truncated,     \* the key as conn->cache_key[256] holds it
  Slots, Hash,   \* file names, and the one that fnv1a gives a key
  Inodes, NONE,
  Pieces,        \* the largest response, in pieces
  Ttl,           \* the ttl of cache_insert, 10
  MaxEntries,    \* store->max_entries
  MaxNow, MaxResponses,  \* bounds: clock and responses of a behaviour
  Faults         \* {"crash", "disk"}: what may fail

ASSUME CacheAssumption ==
  /\ WorkerOf \in [Conns -> Workers] /\ Hash \in [Keys -> Slots]
  /\ Truncated \in [Keys -> Keys] /\ Cached \subseteq Keys /\ Gets \subseteq Keys
  /\ NONE \notin Inodes /\ Pieces \in Nat /\ Ttl \in Nat \ {0}
  /\ MaxNow \in Nat /\ MaxResponses \in Nat

VARIABLES
  entry, tmp,    \* the inode behind <hash>.cache and <hash>.cache.tmp
  file,          \* the cells of an inode
  now,
  pc,            \* the next system call of a connection
  key,           \* of its request
  fd,            \* the inode it has open
  hdr,           \* the header cache_lookup has read
  resp,          \* the response from the backend, as pieces
  cache_store, cache_key,        \* conn_t, never reset
  hit,           \* the last answer from the cache: key, header and pieces
  responses      \* responses so far

disk == <<entry, tmp, file>>
memory == <<key, resp, cache_store, cache_key>>
vars == <<disk, memory, now, pc, fd, hdr, hit, responses>>

\* The pieces of response number n, which answers a request with key k.
Response(k, n, len) == [j \in 1..len |-> [key |-> k, n |-> n, pos |-> j]]

\* What a gap in a file reads as: a header of zeros.
Gap == [len |-> 0, expire |-> 0]

Header(len, t) == [len |-> len, expire |-> t]

\* The cells of f after cells are written at offset off.
WriteAt(f, off, cells) ==
  LET end == IF cells = <<>> THEN 0 ELSE off + Len(cells)
  IN  [j \in 1..(IF Len(f) > end THEN Len(f) ELSE end) |->
         IF j > off /\ j <= end THEN cells[j - off]
         ELSE IF j <= Len(f) THEN f[j] ELSE Gap]

\* The worker of c is in its event loop.
Free(c) == \A d \in Conns : WorkerOf[d] = WorkerOf[c] => pc[d] \in {"idle", "proxy"}

Go(c, label) == pc' = [pc EXCEPT ![c] = label]

Unlinked == {i \in Inodes : /\ \A s \in Slots : entry[s] # i /\ tmp[s] # i
                            /\ \A c \in Conns : fd[c] # i}

Init ==
  /\ entry = [s \in Slots |-> NONE] /\ tmp = [s \in Slots |-> NONE]
  /\ file = [i \in Inodes |-> <<>>] /\ now = 0
  /\ pc = [c \in Conns |-> "idle"] /\ key \in [Conns -> Keys]
  /\ fd = [c \in Conns |-> NONE] /\ hdr = [c \in Conns |-> Gap]
  /\ resp = [c \in Conns |-> <<>>]
  /\ cache_store = [c \in Conns |-> FALSE] /\ cache_key = key
  /\ hit = [c \in Conns |-> NONE] /\ responses = 0

Tick == now < MaxNow /\ now' = now + 1
        /\ UNCHANGED <<disk, memory, pc, fd, hdr, hit, responses>>

-----------------------------------------------------------------------------
(* handler.c: the cache and the proxy *)

\* Mutant: a key that is already there is kept.
ForwardOnce(c, k) ==
  /\ Go(c, "proxy")
  /\ cache_store' = [cache_store EXCEPT ![c] = @ \/ k \in Cached]
  /\ cache_key' = [cache_key EXCEPT ![c] =
                     IF k \in Cached /\ ~cache_store[c] THEN Truncated[k] ELSE @]

\* The request goes to the backend, with cache_store and cache_key set if its
\* server has a cache and left as they are if not.
Forward(c, k) ==
  /\ Go(c, "proxy")
  /\ cache_store' = [cache_store EXCEPT ![c] = @ \/ k \in Cached]
  /\ cache_key' = [cache_key EXCEPT ![c] = IF k \in Cached THEN Truncated[k] ELSE @]

handler_dispatch(c, k) ==
  /\ pc[c] = "idle" /\ Free(c)
  /\ key' = [key EXCEPT ![c] = k] /\ hit' = [hit EXCEPT ![c] = NONE]
  /\ IF k \in Cached \cap Gets
     THEN Go(c, "open") /\ UNCHANGED <<cache_store, cache_key>>
     ELSE Forward(c, k)
  /\ UNCHANGED <<disk, resp, now, fd, hdr, responses>>

\* cache_lookup has returned an error, or an empty entry.
Miss(c) == Forward(c, key[c]) /\ fd' = [fd EXCEPT ![c] = NONE]

-----------------------------------------------------------------------------
(* cache.c: cache_lookup *)

LookupOpen(c) ==
  /\ pc[c] = "open"
  /\ \/ (entry[Hash[key[c]]] = NONE \/ "disk" \in Faults) /\ Miss(c)
     \/ /\ entry[Hash[key[c]]] # NONE
        /\ fd' = [fd EXCEPT ![c] = entry[Hash[key[c]]]]
        /\ Go(c, "read_header") /\ UNCHANGED <<cache_store, cache_key>>
  /\ UNCHANGED <<disk, key, resp, now, hdr, hit, responses>>

\* Mutant: an entry expires a second early.
HeaderEarly(c) ==
  /\ pc[c] = "read_header"
  /\ LET f == file[fd[c]]
         head == IF f = <<>> THEN Gap ELSE f[1]
     IN  \/ (head.len = 0 \/ "disk" \in Faults) /\ Miss(c) /\ hdr' = hdr
         \/ /\ head.len > 0 /\ hdr' = [hdr EXCEPT ![c] = head]
            /\ IF head.expire > 0 /\ now >= head.expire
               THEN Go(c, "unlink") /\ fd' = [fd EXCEPT ![c] = NONE]
               ELSE Go(c, "read_data") /\ fd' = fd
            /\ UNCHANGED <<cache_store, cache_key>>
  /\ UNCHANGED <<disk, key, resp, now, hit, responses>>

\* A read that fails, a file that is too short and a header that announces
\* nothing are misses.
LookupHeader(c) ==
  /\ pc[c] = "read_header"
  /\ LET f == file[fd[c]]
         head == IF f = <<>> THEN Gap ELSE f[1]
     IN  \/ (head.len = 0 \/ "disk" \in Faults) /\ Miss(c) /\ hdr' = hdr
         \/ /\ head.len > 0 /\ hdr' = [hdr EXCEPT ![c] = head]
            /\ IF head.expire > 0 /\ now > head.expire
               THEN Go(c, "unlink") /\ fd' = [fd EXCEPT ![c] = NONE]
               ELSE Go(c, "read_data") /\ fd' = fd
            /\ UNCHANGED <<cache_store, cache_key>>
  /\ UNCHANGED <<disk, key, resp, now, hit, responses>>

\* unlink takes whatever the name stands for by now.
LookupUnlink(c) ==
  /\ pc[c] = "unlink" /\ Miss(c)
  /\ entry' = [entry EXCEPT ![Hash[key[c]]] = NONE]
  /\ hdr' = [hdr EXCEPT ![c] = Gap]
  /\ UNCHANGED <<tmp, file, key, resp, now, hit, responses>>

\* Mutant: the read does not start behind the header.
DataFromStart(c) ==
  /\ pc[c] = "read_data"
  /\ LET f == file[fd[c]]  n == hdr[c].len
     IN  \/ Len(f) < n /\ Miss(c) /\ hit' = hit
         \/ /\ Len(f) >= n /\ Go(c, "idle") /\ fd' = [fd EXCEPT ![c] = NONE]
            /\ hit' = [hit EXCEPT ![c] =
                 [key |-> key[c], hdr |-> hdr[c], data |-> SubSeq(f, 1, n)]]
            /\ UNCHANGED <<cache_store, cache_key>>
  /\ hdr' = [hdr EXCEPT ![c] = Gap]
  /\ UNCHANGED <<disk, key, resp, now, responses>>

LookupData(c) ==
  /\ pc[c] = "read_data"
  /\ LET f == file[fd[c]]  n == hdr[c].len
     IN  \/ (Len(f) < n + 1 \/ "disk" \in Faults) /\ Miss(c) /\ hit' = hit
         \/ /\ Len(f) >= n + 1 /\ Go(c, "idle") /\ fd' = [fd EXCEPT ![c] = NONE]
            /\ hit' = [hit EXCEPT ![c] =
                 [key |-> key[c], hdr |-> hdr[c], data |-> SubSeq(f, 2, n + 1)]]
            /\ UNCHANGED <<cache_store, cache_key>>
  /\ hdr' = [hdr EXCEPT ![c] = Gap]
  /\ UNCHANGED <<disk, key, resp, now, responses>>

-----------------------------------------------------------------------------
(* proxy_conn.c: the end of an exchange *)

\* The backend has closed: the response is complete and is inserted.
UpstreamClosed(c, len) ==
  /\ pc[c] = "proxy" /\ Free(c) /\ responses < MaxResponses
  /\ responses' = responses + 1
  /\ IF cache_store[c]
     THEN Go(c, "create")
          /\ resp' = [resp EXCEPT ![c] = Response(key[c], responses + 1, len)]
     ELSE Go(c, "idle") /\ resp' = resp
  /\ UNCHANGED <<disk, key, cache_store, cache_key, now, fd, hdr, hit>>

\* The exchange ends in another way: nothing is inserted.
Abandoned(c) ==
  /\ pc[c] = "proxy" /\ Free(c) /\ Go(c, "idle")
  /\ UNCHANGED <<disk, memory, now, fd, hdr, hit, responses>>

-----------------------------------------------------------------------------
(* cache.c: cache_insert *)

Slot(c) == Hash[cache_key[c]]

\* cache_insert returns and cache_buf is freed.
Return(c) == Go(c, "idle") /\ resp' = [resp EXCEPT ![c] = <<>>]

\* Mutant: the entry is written in place.
CreateInPlace(c) ==
  /\ pc[c] = "create"
  /\ \E i \in (IF entry[Slot(c)] = NONE THEN Unlinked ELSE {entry[Slot(c)]}) :
       /\ entry' = [entry EXCEPT ![Slot(c)] = i] /\ tmp' = [tmp EXCEPT ![Slot(c)] = i]
       /\ file' = [file EXCEPT ![i] = <<>>] /\ fd' = [fd EXCEPT ![c] = i]
  /\ Go(c, "write_header")
  /\ UNCHANGED <<memory, now, hdr, hit, responses>>

\* open(tmp_path, O_CREAT | O_TRUNC)
InsertCreate(c) ==
  /\ pc[c] = "create"
  /\ \/ /\ \E i \in (IF tmp[Slot(c)] = NONE THEN Unlinked ELSE {tmp[Slot(c)]}) :
             /\ tmp' = [tmp EXCEPT ![Slot(c)] = i] /\ fd' = [fd EXCEPT ![c] = i]
             /\ file' = [file EXCEPT ![i] = <<>>]
        /\ Go(c, "write_header")
        /\ resp' = resp
     \/ "disk" \in Faults /\ Return(c) /\ UNCHANGED <<tmp, file, fd>>
  /\ UNCHANGED <<entry, key, cache_store, cache_key, now, hdr, hit, responses>>

\* A write that fails may have written a part.
InsertHeader(c) ==
  /\ pc[c] = "write_header"
  /\ \/ /\ file' = [file EXCEPT ![fd[c]] =
                      WriteAt(@, 0, <<Header(Len(resp[c]), now + Ttl)>>)]
        /\ Go(c, "write_data") /\ fd' = fd
     \/ /\ "disk" \in Faults /\ Go(c, "unlink_tmp") /\ file' = file
        /\ fd' = [fd EXCEPT ![c] = NONE]
  /\ UNCHANGED <<entry, tmp, memory, now, hdr, hit, responses>>

InsertData(c) ==
  /\ pc[c] = "write_data"
  /\ \E n \in (IF "disk" \in Faults THEN 0..Len(resp[c]) ELSE {Len(resp[c])}) :
       /\ file' = [file EXCEPT ![fd[c]] = WriteAt(@, 1, SubSeq(resp[c], 1, n))]
       /\ Go(c, IF n = Len(resp[c]) THEN "rename" ELSE "unlink_tmp")
  /\ fd' = [fd EXCEPT ![c] = NONE]
  /\ UNCHANGED <<entry, tmp, memory, now, hdr, hit, responses>>

\* rename(tmp_path, path) fails also when the temporary file is gone.
InsertRename(c) ==
  /\ pc[c] = "rename"
  /\ \/ /\ tmp[Slot(c)] = NONE \/ "disk" \in Faults
        /\ Go(c, "unlink_tmp") /\ UNCHANGED <<entry, tmp, resp>>
     \/ /\ tmp[Slot(c)] # NONE
        /\ entry' = [entry EXCEPT ![Slot(c)] = tmp[Slot(c)]]
        /\ tmp' = [tmp EXCEPT ![Slot(c)] = NONE]
        /\ Return(c)
  /\ UNCHANGED <<file, key, cache_store, cache_key, now, fd, hdr, hit, responses>>

InsertUnlink(c) ==
  /\ pc[c] = "unlink_tmp" /\ Return(c)
  /\ tmp' = [tmp EXCEPT ![Slot(c)] = NONE]
  /\ UNCHANGED <<entry, file, key, cache_store, cache_key, now, fd, hdr, hit, responses>>

-----------------------------------------------------------------------------
\* A worker dies and is respawned: its conn_t objects are new, the files stay.
Crash(w) ==
  /\ "crash" \in Faults
  /\ pc' = [c \in Conns |-> IF WorkerOf[c] = w THEN "idle" ELSE pc[c]]
  /\ fd' = [c \in Conns |-> IF WorkerOf[c] = w THEN NONE ELSE fd[c]]
  /\ cache_store' = [c \in Conns |-> IF WorkerOf[c] = w THEN FALSE ELSE cache_store[c]]
  /\ resp' = [c \in Conns |-> IF WorkerOf[c] = w THEN <<>> ELSE resp[c]]
  /\ hdr' = [c \in Conns |-> IF WorkerOf[c] = w THEN Gap ELSE hdr[c]]
  /\ UNCHANGED <<disk, now, key, cache_key, hit, responses>>

ConnStep(c) ==
  \/ \E k \in Keys : handler_dispatch(c, k)
  \/ LookupOpen(c) \/ LookupHeader(c) \/ LookupUnlink(c) \/ LookupData(c)
  \/ \E len \in 1..Pieces : UpstreamClosed(c, len)
  \/ Abandoned(c)
  \/ InsertCreate(c) \/ InsertHeader(c) \/ InsertData(c) \/ InsertRename(c)
  \/ InsertUnlink(c)

Next == Tick \/ (\E c \in Conns : ConnStep(c)) \/ (\E w \in Workers : Crash(w))

Spec == Init /\ [][Next]_vars

-----------------------------------------------------------------------------
Label == {"idle", "proxy", "open", "read_header", "unlink", "read_data", "create",
          "write_header", "write_data", "rename", "unlink_tmp"}

TypeOK ==
  /\ entry \in [Slots -> Inodes \cup {NONE}] /\ tmp \in [Slots -> Inodes \cup {NONE}]
  /\ fd \in [Conns -> Inodes \cup {NONE}] /\ now \in 0..MaxNow
  /\ pc \in [Conns -> Label] /\ key \in [Conns -> Keys] /\ cache_key \in [Conns -> Keys]
  /\ cache_store \in [Conns -> BOOLEAN] /\ responses \in 0..MaxResponses
  /\ \A i \in Inodes : Len(file[i]) <= Pieces + 1
  /\ \A c \in Conns : pc[c] \in {"read_header", "read_data", "write_header", "write_data"}
                        => fd[c] \in Inodes

\* The answer from the cache is one response, in one piece, even when the
\* entry is replaced or expires between the reads of cache_lookup.
HitWhole ==
  \A c \in Conns : hit[c] # NONE =>
    \E k \in Keys, n \in 1..MaxResponses : hit[c].data = Response(k, n, hit[c].hdr.len)

\* A published entry is never written to again.
PublishedStable ==
  [][\A s \in Slots : entry[s] # NONE => file'[entry[s]] = file[entry[s]]]_vars

\* README.md:71, "TTL expiry": an entry leaves the cache only once its time
\* has passed, unless a newer one replaces it.
FreshKept ==
  [][\A s \in Slots : entry[s] # NONE /\ entry'[s] = NONE
        => now > file[entry[s]][1].expire]_vars

\* README.md:71, "HTTP response cache": every piece of an answer from the cache
\* comes from a response to the same request, also with several workers.
HitAnswers ==
  \A c \in Conns : hit[c] # NONE =>
    \A j \in DOMAIN hit[c].data : hit[c].data[j].key = hit[c].key

\* README.md:149, "max_entries = 1024": the number of entries is limited.
EntriesBounded == Cardinality({s \in Slots : entry[s] # NONE}) <= MaxEntries
=============================================================================
