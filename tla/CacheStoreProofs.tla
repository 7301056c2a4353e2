-------------------------- MODULE CacheStoreProofs --------------------------
(***************************************************************************)
(* With one worker on a cache directory a published entry is never written *)
(* to again, and an entry that leaves the cache has expired.               *)
(*                                                                         *)
(* The argument: the worker is one thread, so at most one connection is in *)
(* a cache call (Exclusive); the inode a call writes to is then the one    *)
(* behind its temporary name (Writing), and no inode has two names         *)
(* (Names).  What cache_lookup has read of the entry still holds when it   *)
(* unlinks it (Reading), because nobody else can have replaced it.         *)
(***************************************************************************)
EXTENDS CacheStore, TLAPS

OneWorker == \A c, d \in Conns : WorkerOf[c] = WorkerOf[d]

Resting == {"idle", "proxy"}

HeaderT == [len : Nat, expire : Nat]

Cell == HeaderT \cup [key : Keys, n : Nat, pos : Nat]

Types ==
  /\ entry \in [Slots -> Inodes \cup {NONE}] /\ tmp \in [Slots -> Inodes \cup {NONE}]
  /\ file \in [Inodes -> Seq(Cell)] /\ resp \in [Conns -> Seq(Cell)]
  /\ \A i \in Inodes : file[i] # <<>> => file[i][1] \in HeaderT
  /\ now \in Nat /\ responses \in Nat
  /\ fd \in [Conns -> Inodes \cup {NONE}] /\ pc \in [Conns -> Label]
  /\ key \in [Conns -> Keys] /\ cache_key \in [Conns -> Keys]

Exclusive == \A c, d \in Conns : pc[c] \notin Resting /\ pc[d] \notin Resting => c = d

Names ==
  /\ \A s, t \in Slots : entry[s] # NONE => entry[s] # tmp[t]
  /\ \A s, t \in Slots : tmp[s] # NONE /\ tmp[s] = tmp[t] => s = t

Writing ==
  \A c \in Conns : pc[c] \in {"write_header", "write_data"}
    => fd[c] # NONE /\ fd[c] = tmp[Slot(c)]

Expired(i) == file[i] # <<>> /\ now > file[i][1].expire

Reading ==
  \A c \in Conns :
    LET i == entry[Hash[key[c]]]
    IN  /\ pc[c] = "read_header" => i # NONE /\ fd[c] = i
        /\ pc[c] = "unlink" => i # NONE /\ Expired(i)

Inv == Types /\ Exclusive /\ Names /\ Writing /\ Reading

\* What one step may do to the entries.
Kept ==
  /\ \A s \in Slots : entry[s] # NONE => file'[entry[s]] = file[entry[s]]
  /\ \A s \in Slots : entry[s] # NONE /\ entry'[s] = NONE => Expired(entry[s])

\* Facts about the constants.
LEMMA Constants ==
  /\ \A k \in Keys : Hash[k] \in Slots /\ Truncated[k] \in Keys
  /\ NONE \notin Inodes
BY CacheAssumption

\* What cache_insert stamps on a response is a header.
LEMMA HeaderType ==
  ASSUME NEW r \in Seq(Cell), NEW t \in Nat
  PROVE  Header(Len(r), t + Ttl) \in HeaderT
BY CacheAssumption DEF Header, HeaderT

\* A write leaves a file a file that starts with a header.
LEMMA WriteHeader ==
  ASSUME NEW f \in Seq(Cell), NEW h \in HeaderT
  PROVE  /\ WriteAt(f, 0, <<h>>) \in Seq(Cell)
         /\ WriteAt(f, 0, <<h>>)[1] \in HeaderT
<1>1. <<h>> \in Seq(Cell) /\ Len(<<h>>) = 1 /\ <<h>>[1] = h /\ <<h>> # <<>>
  BY DEF Cell
<1>. DEFINE e == IF Len(f) > 1 THEN Len(f) ELSE 1
<1>2. WriteAt(f, 0, <<h>>) = [j \in 1..e |-> IF j > 0 /\ j <= 1 THEN <<h>>[j - 0]
                              ELSE IF j <= Len(f) THEN f[j] ELSE Gap]
  BY <1>1 DEF WriteAt
<1>3. e \in Nat /\ e >= 1 /\ Gap \in Cell
  BY DEF Gap, Cell, HeaderT
<1>4. \A j \in 1..e : WriteAt(f, 0, <<h>>)[j] \in Cell
  BY <1>1, <1>2, <1>3
<1>. HIDE DEF e
<1>. QED
  BY <1>1, <1>2, <1>3, <1>4

\* The same for the pieces behind the header.
LEMMA WriteData ==
  ASSUME NEW f \in Seq(Cell), f # <<>> => f[1] \in HeaderT, NEW d \in Seq(Cell)
  PROVE  /\ WriteAt(f, 1, d) \in Seq(Cell)
         /\ WriteAt(f, 1, d) # <<>> => WriteAt(f, 1, d)[1] \in HeaderT
<1>. DEFINE end == IF d = <<>> THEN 0 ELSE 1 + Len(d)
            e == IF Len(f) > end THEN Len(f) ELSE end
<1>2. WriteAt(f, 1, d) = [j \in 1..e |-> IF j > 1 /\ j <= end THEN d[j - 1]
                          ELSE IF j <= Len(f) THEN f[j] ELSE Gap]
  BY DEF WriteAt
<1>3. e \in Nat /\ end \in Nat /\ (d = <<>> => end = 0) /\ (d # <<>> => end = 1 + Len(d))
      /\ Gap \in Cell /\ Gap \in HeaderT
  BY DEF Gap, Cell, HeaderT
<1>. HIDE DEF e, end
<1>4. \A j \in 1..e : WriteAt(f, 1, d)[j] \in Cell
  BY <1>2, <1>3, SMTT(60)
<1>5. WriteAt(f, 1, d) \in Seq(Cell) /\ Len(WriteAt(f, 1, d)) = e
  BY <1>2, <1>3, <1>4
<1>6. ASSUME e >= 1 PROVE WriteAt(f, 1, d)[1] \in HeaderT
  BY <1>2, <1>3, <1>6
<1>. QED
  BY <1>5, <1>6, <1>3

\* Nothing is published, and no call is in progress, at the start.
LEMMA InitInv == Init => Inv
<1>. SUFFICES ASSUME Init PROVE Inv
  OBVIOUS
<1>1. Types
  BY DEF Init, Types, Label
<1>. QED
  BY <1>1 DEF Init, Inv, Exclusive, Names, Writing, Reading, Resting

\* While a connection takes a step, no other one is in a cache call.
Alone(c) == \A d \in Conns \ {c} : pc[d] \in Resting

\* Who takes a step is the one connection that may be in a cache call.
LEMMA StepAlone ==
  ASSUME OneWorker, Inv, NEW c \in Conns, ConnStep(c)
  PROVE  Alone(c)
<1>1. Free(c) \/ pc[c] \notin Resting
  BY DEF ConnStep, handler_dispatch, LookupOpen, LookupHeader, LookupUnlink, LookupData,
         UpstreamClosed, Abandoned, InsertCreate, InsertHeader, InsertData, InsertRename,
         InsertUnlink, Resting
<1>. QED
  BY <1>1 DEF OneWorker, Inv, Exclusive, Alone, Free, Resting

\* What Writing and Reading say of one connection.
WritingAt(c) ==
  pc[c] \in {"write_header", "write_data"} => fd[c] # NONE /\ fd[c] = tmp[Slot(c)]

ReadingAt(c) ==
  /\ pc[c] = "read_header" =>
       entry[Hash[key[c]]] # NONE /\ fd[c] = entry[Hash[key[c]]]
  /\ pc[c] = "unlink" =>
       entry[Hash[key[c]]] # NONE /\ Expired(entry[Hash[key[c]]])

\* A step of one connection concerns the others only through the files, and
\* they are not in a cache call.
LEMMA OnlyMe ==
  ASSUME Types, NEW c \in Conns, Alone(c), Types', WritingAt(c)', ReadingAt(c)', Names',
         NEW l, pc' = [pc EXCEPT ![c] = l]
  PROVE  Inv'
<1>1. \A d \in Conns \ {c} : pc'[d] \in Resting
  BY DEF Types, Alone
<1>2. Exclusive'
  BY <1>1 DEF Exclusive
<1>3. \A d \in Conns : WritingAt(d)' /\ ReadingAt(d)'
  BY <1>1 DEF WritingAt, ReadingAt, Resting
<1>4. Writing' /\ Reading'
  BY <1>3 DEF Writing, Reading, WritingAt, ReadingAt
<1>. QED
  BY <1>2, <1>4 DEF Inv

\* handler_dispatch on its way to the backend.
LEMMA ForwardTypes ==
  ASSUME Types, NEW c \in Conns, NEW k \in Keys, Forward(c, k)
  PROVE  pc' \in [Conns -> Label] /\ cache_key' \in [Conns -> Keys]
<1>1. pc' \in [Conns -> Label]
  BY DEF Types, Forward, Go, Label
<1>2. cache_key' \in [Conns -> Keys]
  BY Constants DEF Types, Forward
<1>. QED
  BY <1>1, <1>2

\* Steps that leave the files alone.
LEMMA LookupInv ==
  ASSUME Inv, NEW c \in Conns, Alone(c),
         \/ \E k \in Keys : handler_dispatch(c, k)
         \/ LookupOpen(c) \/ LookupHeader(c) \/ LookupData(c) \/ Abandoned(c)
         \/ \E len \in 1..Pieces : UpstreamClosed(c, len)
  PROVE  Inv' /\ Kept
<1>. USE DEF WritingAt, ReadingAt
<1>1. Types /\ Names /\ WritingAt(c) /\ ReadingAt(c)
  BY DEF Inv, Writing, Reading
<1>2. UNCHANGED <<entry, tmp, file, now>>
  BY Zenon DEF handler_dispatch, LookupOpen, LookupHeader, LookupData, Abandoned,
         UpstreamClosed, disk, memory
<1>3. Kept /\ Names'
  BY <1>1, <1>2 DEF Kept, Names
<1>4. CASE \E k \in Keys : handler_dispatch(c, k)
  <2>1. PICK k \in Keys : handler_dispatch(c, k)
    BY <1>4
  <2>2. Types'
    <3>1. key' = [key EXCEPT ![c] = k] /\ UNCHANGED <<resp, now, fd, responses>>
      BY <2>1 DEF handler_dispatch
    <3>a. CASE k \in Cached \cap Gets
      BY ONLY <1>1, <1>2, <2>1, <3>1, <3>a, ZenonT(60) DEF handler_dispatch, Go, Types, Label
    <3>b. CASE k \notin Cached \cap Gets
      <4>1. Forward(c, k)
        BY <2>1, <3>b DEF handler_dispatch
      <4>. QED
        BY <1>1, <1>2, <3>1, <4>1, ForwardTypes DEF Types
    <3>. QED
      BY <3>a, <3>b
  <2>3. pc'[c] \in {"open", "proxy"} /\ \E l : pc' = [pc EXCEPT ![c] = l]
    BY <1>1, <2>1 DEF Types, handler_dispatch, Forward, Go
  <2>. QED
    BY <1>1, <1>3, <2>2, <2>3, OnlyMe, Zenon
<1>5. CASE LookupOpen(c)
  <2>1. Types'
    <3>1. \/ Forward(c, key[c])
          \/ (\E l \in Label : pc' = [pc EXCEPT ![c] = l]) /\ cache_key' = cache_key
      BY ONLY <1>5 DEF LookupOpen, Miss, Go, Label
    <3>2. /\ \/ fd' = [fd EXCEPT ![c] = NONE] \/ fd' = fd
             \/ fd' = [fd EXCEPT ![c] = entry[Hash[key[c]]]]
          /\ UNCHANGED <<key, resp, now, responses>>
      BY <1>5 DEF LookupOpen, Miss
    <3>3. pc' \in [Conns -> Label] /\ cache_key' \in [Conns -> Keys]
      BY <1>1, <3>1, ForwardTypes, Zenon DEF Types
    <3>4. fd' \in [Conns -> Inodes \cup {NONE}]
      BY <1>1, <3>2, Constants, Zenon DEF Types
    <3>. QED
      BY <1>1, <1>2, <3>2, <3>3, <3>4, SMTT(30) DEF Types
  <2>2. /\ \/ pc'[c] = "proxy"
           \/ /\ pc'[c] = "read_header" /\ entry[Hash[key[c]]] # NONE
              /\ fd'[c] = entry[Hash[key[c]]]
        /\ key' = key /\ \E l : pc' = [pc EXCEPT ![c] = l]
    BY <1>1, <1>5 DEF Types, LookupOpen, Miss, Forward, Go
  <2>. QED
    BY <1>1, <1>2, <1>3, <2>1, <2>2, OnlyMe, Zenon
<1>6. CASE LookupHeader(c)
  <2>1. Types'
    <3>1. \/ Forward(c, key[c])
          \/ (\E l \in Label : pc' = [pc EXCEPT ![c] = l]) /\ cache_key' = cache_key
      BY <1>6, ZenonT(40) DEF LookupHeader, Miss, Go, Label
    <3>2. /\ \/ fd' = [fd EXCEPT ![c] = NONE] \/ fd' = fd
             \/ fd' = [fd EXCEPT ![c] = entry[Hash[key[c]]]]
          /\ UNCHANGED <<key, resp, now, responses>>
      BY <1>6, Zenon DEF LookupHeader, Miss
    <3>3. pc' \in [Conns -> Label] /\ cache_key' \in [Conns -> Keys]
      BY <1>1, <3>1, ForwardTypes, Zenon DEF Types
    <3>4. fd' \in [Conns -> Inodes \cup {NONE}]
      BY <1>1, <3>2, Constants, Zenon DEF Types
    <3>. QED
      BY <1>1, <1>2, <3>2, <3>3, <3>4 DEF Types
  <2>2. key' = key /\ \E l : pc' = [pc EXCEPT ![c] = l]
    BY ONLY <1>6 DEF LookupHeader, Miss, Forward, Go
  <2>3. pc'[c] \in {"proxy", "unlink", "read_data"}
    BY ONLY <1>1, <1>6 DEF Types, LookupHeader, Miss, Forward, Go
  <2>4. ASSUME pc'[c] = "unlink" PROVE Expired(fd[c]) /\ fd[c] = entry[Hash[key[c]]]
    BY ONLY <1>1, <1>6, <2>4 DEF Types, LookupHeader, Miss, Forward, Go, Expired, Gap
  <2>5. pc'[c] = "unlink" => Expired(entry[Hash[key[c]]])'
    BY <1>2, <2>2, <2>4 DEF Expired
  <2>. QED
    BY <1>1, <1>2, <1>3, <1>6, <2>1, <2>2, <2>3, <2>5, OnlyMe, Zenon DEF LookupHeader
<1>7. CASE LookupData(c)
  <2>1. Types'
    <3>1. \/ Forward(c, key[c])
          \/ (\E l \in Label : pc' = [pc EXCEPT ![c] = l]) /\ cache_key' = cache_key
      BY ONLY <1>7 DEF LookupData, Miss, Go, Label
    <3>2. /\ \/ fd' = [fd EXCEPT ![c] = NONE] \/ fd' = fd
             \/ fd' = [fd EXCEPT ![c] = entry[Hash[key[c]]]]
          /\ UNCHANGED <<key, resp, now, responses>>
      BY <1>7, Zenon DEF LookupData, Miss
    <3>3. pc' \in [Conns -> Label] /\ cache_key' \in [Conns -> Keys]
      BY <1>1, <3>1, ForwardTypes, Zenon DEF Types
    <3>4. fd' \in [Conns -> Inodes \cup {NONE}]
      BY <1>1, <3>2, Constants, Zenon DEF Types
    <3>. QED
      BY <1>1, <1>2, <3>2, <3>3, <3>4 DEF Types
  <2>2. pc'[c] \in Resting /\ \E l : pc' = [pc EXCEPT ![c] = l]
    BY <1>1, <1>7, Zenon DEF Types, LookupData, Miss, Forward, Go, Resting
  <2>. QED
    BY <1>1, <1>3, <2>1, <2>2, OnlyMe, ZenonT(40) DEF Resting
<1>8. CASE Abandoned(c)
  <2>1. Types'
    BY <1>1, <1>8 DEF Types, Abandoned, Go, disk, memory, Label
  <2>2. pc'[c] \in Resting /\ \E l : pc' = [pc EXCEPT ![c] = l]
    BY <1>1, <1>8, Zenon DEF Types, Abandoned, Go, Resting
  <2>. QED
    BY <1>1, <1>3, <2>1, <2>2, OnlyMe, Zenon DEF Resting
<1>9. CASE \E len \in 1..Pieces : UpstreamClosed(c, len)
  <2>1. PICK len \in 1..Pieces : UpstreamClosed(c, len)
    BY <1>9
  <2>2. Response(key[c], responses + 1, len) \in Seq(Cell)
    BY <1>1, <2>1, CacheAssumption DEF Types, Response, Cell
  <2>3. Types'
    <3>1. /\ \E l \in Label : pc' = [pc EXCEPT ![c] = l]
          /\ \/ resp' = [resp EXCEPT ![c] = Response(key[c], responses + 1, len)]
             \/ resp' = resp
          /\ responses' = responses + 1 /\ UNCHANGED <<key, cache_key, fd>>
      BY <2>1, Zenon DEF UpstreamClosed, Go, Label
    <3>a. pc' \in [Conns -> Label] /\ responses' \in Nat
      BY <1>1, <3>1 DEF Types
    <3>2. resp' \in [Conns -> Seq(Cell)]
      <4>. DEFINE r == Response(key[c], responses + 1, len)
      <4>1. resp' = [resp EXCEPT ![c] = r] \/ resp' = resp
        BY <3>1
      <4>2. r \in Seq(Cell) /\ resp \in [Conns -> Seq(Cell)]
        BY <1>1, <2>2 DEF Types
      <4>. HIDE DEF r
      <4>. QED
        BY <4>1, <4>2, Zenon
    <3>. QED
      BY <1>1, <1>2, <3>1, <3>2, <3>a DEF Types
  <2>4. pc'[c] \in {"create", "idle"} /\ \E l : pc' = [pc EXCEPT ![c] = l]
    BY <1>1, <2>1 DEF Types, UpstreamClosed, Go
  <2>. QED
    BY <1>1, <1>3, <2>3, <2>4, OnlyMe, Zenon
<1>. QED
  BY <1>4, <1>5, <1>6, <1>7, <1>8, <1>9

\* Steps of cache_insert, and the unlink of cache_lookup.
LEMMA InsertInv ==
  ASSUME Inv, NEW c \in Conns, Alone(c),
         \/ LookupUnlink(c) \/ InsertCreate(c) \/ InsertHeader(c) \/ InsertData(c)
         \/ InsertRename(c) \/ InsertUnlink(c)
  PROVE  Inv' /\ Kept
<1>. USE DEF WritingAt, ReadingAt
<1>. DEFINE s == Slot(c)
<1>1. Types /\ Names /\ WritingAt(c) /\ ReadingAt(c)
  BY Zenon DEF Inv, Writing, Reading
<1>2. s \in Slots /\ Hash[key[c]] \in Slots
  BY <1>1, Constants DEF Types, Slot
<1>3. CASE LookupUnlink(c)
  <2>1. /\ entry' = [entry EXCEPT ![Hash[key[c]]] = NONE] /\ UNCHANGED <<tmp, file, now>>
        /\ UNCHANGED <<key, resp, responses>> /\ fd' = [fd EXCEPT ![c] = NONE]
        /\ pc' = [pc EXCEPT ![c] = "proxy"] /\ pc[c] = "unlink"
    BY <1>3, Zenon DEF LookupUnlink, Miss, Forward, Go
  <2>2. cache_key' \in [Conns -> Keys] /\ pc' \in [Conns -> Label]
    BY <1>1, <1>3, ForwardTypes, SMTT(30) DEF LookupUnlink, Miss, Types
  <2>3. Types'
    BY <1>1, <1>2, <2>1, <2>2 DEF Types
  <2>4. Names' /\ Kept
    BY <1>1, <1>2, <2>1 DEF Names, Kept, Types
  <2>. QED
    BY <1>1, <2>1, <2>3, <2>4, OnlyMe, ZenonT(40) DEF Types
<1>4. CASE InsertCreate(c)
  <2>1. UNCHANGED <<entry, key, cache_key, now, responses>>
    BY <1>4 DEF InsertCreate
  <2>2. CASE Return(c) /\ UNCHANGED <<tmp, file, fd>>
    <3>1. Types' /\ Names' /\ Kept
      BY <1>1, <2>1, <2>2 DEF Types, Names, Kept, Return, Go, Label
    <3>. QED
      BY <1>1, <2>2, <3>1, OnlyMe, Zenon DEF Return, Go, Types
  <2>3. CASE \E i \in (IF tmp[s] = NONE THEN Unlinked ELSE {tmp[s]}) :
               /\ tmp' = [tmp EXCEPT ![s] = i] /\ fd' = [fd EXCEPT ![c] = i]
               /\ file' = [file EXCEPT ![i] = <<>>]
               /\ Go(c, "write_header") /\ resp' = resp
    <3>1. PICK i \in (IF tmp[s] = NONE THEN Unlinked ELSE {tmp[s]}) :
               /\ tmp' = [tmp EXCEPT ![s] = i] /\ fd' = [fd EXCEPT ![c] = i]
               /\ file' = [file EXCEPT ![i] = <<>>]
               /\ Go(c, "write_header") /\ resp' = resp
      BY <2>3, Zenon
    <3>2. /\ i \in Inodes /\ \A t \in Slots : entry[t] # i /\ (t # s => tmp[t] # i)
      BY <1>1, <1>2, <3>1 DEF Types, Names, Unlinked
    <3>3. Types'
      BY <1>1, <1>2, <2>1, <3>1, <3>2 DEF Types, Go, Label
    <3>4. Names' /\ Kept
      BY <1>1, <1>2, <2>1, <3>1, <3>2, Constants, ZenonT(40) DEF Types, Names, Kept
    <3>5. WritingAt(c)' /\ ReadingAt(c)' /\ pc' = [pc EXCEPT ![c] = "write_header"]
      BY <1>1, <1>2, <2>1, <3>1, <3>2, Constants, Zenon DEF Types, Slot, Go
    <3>. QED
      BY <1>1, <3>3, <3>4, <3>5, OnlyMe, Zenon
  <2>. QED
    BY <1>4, <2>2, <2>3 DEF InsertCreate
<1>5. CASE InsertHeader(c)
  <2>1. UNCHANGED <<entry, tmp, key, resp, cache_key, now, responses>> /\ pc[c] = "write_header"
    BY <1>5 DEF InsertHeader, memory
  <2>2. fd[c] \in Inodes /\ fd[c] = tmp[s] /\ \A t \in Slots : entry[t] # fd[c]
    BY <1>1, <1>2, <2>1 DEF Types, Names
  <2>3. CASE /\ file' = [file EXCEPT ![fd[c]] =
                           WriteAt(file[fd[c]], 0, <<Header(Len(resp[c]), now + Ttl)>>)]
             /\ Go(c, "write_data") /\ fd' = fd
    <3>. DEFINE h == Header(Len(resp[c]), now + Ttl)
                w == WriteAt(file[fd[c]], 0, <<h>>)
    <3>a. file[fd[c]] \in Seq(Cell) /\ resp[c] \in Seq(Cell) /\ now \in Nat
      BY ONLY <1>1, <2>2 DEF Types
    <3>1. h \in HeaderT
      BY <3>a, HeaderType
    <3>2. w \in Seq(Cell) /\ w[1] \in HeaderT
      BY <3>1, <3>a, WriteHeader
    <3>. HIDE DEF h, w
    <3>3. file' = [file EXCEPT ![fd[c]] = w]
      BY <2>3 DEF w, h
    <3>4. Types'
      BY <1>1, <2>1, <2>2, <2>3, <3>2, <3>3 DEF Types, Go, Label
    <3>5. Names' /\ Kept
      BY <1>1, <2>1, <2>2, <3>3 DEF Types, Names, Kept
    <3>6. WritingAt(c)' /\ ReadingAt(c)' /\ pc' = [pc EXCEPT ![c] = "write_data"]
      BY <1>1, <2>1, <2>2, <2>3 DEF Types, Slot, Go
    <3>. QED
      BY <1>1, <3>4, <3>5, <3>6, OnlyMe, Zenon
  <2>4. CASE file' = file /\ Go(c, "unlink_tmp") /\ fd' = [fd EXCEPT ![c] = NONE]
    <3>1. Types' /\ Names' /\ Kept
      BY <1>1, <2>1, <2>4 DEF Types, Names, Kept, Go, Label
    <3>. QED
      BY <1>1, <2>4, <3>1, OnlyMe, Zenon DEF Types, Go
  <2>. QED
    BY <1>5, <2>3, <2>4 DEF InsertHeader
<1>6. CASE InsertData(c)
  <2>1. /\ UNCHANGED <<entry, tmp, key, resp, cache_key, now, responses>>
        /\ pc[c] = "write_data" /\ fd' = [fd EXCEPT ![c] = NONE]
    BY <1>6 DEF InsertData, memory
  <2>2. fd[c] \in Inodes /\ fd[c] = tmp[s] /\ \A t \in Slots : entry[t] # fd[c]
    BY <1>1, <1>2, <2>1 DEF Types, Names
  <2>3. resp[c] \in Seq(Cell) /\ Len(resp[c]) \in Nat
    BY <1>1 DEF Types
  <2>4. PICK n \in 0..Len(resp[c]) :
          /\ file' = [file EXCEPT ![fd[c]] = WriteAt(file[fd[c]], 1, SubSeq(resp[c], 1, n))]
          /\ Go(c, IF n = Len(resp[c]) THEN "rename" ELSE "unlink_tmp")
    <3>1. CASE "disk" \in Faults
      BY <1>6, <2>3, <3>1, Zenon DEF InsertData
    <3>2. CASE "disk" \notin Faults
      <4>1. Len(resp[c]) \in 0..Len(resp[c])
        BY <2>3
      <4>2. /\ file' = [file EXCEPT ![fd[c]] =
                          WriteAt(file[fd[c]], 1, SubSeq(resp[c], 1, Len(resp[c])))]
            /\ Go(c, IF Len(resp[c]) = Len(resp[c]) THEN "rename" ELSE "unlink_tmp")
        BY <1>6, <3>2, Zenon DEF InsertData
      <4>. QED
        BY <4>1, <4>2, Zenon
    <3>. QED
      BY <3>1, <3>2
  <2>. DEFINE w == WriteAt(file[fd[c]], 1, SubSeq(resp[c], 1, n))
              l == IF n = Len(resp[c]) THEN "rename" ELSE "unlink_tmp"
  <2>5. SubSeq(resp[c], 1, n) \in Seq(Cell)
    BY <2>3
  <2>6. w \in Seq(Cell) /\ (w # <<>> => w[1] \in HeaderT)
    BY <1>1, <2>2, <2>5, WriteData, Zenon DEF Types
  <2>. HIDE DEF w
  <2>7. file' = [file EXCEPT ![fd[c]] = w]
    BY <2>4 DEF w
  <2>8. l \in {"rename", "unlink_tmp"} /\ pc' = [pc EXCEPT ![c] = l]
    BY <2>4 DEF Go
  <2>. HIDE DEF l
  <2>9. Types'
    BY <1>1, <2>1, <2>2, <2>6, <2>7, <2>8 DEF Types, Label
  <2>10. Names' /\ Kept
    BY <1>1, <2>1, <2>2, <2>7 DEF Types, Names, Kept
  <2>. QED
    BY <1>1, <2>8, <2>9, <2>10, OnlyMe, Zenon DEF Types
<1>7. CASE InsertRename(c)
  <2>1. UNCHANGED <<file, key, cache_key, now, fd, responses>>
    BY <1>7 DEF InsertRename
  <2>2. CASE Go(c, "unlink_tmp") /\ UNCHANGED <<entry, tmp, resp>>
    <3>1. UNCHANGED <<entry, tmp, resp>> /\ pc' = [pc EXCEPT ![c] = "unlink_tmp"]
      BY <2>2 DEF Go
    <3>2. Types' /\ Names' /\ Kept
      BY <1>1, <2>1, <3>1 DEF Types, Names, Kept, Label
    <3>. QED
      BY <1>1, <3>1, <3>2, OnlyMe, Zenon DEF Types
  <2>3. CASE /\ tmp[s] # NONE /\ entry' = [entry EXCEPT ![s] = tmp[s]]
             /\ tmp' = [tmp EXCEPT ![s] = NONE] /\ Return(c)
    <3>1. /\ entry' = [entry EXCEPT ![s] = tmp[s]] /\ tmp' = [tmp EXCEPT ![s] = NONE]
          /\ resp' = [resp EXCEPT ![c] = <<>>] /\ pc' = [pc EXCEPT ![c] = "idle"]
      BY <2>3 DEF Return, Go
    <3>2. Types'
      BY <1>1, <1>2, <2>1, <3>1 DEF Types, Label
    <3>3. Names' /\ Kept
      BY <1>1, <1>2, <2>1, <2>3, <3>1 DEF Types, Names, Kept
    <3>. QED
      BY <1>1, <3>1, <3>2, <3>3, OnlyMe, Zenon DEF Types
  <2>. QED
    BY <1>7, <2>2, <2>3 DEF InsertRename
<1>8. CASE InsertUnlink(c)
  <2>1. /\ UNCHANGED <<entry, file, key, cache_key, now, fd, responses>>
        /\ tmp' = [tmp EXCEPT ![s] = NONE]
        /\ resp' = [resp EXCEPT ![c] = <<>>] /\ pc' = [pc EXCEPT ![c] = "idle"]
    BY <1>8 DEF InsertUnlink, Return, Go
  <2>2. Types'
    BY <1>1, <1>2, <2>1 DEF Types, Label
  <2>3. Names' /\ Kept
    BY <1>1, <1>2, <2>1 DEF Types, Names, Kept
  <2>. QED
    BY <1>1, <2>1, <2>2, <2>3, OnlyMe, Zenon DEF Types
<1>. QED
  BY <1>3, <1>4, <1>5, <1>6, <1>7, <1>8

\* The clock, a crash and a stuttering step.
LEMMA OtherInv ==
  ASSUME OneWorker, Inv, Tick \/ (\E w \in Workers : Crash(w)) \/ UNCHANGED vars
  PROVE  Inv' /\ Kept
<1>1. CASE Tick
  <2>1. now' = now + 1 /\ UNCHANGED <<entry, tmp, file, pc, key, fd, resp, cache_key, responses>>
    BY <1>1 DEF Tick, disk, memory
  <2>2. Types'
    BY <2>1 DEF Inv, Types
  <2>3. ASSUME NEW i \in Inodes, Expired(i) PROVE Expired(i)'
    <3>1. file[i] # <<>> /\ file[i][1] \in HeaderT /\ now > file[i][1].expire /\ now \in Nat
      BY <2>3 DEF Inv, Types, Expired
    <3>2. file[i][1].expire \in Nat
      BY <3>1 DEF HeaderT
    <3>3. now + 1 > file[i][1].expire
      BY <3>1, <3>2
    <3>. QED
      BY <2>1, <3>1, <3>3 DEF Expired
  <2>4. Exclusive' /\ Names' /\ Writing' /\ Kept
    BY <2>1, Zenon DEF Inv, Exclusive, Names, Writing, Slot, Kept
  <2>5. Reading'
    BY <2>1, <2>3, Constants DEF Inv, Types, Reading
  <2>. QED
    BY <2>2, <2>4, <2>5 DEF Inv
<1>2. CASE \E w \in Workers : Crash(w)
  <2>1. PICK w \in Workers : Crash(w)
    BY <1>2, SMTT(30)
  <2>2. /\ UNCHANGED <<entry, tmp, file, now, key, cache_key, responses>>
        /\ \A c \in Conns : pc'[c] = "idle" \/ (pc'[c] = pc[c] /\ fd'[c] = fd[c])
    BY <2>1 DEF Crash, disk
  <2>3. Types'
    <3>1. resp' \in [Conns -> Seq(Cell)]
      BY <2>1, SMTT(30) DEF Inv, Types, Crash
    <3>2. pc' \in [Conns -> Label] /\ fd' \in [Conns -> Inodes \cup {NONE}]
      BY <2>1 DEF Inv, Types, Crash, Label
    <3>. QED
      BY <2>2, <3>1, <3>2, Zenon DEF Inv, Types
  <2>4. Exclusive' /\ Names' /\ Kept
    BY <2>2, Zenon DEF Inv, Exclusive, Names, Kept, Resting
  <2>5. Writing' /\ Reading'
    BY <2>2 DEF Inv, Writing, Slot, Reading, Expired
  <2>. QED
    BY <2>3, <2>4, <2>5 DEF Inv
<1>3. CASE UNCHANGED vars
  BY <1>3, Zenon DEF vars, disk, memory, Inv, Types, Exclusive, Names, Writing, Slot, Reading,
              Expired, Kept
<1>. QED
  BY <1>1, <1>2, <1>3

\* Every step keeps the invariant and the entries.
LEMMA NextInv ==
  ASSUME OneWorker, Inv, [Next]_vars
  PROVE  Inv' /\ Kept
<1>1. ASSUME NEW c \in Conns, ConnStep(c) PROVE Inv' /\ Kept
  BY <1>1, StepAlone, LookupInv, InsertInv DEF ConnStep
<1>. QED
  BY <1>1, OtherInv DEF Next

\* With one worker on the cache directory, cache_insert never writes to an entry
\* that is already published, whatever write fails and whenever the worker dies.
THEOREM EntriesStable ==
  ASSUME OneWorker
  PROVE  Spec => PublishedStable
<1>1. Inv /\ [Next]_vars => Inv'
  BY NextInv
<1>2. Inv /\ [Next]_vars =>
        [\A s \in Slots : entry[s] # NONE => file'[entry[s]] = file[entry[s]]]_vars
  BY NextInv, Zenon DEF Kept
<1>. QED
  BY <1>1, <1>2, InitInv, PTL DEF Spec, PublishedStable

\* With one worker on the cache directory, cache_lookup removes only entries
\* whose time has passed.
THEOREM EntriesKept ==
  ASSUME OneWorker
  PROVE  Spec => FreshKept
<1>1. Inv /\ [Next]_vars => Inv'
  BY NextInv
<1>2. Inv /\ [Next]_vars =>
        [\A s \in Slots : entry[s] # NONE /\ entry'[s] = NONE
            => now > file[entry[s]][1].expire]_vars
  BY NextInv DEF Kept, Expired
<1>. QED
  BY <1>1, <1>2, InitInv, PTL DEF Spec, FreshKept
=============================================================================
