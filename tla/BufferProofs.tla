---------------------------- MODULE BufferProofs ----------------------------
(***************************************************************************)
(* The array of an np_buf_t implements the queue of module ByteQueue, for  *)
(* every capacity and every alphabet.                                      *)
(***************************************************************************)
EXTENDS Buffer, SequenceTheorems, TLAPS

Sound(b) == b \in BufT /\ b.read_pos <= b.write_pos

\* What is shown is a string of bytes, as long as buf_readable says.
LEMMA ShownType ==
  ASSUME NEW b, Sound(b)
  PROVE  /\ Shown(b) \in Seq(Byte) /\ Len(Shown(b)) = buf_readable(b)
         /\ buf_readable(b) \in 0..Cap
         /\ \A i \in 1..buf_readable(b) : Shown(b)[i] = b.data[b.read_pos + i - 1]
<1>1. b.read_pos \in 0..Cap /\ b.write_pos \in 0..Cap /\ b.data \in [Cells -> Byte]
  BY DEF Sound, BufT
<1>2. buf_readable(b) \in 0..Cap
  BY <1>1, BufferAssumption DEF Sound, buf_readable
<1>3. \A i \in 1..buf_readable(b) : b.data[b.read_pos + i - 1] \in Byte
  BY <1>1, BufferAssumption DEF Sound, buf_readable, Cells
<1> QED
  BY <1>2, <1>3 DEF Shown

\* buf_reset empties the buffer.
LEMMA ResetShown ==
  ASSUME NEW b, Sound(b)
  PROVE  Sound(buf_reset(b)) /\ Shown(buf_reset(b)) = <<>>
<1> DEFINE c == buf_reset(b)
<1>0. b.data \in [Cells -> Byte] /\ b \in BufT
  BY DEF Sound, BufT
<1>a. c.read_pos = 0 /\ c.write_pos = 0 /\ c.data = b.data
  BY <1>0 DEF buf_reset, BufT
<1>b. c \in BufT
  BY <1>0, BufferAssumption DEF BufT, buf_reset
<1>1. Sound(c) /\ buf_readable(c) = 0
  BY <1>a, <1>b DEF Sound, buf_readable
<1>2. Len(Shown(buf_reset(b))) = 0 /\ Shown(buf_reset(b)) \in Seq(Byte)
  BY <1>1, ShownType
<1> QED
  BY <1>1, <1>2, EmptySeq

\* buf_consume takes the first n bytes away.
LEMMA ConsumeShown ==
  ASSUME NEW b, Sound(b), NEW n \in Nat, n <= buf_readable(b)
  PROVE  /\ Sound(buf_consume(b, n))
         /\ Shown(buf_consume(b, n)) = SubSeq(Shown(b), n + 1, Len(Shown(b)))
<1> DEFINE c == buf_consume(b, n)
<1>1. Shown(b) \in Seq(Byte) /\ Len(Shown(b)) = buf_readable(b)
      /\ buf_readable(b) \in 0..Cap
      /\ \A i \in 1..buf_readable(b) : Shown(b)[i] = b.data[b.read_pos + i - 1]
  BY ShownType
<1>2. b.read_pos \in 0..Cap /\ b.write_pos \in 0..Cap
  BY DEF Sound, BufT
<1>3. CASE b.read_pos + n = b.write_pos
  <2>1. c = buf_reset(b) /\ n = buf_readable(b)
    BY <1>2, <1>3, BufferAssumption DEF buf_consume, buf_readable
  <2>2. SubSeq(Shown(b), n + 1, Len(Shown(b))) = <<>>
    BY <1>1, <2>1, SubSeqEmpty
  <2> QED BY <2>1, <2>2, ResetShown
<1>4. CASE b.read_pos + n # b.write_pos
  <2>1. c = [b EXCEPT !.read_pos = @ + n] /\ n < buf_readable(b)
    BY <1>2, <1>4, BufferAssumption DEF buf_consume, buf_readable
  <2>2. Sound(c) /\ c.read_pos = b.read_pos + n /\ c.write_pos = b.write_pos
        /\ c.data = b.data
    BY <1>2, <2>1, BufferAssumption DEF Sound, BufT, buf_readable
  <2>3. buf_readable(c) = buf_readable(b) - n
    BY <1>2, <2>2 DEF buf_readable
  <2>4. /\ Shown(c) \in Seq(Byte) /\ Len(Shown(c)) = buf_readable(c)
        /\ \A i \in 1..buf_readable(c) : Shown(c)[i] = c.data[c.read_pos + i - 1]
    BY <2>2, ShownType
  <2> DEFINE t == SubSeq(Shown(b), n + 1, Len(Shown(b)))
  <2> DEFINE m == buf_readable(b)
  <2>5. /\ t \in Seq(Byte) /\ Len(t) = m - n
        /\ \A i \in 1..(m - n) : t[i] = Shown(b)[n + i]
    <3>1. n + 1 \in Int /\ m \in Int /\ Len(Shown(b)) = m /\ n + 1 <= m
      BY <1>1, <2>1
    <3>2. \A i \in (n + 1)..m : Shown(b)[i] \in Byte
      BY <1>1, <3>1, ElementOfSeq
    <3> HIDE DEF m
    <3>3. /\ SubSeq(Shown(b), n + 1, m) \in Seq(Byte)
          /\ Len(SubSeq(Shown(b), n + 1, m))
               = IF n + 1 <= m THEN m - (n + 1) + 1 ELSE 0
          /\ \A i \in 1..(m - (n + 1) + 1) :
               SubSeq(Shown(b), n + 1, m)[i] = Shown(b)[n + 1 + i - 1]
      BY <3>1, <3>2, SubSeqProperties
    <3>4. m - (n + 1) + 1 = m - n /\ \A i \in Int : n + 1 + i - 1 = n + i
      BY <3>1
    <3>5. t = SubSeq(Shown(b), n + 1, m)
      BY <3>1
    <3> HIDE DEF t
    <3>6. t \in Seq(Byte) /\ Len(t) = m - n
      BY <3>1, <3>3, <3>4, <3>5
    <3>7. ASSUME NEW i \in 1..(m - n) PROVE t[i] = Shown(b)[n + i]
      <4>1. i \in 1..(m - (n + 1) + 1) /\ n + 1 + i - 1 = n + i
        BY ONLY <3>4, i \in 1..(m - n)
      <4> QED BY ONLY <3>3, <3>5, <4>1
    <3> QED BY <3>6, <3>7
  <2>6. \A i \in 1..(m - n) : Shown(c)[i] = t[i]
    <3> SUFFICES ASSUME NEW i \in 1..(m - n) PROVE Shown(c)[i] = t[i]
      OBVIOUS
    <3>1. n + i \in 1..m /\ t[i] = Shown(b)[n + i]
      BY <1>1, <2>1, <2>5
    <3>2. Shown(b)[n + i] = b.data[b.read_pos + (n + i) - 1]
      BY <1>1, <3>1
    <3>3. Shown(c)[i] = b.data[b.read_pos + n + i - 1]
      BY <2>2, <2>3, <2>4
    <3>4. b.read_pos + (n + i) - 1 = b.read_pos + n + i - 1
      BY <1>1, <1>2
    <3> QED BY <3>1, <3>2, <3>3, <3>4
  <2>7. Shown(c) = t
    BY <1>1, <2>3, <2>4, <2>5, <2>6, SeqEqual
  <2> QED BY <2>2, <2>7
<1> QED BY <1>3, <1>4

\* buf_compact moves bytes in the array, and shows the same ones.
LEMMA CompactShown ==
  ASSUME NEW b, Sound(b)
  PROVE  /\ Sound(buf_compact(b)) /\ Shown(buf_compact(b)) = Shown(b)
         /\ buf_compact(b).write_pos = buf_readable(b)
<1> DEFINE c == buf_compact(b)  r == buf_readable(b)
<1>1. /\ Shown(b) \in Seq(Byte) /\ Len(Shown(b)) = r /\ r \in 0..Cap
      /\ \A i \in 1..r : Shown(b)[i] = b.data[b.read_pos + i - 1]
  BY ShownType
<1>2. b.read_pos \in 0..Cap /\ b.write_pos \in 0..Cap /\ b.data \in [Cells -> Byte]
  BY DEF Sound, BufT
<1>3. CASE r = 0
  <2>1. c = buf_reset(b)
    BY <1>3 DEF buf_compact
  <2>2. Shown(b) = <<>>
    BY <1>1, <1>3, EmptySeq
  <2> QED BY <1>3, <2>1, <2>2, ResetShown DEF buf_reset
<1>4. CASE r # 0
  <2>1. /\ c.data = [k \in Cells |-> IF k < r THEN b.data[k + b.read_pos]
                                     ELSE b.data[k]]
        /\ c.read_pos = 0 /\ c.write_pos = r
    BY <1>4 DEF buf_compact
  <2>2. \A k \in Cells : k < r => k + b.read_pos \in Cells
    BY <1>2, BufferAssumption DEF Cells, buf_readable
  <2>3. c.data \in [Cells -> Byte]
    BY <1>2, <2>1, <2>2
  <2>4. Sound(c) /\ buf_readable(c) = r
    <3>1. c \in BufT
      BY <1>1, <1>4, <2>1, <2>3, BufferAssumption DEF buf_compact, BufT
    <3> QED BY <1>1, <2>1, <3>1 DEF Sound, buf_readable
  <2>5. /\ Shown(c) \in Seq(Byte) /\ Len(Shown(c)) = r
        /\ \A i \in 1..r : Shown(c)[i] = c.data[c.read_pos + i - 1]
    BY <2>4, ShownType
  <2>6. \A i \in 1..r : Shown(c)[i] = Shown(b)[i]
    <3> SUFFICES ASSUME NEW i \in 1..r PROVE Shown(c)[i] = Shown(b)[i]
      OBVIOUS
    <3>1. i - 1 \in Cells /\ i - 1 < r /\ 0 + i - 1 = i - 1
      BY <1>1, BufferAssumption DEF Cells
    <3>2. Shown(c)[i] = b.data[i - 1 + b.read_pos]
      <4>1. Shown(c)[i] = c.data[0 + i - 1]
        BY <2>1, <2>5
      <4>2. Shown(c)[i] = c.data[i - 1]
        BY ONLY <3>1, <4>1
      <4> QED BY ONLY <2>1, <3>1, <4>2
    <3>3. i - 1 + b.read_pos = b.read_pos + i - 1
      BY <1>2
    <3> QED BY <1>1, <3>2, <3>3
  <2>7. Shown(c) = Shown(b)
    BY <1>1, <2>5, <2>6, SeqEqual
  <2> QED BY <2>1, <2>4, <2>7
<1> QED BY <1>3, <1>4

\* A string written behind write_pos is shown after what was there before.
LEMMA WrittenShown ==
  ASSUME NEW b, Sound(b), NEW s \in Seq(Byte), Len(s) <= buf_writable(b)
  PROVE  Sound(Written(b, s)) /\ Shown(Written(b, s)) = Shown(b) \o s
<1> DEFINE c == Written(b, s)  r == buf_readable(b)  w == b.write_pos
<1>1. /\ Shown(b) \in Seq(Byte) /\ Len(Shown(b)) = r /\ r \in 0..Cap
      /\ \A i \in 1..r : Shown(b)[i] = b.data[b.read_pos + i - 1]
  BY ShownType
<1>2. /\ b.read_pos \in 0..Cap /\ w \in 0..Cap /\ b.data \in [Cells -> Byte]
      /\ b.read_pos <= w /\ r = w - b.read_pos
  BY DEF Sound, BufT, buf_readable
<1>3. Len(s) \in Nat /\ w + Len(s) <= Cap /\ \A i \in 1..Len(s) : s[i] \in Byte
  BY <1>2, BufferAssumption, LenProperties, ElementOfSeq DEF buf_writable
<1>4. /\ c.data = [k \in Cells |-> IF k \in w..(w + Len(s) - 1)
                                   THEN s[k - w + 1] ELSE b.data[k]]
      /\ c.read_pos = b.read_pos /\ c.write_pos = w + Len(s)
  BY DEF Written
<1>5. c.data \in [Cells -> Byte]
  <2>1. \A k \in Cells : k \in w..(w + Len(s) - 1) => k - w + 1 \in 1..Len(s)
    BY <1>2, <1>3, SMTT(30) DEF Cells
  <2> QED BY <1>2, <1>3, <1>4, <2>1
<1>6. Sound(c) /\ buf_readable(c) = r + Len(s)
  <2>1. c \in BufT
    BY <1>2, <1>3, <1>4, <1>5, BufferAssumption DEF Written, BufT
  <2> QED BY <1>2, <1>3, <1>4, <2>1 DEF Sound, buf_readable
<1>7. /\ Shown(c) \in Seq(Byte) /\ Len(Shown(c)) = r + Len(s)
      /\ \A i \in 1..(r + Len(s)) : Shown(c)[i] = c.data[b.read_pos + i - 1]
  <2> HIDE DEF c
  <2>1. /\ Shown(c) \in Seq(Byte) /\ Len(Shown(c)) = buf_readable(c)
        /\ \A i \in 1..buf_readable(c) : Shown(c)[i] = c.data[c.read_pos + i - 1]
    BY <1>6, ShownType
  <2> QED BY ONLY <1>4, <1>6, <2>1
<1> DEFINE t == Shown(b) \o s
<1>8. /\ t \in Seq(Byte) /\ Len(t) = r + Len(s)
      /\ \A i \in 1..(r + Len(s)) : t[i] = IF i <= r THEN Shown(b)[i] ELSE s[i - r]
  <2> DEFINE u == Shown(b)
  <2> HIDE DEF u
  <2>1. u \in Seq(Byte) /\ Len(u) = r
    BY <1>1 DEF u
  <2>2. /\ u \o s \in Seq(Byte) /\ Len(u \o s) = r + Len(s)
        /\ \A i \in 1..(r + Len(s)) : (u \o s)[i] = IF i <= r THEN u[i] ELSE s[i - r]
    <3>1. u \o s \in Seq(Byte)
      BY <2>1
    <3>2. Len(u \o s) = r + Len(s)
      BY <2>1
    <3>3. ASSUME NEW i \in 1..(r + Len(s))
          PROVE  (u \o s)[i] = IF i <= r THEN u[i] ELSE s[i - r]
      BY ONLY <2>1, <3>1, s \in Seq(Byte), i \in 1..(r + Len(s))
    <3> QED BY <3>1, <3>2, <3>3
  <2> QED BY <2>2 DEF u
<1>9. \A i \in 1..(r + Len(s)) : Shown(c)[i] = t[i]
  <2> SUFFICES ASSUME NEW i \in 1..(r + Len(s)) PROVE Shown(c)[i] = t[i]
    OBVIOUS
  <2> DEFINE k == b.read_pos + i - 1
  <2>1. k \in Cells /\ Shown(c)[i] = c.data[k]
    BY <1>2, <1>3, <1>7, BufferAssumption, SMTT(30) DEF Cells
  <2>2. CASE i <= r
    <3>1. k \notin w..(w + Len(s) - 1)
      BY <1>2, <1>3, <2>2
    <3> QED BY <1>1, <1>4, <1>8, <2>1, <2>2, <3>1
  <2>3. CASE i > r
    <3>1. k \in w..(w + Len(s) - 1) /\ k - w + 1 = i - r
      BY <1>1, <1>2, <1>3, <2>3, SMTT(30)
    <3>2. t[i] = s[i - r]
      BY <1>1, <1>8, <2>3
    <3> QED BY <1>4, <2>1, <3>1, <3>2
  <2> QED BY <1>1, <2>2, <2>3
<1>10. Shown(c) = t
  BY <1>7, <1>8, <1>9, SeqEqual
<1> QED BY <1>6, <1>10

-----------------------------------------------------------------------------
LEMMA StringsAreSeqs ==
  ASSUME NEW s \in Strings
  PROVE  s \in Seq(Byte) /\ Len(s) \in 0..Cap
BY BufferAssumption DEF Strings

\* Every call leaves the positions in order and inside the array.
LEMMA NextSound ==
  ASSUME BufferOK, [Next]_vars
  PROVE  BufferOK'
<1>0. Sound(buf) /\ buf_readable(buf) \in 0..Cap
  BY ShownType DEF BufferOK, Sound
<1>1. ASSUME NEW s \in Strings, WriteString(s) PROVE Sound(buf')
  BY <1>0, <1>1, StringsAreSeqs, WrittenShown DEF WriteString, vars
<1>2. ASSUME NEW n \in 0..Cap, Consume(n) PROVE Sound(buf')
  BY <1>0, <1>2, ConsumeShown DEF Consume
<1>3. ASSUME Reset PROVE Sound(buf')
  BY <1>0, <1>3, ResetShown DEF Reset
<1>4. ASSUME buf_read_fd PROVE Sound(buf')
  <2>1. Sound(buf_compact(buf))
    BY <1>0, CompactShown
  <2>2. CASE buf' = buf_compact(buf)
    BY <2>1, <2>2
  <2>3. ASSUME NEW s \in Strings, Len(s) \in 1..buf_writable(buf_compact(buf)),
               buf' = Written(buf_compact(buf), s)
        PROVE  Sound(buf')
    BY <2>1, <2>3, StringsAreSeqs, WrittenShown
  <2> QED BY <1>4, <2>2, <2>3 DEF buf_read_fd
<1>5. ASSUME buf_write_fd PROVE Sound(buf')
  <2>1. ASSUME NEW n \in 1..buf_readable(buf), buf' = buf_consume(buf, n)
        PROVE  Sound(buf')
    BY <1>0, <2>1, ConsumeShown
  <2> QED BY <1>0, <1>5, <2>1 DEF buf_write_fd
<1>6. ASSUME UNCHANGED vars PROVE Sound(buf')
  BY <1>0, <1>6 DEF vars
<1>7. Sound(buf')
  BY <1>1, <1>2, <1>3, <1>4, <1>5, <1>6 DEF Next
<1> QED BY <1>7 DEF BufferOK, Sound

\* Every call is a call of the queue, or no step of it.
LEMMA NextIsQueueNext ==
  ASSUME BufferOK, [Next]_vars
  PROVE  [Queue!Next]_<<Shown(buf), ret>>
<1> DEFINE q == Shown(buf)  q1 == Shown(buf')
<1>0. /\ Sound(buf) /\ buf_readable(buf) \in 0..Cap
      /\ q \in Seq(Byte) /\ Len(q) = buf_readable(buf)
      /\ buf.write_pos \in 0..Cap /\ buf.read_pos \in 0..Cap
  BY ShownType DEF BufferOK, Sound, BufT
<1>1. ASSUME NEW s \in Strings, WriteString(s)
      PROVE  [Queue!Next]_<<Shown(buf), ret>>
  <2>1. CASE buf_writable(buf) >= Len(s)
    <3>1. q1 = q \o s /\ ret' = <<"write", Len(s)>>
      BY <1>0, <1>1, <2>1, StringsAreSeqs, WrittenShown, SMTT(30) DEF WriteString
    <3>2. Len(q) + Len(s) <= Cap
      BY <1>0, <2>1, StringsAreSeqs, BufferAssumption
      DEF buf_writable, buf_readable
    <3>3. Queue!Put("write", s)
      BY <3>1, <3>2 DEF Queue!Put
    <3> QED BY <3>3 DEF Queue!Next, Queue!Strings, Strings
  <2>2. CASE ~(buf_writable(buf) >= Len(s))
    BY <1>1, <2>2 DEF WriteString, vars
  <2> QED BY <2>1, <2>2
<1>2. ASSUME NEW n \in 0..Cap, Consume(n)
      PROVE  Queue!Next
  <2>1. q1 = SubSeq(q, n + 1, Len(q)) /\ ret' = <<"consume", n>> /\ n <= Len(q)
    BY <1>0, <1>2, ConsumeShown DEF Consume
  <2>2. Queue!Get("consume", n)
    BY <2>1 DEF Queue!Get
  <2> QED BY <2>2 DEF Queue!Next
<1>3. ASSUME Reset PROVE Queue!Next
  BY <1>0, <1>3, ResetShown DEF Reset, Queue!Next, Queue!Clear
<1>4. ASSUME buf_read_fd PROVE Queue!Next
  <2> DEFINE b == buf_compact(buf)
  <2>1. /\ Sound(b) /\ Shown(b) = q /\ b.write_pos = Len(q)
        /\ buf_writable(b) = Cap - Len(q)
    BY <1>0, CompactShown DEF buf_writable
  <2>2. CASE buf_writable(b) = 0 /\ buf' = b /\ ret' = <<"read_fd", 0>>
    <3>1. Len(q) = Cap /\ q1 = q
      BY <1>0, <2>1, <2>2, BufferAssumption
    <3> QED BY <2>2, <3>1 DEF Queue!Next, Queue!Full
  <2>3. ASSUME NEW s \in Strings, Len(s) \in 1..buf_writable(b),
               buf' = Written(b, s), ret' = <<"read_fd", Len(s)>>
        PROVE  Queue!Next
    <3>1. s \in Seq(Byte) /\ Len(s) \in 0..Cap /\ Len(s) <= buf_writable(b)
      BY <1>0, <2>1, <2>3, StringsAreSeqs, BufferAssumption
    <3>2. q1 = q \o s
      BY <2>1, <2>3, <3>1, WrittenShown
    <3>3. Len(q) + Len(s) <= Cap /\ s # <<>>
      BY <1>0, <2>1, <2>3, <3>1, BufferAssumption
    <3>4. Queue!Put("read_fd", s)
      BY <2>3, <3>2, <3>3 DEF Queue!Put
    <3> QED BY <3>3, <3>4 DEF Queue!Next, Queue!Strings, Strings
  <2>4. ASSUME NEW e \in {NP_ERR_CLOSED, NP_ERR_AGAIN, NP_ERR},
               buf_writable(b) > 0, buf' = b, ret' = <<"read_fd", e>>
        PROVE  Queue!Next
    <3>1. Len(q) < Cap /\ q1 = q
      BY <1>0, <2>1, <2>4, BufferAssumption
    <3>2. e \in Queue!Errors
      BY <2>4 DEF Queue!Errors, NP_ERR_CLOSED, NP_ERR_AGAIN, NP_ERR
    <3> QED BY <2>4, <3>1, <3>2 DEF Queue!Next, Queue!Failed
  <2> QED BY <1>4, <2>2, <2>3, <2>4 DEF buf_read_fd
<1>5. ASSUME buf_write_fd PROVE Queue!Next
  <2>1. CASE buf' = buf /\ ret' = <<"write_fd", 0>>
    <3>1. q1 = SubSeq(q, 0 + 1, Len(q))
      BY <1>0, <2>1, SubSeqFull
    <3>2. Queue!Get("write_fd", 0) /\ 0 \in 0..Cap
      BY <1>0, <2>1, <3>1, BufferAssumption DEF Queue!Get
    <3> QED BY <3>2 DEF Queue!Next
  <2>2. ASSUME NEW n \in 1..buf_readable(buf), buf' = buf_consume(buf, n),
               ret' = <<"write_fd", n>>
        PROVE  Queue!Next
    <3>1. n \in 0..Cap /\ n <= Len(q)
      BY <1>0, BufferAssumption
    <3>2. q1 = SubSeq(q, n + 1, Len(q))
      BY <1>0, <2>2, <3>1, ConsumeShown
    <3>3. Queue!Get("write_fd", n)
      BY <2>2, <3>1, <3>2 DEF Queue!Get
    <3> QED BY <3>1, <3>3 DEF Queue!Next
  <2>3. ASSUME NEW e \in {NP_ERR_AGAIN, NP_ERR},
               buf_readable(buf) > 0, buf' = buf, ret' = <<"write_fd", e>>
        PROVE  Queue!Next
    <3>1. q # <<>> /\ q1 = q
      BY <1>0, <2>3
    <3>2. e \in Queue!Errors
      BY <2>3 DEF Queue!Errors, NP_ERR_AGAIN, NP_ERR
    <3> QED BY <2>3, <3>1, <3>2 DEF Queue!Next, Queue!Failed
  <2> QED BY <1>5, <2>1, <2>2, <2>3 DEF buf_write_fd
<1>6. ASSUME UNCHANGED vars PROVE UNCHANGED <<Shown(buf), ret>>
  BY <1>6 DEF vars
<1> QED BY <1>1, <1>2, <1>3, <1>4, <1>5, <1>6 DEF Next

\* The array and its two positions implement a bounded first-in first-out
\* queue, for every capacity and every set of bytes.
THEOREM BufferIsQueue == Spec => ImplementsQueue
<1>1. Init => BufferOK /\ Queue!Init
  <2> SUFFICES ASSUME Init PROVE BufferOK /\ Queue!Init
    OBVIOUS
  <2>1. BufferOK /\ buf_readable(buf) = 0
    BY BufferAssumption DEF Init, BufferOK, buf_readable, BufT
  <2>2. Shown(buf) = <<>>
    BY <2>1, ShownType, EmptySeq DEF BufferOK, Sound
  <2> QED BY <2>1, <2>2 DEF Init, Queue!Init
<1>2. BufferOK /\ [Next]_vars => BufferOK'
  BY NextSound
<1>3. BufferOK /\ [Next]_vars => [Queue!Next]_<<Shown(buf), ret>>
  BY NextIsQueueNext
<1> QED BY <1>1, <1>2, <1>3, PTL DEF Spec, ImplementsQueue, Queue!Spec

\* No call reads or writes outside of the array.
THEOREM BufferInBounds == Spec => []BufferOK
<1>1. Init => BufferOK
  BY BufferAssumption DEF Init, BufferOK, BufT
<1>2. BufferOK /\ [Next]_vars => BufferOK'
  BY NextSound
<1> QED BY <1>1, <1>2, PTL DEF Spec
=============================================================================
