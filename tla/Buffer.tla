------------------------------- MODULE Buffer -------------------------------
(***************************************************************************)
(* np_buf_t (net/buffer.c) at the level of its memory: an array and two    *)
(* positions.  The operators work on a buffer b; the actions are the calls *)
(* that the rest of the program makes.                                     *)
(***************************************************************************)
EXTENDS Integers, Sequences

CONSTANTS
  Byte,
  Cap    \* NP_READ_BUF_SIZE or NP_WRITE_BUF_SIZE

ASSUME BufferAssumption == Cap \in Nat

VARIABLES
  buf,   \* the np_buf_t
  ret    \* the last call and what it returned

vars == <<buf, ret>>

NP_ERR == -1
NP_ERR_AGAIN == -2
NP_ERR_CLOSED == -3

Cells == 0..(Cap - 1)

Strings == UNION {[1..n -> Byte] : n \in 0..Cap}

BufT == [data : [Cells -> Byte], read_pos : 0..Cap, write_pos : 0..Cap]

buf_readable(b) == b.write_pos - b.read_pos

buf_writable(b) == Cap - b.write_pos

buf_reset(b) == [data |-> b.data, read_pos |-> 0, write_pos |-> 0]

buf_consume(b, n) ==
  IF b.read_pos + n = b.write_pos THEN buf_reset(b)
  ELSE [b EXCEPT !.read_pos = @ + n]

\* Mutant: bytes are moved but the positions stay.
CompactKeepsEnd(b) ==
  IF buf_readable(b) = 0 THEN buf_reset(b)
  ELSE [data |-> [k \in Cells |-> IF k < buf_readable(b)
                                  THEN b.data[k + b.read_pos] ELSE b.data[k]],
        read_pos |-> 0, write_pos |-> b.write_pos]

\* memmove of the readable bytes to the start of the array.
buf_compact(b) ==
  IF buf_readable(b) = 0 THEN buf_reset(b)
  ELSE [data |-> [k \in Cells |-> IF k < buf_readable(b)
                                  THEN b.data[k + b.read_pos] ELSE b.data[k]],
        read_pos |-> 0, write_pos |-> buf_readable(b)]

\* memcpy to buf_write_ptr(b), then buf_produce.
Written(b, s) ==
  [data |-> [k \in Cells |-> IF k \in b.write_pos..(b.write_pos + Len(s) - 1)
                             THEN s[k - b.write_pos + 1] ELSE b.data[k]],
   read_pos |-> b.read_pos, write_pos |-> b.write_pos + Len(s)]

-----------------------------------------------------------------------------
\* buf_init: malloc leaves any bytes in the array.
Init ==
  /\ ret = <<"init", 0>>
  /\ buf \in {b \in BufT : b.read_pos = 0 /\ b.write_pos = 0}

\* What response.c and the handlers do: if (buf_writable(b) >= n) memcpy,
\* buf_produce; and nothing when the string does not fit.
WriteString(s) ==
  IF buf_writable(buf) >= Len(s)
  THEN buf' = Written(buf, s) /\ ret' = <<"write", Len(s)>>
  ELSE UNCHANGED vars

\* The parser's callers consume no more than they were shown.
Consume(n) ==
  /\ n <= buf_readable(buf)
  /\ buf' = buf_consume(buf, n) /\ ret' = <<"consume", n>>

Reset == buf' = buf_reset(buf) /\ ret' = <<"reset", 0>>

\* buf_read_fd: read(2) gives 1 to space bytes, end of file or an error.
buf_read_fd ==
  LET b     == buf_compact(buf)
      space == buf_writable(b)
  IN  \/ space = 0 /\ buf' = b /\ ret' = <<"read_fd", 0>>
      \/ \E s \in Strings : /\ Len(s) \in 1..space
                            /\ buf' = Written(b, s)
                            /\ ret' = <<"read_fd", Len(s)>>
      \/ \E e \in {NP_ERR_CLOSED, NP_ERR_AGAIN, NP_ERR} :
           space > 0 /\ buf' = b /\ ret' = <<"read_fd", e>>

\* buf_write_fd: write(2) takes up to all of the readable bytes, or fails.
buf_write_fd ==
  \/ buf' = buf /\ ret' = <<"write_fd", 0>>
  \/ \E n \in 1..buf_readable(buf) :
       buf' = buf_consume(buf, n) /\ ret' = <<"write_fd", n>>
  \/ \E e \in {NP_ERR_AGAIN, NP_ERR} :
       buf_readable(buf) > 0 /\ buf' = buf /\ ret' = <<"write_fd", e>>

Next ==
  \/ \E s \in Strings : WriteString(s)
  \/ \E n \in 0..Cap : Consume(n)
  \/ Reset \/ buf_read_fd \/ buf_write_fd

Spec == Init /\ [][Next]_vars

-----------------------------------------------------------------------------
\* The positions stay in order and inside the array, so that no operation
\* reads or writes outside of it.
BufferOK == buf \in BufT /\ buf.read_pos <= buf.write_pos

\* The bytes a reader of the buffer is shown.
Shown(b) == [i \in 1..buf_readable(b) |-> b.data[b.read_pos + i - 1]]

Queue == INSTANCE ByteQueue WITH queue <- Shown(buf)

\* architecture.md:227, "Ring buffer for reads/writes": whatever the mix of
\* appends, partial reads and writes, compactions and resets, the array
\* behaves as a queue that loses, repeats and reorders nothing, and
\* buf_read_fd returns 0 only when Cap bytes wait in it.
ImplementsQueue == Queue!Spec
=============================================================================
