------------------------------ MODULE ByteQueue ------------------------------
(***************************************************************************)
(* What an np_buf_t promises its callers: a first-in first-out queue of at *)
(* most Cap bytes.                                                         *)
(***************************************************************************)
EXTENDS Integers, Sequences

CONSTANTS Byte, Cap

VARIABLES
  queue,
  ret    \* the last call and what it returned

Errors == {-1, -2, -3}

Strings == UNION {[1..n -> Byte] : n \in 0..Cap}

Init == queue = <<>> /\ ret = <<"init", 0>>

\* Bytes go in at the end, whole strings and never past Cap.
Put(call, s) ==
  /\ Len(queue) + Len(s) <= Cap
  /\ queue' = queue \o s /\ ret' = <<call, Len(s)>>

\* Bytes leave at the front.
Get(call, n) ==
  /\ n <= Len(queue)
  /\ queue' = SubSeq(queue, n + 1, Len(queue)) /\ ret' = <<call, n>>

\* A fill that returns 0 means that there is no room left.
Full == Len(queue) = Cap /\ queue' = queue /\ ret' = <<"read_fd", 0>>

\* An error has changed nothing.
Failed(call, e) == queue' = queue /\ ret' = <<call, e>>

Clear == queue' = <<>> /\ ret' = <<"reset", 0>>

Next ==
  \/ \E s \in Strings : Put("write", s)
  \/ \E s \in Strings : s # <<>> /\ Put("read_fd", s)
  \/ \E n \in 0..Cap : Get("consume", n) \/ Get("write_fd", n)
  \/ Len(queue) < Cap /\ \E e \in Errors : Failed("read_fd", e)
  \/ queue # <<>> /\ \E e \in Errors : Failed("write_fd", e)
  \/ Full \/ Clear

Spec == Init /\ [][Next]_<<queue, ret>>
=============================================================================
