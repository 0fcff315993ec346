-------------------------- MODULE TcpSessionProofs --------------------------
(****************************************************************************)
(* A TCP session for every size of the ring buffer, of the socket's buffer   *)
(* and of the two streams: first the ring buffer alone (RInv), for every use *)
(* that RingBuffer allows, then the session (TInv), then that the session is *)
(* one of those uses.                                                        *)
(*                                                                           *)
(* RInv locates every byte: byte acked + i is i places (modulo the capacity) *)
(* after the oldest byte in use, lwIP knows it under that address, and rp is *)
(* the place of the first byte that was not handed out yet.                  *)
(*                                                                           *)
(* TInv says what each result the splicer keeps still means when the loop    *)
(* body ends (Forward, Backward), how the bytes in the buffer are counted on *)
(* both sides (Counted), and which control states follow (Control).          *)
(****************************************************************************)
EXTENDS TcpSession, TLAPS

(* The ring buffer *)

\* The address i places after p.
Pos(p, i) == IF p + i < max_size THEN p + i ELSE p + i - max_size

Oldest == Pos(wp, max_size - use_size)

Counts ==
    /\ use_size = put - acked
    /\ rda_size = put - taken
    /\ acked <= taken /\ taken <= put

ReadPointer == rp = Pos(Oldest, use_size - rda_size)
Stored == \A i \in 0..(use_size - 1) : data[Pos(Oldest, i)] = acked + i
Known == \A k \in acked..(taken - 1) : lent[k] = Pos(Oldest, k - acked)

RInv == TypeOK /\ Counts /\ ReadPointer /\ Stored /\ Known

-----------------------------------------------------------------------------
(* Addition modulo the capacity, as the code computes it, is Pos. *)
LEMMA AdvanceIsPos ==
    ASSUME NEW p \in Addrs, NEW i \in 0..max_size
    PROVE  Advance(p, i) = Pos(p, i) /\ Pos(p, i) \in Addrs
<1>1. max_size \in Nat /\ max_size > 0
  BY RingAssumption
<1>2. ASSUME NEW a \in Nat, a < max_size
      PROVE  a % max_size = a
  BY <1>1, <1>2, SMT
<1>3. ASSUME NEW a \in Nat, max_size <= a, a < 2 * max_size
      PROVE  a % max_size = a - max_size
  BY <1>1, <1>3, SMT
<1>4. p + i \in Nat /\ p + i < 2 * max_size
  BY <1>1 DEF Addrs
<1> QED
  BY <1>1, <1>2, <1>3, <1>4 DEF Addrs, Pos, Advance

(* The vectors that reading and writing return address the right bytes. *)
LEMMA PiecesAddress ==
    ASSUME NEW p \in Addrs, NEW size \in 0..max_size
    PROVE  /\ Size(Pieces(p, size)) = size
           /\ \A k \in 0..(size - 1) : At(Pieces(p, size), k) = Pos(p, k)
<1>1. max_size \in Nat /\ max_size > 0
  BY RingAssumption
<1>2. CASE size = 0
  BY <1>1, <1>2 DEF Pieces, Size
<1>3. CASE size > 0 /\ size <= max_size - p
  <2>1. Pieces(p, size) = <<Iov(p, size)>>
    BY <1>1, <1>3 DEF Pieces, Addrs
  <2> QED
    BY <1>1, <1>3, <2>1 DEF Size, At, Iov, Pos, Addrs
<1>4. CASE size > max_size - p
  <2>1. Pieces(p, size) = <<Iov(p, max_size - p), Iov(0, size - (max_size - p))>>
    BY <1>1, <1>4 DEF Pieces, Addrs
  <2> QED
    BY <1>1, <1>4, <2>1 DEF Size, At, Iov, Pos, Addrs
<1> QED
  BY <1>1, <1>2, <1>3, <1>4 DEF Addrs
-----------------------------------------------------------------------------
(* A buffer fresh from hev_ring_buffer_alloca satisfies the invariant. *)
LEMMA InitRInv == Init => RInv
<1> SUFFICES ASSUME Init PROVE RInv
  OBVIOUS
<1> USE RingAssumption
<1>1. TypeOK
  BY DEF Init, TypeOK, Addrs, NoByte
<1>2. Counts
  BY DEF Init, Counts
<1>3. ReadPointer
  BY DEF Init, ReadPointer, Oldest, Pos
<1>4. Stored
  BY DEF Init, Stored
<1>5. Known
  BY DEF Init, Known
<1> QED
  BY <1>1, <1>2, <1>3, <1>4, <1>5 DEF RInv

(* Filling: only addresses after the newest byte change. *)
LEMMA FillRInv ==
    ASSUME RInv, NEW n \in 1..max_size, Fill(n)
    PROVE  RInv'
<1> USE RingAssumption
<1> DEFINE space == max_size - use_size
<1>1. /\ Size(Writing) = space
      /\ \A k \in 0..(space - 1) : At(Writing, k) = Pos(wp, k)
  BY PiecesAddress DEF RInv, TypeOK, Writing
<1>2. n \in 1..space /\ put + n <= StreamLen
  BY <1>1 DEF Fill, Readv, WriteFinish
<1>3. wp' = Pos(wp, n) /\ wp' \in Addrs
  BY <1>2, AdvanceIsPos DEF Fill, Readv, WriteFinish, RInv, TypeOK
<1>16. /\ use_size' = use_size + n /\ acked' = acked
       /\ use_size \in 0..max_size /\ wp \in Addrs
  BY DEF Fill, Readv, WriteFinish, RInv, TypeOK
<1>4. \A k \in 0..(n - 1) : At(Writing, k) = Pos(wp, k)
  BY <1>1, <1>2 DEF RInv, TypeOK
<1>5. \A j, k \in 0..(n - 1) : Pos(wp, j) = Pos(wp, k) => j = k
  BY <1>2 DEF Pos, RInv, TypeOK, Addrs
<1>6. \A k \in 0..(n - 1) : data'[Pos(wp, k)] = put + k
  <2> TAKE k \in 0..(n - 1)
  <2> DEFINE a == Pos(wp, k)
             c == CHOOSE j \in 0..(n - 1) : a = At(Writing, j)
  <2>1. a \in Addrs
    BY <1>2 DEF Pos, RInv, TypeOK, Addrs
  <2>2. a = At(Writing, k)
    BY <1>4
  <2>3. c \in 0..(n - 1) /\ a = At(Writing, c)
    BY <2>2
  <2>4. c = k
    BY <1>4, <1>5, <2>3
  <2>5. data'[a] = put + c
    BY <2>1, <2>2 DEF Fill, Readv, WriteFinish
  <2> QED
    BY <2>4, <2>5
<1>7. \A a \in Addrs : (\A k \in 0..(n - 1) : a # Pos(wp, k)) => data'[a] = data[a]
  BY <1>4 DEF Fill, Readv, WriteFinish
<1>8. \A i \in 0..(use_size - 1), k \in 0..(n - 1) :
         Pos(Oldest, i) \in Addrs /\ Pos(Oldest, i) # Pos(wp, k)
  BY <1>2 DEF Pos, Oldest, RInv, TypeOK, Addrs
<1>9. Oldest' = Oldest
  BY <1>2, <1>3, <1>16 DEF Pos, Oldest, Addrs
<1>10. \A k \in 0..(n - 1) : Pos(Oldest, use_size + k) = Pos(wp, k)
  BY <1>2 DEF Pos, Oldest, RInv, TypeOK, Addrs
<1>11. TypeOK'
  <2>1. data' \in [Addrs -> Int]
    <3>1. ASSUME NEW a \in Addrs PROVE data'[a] \in Int
      <4>1. CASE \A k \in 0..(n - 1) : a # Pos(wp, k)
        BY <4>1, <1>7 DEF RInv, TypeOK
      <4>2. CASE \E k \in 0..(n - 1) : a = Pos(wp, k)
        BY <4>2, <1>6 DEF RInv, TypeOK
      <4> QED
        BY <4>1, <4>2
    <3>2. data' = [a \in Addrs |-> data'[a]]
      BY DEF Fill, Readv, WriteFinish
    <3> QED
      BY <3>1, <3>2
  <2> QED
    BY <2>1, <1>2, <1>3 DEF Fill, Readv, WriteFinish, RInv, TypeOK, Counts
<1>12. Counts'
  BY <1>2 DEF Fill, Readv, WriteFinish, RInv, Counts, TypeOK
<1>13. ReadPointer'
  BY <1>9, <1>2 DEF ReadPointer, Fill, Readv, WriteFinish, RInv, TypeOK, Pos
<1>14. Stored'
  <2> SUFFICES ASSUME NEW i \in 0..(use_size + n - 1)
               PROVE  data'[Pos(Oldest, i)] = acked + i
    BY <1>9, <1>16 DEF Stored, Pos
  <2>1. CASE i < use_size
    <3>1. i \in 0..(use_size - 1)
      BY <2>1 DEF RInv, TypeOK
    <3>2. data'[Pos(Oldest, i)] = data[Pos(Oldest, i)]
      BY <3>1, <1>7, <1>8
    <3> QED
      BY <3>1, <3>2 DEF RInv, Stored
  <2>2. CASE i >= use_size
    <3>1. i - use_size \in 0..(n - 1) /\ i = use_size + (i - use_size)
      BY <2>2, <1>2 DEF RInv, TypeOK
    <3>2. Pos(Oldest, i) = Pos(wp, i - use_size)
      BY <3>1, <1>10
    <3>3. data'[Pos(Oldest, i)] = put + (i - use_size)
      BY <3>1, <3>2, <1>6
    <3> QED
      BY <3>3 DEF RInv, Counts, TypeOK
  <2> QED
    BY <2>1, <2>2 DEF RInv, TypeOK
<1>15. Known'
  BY <1>9 DEF Known, Fill, Readv, WriteFinish, RInv, Pos
<1> QED
  BY <1>11, <1>12, <1>13, <1>14, <1>15 DEF RInv

(* Handing out: lwIP learns the addresses after those it already knows. *)
LEMMA TakeRInv ==
    ASSUME RInv, Take
    PROVE  RInv'
<1> USE RingAssumption
<1>1. /\ Size(Reading) = rda_size
      /\ \A k \in 0..(rda_size - 1) : At(Reading, k) = Pos(rp, k)
  BY PiecesAddress DEF RInv, TypeOK, Reading
<1>2. rp' = Pos(rp, rda_size) /\ rp' \in Addrs
  BY <1>1, AdvanceIsPos DEF Take, TcpWrite, ReadFinish, RInv, TypeOK
<1>3. Oldest' = Oldest
  BY DEF Oldest, Pos, Take, TcpWrite, ReadFinish
<1>4. rda_size' = 0 /\ taken' = put /\ rda_size > 0
  BY <1>1 DEF Take, TcpWrite, ReadFinish, RInv, Counts, TypeOK
<1>5. \A k \in 0..(rda_size - 1) : Pos(rp, k) = Pos(Oldest, (taken + k) - acked)
  BY DEF RInv, TypeOK, Counts, ReadPointer, Oldest, Pos, Addrs
<1>6. \A k \in taken..(put - 1) : lent'[k] = Pos(Oldest, k - acked)
  <2> TAKE k \in taken..(put - 1)
  <2>1. /\ k \in 0..(StreamLen - 1)
        /\ k \in taken..(taken + Size(Reading) - 1)
        /\ k - taken \in 0..(rda_size - 1)
        /\ taken + (k - taken) = k
    BY <1>1 DEF RInv, TypeOK, Counts
  <2>2. lent'[k] = At(Reading, k - taken)
    BY <2>1 DEF Take, TcpWrite, ReadFinish
  <2> QED
    BY <2>1, <2>2, <1>1, <1>5
<1>7. \A k \in acked..(taken - 1) : lent'[k] = lent[k]
  <2> TAKE k \in acked..(taken - 1)
  <2>1. k \in 0..(StreamLen - 1) /\ k \notin taken..(taken + Size(Reading) - 1)
    BY <1>1 DEF RInv, TypeOK, Counts
  <2> QED
    BY <2>1 DEF Take, TcpWrite, ReadFinish
<1>8. TypeOK'
  <2>1. lent' \in [0..(StreamLen - 1) -> Int]
    <3>1. ASSUME NEW k \in 0..(StreamLen - 1) PROVE lent'[k] \in Int
      <4>1. CASE k \in taken..(taken + Size(Reading) - 1)
        <5>1. k \in taken..(put - 1) /\ k - acked \in Int
          BY <4>1, <1>1 DEF RInv, TypeOK, Counts
        <5> QED
          BY <5>1, <1>6 DEF Pos, Oldest, RInv, TypeOK, Addrs
      <4>2. CASE k \notin taken..(taken + Size(Reading) - 1)
        BY <4>2 DEF Take, TcpWrite, ReadFinish, RInv, TypeOK
      <4> QED
        BY <4>1, <4>2
    <3>2. lent' = [k \in 0..(StreamLen - 1) |-> lent'[k]]
      BY DEF Take, TcpWrite, ReadFinish
    <3> QED
      BY <3>1, <3>2
  <2> QED
    BY <2>1, <1>2, <1>4 DEF Take, TcpWrite, ReadFinish, RInv, TypeOK
<1>9. Counts'
  BY <1>4 DEF Take, TcpWrite, ReadFinish, RInv, Counts, TypeOK
<1>10. ReadPointer'
  <2>1. use_size' = use_size
    BY DEF Take, TcpWrite, ReadFinish
  <2>2. Pos(rp, rda_size) = Pos(Oldest, use_size)
    BY DEF RInv, TypeOK, Counts, ReadPointer, Oldest, Pos, Addrs
  <2>3. use_size - 0 = use_size
    BY DEF RInv, TypeOK
  <2> QED
    BY <2>1, <2>2, <2>3, <1>2, <1>3, <1>4 DEF ReadPointer, Pos
<1>11. Stored'
  BY <1>3 DEF Take, TcpWrite, ReadFinish, RInv, Stored, Pos
<1>12. Known'
  <2> SUFFICES ASSUME NEW k \in acked..(put - 1)
               PROVE  lent'[k] = Pos(Oldest, k - acked)
    BY <1>3, <1>4 DEF Known, Take, TcpWrite, ReadFinish, Pos
  <2>1. k \in acked..(taken - 1) \/ k \in taken..(put - 1)
    BY DEF RInv, TypeOK, Counts
  <2> QED
    BY <2>1, <1>6, <1>7 DEF RInv, Known
<1> QED
  BY <1>8, <1>9, <1>10, <1>11, <1>12 DEF RInv

(* Releasing: the oldest bytes leave; an empty buffer starts again at 0. *)
LEMMA ReleaseRInv ==
    ASSUME RInv, NEW n \in 1..max_size, Release(n)
    PROVE  RInv'
<1> USE RingAssumption
<1>1. /\ n <= taken - acked /\ n <= use_size /\ use_size' = use_size - n
      /\ use_size' = 0 => rda_size = 0 /\ taken' = acked'
  BY DEF Release, ReadRelease, RInv, Counts, TypeOK
<1>2. TypeOK'
  BY <1>1 DEF Release, ReadRelease, RInv, TypeOK, Counts, Addrs
<1>3. Counts'
  BY <1>1 DEF Release, ReadRelease, RInv, TypeOK, Counts
<1>4. CASE use_size = n
  <2>1. use_size' = 0 /\ rda_size' = 0 /\ rp' = 0 /\ wp' = 0 /\ taken' = acked'
    BY <1>1, <1>4 DEF Release, ReadRelease, RInv, TypeOK
  <2>2. ReadPointer'
    BY <2>1 DEF ReadPointer, Oldest, Pos
  <2>3. Stored' /\ Known'
    <3>1. ASSUME NEW i \in 0..(use_size' - 1) PROVE FALSE
      BY <2>1, <3>1, SMT
    <3>2. ASSUME NEW k \in acked'..(taken' - 1) PROVE FALSE
      <4>1. acked' \in Int /\ taken' \in Int
        BY DEF Release, ReadRelease, RInv, TypeOK
      <4>2. \A a \in Int : \A b \in a..(a - 1) : FALSE
        OBVIOUS
      <4> QED
        BY <2>1, <4>1, <4>2
    <3>3. Stored'
      BY <3>1, SMT DEF Stored
    <3>4. Known'
      BY <3>2, SMT DEF Known
    <3> QED
      BY <3>3, <3>4
  <2> QED
    BY <1>2, <1>3, <2>2, <2>3 DEF RInv
<1>5. CASE use_size # n
  <2>1. use_size' > 0 /\ rp' = rp /\ wp' = wp
    BY <1>1, <1>5 DEF Release, ReadRelease, RInv, TypeOK
  <2>2. Oldest' = Pos(Oldest, n)
    BY <1>1, <2>1 DEF Oldest, Pos, RInv, TypeOK, Addrs
  <2>3. \A i \in 0..(use_size' - 1) : Pos(Oldest', i) = Pos(Oldest, i + n)
    BY <1>1, <2>1, <2>2 DEF Oldest, Pos, RInv, TypeOK, Addrs
  <2>4. ReadPointer'
    <3>1. rda_size' = rda_size /\ n <= use_size - rda_size
      BY DEF Release, ReadRelease, RInv, TypeOK, Counts
    <3>2. Pos(Oldest', (use_size - n) - rda_size) = Pos(Oldest, use_size - rda_size)
      BY <1>1, <2>1, <2>2, <3>1 DEF Oldest, Pos, RInv, TypeOK, Addrs
    <3> QED
      BY <1>1, <2>1, <3>1, <3>2 DEF ReadPointer, Pos, RInv
  <2>5. Stored'
    <3> SUFFICES ASSUME NEW i \in 0..(use_size' - 1)
                 PROVE  data[Pos(Oldest', i)] = (acked + n) + i
      BY DEF Stored, Release, ReadRelease, Pos
    <3>1. i + n \in 0..(use_size - 1)
      BY <1>1 DEF RInv, TypeOK
    <3> QED
      BY <3>1, <2>3 DEF RInv, Stored, TypeOK
  <2>6. Known'
    <3> SUFFICES ASSUME NEW k \in (acked + n)..(taken - 1)
                 PROVE  lent[k] = Pos(Oldest', k - (acked + n))
      BY DEF Known, Release, ReadRelease, Pos
    <3>1. /\ k \in acked..(taken - 1)
          /\ k - (acked + n) \in 0..(use_size' - 1)
          /\ (k - (acked + n)) + n = k - acked
      BY <1>1 DEF RInv, TypeOK, Counts
    <3> QED
      BY <3>1, <2>3 DEF RInv, Known
  <2> QED
    BY <1>2, <1>3, <2>4, <2>5, <2>6 DEF RInv
<1> QED
  BY <1>4, <1>5

(* Every operation of hev-ring-buffer.c preserves the invariant. *)
LEMMA NextRInv == RInv /\ [Next]_vars => RInv'
<1> SUFFICES ASSUME RInv, [Next]_vars PROVE RInv'
  OBVIOUS
<1>1. ASSUME NEW n \in 1..max_size, Fill(n) PROVE RInv'
  BY <1>1, FillRInv
<1>2. CASE Take
  BY <1>2, TakeRInv
<1>3. ASSUME NEW n \in 1..max_size, Release(n) PROVE RInv'
  BY <1>3, ReleaseRInv
<1>4. CASE UNCHANGED vars
  BY <1>4 DEF vars, ring, RInv, TypeOK, Counts, ReadPointer, Stored, Known, Oldest, Pos
<1> QED
  BY <1>1, <1>2, <1>3, <1>4 DEF Next

(* The invariant holds in every reachable state. *)
LEMMA RingInvariance == Spec => []RInv
  BY InitRInv, NextRInv, PTL DEF Spec

-----------------------------------------------------------------------------
(****************************************************************************)
(* The pointers and sizes of hev-ring-buffer.c stay within the buffer, for   *)
(* every capacity.                                                           *)
(****************************************************************************)
THEOREM PointersInside == Spec => []TypeOK
<1>1. RInv => TypeOK
  BY DEF RInv
<1> QED
  BY <1>1, RingInvariance, PTL

(****************************************************************************)
(* For every capacity and every stream, hev_ring_buffer_reading offers the   *)
(* bytes in the order in which readv stored them.                            *)
(****************************************************************************)
THEOREM InOrder == Spec => []ReadInOrder
<1>1. ASSUME RInv PROVE ReadInOrder
  <2> USE RingAssumption
  <2> SUFFICES ASSUME NEW k \in 0..(rda_size - 1)
               PROVE  data[At(Reading, k)] = taken + k
    BY DEF ReadInOrder
  <2>1. At(Reading, k) = Pos(rp, k)
    BY <1>1, PiecesAddress DEF RInv, TypeOK, Reading
  <2>2. (use_size - rda_size) + k \in 0..(use_size - 1)
    BY <1>1 DEF RInv, TypeOK, Counts
  <2>3. Pos(rp, k) = Pos(Oldest, (use_size - rda_size) + k)
    BY <1>1 DEF RInv, TypeOK, Counts, ReadPointer, Oldest, Pos, Addrs
  <2>4. acked + ((use_size - rda_size) + k) = taken + k
    BY <1>1 DEF RInv, TypeOK, Counts
  <2> QED
    BY <1>1, <2>1, <2>2, <2>3, <2>4 DEF RInv, Stored
<1> QED
  BY <1>1, RingInvariance, PTL

(****************************************************************************)
(* For every capacity and every stream, the memory lwIP refers to keeps its  *)
(* contents until it is acknowledged.                                        *)
(****************************************************************************)
THEOREM LentMemoryIntact == Spec => []LentIntact
<1>1. ASSUME RInv PROVE LentIntact
  <2> SUFFICES ASSUME NEW k \in acked..(taken - 1)
               PROVE  data[lent[k]] = k
    BY DEF LentIntact
  <2>1. k - acked \in 0..(use_size - 1) /\ acked + (k - acked) = k
    BY <1>1 DEF RInv, TypeOK, Counts
  <2> QED
    BY <1>1, <2>1 DEF RInv, Stored, Known
<1> QED
  BY <1>1, RingInvariance, PTL

-----------------------------------------------------------------------------
(* The session *)

Body == {"b_read", "b_write", "choose", "wait"}
Leaving == {"drain", "drain_wait", "drain_woken", "end"}

Types ==
    /\ pc \in {"f"} \cup Over \cup Body \cup Leaving \cup Suspended
    /\ res_f \in {-1, 0, 1} /\ res_b \in {-1, 0, 1}
    /\ queue \in Nat /\ inLwip \in Nat
    /\ outFree \in Nat /\ inQ \in Nat
    /\ pcb \in BOOLEAN /\ pcb_eof \in BOOLEAN /\ terminated \in BOOLEAN
    /\ edge \in BOOLEAN /\ noSpace \in BOOLEAN
    /\ srvFin \in BOOLEAN /\ sockErr \in BOOLEAN
    /\ shut \in BOOLEAN /\ finSent \in BOOLEAN /\ gaveUp \in BOOLEAN

\* Bytes received, handed to lwIP, accepted by it and acknowledged.
Counted ==
    /\ rp \in 0..(max_size - 1) /\ wp \in 0..(max_size - 1)
    /\ put \in Nat /\ taken \in Nat /\ acked \in Nat
    /\ rda_size = put - taken /\ use_size = put - acked
    /\ acked <= inLwip /\ inLwip <= taken /\ taken <= put
    /\ use_size <= max_size /\ put + inQ <= StreamLen

\* The last result of tcp_splice_f, until the next event.
Forward ==
    /\ res_f < 0 => shut \/ sockErr
    /\ shut => pcb_eof /\ queue = 0
    /\ pc \in Body /\ res_f = 0 /\ ~edge =>
          IF queue > 0 THEN noSpace /\ outFree = 0 /\ ~sockErr ELSE ~pcb_eof

\* The last result of tcp_splice_b, until the next event.
Backward ==
    /\ finSent => (srvFin \/ sockErr) /\ inQ = 0 /\ taken = put
    /\ res_b < 0 /\ pc # "locking" =>
                    IF pc = "b_write" THEN (srvFin \/ sockErr) /\ inQ = 0
                    ELSE finSent \/ gaveUp \/ ~pcb
    /\ pc \in {"b_write", "choose", "wait"} /\ res_b = 0 /\ ~edge =>
          use_size = max_size \/ (inQ = 0 /\ ~srvFin /\ ~sockErr)
    /\ rda_size > 0 => pc \in {"b_write", "locking"} \/ ~pcb

Control ==
    /\ ~pcb => terminated \/ pc = "done"
    /\ pc = "wait" => ~terminated
    /\ pc = "drain_wait" => pcb /\ use_size > 0 /\ ~terminated
    /\ pc \in Leaving /\ ~gaveUp /\ ~terminated => res_f < 0 /\ res_b < 0
    /\ pc = "end" /\ ~gaveUp /\ ~terminated => use_size = 0

TInv == Types /\ Counted /\ Forward /\ Backward /\ Control

-----------------------------------------------------------------------------
(* A pointer that is advanced stays inside the buffer. *)
LEMMA AdvanceInside ==
    ASSUME NEW p \in 0..(max_size - 1), NEW n \in Nat
    PROVE  Advance(p, n) \in 0..(max_size - 1)
  BY RingAssumption, TcpSessionAssumption DEF Advance

LEMMA InitTInv == SessionInit => TInv
<1> SUFFICES ASSUME SessionInit PROVE TInv
  OBVIOUS
<1> USE RingAssumption, TcpSessionAssumption DEF SessionInit, Init
<1>1. Types
  BY DEF Types, Body, Leaving, Suspended, Over
<1>2. Counted
  BY DEF Counted
<1>3. Forward
  BY DEF Forward, Body
<1>4. Backward
  BY DEF Backward, Body
<1>5. Control
  BY DEF Control, Leaving
<1> QED
  BY <1>1, <1>2, <1>3, <1>4, <1>5 DEF TInv

(* What the session task does between two suspensions keeps the invariant. *)
LEMMA TaskTInv ==
    ASSUME TInv, Task \/ Timeout
    PROVE  TInv'
<1> USE RingAssumption, TcpSessionAssumption DEF TInv, ringVars, vars, ring, taskVars, appVars, sockVars, histVars, Goto
<1>1. CASE Connect
  <2>1. Types'
    <3>1. gaveUp' \in BOOLEAN
      BY <1>1, Zenon DEF Connect, Types
    <3> QED
      BY <1>1, <3>1, SMT DEF Connect, Types, Body, Leaving, Suspended, Over
  <2>2. Counted'
    BY <1>1 DEF Connect, Types, Counted
  <2>3. Forward'
    BY <1>1 DEF Connect, Types, Forward, Body, Suspended
  <2>4. Backward'
    BY <1>1 DEF Connect, Types, Counted, Backward, Control, Suspended
  <2>5. Control'
    BY <1>1 DEF Connect, Types, Counted, Backward, Control, Leaving, Suspended, Over
  <2> QED
    BY <2>1, <2>2, <2>3, <2>4, <2>5
<1>2. CASE SpliceF
  <2>1. Types'
    <3>1. noSpace' \in BOOLEAN
      BY <1>2, Zenon DEF SpliceF, WriteSocket, PbufFreeHeader, Types
    <3>2. shut' \in BOOLEAN
      BY <1>2, Zenon DEF SpliceF, WriteSocket, PbufFreeHeader, Types
    <3> QED
      BY <1>2, <3>1, <3>2, SMT DEF SpliceF, WriteSocket, PbufFreeHeader, Types, Body, Leaving, Suspended, Over
  <2>2. Counted'
    BY <1>2 DEF SpliceF, WriteSocket, PbufFreeHeader, Types, Counted
  <2>3. Forward'
    BY <1>2 DEF SpliceF, WriteSocket, PbufFreeHeader, Types, Forward, Body, Suspended
  <2>4. Backward'
    BY <1>2 DEF SpliceF, WriteSocket, PbufFreeHeader, Types, Counted, Backward, Control, Suspended
  <2>5. Control'
    BY <1>2 DEF SpliceF, WriteSocket, PbufFreeHeader, Types, Counted, Backward, Control, Leaving, Suspended, Over
  <2> QED
    BY <2>1, <2>2, <2>3, <2>4, <2>5
<1>3. CASE SpliceBRead
  <2>1. Size(Writing) = max_size - use_size
    <3>1. max_size - use_size \in 0..max_size
      BY DEF Types, Counted
    <3> QED
      BY <3>1, PiecesAddress DEF Counted, Addrs, Writing
  <2>2. CASE res_b < 0
    BY <1>3, <2>2 DEF SpliceBRead, Types, Counted, Forward, Backward, Control, Body, Leaving, Suspended, Over
  <2>3. ASSUME NEW s \in 1..inQ, res_b >= 0, s <= Size(Writing), WriteFinish(s),
               inQ' = inQ - s, res_b' = 1, Goto("b_write")
        PROVE  TInv'
    <3>1. wp' \in 0..(max_size - 1)
      BY <2>3, AdvanceInside DEF WriteFinish, Counted, Types
    <3> QED
      BY <1>3, <2>1, <2>3, <3>1 DEF SpliceBRead, WriteFinish, Types, Counted, Forward, Backward, Control, Body, Leaving, Suspended, Over
  <2>4. ASSUME res_b >= 0, inQ = 0 \/ use_size = max_size,
               res_b' = IF use_size < max_size /\ (srvFin \/ sockErr) THEN -1 ELSE 0,
               UNCHANGED <<ringVars, inQ>>
        PROVE  TInv'
    BY <1>3, <2>4 DEF SpliceBRead, Types, Counted, Forward, Backward, Control, Body, Leaving, Suspended, Over
  <2> QED
    BY <1>3, <2>1, <2>2, <2>3, <2>4 DEF SpliceBRead, Types, Counted
<1>4. CASE SpliceBWrite
  <2>1. TcpWriteSum = rda_size
    <3>1. rda_size \in 0..max_size
      BY DEF Types, Counted
    <3> QED
      BY <3>1, PiecesAddress DEF Counted, Addrs, Reading, TcpWriteSum
  <2>2. CASE pcb /\ rda_size > 0
    <3>1. rp' \in 0..(max_size - 1)
      BY <1>4, <2>1, <2>2, AdvanceInside DEF SpliceBWrite, ReadFinish, Counted, Types
    <3>2. \A n \in SomePieces : n \in 0..rda_size
      <4>1. rda_size \in 0..max_size /\ rp \in Addrs
        BY DEF Types, Counted, Addrs
      <4>2. rda_size > 0 /\ max_size \in Nat
        BY <2>2
      <4>3. \A i \in DOMAIN Reading : Reading[i].len \in 0..rda_size
        <5>1. CASE rda_size <= max_size - rp
          <6>1. Reading = <<Iov(rp, rda_size)>>
            BY <4>1, <4>2, <5>1 DEF Reading, Pieces, Addrs
          <6>2. DOMAIN Reading = {1} /\ Reading[1].len = rda_size
            BY <6>1 DEF Iov
          <6> QED
            BY <4>1, <6>2
        <5>2. CASE rda_size > max_size - rp
          <6>1. Reading = <<Iov(rp, max_size - rp), Iov(0, rda_size - (max_size - rp))>>
            BY <4>1, <4>2, <5>2 DEF Reading, Pieces, Addrs
          <6>2. /\ DOMAIN Reading = {1, 2} /\ Reading[1].len = max_size - rp
                /\ Reading[2].len = rda_size - (max_size - rp)
            BY <6>1 DEF Iov
          <6> QED
            BY <4>1, <5>2, <6>2 DEF Addrs
        <5> QED
          BY <4>1, <4>2, <5>1, <5>2 DEF Addrs
      <4> QED
        BY <2>1, <4>1, <4>3 DEF SomePieces, TcpWriteSum
    <3>3. inLwip' \in Nat /\ inLwip <= inLwip' /\ inLwip' <= inLwip + rda_size
      BY <1>4, <2>2, <3>2 DEF SpliceBWrite, Types, Counted
    <3> QED
      <4>1. Types'
        <5>1. gaveUp' \in BOOLEAN /\ finSent' \in BOOLEAN
          BY <1>4, <2>1, <2>2, Zenon DEF SpliceBWrite, ReadFinish, Types
        <5> QED
          BY <1>4, <2>1, <2>2, <3>3, <5>1, SMT DEF SpliceBWrite, ReadFinish, Types, Counted, Body, Leaving, Suspended, Over
      <4>2. Counted'
        BY <1>4, <2>1, <2>2, <3>1, <3>3 DEF SpliceBWrite, ReadFinish, Types, Counted
      <4>3. Forward'
        BY <1>4, <2>1, <2>2, <3>1, <3>3 DEF SpliceBWrite, ReadFinish, Types, Forward, Body, Suspended
      <4>4. Backward'
        BY <1>4, <2>1, <2>2, <3>1, <3>3 DEF SpliceBWrite, ReadFinish, Types, Counted, Backward, Control, Suspended
      <4>5. Control'
        BY <1>4, <2>1, <2>2, <3>1, <3>3 DEF SpliceBWrite, ReadFinish, Types, Counted, Backward, Control, Leaving, Suspended, Over
      <4> QED
        BY <4>1, <4>2, <4>3, <4>4, <4>5
  <2>3. CASE ~(pcb /\ rda_size > 0)
    BY <1>4, <2>3 DEF SpliceBWrite, Types, Counted, Forward, Backward, Control, Body, Leaving, Suspended, Over
  <2> QED
    BY <2>2, <2>3
<1>5. CASE Choose
  BY <1>5 DEF Choose, Types, Counted, Forward, Backward, Control, Body, Leaving, Suspended, Over
<1>6. CASE Drain
  BY <1>6 DEF Drain, Types, Counted, Forward, Backward, Control, Body, Leaving, Suspended, Over
<1>7. CASE Resume
  BY <1>7 DEF Resume, Types, Counted, Forward, Backward, Control, Body, Leaving, Suspended, Over
<1>8. CASE Timeout
  BY <1>8 DEF Timeout, Types, Counted, Forward, Backward, Control, Body, Leaving, Suspended, Over
<1>9. CASE Destruct
  <2>1. Types'
    <3>1. pcb' \in BOOLEAN
      BY <1>9, Zenon DEF Destruct, Types
    <3> QED
      BY <1>9, <3>1, SMT DEF Destruct, Types, Body, Leaving, Suspended, Over
  <2>2. Counted'
    BY <1>9 DEF Destruct, Types, Counted
  <2>3. Forward'
    BY <1>9 DEF Destruct, Types, Forward, Body, Suspended
  <2>4. Backward'
    BY <1>9 DEF Destruct, Types, Counted, Backward, Control, Suspended
  <2>5. Control'
    BY <1>9 DEF Destruct, Types, Counted, Backward, Control, Leaving, Suspended, Over
  <2> QED
    BY <2>1, <2>2, <2>3, <2>4, <2>5
<1>10. CASE Blocked
  BY <1>10 DEF Blocked, Types, Counted, Forward, Backward, Control, Body, Leaving, Suspended, Over
<1> QED
  BY <1>1, <1>2, <1>3, <1>4, <1>5, <1>6, <1>7, <1>8, <1>9, <1>10 DEF Task

(* So do the lwIP callbacks, terminate and the report of an event: each wakes *)
(* a sleeping task, which thereby forgets what it knew.                       *)
LEMMA CallbackTInv ==
    ASSUME TInv, Callback \/ IoPoll
    PROVE  TInv'
<1> USE RingAssumption, TcpSessionAssumption DEF TInv, ringVars, vars, ring, taskVars, appVars, sockVars, histVars
<1>1. ASSUME NEW n \in 1..Window, TcpRecv(n) PROVE TInv'
  BY <1>1 DEF TcpRecv, Wakeup, Types, Counted, Forward, Backward, Control, Body, Leaving, Suspended, Over
<1>2. CASE TcpRecvFin
  BY <1>2 DEF TcpRecvFin, Wakeup, Types, Counted, Forward, Backward, Control, Body, Leaving, Suspended, Over
<1>3. ASSUME NEW n \in 1..max_size, TcpSent(n) PROVE TInv'
  <2>1. Types'
    BY <1>3 DEF TcpSent, ReadRelease, Wakeup, Types, Body, Leaving, Suspended, Over
  <2>2. Counted'
    BY <1>3 DEF TcpSent, ReadRelease, Wakeup, Types, Counted
  <2>3. Forward'
    BY <1>3 DEF TcpSent, ReadRelease, Wakeup, Types, Forward, Body, Suspended
  <2>4. Backward'
    BY <1>3 DEF TcpSent, ReadRelease, Wakeup, Types, Counted, Backward, Control, Suspended
  <2>5. Control'
    BY <1>3 DEF TcpSent, ReadRelease, Wakeup, Types, Counted, Backward, Control, Leaving, Suspended, Over
  <2> QED
    BY <2>1, <2>2, <2>3, <2>4, <2>5
<1>4. CASE TcpErr
  <2>1. Types'
    <3>1. pcb' \in BOOLEAN /\ terminated' \in BOOLEAN
      BY <1>4, Zenon DEF TcpErr, Types
    <3> QED
      BY <1>4, <3>1, SMT DEF TcpErr, Wakeup, Types, Body, Leaving, Suspended, Over
  <2>2. Counted'
    BY <1>4 DEF TcpErr, Wakeup, Types, Counted
  <2>3. Forward'
    BY <1>4 DEF TcpErr, Wakeup, Types, Forward, Body, Suspended
  <2>4. Backward'
    BY <1>4 DEF TcpErr, Wakeup, Types, Counted, Backward, Control, Suspended
  <2>5. Control'
    BY <1>4 DEF TcpErr, Wakeup, Types, Counted, Backward, Control, Leaving, Suspended, Over
  <2> QED
    BY <2>1, <2>2, <2>3, <2>4, <2>5
<1>5. CASE Terminate
  BY <1>5 DEF Terminate, Wakeup, Types, Counted, Forward, Backward, Control, Body, Leaving, Suspended, Over
<1>6. CASE IoPoll
  <2>1. Types'
    <3>1. edge' \in BOOLEAN
      BY <1>6, Zenon DEF IoPoll, Types
    <3> QED
      BY <1>6, <3>1, SMT DEF IoPoll, Wakeup, Types, Body, Leaving, Suspended, Over
  <2>2. Counted'
    BY <1>6 DEF IoPoll, Wakeup, Types, Counted
  <2>3. Forward'
    BY <1>6 DEF IoPoll, Wakeup, Types, Forward, Body, Suspended
  <2>4. Backward'
    BY <1>6 DEF IoPoll, Wakeup, Types, Counted, Backward, Control, Suspended
  <2>5. Control'
    BY <1>6 DEF IoPoll, Wakeup, Types, Counted, Backward, Control, Leaving, Suspended, Over
  <2> QED
    BY <2>1, <2>2, <2>3, <2>4, <2>5
<1> QED
  BY <1>1, <1>2, <1>3, <1>4, <1>5, <1>6 DEF Callback

(* And so does whatever happens to the socket, at any time: a change the task *)
(* could care about comes with an event.                                      *)
LEMMA SocketTInv ==
    ASSUME TInv, Socket
    PROVE  TInv'
<1> USE RingAssumption, TcpSessionAssumption DEF TInv, ringVars, vars, ring, taskVars, appVars, sockVars, histVars
<1>1. ASSUME NEW n \in 1..StreamLen, SrvSend(n) PROVE TInv'
  BY <1>1 DEF SrvSend, Types, Counted, Forward, Backward, Control, Body, Leaving, Suspended, Over
<1>2. CASE SrvClose
  BY <1>2 DEF SrvClose, Types, Counted, Forward, Backward, Control, Body, Leaving, Suspended, Over
<1>3. CASE SrvReset
  BY <1>3 DEF SrvReset, Types, Counted, Forward, Backward, Control, Body, Leaving, Suspended, Over
<1>4. ASSUME NEW n \in 1..OutCap, SrvRead(n) PROVE TInv'
  <2>1. Types'
    <3>1. edge' \in BOOLEAN /\ noSpace' \in BOOLEAN
      BY <1>4, Zenon DEF SrvRead, Types
    <3> QED
      BY <1>4, <3>1, SMT DEF SrvRead, Types, Body, Leaving, Suspended, Over
  <2>2. Counted'
    BY <1>4 DEF SrvRead, Types, Counted
  <2>3. Forward'
    BY <1>4 DEF SrvRead, Types, Forward, Body, Suspended
  <2>4. Backward'
    BY <1>4 DEF SrvRead, Types, Counted, Backward, Control, Suspended
  <2>5. Control'
    BY <1>4 DEF SrvRead, Types, Counted, Backward, Control, Leaving, Suspended, Over
  <2> QED
    BY <2>1, <2>2, <2>3, <2>4, <2>5
<1> QED
  BY <1>1, <1>2, <1>3, <1>4 DEF Socket

LEMMA NextTInv == TInv /\ [SessionNext]_sessionVars => TInv'
<1> SUFFICES ASSUME TInv, [SessionNext]_sessionVars PROVE TInv'
  OBVIOUS
<1>1. CASE UNCHANGED sessionVars
  BY <1>1 DEF sessionVars, ringVars, vars, ring, taskVars, appVars, sockVars, histVars, TInv, Types, Counted, Forward, Backward, Control, Body, Leaving, Suspended, Over
<1> QED
  BY <1>1, TaskTInv, CallbackTInv, SocketTInv DEF SessionNext

LEMMA Invariance == SessionSpec => []TInv
  BY InitTInv, NextTInv, PTL DEF SessionSpec

-----------------------------------------------------------------------------
(****************************************************************************)
(* For buffers and streams of every size, the splicer goes to sleep only     *)
(* when neither direction can move and no event is under way: also a buffer  *)
(* that is full while the socket, registered edge triggered, has more to     *)
(* read, which only the next tcp_sent_handler can bring to an end.           *)
(****************************************************************************)
THEOREM NoWakeupLost == SessionSpec => []NoLostWakeup
<1>1. TInv => NoLostWakeup
  <2> SUFFICES ASSUME TInv PROVE NoLostWakeup
    OBVIOUS
  <2>1. ASSUME pc = "wait", ~edge
        PROVE  /\ ~terminated /\ rda_size = 0
               /\ res_f = 0 => IF queue > 0 THEN outFree = 0 /\ ~sockErr ELSE ~pcb_eof
               /\ res_b = 0 => \/ use_size = max_size
                               \/ inQ = 0 /\ ~srvFin /\ ~sockErr
    BY <2>1 DEF TInv, Types, Counted, Forward, Backward, Control, Body
  <2>2. pc = "drain_wait" => pcb /\ use_size > 0 /\ ~terminated
    BY DEF TInv, Control
  <2> QED
    BY <2>1, <2>2 DEF NoLostWakeup
<1> QED
  BY <1>1, Invariance, PTL

(****************************************************************************)
(* For buffers and streams of every size, neither side learns of the end of  *)
(* the other's stream before it has been given all of it: shutdown (SHUT_WR) *)
(* comes after the last queued byte, tcp_shutdown after the last received.   *)
(****************************************************************************)
THEOREM EndsAfterData == SessionSpec => []HalfClose
<1>1. TInv => HalfClose
  BY DEF TInv, Forward, Backward, HalfClose
<1> QED
  BY <1>1, Invariance, PTL

(****************************************************************************)
(* For buffers and streams of every size, a session that ends without a      *)
(* timeout, a failure, a reset or terminate has delivered every byte both    *)
(* ways, and lwIP no longer refers to the buffer in the splicer's frame.     *)
(****************************************************************************)
THEOREM OrderlyEndIsComplete == SessionSpec => []OrderlyEnd
<1>1. TInv => OrderlyEnd
  <2> SUFFICES ASSUME TInv, pc = "end", ~gaveUp, ~terminated, ~sockErr
               PROVE  /\ shut /\ finSent
                      /\ queue = 0 /\ inQ = 0
                      /\ acked = put
    BY DEF OrderlyEnd
  <2>1. res_f < 0 /\ res_b < 0 /\ use_size = 0 /\ pcb
    BY DEF TInv, Control, Leaving
  <2> QED
    BY <2>1 DEF TInv, Types, Counted, Forward, Backward
<1> QED
  BY <1>1, Invariance, PTL

-----------------------------------------------------------------------------
(* Each step of a session is a step of its ring buffer or leaves it alone. *)
LEMMA RingStep == TInv /\ [SessionNext]_sessionVars => [Next]_(vars)
<1> SUFFICES ASSUME TInv, [SessionNext]_sessionVars PROVE [Next]_(vars)
  OBVIOUS
<1>1. ASSUME UNCHANGED ringVars PROVE [Next]_(vars)
  BY <1>1 DEF ringVars
<1>2. CASE SpliceBRead
  <2>1. ASSUME NEW s \in 1..inQ, s <= Size(Writing),
               Readv(s), WriteFinish(s), UNCHANGED lent
        PROVE  Next
    <3>1. max_size - use_size \in 0..max_size
      BY RingAssumption, TcpSessionAssumption DEF TInv, Types, Counted
    <3>2. Size(Writing) = max_size - use_size
      BY <3>1, PiecesAddress DEF TInv, Counted, Addrs, Writing
    <3>3. s \in 1..max_size /\ s \in 1..Size(Writing) /\ put + s <= StreamLen
      BY <2>1, <3>1, <3>2, RingAssumption, TcpSessionAssumption DEF TInv, Types, Counted
    <3>4. Fill(s)
      BY <2>1, <3>3 DEF Fill
    <3> QED
      BY <3>3, <3>4 DEF Next
  <2> QED
    BY <1>1, <1>2, <2>1 DEF SpliceBRead
<1>3. CASE SpliceBWrite
  <2>1. ASSUME rda_size > 0, TcpWrite(TcpWriteSum), ReadFinish(TcpWriteSum),
               UNCHANGED data
        PROVE  Next
    BY <2>1 DEF Next, Take, TcpWriteSum
  <2> QED
    BY <1>1, <1>3, <2>1 DEF SpliceBWrite
<1>4. ASSUME NEW n \in 1..max_size, TcpSent(n) PROVE Next
  <2>1. n \in 1..(taken - acked)
    BY <1>4, RingAssumption, TcpSessionAssumption DEF TcpSent, TInv, Types, Counted
  <2>2. Release(n)
    BY <1>4, <2>1 DEF TcpSent, Release
  <2> QED
    BY <2>2 DEF Next
<1>5. CASE Task \/ Timeout
  <2>1. CASE Connect \/ SpliceF \/ Choose \/ Drain \/ Resume \/ Destruct \/ Blocked \/ Timeout
    <3>1. UNCHANGED ringVars
      BY <2>1 DEF Connect, SpliceF, Choose, Drain, Resume, Destruct, Blocked, Timeout
    <3> QED
      BY <1>1, <3>1
  <2> QED
    BY <1>2, <1>3, <1>5, <2>1 DEF Task
<1>6. CASE Callback
  <2>1. ASSUME NEW n \in 1..Window, TcpRecv(n) PROVE UNCHANGED ringVars
    BY <2>1 DEF TcpRecv
  <2>2. CASE TcpRecvFin \/ TcpErr \/ Terminate
    BY <1>1, <2>2 DEF TcpRecvFin, TcpErr, Terminate
  <2> QED
    BY <1>1, <1>4, <1>6, <2>1, <2>2 DEF Callback
<1>7. CASE Socket \/ IoPoll \/ UNCHANGED sessionVars
  <2>1. UNCHANGED ringVars
    BY <1>7 DEF Socket, SrvSend, SrvClose, SrvReset, SrvRead, IoPoll, sessionVars
  <2> QED
    BY <1>1, <2>1
<1> QED
  BY <1>5, <1>6, <1>7 DEF SessionNext

(****************************************************************************)
(* For buffers and streams of every size, a session fills, hands out and     *)
(* releases its ring buffer only as RingBuffer allows.                       *)
(****************************************************************************)
THEOREM RingUsedCorrectly == SessionSpec => UsesRing
<1>1. SessionInit => Init
  BY DEF SessionInit
<1> QED
  BY <1>1, RingStep, Invariance, PTL DEF SessionSpec, UsesRing, Spec

(****************************************************************************)
(* In every session, with buffers and streams of every size, tcp_write is    *)
(* given the server's bytes in order, and the memory it was given keeps its  *)
(* contents until the application has acknowledged them: what RingBuffer     *)
(* promises, for the buffer as hev-socks5-session-tcp.c uses it.             *)
(****************************************************************************)
THEOREM SessionBytesIntact == SessionSpec => [](ReadInOrder /\ LentIntact)
  BY RingUsedCorrectly, InOrder, LentMemoryIntact, PTL DEF UsesRing

=============================================================================
