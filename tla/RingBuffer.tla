----------------------------- MODULE RingBuffer -----------------------------
(****************************************************************************)
(* hev-ring-buffer.c, used by a TCP session for the bytes of the SOCKS       *)
(* server: they are read into the buffer (Fill), handed to lwIP by address   *)
(* (Take; tcp_write without a copy) and freed when the application has       *)
(* acknowledged them (Release). lwIP may retransmit from the buffer for as   *)
(* long as a byte is unacknowledged, so the memory it was given must keep    *)
(* its contents.                                                             *)
(*                                                                           *)
(* The bytes of the stream are numbered 0, 1, ...; `data' holds, for each    *)
(* address, the number of the byte stored there.                             *)
(****************************************************************************)
EXTENDS Integers, Sequences

CONSTANTS
    max_size,   \* capacity of the buffer (misc.tcp-buffer-size)
    StreamLen   \* how many bytes the server sends

ASSUME RingAssumption == max_size \in Nat \ {0} /\ StreamLen \in Nat

VARIABLES
    rp, wp, rda_size, use_size, data,   \* HevRingBuffer
    put, taken, acked,  \* history: bytes filled in, handed out, released
    lent                \* history: the address under which lwIP knows a byte

ring == <<rp, wp, rda_size, use_size, data>>
vars == <<ring, put, taken, acked, lent>>

Addrs == 0..(max_size - 1)
NoByte == -1

TypeOK ==
    /\ rp \in Addrs /\ wp \in Addrs
    /\ rda_size \in 0..max_size /\ use_size \in 0..max_size
    /\ data \in [Addrs -> Int]
    /\ put \in 0..StreamLen /\ taken \in 0..StreamLen /\ acked \in 0..StreamLen
    /\ lent \in [0..(StreamLen - 1) -> Int]

\* hev_ring_buffer_alloca; the memory is not initialised.
Init ==
    /\ rp = 0 /\ wp = 0 /\ rda_size = 0 /\ use_size = 0
    /\ data = [a \in Addrs |-> NoByte]
    /\ put = 0 /\ taken = 0 /\ acked = 0
    /\ lent = [k \in 0..(StreamLen - 1) |-> NoByte]

-----------------------------------------------------------------------------
(* The two operations that return an I/O vector *)

Iov(base, len) == [base |-> base, len |-> len]

\* size bytes from address p on, in one piece or wrapped around the end.
Pieces(p, size) ==
    LET upper == max_size - p IN
    IF size = 0 THEN <<>>
    ELSE IF size <= upper THEN <<Iov(p, size)>>
    ELSE <<Iov(p, upper), Iov(0, size - upper)>>

Reading == Pieces(rp, rda_size)

\* Mutant: the free space is computed from what was not yet read, although
\* lwIP still refers to what was read and is not released.
WritingOverUnacked == Pieces(wp, max_size - rda_size)

Writing == Pieces(wp, max_size - use_size)

Size(iov) ==
    IF iov = <<>> THEN 0
    ELSE IF Len(iov) = 1 THEN iov[1].len ELSE iov[1].len + iov[2].len

\* The address of byte k of a vector, the order in which readv and tcp_write
\* go through it.
At(iov, k) ==
    IF k < iov[1].len THEN iov[1].base + k ELSE iov[2].base + (k - iov[1].len)

-----------------------------------------------------------------------------
(* The operations, and the I/O each of them follows *)

Advance(p, n) == (p + n) % max_size

\* readv stores the next n bytes of the stream where Writing points.
Readv(n) ==
    data' = [a \in Addrs |->
               IF \E k \in 0..(n - 1) : a = At(Writing, k)
               THEN put + (CHOOSE k \in 0..(n - 1) : a = At(Writing, k))
               ELSE data[a]]

WriteFinish(n) ==
    /\ wp' = Advance(wp, n)
    /\ use_size' = use_size + n
    /\ rda_size' = rda_size + n
    /\ put' = put + n
    /\ UNCHANGED <<rp, taken, acked>>

\* tcp_write tells lwIP where the first n readable bytes are.
TcpWrite(n) ==
    lent' = [k \in 0..(StreamLen - 1) |->
               IF k \in taken..(taken + n - 1)
               THEN At(Reading, k - taken) ELSE lent[k]]

ReadFinish(n) ==
    /\ rp' = Advance(rp, n)
    /\ rda_size' = rda_size - n
    /\ taken' = taken + n
    /\ UNCHANGED <<wp, use_size, put, acked>>

\* Mutant: the pointers are not reset together.
ReadReleaseResetsOne(n) ==
    /\ use_size' = use_size - n
    /\ rp' = IF use_size = n THEN 0 ELSE rp
    /\ acked' = acked + n
    /\ UNCHANGED <<wp, rda_size, put, taken>>

\* Both pointers are reset when the buffer becomes empty.
ReadRelease(n) ==
    /\ use_size' = use_size - n
    /\ rp' = IF use_size = n THEN 0 ELSE rp
    /\ wp' = IF use_size = n THEN 0 ELSE wp
    /\ acked' = acked + n
    /\ UNCHANGED <<rda_size, put, taken>>

-----------------------------------------------------------------------------
(* How the buffer may be used: never filled beyond Writing, handed out whole, *)
(* released only as far as it was handed out.                                 *)

Fill(n) ==
    /\ n \in 1..Size(Writing) /\ put + n <= StreamLen
    /\ Readv(n)
    /\ WriteFinish(n)
    /\ UNCHANGED lent

Take ==
    /\ rda_size > 0
    /\ TcpWrite(Size(Reading))
    /\ ReadFinish(Size(Reading))
    /\ UNCHANGED data

Release(n) ==
    /\ n \in 1..(taken - acked)
    /\ ReadRelease(n)
    /\ UNCHANGED <<data, lent>>

Next ==
    \/ \E n \in 1..max_size : Fill(n)
    \/ Take
    \/ \E n \in 1..max_size : Release(n)

Spec == Init /\ [][Next]_vars

-----------------------------------------------------------------------------
(* Properties *)

(****************************************************************************)
(* hev_ring_buffer_reading offers the bytes of the stream in order, without  *)
(* a gap, whatever fills, partial releases, wrap-arounds and pointer resets  *)
(* came before.                                                              *)
(****************************************************************************)
ReadInOrder ==
    \A k \in 0..(rda_size - 1) : data[At(Reading, k)] = taken + k

(****************************************************************************)
(* The memory that tcp_write was given keeps its contents until the byte is  *)
(* acknowledged: hev_ring_buffer_writing never offers it for writing.        *)
(****************************************************************************)
LentIntact == \A k \in acked..(taken - 1) : data[lent[k]] = k

=============================================================================
