-------------------------- MODULE UdpSessionProofs --------------------------
(****************************************************************************)
(* A UDP session for every size of the pool, of the batches and of the       *)
(* socket's buffer, and for every number of datagrams.                       *)
(*                                                                           *)
(* Towards the server the invariant numbers the pieces on the wire: as long  *)
(* as no batch was cut short, piece k of the wire is piece k of the accepted *)
(* datagrams, and the queue holds the last of them (Queued, Written).        *)
(* Towards the application it says where in the stream the task is: which    *)
(* pieces wait in the socket (Arrived), how far into a frame the task has    *)
(* read, and which datagrams it holds and has delivered (InStep). Awake says *)
(* what a sleeping task, and one about to sleep, may rely on.                *)
(****************************************************************************)
EXTENDS UdpSession, SequenceTheorems, TLAPS

InFrame == {"rest", "body"}
Receiving == {"recv", "head", "deliver"} \cup InFrame

Types ==
    /\ mode \in {"tcp", "udp"}
    /\ pc \in {"connect", "f", "send", "choose", "end", "done", "crashed", "locking"}
              \cup Receiving
    /\ susp \in {"run", "ready", "wait", "woken", "failed"}
    /\ res_f \in {-1, 0, 1} /\ res_b \in {-1, 0, 1}
    /\ frames \in Seq(Nat) /\ got \in Seq(Nat) /\ delivered \in Seq(Nat)
    /\ inq \in Seq(Nat \X Nat) /\ wire \in Seq(Nat \X Nat) /\ arr \in Seq(Kinds)
    /\ batch \in Nat /\ size \in Nat /\ cur \in Nat
    /\ sent \in Nat /\ acc \in Nat /\ room \in Nat /\ fed \in Nat
    /\ addr \in BOOLEAN /\ terminated \in BOOLEAN
    /\ edge \in BOOLEAN /\ noSpace \in BOOLEAN
    /\ eof \in BOOLEAN /\ sockErr \in BOOLEAN /\ ctl \in BOOLEAN
    /\ torn \in BOOLEAN /\ garbled \in BOOLEAN /\ late \in BOOLEAN

\* Piece k of a stream of datagrams of n pieces each.
Piece(k, n) == <<((k - 1) \div n) + 1, ((k - 1) % n) + 1>>

\* The queue holds the last datagrams that were accepted.
Gone == acc - Len(frames)
Queued ==
    /\ Len(frames) <= acc /\ Len(frames) <= UDP_POOL_SIZE + 1
    /\ \A i \in 1..Len(frames) : frames[i] = Gone + i
    /\ IF pc = "send" THEN batch \in 1..Len(frames) /\ size < batch * OutUnits
       ELSE batch = 0 /\ size = 0

\* How many datagrams n pieces belong to.
Begun(n) == (n + OutUnits - 1) \div OutUnits

\* The pieces w are those of g datagrams and n pieces more; or, a weaker statement, they
\* are in order and belong to no later datagram.
Exactly(w, g, n) ==
    /\ Len(w) = g * OutUnits + n
    /\ \A k \in 1..Len(w) : w[k] = Piece(k, OutUnits)

InOrder(w, g, n) ==
    /\ \A i, j \in 1..Len(w) : i < j => w[i][1] <= w[j][1]
    /\ \A i \in 1..Len(w) : w[i][1] <= g + Begun(n)

\* The queue was freed.
Freed == {"done", "locking"}

Written ==
    /\ torn => mode = "tcp"
    /\ ~torn /\ pc \notin Freed => Exactly(wire, Gone, size)
    /\ InOrder(wire, Gone, size)

\* Pieces and whole datagrams taken from the socket.
TakenPieces == fed - Len(inq)
Whole == TakenPieces \div InUnits

Arrived ==
    /\ Len(inq) <= fed /\ fed <= Len(arr) * InUnits
    /\ mode = "udp" \/ ~sockErr => (Len(arr) - 1) * InUnits < fed
    /\ \A i \in 1..Len(inq) : inq[i] = Piece(TakenPieces + i, InUnits)

\* Whole datagrams that are not in the batch at hand any more.
Handled == Whole - Len(got)

\* How far into a frame the task has read.
Phase == IF pc = "rest" THEN 1 ELSE IF pc = "body" THEN 2 ELSE 0

\* The datagrams d are the first h, the empty ones apart.
Passed(h, d) ==
    /\ h >= 0
    /\ \A i \in 1..Len(d) : d[i] \in 1..h /\ arr[d[i]] # "empty"
    /\ \A n \in 1..h : arr[n] # "empty" => \E i \in 1..Len(d) : d[i] = n

Position ==
    /\ TakenPieces % InUnits = Phase
    /\ pc \in InFrame => cur = Whole + 1
    /\ \A i \in 1..Len(got) : got[i] = Handled + i
    /\ Passed(Handled, delivered)

\* Where the task may be suspended, or find that it should give up, and which way it took.
Calm ==
    /\ susp \in {"ready", "wait", "woken", "failed"} =>
          pc \in {"connect", "f", "send"} \cup InFrame
    /\ pc \in Receiving => res_b >= 0
    /\ pc \in {"connect", "f", "send", "recv", "choose", "end"} => got = <<>>
    /\ pc \in {"head"} \cup InFrame => mode = "tcp"
    /\ pc = "recv" => mode = "udp"

InStep ==
    /\ ~garbled => Increasing(delivered)
    /\ ~garbled /\ res_b >= 0 /\ Alive => Position

Quiet == inq = <<>> /\ ~eof /\ ~sockErr

\* A datagram was queued since fwd_f found none.
Late == res_f = 0 /\ frames # <<>>

Asleep(at) == pc = at /\ susp = "wait"

Awake ==
    /\ eof => mode = "tcp"
    /\ susp = "wait" => ~terminated /\ (edge \/ ~CtlGone)
    /\ Asleep("send") /\ ~edge => room = 0 /\ noSpace /\ ~sockErr
    /\ pc \in InFrame /\ susp = "wait" /\ ~edge => Quiet
    /\ Asleep("f") => res_f <= 0 /\ res_b <= 0
    /\ (pc = "choose" \/ Asleep("f")) /\ res_b = 0 /\ ~edge => garbled \/ Quiet
    /\ Late /\ (pc \in Receiving \cup {"choose"} \/ Asleep("f")) => late

UInv == Types /\ Queued /\ Written /\ Arrived /\ InStep /\ Calm /\ Awake

-----------------------------------------------------------------------------
(* Sequences, and the units a datagram is moved in. *)

LEMMA DropProperties ==
    ASSUME NEW S, NEW s \in Seq(S), NEW n \in 0..Len(s)
    PROVE  /\ Drop(s, n) \in Seq(S)
           /\ Len(Drop(s, n)) = Len(s) - n
           /\ \A i \in 1..(Len(s) - n) : Drop(s, n)[i] = s[n + i]
<1>1. Len(s) \in Nat /\ n + 1 \in Int /\ \A i \in (n + 1)..Len(s) : s[i] \in S
  BY LenProperties, ElementOfSeq
<1>2. /\ SubSeq(s, n + 1, Len(s)) \in Seq(S)
      /\ Len(SubSeq(s, n + 1, Len(s))) = IF n + 1 <= Len(s) THEN Len(s) - (n + 1) + 1 ELSE 0
      /\ \A i \in 1..(Len(s) - (n + 1) + 1) : SubSeq(s, n + 1, Len(s))[i] = s[n + 1 + i - 1]
  BY <1>1, SubSeqProperties
<1> QED
  BY <1>1, <1>2 DEF Drop

LEMMA TakeProperties ==
    ASSUME NEW S, NEW s \in Seq(S), NEW n \in 0..Len(s)
    PROVE  /\ Take(s, n) \in Seq(S)
           /\ Len(Take(s, n)) = n
           /\ \A i \in 1..n : Take(s, n)[i] = s[i]
<1>1. Len(s) \in Nat /\ n \in Int /\ \A i \in 1..n : s[i] \in S
  BY LenProperties, ElementOfSeq
<1>2. /\ SubSeq(s, 1, n) \in Seq(S)
      /\ Len(SubSeq(s, 1, n)) = IF 1 <= n THEN n - 1 + 1 ELSE 0
      /\ \A i \in 1..(n - 1 + 1) : SubSeq(s, 1, n)[i] = s[1 + i - 1]
  BY <1>1, SubSeqProperties
<1> QED
  BY <1>1, <1>2 DEF Take

LEMMA TailProperties ==
    ASSUME NEW S, NEW s \in Seq(S), s # <<>>
    PROVE  /\ Head(s) = s[1] /\ s[1] \in S
           /\ Tail(s) \in Seq(S)
           /\ Len(s) \in Nat \ {0} /\ Len(Tail(s)) = Len(s) - 1
           /\ \A i \in 1..(Len(s) - 1) : Tail(s)[i] = s[i + 1]
  BY HeadTailProperties, EmptySeq, LenProperties, ElementOfSeq

LEMMA Units ==
    ASSUME Types
    PROVE  /\ OutUnits \in {1, 2} /\ InUnits \in {1, 3}
           /\ mode = "udp" => OutUnits = 1 /\ InUnits = 1
           /\ mode = "tcp" => OutUnits = 2 /\ InUnits = 3
  BY DEF Types, OutUnits, InUnits

(* The mode is that of the configuration throughout. *)
LEMMA ModeKept ==
    ASSUME [Next]_vars
    PROVE  mode' = mode /\ OutUnits' = OutUnits /\ InUnits' = InUnits
<1>1. mode' = mode
  BY DEF Next, Task, Timeout, Connect, FwdF, Send, SendGivesUp, RecvUdp, ReadHead, ReadOn,
         ReadGivesUp, Deliver, Choose, SplicerGivesUp, Destruct, Blocked, UdpRecv, Terminate,
         SrvSend, SrvClose, SrvRead, IoPoll, vars
<1> QED
  BY <1>1 DEF OutUnits, InUnits

LEMMA RangeEnd ==
    ASSUME NEW m \in Nat, NEW n \in Nat, 1..m = 1..n
    PROVE  m = n
<1>1. ASSUME m < n PROVE FALSE
  <2>1. n \in 1..n /\ n \notin 1..m
    BY <1>1
  <2> QED
    BY <2>1
<1>2. ASSUME n < m PROVE FALSE
  <2>1. m \in 1..m /\ m \notin 1..n
    BY <1>2
  <2> QED
    BY <2>1
<1> QED
  BY <1>1, <1>2

LEMMA PiecesProperties ==
    ASSUME Types, NEW ids \in Seq(Nat)
    PROVE  /\ Pieces(ids) \in Seq(Nat \X Nat)
           /\ Len(Pieces(ids)) = Len(ids) * OutUnits
           /\ \A k \in 1..(Len(ids) * OutUnits) :
                 /\ ((k - 1) \div OutUnits) + 1 \in 1..Len(ids)
                 /\ Pieces(ids)[k] = <<ids[((k - 1) \div OutUnits) + 1],
                                       ((k - 1) % OutUnits) + 1>>
<1> DEFINE n == Len(ids) * OutUnits
<1>1. OutUnits \in {1, 2} /\ Len(ids) \in Nat /\ n \in Nat
  BY Units, LenProperties
<1>2. \A k \in 1..n : /\ ((k - 1) \div OutUnits) + 1 \in 1..Len(ids)
                      /\ ((k - 1) % OutUnits) + 1 \in Nat
  BY <1>1
<1>3. \A k \in 1..n : Pieces(ids)[k] = <<ids[((k - 1) \div OutUnits) + 1],
                                        ((k - 1) % OutUnits) + 1>>
  BY DEF Pieces
<1>4. \A k \in 1..n : Pieces(ids)[k] \in Nat \X Nat
  <2> TAKE k \in 1..n
  <2> DEFINE q == ((k - 1) \div OutUnits) + 1
             p == ((k - 1) % OutUnits) + 1
  <2>1. q \in 1..Len(ids) /\ p \in Nat /\ Pieces(ids)[k] = <<ids[q], p>>
    BY <1>2, <1>3
  <2> HIDE DEF q, p
  <2>2. ids[q] \in Nat
    BY <2>1, ElementOfSeq
  <2> QED
    BY <2>1, <2>2
<1>5. Pieces(ids) = [k \in 1..n |-> Pieces(ids)[k]]
  BY DEF Pieces
<1>6. Pieces(ids) \in [1..n -> Nat \X Nat]
  BY <1>4, <1>5
<1>7. Pieces(ids) \in Seq(Nat \X Nat)
  BY <1>1, <1>6, SeqDef
<1>8. DOMAIN Pieces(ids) = 1..n /\ DOMAIN Pieces(ids) = 1..Len(Pieces(ids))
      /\ Len(Pieces(ids)) \in Nat
  BY <1>5, <1>7, LenProperties
<1>9. Len(Pieces(ids)) = n
  <2> HIDE DEF n
  <2> QED
    BY <1>1, <1>8, RangeEnd
<1> QED
  BY <1>2, <1>3, <1>7, <1>9

\* What a send adds to the wire: the pieces that follow the first size of the batch.
More(s) == Take(Drop(Pieces(Take(frames, batch)), size), s)

LEMMA MoreProperties ==
    ASSUME Types, Queued, pc = "send", NEW s \in 1..(batch * OutUnits - size)
    PROVE  /\ More(s) \in Seq(Nat \X Nat)
           /\ Len(More(s)) = s
           /\ \A i \in 1..s : More(s)[i] = <<Gone + ((size + i - 1) \div OutUnits) + 1,
                                             ((size + i - 1) % OutUnits) + 1>>
<1> DEFINE ids == Take(frames, batch)
           all == Pieces(ids)
           rest == Drop(all, size)
<1>1. /\ OutUnits \in {1, 2} /\ Len(frames) \in Nat /\ batch \in 1..Len(frames)
      /\ size \in Nat /\ size < batch * OutUnits
  BY Units, LenProperties DEF Types, Queued
<1>2. /\ ids \in Seq(Nat) /\ Len(ids) = batch
      /\ \A i \in 1..batch : ids[i] = frames[i]
  <2>1. frames \in Seq(Nat) /\ batch \in 0..Len(frames)
    BY <1>1 DEF Types
  <2> QED
    BY <2>1, TakeProperties
<1>3. \A i \in 1..batch : ids[i] = Gone + i
  BY <1>1, <1>2 DEF Queued
<1>4. /\ all \in Seq(Nat \X Nat) /\ Len(all) = batch * OutUnits
      /\ \A k \in 1..(batch * OutUnits) :
            /\ ((k - 1) \div OutUnits) + 1 \in 1..batch
            /\ all[k] = <<ids[((k - 1) \div OutUnits) + 1], ((k - 1) % OutUnits) + 1>>
  <2> HIDE DEF ids
  <2> QED
    BY <1>2, PiecesProperties
<1>5. /\ rest \in Seq(Nat \X Nat) /\ Len(rest) = batch * OutUnits - size
      /\ \A i \in 1..(batch * OutUnits - size) : rest[i] = all[size + i]
  <2> HIDE DEF all
  <2>1. size \in 0..Len(all)
    BY <1>1, <1>4
  <2> QED
    BY <1>4, <2>1, DropProperties
<1>6. /\ More(s) \in Seq(Nat \X Nat) /\ Len(More(s)) = s
      /\ \A i \in 1..s : More(s)[i] = rest[i]
  <2>1. More(s) = Take(rest, s)
    BY DEF More
  <2> HIDE DEF rest
  <2>2. s \in 0..Len(rest)
    BY <1>1, <1>5
  <2> QED
    BY <1>5, <2>1, <2>2, TakeProperties
<1>7. ASSUME NEW i \in 1..s
      PROVE  More(s)[i] = <<Gone + ((size + i - 1) \div OutUnits) + 1,
                            ((size + i - 1) % OutUnits) + 1>>
  <2> HIDE DEF ids, all, rest
  <2>1. i \in 1..(batch * OutUnits - size) /\ size + i \in 1..(batch * OutUnits)
    BY <1>1
  <2>2. More(s)[i] = all[size + i]
    BY <1>5, <1>6, <2>1
  <2>3. all[size + i] = <<ids[((size + i - 1) \div OutUnits) + 1],
                          ((size + i - 1) % OutUnits) + 1>>
        /\ ((size + i - 1) \div OutUnits) + 1 \in 1..batch
    <3> DEFINE k == size + i
    <3>1. k \in 1..(batch * OutUnits) /\ size + i = k
      BY <2>1
    <3> HIDE DEF k
    <3>2. /\ all[k] = <<ids[((k - 1) \div OutUnits) + 1], ((k - 1) % OutUnits) + 1>>
          /\ ((k - 1) \div OutUnits) + 1 \in 1..batch
      BY <1>4, <3>1
    <3>3. size + i - 1 = k - 1
      BY <1>1, <3>1
    <3> QED
      BY <3>1, <3>2, <3>3
  <2>4. ids[((size + i - 1) \div OutUnits) + 1] = Gone + (((size + i - 1) \div OutUnits) + 1)
    BY <1>3, <2>3
  <2>5. Gone + (((size + i - 1) \div OutUnits) + 1) = Gone + ((size + i - 1) \div OutUnits) + 1
    BY <1>1, <2>3 DEF Gone, Types
  <2> QED
    BY <2>2, <2>3, <2>4, <2>5
<1> QED
  BY <1>6, <1>7

-----------------------------------------------------------------------------
(* The end of a send: the frames that count as sent leave the queue. *)

Left(took) == IF took = 0 THEN 0 ELSE CountedAsSent(took)

LEMMA FinishSendEffect ==
    ASSUME Types, Queued, pc = "send", NEW took \in 0..(batch * OutUnits), FinishSend(took)
    PROVE  /\ Left(took) \in 0..batch
           /\ frames' \in Seq(Nat) /\ Len(frames') = Len(frames) - Left(took)
           /\ \A i \in 1..(Len(frames) - Left(took)) : frames'[i] = frames[Left(took) + i]
           /\ batch' = 0 /\ size' = 0 /\ res_f' \in {-1, 1}
           /\ torn' \in BOOLEAN
<1>1. /\ OutUnits \in {1, 2} /\ frames \in Seq(Nat) /\ Len(frames) \in Nat
      /\ batch \in 1..Len(frames)
  BY Units, LenProperties DEF Types, Queued
<1>2. CASE took = 0
  <2>1. frames' = frames /\ Left(took) = 0 /\ res_f' = -1 /\ batch' = 0 /\ size' = 0
    BY <1>2 DEF FinishSend, Left
  <2>2. torn' \in BOOLEAN
    BY Zenon DEF FinishSend, Types
  <2> QED
    BY <1>1, <2>1, <2>2
<1>3. CASE took # 0
  <2>1. Left(took) \in 0..batch /\ Left(took) \in 0..Len(frames)
    BY <1>1, <1>3, Units DEF Left, CountedAsSent, Types
  <2>2. frames' = Drop(frames, Left(took)) /\ res_f' = 1 /\ batch' = 0 /\ size' = 0
    BY <1>3 DEF FinishSend, Left
  <2>3. torn' \in BOOLEAN
    BY Zenon DEF FinishSend, Types
  <2> QED
    BY <1>1, <2>1, <2>2, <2>3, DropProperties
<1> QED
  BY <1>2, <1>3

-----------------------------------------------------------------------------
(* Types *)

LEMMA WaitTypes ==
    ASSUME Types, Wait
    PROVE  susp' \in {"failed", "wait"} /\ terminated' \in BOOLEAN
<1>1. terminated' \in BOOLEAN
  BY Zenon DEF Wait, Types
<1> QED
  BY <1>1 DEF Wait

LEMMA TypesSend ==
    ASSUME UInv, FwdF \/ Send \/ SendGivesUp
    PROVE  Types'
<1> USE DEF UInv, appVars, sockVars, histVars, taskVars
<1>1. CASE FwdF
  <2>0. late' \in BOOLEAN
    BY <1>1, Zenon DEF FwdF
  <2>1. Len(frames) \in Nat /\ AtMost(Len(frames), num) \in Nat /\ AtMost(res_f, 0) \in {-1, 0}
    BY UdpSessionAssumption, LenProperties DEF Types, AtMost
  <2>2. batch' \in Nat /\ size' \in Nat /\ res_f' \in {-1, 0, 1}
    <3>1. /\ batch' = batch \/ batch' = AtMost(Len(frames), num)
          /\ size' = size \/ size' = 0
          /\ res_f' = res_f \/ res_f' = AtMost(res_f, 0)
      BY <1>1 DEF FwdF
    <3> QED
      BY <2>1, <3>1 DEF Types
  <2>3. pc' \in {"send", "choose", "head", "recv"} /\ susp' = "run"
    BY <1>1 DEF FwdF, ToB, Goto
  <2> QED
    BY <1>1, <2>0, <2>2, <2>3 DEF FwdF, Types, Receiving
<1>2. ASSUME NEW took \in 0..(batch * OutUnits), pc = "send", FinishSend(took),
             wire' \in Seq(Nat \X Nat), room' \in Nat,
             noSpace' \in BOOLEAN, terminated' \in BOOLEAN, sockErr' \in BOOLEAN,
             UNCHANGED <<mode, res_b, got, cur, addr, sent, acc, edge, inq, eof, ctl, arr,
                         fed, delivered, garbled, late>>
      PROVE  Types'
  <2>1. frames' \in Seq(Nat) /\ batch' \in Nat /\ size' \in Nat /\ res_f' \in {-1, 1}
        /\ torn' \in BOOLEAN
    BY <1>2, FinishSendEffect
  <2>2. pc' \in {"choose", "head", "recv"} /\ susp' = "run"
    BY <1>2 DEF FinishSend, ToB, Goto
  <2> QED
    BY <1>2, <2>1, <2>2 DEF Types, Receiving
<1>3. ASSUME pc = "send"
      PROVE size \in 0..(batch * OutUnits)
  BY <1>3, Units DEF Types, Queued
<1>4. CASE Send
  <2>0. pc = "send"
    BY <1>4 DEF Send, Running
  <2>1. ASSUME NEW s \in 1..AtMost(room, batch * OutUnits - size), ~sockErr,
               wire' = wire \o More(s), room' = room - s,
               IF size + s = batch * OutUnits THEN FinishSend(size + s)
               ELSE size' = size + s /\ UNCHANGED <<pc, susp, res_f, batch, frames, torn>>,
               UNCHANGED <<noSpace, sockErr, terminated>>
        PROVE  Types'
    <3>1. /\ OutUnits \in {1, 2} /\ batch \in Nat /\ size \in Nat /\ room \in Nat
          /\ batch * OutUnits - size \in Nat
      BY <1>3, <2>0, Units DEF Types
    <3>2. s \in 1..(batch * OutUnits - size) /\ s <= room /\ size + s \in 0..(batch * OutUnits)
      BY <3>1 DEF AtMost
    <3>3. wire' \in Seq(Nat \X Nat)
      BY <2>0, <2>1, <3>2, MoreProperties, ConcatProperties DEF Types
    <3>4. room' \in Nat /\ size + s \in Nat
      BY <2>1, <3>1, <3>2
    <3>5. CASE FinishSend(size + s)
      BY <1>2, <1>4, <2>0, <2>1, <3>2, <3>3, <3>4, <3>5 DEF Types, Send
    <3>6. CASE size' = size + s /\ UNCHANGED <<pc, susp, res_f, batch, frames, torn>>
      BY <1>4, <2>1, <3>3, <3>4, <3>6 DEF Types, Send
    <3> QED
      BY <2>1, <3>5, <3>6
  <2>2. CASE /\ ~sockErr /\ room = 0
             /\ noSpace' = TRUE /\ Wait
             /\ UNCHANGED <<pc, res_f, batch, size, frames, room, sockErr, wire, torn>>
    <3>1. noSpace' \in BOOLEAN
      BY <2>2, Zenon
    <3> QED
      BY <1>4, <2>2, <3>1, WaitTypes DEF Types, Send
  <2>3. CASE /\ sockErr /\ sockErr' = (mode = "tcp")
             /\ FinishSend(size)
             /\ UNCHANGED <<noSpace, terminated, room, wire>>
    <3>1. sockErr' \in BOOLEAN
      BY <2>3, Zenon
    <3> QED
      BY <1>2, <1>3, <1>4, <2>0, <2>3, <3>1 DEF Types, Send
  <2> QED
    BY <1>4, <2>1, <2>2, <2>3 DEF Send, More
<1>5. CASE SendGivesUp
  BY <1>2, <1>3, <1>5 DEF SendGivesUp, GaveUp, Types
<1> QED
  BY <1>1, <1>4, <1>5

(* What one recvmmsg takes from the UDP socket. *)
LEMMA BatchProperties ==
    ASSUME Types, NEW n \in 0..Len(inq)
    PROVE  /\ [i \in 1..n |-> inq[i][1]] \in Seq(Nat)
           /\ Len([i \in 1..n |-> inq[i][1]]) = n
           /\ \A i \in 1..n : [j \in 1..n |-> inq[j][1]][i] = inq[i][1]
<1> DEFINE ids == [i \in 1..n |-> inq[i][1]]
<1>1. Len(inq) \in Nat /\ n \in Nat /\ \A i \in 1..n : inq[i] \in Nat \X Nat
  BY LenProperties, ElementOfSeq DEF Types
<1>2. ids \in [1..n -> Nat]
  BY <1>1
<1>3. ids \in Seq(Nat) /\ DOMAIN ids = 1..n
  BY <1>1, <1>2, SeqDef
<1>4. Len(ids) = n
  <2> HIDE DEF ids
  <2> QED
    BY <1>1, <1>3, LenProperties, RangeEnd
<1> QED
  BY <1>3, <1>4

LEMMA TypesReceive ==
    ASSUME UInv, RecvUdp \/ ReadHead \/ ReadOn \/ ReadGivesUp \/ Deliver
    PROVE  Types'
<1> USE DEF UInv, appVars, sockVars, histVars, taskVars
<1>0. /\ <<>> \in Seq(Nat) /\ Len(inq) \in Nat /\ Len(got) \in Nat /\ num \in Nat \ {0}
      /\ inq # <<>> => /\ Len(inq) > 0 /\ inq[1][1] \in Nat
                       /\ Tail(inq) \in Seq(Nat \X Nat)
  <2>1. inq # <<>> => inq[1] \in Nat \X Nat /\ Tail(inq) \in Seq(Nat \X Nat) /\ Len(inq) > 0
    BY TailProperties DEF Types
  <2> QED
    BY <2>1, EmptySeq, LenProperties, UdpSessionAssumption DEF Types
<1>1. ASSUME NEW res \in {-1, 0, 1}, EndB(res)
      PROVE  /\ res_b' \in {-1, 0, 1} /\ got' \in Seq(Nat) /\ cur' \in Nat
             /\ pc' = "choose" /\ susp' = "run"
  BY <1>0, <1>1 DEF EndB, Goto, Garbage
<1>10. ASSUME Malformed
      PROVE  /\ res_b' \in {-1, 0, 1} /\ got' \in Seq(Nat) /\ cur' \in Nat
             /\ pc' = "choose" /\ susp' = "run"
  BY <1>1, <1>10 DEF Malformed
<1>11. ASSUME Malformed PROVE garbled' \in BOOLEAN
  BY <1>11, Zenon DEF Malformed, Types
<1>2. CASE RecvUdp
  <2>1. sockErr' \in BOOLEAN /\ garbled' \in BOOLEAN
    BY <1>2, <1>11, Zenon DEF RecvUdp, Types
  <2>2. CASE inq' = inq /\ (EndB(-1) \/ EndB(0))
    BY <1>1, <1>2, <2>1, <2>2 DEF RecvUdp, Types
  <2>3. CASE inq # <<>> /\ ~sockErr
    <3> DEFINE n == AtMost(Len(inq), num)
               ids == [i \in 1..n |-> inq[i][1]]
    <3>1. n \in 0..Len(inq)
      BY <1>0 DEF AtMost
    <3>2. ids \in Seq(Nat) /\ Drop(inq, n) \in Seq(Nat \X Nat)
      <4> HIDE DEF n
      <4> QED
        BY <3>1, BatchProperties, DropProperties DEF Types
    <3>3. /\ inq' = Drop(inq, n)
          /\ Malformed \/ (got' = ids /\ Goto("deliver") /\ UNCHANGED <<res_b, cur>>)
      BY <1>2, <2>3 DEF RecvUdp
    <3> HIDE DEF n, ids
    <3> QED
      BY <1>10, <1>2, <2>1, <3>2, <3>3 DEF RecvUdp, Types, Goto, Receiving
  <2> QED
    BY <1>2, <2>2, <2>3 DEF RecvUdp
<1>3. ASSUME NEW id \in Nat, HeadRead(id)
      PROVE  /\ res_b' \in {-1, 0, 1} /\ got' \in Seq(Nat) /\ cur' \in Nat
             /\ pc' \in {"choose", "body"} /\ susp' = "run"
  BY <1>3, <1>10 DEF HeadRead, Types, Goto
<1>12. ASSUME NEW id \in Nat, HeadRead(id) PROVE garbled' \in BOOLEAN
  BY <1>11, <1>12, Zenon DEF HeadRead, Types
<1>4. CASE ReadHead
  <2>1. CASE inq # <<>> /\ inq' = Drop(inq, AtMost(Len(inq), 2)) /\ Len(got) < num
    <3>1. inq' \in Seq(Nat \X Nat)
      <4>1. AtMost(Len(inq), 2) \in 0..Len(inq)
        BY <1>0 DEF AtMost
      <4> QED
        BY <2>1, <4>1, DropProperties DEF Types
    <3> DEFINE id == IF inq[1][2] = 1 THEN inq[1][1] ELSE Garbage
    <3>2. id \in Nat
      BY <1>0, <2>1 DEF Garbage
    <3>3. \/ cur' = id /\ Goto("rest") /\ UNCHANGED <<res_b, got, garbled>>
          \/ HeadRead(id)
          \/ Goto("deliver") /\ UNCHANGED <<res_b, got, cur, garbled>>
      BY <1>4, <2>1 DEF ReadHead
    <3>4. garbled' \in BOOLEAN
      <4>1. id \in Nat
        BY <3>2
      <4> HIDE DEF id
      <4> QED
        BY <1>12, <3>3, <4>1, Zenon DEF Types
    <3> HIDE DEF id
    <3> QED
      <4>1. /\ res_b' \in {-1, 0, 1} /\ got' \in Seq(Nat) /\ cur' \in Nat
            /\ pc' \in {"choose", "body", "rest", "deliver"} /\ susp' = "run"
        BY <1>3, <3>2, <3>3 DEF Types, Goto
      <4> QED
        BY <1>4, <3>1, <3>4, <4>1 DEF ReadHead, Types, Receiving, InFrame
  <2>2. CASE Goto("deliver") /\ UNCHANGED <<res_b, got, cur, inq, garbled>>
    BY <1>4, <2>2 DEF ReadHead, Types, Goto, Receiving
  <2>3. CASE UNCHANGED <<inq, garbled>> /\ (EndB(-1) \/ EndB(0))
    BY <1>1, <1>4, <2>3 DEF ReadHead, Types
  <2> QED
    BY <1>4, <2>1, <2>2, <2>3 DEF ReadHead
<1>5. ASSUME TornHead \/ TornBody
      PROVE  /\ res_b' \in {-1, 0, 1} /\ got' \in Seq(Nat) /\ cur' \in Nat
             /\ pc' \in {"choose", "deliver", "crashed"}
             /\ susp' \in {"run", "ready", "wait", "woken", "failed"}
  <2>1. Append(got, Garbage) \in Seq(Nat)
    BY AppendProperties DEF Types, Garbage
  <2> QED
    BY <1>1, <1>5, <2>1 DEF TornHead, TornBody, UseUnwritten, Types, Goto
<1>6. ASSUME TornHead \/ TornBody PROVE garbled' \in BOOLEAN
  BY <1>6, Zenon DEF TornHead, TornBody, UseUnwritten
<1>7. CASE ReadOn
  <2>1. CASE inq # <<>> /\ inq' = Tail(inq) /\ UNCHANGED terminated
    <3>1. inq' \in Seq(Nat \X Nat)
      BY <1>0, <2>1
    <3>2. CASE pc = "rest"
      <4>1. inq # <<>> => HeadRead(cur)
        BY <1>7, <2>1, <3>2 DEF ReadOn
      <4>2. garbled' \in BOOLEAN
        BY <1>12, <2>1, <4>1, Zenon DEF Types
      <4> QED
        BY <1>3, <1>7, <2>1, <3>1, <4>1, <4>2 DEF ReadOn, Types, Receiving, InFrame
    <3>3. CASE pc # "rest"
      <4>1. got' = Append(got, cur) /\ cur' = Garbage /\ Goto("head") /\ UNCHANGED <<res_b, garbled>>
        BY <1>7, <2>1, <3>3 DEF ReadOn
      <4>2. got' \in Seq(Nat)
        BY <4>1, AppendProperties DEF Types
      <4> QED
        BY <1>7, <2>1, <3>1, <4>1, <4>2 DEF ReadOn, Types, Receiving, Goto, Garbage
    <3> QED
      BY <3>2, <3>3
  <2>2. CASE (TornHead \/ TornBody) /\ UNCHANGED <<inq, terminated>>
    BY <1>5, <1>6, <1>7, <2>2 DEF ReadOn, Types, Receiving
  <2>3. CASE Wait /\ UNCHANGED <<pc, res_b, got, cur, inq, garbled>>
    BY <1>7, <2>3, WaitTypes DEF ReadOn, Types
  <2> QED
    BY <1>7, <2>1, <2>2, <2>3 DEF ReadOn
<1>8. CASE ReadGivesUp
  <2>1. TornHead \/ TornBody
    BY <1>8 DEF ReadGivesUp
  <2> QED
    BY <1>5, <1>6, <1>8, <2>1 DEF ReadGivesUp, Types, Receiving
<1>9. CASE Deliver
  <2>1. CASE got # <<>>
    <3>1. Tail(got) \in Seq(Nat) /\ Append(delivered, Head(got)) \in Seq(Nat)
      BY <2>1, TailProperties, AppendProperties DEF Types
    <3>2. CASE EndB(-1) /\ UNCHANGED delivered
      BY <1>1, <1>9, <3>2 DEF Deliver, Types
    <3>3. CASE /\ got' = Tail(got) /\ delivered' \in {delivered, Append(delivered, Head(got))}
               /\ UNCHANGED <<pc, susp, res_b, cur>>
      <4>1. got' \in Seq(Nat) /\ delivered' \in Seq(Nat)
        BY <3>1, <3>3 DEF Types
      <4> QED
        BY <1>9, <3>3, <4>1 DEF Deliver, Types
    <3> QED
      BY <1>9, <2>1, <3>2, <3>3 DEF Deliver, Refused
  <2>2. CASE got = <<>>
    BY <1>1, <1>9, <2>2 DEF Deliver, Types
  <2> QED
    BY <2>1, <2>2
<1> QED
  BY <1>2, <1>4, <1>7, <1>8, <1>9

LEMMA TypesOther ==
    ASSUME UInv,
           \/ Connect \/ Choose \/ SplicerGivesUp \/ Destruct \/ Blocked \/ Timeout
           \/ \E named \in BOOLEAN : UdpRecv(named)
           \/ Terminate \/ (\E kind \in Kinds : SrvSend(kind)) \/ SrvClose \/ SrvRead \/ IoPoll
    PROVE  Types'
<1> USE DEF UInv, appVars, sockVars, histVars, taskVars
<1>1. CASE Connect \/ SplicerGivesUp \/ Timeout
  <2>1. pc' \in {"f", "end", pc} /\ susp' \in {"run", "failed"}
    BY <1>1 DEF Connect, SplicerGivesUp, Timeout, Goto
  <2>2. UNCHANGED <<mode, taskVars, appVars, terminated, sockVars, histVars>>
    BY <1>1 DEF Connect, SplicerGivesUp, Timeout
  <2> QED
    BY <2>1, <2>2 DEF Types
<1>2. CASE Choose
  <2>1. terminated' \in BOOLEAN
    BY <1>2, Zenon DEF Choose, Wait, Types
  <2>2. pc' \in {"end", "f"} /\ susp' \in {"run", "ready", "failed", "wait"}
    BY <1>2 DEF Choose, Wait, Goto
  <2> QED
    BY <1>2, <2>1, <2>2 DEF Choose, Types
<1>3. CASE Destruct \/ Blocked
  <2>1. <<>> \in Seq(Nat) /\ (frames' = <<>> \/ frames' = frames)
    BY <1>3, EmptySeq DEF Destruct, Blocked
  <2>2. frames' \in Seq(Nat)
    BY <2>1, Zenon DEF Types
  <2>3. pc' \in {"done", "locking"} /\ susp' = "run"
    BY <1>3 DEF Destruct, Blocked, Goto
  <2>4. UNCHANGED <<mode, taskVars, addr, sent, acc, terminated, sockVars, histVars>>
    BY <1>3 DEF Destruct, Blocked
  <2> QED
    BY <2>2, <2>3, <2>4 DEF Types
<1>4. ASSUME Wakeup PROVE pc' = pc /\ susp' \in {"run", "ready", "wait", "woken", "failed"}
  BY <1>4 DEF Wakeup, Types
<1>5. ASSUME NEW named \in BOOLEAN, UdpRecv(named) PROVE Types'
  <2>1. addr' \in BOOLEAN /\ late' \in BOOLEAN
    BY <1>5, Zenon DEF UdpRecv, Types
  <2>2. Append(frames, acc + 1) \in Seq(Nat)
    BY AppendProperties DEF Types
  <2>3. frames' \in Seq(Nat) /\ acc' \in Nat /\ sent' \in Nat
    <3>1. acc' \in {acc, acc + 1} /\ sent' = sent + 1
      BY <1>5 DEF UdpRecv
    <3>2. frames' = frames \/ frames' = Append(frames, acc + 1)
      BY <1>5 DEF UdpRecv
    <3>3. frames' \in Seq(Nat)
      BY <2>2, <3>2, Zenon DEF Types
    <3>4. acc' \in Nat /\ sent' \in Nat
      BY <3>1 DEF Types
    <3> QED
      BY <3>3, <3>4
  <2>4. pc' = pc /\ susp' \in {"run", "ready", "wait", "woken", "failed"}
    BY <1>4, <1>5 DEF UdpRecv, Types
  <2> QED
    BY <1>5, <2>1, <2>3, <2>4 DEF UdpRecv, Types
<1>6. CASE Terminate
  <2>1. terminated' \in BOOLEAN
    BY <1>6, Zenon DEF Terminate
  <2> QED
    BY <1>4, <1>6, <2>1 DEF Terminate, Types
<1>7. ASSUME NEW kind \in Kinds, SrvSend(kind) PROVE Types'
  <2>1. edge' \in BOOLEAN
    BY <1>7, Zenon DEF SrvSend
  <2>2. arr' \in Seq(Kinds) /\ Len(arr') \in Nat /\ fed' \in Nat
    <3>1. Append(arr, kind) \in Seq(Kinds)
      BY AppendProperties DEF Types
    <3>2. arr' = arr \/ arr' = Append(arr, kind)
      BY <1>7 DEF SrvSend
    <3>3. arr' \in Seq(Kinds)
      BY <3>1, <3>2, Zenon DEF Types
    <3>4. fed' \in Nat
      BY <1>7 DEF SrvSend, Types
    <3> QED
      BY <3>3, <3>4, LenProperties
  <2>3. fed + 1 - (Len(arr') - 1) * InUnits \in Nat
    <3>1. /\ InUnits \in {1, 3} /\ Len(arr) \in Nat /\ fed \in Nat /\ fed <= Len(arr) * InUnits
          /\ (Len(arr) - 1) * InUnits < fed
      BY <1>7, Units, LenProperties DEF SrvSend, Types, Arrived
    <3>2. CASE fed = Len(arr) * InUnits
      <4>1. Len(arr') = Len(arr) + 1
        BY <1>7, <3>2, AppendProperties DEF SrvSend, Types
      <4> QED
        BY <3>1, <3>2, <4>1
    <3>3. CASE fed # Len(arr) * InUnits
      <4>1. arr' = arr
        BY <1>7, <3>3 DEF SrvSend
      <4> QED
        BY <3>1, <3>3, <4>1
    <3> QED
      BY <3>2, <3>3
  <2>4. inq' \in Seq(Nat \X Nat)
    <3> DEFINE piece == <<Len(arr'), fed + 1 - (Len(arr') - 1) * InUnits>>
    <3>1. piece \in Nat \X Nat /\ inq' = Append(inq, piece)
      BY <1>7, <2>2, <2>3 DEF SrvSend
    <3> HIDE DEF piece
    <3> QED
      BY <3>1, AppendProperties DEF Types
  <2> QED
    BY <1>7, <2>1, <2>2, <2>4 DEF SrvSend, Types
<1>8. CASE SrvClose
  <2>1. edge' \in BOOLEAN /\ eof' \in BOOLEAN /\ ctl' \in BOOLEAN /\ sockErr' \in BOOLEAN
    BY <1>8, Zenon DEF SrvClose, Types
  <2>2. inq' \in Seq(Nat \X Nat) /\ fed' \in Nat
    <3>1. (inq' = <<>> \/ inq' = inq) /\ (fed' = fed - Len(inq) \/ fed' = fed)
      BY <1>8 DEF SrvClose
    <3>2. <<>> \in Seq(Nat \X Nat) /\ Len(inq) \in Nat /\ Len(inq) <= fed
      BY EmptySeq, LenProperties DEF Types, Arrived
    <3>3. inq' \in Seq(Nat \X Nat)
      BY <3>1, <3>2, Zenon DEF Types
    <3>4. fed' \in Nat
      BY <3>1, <3>2 DEF Types
    <3> QED
      BY <3>3, <3>4
  <2> QED
    BY <1>8, <2>1, <2>2 DEF SrvClose, Types
<1>9. CASE SrvRead
  <2>1. edge' \in BOOLEAN /\ noSpace' \in BOOLEAN
    BY <1>9, Zenon DEF SrvRead, Types
  <2> QED
    BY <1>9, <2>1 DEF SrvRead, Types
<1>10. CASE IoPoll
  <2>1. edge' \in BOOLEAN
    BY <1>10, Zenon DEF IoPoll
  <2> QED
    BY <1>4, <1>10, <2>1 DEF IoPoll, Types
<1> QED
  BY <1>1, <1>2, <1>3, <1>5, <1>6, <1>7, <1>8, <1>9, <1>10

(* Every step keeps the types. *)
LEMMA TypesStep ==
    ASSUME UInv, [Next]_vars
    PROVE  Types'
<1>1. CASE UNCHANGED vars
  BY <1>1 DEF UInv, Types, vars, taskVars, appVars, sockVars, histVars
<1> QED
  BY <1>1, TypesSend, TypesReceive, TypesOther DEF Next, Task

-----------------------------------------------------------------------------
(* Awake *)

LEMMA AwakeSend ==
    ASSUME UInv, FwdF \/ Send \/ SendGivesUp
    PROVE  Awake'
<1> USE DEF UInv, appVars, sockVars, histVars, taskVars
<1>1. CASE FwdF
  <2>1. UNCHANGED <<mode, res_b, frames, eof, inq, sockErr, edge, garbled>> /\ susp' = "run"
    BY <1>1 DEF FwdF, ToB, Goto
  <2>2. CASE pc' = "send"
    BY <2>1, <2>2 DEF Awake, Asleep, InFrame, Receiving
  <2>3. CASE /\ res_f < 0 \/ frames = <<>>
             /\ ToB /\ res_f' = AtMost(res_f, 0)
    <3>1. ~Late'
      BY <2>1, <2>3 DEF Late, AtMost, Types
    <3>2. pc' \in {"choose", "head", "recv"} /\ (pc' = "choose" => res_b < 0)
      BY <2>3 DEF ToB, Goto
    <3> QED
      BY <2>1, <3>1, <3>2 DEF Awake, Asleep, InFrame, Receiving
  <2> QED
    BY <1>1, <2>2, <2>3 DEF FwdF, Goto
<1>2. ASSUME NEW took \in 0..(batch * OutUnits), pc = "send", FinishSend(took),
             UNCHANGED <<mode, res_b, eof>>
      PROVE  Awake'
  <2>1. res_f' \in {-1, 1}
    BY <1>2, FinishSendEffect
  <2>2. pc' = (IF res_b < 0 THEN "choose" ELSE IF mode = "tcp" THEN "head" ELSE "recv")
        /\ susp' = "run"
    BY <1>2 DEF FinishSend, ToB, Goto
  <2> QED
    BY <1>2, <2>1, <2>2 DEF Types, Awake, Late, Asleep, InFrame, Receiving
<1>3. ASSUME pc = "send" PROVE size \in 0..(batch * OutUnits)
  BY <1>3, Units DEF Types, Queued
<1>4. CASE Send
  <2>0. pc = "send" /\ susp \in {"run", "ready", "woken"}
    BY <1>4 DEF Send, Running
  <2>1. ASSUME NEW s \in 1..AtMost(room, batch * OutUnits - size),
               IF size + s = batch * OutUnits THEN FinishSend(size + s)
               ELSE size' = size + s /\ UNCHANGED <<pc, susp, res_f, batch, frames, torn>>
        PROVE  Awake'
    <3>1. size + s \in 0..(batch * OutUnits)
      BY <1>3, <2>0, Units DEF Types, AtMost
    <3>2. CASE FinishSend(size + s)
      BY <1>2, <1>4, <2>0, <3>1, <3>2 DEF Send
    <3>3. CASE UNCHANGED <<pc, susp>>
      BY <1>4, <2>0, <3>3 DEF Send, Types, Awake, Late, Asleep, InFrame, Receiving
    <3> QED
      BY <2>1, <3>2, <3>3
  <2>2. CASE /\ ~sockErr /\ room = 0
             /\ noSpace' = TRUE /\ Wait
             /\ UNCHANGED <<pc, res_f, batch, size, frames, room, sockErr, wire, torn>>
    BY <1>4, <2>0, <2>2 DEF Send, Wait, Types, Awake, Late, Asleep, InFrame, Receiving, CtlGone
  <2>3. CASE FinishSend(size)
    BY <1>2, <1>3, <1>4, <2>0, <2>3 DEF Send
  <2> QED
    BY <1>4, <2>1, <2>2, <2>3 DEF Send
<1>5. CASE SendGivesUp
  BY <1>2, <1>3, <1>5 DEF SendGivesUp, GaveUp
<1> QED
  BY <1>1, <1>4, <1>5

LEMMA AwakeReceive ==
    ASSUME UInv, RecvUdp \/ ReadHead \/ ReadOn \/ ReadGivesUp \/ Deliver
    PROVE  Awake'
<1> USE DEF UInv, appVars, sockVars, histVars, taskVars
<1>1. CASE RecvUdp
  <2>1. pc = "recv" /\ mode = "udp" /\ (Late => late) /\ ~eof
    BY <1>1 DEF RecvUdp, Running, Awake, Calm, Receiving, Types
  <2>2. UNCHANGED <<res_f, frames, mode, eof, late>>
    BY <1>1 DEF RecvUdp
  <2>3. CASE \/ EndB(-1) \/ Malformed
             \/ ~sockErr /\ inq = <<>> /\ EndB(0) /\ UNCHANGED <<inq, sockErr>>
    BY <2>1, <2>2, <2>3 DEF Malformed, EndB, Goto, Awake, Late, Asleep, InFrame, Receiving, Quiet
  <2>4. CASE Goto("deliver")
    BY <2>1, <2>2, <2>4 DEF Goto, Awake, Late, Asleep, InFrame, Receiving
  <2> QED
    BY <1>1, <2>3, <2>4 DEF RecvUdp
<1>2. CASE ReadHead
  <2>1. /\ pc = "head" /\ mode = "tcp" /\ (Late => late)
        /\ UNCHANGED <<res_f, frames, mode, eof, sockErr, late>>
    BY <1>2 DEF ReadHead, Running, Awake, Calm, InFrame, Receiving
  <2>2. CASE pc' \in {"rest", "body", "deliver"} /\ susp' = "run"
    BY <2>1, <2>2 DEF Awake, Late, Asleep, InFrame, Receiving
  <2>3. CASE \/ EndB(-1) \/ Malformed
             \/ inq = <<>> /\ got = <<>> /\ ~eof /\ ~sockErr /\ EndB(0) /\ UNCHANGED inq
    BY <2>1, <2>3 DEF Malformed, EndB, Goto, Awake, Late, Asleep, InFrame, Receiving, Quiet
  <2> QED
    BY <1>2, <2>2, <2>3 DEF ReadHead, HeadRead, Goto
<1>3. ASSUME pc \in InFrame, TornHead \/ TornBody,
             UNCHANGED <<mode, res_f, frames, eof, terminated, edge, ctl, late>>
      PROVE  Awake'
  <2>1. mode = "tcp" /\ mode' = "tcp" /\ garbled' /\ (Late => late)
    BY <1>3 DEF Calm, Awake, InFrame, Receiving, TornHead, TornBody, UseUnwritten
  <2>2. pc' \in {"choose", "deliver", "crashed"}
    BY <1>3 DEF TornHead, TornBody, UseUnwritten, EndB, Goto
  <2>3. susp' = "wait" => susp = "wait"
    BY <1>3 DEF TornHead, TornBody, UseUnwritten, EndB, Goto
  <2> QED
    BY <1>3, <2>1, <2>2, <2>3 DEF Awake, Late, Asleep, InFrame, Receiving, CtlGone
<1>4. CASE ReadOn
  <2>1. /\ pc \in InFrame /\ mode = "tcp" /\ susp # "wait" /\ (Late => late)
        /\ UNCHANGED <<mode, res_f, frames, eof, edge, ctl, sockErr, late>>
    BY <1>4 DEF ReadOn, Running, InFrame, Receiving, Awake, Calm
  <2>2. CASE inq # <<>> /\ inq' = Tail(inq)
    <3>1. CASE HeadRead(cur)
      BY <2>1, <3>1 DEF HeadRead, Malformed, EndB, Goto, Awake, Late, Asleep, InFrame, Receiving
    <3>2. CASE got' = Append(got, cur) /\ Goto("head")
      BY <2>1, <3>2 DEF Goto, Awake, Late, Asleep, InFrame, Receiving
    <3> QED
      BY <1>4, <2>2, <3>1, <3>2 DEF ReadOn
  <2>3. CASE (TornHead \/ TornBody) /\ UNCHANGED terminated
    BY <1>3, <2>1, <2>3
  <2>4. CASE inq = <<>> /\ ~eof /\ ~sockErr /\ Wait /\ UNCHANGED <<pc, res_b, got, cur, inq, garbled>>
    BY <2>1, <2>4 DEF Wait, Awake, Late, Asleep, InFrame, Receiving, CtlGone, Quiet
  <2> QED
    BY <1>4, <2>2, <2>3, <2>4 DEF ReadOn
<1>5. CASE ReadGivesUp
  BY <1>3, <1>5 DEF ReadGivesUp, GaveUp, InFrame
<1>6. CASE Deliver
  <2>1. /\ pc = "deliver" /\ (Late => late) /\ susp # "wait"
        /\ UNCHANGED <<mode, res_f, frames, eof, late>>
    BY <1>6 DEF Deliver, Running, Awake, Receiving
  <2>2. CASE EndB(1) \/ EndB(-1)
    BY <2>1, <2>2 DEF EndB, Goto, Awake, Late, Asleep, InFrame, Receiving
  <2>3. CASE UNCHANGED <<pc, susp>>
    BY <2>1, <2>3 DEF Awake, Late, Asleep, InFrame, Receiving
  <2> QED
    BY <1>6, <2>2, <2>3 DEF Deliver, Refused
<1> QED
  BY <1>1, <1>2, <1>4, <1>5, <1>6

LEMMA AwakeOther ==
    ASSUME UInv,
           \/ Connect \/ Choose \/ SplicerGivesUp \/ Destruct \/ Blocked \/ Timeout
           \/ \E named \in BOOLEAN : UdpRecv(named)
           \/ Terminate \/ (\E kind \in Kinds : SrvSend(kind)) \/ SrvClose \/ SrvRead \/ IoPoll
    PROVE  Awake'
<1> USE DEF UInv, appVars, sockVars, histVars, taskVars
<1>1. CASE Connect \/ SplicerGivesUp \/ Destruct \/ Blocked
  <2>1. pc' \in {"f", "end", "done", "locking"} /\ susp' = "run" /\ UNCHANGED <<mode, eof>>
    BY <1>1 DEF Connect, SplicerGivesUp, Destruct, Blocked, Goto
  <2> QED
    BY <2>1 DEF Awake, Asleep, InFrame, Receiving
<1>2. CASE Timeout
  <2>1. /\ susp' = "failed" /\ pc' = pc /\ susp \in {"wait", "woken"}
        /\ UNCHANGED <<mode, eof, taskVars, frames, sockVars, garbled, late>>
    BY <1>2 DEF Timeout
  <2> QED
    BY <2>1 DEF Awake, Asleep, InFrame, Receiving, Late, Quiet
<1>3. CASE Choose
  <2>1. pc = "choose" /\ UNCHANGED <<mode, taskVars, appVars, sockVars, histVars>>
    BY <1>3 DEF Choose, Running
  <2>2. CASE susp' # "wait" /\ pc' \in {"f", "end"}
    BY <2>1, <2>2 DEF Awake, Asleep, InFrame, Receiving
  <2>3. CASE ~Progress /\ pc' = "f" /\ susp' = "wait" /\ ~CtlGone /\ ~terminated /\ UNCHANGED terminated
    <3>1. res_f <= 0 /\ res_b <= 0
      BY <2>3 DEF Progress, Types
    <3> QED
      BY <2>1, <2>3, <3>1 DEF Awake, Asleep, InFrame, Receiving, Late, Quiet, CtlGone
  <2> QED
    BY <1>3, <2>2, <2>3 DEF Choose, Wait, Goto
<1>4. ASSUME Wakeup PROVE pc' = pc /\ susp' # "wait" /\ (susp # "wait" => susp' = susp)
  BY <1>4 DEF Wakeup
<1>5. ASSUME NEW named \in BOOLEAN, UdpRecv(named) PROVE Awake'
  <2>1. /\ pc' = pc /\ Suspended
        /\ UNCHANGED <<mode, taskVars, terminated, sockVars, garbled>>
    BY <1>5 DEF UdpRecv, Wakeup
  <2>2. CASE Wakeup /\ late' = (late \/ pc \in {"rest", "body"})
    <3>1. pc \notin {"recv", "head", "choose", "deliver"}
      BY <2>1 DEF Suspended, Calm, InFrame
    <3> QED
      BY <1>4, <2>1, <2>2, <3>1 DEF Awake, Asleep, InFrame, Receiving
  <2>3. CASE UNCHANGED <<frames, susp, late>>
    BY <2>1, <2>3 DEF Awake, Asleep, InFrame, Receiving, Late, Quiet, CtlGone
  <2> QED
    BY <1>5, <2>2, <2>3 DEF UdpRecv
<1>6. CASE Terminate \/ IoPoll
  <2>1. pc' = pc /\ susp' # "wait" /\ Suspended /\ UNCHANGED <<mode, taskVars, frames, eof, inq, sockErr, garbled, late>>
    BY <1>4, <1>6 DEF Terminate, IoPoll
  <2>2. pc # "choose"
    BY <2>1 DEF Suspended, Calm, InFrame
  <2> QED
    BY <2>1, <2>2 DEF Awake, Asleep, InFrame, Receiving, Late
<1>7. CASE (\E kind \in Kinds : SrvSend(kind)) \/ SrvClose
  <2>1. edge' = TRUE /\ UNCHANGED <<mode, pc, susp, taskVars, appVars, terminated, histVars>>
    BY <1>7 DEF SrvSend, SrvClose
  <2>2. eof' => mode = "tcp"
    BY <1>7 DEF SrvSend, SrvClose, Awake
  <2> QED
    BY <2>1, <2>2 DEF Awake, Asleep, InFrame, Receiving, Late
<1>8. CASE SrvRead
  BY <1>8 DEF SrvRead, Awake, Asleep, InFrame, Receiving, Late, Quiet, CtlGone, Types
<1> QED
  BY <1>1, <1>2, <1>3, <1>5, <1>6, <1>7, <1>8

(* Every step keeps what a sleeping task relies on. *)
LEMMA AwakeStep ==
    ASSUME UInv, [Next]_vars
    PROVE  Awake'
<1>1. CASE UNCHANGED vars
  BY <1>1 DEF UInv, Awake, Asleep, Late, Receiving, InFrame, Quiet, CtlGone, vars, taskVars, appVars, sockVars, histVars
<1> QED
  BY <1>1, AwakeSend, AwakeReceive, AwakeOther DEF Next, Task

-----------------------------------------------------------------------------
(* Calm *)

(* The task is suspended, and gives up, only where the code may wait; a direction  *)
(* that failed is not taken again, and what was read does not outlive the loop.    *)
LEMMA CalmStep ==
    ASSUME UInv, [Next]_vars
    PROVE  Calm'
<1> USE DEF UInv, Goto, InFrame, Receiving, taskVars, appVars, sockVars, histVars
<1>1. CASE Connect \/ SplicerGivesUp \/ Destruct \/ Blocked
  BY <1>1 DEF Connect, SplicerGivesUp, Destruct, Blocked, Calm, Running, GaveUp
<1>2. ASSUME ToB, pc \in {"f", "send"}, UNCHANGED <<res_b, got, mode>> PROVE Calm'
  BY <1>2 DEF ToB, Calm, Types
<1>3. CASE FwdF
  BY <1>2, <1>3 DEF FwdF, Calm, Running
<1>4. CASE Send \/ SendGivesUp
  <2>1. pc = "send" /\ UNCHANGED <<res_b, got, mode>>
    BY <1>4 DEF Send, SendGivesUp, Running, GaveUp
  <2>2. CASE UNCHANGED pc
    BY <2>1, <2>2 DEF Calm
  <2> QED
    BY <1>2, <1>4, <2>1, <2>2 DEF Send, SendGivesUp, FinishSend
<1>5. ASSUME NEW res, EndB(res) PROVE Calm'
  BY <1>5 DEF EndB, Calm
<1>6. CASE RecvUdp \/ Deliver
  BY <1>5, <1>6 DEF RecvUdp, Malformed, Deliver, Refused, Calm, Running
<1>7. CASE ReadHead
  BY <1>5, <1>7 DEF ReadHead, HeadRead, Malformed, Calm, Running
<1>8. CASE ReadOn \/ ReadGivesUp
  <2>1. pc \in InFrame /\ mode' = mode
    BY <1>8 DEF ReadOn, ReadGivesUp, Running, GaveUp
  <2>2. CASE \E res : EndB(res)
    BY <1>5, <2>2
  <2>3. CASE UNCHANGED <<pc, res_b, mode>>
    BY <2>1, <2>3 DEF Calm
  <2>4. CASE pc' \in {"body", "head", "deliver", "crashed"} /\ susp' = "run" /\ UNCHANGED res_b
    BY <2>1, <2>4 DEF Calm
  <2> QED
    BY <1>8, <2>2, <2>3, <2>4 DEF ReadOn, ReadGivesUp, HeadRead, Malformed, TornHead, TornBody, UseUnwritten
<1>9. CASE Choose
  BY <1>9 DEF Choose, Wait, Running, Calm
<1>10. CASE \/ Timeout \/ (\E named \in BOOLEAN : UdpRecv(named)) \/ Terminate \/ IoPoll
            \/ (\E kind \in Kinds : SrvSend(kind)) \/ SrvClose \/ SrvRead \/ UNCHANGED vars
  <2>1. UNCHANGED <<pc, res_b, got, mode>>
    BY <1>10 DEF Timeout, UdpRecv, Terminate, IoPoll, SrvSend, SrvClose, SrvRead, Wakeup, vars
  <2>2. susp' = susp \/ susp \in {"ready", "wait", "woken"}
    BY <1>10 DEF Timeout, UdpRecv, Terminate, IoPoll, SrvSend, SrvClose, SrvRead, Wakeup, vars
  <2> QED
    BY <2>1, <2>2 DEF Calm
<1> QED
  BY <1>1, <1>3, <1>4, <1>6, <1>7, <1>8, <1>9, <1>10 DEF Next, Task

-----------------------------------------------------------------------------
(* Queued and Written: towards the server *)

LEMMA NothingSent ==
    ASSUME UInv, UNCHANGED <<mode, frames, acc, batch, size, wire, torn>>,
           pc' = "send" <=> pc = "send", pc \in Freed => pc' \in Freed
    PROVE  Queued' /\ Written'
<1>1. OutUnits' = OutUnits /\ Gone' = Gone
  BY DEF OutUnits, Gone
<1>2. Begun(size)' = Begun(size)
  BY <1>1 DEF Begun
<1>3. Queued'
  BY <1>1 DEF UInv, Queued
<1>4. Written'
  <2>1. InOrder(wire, Gone, size)' <=> InOrder(wire, Gone, size)
    BY <1>1, <1>2 DEF InOrder
  <2>2. Exactly(wire, Gone, size)' <=> Exactly(wire, Gone, size)
    BY <1>1 DEF Exactly, Piece
  <2> QED
    BY <2>1, <2>2 DEF UInv, Written
<1> QED
  BY <1>3, <1>4

(* The batch is the first of the queue. *)
LEMMA BatchQueued ==
    ASSUME UInv, FwdF
    PROVE  Queued' /\ Written'
<1>1. /\ UNCHANGED <<mode, frames, acc, wire, torn>> /\ pc = "f" /\ size = 0 /\ batch = 0
      /\ frames \in Seq(Nat) /\ Len(frames) \in Nat /\ num \in Nat \ {0}
      /\ frames # <<>> => Len(frames) > 0
  BY UdpSessionAssumption, LenProperties, EmptySeq
  DEF FwdF, Running, UInv, Types, Queued, appVars, histVars
<1>2. CASE UNCHANGED <<batch, size>> /\ ToB
  <2>1. pc' # "send"
    BY <1>2 DEF ToB, Goto
  <2> QED
    BY <1>1, <1>2, <2>1, NothingSent DEF Freed
<1>3. CASE frames # <<>> /\ pc' = "send" /\ batch' = AtMost(Len(frames), num) /\ size' = 0
  <2>1. /\ batch' \in 1..Len(frames) /\ size' = size
    BY <1>1, <1>3 DEF AtMost
  <2>2. OutUnits' = OutUnits /\ Gone' = Gone /\ OutUnits \in {1, 2}
    BY <1>1, Units DEF OutUnits, Gone, UInv
  <2>3. Queued'
    <3>1. size' < batch' * OutUnits
      BY <1>1, <1>3, <2>1, <2>2
    <3> QED
      BY <1>1, <1>3, <2>1, <2>2, <3>1 DEF UInv, Queued
  <2>4. Written'
    <3>1. Begun(size)' = Begun(size)
      BY <2>1, <2>2 DEF Begun
    <3>2. InOrder(wire, Gone, size)' <=> InOrder(wire, Gone, size)
      BY <1>1, <2>2, <3>1 DEF InOrder
    <3>3. Exactly(wire, Gone, size)' <=> Exactly(wire, Gone, size)
      BY <1>1, <2>1, <2>2 DEF Exactly, Piece
    <3> QED
      BY <1>1, <1>3, <3>2, <3>3 DEF UInv, Written, Freed
  <2> QED
    BY <2>3, <2>4
<1> QED
  BY <1>2, <1>3 DEF FwdF, Goto

(* What a send writes continues what was written before. *)
LEMMA WireGrows ==
    ASSUME UInv, pc = "send", NEW s \in 1..(batch * OutUnits - size)
    PROVE  /\ wire \o More(s) \in Seq(Nat \X Nat)
           /\ InOrder(wire \o More(s), Gone, size + s)
           /\ ~torn => Exactly(wire \o More(s), Gone, size + s)
<1> DEFINE old == Len(wire)
           new == wire \o More(s)
<1>1. /\ OutUnits \in {1, 2} /\ size \in Nat /\ batch \in Nat /\ s \in Nat
      /\ acc \in Nat /\ Len(frames) \in Nat /\ Len(frames) <= acc
      /\ wire \in Seq(Nat \X Nat) /\ old \in Nat
  BY Units, LenProperties DEF UInv, Types, Queued
<1>2. Gone \in Nat
  BY <1>1 DEF Gone
<1>3. /\ More(s) \in Seq(Nat \X Nat) /\ Len(More(s)) = s
      /\ \A i \in 1..s : More(s)[i] = <<Gone + ((size + i - 1) \div OutUnits) + 1,
                                        ((size + i - 1) % OutUnits) + 1>>
  BY MoreProperties DEF UInv
<1>4. /\ new \in Seq(Nat \X Nat) /\ Len(new) = old + s
      /\ \A i \in 1..(old + s) : new[i] = IF i <= old THEN wire[i] ELSE More(s)[i - old]
  BY <1>1, <1>3, ConcatProperties
<1>5. /\ \A i \in 1..old : new[i] = wire[i]
      /\ \A i \in 1..s : new[old + i] = <<Gone + ((size + i - 1) \div OutUnits) + 1,
                                          ((size + i - 1) % OutUnits) + 1>>
  <2>1. ASSUME NEW i \in 1..old PROVE new[i] = wire[i]
    BY <1>1, <1>4
  <2>2. ASSUME NEW i \in 1..s
        PROVE  new[old + i] = <<Gone + ((size + i - 1) \div OutUnits) + 1,
                                ((size + i - 1) % OutUnits) + 1>>
    <3> DEFINE k == old + i
    <3>1. k \in 1..(old + s) /\ ~(k <= old) /\ k - old = i
      BY <1>1
    <3> HIDE DEF k
    <3>2. new[k] = More(s)[i]
      BY <1>4, <3>1
    <3> USE DEF k
    <3> QED
      BY <1>3, <3>2
  <2> QED
    BY <2>1, <2>2
<1> HIDE DEF new, old
<1>6. /\ \A i \in 1..old : new[i][1] = wire[i][1] /\ wire[i][1] \in Nat
      /\ \A i \in 1..s : new[old + i][1] = Gone + ((size + i - 1) \div OutUnits) + 1
  <2>1. \A i \in 1..old : wire[i] \in Nat \X Nat
    BY <1>1, ElementOfSeq DEF old
  <2> QED
    BY <1>5, <2>1
<1>7. /\ Begun(size) \in Nat /\ Begun(size + s) \in Nat /\ Begun(size) <= Begun(size + s)
      /\ \A i \in 1..s : /\ Begun(size) <= ((size + i - 1) \div OutUnits) + 1
                         /\ ((size + i - 1) \div OutUnits) + 1 <= Begun(size + s)
      /\ \A i, j \in 1..s : i < j => (size + i - 1) \div OutUnits <= (size + j - 1) \div OutUnits
      /\ \A i \in 1..s : (size + i - 1) \div OutUnits \in Nat
  <2>1. CASE OutUnits = 1
    BY <1>1, <2>1 DEF Begun
  <2>2. CASE OutUnits = 2
    BY <1>1, <2>2 DEF Begun
  <2> QED
    BY <1>1, <2>1, <2>2
<1>8. ASSUME NEW i \in 1..Len(new)
      PROVE  i \in 1..old \/ (i - old \in 1..s /\ i = old + (i - old))
  BY <1>1, <1>4
<1>9. \A i \in 1..old : wire[i][1] <= Gone + Begun(size)
  BY DEF UInv, Written, InOrder, old
<1>10. ASSUME NEW i \in 1..Len(new) PROVE new[i][1] <= Gone + Begun(size + s)
  <2>1. CASE i \in 1..old
    <3>1. new[i][1] = wire[i][1] /\ wire[i][1] \in Nat /\ wire[i][1] <= Gone + Begun(size)
      BY <1>6, <1>9, <2>1
    <3> QED
      BY <1>2, <1>7, <3>1
  <2>2. ASSUME NEW k \in 1..s, i = old + k PROVE new[i][1] <= Gone + Begun(size + s)
    BY <1>2, <1>6, <1>7, <2>2
  <2> QED
    BY <1>8, <2>1, <2>2
<1>11. ASSUME NEW i \in 1..Len(new), NEW j \in 1..Len(new), i < j
       PROVE  new[i][1] <= new[j][1]
  <2>1. CASE j \in 1..old
    <3>1. i \in 1..old
      BY <1>1, <1>4, <1>11, <2>1
    <3> QED
      BY <1>6, <1>11, <2>1, <3>1 DEF UInv, Written, InOrder, old
  <2>2. ASSUME i \in 1..old, NEW k \in 1..s, j = old + k PROVE new[i][1] <= new[j][1]
    <3>1. new[i][1] \in Nat /\ new[i][1] <= Gone + Begun(size)
      BY <1>6, <1>9, <2>2
    <3>2. new[j][1] = Gone + ((size + k - 1) \div OutUnits) + 1
      BY <1>6, <2>2
    <3> QED
      BY <1>2, <1>7, <3>1, <3>2
  <2>3. ASSUME NEW h \in 1..s, i = old + h, NEW k \in 1..s, j = old + k
        PROVE  new[i][1] <= new[j][1]
    <3>1. h < k
      BY <1>1, <1>11, <2>3
    <3>2. /\ new[i][1] = Gone + ((size + h - 1) \div OutUnits) + 1
          /\ new[j][1] = Gone + ((size + k - 1) \div OutUnits) + 1
      BY <1>6, <2>3
    <3>3. (size + h - 1) \div OutUnits <= (size + k - 1) \div OutUnits
      BY <1>7, <3>1
    <3> QED
      BY <1>2, <1>7, <3>2, <3>3
  <2> QED
    BY <1>8, <2>1, <2>2, <2>3
<1>12. ASSUME ~torn PROVE Exactly(new, Gone, size + s)
  <2>1. old = Gone * OutUnits + size /\ \A k \in 1..old : wire[k] = Piece(k, OutUnits)
    BY <1>12 DEF UInv, Written, Freed, Exactly, old
  <2>2. Len(new) = Gone * OutUnits + (size + s)
    BY <1>1, <1>2, <1>4, <2>1
  <2>3. ASSUME NEW k \in 1..s PROVE new[old + k] = Piece(old + k, OutUnits)
    <3>1. /\ (old + k - 1) \div OutUnits = Gone + ((size + k - 1) \div OutUnits)
          /\ (old + k - 1) % OutUnits = (size + k - 1) % OutUnits
      <4>1. CASE OutUnits = 1
        BY <1>1, <1>2, <2>1, <4>1
      <4>2. CASE OutUnits = 2
        BY <1>1, <1>2, <2>1, <4>2
      <4> QED
        BY <1>1, <4>1, <4>2
    <3>2. new[old + k] = <<Gone + ((size + k - 1) \div OutUnits) + 1,
                           ((size + k - 1) % OutUnits) + 1>>
      BY <1>5
    <3>3. Piece(old + k, OutUnits) = <<(((old + k) - 1) \div OutUnits) + 1,
                                       (((old + k) - 1) % OutUnits) + 1>>
      BY DEF Piece
    <3>4. (old + k) - 1 = old + k - 1
      BY <1>1
    <3> QED
      BY <3>1, <3>2, <3>3, <3>4
  <2>4. ASSUME NEW i \in 1..Len(new) PROVE new[i] = Piece(i, OutUnits)
    BY <1>5, <1>8, <2>1, <2>3
  <2> QED
    BY <2>2, <2>4 DEF Exactly
<1> QED
  BY <1>4, <1>10, <1>11, <1>12 DEF InOrder, new

(* The end of a send, after took pieces of the batch. *)
LEMMA SendEnds ==
    ASSUME UInv, pc = "send", NEW took \in 0..(batch * OutUnits), FinishSend(took),
           UNCHANGED <<mode, acc>>, InOrder(wire', Gone, took),
           ~torn => Exactly(wire', Gone, took), wire' \in Seq(Nat \X Nat)
    PROVE  Queued' /\ Written'
<1> DEFINE d == Left(took)
<1>1. /\ OutUnits \in {1, 2} /\ OutUnits' = OutUnits
      /\ batch \in Nat /\ took \in Nat /\ mode \in {"tcp", "udp"}
      /\ acc \in Nat /\ Len(frames) \in Nat /\ Len(frames) <= acc
      /\ Len(frames) <= UDP_POOL_SIZE + 1 /\ batch <= Len(frames)
  BY Units, LenProperties DEF UInv, Types, Queued, OutUnits
<1>2. /\ d \in 0..batch /\ Len(frames') = Len(frames) - d
      /\ \A i \in 1..(Len(frames) - d) : frames'[i] = frames[d + i]
      /\ batch' = 0 /\ size' = 0
  BY FinishSendEffect DEF UInv
<1>3. /\ took = 0 => d = 0
      /\ took # 0 /\ mode = "udp" => d = took
      /\ took # 0 /\ mode = "tcp" => d = batch
  BY <1>1 DEF Left, CountedAsSent
<1> HIDE DEF d
<1>4. Gone' = Gone + d /\ Gone \in Nat
  BY <1>1, <1>2 DEF Gone
<1>5. pc' \in {"choose", "head", "recv"}
  BY DEF FinishSend, ToB, Goto
<1>6. Queued'
  <2>1. ASSUME NEW i \in 1..Len(frames') PROVE frames'[i] = Gone' + i
    <3>1. i \in 1..(Len(frames) - d) /\ d + i \in 1..Len(frames)
      BY <1>1, <1>2
    <3>2. frames'[i] = Gone + (d + i)
      BY <1>2, <3>1 DEF UInv, Queued
    <3> QED
      BY <1>1, <1>2, <1>4, <3>1, <3>2
  <2>2. Len(frames') <= acc /\ Len(frames') <= UDP_POOL_SIZE + 1
    BY <1>1, <1>2, UdpSessionAssumption
  <2> QED
    BY <1>2, <1>5, <2>1, <2>2 DEF Queued
<1>7. Begun(took) \in Nat /\ Begun(took) <= d /\ Begun(size)' = 0
  <2>1. CASE mode = "udp"
    <3>1. OutUnits = 1
      BY <2>1, Units DEF UInv
    <3> QED
      BY <1>1, <1>2, <1>3, <2>1, <3>1 DEF Begun
  <2>2. CASE mode = "tcp"
    <3>1. OutUnits = 2
      BY <2>2, Units DEF UInv
    <3> QED
      BY <1>1, <1>2, <1>3, <2>2, <3>1 DEF Begun
  <2> QED
    BY <1>1, <2>1, <2>2
<1>8. InOrder(wire, Gone, size)'
  <2>1. ASSUME NEW i \in 1..Len(wire') PROVE wire'[i][1] <= Gone' + Begun(size)'
    <3>1. wire'[i][1] <= Gone + Begun(took)
      BY DEF InOrder
    <3>2. wire'[i] \in Nat \X Nat
      BY ElementOfSeq
    <3> QED
      BY <1>2, <1>4, <1>7, <3>1, <3>2
  <2> QED
    BY <2>1 DEF InOrder
<1>9. ~torn' => Exactly(wire, Gone, size)'
  <2> SUFFICES ASSUME ~torn' PROVE Exactly(wire, Gone, size)'
    OBVIOUS
  <2>1. ~torn /\ (took = 0 \/ mode = "udp" \/ took >= batch * OutUnits)
    <3>1. ~torn /\ ~(took > 0 /\ took < batch * OutUnits /\ mode = "tcp")
      BY Zenon DEF FinishSend
    <3> QED
      BY <1>1, <3>1
  <2>2. Gone * OutUnits + took = Gone' * OutUnits
    <3>1. CASE mode = "udp"
      <4>1. OutUnits = 1
        BY <3>1, Units DEF UInv
      <4> QED
        BY <1>1, <1>2, <1>3, <1>4, <3>1, <4>1
    <3>2. CASE mode = "tcp"
      <4>1. OutUnits = 2
        BY <3>2, Units DEF UInv
      <4> QED
        BY <1>1, <1>2, <1>3, <1>4, <2>1, <3>2, <4>1
    <3> QED
      BY <1>1, <3>1, <3>2
  <2>3. Len(wire') = Gone' * OutUnits' + size'
    BY <1>1, <1>2, <1>4, <2>1, <2>2 DEF Exactly
  <2>4. \A k \in 1..Len(wire') : wire'[k] = Piece(k, OutUnits')
    BY <1>1, <2>1 DEF Exactly
  <2> QED
    BY <2>3, <2>4 DEF Exactly, Piece
<1>10. torn' => mode' = "tcp"
  BY DEF FinishSend, UInv, Written
<1> QED
  BY <1>6, <1>8, <1>9, <1>10 DEF Written

LEMMA SendWritten ==
    ASSUME UInv, Send \/ SendGivesUp
    PROVE  Queued' /\ Written'
<1> USE DEF appVars, sockVars, histVars, taskVars
<1>1. /\ pc = "send" /\ UNCHANGED <<mode, acc>>
      /\ OutUnits \in {1, 2} /\ batch \in Nat /\ size \in Nat /\ room \in Nat
      /\ size < batch * OutUnits /\ batch * OutUnits \in Nat
  BY Units DEF Send, SendGivesUp, Running, GaveUp, UInv, Types, Queued
<1>2. wire \in Seq(Nat \X Nat) /\ InOrder(wire, Gone, size) /\ (~torn => Exactly(wire, Gone, size))
  BY <1>1 DEF UInv, Types, Written, Freed
<1>3. ASSUME FinishSend(size), wire' = wire PROVE Queued' /\ Written'
  <2>1. size \in 0..(batch * OutUnits)
    BY <1>1
  <2> QED
    BY <1>1, <1>2, <1>3, <2>1, SendEnds
<1>4. ASSUME NEW s \in 1..AtMost(room, batch * OutUnits - size), wire' = wire \o More(s),
             IF size + s = batch * OutUnits THEN FinishSend(size + s)
             ELSE size' = size + s /\ UNCHANGED <<pc, susp, res_f, batch, frames, torn>>
      PROVE  Queued' /\ Written'
  <2>1. s \in 1..(batch * OutUnits - size) /\ size + s \in 0..(batch * OutUnits)
    BY <1>1 DEF AtMost
  <2>2. /\ wire' \in Seq(Nat \X Nat) /\ InOrder(wire', Gone, size + s)
        /\ ~torn => Exactly(wire', Gone, size + s)
    BY <1>1, <1>4, <2>1, WireGrows
  <2>3. CASE size + s = batch * OutUnits
    BY <1>1, <1>4, <2>1, <2>2, <2>3, SendEnds
  <2>4. CASE size + s # batch * OutUnits
    <3>1. /\ size' = size + s /\ UNCHANGED <<pc, batch, frames, torn>>
          /\ size + s < batch * OutUnits
      BY <1>1, <1>4, <2>1, <2>4
    <3>2. OutUnits' = OutUnits /\ Gone' = Gone
      BY <1>1, <3>1 DEF OutUnits, Gone
    <3>3. Queued'
      BY <1>1, <3>1, <3>2 DEF UInv, Queued
    <3>4. Begun(size)' = Begun(size + s)
      BY <3>1, <3>2 DEF Begun
    <3>5. InOrder(wire, Gone, size)'
      BY <2>2, <3>2, <3>4 DEF InOrder
    <3>6. ~torn => Exactly(wire, Gone, size)'
      BY <2>2, <3>1, <3>2 DEF Exactly, Piece
    <3> QED
      BY <1>1, <3>1, <3>3, <3>5, <3>6 DEF UInv, Written
  <2> QED
    BY <2>3, <2>4
<1>5. CASE Send
  <2>1. CASE UNCHANGED <<pc, batch, size, frames, wire, torn>>
    BY <1>1, <2>1, NothingSent
  <2> QED
    BY <1>3, <1>4, <1>5, <2>1 DEF Send, More
<1>6. CASE SendGivesUp
  BY <1>3, <1>6 DEF SendGivesUp
<1> QED
  BY <1>5, <1>6

(* The frames are freed at the end; nothing is written after that. *)
LEMMA DestructWritten ==
    ASSUME UInv, Destruct \/ (Blocked /\ pc = "end")
    PROVE  Queued' /\ Written'
<1>1. /\ frames' = <<>> /\ pc' \in Freed /\ pc = "end"
      /\ UNCHANGED <<mode, acc, batch, size, wire, torn>>
  BY DEF Destruct, Blocked, Running, Goto, Freed, taskVars, histVars
<1>2. /\ batch = 0 /\ size = 0 /\ acc \in Nat /\ Len(frames) \in Nat /\ Len(frames) <= acc
      /\ OutUnits \in {1, 2} /\ OutUnits' = OutUnits /\ UDP_POOL_SIZE \in Nat
  BY <1>1, Units, LenProperties, UdpSessionAssumption DEF UInv, Types, Queued, OutUnits
<1>3. Len(frames') = 0
  BY <1>1
<1>4. Gone' = acc /\ Gone \in Nat /\ Gone <= acc
  BY <1>1, <1>2, <1>3 DEF Gone
<1>5. Queued'
  BY <1>1, <1>2, <1>3 DEF Queued, Freed
<1>6. Begun(size)' = 0 /\ Begun(size) = 0
  BY <1>1, <1>2 DEF Begun
<1>7. InOrder(wire, Gone, size)'
  <2>1. ASSUME NEW i \in 1..Len(wire) PROVE wire[i][1] <= Gone' + Begun(size)'
    <3>1. wire[i] \in Nat \X Nat /\ wire[i][1] <= Gone + Begun(size)
      BY ElementOfSeq DEF UInv, Types, Written, InOrder
    <3> QED
      BY <1>2, <1>4, <1>6, <3>1
  <2> QED
    BY <1>1, <2>1 DEF InOrder, UInv, Written
<1> QED
  BY <1>1, <1>5, <1>7 DEF UInv, Written

(* A datagram joins the queue, also while a batch is being sent. *)
LEMMA UdpRecvWritten ==
    ASSUME UInv, NEW named \in BOOLEAN, UdpRecv(named)
    PROVE  Queued' /\ Written'
<1>1. UNCHANGED <<mode, pc, batch, size, wire, torn>>
  BY DEF UdpRecv, Wakeup, taskVars, histVars
<1>2. CASE UNCHANGED <<acc, frames>>
  BY <1>1, <1>2, NothingSent
<1>3. CASE ~PoolFull /\ acc' = acc + 1 /\ frames' = Append(frames, acc + 1)
  <2>1. /\ acc \in Nat /\ frames \in Seq(Nat) /\ Len(frames) \in Nat
        /\ Len(frames) <= acc /\ UDP_POOL_SIZE \in Nat
    BY LenProperties, UdpSessionAssumption DEF UInv, Types, Queued
  <2>2. /\ Len(frames') = Len(frames) + 1
        /\ \A i \in 1..Len(frames) : frames'[i] = frames[i]
        /\ frames'[Len(frames) + 1] = acc + 1
    BY <1>3, <2>1, AppendProperties
  <2>3. Gone' = Gone /\ Gone = acc - Len(frames)
    BY <1>3, <2>1, <2>2 DEF Gone
  <2>4. OutUnits' = OutUnits
    BY <1>1 DEF OutUnits
  <2>5. Queued'
    <3>1. Len(frames') <= acc' /\ Len(frames') <= UDP_POOL_SIZE + 1
      BY <1>3, <2>1, <2>2 DEF PoolFull
    <3>2. ASSUME NEW i \in 1..(Len(frames) + 1) PROVE frames'[i] = Gone' + i
      <4>1. CASE i \in 1..Len(frames)
        BY <2>2, <2>3, <4>1 DEF UInv, Queued
      <4>2. CASE i = Len(frames) + 1
        <5>1. acc + 1 = (acc - Len(frames)) + (Len(frames) + 1)
          BY <2>1
        <5> QED
          BY <2>2, <2>3, <4>2, <5>1
      <4> QED
        BY <2>1, <4>1, <4>2
    <3>3. IF pc = "send" THEN batch \in 1..Len(frames') /\ size < batch * OutUnits
          ELSE batch = 0 /\ size = 0
      BY <2>1, <2>2 DEF UInv, Queued
    <3> QED
      BY <1>1, <2>2, <2>4, <3>1, <3>2, <3>3 DEF Queued
  <2>6. Written'
    <3>1. Begun(size)' = Begun(size)
      BY <1>1, <2>4 DEF Begun
    <3>2. InOrder(wire, Gone, size)' <=> InOrder(wire, Gone, size)
      BY <1>1, <2>3, <3>1 DEF InOrder
    <3>3. Exactly(wire, Gone, size)' <=> Exactly(wire, Gone, size)
      BY <1>1, <2>3, <2>4 DEF Exactly, Piece
    <3> QED
      BY <1>1, <3>2, <3>3 DEF UInv, Written
  <2> QED
    BY <2>5, <2>6
<1> QED
  BY <1>2, <1>3 DEF UdpRecv

LEMMA WrittenStep ==
    ASSUME UInv, [Next]_vars
    PROVE  Queued' /\ Written'
<1> USE DEF taskVars, appVars, sockVars, histVars
<1>1. CASE Connect \/ Choose \/ SplicerGivesUp \/ (Blocked /\ pc # "end")
  <2>1. UNCHANGED <<mode, frames, acc, batch, size, wire, torn>>
    BY <1>1 DEF Connect, Choose, SplicerGivesUp, Blocked, Running
  <2>2. pc \in {"connect", "choose", "f", "deliver"} /\ pc' \in {"f", "end", "locking"}
    BY <1>1 DEF Connect, Choose, SplicerGivesUp, Blocked, Running, GaveUp, Goto
  <2> QED
    BY <2>1, <2>2, NothingSent DEF Freed
<1>2. CASE RecvUdp \/ ReadHead \/ Deliver \/ ReadOn \/ ReadGivesUp
  <2>1. UNCHANGED <<mode, frames, acc, batch, size, wire, torn>>
    BY <1>2 DEF RecvUdp, ReadHead, Deliver, ReadOn, ReadGivesUp
  <2>2. pc \in Receiving
    BY <1>2 DEF RecvUdp, ReadHead, Deliver, ReadOn, ReadGivesUp, Running, GaveUp, Receiving,
                InFrame
  <2>3. pc' \in {pc, "choose", "rest", "body", "head", "deliver", "crashed"}
    <3>1. CASE RecvUdp \/ ReadHead \/ Deliver
      BY <3>1 DEF RecvUdp, ReadHead, Deliver, HeadRead, Malformed, EndB, Refused, Goto
    <3>2. CASE ReadOn \/ ReadGivesUp
      BY <3>2 DEF ReadOn, ReadGivesUp, HeadRead, Malformed, TornHead, TornBody, UseUnwritten, EndB,
                  Goto
    <3> QED
      BY <1>2, <3>1, <3>2
  <2>4. pc # "send" /\ pc \notin Freed /\ pc' # "send"
    BY <2>2, <2>3 DEF Receiving, InFrame, Freed
  <2> QED
    BY <2>1, <2>4, NothingSent
<1>3. CASE \/ Timeout \/ Terminate \/ (\E kind \in Kinds : SrvSend(kind)) \/ SrvClose
           \/ SrvRead \/ IoPoll \/ UNCHANGED vars
  <2>1. UNCHANGED <<mode, frames, acc, batch, size, wire, torn, pc>>
    BY <1>3 DEF Timeout, Terminate, SrvSend, SrvClose, SrvRead, IoPoll, Wakeup, vars
  <2> QED
    BY <2>1, NothingSent
<1> QED
  BY <1>1, <1>2, <1>3, BatchQueued, SendWritten, DestructWritten, UdpRecvWritten DEF Next, Task

-----------------------------------------------------------------------------
(* Arrived: the pieces in the socket *)

LEMMA ArrivedTypes ==
    ASSUME UInv
    PROVE  /\ Len(inq) \in Nat /\ Len(arr) \in Nat /\ Len(got) \in Nat /\ Len(delivered) \in Nat
           /\ fed \in Nat /\ InUnits \in {1, 3} /\ InUnits \in Nat
           /\ TakenPieces \in Nat /\ Whole \in Nat /\ Handled \in Int
           /\ Whole <= Len(arr)
<1>1. /\ Len(inq) \in Nat /\ Len(arr) \in Nat /\ Len(got) \in Nat /\ Len(delivered) \in Nat
      /\ fed \in Nat /\ InUnits \in {1, 3} /\ Len(inq) <= fed /\ fed <= Len(arr) * InUnits
  BY LenProperties, Units DEF UInv, Types, Arrived
<1>2. TakenPieces \in Nat /\ TakenPieces <= Len(arr) * InUnits
  BY <1>1 DEF TakenPieces
<1>3. Whole \in Nat /\ Whole <= Len(arr)
  <2>1. CASE InUnits = 1
    BY <1>1, <1>2, <2>1 DEF Whole
  <2>2. CASE InUnits = 3
    BY <1>1, <1>2, <2>2 DEF Whole
  <2> QED
    BY <1>1, <2>1, <2>2
<1> QED
  BY <1>1, <1>2, <1>3 DEF Handled

(* Pieces are taken from the front. *)
LEMMA PiecesTaken ==
    ASSUME UInv, NEW n \in 0..Len(inq), Len(inq') = Len(inq) - n,
           \A i \in 1..(Len(inq) - n) : inq'[i] = inq[n + i],
           UNCHANGED <<mode, fed, arr>>, mode = "udp" \/ sockErr' = sockErr
    PROVE  Arrived' /\ TakenPieces' = TakenPieces + n
<1>1. InUnits' = InUnits
  BY DEF InUnits
<1>2. TakenPieces' = TakenPieces + n /\ Len(inq') <= fed
  <2>1. /\ Len(inq) \in Nat /\ fed \in Nat /\ Len(inq) <= fed
        /\ Len(inq') = Len(inq) - n /\ fed' = fed
    BY ArrivedTypes DEF UInv, Arrived
  <2> QED
    BY <2>1 DEF TakenPieces
<1>3. ASSUME NEW i \in 1..Len(inq') PROVE inq'[i] = Piece(TakenPieces' + i, InUnits)
  <2>1. i \in 1..(Len(inq) - n) /\ n + i \in 1..Len(inq)
    BY ArrivedTypes
  <2>2. inq'[i] = Piece(TakenPieces + (n + i), InUnits)
    BY <2>1 DEF UInv, Arrived
  <2>3. TakenPieces + (n + i) = TakenPieces' + i
    BY <1>2, <2>1, ArrivedTypes
  <2> QED
    BY <2>2, <2>3
<1>4. Arrived'
  BY <1>1, <1>2, <1>3 DEF UInv, Arrived, Piece
<1> QED
  BY <1>2, <1>4

LEMMA NothingTaken ==
    ASSUME UInv, UNCHANGED <<mode, inq, fed, arr>>, mode = "udp" \/ sockErr' = sockErr
    PROVE  Arrived' /\ TakenPieces' = TakenPieces
<1>1. /\ 0 \in 0..Len(inq) /\ Len(inq') = Len(inq) - 0
      /\ \A i \in 1..(Len(inq) - 0) : inq'[i] = inq[0 + i]
      /\ TakenPieces + 0 = TakenPieces
  BY ArrivedTypes
<1> QED
  BY <1>1, PiecesTaken

(* A piece arrives, perhaps the first of a datagram. *)
LEMMA PieceArrives ==
    ASSUME UInv, NEW kind \in Kinds, SrvSend(kind)
    PROVE  /\ Arrived' /\ TakenPieces' = TakenPieces
           /\ \A n \in 1..Len(arr) : arr'[n] = arr[n]
<1> DEFINE last == Len(arr')
           piece == <<last, fed + 1 - (last - 1) * InUnits>>
<1>1. /\ mode' = mode /\ ~sockErr /\ fed' = fed + 1 /\ InUnits' = InUnits
      /\ inq' = Append(inq, piece)
  BY DEF SrvSend, InUnits
<1>2. /\ Len(arr) \in Nat /\ Len(inq) \in Nat /\ fed \in Nat /\ InUnits \in {1, 3}
      /\ Len(inq) <= fed /\ fed <= Len(arr) * InUnits /\ (Len(arr) - 1) * InUnits < fed
  BY <1>1, ArrivedTypes DEF UInv, Arrived
<1>3. /\ last \in Nat /\ fed + 1 <= last * InUnits /\ (last - 1) * InUnits < fed + 1
      /\ \A n \in 1..Len(arr) : arr'[n] = arr[n]
  <2>1. CASE fed = Len(arr) * InUnits
    <3>1. last = Len(arr) + 1 /\ \A n \in 1..Len(arr) : arr'[n] = arr[n]
      <4>1. arr' = Append(arr, kind)
        BY <2>1 DEF SrvSend
      <4>2. arr \in Seq(Kinds)
        BY DEF UInv, Types
      <4> QED
        BY <4>1, <4>2, AppendProperties
    <3> HIDE DEF last
    <3> QED
      BY <1>2, <2>1, <3>1
  <2>2. CASE fed # Len(arr) * InUnits
    <3>1. last = Len(arr) /\ \A n \in 1..Len(arr) : arr'[n] = arr[n]
      BY <2>2 DEF SrvSend
    <3> HIDE DEF last
    <3> QED
      BY <1>2, <2>2, <3>1
  <2> QED
    BY <2>1, <2>2
<1> HIDE DEF last
<1>4. fed + 1 - (last - 1) * InUnits \in Nat
  BY <1>2, <1>3
<1>5. piece = Piece(fed + 1, InUnits)
  <2>1. ((fed + 1) - 1) \div InUnits = last - 1 /\ ((fed + 1) - 1) % InUnits = fed - (last - 1) * InUnits
    <3>1. CASE InUnits = 1
      BY <1>2, <1>3, <3>1
    <3>2. CASE InUnits = 3
      BY <1>2, <1>3, <3>2
    <3> QED
      BY <1>2, <3>1, <3>2
  <2>2. (last - 1) + 1 = last /\ (fed - (last - 1) * InUnits) + 1 = fed + 1 - (last - 1) * InUnits
    BY <1>2, <1>3
  <2> QED
    BY <2>1, <2>2 DEF Piece
<1>6. /\ Len(inq') = Len(inq) + 1 /\ inq'[Len(inq) + 1] = piece
      /\ \A i \in 1..Len(inq) : inq'[i] = inq[i]
  <2>1. piece \in Nat \X Nat /\ inq \in Seq(Nat \X Nat)
    BY <1>3, <1>4 DEF UInv, Types
  <2> HIDE DEF piece
  <2> QED
    BY <1>1, <2>1, AppendProperties
<1> HIDE DEF piece
<1>7. TakenPieces' = TakenPieces /\ TakenPieces + (Len(inq) + 1) = fed + 1
  BY <1>1, <1>2, <1>6 DEF TakenPieces
<1>8. ASSUME NEW i \in 1..Len(inq') PROVE inq'[i] = Piece(TakenPieces + i, InUnits)
  <2>1. CASE i \in 1..Len(inq)
    BY <1>6, <2>1 DEF UInv, Arrived
  <2>2. CASE i = Len(inq) + 1
    BY <1>5, <1>6, <1>7, <2>2
  <2> QED
    BY <1>2, <1>6, <2>1, <2>2
<1>9. Len(inq') <= fed'
  BY <1>1, <1>2, <1>6
<1>10. fed' <= Len(arr') * InUnits' /\ (Len(arr') - 1) * InUnits' < fed'
  BY <1>1, <1>3 DEF last
<1>11. Arrived'
  BY <1>1, <1>7, <1>8, <1>9, <1>10 DEF Arrived, Piece
<1> QED
  BY <1>3, <1>7, <1>11

(* A reset discards what was not read. *)
LEMMA CloseArrived ==
    ASSUME UInv, SrvClose
    PROVE  Arrived' /\ TakenPieces' = TakenPieces
<1>1. mode' = mode /\ arr' = arr
  BY DEF SrvClose
<1>2. CASE mode = "tcp" /\ sockErr' = TRUE /\ inq' = <<>> /\ fed' = fed - Len(inq)
  <2>1. Len(inq') = 0 /\ InUnits' = InUnits
    BY <1>1, <1>2 DEF InUnits
  <2>2. TakenPieces' = TakenPieces /\ Len(inq') <= fed' /\ fed' <= Len(arr) * InUnits
    BY <1>2, <2>1, ArrivedTypes DEF TakenPieces, UInv, Arrived
  <2> QED
    BY <1>1, <1>2, <2>1, <2>2 DEF Arrived
<1>3. CASE UNCHANGED <<inq, fed>> /\ (mode = "udp" \/ UNCHANGED sockErr)
  BY <1>1, <1>3, NothingTaken
<1> QED
  BY <1>2, <1>3 DEF SrvClose, UInv, Types

(* Datagrams, or the first pieces of a head, are taken; one more piece is taken. *)
LEMMA DropTaken ==
    ASSUME UInv, NEW n \in 0..Len(inq), inq' = Drop(inq, n),
           UNCHANGED <<mode, fed, arr>>, mode = "udp" \/ sockErr' = sockErr
    PROVE  Arrived' /\ TakenPieces' = TakenPieces + n
<1>1. inq \in Seq(Nat \X Nat)
  BY DEF UInv, Types
<1>2. Len(inq') = Len(inq) - n /\ \A i \in 1..(Len(inq) - n) : inq'[i] = inq[n + i]
  BY <1>1, DropProperties
<1> QED
  BY <1>2, PiecesTaken

LEMMA TailTaken ==
    ASSUME UInv, inq # <<>>, inq' = Tail(inq),
           UNCHANGED <<mode, fed, arr>>, mode = "udp" \/ sockErr' = sockErr
    PROVE  Arrived' /\ TakenPieces' = TakenPieces + 1
<1>1. inq \in Seq(Nat \X Nat)
  BY DEF UInv, Types
<1>2. /\ Len(inq) \in Nat \ {0} /\ Len(inq') = Len(inq) - 1
      /\ \A i \in 1..(Len(inq) - 1) : inq'[i] = inq[i + 1]
  BY <1>1, TailProperties
<1>3. 1 \in 0..Len(inq) /\ \A i \in 1..(Len(inq) - 1) : inq'[i] = inq[1 + i]
  BY <1>2
<1> QED
  BY <1>2, <1>3, PiecesTaken

LEMMA ArrivedStep ==
    ASSUME UInv, [Next]_vars
    PROVE  Arrived'
<1> USE DEF taskVars, appVars, sockVars, histVars
<1>1. CASE \/ Connect \/ FwdF \/ SendGivesUp \/ Deliver \/ ReadGivesUp \/ Choose
           \/ SplicerGivesUp \/ Destruct \/ Blocked \/ Timeout \/ Terminate \/ SrvRead \/ IoPoll
           \/ (\E named \in BOOLEAN : UdpRecv(named)) \/ UNCHANGED vars
  <2>1. UNCHANGED <<mode, inq, fed, arr, sockErr>>
    BY <1>1 DEF Connect, FwdF, SendGivesUp, Deliver, ReadGivesUp, Choose, SplicerGivesUp,
                Destruct, Blocked, Timeout, Terminate, SrvRead, IoPoll, UdpRecv, vars
  <2> QED
    BY <2>1, NothingTaken
<1>2. CASE Send
  <2>1. UNCHANGED <<mode, inq, fed, arr>>
    BY <1>2 DEF Send
  <2>2. sockErr' = sockErr \/ (sockErr /\ sockErr' = (mode = "tcp"))
    BY <1>2 DEF Send
  <2>3. mode = "udp" \/ sockErr' = sockErr
    BY <2>2, Zenon DEF UInv, Types
  <2> QED
    BY <2>1, <2>3, NothingTaken
<1>3. CASE RecvUdp
  <2>1. UNCHANGED <<mode, fed, arr>> /\ mode = "udp"
    BY <1>3 DEF RecvUdp, Running, UInv, Calm
  <2>2. inq' = inq \/ inq' = Drop(inq, AtMost(Len(inq), num))
    BY <1>3 DEF RecvUdp
  <2>3. AtMost(Len(inq), num) \in 0..Len(inq)
    BY ArrivedTypes, UdpSessionAssumption DEF AtMost
  <2> QED
    BY <2>1, <2>2, <2>3, DropTaken, NothingTaken
<1>4. CASE ReadHead
  <2>1. UNCHANGED <<mode, fed, arr, sockErr>>
    BY <1>4 DEF ReadHead
  <2>2. inq' = inq \/ inq' = Drop(inq, AtMost(Len(inq), 2))
    BY <1>4 DEF ReadHead
  <2>3. AtMost(Len(inq), 2) \in 0..Len(inq)
    BY ArrivedTypes DEF AtMost
  <2> QED
    BY <2>1, <2>2, <2>3, DropTaken, NothingTaken
<1>5. CASE ReadOn
  <2>1. UNCHANGED <<mode, fed, arr, sockErr>>
    BY <1>5 DEF ReadOn
  <2>2. inq' = inq \/ (inq # <<>> /\ inq' = Tail(inq))
    BY <1>5 DEF ReadOn
  <2> QED
    BY <2>1, <2>2, TailTaken, NothingTaken
<1> QED
  BY <1>1, <1>2, <1>3, <1>4, <1>5, PieceArrives, CloseArrived DEF Next, Task

-----------------------------------------------------------------------------
(* InStep: the task's place in the stream *)

LEMMA DivideOn ==
    ASSUME NEW t \in Nat, NEW u \in {1, 3}
    PROVE  /\ t \div u \in Nat /\ t % u \in 0..(u - 1)
           /\ u = 1 => t \div u = t
           /\ u = 3 /\ t % 3 = 0 => /\ (t + 1) \div 3 = t \div 3 /\ (t + 1) % 3 = 1
                                    /\ (t + 2) \div 3 = t \div 3 /\ (t + 2) % 3 = 2
           /\ u = 3 /\ t % 3 = 1 => (t + 1) \div 3 = t \div 3 /\ (t + 1) % 3 = 2
           /\ u = 3 /\ t % 3 = 2 => (t + 1) \div 3 = t \div 3 + 1 /\ (t + 1) % 3 = 0
<1>1. CASE u = 1
  BY <1>1
<1>2. CASE u = 3
  BY <1>2
<1> QED
  BY <1>1, <1>2

(* Nothing is read and nothing delivered; a datagram may begin to arrive. *)
LEMMA StillInStep ==
    ASSUME UInv, UNCHANGED <<mode, got, delivered>>, TakenPieces' = TakenPieces,
           \A n \in 1..Len(arr) : arr'[n] = arr[n],
           garbled => garbled', res_b' >= 0 => res_b >= 0, Alive' => Alive,
           Phase' = Phase, pc' \in InFrame => pc \in InFrame /\ cur' = cur
    PROVE  InStep'
<1>1. InUnits' = InUnits
  BY DEF InUnits
<1>2. Whole' = Whole /\ Handled' = Handled
  BY <1>1 DEF Whole, Handled
<1>3. ~garbled' => Increasing(delivered)'
  BY DEF UInv, InStep, Increasing
<1>4. ASSUME ~garbled', res_b' >= 0, Alive' PROVE Position'
  <2>1. Position
    BY <1>4 DEF UInv, InStep
  <2>2. Passed(Handled, delivered)'
    <3>1. Handled >= 0 /\ Handled <= Len(arr) /\ Handled \in Int /\ Len(arr) \in Nat
      BY <2>1, ArrivedTypes DEF Position, Passed, Handled
    <3>2. ASSUME NEW n \in 1..Handled PROVE arr'[n] = arr[n]
      BY <3>1
    <3> QED
      BY <1>2, <2>1, <3>2 DEF Position, Passed
  <2> QED
    BY <1>1, <1>2, <2>1, <2>2 DEF Position
<1> QED
  BY <1>3, <1>4 DEF InStep

(* The direction ends, or the stream gets out of step. *)
LEMMA DirectionEnds ==
    ASSUME UInv, delivered' = delivered, garbled => garbled',
           res_b' = -1 \/ garbled' \/ ~Alive'
    PROVE  InStep'
  BY DEF UInv, InStep, Increasing

(* UDP_IN_UDP: a batch of datagrams is read. *)
LEMMA BatchInStep ==
    ASSUME UInv, RecvUdp
    PROVE  InStep'
<1> USE DEF taskVars, appVars, sockVars, histVars
<1> DEFINE n == AtMost(Len(inq), num)
           ids == [i \in 1..n |-> inq[i][1]]
<1>1. /\ pc = "recv" /\ mode = "udp" /\ got = <<>> /\ res_b >= 0 /\ Len(got) = 0
      /\ UNCHANGED <<mode, delivered, arr, fed>> /\ InUnits = 1 /\ InUnits' = 1
      /\ n \in 0..Len(inq)
  <2>1. pc = "recv" /\ mode = "udp" /\ got = <<>> /\ res_b >= 0
    BY DEF RecvUdp, Running, UInv, Calm, Receiving
  <2>2. UNCHANGED <<mode, delivered, arr, fed>>
    BY DEF RecvUdp
  <2>3. n \in 0..Len(inq)
    BY ArrivedTypes, UdpSessionAssumption DEF AtMost
  <2> QED
    BY <2>1, <2>2, <2>3 DEF InUnits
<1>2. CASE (EndB(-1) /\ garbled' = garbled) \/ Malformed
  BY <1>1, <1>2, DirectionEnds DEF Malformed, EndB
<1>3. CASE EndB(0) /\ UNCHANGED <<inq, sockErr, garbled>>
  <2>1. TakenPieces' = TakenPieces
    BY <1>1, <1>3 DEF TakenPieces
  <2>2. pc' = "choose" /\ got' = got /\ Phase' = Phase /\ Alive
    BY <1>1, <1>3 DEF EndB, Goto, Phase, Alive
  <2> QED
    BY <1>1, <1>3, <2>1, <2>2, StillInStep DEF InFrame
<1>4. CASE inq' = Drop(inq, n) /\ got' = ids /\ Goto("deliver") /\ UNCHANGED <<res_b, garbled>>
  <2>1. SUFFICES ASSUME ~garbled PROVE Position'
    BY <1>1, <1>4 DEF InStep, Increasing, UInv
  <2>2. Position /\ pc' = "deliver" /\ Phase = 0 /\ Phase' = 0
    BY <1>1, <1>4, <2>1 DEF UInv, InStep, Alive, Goto, Phase
  <2>3. TakenPieces' = TakenPieces + n
    BY <1>1, <1>4, DropTaken
  <2>4. ids \in Seq(Nat) /\ Len(ids) = n
    <3> HIDE DEF ids
    <3> QED
      BY <1>1, BatchProperties DEF UInv, ids
  <2>5. Whole = TakenPieces /\ Whole' = Whole + n /\ Handled = Whole /\ Handled' = Whole
    <3> HIDE DEF n, ids
    <3> QED
      BY <1>1, <1>4, <2>3, <2>4, ArrivedTypes DEF Whole, Handled
  <2>6. ASSUME NEW i \in 1..n PROVE ids[i] = Whole + i
    <3> HIDE DEF n
    <3>1. i \in 1..Len(inq) /\ ids[i] = inq[i][1]
      BY <1>1, ArrivedTypes
    <3>2. inq[i] = Piece(TakenPieces + i, 1)
      BY <1>1, <3>1 DEF UInv, Arrived
    <3>3. (((TakenPieces + i) - 1) \div 1) + 1 = TakenPieces + i
      BY ArrivedTypes
    <3> QED
      BY <2>5, <3>1, <3>2, <3>3 DEF Piece
  <2> HIDE DEF n, ids
  <2>7. TakenPieces' % 1 = 0
    BY <1>1, <2>3, ArrivedTypes
  <2>8. Passed(Handled, delivered)'
    BY <1>1, <2>2, <2>5 DEF Position, Passed
  <2>9. \A i \in 1..Len(got') : got'[i] = Handled' + i
    BY <1>4, <2>4, <2>5, <2>6
  <2> QED
    BY <1>1, <2>2, <2>7, <2>8, <2>9 DEF Position, InFrame
<1> QED
  BY <1>2, <1>3, <1>4 DEF RecvUdp

(* UDP_IN_TCP, a head: its first piece, or its first two. *)
LEMMA HeadInStep ==
    ASSUME UInv, ReadHead
    PROVE  InStep'
<1> USE DEF taskVars, appVars, sockVars, histVars
<1> DEFINE id == IF inq[1][2] = 1 THEN inq[1][1] ELSE Garbage
           n == AtMost(Len(inq), 2)
<1>1. /\ pc = "head" /\ mode = "tcp" /\ res_b >= 0 /\ Alive /\ Phase = 0
      /\ UNCHANGED <<mode, delivered, arr, fed, sockErr>>
      /\ InUnits = 3 /\ InUnits' = 3
  <2>1. pc = "head" /\ mode = "tcp" /\ res_b >= 0
    BY DEF ReadHead, Running, UInv, Calm, Receiving
  <2>2. UNCHANGED <<mode, delivered, arr, fed, sockErr>>
    BY DEF ReadHead
  <2> QED
    BY <2>1, <2>2 DEF InUnits, Phase, Alive
<1>2. CASE (EndB(-1) /\ garbled' = garbled) \/ Malformed
  BY <1>1, <1>2, DirectionEnds DEF Malformed, EndB
<1>3. CASE got = <<>> /\ EndB(0) /\ UNCHANGED <<inq, garbled>>
  <2>1. TakenPieces' = TakenPieces
    BY <1>1, <1>3 DEF TakenPieces
  <2>2. pc' = "choose" /\ got' = got /\ Phase' = Phase
    BY <1>1, <1>3 DEF EndB, Goto, Phase
  <2> QED
    BY <1>1, <1>3, <2>1, <2>2, StillInStep DEF InFrame
<1>4. CASE Goto("deliver") /\ UNCHANGED <<res_b, got, cur, inq, garbled>>
  <2>1. TakenPieces' = TakenPieces
    BY <1>1, <1>4 DEF TakenPieces
  <2>2. pc' = "deliver" /\ Phase' = Phase
    BY <1>1, <1>4 DEF Goto, Phase
  <2> QED
    BY <1>1, <1>4, <2>1, <2>2, StillInStep DEF InFrame
<1>5. CASE /\ inq # <<>> /\ inq' = Drop(inq, n) /\ cur' = id
           /\ UNCHANGED <<res_b, got, garbled>>
           /\ IF Len(inq) = 1 THEN Goto("rest") ELSE Goto("body")
  <2>1. SUFFICES ASSUME ~garbled PROVE Position'
    BY <1>1, <1>5 DEF InStep, Increasing, UInv
  <2>2. Position
    BY <1>1, <2>1 DEF UInv, InStep
  <2>3. Len(inq) \in Nat \ {0}
    <3>1. inq \in Seq(Nat \X Nat)
      BY DEF UInv, Types
    <3> QED
      BY <1>5, <3>1, TailProperties
  <2>4. n \in 0..Len(inq) /\ n = (IF Len(inq) = 1 THEN 1 ELSE 2)
    BY <2>3 DEF AtMost
  <2>5. TakenPieces' = TakenPieces + n /\ TakenPieces \in Nat /\ TakenPieces % 3 = 0
    <3>1. TakenPieces' = TakenPieces + n
      BY <1>1, <1>5, <2>4, DropTaken
    <3> QED
      BY <1>1, <2>2, <3>1, ArrivedTypes DEF Position
  <2>6. id = Whole + 1
    <3>1. inq[1] = Piece(TakenPieces + 1, 3)
      BY <1>1, <2>3 DEF UInv, Arrived
    <3>2. (TakenPieces + 1) - 1 = TakenPieces
      BY <2>5
    <3>3. inq[1] = <<Whole + 1, 1>>
      BY <1>1, <2>5, <3>1, <3>2 DEF Piece, Whole
    <3> QED
      BY <3>3
  <2> HIDE DEF id, n
  <2>7. Whole' = Whole /\ TakenPieces' % 3 = n
    BY <1>1, <2>4, <2>5, DivideOn DEF Whole
  <2>8. Phase' = n
    BY <1>5, <2>4 DEF Goto, Phase
  <2>9. Handled' = Handled
    BY <1>5, <2>7 DEF Handled
  <2>10. Passed(Handled, delivered)'
    BY <1>1, <2>2, <2>9 DEF Position, Passed
  <2> QED
    BY <1>1, <1>5, <2>2, <2>6, <2>7, <2>8, <2>9, <2>10 DEF Position
<1> QED
  <2>1. CASE /\ inq # <<>> /\ inq' = Drop(inq, n)
             /\ IF Len(inq) = 1
                THEN cur' = id /\ Goto("rest") /\ UNCHANGED <<res_b, got, garbled>>
                ELSE HeadRead(id)
    <3> HIDE DEF id, n
    <3> QED
      BY <1>2, <1>5, <2>1 DEF HeadRead
  <2>2. CASE ~(inq # <<>> /\ inq' = Drop(inq, n))
    BY <1>2, <1>3, <1>4, <2>2 DEF ReadHead
  <2> QED
    BY <1>4, <2>1, <2>2 DEF ReadHead

(* The rest of a head, or a body. *)
LEMMA FrameInStep ==
    ASSUME UInv, ReadOn
    PROVE  InStep'
<1> USE DEF taskVars, appVars, sockVars, histVars
<1>1. /\ pc \in InFrame /\ mode = "tcp" /\ res_b >= 0 /\ Alive
      /\ UNCHANGED <<mode, delivered, arr, fed, sockErr>>
      /\ InUnits = 3 /\ InUnits' = 3
  <2>1. pc \in InFrame /\ mode = "tcp" /\ res_b >= 0
    BY DEF ReadOn, Running, UInv, Calm, Receiving, InFrame
  <2>2. UNCHANGED <<mode, delivered, arr, fed, sockErr>>
    BY DEF ReadOn
  <2> QED
    BY <2>1, <2>2 DEF InUnits, Alive, InFrame
<1>2. CASE EndB(-1) /\ (garbled => garbled')
  BY <1>1, <1>2, DirectionEnds DEF EndB
<1>3. CASE garbled' = TRUE
  BY <1>1, <1>3, DirectionEnds
<1>4. CASE UNCHANGED <<pc, res_b, got, cur, inq, garbled>>
  <2>1. TakenPieces' = TakenPieces /\ Phase' = Phase
    BY <1>1, <1>4 DEF TakenPieces, Phase
  <2> QED
    BY <1>1, <1>4, <2>1, StillInStep
<1>5. CASE inq # <<>> /\ inq' = Tail(inq) /\ garbled' = garbled /\ res_b' = res_b
           /\ \/ pc = "rest" /\ cur' = cur /\ Goto("body") /\ got' = got
              \/ pc = "body" /\ got' = Append(got, cur) /\ Goto("head")
  <2>1. SUFFICES ASSUME ~garbled PROVE Position'
    BY <1>1, <1>5 DEF InStep, Increasing, UInv
  <2>2. Position
    BY <1>1, <2>1 DEF UInv, InStep
  <2>3. TakenPieces' = TakenPieces + 1 /\ TakenPieces \in Nat /\ TakenPieces % 3 = Phase
    <3>1. TakenPieces' = TakenPieces + 1
      BY <1>1, <1>5, TailTaken
    <3> QED
      BY <1>1, <2>2, <3>1, ArrivedTypes DEF Position
  <2>4. CASE pc = "rest"
    <3>1. cur' = cur /\ pc' = "body" /\ got' = got /\ Phase = 1 /\ Phase' = 2
      BY <1>5, <2>4 DEF Goto, Phase
    <3>2. Whole' = Whole /\ TakenPieces' % 3 = 2
      BY <1>1, <2>3, <3>1, DivideOn DEF Whole
    <3>3. Handled' = Handled
      BY <3>1, <3>2 DEF Handled
    <3>4. Passed(Handled, delivered)'
      BY <1>1, <2>2, <3>3 DEF Position, Passed
    <3> QED
      BY <1>1, <2>2, <3>1, <3>2, <3>3, <3>4 DEF Position
  <2>5. CASE pc = "body"
    <3>1. got' = Append(got, cur) /\ pc' = "head" /\ Phase = 2 /\ Phase' = 0 /\ cur = Whole + 1
      BY <1>1, <1>5, <2>2, <2>5 DEF Goto, Phase, Position
    <3>2. Whole' = Whole + 1 /\ TakenPieces' % 3 = 0
      BY <1>1, <2>3, <3>1, DivideOn DEF Whole
    <3>3. /\ Len(got') = Len(got) + 1 /\ got'[Len(got) + 1] = cur
          /\ \A i \in 1..Len(got) : got'[i] = got[i]
      <4>1. got \in Seq(Nat) /\ cur \in Nat
        BY DEF UInv, Types
      <4> QED
        BY <3>1, <4>1, AppendProperties
    <3>4. Handled' = Handled
      BY <3>2, <3>3, ArrivedTypes DEF Handled
    <3>5. Passed(Handled, delivered)'
      BY <1>1, <2>2, <3>4 DEF Position, Passed
    <3>6. ASSUME NEW i \in 1..Len(got') PROVE got'[i] = Handled + i
      <4>1. CASE i \in 1..Len(got)
        BY <2>2, <3>3, <4>1 DEF Position
      <4>2. CASE i = Len(got) + 1
        BY <3>1, <3>3, <4>2, ArrivedTypes DEF Handled
      <4> QED
        BY <3>3, <4>1, <4>2, ArrivedTypes
    <3> QED
      BY <1>1, <3>1, <3>2, <3>4, <3>5, <3>6 DEF Position, InFrame
  <2> QED
    BY <1>1, <2>4, <2>5 DEF InFrame
<1>6. CASE inq # <<>> /\ inq' = Tail(inq)
  <2>1. CASE pc = "rest" /\ HeadRead(cur)
    BY <1>2, <1>3, <1>5, <1>6, <2>1 DEF HeadRead, Malformed
  <2>2. CASE garbled' = garbled /\ pc = "body" /\ got' = Append(got, cur) /\ Goto("head")
             /\ res_b' = res_b
    BY <1>5, <1>6, <2>2
  <2>3. CASE garbled' = TRUE \/ (inq = <<>> /\ inq' = inq)
    BY <1>3, <1>6, <2>3
  <2> QED
    BY <1>1, <1>6, <2>1, <2>2, <2>3 DEF ReadOn, InFrame
<1>7. CASE inq' = inq /\ (TornHead \/ TornBody)
  BY <1>3, <1>7 DEF TornHead, TornBody, UseUnwritten
<1> QED
  BY <1>4, <1>6, <1>7 DEF ReadOn

(* A datagram of the batch at hand goes to lwIP, or is passed over because it is empty. *)
LEMMA DeliverInStep ==
    ASSUME UInv, Deliver
    PROVE  InStep'
<1> USE DEF taskVars, appVars, sockVars, histVars
<1>1. /\ pc = "deliver" /\ res_b >= 0 /\ Alive /\ Phase = 0
      /\ UNCHANGED <<mode, garbled, arr, fed, inq>> /\ InUnits' = InUnits
  <2>1. pc = "deliver" /\ res_b >= 0
    BY DEF Deliver, Running, UInv, Calm, Receiving
  <2>2. UNCHANGED <<mode, garbled, arr, fed, inq>>
    BY DEF Deliver
  <2> QED
    BY <2>1, <2>2 DEF InUnits, Phase, Alive
<1>2. TakenPieces' = TakenPieces /\ Whole' = Whole
  BY <1>1 DEF TakenPieces, Whole
<1>3. CASE EndB(-1) /\ delivered' = delivered
  BY <1>1, <1>3, DirectionEnds DEF EndB
<1>4. CASE got = <<>> /\ EndB(1) /\ delivered' = delivered
  <2>1. pc' = "choose" /\ got' = got /\ Phase' = Phase
    BY <1>1, <1>4 DEF EndB, Goto, Phase
  <2> QED
    BY <1>1, <1>2, <1>4, <2>1, StillInStep DEF InFrame
<1>5. CASE /\ got # <<>> /\ got' = Tail(got) /\ UNCHANGED <<pc, res_b>>
           /\ \/ Kind(Head(got)) = "empty" /\ delivered' = delivered
              \/ Kind(Head(got)) # "empty" /\ delivered' = Append(delivered, Head(got))
  <2>1. SUFFICES ASSUME ~garbled PROVE Increasing(delivered)' /\ Position'
    BY <1>1 DEF InStep
  <2>2. Position /\ Increasing(delivered)
    BY <1>1, <2>1 DEF UInv, InStep
  <2>3. /\ Head(got) = got[1] /\ Len(got) \in Nat \ {0} /\ Len(got') = Len(got) - 1
        /\ \A i \in 1..(Len(got) - 1) : got'[i] = got[i + 1]
    <3>1. got \in Seq(Nat)
      BY DEF UInv, Types
    <3> QED
      BY <1>5, <3>1, TailProperties
  <2> DEFINE h == Handled + 1
  <2>4. Handled \in Nat /\ Handled' = h /\ Head(got) = h /\ h \in Nat /\ h >= 1
    BY <1>2, <2>2, <2>3, ArrivedTypes DEF Position, Passed, Handled
  <2>5. Kind(Head(got)) = arr[h]
    BY <2>4 DEF Kind, Garbage
  <2>6. ASSUME NEW i \in 1..Len(got') PROVE got'[i] = Handled' + i
    <3>1. i \in 1..(Len(got) - 1) /\ i + 1 \in 1..Len(got)
      BY <2>3
    <3>2. got'[i] = Handled + (i + 1)
      BY <2>2, <2>3, <3>1 DEF Position
    <3>3. Handled + (i + 1) = Handled' + i
      BY <2>4, <3>1
    <3> QED
      BY <3>2, <3>3
  <2>7. Phase' = Phase /\ pc' \notin InFrame
    BY <1>1, <1>5 DEF Phase, InFrame
  <2> HIDE DEF h
  <2>8. \A n \in 1..h : n \in 1..Handled \/ n = h
    BY <2>4 DEF h
  <2>9. 1..Handled \subseteq 1..h /\ h \in 1..h
    BY <2>4 DEF h
  <2>10. Passed(h, delivered') /\ Increasing(delivered')
    <3>1. CASE arr[h] = "empty" /\ delivered' = delivered
      <4>1. Increasing(delivered')
        BY <2>2, <3>1 DEF Increasing
      <4>2. \A i \in 1..Len(delivered) : delivered[i] \in 1..h /\ arr[delivered[i]] # "empty"
        BY <2>2, <2>9 DEF Position, Passed
      <4>3. \A n \in 1..h : arr[n] # "empty" => \E i \in 1..Len(delivered) : delivered[i] = n
        BY <2>2, <2>8, <3>1 DEF Position, Passed
      <4> QED
        BY <1>1, <2>4, <3>1, <4>1, <4>2, <4>3 DEF Passed
    <3>2. CASE arr[h] # "empty" /\ delivered' = Append(delivered, h)
      <4>1. delivered \in Seq(Nat) /\ Len(delivered) \in Nat
        BY ArrivedTypes DEF UInv, Types
      <4>2. /\ Len(delivered') = Len(delivered) + 1 /\ delivered'[Len(delivered) + 1] = h
            /\ \A i \in 1..Len(delivered) : delivered'[i] = delivered[i]
            /\ DOMAIN delivered' = 1..(Len(delivered) + 1)
        BY <2>4, <3>2, <4>1, AppendProperties, LenProperties
      <4>3. \A i \in 1..Len(delivered') : i \in 1..Len(delivered) \/ i = Len(delivered) + 1
        BY <4>1, <4>2
      <4>4. \A i \in 1..Len(delivered) : delivered[i] \in 1..Handled /\ arr[delivered[i]] # "empty"
        BY <2>2 DEF Position, Passed
      <4>5. \A i \in 1..Len(delivered') : delivered'[i] \in 1..h /\ arr[delivered'[i]] # "empty"
        BY <2>9, <3>2, <4>2, <4>3, <4>4
      <4>6. 1..Len(delivered) \subseteq 1..Len(delivered') /\ Len(delivered) + 1 \in 1..Len(delivered')
        BY <4>1, <4>2
      <4>7. ASSUME NEW n \in 1..h, arr[n] # "empty"
            PROVE  \E i \in 1..Len(delivered') : delivered'[i] = n
        <5>1. CASE n \in 1..Handled
          <6>1. PICK i \in 1..Len(delivered) : delivered[i] = n
            BY <2>2, <4>7, <5>1 DEF Position, Passed
          <6> QED
            BY <4>2, <4>6, <6>1
        <5>2. CASE n = h
          BY <4>2, <4>6, <5>2
        <5> QED
          BY <2>8, <5>1, <5>2
      <4>8. ASSUME NEW i \in DOMAIN delivered', NEW j \in DOMAIN delivered', i < j
            PROVE  delivered'[i] < delivered'[j]
        <5>1. i \in 1..Len(delivered) /\ (j \in 1..Len(delivered) \/ j = Len(delivered) + 1)
          BY <4>1, <4>2, <4>8
        <5>2. CASE j \in 1..Len(delivered)
          <6>1. DOMAIN delivered = 1..Len(delivered)
            BY <4>1, LenProperties
          <6> QED
            BY <2>2, <4>2, <4>8, <5>1, <5>2, <6>1 DEF Increasing
        <5>3. CASE j = Len(delivered) + 1
          <6>1. delivered'[i] \in 1..Handled /\ delivered'[j] = h
            BY <4>2, <4>4, <5>1, <5>3
          <6> QED
            BY <2>4, <6>1 DEF h
        <5> QED
          BY <5>1, <5>2, <5>3
      <4>9. Increasing(delivered')
        BY <4>8 DEF Increasing
      <4> QED
        BY <1>1, <2>4, <4>5, <4>7, <4>9 DEF Passed
    <3> QED
      BY <1>5, <2>4, <2>5, <3>1, <3>2
  <2>11. Passed(Handled, delivered)'
    BY <1>1, <2>4, <2>10 DEF Passed
  <2>12. TakenPieces' % InUnits' = Phase'
    BY <1>1, <1>2, <2>2, <2>7 DEF Position
  <2>13. Position'
    BY <2>6, <2>7, <2>11, <2>12 DEF Position
  <2> QED
    BY <2>10, <2>13 DEF Increasing
<1> QED
  BY <1>3, <1>4, <1>5 DEF Deliver, Refused

LEMMA InStepStep ==
    ASSUME UInv, [Next]_vars
    PROVE  InStep'
<1> USE DEF taskVars, appVars, sockVars, histVars
<1>0. CASE Blocked
  <2>1. delivered' = delivered /\ garbled' = garbled /\ ~Alive'
    BY <1>0 DEF Blocked, Goto, Alive
  <2> QED
    BY <2>1, DirectionEnds
<1>1. CASE \/ Connect \/ FwdF \/ Send \/ SendGivesUp \/ Choose \/ SplicerGivesUp \/ Destruct
  <2>1. UNCHANGED <<mode, got, delivered, garbled, res_b, inq, fed, arr>>
    <3>1. CASE Connect \/ FwdF \/ Choose \/ SplicerGivesUp \/ Destruct
      BY <3>1 DEF Connect, FwdF, Choose, SplicerGivesUp, Destruct
    <3>2. CASE Send \/ SendGivesUp
      BY <3>2 DEF Send, SendGivesUp
    <3> QED
      BY <1>1, <3>1, <3>2
  <2>2. TakenPieces' = TakenPieces
    BY <2>1 DEF TakenPieces
  <2>3. pc \in {"connect", "f", "send", "choose", "end"}
    BY <1>1 DEF Connect, FwdF, Send, SendGivesUp, Choose, SplicerGivesUp, Destruct, Running,
                GaveUp
  <2>4. pc' \in {pc, "f", "end", "send", "choose", "head", "recv", "done"}
    <3>1. CASE Connect \/ FwdF \/ Choose \/ SplicerGivesUp \/ Destruct
      BY <3>1 DEF Connect, FwdF, Choose, SplicerGivesUp, Destruct, ToB, Goto
    <3>2. CASE Send \/ SendGivesUp
      BY <3>2 DEF Send, SendGivesUp, FinishSend, ToB, Goto
    <3> QED
      BY <1>1, <3>1, <3>2
  <2>5. Alive /\ Phase' = Phase /\ pc' \notin InFrame
    BY <2>3, <2>4 DEF Alive, Phase, InFrame
  <2> QED
    BY <2>1, <2>2, <2>5, StillInStep
<1>2. CASE \/ Timeout \/ (\E named \in BOOLEAN : UdpRecv(named)) \/ Terminate \/ SrvClose
           \/ SrvRead \/ IoPoll \/ UNCHANGED vars
  <2>1. UNCHANGED <<mode, got, cur, delivered, garbled, res_b, arr, pc>>
    BY <1>2 DEF Timeout, UdpRecv, Terminate, SrvClose, SrvRead, IoPoll, Wakeup, vars
  <2>2. TakenPieces' = TakenPieces
    <3>1. CASE SrvClose
      BY <3>1, CloseArrived
    <3>2. CASE ~SrvClose
      <4>1. UNCHANGED <<inq, fed>>
        BY <1>2, <3>2 DEF Timeout, UdpRecv, Terminate, SrvRead, IoPoll, vars
      <4> QED
        BY <4>1 DEF TakenPieces
    <3> QED
      BY <3>1, <3>2
  <2>3. Phase' = Phase /\ (Alive' => Alive)
    BY <2>1 DEF Phase, Alive
  <2> QED
    BY <2>1, <2>2, <2>3, StillInStep
<1>3. ASSUME NEW kind \in Kinds, SrvSend(kind) PROVE InStep'
  <2>1. UNCHANGED <<mode, got, cur, delivered, garbled, res_b, pc>>
    BY <1>3 DEF SrvSend
  <2>2. TakenPieces' = TakenPieces /\ \A n \in 1..Len(arr) : arr'[n] = arr[n]
    BY <1>3, PieceArrives
  <2>3. Phase' = Phase /\ (Alive' => Alive)
    BY <2>1 DEF Phase, Alive
  <2> QED
    BY <2>1, <2>2, <2>3, StillInStep
<1>4. CASE ReadGivesUp
  <2>1. delivered' = delivered /\ garbled' = TRUE
    BY <1>4 DEF ReadGivesUp, TornHead, TornBody, UseUnwritten
  <2> QED
    BY <2>1, DirectionEnds
<1> QED
  BY <1>0, <1>1, <1>2, <1>3, <1>4, BatchInStep, HeadInStep, FrameInStep, DeliverInStep DEF Next, Task

-----------------------------------------------------------------------------
(* The invariant *)

LEMMA InitUInv == Init => UInv
<1> SUFFICES ASSUME Init PROVE UInv
  OBVIOUS
<1>0. acc = 0 /\ fed = 0 /\ size = 0 /\ batch = 0 /\ pc = "connect"
  BY DEF Init
<1>1. Len(frames) = 0 /\ Len(got) = 0 /\ Len(inq) = 0 /\ Len(wire) = 0 /\ Len(arr) = 0
      /\ Len(delivered) = 0
  BY DEF Init
<1>2. Types
  <2>1. frames \in Seq(Nat) /\ got \in Seq(Nat) /\ delivered \in Seq(Nat)
        /\ inq \in Seq(Nat \X Nat) /\ wire \in Seq(Nat \X Nat) /\ arr \in Seq(Kinds)
    BY EmptySeq DEF Init
  <2>2. /\ mode \in {"tcp", "udp"} /\ res_f \in {-1, 0, 1} /\ res_b \in {-1, 0, 1}
        /\ batch \in Nat /\ size \in Nat /\ cur \in Nat
        /\ sent \in Nat /\ acc \in Nat /\ room \in Nat /\ fed \in Nat
    BY UdpSessionAssumption DEF Init, Garbage
  <2>3. /\ addr \in BOOLEAN /\ terminated \in BOOLEAN /\ edge \in BOOLEAN
        /\ noSpace \in BOOLEAN /\ eof \in BOOLEAN /\ sockErr \in BOOLEAN
        /\ ctl \in BOOLEAN /\ torn \in BOOLEAN /\ garbled \in BOOLEAN
        /\ late \in BOOLEAN
    BY Zenon DEF Init
  <2>4. pc = "connect" /\ susp = "ready"
    BY DEF Init
  <2> QED
    BY <2>1, <2>2, <2>3, <2>4, Zenon DEF Types
<1>3. OutUnits \in {1, 2} /\ InUnits \in {1, 3}
  BY <1>2, Units
<1>4. Queued
  BY <1>1, <1>3, UdpSessionAssumption DEF Init, Queued
<1>5. Written
  <2>1. Gone = 0 /\ size = 0
    BY <1>0, <1>1 DEF Gone
  <2>2. Len(wire) = Gone * OutUnits + size /\ 1..Len(wire) = {}
    BY <1>1, <1>3, <2>1
  <2>3. Exactly(wire, Gone, size) /\ InOrder(wire, Gone, size)
    BY <2>2 DEF Exactly, InOrder
  <2>4. ~torn
    BY DEF Init
  <2> QED
    BY <2>3, <2>4 DEF Written
<1>6. Arrived
  BY <1>1, <1>3 DEF Init, Arrived
<1>7. InStep
  <2>1. TakenPieces = 0 /\ Whole = 0 /\ Handled = 0 /\ 0 % InUnits = 0
    BY <1>0, <1>1, <1>3 DEF TakenPieces, Whole, Handled
  <2>2. Passed(0, delivered)
    BY <1>1 DEF Passed
  <2>3. Phase = 0 /\ pc \notin InFrame
    BY DEF Init, Phase, InFrame
  <2>4. Position
    BY <1>1, <2>1, <2>2, <2>3 DEF Position
  <2>5. Increasing(delivered)
    BY DEF Init, Increasing
  <2> QED
    BY <2>4, <2>5 DEF InStep
<1>8. Calm /\ Awake
  BY DEF Init, Calm, Awake, Receiving, InFrame, Asleep, Late
<1> QED
  BY <1>2, <1>4, <1>5, <1>6, <1>7, <1>8 DEF UInv

LEMMA NextUInv == UInv /\ [Next]_vars => UInv'
  BY TypesStep, WrittenStep, ArrivedStep, InStepStep, CalmStep, AwakeStep DEF UInv

LEMMA Invariance == Spec => []UInv
  BY InitUInv, NextUInv, PTL DEF Spec

-----------------------------------------------------------------------------
(* What the invariant says of the wire, of the deliveries and of a sleeping task *)

LEMMA UptoProperties ==
    ASSUME NEW n \in Nat
    PROVE  Upto(n) \in Seq(Nat) /\ Len(Upto(n)) = n /\ \A i \in 1..n : Upto(n)[i] = i
<1>1. Upto(n) \in [1..n -> Nat] /\ \A i \in 1..n : Upto(n)[i] = i
  BY DEF Upto
<1>2. Upto(n) \in Seq(Nat) /\ DOMAIN Upto(n) = 1..n
  BY <1>1, SeqDef
<1>3. Len(Upto(n)) = n
  BY <1>2, LenProperties, RangeEnd
<1> QED
  BY <1>1, <1>2, <1>3

\* Piece k of the stream is piece k - g * u of what follows the first g datagrams.
LEMMA PieceAfter ==
    ASSUME NEW g \in Nat, NEW u \in {1, 2}, NEW k \in Nat, k > g * u
    PROVE  /\ ((k - g * u) - 1) \div u \in Nat
           /\ g + ((((k - g * u) - 1) \div u) + 1) = ((k - 1) \div u) + 1
           /\ ((k - g * u) - 1) % u = (k - 1) % u
<1>1. CASE u = 1
  BY <1>1
<1>2. CASE u = 2
  BY <1>2
<1> QED
  BY <1>1, <1>2

LEMMA WireThenQueue ==
    ASSUME UInv, ~torn, pc \notin Freed
    PROVE  wire \o Drop(Pieces(frames), size) = Pieces(Upto(acc))
<1> DEFINE queue == Pieces(frames)
           rest == Drop(queue, size)
           all == Pieces(Upto(acc))
<1>1. /\ OutUnits \in {1, 2} /\ acc \in Nat /\ frames \in Seq(Nat) /\ Len(frames) \in Nat
      /\ wire \in Seq(Nat \X Nat) /\ Len(wire) \in Nat /\ size \in Nat
      /\ Len(frames) <= acc /\ Gone = acc - Len(frames) /\ Gone \in Nat
  BY Units, LenProperties DEF UInv, Types, Queued, Gone
<1>2. size \in 0..(Len(frames) * OutUnits)
  <2>1. CASE pc = "send"
    <3>1. batch \in 1..Len(frames) /\ size < batch * OutUnits
      BY <2>1 DEF UInv, Queued
    <3> QED
      BY <1>1, <3>1
  <2>2. CASE pc # "send"
    <3>1. size = 0
      BY <2>2 DEF UInv, Queued
    <3> QED
      BY <1>1, <3>1
  <2> QED
    BY <2>1, <2>2
<1>3. /\ queue \in Seq(Nat \X Nat) /\ Len(queue) = Len(frames) * OutUnits
      /\ \A k \in 1..(Len(frames) * OutUnits) :
            /\ ((k - 1) \div OutUnits) + 1 \in 1..Len(frames)
            /\ queue[k] = <<frames[((k - 1) \div OutUnits) + 1], ((k - 1) % OutUnits) + 1>>
  BY <1>1, PiecesProperties DEF UInv
<1>4. /\ rest \in Seq(Nat \X Nat) /\ Len(rest) = Len(frames) * OutUnits - size
      /\ \A i \in 1..(Len(frames) * OutUnits - size) : rest[i] = queue[size + i]
  <2> HIDE DEF queue
  <2>1. queue \in Seq(Nat \X Nat) /\ size \in 0..Len(queue)
    BY <1>2, <1>3
  <2>2. /\ rest \in Seq(Nat \X Nat) /\ Len(rest) = Len(queue) - size
        /\ \A i \in 1..(Len(queue) - size) : rest[i] = queue[size + i]
    BY <2>1, DropProperties
  <2> HIDE DEF rest
  <2> QED
    BY <1>3, <2>2
<1>5. /\ all \in Seq(Nat \X Nat) /\ Len(all) = acc * OutUnits
      /\ \A k \in 1..(acc * OutUnits) : all[k] = Piece(k, OutUnits)
  <2> DEFINE up == Upto(acc)
  <2>1. up \in Seq(Nat) /\ Len(up) = acc /\ \A i \in 1..acc : up[i] = i
    BY <1>1, UptoProperties
  <2> HIDE DEF up
  <2>2. /\ Pieces(up) \in Seq(Nat \X Nat) /\ Len(Pieces(up)) = acc * OutUnits
        /\ \A k \in 1..(acc * OutUnits) :
              /\ ((k - 1) \div OutUnits) + 1 \in 1..acc
              /\ Pieces(up)[k] = <<up[((k - 1) \div OutUnits) + 1], ((k - 1) % OutUnits) + 1>>
    BY <2>1, PiecesProperties DEF UInv
  <2>3. \A k \in 1..(acc * OutUnits) : Pieces(up)[k] = Piece(k, OutUnits)
    BY <2>1, <2>2 DEF Piece
  <2> QED
    BY <2>2, <2>3 DEF up
<1>6. Len(wire) = Gone * OutUnits + size /\ \A k \in 1..Len(wire) : wire[k] = Piece(k, OutUnits)
  BY DEF UInv, Written, Exactly
<1> HIDE DEF queue, rest, all
<1>7. /\ wire \o rest \in Seq(Nat \X Nat) /\ Len(wire \o rest) = Len(wire) + Len(rest)
      /\ \A i \in 1..(Len(wire) + Len(rest)) :
            (wire \o rest)[i] = IF i <= Len(wire) THEN wire[i] ELSE rest[i - Len(wire)]
  BY <1>1, <1>4, ConcatProperties
<1>8. Len(wire) + Len(rest) = acc * OutUnits
  <2>1. CASE OutUnits = 1
    BY <1>1, <1>2, <1>4, <1>6, <2>1
  <2>2. CASE OutUnits = 2
    BY <1>1, <1>2, <1>4, <1>6, <2>2
  <2> QED
    BY <1>1, <2>1, <2>2
<1>9. ASSUME NEW k \in 1..(acc * OutUnits) PROVE (wire \o rest)[k] = all[k]
  <2>1. CASE k <= Len(wire)
    <3>1. k \in 1..Len(wire)
      BY <1>1, <2>1
    <3> QED
      BY <1>5, <1>6, <1>7, <1>8, <2>1, <3>1
  <2>2. CASE ~(k <= Len(wire))
    <3> DEFINE m == k - Gone * OutUnits
               q == ((m - 1) \div OutUnits) + 1
    <3>1. /\ Gone * OutUnits \in Nat /\ k \in Nat /\ k > Gone * OutUnits /\ m \in Int
          /\ k - Len(wire) \in 1..(Len(frames) * OutUnits - size)
          /\ size + (k - Len(wire)) = m /\ m \in 1..(Len(frames) * OutUnits)
      <4>1. Len(rest) = Len(frames) * OutUnits - size /\ Len(wire) = Gone * OutUnits + size
        BY <1>4, <1>6
      <4>2. CASE OutUnits = 1
        BY <1>1, <1>2, <1>8, <2>2, <4>1, <4>2
      <4>3. CASE OutUnits = 2
        BY <1>1, <1>2, <1>8, <2>2, <4>1, <4>3
      <4> QED
        BY <1>1, <4>2, <4>3
    <3>2. Gone + q = ((k - 1) \div OutUnits) + 1 /\ (m - 1) % OutUnits = (k - 1) % OutUnits
      <4>1. Gone \in Nat /\ OutUnits \in {1, 2} /\ k \in Nat /\ k > Gone * OutUnits
        BY <1>1, <3>1
      <4> QED
        BY <4>1, PieceAfter
    <3> HIDE DEF m
    <3>3. (wire \o rest)[k] = queue[m]
      <4>1. (wire \o rest)[k] = rest[k - Len(wire)]
        BY <1>7, <1>8, <2>2
      <4>2. rest[k - Len(wire)] = queue[size + (k - Len(wire))]
        BY <1>4, <3>1
      <4> QED
        BY <3>1, <4>1, <4>2
    <3>4. queue[m] = <<frames[q], ((m - 1) % OutUnits) + 1>> /\ q \in 1..Len(frames)
      BY <1>3, <3>1
    <3> HIDE DEF q
    <3>5. frames[q] = Gone + q
      BY <3>4 DEF UInv, Queued
    <3> QED
      BY <1>5, <3>2, <3>3, <3>4, <3>5 DEF Piece
  <2> QED
    BY <2>1, <2>2
<1>10. wire \o rest = all
  BY <1>5, <1>7, <1>8, <1>9, SeqEqual
<1> QED
  BY <1>10 DEF queue, rest, all

LEMMA UInvSent == UInv => SentInOrder
<1> SUFFICES ASSUME UInv PROVE SentInOrder
  OBVIOUS
<1>1. DOMAIN wire = 1..Len(wire)
  BY LenProperties DEF UInv, Types
<1>2. \A i, j \in DOMAIN wire : i < j => wire[i][1] <= wire[j][1]
  BY <1>1 DEF UInv, Written, InOrder
<1>3. Len(frames) <= UDP_POOL_SIZE + 1 /\ (torn => mode = "tcp")
  BY DEF UInv, Queued, Written
<1> QED
  BY <1>2, <1>3, WireThenQueue DEF SentInOrder, Freed

LEMMA UInvDelivered == UInv => DeliveredInOrder
<1> SUFFICES ASSUME UInv, ~garbled PROVE DeliveredInOrder
  BY DEF DeliveredInOrder
<1>1. Increasing(delivered)
  BY DEF UInv, InStep
<1>2. /\ delivered \in Seq(Nat) /\ got \in Seq(Nat)
      /\ Len(delivered) \in Nat /\ Len(got) \in Nat
      /\ DOMAIN delivered = 1..Len(delivered) /\ DOMAIN got = 1..Len(got)
  BY LenProperties DEF UInv, Types
<1>3. ASSUME res_b >= 0, Alive
      PROVE  /\ Increasing(delivered \o got)
             /\ ToSet(delivered) \cup NonEmpty(ToSet(got)) = NonEmpty(1..Whole)
  <2>1. Position
    BY <1>3 DEF UInv, InStep
  <2>2. /\ Handled \in Nat /\ Whole \in Nat /\ Handled + Len(got) = Whole
        /\ \A i \in 1..Len(got) : got[i] = Handled + i
        /\ \A i \in 1..Len(delivered) : delivered[i] \in 1..Handled
        /\ \A i \in 1..Len(delivered) : arr[delivered[i]] # "empty"
        /\ \A n \in 1..Handled : arr[n] # "empty" => \E i \in 1..Len(delivered) : delivered[i] = n
    <3>1. Handled >= 0 /\ Handled + Len(got) = Whole
      BY <2>1, ArrivedTypes DEF Position, Passed, Handled
    <3> QED
      BY <2>1, <3>1, ArrivedTypes DEF Position, Passed
  <2>3. \A x \in 1..Whole : Kind(x) = arr[x]
    BY <2>2 DEF Kind, Garbage
  <2>4. Increasing(delivered \o got)
    <3> DEFINE both == delivered \o got
    <3>1. /\ both \in Seq(Nat) /\ Len(both) = Len(delivered) + Len(got)
          /\ \A i \in 1..(Len(delivered) + Len(got)) :
                both[i] = IF i <= Len(delivered) THEN delivered[i] ELSE got[i - Len(delivered)]
      BY <1>2, ConcatProperties
    <3>2. DOMAIN both = 1..(Len(delivered) + Len(got))
      BY <3>1, LenProperties
    <3> HIDE DEF both
    <3>3. ASSUME NEW i \in DOMAIN both, NEW j \in DOMAIN both, i < j PROVE both[i] < both[j]
      <4>1. i \in 1..(Len(delivered) + Len(got)) /\ j \in 1..(Len(delivered) + Len(got))
        BY <3>2
      <4>2. CASE j <= Len(delivered)
        <5>1. i \in 1..Len(delivered) /\ j \in 1..Len(delivered)
          BY <1>2, <3>3, <4>1, <4>2
        <5>2. both[i] = delivered[i] /\ both[j] = delivered[j]
          BY <1>2, <3>1, <4>1, <5>1
        <5> QED
          BY <1>1, <1>2, <3>3, <5>1, <5>2 DEF Increasing
      <4>3. CASE ~(j <= Len(delivered))
        <5>1. j - Len(delivered) \in 1..Len(got) /\ both[j] = got[j - Len(delivered)]
          BY <1>2, <3>1, <4>1, <4>3
        <5>2. both[j] = Handled + (j - Len(delivered))
          BY <2>2, <5>1
        <5>3. CASE i <= Len(delivered)
          <6>1. i \in 1..Len(delivered) /\ both[i] = delivered[i]
            BY <1>2, <3>1, <4>1, <5>3
          <6>2. both[i] \in 1..Handled
            BY <2>2, <6>1
          <6> QED
            BY <2>2, <5>1, <5>2, <6>2
        <5>4. CASE ~(i <= Len(delivered))
          <6>1. i - Len(delivered) \in 1..Len(got) /\ both[i] = got[i - Len(delivered)]
            BY <1>2, <3>1, <4>1, <5>4
          <6>2. both[i] = Handled + (i - Len(delivered))
            BY <2>2, <6>1
          <6> QED
            BY <1>2, <2>2, <3>3, <4>1, <5>2, <6>2
        <5> QED
          BY <5>3, <5>4
      <4> QED
        BY <4>2, <4>3
    <3>4. Increasing(both)
      BY <3>3 DEF Increasing
    <3> QED
      BY <3>4 DEF both
  <2>5. ASSUME NEW x \in ToSet(delivered) PROVE x \in NonEmpty(1..Whole)
    <3>1. PICK i \in 1..Len(delivered) : x = delivered[i]
      BY <1>2, <2>5 DEF ToSet
    <3>2. x \in 1..Handled /\ arr[x] # "empty"
      BY <2>2, <3>1
    <3>3. x \in 1..Whole
      BY <1>2, <2>2, <3>2
    <3> QED
      BY <2>3, <3>2, <3>3 DEF NonEmpty
  <2>6. ASSUME NEW x \in NonEmpty(ToSet(got)) PROVE x \in NonEmpty(1..Whole)
    <3>1. PICK i \in 1..Len(got) : x = got[i]
      BY <1>2, <2>6 DEF ToSet, NonEmpty
    <3>2. x \in 1..Whole
      BY <1>2, <2>2, <3>1
    <3> QED
      BY <2>6, <3>2 DEF NonEmpty
  <2>7. ASSUME NEW x \in NonEmpty(1..Whole)
        PROVE  x \in ToSet(delivered) \cup NonEmpty(ToSet(got))
    <3>1. x \in 1..Whole /\ Kind(x) # "empty"
      BY <2>7 DEF NonEmpty
    <3>2. CASE x <= Handled
      <4>1. x \in 1..Handled /\ arr[x] # "empty"
        BY <2>2, <2>3, <3>1, <3>2
      <4>2. PICK i \in 1..Len(delivered) : delivered[i] = x
        BY <2>2, <4>1
      <4> QED
        BY <1>2, <4>2 DEF ToSet
    <3>3. CASE ~(x <= Handled)
      <4>1. x - Handled \in 1..Len(got) /\ Handled + (x - Handled) = x
        BY <1>2, <2>2, <3>1, <3>3
      <4>2. got[x - Handled] = x
        BY <2>2, <4>1
      <4>3. x \in ToSet(got)
        BY <1>2, <4>1, <4>2 DEF ToSet
      <4> QED
        BY <3>1, <4>3 DEF NonEmpty
    <3> QED
      BY <3>2, <3>3
  <2> QED
    BY <2>4, <2>5, <2>6, <2>7
<1> QED
  BY <1>1, <1>3 DEF DeliveredInOrder, Whole, TakenPieces

LEMMA UInvWakeup == UInv => NoLostWakeup
<1> SUFFICES ASSUME UInv, susp = "wait", ~edge PROVE NoLostWakeup
  BY DEF NoLostWakeup
<1>1. ~terminated /\ ~CtlGone
  BY DEF UInv, Awake
<1>2. ASSUME pc = "f"
      PROVE  /\ res_f < 0 \/ frames = <<>> \/ late
             /\ \/ res_b < 0 \/ garbled
                \/ inq = <<>> /\ ~eof /\ ~sockErr
  <2>1. res_f \in {-1, 0} /\ res_b \in {-1, 0}
    BY <1>2 DEF UInv, Types, Awake, Asleep
  <2>2. Late => late
    BY <1>2 DEF UInv, Awake, Asleep
  <2>3. res_b = 0 => garbled \/ Quiet
    BY <1>2 DEF UInv, Awake, Asleep
  <2> QED
    BY <2>1, <2>2, <2>3 DEF Late, Quiet
<1>3. pc = "send" => room = 0 /\ ~sockErr
  BY DEF UInv, Awake, Asleep
<1>4. pc \in {"rest", "body"} => inq = <<>> /\ ~eof /\ ~sockErr
  BY DEF UInv, Awake, InFrame, Quiet
<1> QED
  BY <1>1, <1>2, <1>3, <1>4 DEF NoLostWakeup

-----------------------------------------------------------------------------
(* The theorems *)

(****************************************************************************)
(* fwd_f and udp_recv_handler: what was written and what is queued are       *)
(* together the accepted datagrams, piece by piece, whatever part of a batch *)
(* a send takes and whenever a datagram is queued or the send is given up;   *)
(* after a batch of UDP_IN_TCP was cut short the order still holds. The      *)
(* queue never holds more than one datagram beyond the pool.                 *)
(****************************************************************************)
THEOREM SentInOrderAlways == Spec => []SentInOrder
  BY Invariance, UInvSent, PTL

(****************************************************************************)
(* fwd_b: while the stream is in step the application gets the server's      *)
(* datagrams in order and once, and as long as the direction lives none that *)
(* was read is missing, for every way the pieces of a frame may come in and  *)
(* every size of a batch.                                                    *)
(****************************************************************************)
THEOREM DeliveredInOrderAlways == Spec => []DeliveredInOrder
  BY Invariance, UInvDelivered, PTL

(****************************************************************************)
(* The splicer, a blocked send and a frame that is read in parts: a task     *)
(* that sleeps has nothing to do, or an event under way will wake it, but    *)
(* for a datagram queued while the task waited inside a frame that then      *)
(* failed, and for what is received while the stream is out of step.         *)
(****************************************************************************)
THEOREM NoWakeupLost == Spec => []NoLostWakeup
  BY Invariance, UInvWakeup, PTL

=============================================================================
